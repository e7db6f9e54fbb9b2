--------------------------- MODULE LocalSubstrate ---------------------------
(***************************************************************************)
(* LocalGpuSubstrate (local_substrate.py): compute jobs as detached local  *)
(* processes.  It keeps nothing in memory; a job is what its run directory *)
(* says, and every file is written in place, so a process that dies while  *)
(* writing one leaves it torn.  submit is called under the registry's      *)
(* admission lock, so one call runs at a time; a process polls without it. *)
(*                                                                         *)
(* A job is two processes: the wrapper, whose pid meta.json records, and   *)
(* the payload the wrapper waits for.  Left out: the device and memory     *)
(* checks of preflight, which refuse before anything is written, and calls *)
(* without an idempotency key, which the registry never makes.             *)
(***************************************************************************)
EXTENDS Integers, FiniteSets

CONSTANTS
  Keys,           \* idempotency keys
  Handles,        \* names uuid4 may give a run directory
  NoKey,          \* the intent of a directory that does not exist
  NoHandle,       \* the handle of nobody's call
  MaxConcurrent,  \* max_concurrent
  MaxFaults       \* bound on crashes, kills, torn markers and reused pids, together

ASSUME HandleAssumption ==
  /\ IsFiniteSet(Handles)
  /\ {NoHandle, "absent", "torn"} \cap Handles = {}
  /\ NoKey \notin Keys
ASSUME LimitAssumption == MaxConcurrent \in Nat /\ MaxFaults \in Nat

VARIABLES
  marker,   \* key -> the handle its key file names, "absent" or "torn"
  intent,   \* handle -> the key its directory was made for
  meta,     \* handle -> what meta.json holds
  done,     \* handle -> what done.json holds
  job,      \* handle -> its wrapper process
  payload,  \* handle -> the process the wrapper started
  call,     \* the submit under way: point reached and handle
  probe,    \* the poll under way: point reached and handle
  told,     \* handle -> last thing its caller was told of it
  refused,  \* keys whose caller was told last that nothing was started
  faults    \* faults so far

disk  == <<marker, intent, meta, done>>
procs == <<job, payload>>
says  == <<told, refused>>
vars  == <<disk, procs, call, probe, says, faults>>

MetaState    == {"none", "torn", "nopid", "pid"}
DoneState    == {"missing", "torn", "whole"}
\* "reused": the wrapper is dead and its pid names a stranger's process.
JobState     == {"none", "waiting", "writing", "dead", "reused"}
PayloadState == {"none", "running", "ended"}
CallPC       == {"idle", "meta", "marker", "marker_open", "spawn", "pid", "pid_open"}
ProbePC      == {"idle", "meta", "alive", "again"}
\* "unknown": no submit returned the handle; "new": nobody polled it yet.
Told         == {"unknown", "new", "submitted", "resolved", "lost"}

Idle == [pc |-> "idle", handle |-> NoHandle]

-----------------------------------------------------------------------------
(* What the files say.                                                     *)

\* Mutant of Alive: an unreaped corpse still answers signal 0.
AliveZombie(h) == job[h] # "none"

\* _alive: a reused pid reads as a live job.
Alive(h) == job[h] \in {"waiting", "writing", "reused"}

\* Mutant of StateOf: a job whose pid is not on disk yet does not run.
StateOfWithPid(h) ==
  IF done[h] # "missing" THEN "resolved"
  ELSE IF meta[h] = "pid" /\ Alive(h) THEN "submitted"
  ELSE "lost"

\* _state_of, at one instant.
StateOf(h) ==
  IF done[h] # "missing" THEN "resolved"
  ELSE IF meta[h] = "nopid" \/ (meta[h] = "pid" /\ Alive(h)) THEN "submitted"
  ELSE "lost"

\* running().  The scan is not atomic, but jobs end one at a time: whatever it
\* counts is what one instant of the scan would have counted.
Running == {h \in Handles : StateOf(h) = "submitted"}

-----------------------------------------------------------------------------
(* submit                                                                  *)

CallAt(label) == call.pc = label

\* One step of the call under way: the next point, the files it leaves.
Proceed(label) == call' = [call EXCEPT !.pc = label]

\* The key is on disk: its handle is the answer, and no job is started.
SubmitKnown(k) ==
  /\ CallAt("idle")
  /\ marker[k] \in Handles
  /\ told' = [told EXCEPT ![marker[k]] = IF @ = "unknown" THEN "new" ELSE @]
  /\ refused' = refused \ {k}
  /\ UNCHANGED <<disk, procs, call, probe, faults>>

\* Mutant of Declines: an unreadable marker is a refusal, as before BRE-41.
DeclinesUnreadable(k) ==
  marker[k] = "torn" \/ (marker[k] = "absent" /\ Cardinality(Running) >= MaxConcurrent)

\* SubstrateRefused: preflight finds no room for an unseen key.  An unreadable
\* marker raises SubstrateUncertain, which says nothing and changes nothing.
Declines(k) == marker[k] = "absent" /\ Cardinality(Running) >= MaxConcurrent

SubmitDeclined(k) ==
  /\ CallAt("idle")
  /\ Declines(k)
  /\ refused' = refused \cup {k}
  /\ UNCHANGED <<disk, procs, call, probe, told, faults>>

\* An unseen key that passes preflight: a fresh directory, and meta.json
\* opened.  A directory without meta.json reads like one with a torn one.
SubmitBegin(k) ==
  /\ CallAt("idle")
  /\ marker[k] = "absent"
  /\ Cardinality(Running) < MaxConcurrent
  /\ \E h \in Handles :
       /\ meta[h] = "none"
       /\ intent' = [intent EXCEPT ![h] = k]
       /\ meta'   = [meta EXCEPT ![h] = "torn"]
       /\ call'   = [pc |-> "meta", handle |-> h]
  /\ refused' = refused \ {k}
  /\ UNCHANGED <<marker, done, procs, probe, told, faults>>

\* Mutant of WriteMeta: the job is spawned first and the marker never written.
WriteMetaThenSpawn ==
  /\ CallAt("meta")
  /\ meta' = [meta EXCEPT ![call.handle] = "nopid"]
  /\ Proceed("spawn")
  /\ UNCHANGED <<marker, intent, done, procs, probe, says, faults>>

WriteMeta ==
  /\ CallAt("meta")
  /\ meta' = [meta EXCEPT ![call.handle] = "nopid"]
  /\ Proceed("marker")
  /\ UNCHANGED <<marker, intent, done, procs, probe, says, faults>>

OpenMarker ==
  /\ CallAt("marker")
  /\ marker' = [marker EXCEPT ![intent[call.handle]] = "torn"]
  /\ Proceed("marker_open")
  /\ UNCHANGED <<intent, meta, done, procs, probe, says, faults>>

\* Mutant of WriteMarker: the key is stored where the handle belongs.
WriteMarkerKey ==
  /\ CallAt("marker_open")
  /\ marker' = [marker EXCEPT ![intent[call.handle]] = intent[call.handle]]
  /\ Proceed("spawn")
  /\ UNCHANGED <<intent, meta, done, procs, probe, says, faults>>

WriteMarker ==
  /\ CallAt("marker_open")
  /\ marker' = [marker EXCEPT ![intent[call.handle]] = call.handle]
  /\ Proceed("spawn")
  /\ UNCHANGED <<intent, meta, done, procs, probe, says, faults>>

\* Popen: the wrapper, which starts the payload.
Spawn ==
  /\ CallAt("spawn")
  /\ job'     = [job EXCEPT ![call.handle] = "waiting"]
  /\ payload' = [payload EXCEPT ![call.handle] = "running"]
  /\ Proceed("pid")
  /\ UNCHANGED <<disk, probe, says, faults>>

\* meta.json is rewritten in place to add the pid.
OpenPid ==
  /\ CallAt("pid")
  /\ meta' = [meta EXCEPT ![call.handle] = "torn"]
  /\ Proceed("pid_open")
  /\ UNCHANGED <<marker, intent, done, procs, probe, says, faults>>

WritePid ==
  /\ CallAt("pid_open")
  /\ meta' = [meta EXCEPT ![call.handle] = "pid"]
  /\ told' = [told EXCEPT ![call.handle] = "new"]
  /\ call' = Idle
  /\ UNCHANGED <<marker, intent, done, procs, probe, refused, faults>>

\* The submitter dies, or a write or Popen raises: the files stay as they are.
SubmitDies ==
  /\ ~CallAt("idle")
  /\ faults < MaxFaults
  /\ faults' = faults + 1
  /\ call' = Idle
  /\ UNCHANGED <<disk, procs, probe, says>>

\* An unclean shutdown truncates a marker that was never synced.
MarkerTorn(k) ==
  /\ marker[k] \in Handles
  /\ faults < MaxFaults
  /\ faults' = faults + 1
  /\ marker' = [marker EXCEPT ![k] = "torn"]
  /\ UNCHANGED <<intent, meta, done, procs, call, probe, says>>

-----------------------------------------------------------------------------
(* The wrapper and the payload.                                            *)

PayloadEnds(h) ==
  /\ payload[h] = "running"
  /\ payload' = [payload EXCEPT ![h] = "ended"]
  /\ UNCHANGED <<disk, job, call, probe, says, faults>>

\* Mutant of OpenDone: the record is written when the payload starts.
OpenDoneEarly(h) ==
  /\ job[h] = "waiting"
  /\ done' = [done EXCEPT ![h] = "torn"]
  /\ job'  = [job EXCEPT ![h] = "writing"]
  /\ UNCHANGED <<marker, intent, meta, payload, call, probe, says, faults>>

\* `finally`: on every exit path of the payload, whatever its exit code.
OpenDone(h) ==
  /\ job[h] = "waiting"
  /\ payload[h] = "ended"
  /\ done' = [done EXCEPT ![h] = "torn"]
  /\ job'  = [job EXCEPT ![h] = "writing"]
  /\ UNCHANGED <<marker, intent, meta, payload, call, probe, says, faults>>

WriteDone(h) ==
  /\ job[h] = "writing"
  /\ done' = [done EXCEPT ![h] = "whole"]
  /\ job'  = [job EXCEPT ![h] = "dead"]
  /\ UNCHANGED <<marker, intent, meta, payload, call, probe, says, faults>>

\* Killed: `finally` does not run and the payload is not signalled.
WrapperDies(h) ==
  /\ job[h] \in {"waiting", "writing"}
  /\ faults < MaxFaults
  /\ faults' = faults + 1
  /\ job' = [job EXCEPT ![h] = "dead"]
  /\ UNCHANGED <<disk, payload, call, probe, says>>

PidReused(h) ==
  /\ job[h] = "dead"
  /\ faults < MaxFaults
  /\ faults' = faults + 1
  /\ job' = [job EXCEPT ![h] = "reused"]
  /\ UNCHANGED <<disk, payload, call, probe, says>>

StrangerExits(h) ==
  /\ job[h] = "reused"
  /\ job' = [job EXCEPT ![h] = "dead"]
  /\ UNCHANGED <<disk, payload, call, probe, says, faults>>

-----------------------------------------------------------------------------
(* poll and cancel                                                         *)

Reply(answer) ==
  /\ told'  = [told EXCEPT ![probe.handle] = answer]
  /\ probe' = Idle

Look(label) ==
  /\ probe' = [probe EXCEPT !.pc = label]
  /\ UNCHANGED told

\* The registry polls what it has bound and not yet recorded as over.
PollDone(h) ==
  /\ probe.pc = "idle"
  /\ told[h] \in {"new", "submitted"}
  /\ IF done[h] # "missing"
       THEN told' = [told EXCEPT ![h] = "resolved"] /\ UNCHANGED probe
       ELSE probe' = [pc |-> "meta", handle |-> h] /\ UNCHANGED told
  /\ UNCHANGED <<disk, procs, call, refused, faults>>

PollMeta ==
  /\ probe.pc = "meta"
  /\ CASE meta[probe.handle] = "pid"   -> Look("alive")
       [] meta[probe.handle] = "nopid" -> Reply("submitted")
       [] OTHER                        -> Reply("lost")
  /\ UNCHANGED <<disk, procs, call, refused, faults>>

\* Mutant of PollAlive: the answer of the probe is final.
PollAliveFinal ==
  /\ probe.pc = "alive"
  /\ IF Alive(probe.handle) THEN Reply("submitted") ELSE Reply("lost")
  /\ UNCHANGED <<disk, procs, call, refused, faults>>

PollAlive ==
  /\ probe.pc = "alive"
  /\ IF Alive(probe.handle) THEN Reply("submitted") ELSE Look("again")
  /\ UNCHANGED <<disk, procs, call, refused, faults>>

\* The job may have finished during the probe: done.json is the authority.
PollAgain ==
  /\ probe.pc = "again"
  /\ Reply(IF done[probe.handle] # "missing" THEN "resolved" ELSE "lost")
  /\ UNCHANGED <<disk, procs, call, refused, faults>>

\* SIGTERM to the recorded pid, whoever has it now; the payload is not its
\* target and outlives the wrapper.
Cancel(h) ==
  /\ told[h] # "unknown"
  /\ meta[h] = "pid"
  /\ Alive(h)
  /\ job' = [job EXCEPT ![h] = "dead"]
  /\ UNCHANGED <<disk, payload, call, probe, says, faults>>

-----------------------------------------------------------------------------

Init ==
  /\ marker  = [k \in Keys |-> "absent"]
  /\ intent  = [h \in Handles |-> NoKey]
  /\ meta    = [h \in Handles |-> "none"]
  /\ done    = [h \in Handles |-> "missing"]
  /\ job     = [h \in Handles |-> "none"]
  /\ payload = [h \in Handles |-> "none"]
  /\ call    = Idle
  /\ probe   = Idle
  /\ told    = [h \in Handles |-> "unknown"]
  /\ refused = {}
  /\ faults  = 0

SubmitGoesOn ==
  WriteMeta \/ OpenMarker \/ WriteMarker \/ Spawn \/ OpenPid \/ WritePid

PollGoesOn == PollMeta \/ PollAlive \/ PollAgain

JobGoesOn(h) ==
  PayloadEnds(h) \/ OpenDone(h) \/ WriteDone(h) \/ StrangerExits(h)

Next ==
  \/ \E k \in Keys :
       SubmitKnown(k) \/ SubmitDeclined(k) \/ SubmitBegin(k) \/ MarkerTorn(k)
  \/ SubmitGoesOn \/ SubmitDies \/ PollGoesOn
  \/ \E h \in Handles :
       \/ JobGoesOn(h) \/ WrapperDies(h) \/ PidReused(h)
       \/ PollDone(h) \/ Cancel(h)

Spec == Init /\ [][Next]_vars

\* A call and a poll go on unless their process dies, and every payload and
\* every stranger that took over a pid ends some day.
FairSpec ==
  /\ Spec
  /\ WF_vars(SubmitGoesOn)
  /\ WF_vars(PollGoesOn)
  /\ \A h \in Handles : WF_vars(JobGoesOn(h))

-----------------------------------------------------------------------------
(* Properties                                                              *)

\* Every variable has its type.
TypeOK ==
  /\ marker \in [Keys -> Handles \cup {"absent", "torn"}]
  /\ intent \in [Handles -> Keys \cup {NoKey}]
  /\ meta \in [Handles -> MetaState]
  /\ done \in [Handles -> DoneState]
  /\ job \in [Handles -> JobState]
  /\ payload \in [Handles -> PayloadState]
  /\ call \in [pc : CallPC, handle : Handles \cup {NoHandle}]
  /\ probe \in [pc : ProbePC, handle : Handles \cup {NoHandle}]
  /\ told \in [Handles -> Told]
  /\ refused \in SUBSET Keys
  /\ faults \in 0 .. MaxFaults

\* "One intent, one job, whatever the caller believes": however often a key is
\* submitted, and wherever a submitter died, one process was started for it
\* (submit's marker, written before Popen).
OneJobPerIntent ==
  \A g, h \in Handles :
    job[g] # "none" /\ job[h] # "none" /\ intent[g] = intent[h] => g = h

\* SubstrateDeclined is "a substrate's way of saying nothing was started": the
\* registry gives the money back on it, so nothing was started and nothing is
\* until the key is submitted again, whatever became of its marker.
RefusedIsUnstarted ==
  \A k \in refused : \A h \in Handles : intent[h] = k => job[h] = "none"

\* poll says that a job is over only if it is: its payload has ended if it is
\* "resolved", and if it is "lost" its wrapper is dead and will never write a
\* completion record, unless a submitter died rewriting meta.json
\* (_state_of, the completion record read again after the liveness probe).
AnswersAreTrue ==
  \A h \in Handles :
    /\ told[h] = "resolved" => payload[h] = "ended"
    /\ told[h] = "lost" =>
         \/ meta[h] = "torn" /\ call.handle # h
         \/ job[h] \in {"dead", "reused"} /\ done[h] = "missing"

\* Payloads on the card, but for those nobody can know of: their wrapper was
\* killed, or a submitter died rewriting their meta.json.
OnCard ==
  {h \in Handles :
     /\ payload[h] = "running"
     /\ job[h] \in {"waiting", "writing"}
     /\ meta[h] \in {"nopid", "pid"} \/ call.handle = h}

\* "One card does not take two jobs": no history of submits, deaths of
\* submitters and finished jobs puts more payloads on the card than
\* max_concurrent (preflight, which counts what running() finds on disk).
CardIsNotShared == Cardinality(OnCard) <= MaxConcurrent

\* A job whose pid was recorded gives its slot back, however it ended: a killed
\* job is not counted for ever (_alive, which knows a corpse from a process).
RecordedSlotIsFreed ==
  \A h \in Handles : (meta[h] = "pid" /\ h \in Running) ~> (h \notin Running)

\* running() promises "handles whose process is still alive": whoever occupies a
\* slot leaves it.  A submitter that dies before the pid is on disk leaves a
\* directory that counts for ever.
EverySlotIsFreed == \A h \in Handles : (h \in Running) ~> (h \notin Running)

(* The contract of a substrate: what the registry sees of a key.           *)

Made(k)    == {h \in Handles : intent[h] = k}
Started(k) == {h \in Made(k) : job[h] # "none"}

LifeOf(k) ==
  IF Made(k) = {} THEN "absent"
  ELSE IF Started(k) = {} THEN "asked"
  ELSE IF \E h \in Started(k) : done[h] # "missing" THEN "done"
  ELSE IF \A h \in Started(k) : job[h] \in {"dead", "reused"} THEN "gone"
  ELSE "running"

\* What poll said of a key: only one of its handles is ever returned.
Said(k, a) == \E h \in Made(k) : told[h] = a

AnswerOf(k) ==
  IF Said(k, "resolved") THEN "resolved"
  ELSE IF Said(k, "lost") THEN "lost"
  ELSE IF Said(k, "submitted") THEN "submitted"
  ELSE "none"

\* A call that will never write the pid of its directory.
CutShort(k) == \E h \in Made(k) : meta[h] # "pid" /\ call.handle # h

Contract == INSTANCE ComputeSubstrate WITH
  life   <- [k \in Keys |-> LifeOf(k)],
  doubt  <- {k \in Keys : CutShort(k)},
  answer <- [k \in Keys |-> AnswerOf(k)]

\* Directories, markers, wrappers and crashes keep the contract the registry
\* relies on: at most one job per key, whose life goes one way, and outcomes
\* that are reported only if they are true.
ImplementsSubstrate == Contract!Spec

-----------------------------------------------------------------------------
(* The inductive invariant behind the safety properties.                   *)

Fresh(h) ==
  meta[h] = "none" /\ intent[h] = NoKey /\ job[h] = "none" /\ told[h] = "unknown"

\* What the call under way has done to its own directory and marker.
CallInv ==
  LET h == call.handle IN
  IF CallAt("idle") THEN h = NoHandle
  ELSE /\ h \in Handles
       /\ intent[h] \in Keys \ refused
       /\ told[h] = "unknown"
       /\ meta[h] = IF call.pc \in {"meta", "pid_open"} THEN "torn" ELSE "nopid"
       /\ job[h] = "none" <=> call.pc \notin {"pid", "pid_open"}
       /\ CallAt("meta") \/ CallAt("marker") => marker[intent[h]] = "absent"
       /\ CallAt("marker_open") => marker[intent[h]] = "torn"
       /\ call.pc \in {"spawn", "pid", "pid_open"} =>
            marker[intent[h]] \in {h, "torn"}

\* What the poll under way has learnt of its handle.
ProbeInv ==
  LET h == probe.handle IN
  probe.pc # "idle" =>
    /\ h \in Handles
    /\ told[h] # "unknown"
    /\ probe.pc \in {"alive", "again"} => meta[h] = "pid"
    /\ probe.pc = "again" => job[h] \in {"dead", "reused"}

\* The directory that speaks for its key.
Speaks(h) ==
  \/ job[h] # "none" \/ told[h] # "unknown"
  \/ call.handle = h /\ call.pc \in {"marker_open", "spawn", "pid", "pid_open"}

\* A job was spawned, and a handle returned, only by way of its key's marker.
MarkerInv ==
  /\ \A k \in Keys : marker[k] \in Handles => intent[marker[k]] = k
  /\ \A h \in Handles :
       /\ intent[h] = NoKey <=> meta[h] = "none"
       /\ meta[h] = "none" => Fresh(h)
       /\ Speaks(h) => intent[h] \in Keys /\ marker[intent[h]] \in {h, "torn"}
  /\ \A g, h \in Handles : Speaks(g) /\ Speaks(h) /\ intent[g] = intent[h] => g = h

\* The wrapper, its payload and its record, in their order.
JobInv ==
  \A h \in Handles :
    /\ meta[h] = "pid" => job[h] # "none"
    /\ job[h] \in {"none", "waiting"} => done[h] = "missing"
    /\ job[h] = "none" => payload[h] = "none"
    /\ job[h] = "writing" => done[h] = "torn"
    /\ done[h] # "missing" => payload[h] = "ended"

\* Whoever may be on the card: a call under way has its place already.
Claiming == OnCard \cup ({call.handle} \ {NoHandle})

DiskInv ==
  TypeOK /\ CallInv /\ ProbeInv /\ MarkerInv /\ JobInv /\ AnswersAreTrue
  /\ RefusedIsUnstarted

ClaimInv == Cardinality(Claiming) <= MaxConcurrent

=============================================================================
