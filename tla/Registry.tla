------------------------------ MODULE Registry ------------------------------
(***************************************************************************)
(* The job registry (registry.py): several runner processes on one machine *)
(* share an append-only, fsynced log of compute jobs and an advisory file  *)
(* lock.  The registry prices a job, reserves the money in the log, asks   *)
(* the compute substrate to start it, binds the handle, and later records  *)
(* the job as resolved or lost.  A circuit breaker stops admission.        *)
(*                                                                         *)
(* The log is represented by what JobRegistry._replay and breaker_reason   *)
(* fold it into: one reservation and one job per idempotency key, and the  *)
(* newest breaker row.  Every row a process appends is one step.  A handle *)
(* is named by the key it was bound to: the substrate mints one per job.   *)
(***************************************************************************)
EXTENDS Integers, FiniteSets, FiniteSetsExt

CONSTANTS
  Runners,     \* processes that open the same log
  Keys,        \* idempotency keys, the caller's or minted
  NoOne,       \* nobody holds the admission lock
  NoKey,       \* a process that works on no key
  Quotes,      \* prices the substrate's rate card may quote
  PerJobCap,
  PerDayCap,
  Day,         \* SECONDS_PER_DAY, in clock ticks
  Windows,     \* deadlines a caller may ask for, in clock ticks
  MaxTime,     \* bound on the clock
  MaxFaults,   \* bound on crashes and on exceptions in a submit, together
  MaxResets    \* bound on human resets and on manual trips, each

ASSUME SortAssumption == NoOne \notin Runners /\ NoKey \notin Keys
ASSUME MoneyAssumption ==
  Quotes \subseteq Nat /\ PerJobCap \in Nat /\ PerDayCap \in Nat
ASSUME TimeAssumption ==
  Day \in Nat /\ Windows \subseteq Nat /\ MaxTime \in Nat
ASSUME BoundAssumption == MaxFaults \in Nat /\ MaxResets \in Nat

VARIABLES
  held,        \* key -> state of its reservation in the replayed log
  charge,      \* key -> what its reserved row priced: at, cost, due
  jobs,        \* key -> state of the job record bound to it
  latch,       \* newest breaker row: "open" after lost/orphaned/tripped
  substrate,   \* key -> what the compute substrate really has
  calls,       \* key -> number of ComputeSubstrate.submit calls made for it
  lock,        \* holder of the admission lock
  pc,          \* process -> where it is in a registry operation
  arg,         \* process -> local variables of that operation
  now,         \* the clock
  faults,      \* what MaxFaults bounds, so far
  resets,      \* human breaker resets so far
  trips        \* manual breaker trips so far

log   == <<held, charge, jobs, latch>>
world == <<substrate, calls>>
procs == <<lock, pc, arg>>
bounds == <<faults, resets, trips>>
vars  == <<log, world, procs, now, bounds>>

ReservationState ==
  {"none", "reserved", "bound", "released", "orphaned", "abandoned"}
JobState == {"none", "submitted", "resolved", "lost"}

\* "asked" is a submit call the substrate has received and not answered.
SubstrateState == {"absent", "asked", "running", "done", "gone"}

Waiting  == {"submit_wait", "reconcile_wait", "sweep_lose"}
InSubmit == {"submit_escalate", "submit_admitted", "submit_priced",
             "submit_reserved", "submit_called"}
InReconcile == {"reconcile_escalate"}
InSweep   == {"sweep", "sweep_resolve", "sweep_lose"}
InCollect == {"collect", "collect_resolve"}
InAbandon == {"abandon"}
PC == {"idle"} \cup Waiting \cup InSubmit \cup InReconcile \cup InSweep
      \cup InCollect \cup InAbandon

\* A process at one of these points is inside `with self._admission_lock()`.
Holding == InSubmit \cup InReconcile

Charge == [at : Nat, cost : Nat, due : Nat]
Locals == [key : Keys \cup {NoKey}, window : Nat, cost : Nat,
           todo : SUBSET Keys, out : SUBSET Keys]

NoCharge == [at |-> 0, cost |-> 0, due |-> 0]
NoLocals == [key |-> NoKey, window |-> 0, cost |-> 0, todo |-> {}, out |-> {}]

-----------------------------------------------------------------------------
(* Views of the replayed log.                                              *)

\* Mutant of Outstanding: a lost job is still polled.
OutstandingWithLost == {k \in Keys : jobs[k] \in {"submitted", "lost"}}

Outstanding == {k \in Keys : jobs[k] = "submitted"}

\* Reservation.is_orphaned: nothing bound it and nobody escalated it yet.
Unescalated == {k \in Keys : held[k] = "reserved"}

\* unaccounted_reservations: no handle, and no human has explained it.
Unaccounted == {k \in Keys : held[k] \in {"reserved", "orphaned"}}

\* Mutant of BreakerOpen: a reset also clears the unexplained reservations.
BreakerOpenWalkOnly == latch = "open"

\* breaker_reason() is not None.
BreakerOpen == Unaccounted # {} \/ latch = "open"

\* Rows that count against the day: jobs, and unbound unreleased reservations.
Charged == {k \in Keys : held[k] \notin {"none", "released"}}

\* Mutant of SpendSince: the first instant of the day is left out.
SpendSinceLate(t) ==
  MapThenSumSet(LAMBDA k : charge[k].cost, {k \in Charged : charge[k].at > t})

\* What was charged from one day before t on.
SpendSince(t) ==
  MapThenSumSet(LAMBDA k : charge[k].cost, {k \in Charged : charge[k].at >= t})

Overdue(t) == {k \in Outstanding : t >= charge[k].due}

-----------------------------------------------------------------------------
(* Rows: what one appended event changes in the replay.                    *)

\* Mutant of AppendReserved: a negative amount, which manufactures budget.
AppendReservedNegative(k, t, c, w) ==
  /\ held'   = [held EXCEPT ![k] = "reserved"]
  /\ charge' = [charge EXCEPT ![k] = [at |-> t, cost |-> -c, due |-> t + w]]
  /\ UNCHANGED <<jobs, latch>>

AppendReserved(k, t, c, w) ==
  /\ held'   = [held EXCEPT ![k] = "reserved"]
  /\ charge' = [charge EXCEPT ![k] = [at |-> t, cost |-> c, due |-> t + w]]
  /\ UNCHANGED <<jobs, latch>>

AppendBound(k) ==
  /\ held' = [held EXCEPT ![k] = "bound"]
  /\ jobs' = [jobs EXCEPT ![k] = "submitted"]
  /\ UNCHANGED <<charge, latch>>

\* released, orphaned, abandoned; only orphaned is a breaker row.
AppendClosed(k, state) ==
  /\ held'  = [held EXCEPT ![k] = state]
  /\ latch' = IF state = "orphaned" THEN "open" ELSE latch
  /\ UNCHANGED <<charge, jobs>>

\* Mutant of AppendOutcome: a resolved row is taken for good news and closes
\* the breaker.
AppendOutcomeClosing(k, outcome) ==
  /\ jobs'  = [jobs EXCEPT ![k] = IF @ = "none" THEN @ ELSE outcome]
  /\ latch' = IF outcome = "lost" THEN "open" ELSE "closed"
  /\ UNCHANGED <<held, charge>>

\* resolved, lost: applied to any job the replay knows, whatever its state.
AppendOutcome(k, outcome) ==
  /\ jobs'  = [jobs EXCEPT ![k] = IF @ = "none" THEN @ ELSE outcome]
  /\ latch' = IF outcome = "lost" THEN "open" ELSE latch
  /\ UNCHANGED <<held, charge>>

AppendBreaker(position) ==
  /\ latch' = position
  /\ UNCHANGED <<held, charge, jobs>>

-----------------------------------------------------------------------------
(* Control of one process.                                                 *)

Goto(r, label) == pc' = [pc EXCEPT ![r] = label]

Enter(r, label, locals) ==
  /\ pc[r] = "idle"
  /\ Goto(r, label)
  /\ arg' = [arg EXCEPT ![r] = locals]

\* The operation returns or raises; `finally: _unlock` runs if it holds.
Return(r) ==
  /\ Goto(r, "idle")
  /\ arg'  = [arg EXCEPT ![r] = NoLocals]
  /\ lock' = IF lock = r THEN NoOne ELSE lock

\* Mutant of Acquire: the lock excludes nobody.
AcquireShared(r) ==
  /\ pc[r] \in {"submit_wait", "reconcile_wait"}
  /\ lock' = r
  /\ Goto(r, IF pc[r] = "submit_wait" THEN "submit_escalate"
                                      ELSE "reconcile_escalate")
  /\ UNCHANGED <<log, world, arg, now, bounds>>

Acquire(r) ==
  /\ pc[r] \in {"submit_wait", "reconcile_wait"}
  /\ lock = NoOne
  /\ lock' = r
  /\ Goto(r, IF pc[r] = "submit_wait" THEN "submit_escalate"
                                      ELSE "reconcile_escalate")
  /\ UNCHANGED <<log, world, arg, now, bounds>>

\* SingleWriterTimeout: somebody else kept the lock for lock_timeout_s.
LockTimeout(r) ==
  /\ pc[r] \in Waiting
  /\ lock # NoOne
  /\ Return(r)
  /\ UNCHANGED <<log, world, now, bounds>>

-----------------------------------------------------------------------------
(* submit                                                                  *)

SubmitBegin(r) ==
  /\ \E k \in Keys, w \in Windows :
       Enter(r, "submit_wait", [NoLocals EXCEPT !.key = k, !.window = w])
  /\ UNCHANGED <<log, world, lock, now, bounds>>

\* _escalate_orphans, one appended row; also the body of reconcile.
Escalate(r) ==
  /\ pc[r] \in {"submit_escalate", "reconcile_escalate"}
  /\ \E k \in Unescalated : AppendClosed(k, "orphaned")
  /\ UNCHANGED <<world, procs, now, bounds>>

\* Mutant of Admit: only a bound key is recognised, so a retry calls again.
AdmitUnlessBound(r) ==
  /\ pc[r] = "submit_escalate"
  /\ Unescalated = {}
  /\ ~BreakerOpen
  /\ held[arg[r].key] # "bound"
  /\ Goto(r, "submit_admitted")
  /\ UNCHANGED <<log, world, lock, arg, now, bounds>>

\* The breaker, then the key: a known key never reaches the substrate again.
Admit(r) ==
  /\ pc[r] = "submit_escalate"
  /\ Unescalated = {}
  /\ ~BreakerOpen
  /\ held[arg[r].key] = "none"
  /\ Goto(r, "submit_admitted")
  /\ UNCHANGED <<log, world, lock, arg, now, bounds>>

\* BreakerTripped, ReservationConflict, or the record the first call made.
RefuseAdmission(r) ==
  /\ pc[r] = "submit_escalate"
  /\ Unescalated = {}
  /\ BreakerOpen \/ held[arg[r].key] # "none"
  /\ Return(r)
  /\ UNCHANGED <<log, world, now, bounds>>

WithinCaps(c, t) ==
  /\ c <= PerJobCap
  /\ SpendSince(t - Day) + c <= PerDayCap

\* The rate card quotes; both caps are checked against the log.
Price(r) ==
  /\ pc[r] = "submit_admitted"
  /\ \E c \in Quotes :
       IF WithinCaps(c, now)
       THEN /\ arg' = [arg EXCEPT ![r].cost = c]
            /\ Goto(r, "submit_priced")
            /\ UNCHANGED lock
       ELSE Return(r)
  /\ UNCHANGED <<log, world, now, bounds>>

\* Mutant of Reserve: the row is left to be written after the call.
ReserveAfterwards(r) ==
  /\ pc[r] = "submit_priced"
  /\ Goto(r, "submit_reserved")
  /\ UNCHANGED <<log, world, lock, arg, now, bounds>>

\* The clock is read again: it may have moved since the caps were checked.
Reserve(r) ==
  /\ pc[r] = "submit_priced"
  /\ AppendReserved(arg[r].key, now, arg[r].cost, arg[r].window)
  /\ Goto(r, "submit_reserved")
  /\ UNCHANGED <<world, lock, arg, now, bounds>>

CallSubstrate(r) ==
  LET k == arg[r].key IN
  /\ pc[r] = "submit_reserved"
  /\ substrate' = [substrate EXCEPT ![k] = IF @ = "absent" THEN "asked" ELSE @]
  /\ calls'     = [calls EXCEPT ![k] = @ + 1]
  /\ Goto(r, "submit_called")
  /\ UNCHANGED <<log, lock, arg, now, bounds>>

\* Mutant of Release: any failed call gives the money back.
ReleaseOnAnyFailure(r) ==
  LET k == arg[r].key IN
  /\ pc[r] = "submit_called"
  /\ AppendClosed(k, "released")
  /\ Return(r)
  /\ UNCHANGED <<world, now, bounds>>

\* SubstrateDeclined: the substrate states that it started nothing.
Release(r) ==
  LET k == arg[r].key IN
  /\ pc[r] = "submit_called"
  /\ substrate[k] = "asked"
  /\ substrate' = [substrate EXCEPT ![k] = "absent"]
  /\ AppendClosed(k, "released")
  /\ Return(r)
  /\ UNCHANGED <<calls, now, bounds>>

Bind(r) ==
  /\ pc[r] = "submit_called"
  /\ substrate[arg[r].key] \in {"running", "done", "gone"}
  /\ AppendBound(arg[r].key)
  /\ Return(r)
  /\ UNCHANGED <<world, now, bounds>>

-----------------------------------------------------------------------------
(* collect_finished                                                        *)

CollectBegin(r) ==
  /\ Enter(r, "collect", [NoLocals EXCEPT !.todo = Outstanding])
  /\ UNCHANGED <<log, world, lock, now, bounds>>

\* Mutant of CollectPoll: whatever no longer runs is taken for finished.
CollectPollNotRunning(r) ==
  /\ pc[r] = "collect"
  /\ \E k \in arg[r].todo :
       IF substrate[k] # "running"
       THEN /\ arg' = [arg EXCEPT ![r].key = k]
            /\ Goto(r, "collect_resolve")
       ELSE /\ arg' = [arg EXCEPT ![r].todo = @ \ {k}]
            /\ UNCHANGED pc
  /\ UNCHANGED <<log, world, lock, now, bounds>>

CollectPoll(r) ==
  /\ pc[r] = "collect"
  /\ \E k \in arg[r].todo :
       IF substrate[k] = "done"
       THEN /\ arg' = [arg EXCEPT ![r].key = k]
            /\ Goto(r, "collect_resolve")
       ELSE /\ arg' = [arg EXCEPT ![r].todo = @ \ {k}]
            /\ UNCHANGED pc
  /\ UNCHANGED <<log, world, lock, now, bounds>>

\* resolve() of the polled job: fetch, then one appended row.
CollectResolve(r) ==
  LET k == arg[r].key IN
  /\ pc[r] = "collect_resolve"
  /\ AppendOutcome(k, "resolved")
  /\ arg' = [arg EXCEPT ![r].key = NoKey, ![r].todo = @ \ {k},
                        ![r].out = @ \cup {k}]
  /\ Goto(r, "collect")
  /\ UNCHANGED <<world, lock, now, bounds>>

\* poll or fetch raises: this job stays open, the others are still collected.
CollectSkip(r) ==
  /\ \/ /\ pc[r] = "collect"
        /\ \E k \in arg[r].todo : arg' = [arg EXCEPT ![r].todo = @ \ {k}]
     \/ /\ pc[r] = "collect_resolve"
        /\ arg' = [arg EXCEPT ![r].todo = @ \ {arg[r].key}, ![r].key = NoKey]
  /\ Goto(r, "collect")
  /\ UNCHANGED <<log, world, lock, now, bounds>>

CollectReturn(r) ==
  /\ pc[r] = "collect"
  /\ arg[r].todo = {}
  /\ Return(r)
  /\ UNCHANGED <<log, world, now, bounds>>

-----------------------------------------------------------------------------
(* sweep                                                                   *)

SweepBegin(r) ==
  /\ Enter(r, "sweep", [NoLocals EXCEPT !.todo = Overdue(now)])
  /\ UNCHANGED <<log, world, lock, now, bounds>>

\* Mutant of SweepPoll: an overdue job that still runs is given more time.
SweepPollPatient(r) ==
  /\ pc[r] = "sweep"
  /\ \E k \in arg[r].todo :
       IF substrate[k] = "running"
       THEN /\ arg' = [arg EXCEPT ![r].todo = @ \ {k}]
            /\ UNCHANGED pc
       ELSE /\ arg' = [arg EXCEPT ![r].key = k]
            /\ Goto(r, IF substrate[k] = "done" THEN "sweep_resolve"
                                                ELSE "sweep_lose")
  /\ UNCHANGED <<log, world, lock, now, bounds>>

SweepPoll(r) ==
  /\ pc[r] = "sweep"
  /\ \E k \in arg[r].todo :
       /\ arg' = [arg EXCEPT ![r].key = k]
       /\ Goto(r, IF substrate[k] = "done" THEN "sweep_resolve"
                                           ELSE "sweep_lose")
  /\ UNCHANGED <<log, world, lock, now, bounds>>

\* Finished but nobody collected it: resolved, and not in the returned list.
SweepResolve(r) ==
  LET k == arg[r].key IN
  /\ pc[r] = "sweep_resolve"
  /\ AppendOutcome(k, "resolved")
  /\ arg' = [arg EXCEPT ![r].key = NoKey, ![r].todo = @ \ {k}]
  /\ Goto(r, "sweep")
  /\ UNCHANGED <<world, lock, now, bounds>>

\* Mutant of RecordLost: the row that opens the breaker needs no lock.
RecordLostUnlocked(r) ==
  LET k == arg[r].key IN
  /\ pc[r] = "sweep_lose"
  /\ AppendOutcome(k, "lost")
  /\ arg' = [arg EXCEPT ![r].key = NoKey, ![r].todo = @ \ {k},
                        ![r].out = @ \cup {k}]
  /\ Goto(r, "sweep")
  /\ UNCHANGED <<world, lock, now, bounds>>

\* The lock is taken for this one row only.
RecordLost(r) ==
  LET k == arg[r].key IN
  /\ pc[r] = "sweep_lose"
  /\ lock = NoOne
  /\ AppendOutcome(k, "lost")
  /\ arg' = [arg EXCEPT ![r].key = NoKey, ![r].todo = @ \ {k},
                        ![r].out = @ \cup {k}]
  /\ Goto(r, "sweep")
  /\ UNCHANGED <<world, lock, now, bounds>>

SweepReturn(r) ==
  /\ pc[r] = "sweep"
  /\ arg[r].todo = {}
  /\ Return(r)
  /\ UNCHANGED <<log, world, now, bounds>>

-----------------------------------------------------------------------------
(* reconcile, and the operator's calls                                     *)

\* Mutant of ReconcileBegin: it escalates without the lock.
ReconcileBeginUnlocked(r) ==
  /\ Enter(r, "reconcile_escalate", NoLocals)
  /\ UNCHANGED <<log, world, lock, now, bounds>>

ReconcileBegin(r) ==
  /\ Enter(r, "reconcile_wait", NoLocals)
  /\ UNCHANGED <<log, world, lock, now, bounds>>

\* The report (finished handles, escalated keys) changes nothing.
ReconcileReturn(r) ==
  /\ pc[r] = "reconcile_escalate"
  /\ Unescalated = {}
  /\ Return(r)
  /\ UNCHANGED <<log, world, now, bounds>>

\* Mutant of AbandonBegin: any recorded reservation may be written off.
AbandonBeginAny(r) ==
  /\ \E k \in Keys :
       /\ held[k] # "none"
       /\ Enter(r, "abandon", [NoLocals EXCEPT !.key = k])
  /\ UNCHANGED <<log, world, lock, now, bounds>>

\* abandon_reservation reads the state, then appends, under no lock.
AbandonBegin(r) ==
  /\ \E k \in Keys :
       /\ held[k] = "orphaned"
       /\ Enter(r, "abandon", [NoLocals EXCEPT !.key = k])
  /\ UNCHANGED <<log, world, lock, now, bounds>>

Abandon(r) ==
  /\ pc[r] = "abandon"
  /\ AppendClosed(arg[r].key, "abandoned")
  /\ Return(r)
  /\ UNCHANGED <<world, now, bounds>>

ResetBreaker ==
  /\ resets < MaxResets
  /\ AppendBreaker("closed")
  /\ resets' = resets + 1
  /\ UNCHANGED <<world, procs, now, faults, trips>>

TripBreaker ==
  /\ trips < MaxResets
  /\ lock = NoOne
  /\ AppendBreaker("open")
  /\ trips' = trips + 1
  /\ UNCHANGED <<world, procs, now, faults, resets>>

-----------------------------------------------------------------------------
(* Failures, the substrate and the clock.                                  *)

\* An exception leaves a submit or a sweep; what it appended stays.  The poll of
\* an overdue job, or the fetch of its artifact, may raise in every sweep.
Raise(r) ==
  /\ \/ /\ pc[r] \in {"submit_admitted", "submit_called"}
        /\ faults < MaxFaults
        /\ faults' = faults + 1
     \/ /\ \/ pc[r] = "sweep" /\ arg[r].todo # {}
           \/ pc[r] = "sweep_resolve"
        /\ UNCHANGED faults
  /\ Return(r)
  /\ UNCHANGED <<log, world, now, resets, trips>>

\* The process dies anywhere; the operating system drops its lock.
Crash(r) ==
  /\ faults < MaxFaults
  /\ pc[r] # "idle"
  /\ Return(r)
  /\ faults' = faults + 1
  /\ UNCHANGED <<log, world, now, resets, trips>>

\* A call once received may start the job after its caller gave up or died.
SubstrateStarts(k) ==
  /\ substrate[k] = "asked"
  /\ substrate' = [substrate EXCEPT ![k] = "running"]
  /\ UNCHANGED <<log, calls, procs, now, bounds>>

JobEnds(k) ==
  /\ substrate[k] = "running"
  /\ \E s \in {"done", "gone"} : substrate' = [substrate EXCEPT ![k] = s]
  /\ UNCHANGED <<log, calls, procs, now, bounds>>

Tick ==
  /\ now < MaxTime
  /\ now' = now + 1
  /\ UNCHANGED <<log, world, procs, bounds>>

-----------------------------------------------------------------------------

Init ==
  /\ held      = [k \in Keys |-> "none"]
  /\ charge    = [k \in Keys |-> NoCharge]
  /\ jobs      = [k \in Keys |-> "none"]
  /\ latch     = "closed"
  /\ substrate = [k \in Keys |-> "absent"]
  /\ calls     = [k \in Keys |-> 0]
  /\ lock      = NoOne
  /\ pc        = [r \in Runners |-> "idle"]
  /\ arg       = [r \in Runners |-> NoLocals]
  /\ now       = 0
  /\ faults    = 0
  /\ resets    = 0
  /\ trips     = 0

Submit(r) ==
  \/ SubmitBegin(r) \/ Admit(r) \/ RefuseAdmission(r) \/ Price(r)
  \/ Reserve(r) \/ CallSubstrate(r) \/ Release(r) \/ Bind(r)
Collect(r) ==
  \/ CollectBegin(r) \/ CollectPoll(r) \/ CollectResolve(r)
  \/ CollectSkip(r) \/ CollectReturn(r)
Sweep(r) ==
  \/ SweepBegin(r) \/ SweepPoll(r) \/ SweepResolve(r)
  \/ RecordLost(r) \/ SweepReturn(r)
Reconcile(r) == ReconcileBegin(r) \/ ReconcileReturn(r)

Process(r) ==
  \/ Acquire(r) \/ LockTimeout(r) \/ Escalate(r)
  \/ Submit(r) \/ Collect(r) \/ Sweep(r) \/ Reconcile(r)
  \/ AbandonBegin(r) \/ Abandon(r) \/ Raise(r) \/ Crash(r)

Next ==
  \/ \E r \in Runners : Process(r)
  \/ \E k \in Keys : SubstrateStarts(k) \/ JobEnds(k)
  \/ ResetBreaker \/ TripBreaker \/ Tick

Spec == Init /\ [][Next]_vars


-----------------------------------------------------------------------------
(* Fairness.  Runner.tick calls sweep on every tick and the runner ticks   *)
(* for ever, so an idle process sweeps again and again; an operation it    *)
(* has begun goes on; and time passes.  Nothing forces a process to submit *)
(* or a substrate to finish a job.                                         *)

Continue(r) ==
  \/ Acquire(r) \/ Escalate(r) \/ Admit(r) \/ RefuseAdmission(r) \/ Price(r)
  \/ Reserve(r) \/ CallSubstrate(r) \/ Release(r) \/ Bind(r)
  \/ CollectPoll(r) \/ CollectResolve(r) \/ CollectReturn(r)
  \/ SweepPoll(r) \/ SweepResolve(r) \/ RecordLost(r) \/ SweepReturn(r)
  \/ ReconcileReturn(r) \/ Abandon(r)

Fairness ==
  /\ WF_vars(Tick)
  /\ \A k \in Keys : WF_vars(SubstrateStarts(k))
  /\ \A r \in Runners : WF_vars(Continue(r)) /\ SF_vars(SweepBegin(r))

FairSpec == Spec /\ Fairness

-----------------------------------------------------------------------------
(* Properties                                                              *)

\* Every variable has its type.
TypeOK ==
  /\ held \in [Keys -> ReservationState]
  /\ charge \in [Keys -> Charge]
  /\ jobs \in [Keys -> JobState]
  /\ latch \in {"open", "closed"}
  /\ substrate \in [Keys -> SubstrateState]
  /\ calls \in [Keys -> Nat]
  /\ lock \in Runners \cup {NoOne}
  /\ pc \in [Runners -> PC]
  /\ arg \in [Runners -> Locals]
  /\ now \in Nat
  /\ faults \in Nat /\ resets \in Nat /\ trips \in Nat

\* "A job that was started must have been recorded": whatever the substrate
\* was asked to start, even by a process that then died, counts against the
\* day and was priced under the per-job cap.
StartedIsCharged ==
  \A k \in Keys :
    substrate[k] # "absent" => k \in Charged /\ charge[k].cost <= PerJobCap

\* "No new work while a reservation is unaccounted for": crashes included,
\* at most one reservation is ever in doubt.
AtMostOneInDoubt == \A j, k \in Unaccounted : j = k

\* Escalation runs under the admission lock, so it never takes the
\* reservation of a submit that is still waiting for the substrate.
LiveReservationNeverEscalated ==
  \A r \in Runners :
    pc[r] \in {"submit_reserved", "submit_called"}
      => held[arg[r].key] = "reserved"

\* "Submit it twice and the second call does not reach the substrate", across
\* processes, crashes and abandoned attempts.
OneCallPerKey == \A k \in Keys : calls[k] <= 1

\* The two caps of W-12: in no trailing day, ended now or earlier, do the
\* charged jobs cost more than the daily cap, however many processes submit.
SpendWithinCap ==
  \A t \in 0 .. now :
    MapThenSumSet(LAMBDA k : charge[k].cost,
                  {k \in Charged : charge[k].at \in (t - Day) .. t})
      <= PerDayCap

\* A job is recorded resolved only if the substrate finished it, and lost
\* only if its deadline has passed; neither is ever said of an unbound key.
OutcomeIsEarned ==
  \A k \in Keys :
    /\ jobs[k] # "none" => held[k] = "bound" /\ substrate[k] # "absent"
    /\ jobs[k] = "resolved" => substrate[k] = "done"
    /\ jobs[k] = "lost" => now >= charge[k].due

\* "A breaker, once tripped, stays tripped until a human resets it": after a
\* loss or an orphan, whatever else was appended, only a reset closes it.
IncidentHoldsBreaker ==
  (resets = 0 /\ \E k \in Keys : jobs[k] = "lost" \/ held[k] \in {"orphaned", "abandoned"})
    => latch = "open"

\* No reservation is written while the breaker is open or another reservation
\* is unaccounted for, although both were read some steps earlier.
AdmissionRespectsBreaker ==
  [][ \A k \in Keys :
        held[k] = "none" /\ held'[k] # "none" => ~BreakerOpen ]_vars

\* The reservation diagram of registry.py: "abandoned" is the only way out of
\* "orphaned", and a bound, released or abandoned reservation is final.
ReservationLifecycle ==
  [][ \A k \in Keys :
        held'[k] # held[k] =>
          <<held[k], held'[k]>> \in
            {<<"none", "reserved">>, <<"reserved", "bound">>,
             <<"reserved", "released">>, <<"reserved", "orphaned">>,
             <<"orphaned", "abandoned">>} ]_vars

\* The job half of the same diagram: RESOLVED and LOST are two ends, and no
\* job goes from one to the other.
OutcomeIsFinal ==
  [][ \A k \in Keys :
        jobs[k] \in {"resolved", "lost"} => jobs'[k] = jobs[k] ]_vars

\* The registry implements the abstract authority over money: a reservation
\* commits, the substrate starts, released refunds, bound accounts for it.
Purse ==
  [k \in Keys |-> IF held[k] = "none" THEN "untouched"
                  ELSE IF held[k] = "released" THEN "refunded"
                  ELSE "committed"]

Started == {k \in Keys : substrate[k] \notin {"absent", "asked"}}

Halted == latch = "open"

Authority == INSTANCE SpendAuthority WITH
  purse <- Purse, started <- Started, doubt <- Unaccounted, halted <- Halted

ImplementsSpendAuthority == Authority!Spec

\* "If the queue loses a job, someone must notice": an open job is settled in
\* the end, whatever crashes and whatever is answered about it, as long as sweeps
\* get through again and again.  Nothing else would do: sweep polls unguarded,
\* and one poll that raises every time keeps that job and the later ones open.
\* The bound on the clock is no deadline: a job due after it is left out.
EveryJobSettles ==
  []<><<\E r \in Runners : SweepReturn(r)>>_vars =>
    \A k \in Keys :
      jobs[k] = "submitted" /\ charge[k].due <= MaxTime
        ~> jobs[k] \in {"resolved", "lost"}

-----------------------------------------------------------------------------
(* The inductive invariant behind the safety properties.                   *)

\* A process is inside the locked section exactly when it holds the lock.
LockInv == \A r \in Runners : pc[r] \in Holding <=> lock = r

\* The points at which an operation works on a key of its own.
Keyed == {"submit_wait", "collect_resolve", "sweep_resolve", "sweep_lose",
          "abandon"} \cup InSubmit

KeyInv == \A r \in Runners : pc[r] \in Keyed => arg[r].key \in Keys

\* What Admit read still holds when the reservation is written.
AdmittedInv ==
  \A r \in Runners :
    pc[r] \in {"submit_admitted", "submit_priced"} =>
      /\ Unaccounted = {}
      /\ latch = "closed"
      /\ held[arg[r].key] = "none"

PricedInv ==
  \A r \in Runners : pc[r] = "submit_priced" => arg[r].cost <= PerJobCap

UncalledInv ==
  \A r \in Runners :
    pc[r] = "submit_reserved" =>
      substrate[arg[r].key] = "absent" /\ calls[arg[r].key] = 0

KeyStateInv ==
  \A k \in Keys :
    /\ held[k] \in {"none", "released"} => substrate[k] = "absent"
    /\ held[k] = "none" => calls[k] = 0
    /\ k \in Charged => charge[k].cost <= PerJobCap

AbandonInv ==
  \A r \in Runners :
    pc[r] = "abandon" => held[arg[r].key] \in {"orphaned", "abandoned"}

AdmissionInv ==
  /\ TypeOK
  /\ LockInv
  /\ KeyInv
  /\ AdmittedInv
  /\ PricedInv
  /\ UncalledInv
  /\ KeyStateInv
  /\ AbandonInv
  /\ LiveReservationNeverEscalated
  /\ AtMostOneInDoubt
  /\ OneCallPerKey

\* What the settling operations remember about the jobs they still have to do.
SettlingInv ==
  \A r \in Runners :
    /\ pc[r] \in InSweep \cup InCollect =>
         \A k \in arg[r].todo : jobs[k] # "none"
    /\ pc[r] \in InSweep => \A k \in arg[r].todo : now >= charge[k].due
    /\ pc[r] \in {"collect_resolve", "sweep_resolve"} =>
         jobs[arg[r].key] # "none" /\ substrate[arg[r].key] = "done"
    /\ pc[r] = "sweep_lose" =>
         jobs[arg[r].key] # "none" /\ now >= charge[arg[r].key].due

=============================================================================
