------------------------ MODULE LocalSubstrateProofs ------------------------
(***************************************************************************)
(* Proofs about LocalSubstrate, for any keys, handles, card and number of  *)
(* faults.  DiskInv is the inductive invariant: how far the call under way *)
(* got with its directory and its marker, what the poll under way learnt,  *)
(* and in which order the wrapper, the payload and the record go.  Each    *)
(* action has a lemma, with a step for each conjunct it can disturb and    *)
(* one for the conjuncts whose variables it leaves alone.                  *)
(***************************************************************************)
EXTENDS LocalSubstrate, FiniteSetTheorems, TLAPS

USE DEF disk, procs, says, vars

-----------------------------------------------------------------------------
(* DiskInv, action by action.                                              *)

LEMMA SubmitKnownKeeps ==
  ASSUME NEW k \in Keys, DiskInv, SubmitKnown(k)
  PROVE  DiskInv'
<1>1. TypeOK'
  BY DEF SubmitKnown, CallAt, DiskInv, TypeOK, MetaState, DoneState,
     JobState, PayloadState, CallPC, ProbePC, Told
<1>2. CallInv'
  BY DEF SubmitKnown, CallAt, DiskInv, CallInv
<1>3. ProbeInv'
  BY DEF SubmitKnown, CallAt, DiskInv, ProbeInv
<1>4. MarkerInv'
  BY HandleAssumption DEF SubmitKnown, CallAt, DiskInv, MarkerInv, Fresh,
     Speaks
<1>5. AnswersAreTrue'
  BY DEF SubmitKnown, CallAt, DiskInv, AnswersAreTrue
<1>6. RefusedIsUnstarted'
  BY DEF SubmitKnown, CallAt, DiskInv, RefusedIsUnstarted
<1>7. JobInv'
  BY DEF SubmitKnown, CallAt, DiskInv, JobInv
<1> QED
  BY <1>1, <1>2, <1>3, <1>4, <1>5, <1>6, <1>7 DEF DiskInv

LEMMA SubmitDeclinedKeeps ==
  ASSUME NEW k \in Keys, DiskInv, SubmitDeclined(k)
  PROVE  DiskInv'
<1>1. TypeOK'
  BY DEF SubmitDeclined, CallAt, Declines, DiskInv, TypeOK, MetaState,
     DoneState, JobState, PayloadState, CallPC, ProbePC, Told
<1>2. CallInv'
  BY DEF SubmitDeclined, CallAt, Declines, DiskInv, CallInv
<1>3. RefusedIsUnstarted'
  BY HandleAssumption DEF SubmitDeclined, CallAt, Declines, DiskInv,
     RefusedIsUnstarted, MarkerInv, Fresh, Speaks
<1>4. ProbeInv' /\ MarkerInv' /\ JobInv' /\ AnswersAreTrue'
  BY DEF SubmitDeclined, CallAt, Declines, DiskInv, ProbeInv, MarkerInv,
     Fresh, Speaks, JobInv, AnswersAreTrue
<1> QED
  BY <1>1, <1>2, <1>3, <1>4 DEF DiskInv

LEMMA SubmitBeginKeeps ==
  ASSUME NEW k \in Keys, DiskInv, SubmitBegin(k)
  PROVE  DiskInv'
<1>1. TypeOK'
  BY DEF SubmitBegin, CallAt, DiskInv, TypeOK, MetaState, DoneState,
     JobState, PayloadState, CallPC, ProbePC, Told
<1>2. CallInv'
  BY DEF SubmitBegin, CallAt, DiskInv, CallInv, TypeOK, MetaState,
     DoneState, JobState, PayloadState, CallPC, ProbePC, Told, MarkerInv,
     Fresh, Speaks
<1>3. ProbeInv'
  BY DEF SubmitBegin, CallAt, DiskInv, ProbeInv
<1>4. MarkerInv'
  BY HandleAssumption DEF SubmitBegin, CallAt, DiskInv, MarkerInv, Fresh,
     Speaks, TypeOK, MetaState, DoneState, JobState, PayloadState, CallPC,
     ProbePC, Told
<1>5. JobInv'
  BY DEF SubmitBegin, CallAt, DiskInv, JobInv
<1>6. AnswersAreTrue'
  BY DEF SubmitBegin, CallAt, DiskInv, AnswersAreTrue
<1>7. RefusedIsUnstarted'
  BY DEF SubmitBegin, CallAt, DiskInv, RefusedIsUnstarted
<1> QED
  BY <1>1, <1>2, <1>3, <1>4, <1>5, <1>6, <1>7 DEF DiskInv

LEMMA WriteMetaKeeps ==
  ASSUME DiskInv, WriteMeta
  PROVE  DiskInv'
<1>1. TypeOK'
  BY DEF WriteMeta, CallAt, Proceed, DiskInv, TypeOK, MetaState,
     DoneState, JobState, PayloadState, CallPC, ProbePC, Told
<1>2. CallInv'
  BY DEF WriteMeta, CallAt, Proceed, DiskInv, CallInv, TypeOK, MetaState,
     DoneState, JobState, PayloadState, CallPC, ProbePC, Told
<1>3. ProbeInv'
  BY DEF WriteMeta, CallAt, Proceed, DiskInv, ProbeInv, CallInv
<1>4. MarkerInv'
  BY DEF WriteMeta, CallAt, Proceed, DiskInv, MarkerInv, Fresh, Speaks,
     CallInv
<1>5. JobInv'
  BY DEF WriteMeta, CallAt, Proceed, DiskInv, JobInv
<1>6. AnswersAreTrue'
  BY DEF WriteMeta, CallAt, Proceed, DiskInv, AnswersAreTrue
<1>7. RefusedIsUnstarted'
  BY DEF WriteMeta, CallAt, Proceed, DiskInv, RefusedIsUnstarted
<1> QED
  BY <1>1, <1>2, <1>3, <1>4, <1>5, <1>6, <1>7 DEF DiskInv

LEMMA OpenMarkerKeeps ==
  ASSUME DiskInv, OpenMarker
  PROVE  DiskInv'
<1>1. TypeOK'
  BY DEF OpenMarker, CallAt, Proceed, DiskInv, TypeOK, MetaState,
     DoneState, JobState, PayloadState, CallPC, ProbePC, Told
<1>2. CallInv'
  BY DEF OpenMarker, CallAt, Proceed, DiskInv, CallInv, TypeOK, MetaState,
     DoneState, JobState, PayloadState, CallPC, ProbePC, Told
<1>3. MarkerInv'
  BY HandleAssumption DEF OpenMarker, CallAt, Proceed, DiskInv, MarkerInv,
     Fresh, Speaks, TypeOK, MetaState, DoneState, JobState, PayloadState,
     CallPC, ProbePC, Told, CallInv
<1>4. AnswersAreTrue'
  BY DEF OpenMarker, CallAt, Proceed, DiskInv, AnswersAreTrue
<1>5. ProbeInv' /\ JobInv' /\ RefusedIsUnstarted'
  BY DEF OpenMarker, CallAt, Proceed, DiskInv, ProbeInv, JobInv,
     RefusedIsUnstarted
<1> QED
  BY <1>1, <1>2, <1>3, <1>4, <1>5 DEF DiskInv

LEMMA WriteMarkerKeeps ==
  ASSUME DiskInv, WriteMarker
  PROVE  DiskInv'
<1>1. TypeOK'
  BY DEF WriteMarker, CallAt, Proceed, DiskInv, TypeOK, MetaState,
     DoneState, JobState, PayloadState, CallPC, ProbePC, Told, CallInv
<1>2. CallInv'
  BY DEF WriteMarker, CallAt, Proceed, DiskInv, CallInv
<1>3. MarkerInv'
  BY DEF WriteMarker, CallAt, Proceed, DiskInv, MarkerInv, Fresh, Speaks,
     CallInv
<1>4. AnswersAreTrue'
  BY DEF WriteMarker, CallAt, Proceed, DiskInv, AnswersAreTrue
<1>5. ProbeInv' /\ JobInv' /\ RefusedIsUnstarted'
  BY DEF WriteMarker, CallAt, Proceed, DiskInv, ProbeInv, JobInv,
     RefusedIsUnstarted
<1> QED
  BY <1>1, <1>2, <1>3, <1>4, <1>5 DEF DiskInv

LEMMA SpawnKeeps ==
  ASSUME DiskInv, Spawn
  PROVE  DiskInv'
<1>1. TypeOK'
  BY DEF Spawn, CallAt, Proceed, DiskInv, TypeOK, MetaState, DoneState,
     JobState, PayloadState, CallPC, ProbePC, Told
<1>2. CallInv'
  BY DEF Spawn, CallAt, Proceed, DiskInv, CallInv, TypeOK, MetaState,
     DoneState, JobState, PayloadState, CallPC, ProbePC, Told
<1>3. ProbeInv'
  BY DEF Spawn, CallAt, Proceed, DiskInv, ProbeInv, CallInv
<1>4. MarkerInv'
  BY HandleAssumption DEF Spawn, CallAt, Proceed, DiskInv, MarkerInv,
     Fresh, Speaks
<1>5. JobInv'
  BY DEF Spawn, CallAt, Proceed, DiskInv, JobInv, TypeOK, MetaState,
     DoneState, JobState, PayloadState, CallPC, ProbePC, Told, CallInv
<1>6. AnswersAreTrue'
  BY DEF Spawn, CallAt, Proceed, DiskInv, AnswersAreTrue, CallInv
<1>7. RefusedIsUnstarted'
  BY DEF Spawn, CallAt, Proceed, DiskInv, RefusedIsUnstarted, CallInv
<1> QED
  BY <1>1, <1>2, <1>3, <1>4, <1>5, <1>6, <1>7 DEF DiskInv

LEMMA OpenPidKeeps ==
  ASSUME DiskInv, OpenPid
  PROVE  DiskInv'
<1>1. TypeOK'
  BY DEF OpenPid, CallAt, Proceed, DiskInv, TypeOK, MetaState, DoneState,
     JobState, PayloadState, CallPC, ProbePC, Told
<1>2. CallInv'
  BY DEF OpenPid, CallAt, Proceed, DiskInv, CallInv, TypeOK, MetaState,
     DoneState, JobState, PayloadState, CallPC, ProbePC, Told
<1>3. ProbeInv'
  BY DEF OpenPid, CallAt, Proceed, DiskInv, ProbeInv, CallInv
<1>4. MarkerInv'
  BY HandleAssumption DEF OpenPid, CallAt, Proceed, DiskInv, MarkerInv,
     Fresh, Speaks
<1>5. JobInv'
  BY DEF OpenPid, CallAt, Proceed, DiskInv, JobInv
<1>6. AnswersAreTrue'
  BY DEF OpenPid, CallAt, Proceed, DiskInv, AnswersAreTrue
<1>7. RefusedIsUnstarted'
  BY DEF OpenPid, CallAt, Proceed, DiskInv, RefusedIsUnstarted
<1> QED
  BY <1>1, <1>2, <1>3, <1>4, <1>5, <1>6, <1>7 DEF DiskInv

LEMMA WritePidKeeps ==
  ASSUME DiskInv, WritePid
  PROVE  DiskInv'
<1>1. TypeOK'
  BY DEF WritePid, CallAt, Idle, DiskInv, TypeOK, MetaState, DoneState,
     JobState, PayloadState, CallPC, ProbePC, Told
<1>2. CallInv'
  BY DEF WritePid, CallAt, Idle, DiskInv, CallInv
<1>3. ProbeInv'
  BY DEF WritePid, CallAt, Idle, DiskInv, ProbeInv
<1>4. MarkerInv'
  BY HandleAssumption DEF WritePid, CallAt, Idle, DiskInv, MarkerInv,
     Fresh, Speaks
<1>5. JobInv'
  BY DEF WritePid, CallAt, Idle, DiskInv, JobInv, CallInv
<1>6. AnswersAreTrue'
  BY HandleAssumption DEF WritePid, CallAt, Idle, DiskInv, AnswersAreTrue
<1>7. RefusedIsUnstarted'
  BY DEF WritePid, CallAt, Idle, DiskInv, RefusedIsUnstarted
<1> QED
  BY <1>1, <1>2, <1>3, <1>4, <1>5, <1>6, <1>7 DEF DiskInv

LEMMA SubmitDiesKeeps ==
  ASSUME DiskInv, SubmitDies
  PROVE  DiskInv'
<1>1. TypeOK'
  BY LimitAssumption DEF SubmitDies, CallAt, Idle, DiskInv, TypeOK,
     MetaState, DoneState, JobState, PayloadState, CallPC, ProbePC, Told
<1>2. CallInv'
  BY DEF SubmitDies, CallAt, Idle, DiskInv, CallInv
<1>3. MarkerInv'
  BY DEF SubmitDies, CallAt, Idle, DiskInv, MarkerInv, Fresh, Speaks
<1>4. AnswersAreTrue'
  BY HandleAssumption DEF SubmitDies, CallAt, Idle, DiskInv,
     AnswersAreTrue
<1>5. ProbeInv' /\ JobInv' /\ RefusedIsUnstarted'
  BY DEF SubmitDies, CallAt, Idle, DiskInv, ProbeInv, JobInv,
     RefusedIsUnstarted
<1> QED
  BY <1>1, <1>2, <1>3, <1>4, <1>5 DEF DiskInv

LEMMA MarkerTornKeeps ==
  ASSUME NEW k \in Keys, DiskInv, MarkerTorn(k)
  PROVE  DiskInv'
<1>1. TypeOK'
  BY LimitAssumption DEF MarkerTorn, DiskInv, TypeOK, MetaState,
     DoneState, JobState, PayloadState, CallPC, ProbePC, Told
<1>2. CallInv'
  BY HandleAssumption DEF MarkerTorn, DiskInv, CallInv, CallAt
<1>3. MarkerInv'
  BY HandleAssumption DEF MarkerTorn, DiskInv, MarkerInv, Fresh, Speaks
<1>4. ProbeInv' /\ JobInv' /\ AnswersAreTrue' /\ RefusedIsUnstarted'
  BY DEF MarkerTorn, DiskInv, ProbeInv, JobInv, AnswersAreTrue,
     RefusedIsUnstarted
<1> QED
  BY <1>1, <1>2, <1>3, <1>4 DEF DiskInv

LEMMA PayloadEndsKeeps ==
  ASSUME NEW h \in Handles, DiskInv, PayloadEnds(h)
  PROVE  DiskInv'
<1>1. TypeOK'
  BY DEF PayloadEnds, DiskInv, TypeOK, MetaState, DoneState, JobState,
     PayloadState, CallPC, ProbePC, Told
<1>2. JobInv'
  BY DEF PayloadEnds, DiskInv, JobInv
<1>3. AnswersAreTrue'
  BY DEF PayloadEnds, DiskInv, AnswersAreTrue
<1>4. CallInv' /\ ProbeInv' /\ MarkerInv' /\ RefusedIsUnstarted'
  BY DEF PayloadEnds, DiskInv, CallInv, CallAt, ProbeInv, MarkerInv,
     Fresh, Speaks, RefusedIsUnstarted
<1> QED
  BY <1>1, <1>2, <1>3, <1>4 DEF DiskInv

LEMMA OpenDoneKeeps ==
  ASSUME NEW h \in Handles, DiskInv, OpenDone(h)
  PROVE  DiskInv'
<1>1. TypeOK'
  BY DEF OpenDone, DiskInv, TypeOK, MetaState, DoneState, JobState,
     PayloadState, CallPC, ProbePC, Told
<1>2. CallInv'
  BY DEF OpenDone, DiskInv, CallInv, CallAt
<1>3. ProbeInv'
  BY DEF OpenDone, DiskInv, ProbeInv
<1>4. MarkerInv'
  BY DEF OpenDone, DiskInv, MarkerInv, Fresh, Speaks
<1>5. JobInv'
  BY DEF OpenDone, DiskInv, JobInv, TypeOK, MetaState, DoneState,
     JobState, PayloadState, CallPC, ProbePC, Told
<1>6. AnswersAreTrue'
  BY DEF OpenDone, DiskInv, AnswersAreTrue
<1>7. RefusedIsUnstarted'
  BY DEF OpenDone, DiskInv, RefusedIsUnstarted
<1> QED
  BY <1>1, <1>2, <1>3, <1>4, <1>5, <1>6, <1>7 DEF DiskInv

LEMMA WriteDoneKeeps ==
  ASSUME NEW h \in Handles, DiskInv, WriteDone(h)
  PROVE  DiskInv'
<1>1. TypeOK'
  BY DEF WriteDone, DiskInv, TypeOK, MetaState, DoneState, JobState,
     PayloadState, CallPC, ProbePC, Told
<1>2. CallInv'
  BY DEF WriteDone, DiskInv, CallInv, CallAt
<1>3. ProbeInv'
  BY DEF WriteDone, DiskInv, ProbeInv
<1>4. MarkerInv'
  BY DEF WriteDone, DiskInv, MarkerInv, Fresh, Speaks
<1>5. JobInv'
  BY DEF WriteDone, DiskInv, JobInv, TypeOK, MetaState, DoneState,
     JobState, PayloadState, CallPC, ProbePC, Told
<1>6. AnswersAreTrue'
  BY DEF WriteDone, DiskInv, AnswersAreTrue
<1>7. RefusedIsUnstarted'
  BY DEF WriteDone, DiskInv, RefusedIsUnstarted
<1> QED
  BY <1>1, <1>2, <1>3, <1>4, <1>5, <1>6, <1>7 DEF DiskInv

LEMMA WrapperDiesKeeps ==
  ASSUME NEW h \in Handles, DiskInv, WrapperDies(h)
  PROVE  DiskInv'
<1>1. TypeOK'
  BY LimitAssumption DEF WrapperDies, DiskInv, TypeOK, MetaState,
     DoneState, JobState, PayloadState, CallPC, ProbePC, Told
<1>2. CallInv'
  BY DEF WrapperDies, DiskInv, CallInv, CallAt
<1>3. ProbeInv'
  BY DEF WrapperDies, DiskInv, ProbeInv
<1>4. MarkerInv'
  BY DEF WrapperDies, DiskInv, MarkerInv, Fresh, Speaks
<1>5. JobInv'
  BY DEF WrapperDies, DiskInv, JobInv
<1>6. AnswersAreTrue'
  BY DEF WrapperDies, DiskInv, AnswersAreTrue
<1>7. RefusedIsUnstarted'
  BY DEF WrapperDies, DiskInv, RefusedIsUnstarted
<1> QED
  BY <1>1, <1>2, <1>3, <1>4, <1>5, <1>6, <1>7 DEF DiskInv

LEMMA PidReusedKeeps ==
  ASSUME NEW h \in Handles, DiskInv, PidReused(h)
  PROVE  DiskInv'
<1>1. TypeOK'
  BY LimitAssumption DEF PidReused, DiskInv, TypeOK, MetaState, DoneState,
     JobState, PayloadState, CallPC, ProbePC, Told
<1>2. CallInv'
  BY DEF PidReused, DiskInv, CallInv, CallAt
<1>3. ProbeInv'
  BY DEF PidReused, DiskInv, ProbeInv
<1>4. MarkerInv'
  BY DEF PidReused, DiskInv, MarkerInv, Fresh, Speaks
<1>5. JobInv'
  BY DEF PidReused, DiskInv, JobInv
<1>6. AnswersAreTrue'
  BY DEF PidReused, DiskInv, AnswersAreTrue
<1>7. RefusedIsUnstarted'
  BY DEF PidReused, DiskInv, RefusedIsUnstarted
<1> QED
  BY <1>1, <1>2, <1>3, <1>4, <1>5, <1>6, <1>7 DEF DiskInv

LEMMA StrangerExitsKeeps ==
  ASSUME NEW h \in Handles, DiskInv, StrangerExits(h)
  PROVE  DiskInv'
<1>1. TypeOK'
  BY DEF StrangerExits, DiskInv, TypeOK, MetaState, DoneState, JobState,
     PayloadState, CallPC, ProbePC, Told
<1>2. CallInv'
  BY DEF StrangerExits, DiskInv, CallInv, CallAt
<1>3. ProbeInv'
  BY DEF StrangerExits, DiskInv, ProbeInv
<1>4. MarkerInv'
  BY DEF StrangerExits, DiskInv, MarkerInv, Fresh, Speaks
<1>5. JobInv'
  BY DEF StrangerExits, DiskInv, JobInv
<1>6. AnswersAreTrue'
  BY DEF StrangerExits, DiskInv, AnswersAreTrue
<1>7. RefusedIsUnstarted'
  BY DEF StrangerExits, DiskInv, RefusedIsUnstarted
<1> QED
  BY <1>1, <1>2, <1>3, <1>4, <1>5, <1>6, <1>7 DEF DiskInv

LEMMA PollDoneKeeps ==
  ASSUME NEW h \in Handles, DiskInv, PollDone(h)
  PROVE  DiskInv'
<1>1. TypeOK'
  BY DEF PollDone, DiskInv, TypeOK, MetaState, DoneState, JobState,
     PayloadState, CallPC, ProbePC, Told
<1>2. CallInv'
  BY DEF PollDone, DiskInv, CallInv, CallAt, TypeOK, MetaState, DoneState,
     JobState, PayloadState, CallPC, ProbePC, Told
<1>3. ProbeInv'
  BY DEF PollDone, DiskInv, ProbeInv
<1>4. MarkerInv'
  BY DEF PollDone, DiskInv, MarkerInv, Fresh, Speaks, TypeOK, MetaState,
     DoneState, JobState, PayloadState, CallPC, ProbePC, Told
<1>5. AnswersAreTrue'
  BY DEF PollDone, DiskInv, AnswersAreTrue, TypeOK, MetaState, DoneState,
     JobState, PayloadState, CallPC, ProbePC, Told, JobInv
<1>6. JobInv' /\ RefusedIsUnstarted'
  BY DEF PollDone, DiskInv, JobInv, RefusedIsUnstarted
<1> QED
  BY <1>1, <1>2, <1>3, <1>4, <1>5, <1>6 DEF DiskInv

LEMMA PollMetaKeeps ==
  ASSUME DiskInv, PollMeta
  PROVE  DiskInv'
<1>1. TypeOK'
  BY DEF PollMeta, Look, Reply, Idle, DiskInv, TypeOK, MetaState,
     DoneState, JobState, PayloadState, CallPC, ProbePC, Told
<1>2. CallInv'
  BY DEF PollMeta, Look, Reply, Idle, DiskInv, CallInv, CallAt, TypeOK,
     MetaState, DoneState, JobState, PayloadState, CallPC, ProbePC, Told,
     ProbeInv
<1>3. ProbeInv'
  BY DEF PollMeta, Look, Reply, Idle, DiskInv, ProbeInv, TypeOK,
     MetaState, DoneState, JobState, PayloadState, CallPC, ProbePC, Told
<1>4. MarkerInv'
  BY DEF PollMeta, Look, Reply, Idle, DiskInv, MarkerInv, Fresh, Speaks,
     TypeOK, MetaState, DoneState, JobState, PayloadState, CallPC,
     ProbePC, Told, ProbeInv
<1>5. AnswersAreTrue'
  BY HandleAssumption DEF PollMeta, Look, Reply, Idle, DiskInv,
     AnswersAreTrue, TypeOK, MetaState, DoneState, JobState, PayloadState,
     CallPC, ProbePC, Told, CallInv, CallAt, ProbeInv, MarkerInv, Fresh,
     Speaks
<1>6. JobInv' /\ RefusedIsUnstarted'
  BY DEF PollMeta, Look, Reply, Idle, DiskInv, JobInv, RefusedIsUnstarted
<1> QED
  BY <1>1, <1>2, <1>3, <1>4, <1>5, <1>6 DEF DiskInv

LEMMA PollAliveKeeps ==
  ASSUME DiskInv, PollAlive
  PROVE  DiskInv'
<1>1. TypeOK'
  BY DEF PollAlive, Look, Reply, Alive, Idle, DiskInv, TypeOK, MetaState,
     DoneState, JobState, PayloadState, CallPC, ProbePC, Told
<1>2. CallInv'
  BY DEF PollAlive, Look, Reply, Alive, Idle, DiskInv, CallInv, CallAt,
     TypeOK, MetaState, DoneState, JobState, PayloadState, CallPC,
     ProbePC, Told, ProbeInv
<1>3. ProbeInv'
  BY DEF PollAlive, Look, Reply, Alive, Idle, DiskInv, ProbeInv, TypeOK,
     MetaState, DoneState, JobState, PayloadState, CallPC, ProbePC, Told,
     JobInv
<1>4. MarkerInv'
  BY DEF PollAlive, Look, Reply, Alive, Idle, DiskInv, MarkerInv, Fresh,
     Speaks, TypeOK, MetaState, DoneState, JobState, PayloadState, CallPC,
     ProbePC, Told
<1>5. AnswersAreTrue'
  BY DEF PollAlive, Look, Reply, Alive, Idle, DiskInv, AnswersAreTrue,
     TypeOK, MetaState, DoneState, JobState, PayloadState, CallPC,
     ProbePC, Told
<1>6. JobInv' /\ RefusedIsUnstarted'
  BY DEF PollAlive, Look, Reply, Alive, Idle, DiskInv, JobInv,
     RefusedIsUnstarted
<1> QED
  BY <1>1, <1>2, <1>3, <1>4, <1>5, <1>6 DEF DiskInv

LEMMA PollAgainKeeps ==
  ASSUME DiskInv, PollAgain
  PROVE  DiskInv'
<1>1. TypeOK'
  BY DEF PollAgain, Reply, Idle, DiskInv, TypeOK, MetaState, DoneState,
     JobState, PayloadState, CallPC, ProbePC, Told
<1>2. CallInv'
  BY DEF PollAgain, Reply, Idle, DiskInv, CallInv, CallAt, ProbeInv
<1>3. ProbeInv'
  BY DEF PollAgain, Reply, Idle, DiskInv, ProbeInv
<1>4. MarkerInv'
  BY DEF PollAgain, Reply, Idle, DiskInv, MarkerInv, Fresh, Speaks,
     ProbeInv
<1>5. AnswersAreTrue'
  BY DEF PollAgain, Reply, Idle, DiskInv, AnswersAreTrue, ProbeInv, JobInv
<1>6. JobInv' /\ RefusedIsUnstarted'
  BY DEF PollAgain, Reply, Idle, DiskInv, JobInv, RefusedIsUnstarted
<1> QED
  BY <1>1, <1>2, <1>3, <1>4, <1>5, <1>6 DEF DiskInv

LEMMA CancelKeeps ==
  ASSUME NEW h \in Handles, DiskInv, Cancel(h)
  PROVE  DiskInv'
<1>1. TypeOK'
  BY DEF Cancel, Alive, DiskInv, TypeOK, MetaState, DoneState, JobState,
     PayloadState, CallPC, ProbePC, Told
<1>2. CallInv'
  BY DEF Cancel, Alive, DiskInv, CallInv, CallAt
<1>3. ProbeInv'
  BY DEF Cancel, Alive, DiskInv, ProbeInv
<1>4. MarkerInv'
  BY DEF Cancel, Alive, DiskInv, MarkerInv, Fresh, Speaks
<1>5. JobInv'
  BY DEF Cancel, Alive, DiskInv, JobInv
<1>6. AnswersAreTrue'
  BY DEF Cancel, Alive, DiskInv, AnswersAreTrue
<1>7. RefusedIsUnstarted'
  BY DEF Cancel, Alive, DiskInv, RefusedIsUnstarted
<1> QED
  BY <1>1, <1>2, <1>3, <1>4, <1>5, <1>6, <1>7 DEF DiskInv

-----------------------------------------------------------------------------
(* The invariant of the specification, and what follows from it.           *)

LEMMA DiskInvInit == Init => DiskInv
BY HandleAssumption, LimitAssumption
   DEF Init, DiskInv, Idle, CallAt, CallInv, ProbeInv, MarkerInv, Fresh, Speaks, JobInv,
       RefusedIsUnstarted,
       AnswersAreTrue, TypeOK, MetaState, DoneState, JobState, PayloadState,
       CallPC, ProbePC, Told

LEMMA DiskInvStep == DiskInv /\ [Next]_vars => DiskInv'
<1> SUFFICES ASSUME DiskInv, [Next]_vars PROVE DiskInv'
  OBVIOUS
<1>1. CASE \E k \in Keys :
           SubmitKnown(k) \/ SubmitDeclined(k) \/ SubmitBegin(k) \/ MarkerTorn(k)
  BY <1>1, SubmitKnownKeeps, SubmitDeclinedKeeps, SubmitBeginKeeps, MarkerTornKeeps
<1>2. CASE SubmitGoesOn
  BY <1>2, WriteMetaKeeps, OpenMarkerKeeps, WriteMarkerKeeps, SpawnKeeps,
     OpenPidKeeps, WritePidKeeps DEF SubmitGoesOn
<1>3. CASE SubmitDies
  BY <1>3, SubmitDiesKeeps
<1>4. CASE PollGoesOn
  BY <1>4, PollMetaKeeps, PollAliveKeeps, PollAgainKeeps DEF PollGoesOn
<1>5. ASSUME NEW h \in Handles,
             JobGoesOn(h) \/ WrapperDies(h) \/ PidReused(h) \/ PollDone(h) \/ Cancel(h)
      PROVE  DiskInv'
  BY <1>5, PayloadEndsKeeps, OpenDoneKeeps, WriteDoneKeeps, StrangerExitsKeeps,
     WrapperDiesKeeps, PidReusedKeeps, PollDoneKeeps, CancelKeeps DEF JobGoesOn
<1>6. CASE UNCHANGED vars
  BY <1>6 DEF DiskInv, CallAt, CallInv, ProbeInv, MarkerInv, Fresh, Speaks, JobInv,
       RefusedIsUnstarted,
     AnswersAreTrue, TypeOK
<1> QED
  BY <1>1, <1>2, <1>3, <1>4, <1>5, <1>6 DEF Next

\* However often a key is submitted and wherever submitters, wrappers and
\* records stop, the disk and the processes agree as DiskInv says.
THEOREM DiskAgrees == Spec => []DiskInv
<1>1. Init => DiskInv
  BY DiskInvInit
<1>2. DiskInv /\ [Next]_vars => DiskInv'
  BY DiskInvStep
<1> QED
  BY <1>1, <1>2, PTL DEF Spec

\* Every variable of the substrate keeps its type.
THEOREM TypeCorrect == Spec => []TypeOK
<1>1. DiskInv => TypeOK
  BY DEF DiskInv
<1> QED
  BY <1>1, DiskAgrees, PTL

\* An idempotency key buys at most one process (submit's marker): the marker of
\* a key names the only directory of that key whose process was started.
THEOREM OneJob == Spec => []OneJobPerIntent
<1>1. DiskInv => OneJobPerIntent
  BY DEF DiskInv, MarkerInv, Speaks, OneJobPerIntent
<1> QED
  BY <1>1, DiskAgrees, PTL

\* A refused key has no job and gets none until it is submitted again, although
\* markers may be torn: an unreadable one is never taken for a refusal (BRE-41).
THEOREM RefusalsAreTrue == Spec => []RefusedIsUnstarted
<1>1. DiskInv => RefusedIsUnstarted
  BY DEF DiskInv
<1> QED
  BY <1>1, DiskAgrees, PTL

\* poll never says that a job is over while it may still go on (_state_of and
\* the order in which the wrapper works), but for a torn meta.json.
THEOREM TrueAnswers == Spec => []AnswersAreTrue
<1>1. DiskInv => AnswersAreTrue
  BY DEF DiskInv
<1> QED
  BY <1>1, DiskAgrees, PTL

-----------------------------------------------------------------------------
(* The card.  Preflight counts what running() finds on disk; ClaimInv says *)
(* that, with the call under way, this is whoever can be on the card.      *)

\* A step that lets nobody new onto the card keeps the bound.
LEMMA FewerClaims ==
  ASSUME DiskInv, ClaimInv, Claiming' \subseteq Claiming
  PROVE  ClaimInv'
<1>1. IsFiniteSet(Claiming)
  <2>1. Claiming \subseteq Handles
    BY DEF Claiming, OnCard, DiskInv, TypeOK
  <2> QED
    BY <2>1, HandleAssumption, FS_Subset
<1>2. IsFiniteSet(Claiming') /\ Cardinality(Claiming') <= Cardinality(Claiming)
  BY <1>1, FS_Subset
<1>3. Cardinality(Claiming) \in Nat /\ Cardinality(Claiming') \in Nat
  BY <1>1, <1>2, FS_CardinalityType
<1> QED
  BY <1>2, <1>3, LimitAssumption DEF ClaimInv

\* Between two calls everybody on the card is one that running() lists.
LEMMA OnCardRuns ==
  ASSUME DiskInv, CallAt("idle")
  PROVE  Claiming \subseteq Running
BY HandleAssumption
   DEF Claiming, OnCard, Running, StateOf, Alive, CallAt, DiskInv, CallInv, JobInv

\* Preflight, whose count may be out of date when the directory is made.
LEMMA SubmitBeginClaims ==
  ASSUME NEW k \in Keys, DiskInv, SubmitBegin(k)
  PROVE  ClaimInv'
<1>1. PICK h \in Handles :
        /\ meta' = [meta EXCEPT ![h] = "torn"]
        /\ call' = [pc |-> "meta", handle |-> h]
  BY DEF SubmitBegin
<1>2. IsFiniteSet(Running) /\ Cardinality(Running) \in Nat
  BY HandleAssumption, FS_Subset, FS_CardinalityType DEF Running
<1>3. /\ IsFiniteSet(Running \cup {h})
      /\ Cardinality(Running \cup {h}) <= Cardinality(Running) + 1
  <2> DEFINE R == Running
  <2>1. IsFiniteSet(R) /\ Cardinality(R) \in Nat
    BY <1>2
  <2> HIDE DEF R
  <2>2. /\ IsFiniteSet(R \cup {h})
        /\ Cardinality(R \cup {h}) =
             IF h \in R THEN Cardinality(R) ELSE Cardinality(R) + 1
    BY <2>1, FS_AddElement
  <2>3. /\ IsFiniteSet(R \cup {h})
        /\ Cardinality(R \cup {h}) <= Cardinality(R) + 1
    BY <2>1, <2>2
  <2> QED
    BY <2>3 DEF R
<1>4. Claiming' \subseteq Running \cup {h}
  <2>1. OnCard' \subseteq OnCard \cup {h}
    BY <1>1 DEF OnCard, SubmitBegin, DiskInv, TypeOK
  <2>2. OnCard \subseteq Running
    BY OnCardRuns DEF SubmitBegin, Claiming
  <2> QED
    BY <1>1, <2>1, <2>2, call'.handle = h DEF Claiming
<1>5. /\ IsFiniteSet(Claiming')
      /\ Cardinality(Claiming') <= Cardinality(Running \cup {h})
  BY <1>3, <1>4, FS_Subset
<1>6. Cardinality(Running \cup {h}) \in Nat /\ Cardinality(Claiming') \in Nat
  BY <1>3, <1>5, FS_CardinalityType
<1>7. Cardinality(Running) < MaxConcurrent
  BY DEF SubmitBegin
<1> QED
  BY <1>2, <1>3, <1>5, <1>6, <1>7, LimitAssumption DEF ClaimInv

LEMMA ClaimStep == DiskInv /\ ClaimInv /\ [Next]_vars => ClaimInv'
<1> SUFFICES ASSUME DiskInv, ClaimInv, [Next]_vars PROVE ClaimInv'
  OBVIOUS
<1>1. ASSUME NEW k \in Keys, SubmitKnown(k) \/ SubmitDeclined(k) \/ MarkerTorn(k)
      PROVE  Claiming' \subseteq Claiming
  BY <1>1 DEF SubmitKnown, SubmitDeclined, MarkerTorn, Claiming, OnCard
<1>2. ASSUME SubmitGoesOn PROVE Claiming' \subseteq Claiming
  <2>1. CASE WriteMeta
    BY <2>1 DEF WriteMeta, Proceed, Claiming, OnCard, DiskInv, TypeOK
  <2>2. CASE OpenMarker \/ WriteMarker
    BY <2>2 DEF OpenMarker, WriteMarker, Proceed, Claiming, OnCard, DiskInv, TypeOK
  <2>3. CASE Spawn
    BY <2>3, HandleAssumption
       DEF Spawn, Proceed, Claiming, OnCard, CallAt, CallInv, DiskInv, TypeOK
  <2>4. CASE OpenPid
    BY <2>4 DEF OpenPid, Proceed, Claiming, OnCard, DiskInv, TypeOK
  <2>5. CASE WritePid
    BY <2>5, HandleAssumption
       DEF WritePid, Idle, Claiming, OnCard, CallAt, CallInv, DiskInv, TypeOK
  <2> QED
    BY <1>2, <2>1, <2>2, <2>3, <2>4, <2>5 DEF SubmitGoesOn
<1>3. CASE SubmitDies
  <2>1. Claiming' \subseteq Claiming
    BY <1>3, HandleAssumption DEF SubmitDies, Idle, Claiming, OnCard
  <2> QED
    BY <2>1, FewerClaims
<1>4. CASE PollGoesOn
  <2>1. Claiming' \subseteq Claiming
    BY <1>4 DEF PollGoesOn, PollMeta, PollAlive, PollAgain, Claiming, OnCard
  <2> QED
    BY <2>1, FewerClaims
<1>5. ASSUME NEW h \in Handles,
             JobGoesOn(h) \/ WrapperDies(h) \/ PidReused(h) \/ PollDone(h) \/ Cancel(h)
      PROVE  Claiming' \subseteq Claiming
  BY <1>5 DEF JobGoesOn, PayloadEnds, OpenDone, WriteDone, StrangerExits,
     WrapperDies, PidReused, PollDone, Cancel, Claiming, OnCard, DiskInv, TypeOK
<1>6. CASE UNCHANGED vars
  BY <1>6 DEF ClaimInv, Claiming, OnCard
<1> QED
  BY <1>1, <1>2, <1>3, <1>4, <1>5, <1>6, FewerClaims, SubmitBeginClaims DEF Next

\* No history of submits, deaths and finished jobs puts more payloads on the
\* card than max_concurrent, those aside that nobody can know of (preflight).
THEOREM CardHolds == Spec => []CardIsNotShared
<1>1. Init => ClaimInv
  <2>1. Init => Claiming = {}
    BY HandleAssumption DEF Init, Idle, Claiming, OnCard
  <2> QED
    BY <2>1, FS_EmptySet, LimitAssumption DEF ClaimInv
<1>2. DiskInv /\ ClaimInv => CardIsNotShared
  <2> SUFFICES ASSUME DiskInv, ClaimInv PROVE CardIsNotShared
    OBVIOUS
  <2>1. IsFiniteSet(Claiming)
    <3>1. Claiming \subseteq Handles
      BY DEF Claiming, OnCard, DiskInv, TypeOK
    <3> QED
      BY <3>1, HandleAssumption, FS_Subset
  <2>2. IsFiniteSet(OnCard) /\ Cardinality(OnCard) <= Cardinality(Claiming)
    BY <2>1, FS_Subset DEF Claiming
  <2>3. Cardinality(OnCard) \in Nat /\ Cardinality(Claiming) \in Nat
    BY <2>1, <2>2, FS_CardinalityType
  <2> QED
    BY <2>2, <2>3, LimitAssumption DEF ClaimInv, CardIsNotShared
<1>3. DiskInv /\ ClaimInv /\ [Next]_vars => ClaimInv'
  BY ClaimStep
<1> QED
  BY <1>1, <1>2, <1>3, DiskAgrees, PTL DEF Spec

-----------------------------------------------------------------------------
(* The contract of a substrate.  Each step is seen by at most one key, so  *)
(* the mapped functions are compared key by key.                           *)

Life   == [k \in Keys |-> LifeOf(k)]
Doubt  == {k \in Keys : CutShort(k)}
Answer == [k \in Keys |-> AnswerOf(k)]

\* What the life of a key depends on.
LEMMA SameLife ==
  ASSUME NEW k \in Keys,
         \A g \in Handles :
           /\ intent'[g] = k <=> intent[g] = k
           /\ intent[g] = k =>
                /\ job'[g] = "none" <=> job[g] = "none"
                /\ done'[g] = "missing" <=> done[g] = "missing"
                /\ done[g] = "missing" =>
                     (job'[g] \in {"dead", "reused"} <=> job[g] \in {"dead", "reused"})
  PROVE  LifeOf(k)' = LifeOf(k)
<1>1. Made(k)' = Made(k) /\ Started(k)' = Started(k)
  BY DEF Made, Started
<1>2. \A g \in Started(k) :
        /\ done'[g] = "missing" <=> done[g] = "missing"
        /\ done[g] = "missing" =>
             (job'[g] \in {"dead", "reused"} <=> job[g] \in {"dead", "reused"})
  BY DEF Made, Started
<1> QED
  BY <1>1, <1>2 DEF LifeOf

\* The key of a started job lives as its only job does.
LEMMA LifeOfJob ==
  ASSUME DiskInv, NEW h \in Handles, job[h] # "none"
  PROVE  /\ intent[h] \in Keys
         /\ LifeOf(intent[h]) =
              IF done[h] # "missing" THEN "done"
              ELSE IF job[h] \in {"dead", "reused"} THEN "gone"
              ELSE "running"
<1>1. intent[h] \in Keys /\ Started(intent[h]) = {h} /\ Made(intent[h]) # {}
  BY DEF DiskInv, MarkerInv, Speaks, Started, Made
<1> QED
  BY <1>1 DEF LifeOf

\* A key whose life moves, and no other.
LEMMA LifeMoves ==
  ASSUME NEW j \in Keys, NEW s,
         LifeOf(j)' = s,
         \A k \in Keys \ {j} : LifeOf(k)' = LifeOf(k)
  PROVE  Life' = [Life EXCEPT ![j] = s]
BY DEF Life

LEMMA LifeStays ==
  ASSUME \A k \in Keys : LifeOf(k)' = LifeOf(k)
  PROVE  Life' = Life
BY DEF Life

LEMMA DoubtStays ==
  ASSUME \A h \in Handles :
           /\ intent'[h] = intent[h] \/ (meta[h] = "none" /\ call'.handle = h)
           /\ meta[h] # "none" =>
                (meta'[h] # "pid" /\ call'.handle # h
                   <=> meta[h] # "pid" /\ call.handle # h)
           /\ meta[h] = "none" => intent[h] = NoKey
           /\ meta[h] = "none" => intent'[h] = NoKey \/ call'.handle = h
  PROVE  Doubt' = Doubt
BY HandleAssumption DEF Doubt, CutShort, Made

LEMMA AnswerStays ==
  ASSUME \A k \in Keys : AnswerOf(k)' = AnswerOf(k)
  PROVE  Answer' = Answer
BY DEF Answer

\* Steps that the registry does not see.
Quiet ==
  \/ \E k \in Keys : SubmitKnown(k) \/ SubmitDeclined(k) \/ MarkerTorn(k)
  \/ WriteMeta \/ OpenMarker \/ WriteMarker \/ OpenPid \/ WritePid
  \/ \E h \in Handles :
       PayloadEnds(h) \/ WriteDone(h) \/ PidReused(h) \/ StrangerExits(h)

LEMMA QuietStep ==
  ASSUME DiskInv, Quiet
  PROVE  UNCHANGED <<Life, Doubt, Answer>>
<1>1. UNCHANGED intent
  BY DEF Quiet, SubmitKnown, SubmitDeclined, MarkerTorn, WriteMeta, OpenMarker,
     WriteMarker, OpenPid, WritePid, PayloadEnds, WriteDone, PidReused, StrangerExits
<1>2. \A g \in Handles :
        /\ job'[g] = "none" <=> job[g] = "none"
        /\ done'[g] = "missing" <=> done[g] = "missing"
        /\ done[g] = "missing" =>
             (job'[g] \in {"dead", "reused"} <=> job[g] \in {"dead", "reused"})
  BY DEF Quiet, SubmitKnown, SubmitDeclined, MarkerTorn, WriteMeta, OpenMarker,
     WriteMarker, OpenPid, WritePid, PayloadEnds, WriteDone, PidReused, StrangerExits, DiskInv, JobInv, TypeOK
<1>3. UNCHANGED Life
  BY <1>1, <1>2, SameLife, LifeStays
<1>4. UNCHANGED Doubt
  BY <1>1, DoubtStays, HandleAssumption
     DEF Quiet, SubmitKnown, SubmitDeclined, MarkerTorn, WriteMeta, OpenMarker,
     WriteMarker, OpenPid, WritePid, PayloadEnds, WriteDone, PidReused, StrangerExits, DiskInv, CallInv, CallAt,
     Proceed, Idle, MarkerInv, Fresh, TypeOK
<1>5. UNCHANGED Answer
  BY AnswerStays, HandleAssumption
     DEF Quiet, SubmitKnown, SubmitDeclined, MarkerTorn, WriteMeta, OpenMarker,
     WriteMarker, OpenPid, WritePid, PayloadEnds, WriteDone, PidReused, StrangerExits, DiskInv, CallInv, CallAt,
     Proceed, Idle, MarkerInv, Fresh, TypeOK, AnswerOf, Said, Made
<1> QED
  BY <1>3, <1>4, <1>5

\* A directory made for a key is the question whether its job exists.
LEMMA SubmitBeginAsks ==
  ASSUME DiskInv, NEW k \in Keys, SubmitBegin(k)
  PROVE  \/ Contract!Ask(k)
         \/ UNCHANGED <<Life, Doubt, Answer>>
<1>1. PICK h \in Handles :
        /\ meta[h] = "none"
        /\ intent' = [intent EXCEPT ![h] = k]
        /\ meta'   = [meta EXCEPT ![h] = "torn"]
        /\ call'   = [pc |-> "meta", handle |-> h]
  BY DEF SubmitBegin
<1>2. intent[h] = NoKey /\ job[h] = "none" /\ k # NoKey
  BY <1>1, HandleAssumption DEF DiskInv, MarkerInv, Fresh
<1>3. \A j \in Keys \ {k} : LifeOf(j)' = LifeOf(j)
  BY <1>1, <1>2, SameLife, HandleAssumption DEF SubmitBegin, DiskInv, TypeOK
<1>4. Started(k)' = Started(k) /\ Made(k)' = Made(k) \cup {h}
  BY <1>1, <1>2 DEF Started, Made, SubmitBegin, DiskInv, TypeOK
<1>5. Started(k) = {}
  BY HandleAssumption DEF Started, Made, SubmitBegin, DiskInv, MarkerInv, Speaks
<1>6. LifeOf(k)' = "asked" /\ LifeOf(k) = IF Made(k) = {} THEN "absent" ELSE "asked"
  BY <1>4, <1>5 DEF LifeOf
<1>7. UNCHANGED Doubt
  BY <1>1, DoubtStays, HandleAssumption
     DEF SubmitBegin, DiskInv, CallInv, CallAt, MarkerInv, Fresh, TypeOK
<1>8. UNCHANGED Answer
  BY <1>1, <1>2, AnswerStays
     DEF SubmitBegin, AnswerOf, Said, Made, DiskInv, MarkerInv, Fresh, TypeOK
<1>9. CASE Made(k) = {}
  <2>1. Life' = [Life EXCEPT ![k] = "asked"] /\ Life[k] = "absent"
    BY <1>3, <1>6, <1>9, LifeMoves DEF Life
  <2> QED
    BY <1>7, <1>8, <2>1
       DEF Contract!Ask, Contract!Moves, Life, Doubt, Answer
<1>10. CASE Made(k) # {}
  <2>1. Life' = Life
    BY <1>3, <1>6, <1>10, LifeStays
  <2> QED
    BY <1>7, <1>8, <2>1
<1> QED
  BY <1>9, <1>10

LEMMA SpawnStarts ==
  ASSUME DiskInv, DiskInv', Spawn
  PROVE  \E k \in Keys : Contract!Start(k)
<1>1. PICK h \in Handles, k \in Keys :
      /\ h = call.handle /\ intent[h] = k
      /\ job[h] = "none" /\ done[h] = "missing"
      /\ job' = [job EXCEPT ![h] = "waiting"]
      /\ UNCHANGED <<marker, intent, meta, done, told>>
  BY HandleAssumption DEF Spawn, DiskInv, CallInv, CallAt, JobInv
<1>2. job'[h] = "waiting" /\ intent'[h] = k /\ done'[h] = "missing"
  BY <1>1 DEF DiskInv, TypeOK
<1>3. LifeOf(k)' = "running"
  <2>1. Started(k)' = {h} /\ Made(k)' # {}
    BY <1>1, <1>2 DEF DiskInv, MarkerInv, Speaks, Started, Made
  <2> QED
    BY <1>2, <2>1 DEF LifeOf
<1>4. LifeOf(k) = "asked"
  <2>1. Speaks(h)
    BY <1>1 DEF Spawn, CallAt, Speaks
  <2>2. \A g \in Handles \ {h} : intent[g] = k => job[g] = "none"
    BY <1>1, <2>1 DEF DiskInv, MarkerInv, Speaks
  <2>3. Started(k) = {} /\ Made(k) # {}
    BY <1>1, <2>2 DEF Started, Made
  <2> QED
    BY <2>3 DEF LifeOf
<1>5. \A j \in Keys \ {k} : LifeOf(j)' = LifeOf(j)
  BY <1>1, SameLife DEF DiskInv, TypeOK
<1>6. Life' = [Life EXCEPT ![k] = "running"] /\ Life[k] = "asked"
  BY <1>1, <1>3, <1>4, <1>5, LifeMoves DEF Life
<1>7. UNCHANGED Doubt
  BY <1>1 DEF Spawn, Proceed, Doubt, CutShort, Made, DiskInv, TypeOK
<1>8. UNCHANGED Answer
  BY <1>1, AnswerStays DEF AnswerOf, Said, Made
<1>9. Contract!Start(k)
  BY <1>6, <1>7, <1>8 DEF Contract!Start, Contract!Moves, Life, Doubt, Answer
<1> QED
  BY <1>1, <1>9

\* The death of a submitter leaves its key in doubt.
LEMMA SubmitDiesCutsShort ==
  ASSUME DiskInv, SubmitDies
  PROVE  \E k \in Keys : Contract!CutShort(k)
<1>1. PICK h \in Handles, k \in Keys :
      /\ h = call.handle /\ intent[h] = k /\ meta[h] # "pid"
      /\ call'.handle = NoHandle
      /\ UNCHANGED <<disk, procs, told>>
  BY DEF SubmitDies, Idle, DiskInv, CallInv, CallAt
<1>2. LifeOf(k) # "absent"
  BY <1>1 DEF LifeOf, Made
<1>3. Doubt' = Doubt \cup {k}
  BY <1>1, HandleAssumption DEF Doubt, CutShort, Made
<1>4. UNCHANGED <<Life, Answer>>
  BY <1>1 DEF Life, Answer, LifeOf, AnswerOf, Said, Made, Started
<1>5. Contract!CutShort(k)
  BY <1>1, <1>2, <1>3, <1>4 DEF Contract!CutShort, Life, Doubt, Answer
<1> QED
  BY <1>1, <1>5

\* The wrapper opens the record or is killed: the end of the job, unless the
\* record was open already or the process killed was a stranger.
LEMMA JobStepEnds ==
  ASSUME DiskInv, DiskInv', NEW h \in Handles,
         OpenDone(h) \/ WrapperDies(h) \/ Cancel(h)
  PROVE  \/ \E k \in Keys : Contract!End(k)
         \/ UNCHANGED <<Life, Doubt, Answer>>
<1>1. /\ job[h] # "none" /\ job'[h] # "none"
      /\ UNCHANGED <<marker, intent, meta, call, told>>
      /\ \A g \in Handles \ {h} : job'[g] = job[g] /\ done'[g] = done[g]
  BY DEF OpenDone, WrapperDies, Cancel, Alive, DiskInv, TypeOK
<1>2. PICK k \in Keys : intent[h] = k /\ intent'[h] = k
  BY <1>1, LifeOfJob
<1>3. UNCHANGED Doubt
  BY <1>1 DEF Doubt, CutShort, Made
<1>4. UNCHANGED Answer
  BY <1>1, AnswerStays DEF AnswerOf, Said, Made
<1>5. \A j \in Keys \ {k} : LifeOf(j)' = LifeOf(j)
  BY <1>1, <1>2, SameLife
<1>6. CASE job[h] = "waiting"
  <2>1. LifeOf(k) = "running"
    BY <1>1, <1>2, <1>6, LifeOfJob DEF DiskInv, JobInv
  <2>2. done'[h] # "missing" \/ job'[h] = "dead"
    BY <1>6 DEF OpenDone, WrapperDies, Cancel, DiskInv, TypeOK
  <2>3. Started(k)' = {h} /\ Made(k)' # {}
    BY <1>1, <1>2 DEF DiskInv, MarkerInv, Speaks, Started, Made
  <2>4. LifeOf(k)' \in {"done", "gone"}
    BY <2>2, <2>3 DEF LifeOf
  <2>5. PICK s \in {"done", "gone"} : LifeOf(k)' = s
    BY <2>4
  <2>6. Life' = [Life EXCEPT ![k] = s] /\ Life[k] = "running"
    BY <1>2, <1>5, <2>1, <2>5, LifeMoves DEF Life
  <2>7. Contract!End(k)
    BY <1>3, <1>4, <2>6 DEF Contract!End, Contract!Moves, Life, Doubt, Answer
  <2> QED
    BY <1>2, <2>7
<1>7. CASE job[h] # "waiting"
  <2>1. /\ done'[h] = "missing" <=> done[h] = "missing"
        /\ done[h] = "missing" =>
             (job'[h] \in {"dead", "reused"} <=> job[h] \in {"dead", "reused"})
    BY <1>7 DEF OpenDone, WrapperDies, Cancel, Alive, DiskInv, JobInv, TypeOK
  <2>2. LifeOf(k)' = LifeOf(k)
    BY <1>1, <1>2, <2>1, SameLife
  <2>3. Life' = Life
    BY <1>5, <2>2, LifeStays
  <2> QED
    BY <1>3, <1>4, <2>3
<1> QED
  BY <1>6, <1>7

\* What poll says is true of the key, and is said of no other.
LEMMA ReplyAnswers ==
  ASSUME DiskInv, DiskInv', NEW h \in Handles, told[h] # "unknown",
         NEW a \in {"submitted", "resolved", "lost"},
         told' = [told EXCEPT ![h] = a],
         a = "resolved" => done[h] # "missing",
         UNCHANGED <<disk, procs, call>>
  PROVE  \E k \in Keys : Contract!Answer(k)
<1>1. PICK k \in Keys : intent[h] = k
  BY DEF DiskInv, MarkerInv, Speaks
<1>2. told'[h] = a /\ \A g \in Handles \ {h} : told'[g] = told[g]
  BY DEF DiskInv, TypeOK
<1>3. Answer' = [Answer EXCEPT ![k] = a]
  <2>1. \A g \in Made(k) \ {h} : told'[g] = "unknown"
    BY <1>1, <1>2 DEF Made, DiskInv, MarkerInv, Speaks
  <2>2. AnswerOf(k)' = a
    BY <1>1, <1>2, <2>1 DEF AnswerOf, Said, Made
  <2>3. \A j \in Keys \ {k} : AnswerOf(j)' = AnswerOf(j)
    BY <1>1, <1>2 DEF AnswerOf, Said, Made
  <2> QED
    BY <2>2, <2>3 DEF Answer
<1>4. UNCHANGED <<Life, Doubt>>
  BY DEF Life, Doubt, LifeOf, CutShort, Made, Started
<1>5. LifeOf(k) # "absent"
  BY <1>1 DEF LifeOf, Made
<1>6. a = "resolved" => LifeOf(k) = "done"
  BY <1>1, LifeOfJob DEF DiskInv, JobInv
<1>7. a = "lost" => LifeOf(k) = "gone" \/ k \in Doubt
  <2> SUFFICES ASSUME a = "lost" PROVE LifeOf(k) = "gone" \/ k \in Doubt
    OBVIOUS
  <2>1. \/ meta[h] = "torn" /\ call.handle # h
        \/ job[h] \in {"dead", "reused"} /\ done[h] = "missing"
    BY <1>2 DEF DiskInv, AnswersAreTrue
  <2>2. CASE meta[h] = "torn" /\ call.handle # h
    BY <1>1, <2>2 DEF Doubt, CutShort, Made
  <2>3. CASE job[h] \in {"dead", "reused"} /\ done[h] = "missing"
    BY <1>1, <2>3, LifeOfJob
  <2> QED
    BY <2>1, <2>2, <2>3
<1>8. Contract!Answer(k)
  BY <1>1, <1>3, <1>4, <1>5, <1>6, <1>7
     DEF Contract!Answer, Life, Doubt, Answer
<1> QED
  BY <1>8

LEMMA PollStep ==
  ASSUME DiskInv, DiskInv', PollGoesOn \/ \E h \in Handles : PollDone(h)
  PROVE  \/ \E k \in Keys : Contract!Answer(k)
         \/ UNCHANGED <<Life, Doubt, Answer>>
<1>1. UNCHANGED <<disk, procs, call>>
  BY DEF PollGoesOn, PollDone, PollMeta, PollAlive, PollAgain
<1>2. CASE UNCHANGED told
  BY <1>1, <1>2
     DEF Life, Doubt, Answer, LifeOf, CutShort, AnswerOf, Said, Made, Started
<1>3. CASE told' # told
  <2>1. PICK h \in Handles, a \in {"submitted", "resolved", "lost"} :
          /\ told[h] # "unknown"
          /\ told' = [told EXCEPT ![h] = a]
          /\ a = "resolved" => done[h] # "missing"
    <3>1. CASE PollGoesOn
      <4>1. probe.handle \in Handles /\ told[probe.handle] # "unknown"
        BY <3>1 DEF PollGoesOn, PollMeta, PollAlive, PollAgain, DiskInv, ProbeInv
      <4> QED
        BY <1>3, <3>1, <4>1
           DEF PollGoesOn, PollMeta, PollAlive, PollAgain, Look, Reply
    <3>2. CASE \E h \in Handles : PollDone(h)
      BY <1>3, <3>2 DEF PollDone
    <3> QED
      BY <3>1, <3>2
  <2> QED
    BY <1>1, <2>1, ReplyAnswers
<1> QED
  BY <1>2, <1>3

LEMMA ContractStep ==
  ASSUME DiskInv, DiskInv', [Next]_vars
  PROVE  [Contract!Next]_(Contract!vars)
<1>1. SUFFICES \/ Contract!Next
               \/ UNCHANGED <<Life, Doubt, Answer>>
  BY DEF Contract!vars, Life, Doubt, Answer
<1>2. CASE Quiet
  BY <1>2, QuietStep
<1>3. ASSUME NEW k \in Keys, SubmitBegin(k)
      PROVE  Contract!Next \/ UNCHANGED <<Life, Doubt, Answer>>
  BY <1>3, SubmitBeginAsks DEF Contract!Next
<1>4. CASE Spawn
  BY <1>4, SpawnStarts DEF Contract!Next
<1>5. CASE SubmitDies
  BY <1>5, SubmitDiesCutsShort DEF Contract!Next
<1>6. ASSUME NEW h \in Handles, OpenDone(h) \/ WrapperDies(h) \/ Cancel(h)
      PROVE  Contract!Next \/ UNCHANGED <<Life, Doubt, Answer>>
  BY <1>6, JobStepEnds DEF Contract!Next
<1>7. CASE PollGoesOn \/ \E h \in Handles : PollDone(h)
  BY <1>7, PollStep DEF Contract!Next
<1>8. CASE UNCHANGED vars
  BY <1>8 DEF Life, Doubt, Answer, LifeOf, CutShort, AnswerOf, Said, Made, Started
<1> QED
  BY <1>2, <1>3, <1>4, <1>5, <1>6, <1>7, <1>8
     DEF Next, SubmitGoesOn, JobGoesOn, Quiet

\* Directories, markers, processes and crashes keep the contract the registry
\* relies on: one job per key, a life that goes one way, and true outcomes.
THEOREM Refinement == Spec => ImplementsSubstrate
<1>1. Init => Contract!Init
  BY HandleAssumption
     DEF Init, Contract!Init, LifeOf, CutShort, AnswerOf, Said, Made, Started
<1>2. DiskInv /\ DiskInv' /\ [Next]_vars => [Contract!Next]_(Contract!vars)
  BY ContractStep
<1> QED
  BY <1>1, <1>2, DiskAgrees, PTL DEF Spec, ImplementsSubstrate, Contract!Spec

=============================================================================
