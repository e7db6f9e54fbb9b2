--------------------------- MODULE RegistryProofs ---------------------------
(***************************************************************************)
(* Machine-checked proofs about the job registry, for any number of        *)
(* processes and keys and any caps, prices, windows and bounds.            *)
(*                                                                         *)
(* The argument: AdmissionInv (Registry.tla) is inductive.  Its heart is   *)
(* AdmittedInv: between the reads of the breaker and the appended          *)
(* reservation a submitter holds the admission lock, and every row that    *)
(* could open the breaker or reserve another key needs that lock, while    *)
(* the rows written without it (resolved, breaker_reset, abandoned) cannot *)
(* invalidate what was read.  The theorems below follow from it.           *)
(***************************************************************************)
EXTENDS Registry, TLAPS

-----------------------------------------------------------------------------
(* Local variables of a process.                                           *)

\* The updates that operations make to their local variables keep the type.
LEMMA LocalsType ==
  ASSUME NEW a \in Locals, NEW k \in Keys \cup {NoKey}, NEW j
  PROVE  /\ [a EXCEPT !.key = k] \in Locals
         /\ \A w \in Nat : [a EXCEPT !.key = k, !.window = w] \in Locals
         /\ \A c \in Nat : [a EXCEPT !.cost = c] \in Locals
         /\ \A S \in SUBSET Keys : [a EXCEPT !.todo = S] \in Locals
         /\ [a EXCEPT !.todo = @ \ {j}] \in Locals
         /\ [a EXCEPT !.key = k, !.todo = @ \ {j}] \in Locals
         /\ [a EXCEPT !.todo = @ \ {j}, !.key = k] \in Locals
         /\ j \in Keys =>
              [a EXCEPT !.key = k, !.todo = @ \ {j}, !.out = @ \cup {j}] \in Locals
  BY DEF Locals

\* An idle process has local variables of the right type.
LEMMA NoLocalsType == NoLocals \in Locals
  BY DEF NoLocals, Locals

-----------------------------------------------------------------------------
(* Types and control.                                                      *)

\* The empty log and the idle processes have their types.
LEMMA InitType == Init => TypeOK
  BY SortAssumption DEF Init, TypeOK, ReservationState, Charge, NoCharge,
     JobState, SubstrateState, PC, Waiting, InSubmit, InReconcile, InSweep,
     InCollect, InAbandon, Locals, NoLocals

\* Every step keeps the types, given that an operation that names a key has one.
LEMMA NextType == TypeOK /\ KeyInv /\ [Next]_vars => TypeOK'
<1>. SUFFICES ASSUME TypeOK, KeyInv, [Next]_vars PROVE TypeOK'
  OBVIOUS
<1>. USE SortAssumption, MoneyAssumption, TimeAssumption, NoLocalsType DEF
  TypeOK, log, world, procs, bounds, PC, Waiting, InSubmit, InReconcile,
  InSweep, InCollect, InAbandon, ReservationState, JobState, SubstrateState,
  Charge
<1>1. ASSUME NEW r \in Runners, Acquire(r) PROVE TypeOK'
  BY <1>1 DEF Acquire, Goto
<1>2. ASSUME NEW r \in Runners, LockTimeout(r) PROVE TypeOK'
  BY <1>2 DEF LockTimeout, Goto, Return
<1>3. ASSUME NEW r \in Runners, Escalate(r) PROVE TypeOK'
  BY <1>3 DEF Escalate, AppendClosed, Unescalated
<1>4. ASSUME NEW r \in Runners, SubmitBegin(r) PROVE TypeOK'
  <2>1. PICK k \in Keys, w \in Windows :
           Enter(r, "submit_wait", [NoLocals EXCEPT !.key = k, !.window = w])
    BY <1>4 DEF SubmitBegin
  <2>2. [NoLocals EXCEPT !.key = k, !.window = w] \in Locals
    BY LocalsType, NoLocalsType
  <2>. QED
    BY <1>4, <2>1, <2>2 DEF SubmitBegin, Enter, Goto
<1>5. ASSUME NEW r \in Runners, Admit(r) PROVE TypeOK'
  BY <1>5 DEF Admit, Goto, Unescalated
<1>6. ASSUME NEW r \in Runners, RefuseAdmission(r) PROVE TypeOK'
  BY <1>6 DEF RefuseAdmission, Goto, Return, Unescalated
<1>7. ASSUME NEW r \in Runners, Price(r) PROVE TypeOK'
  <2>1. PICK c \in Quotes :
           IF WithinCaps(c, now)
           THEN /\ arg' = [arg EXCEPT ![r].cost = c]
                /\ Goto(r, "submit_priced")
                /\ UNCHANGED lock
           ELSE Return(r)
    BY <1>7 DEF Price
  <2>2. [arg[r] EXCEPT !.cost = c] \in Locals
    <3>1. c \in Nat /\ arg[r] \in Locals
      OBVIOUS
    <3>2. NoKey \in Keys \cup {NoKey}
      OBVIOUS
    <3>. QED
      BY <3>1, <3>2, LocalsType
  <2>3. CASE WithinCaps(c, now)
    <3>1. arg' = [arg EXCEPT ![r] = [arg[r] EXCEPT !.cost = c]]
      BY <2>1, <2>3
    <3>. QED
      BY <1>7, <2>1, <2>2, <2>3, <3>1 DEF Price, Goto
  <2>4. CASE ~WithinCaps(c, now)
    BY <1>7, <2>1, <2>4, NoLocalsType DEF Price, Goto, Return
  <2>. QED
    BY <2>3, <2>4
<1>8. ASSUME NEW r \in Runners, Reserve(r) PROVE TypeOK'
  <2>1. arg[r].cost \in Nat /\ now + arg[r].window \in Nat
    BY DEF Locals
  <2>2. [at |-> now, cost |-> arg[r].cost, due |-> now + arg[r].window] \in Charge
    BY <2>1
  <2>. QED
    BY <1>8, <2>2 DEF Reserve, AppendReserved, Goto
<1>9. ASSUME NEW r \in Runners, CallSubstrate(r) PROVE TypeOK'
  <2>1. arg[r].key \in Keys
    BY <1>9 DEF CallSubstrate, KeyInv, Keyed
  <2>2. calls' \in [Keys -> Nat] /\ substrate' \in [Keys -> SubstrateState]
    BY <1>9, <2>1 DEF CallSubstrate
  <2>. QED
    BY <1>9, <2>2 DEF CallSubstrate, Goto
<1>10. ASSUME NEW r \in Runners, Release(r) PROVE TypeOK'
  BY <1>10 DEF Release, AppendClosed, Goto, Return
<1>11. ASSUME NEW r \in Runners, Bind(r) PROVE TypeOK'
  BY <1>11 DEF Bind, AppendBound, Goto, Return
<1>12. ASSUME NEW r \in Runners, CollectBegin(r) PROVE TypeOK'
  <2>1. Outstanding \in SUBSET Keys
    BY DEF Outstanding
  <2>2. [NoLocals EXCEPT !.todo = Outstanding] \in Locals
    BY <2>1, LocalsType
  <2>. QED
    BY <1>12, <2>2 DEF CollectBegin, Enter, Goto
<1>13. ASSUME NEW r \in Runners, CollectPoll(r) PROVE TypeOK'
  <2>1. PICK k \in arg[r].todo :
           IF substrate[k] = "done"
           THEN /\ arg' = [arg EXCEPT ![r].key = k]
                /\ Goto(r, "collect_resolve")
           ELSE /\ arg' = [arg EXCEPT ![r].todo = @ \ {k}]
                /\ UNCHANGED pc
    BY <1>13 DEF CollectPoll
  <2>2. k \in Keys /\ arg[r] \in Locals
    BY DEF Locals
  <2>3. /\ [arg[r] EXCEPT !.key = k] \in Locals
        /\ [arg[r] EXCEPT !.todo = @ \ {k}] \in Locals
    BY <2>2, LocalsType
  <2>4. arg' \in [Runners -> Locals]
    BY <2>1, <2>3
  <2>. QED
    BY <1>13, <2>1, <2>4 DEF CollectPoll, Goto
<1>14. ASSUME NEW r \in Runners, CollectResolve(r) PROVE TypeOK'
  <2>. DEFINE k == arg[r].key
               moved == [arg[r] EXCEPT !.key = NoKey, !.todo = @ \ {k},
                                       !.out = @ \cup {k}]
  <2>1. k \in Keys
    BY <1>14 DEF CollectResolve, KeyInv, Keyed
  <2>2. moved \in Locals
    BY <2>1, LocalsType
  <2>3. arg' = [arg EXCEPT ![r] = moved]
    BY <1>14 DEF CollectResolve
  <2>4. jobs' \in [Keys -> JobState]
    BY <1>14 DEF CollectResolve, AppendOutcome
  <2>. QED
    BY <1>14, <2>2, <2>3, <2>4 DEF CollectResolve, AppendOutcome, Goto
<1>15. ASSUME NEW r \in Runners, CollectSkip(r) PROVE TypeOK'
  <2>1. CASE pc[r] = "collect"
    <3>1. PICK k \in arg[r].todo : arg' = [arg EXCEPT ![r].todo = @ \ {k}]
      BY <1>15, <2>1 DEF CollectSkip
    <3>2. [arg[r] EXCEPT !.todo = @ \ {k}] \in Locals
      BY LocalsType
    <3>. QED
      BY <1>15, <3>1, <3>2 DEF CollectSkip, Goto
  <2>2. CASE pc[r] = "collect_resolve"
    <3>1. [arg[r] EXCEPT !.todo = @ \ {arg[r].key}, !.key = NoKey] \in Locals
      BY LocalsType
    <3>2. arg' = [arg EXCEPT ![r] =
                   [arg[r] EXCEPT !.todo = @ \ {arg[r].key}, !.key = NoKey]]
      BY <1>15, <2>2 DEF CollectSkip
    <3>. QED
      BY <1>15, <3>1, <3>2 DEF CollectSkip, Goto
  <2>. QED
    BY <1>15, <2>1, <2>2 DEF CollectSkip
<1>16. ASSUME NEW r \in Runners, CollectReturn(r) PROVE TypeOK'
  BY <1>16 DEF CollectReturn, Goto, Return
<1>17. ASSUME NEW r \in Runners, SweepBegin(r) PROVE TypeOK'
  <2>1. Overdue(now) \in SUBSET Keys
    BY DEF Overdue, Outstanding
  <2>2. [NoLocals EXCEPT !.todo = Overdue(now)] \in Locals
    BY <2>1, LocalsType
  <2>. QED
    BY <1>17, <2>2 DEF SweepBegin, Enter, Goto
<1>18. ASSUME NEW r \in Runners, SweepPoll(r) PROVE TypeOK'
  <2>1. PICK k \in arg[r].todo :
           /\ arg' = [arg EXCEPT ![r].key = k]
           /\ Goto(r, IF substrate[k] = "done" THEN "sweep_resolve"
                                               ELSE "sweep_lose")
    BY <1>18 DEF SweepPoll
  <2>2. k \in Keys /\ arg[r] \in Locals
    BY DEF Locals
  <2>3. [arg[r] EXCEPT !.key = k] \in Locals
    BY <2>2, LocalsType
  <2>. QED
    BY <1>18, <2>1, <2>3 DEF SweepPoll, Goto
<1>19. ASSUME NEW r \in Runners, SweepResolve(r) PROVE TypeOK'
  <2>1. [arg[r] EXCEPT !.key = NoKey, !.todo = @ \ {arg[r].key}] \in Locals
    BY LocalsType
  <2>2. arg' = [arg EXCEPT ![r] =
                 [arg[r] EXCEPT !.key = NoKey, !.todo = @ \ {arg[r].key}]]
    BY <1>19 DEF SweepResolve
  <2>3. jobs' \in [Keys -> JobState]
    BY <1>19 DEF SweepResolve, AppendOutcome
  <2>. QED
    BY <1>19, <2>1, <2>2, <2>3 DEF SweepResolve, AppendOutcome, Goto
<1>20. ASSUME NEW r \in Runners, RecordLost(r) PROVE TypeOK'
  <2>. DEFINE k == arg[r].key
               moved == [arg[r] EXCEPT !.key = NoKey, !.todo = @ \ {k},
                                       !.out = @ \cup {k}]
  <2>1. k \in Keys
    BY <1>20 DEF RecordLost, KeyInv, Keyed
  <2>2. moved \in Locals
    BY <2>1, LocalsType
  <2>3. arg' = [arg EXCEPT ![r] = moved]
    BY <1>20 DEF RecordLost
  <2>4. jobs' \in [Keys -> JobState]
    BY <1>20 DEF RecordLost, AppendOutcome
  <2>. QED
    BY <1>20, <2>2, <2>3, <2>4 DEF RecordLost, AppendOutcome, Goto
<1>21. ASSUME NEW r \in Runners, SweepReturn(r) PROVE TypeOK'
  BY <1>21 DEF SweepReturn, Goto, Return
<1>22. ASSUME NEW r \in Runners, ReconcileBegin(r) PROVE TypeOK'
  BY <1>22 DEF ReconcileBegin, Enter, Goto
<1>23. ASSUME NEW r \in Runners, ReconcileReturn(r) PROVE TypeOK'
  BY <1>23 DEF ReconcileReturn, Goto, Return, Unescalated
<1>24. ASSUME NEW r \in Runners, AbandonBegin(r) PROVE TypeOK'
  <2>1. PICK k \in Keys : Enter(r, "abandon", [NoLocals EXCEPT !.key = k])
    BY <1>24 DEF AbandonBegin
  <2>2. [NoLocals EXCEPT !.key = k] \in Locals
    BY LocalsType, NoLocalsType
  <2>. QED
    BY <1>24, <2>1, <2>2 DEF AbandonBegin, Enter, Goto
<1>25. ASSUME NEW r \in Runners, Abandon(r) PROVE TypeOK'
  BY <1>25 DEF Abandon, AppendClosed, Goto, Return
<1>26. ASSUME NEW r \in Runners, Raise(r) PROVE TypeOK'
  BY <1>26 DEF Raise, Goto, Return
<1>27. ASSUME NEW r \in Runners, Crash(r) PROVE TypeOK'
  BY <1>27 DEF Crash, Goto, Return
<1>28. ASSUME NEW k \in Keys, SubstrateStarts(k) PROVE TypeOK'
  BY <1>28 DEF SubstrateStarts
<1>29. ASSUME NEW k \in Keys, JobEnds(k) PROVE TypeOK'
  BY <1>29 DEF JobEnds
<1>30. ASSUME ResetBreaker PROVE TypeOK'
  BY <1>30 DEF ResetBreaker, AppendBreaker
<1>31. ASSUME TripBreaker PROVE TypeOK'
  BY <1>31 DEF TripBreaker, AppendBreaker
<1>32. ASSUME Tick PROVE TypeOK'
  BY <1>32 DEF Tick
<1>33. CASE UNCHANGED vars
  BY <1>33 DEF vars
<1>. QED
  BY <1>1, <1>2, <1>3, <1>4, <1>5, <1>6, <1>7, <1>8, <1>9, <1>10, <1>11, <1>12,
    <1>13, <1>14, <1>15, <1>16, <1>17, <1>18, <1>19, <1>20, <1>21, <1>22,
    <1>23, <1>24, <1>25, <1>26, <1>27, <1>28, <1>29, <1>30, <1>31, <1>32, <1>33
  DEF Next, Process, Submit, Collect, Sweep, Reconcile

\* The lock is held exactly inside the locked section, and an operation that
\* works on a key has one: every step keeps both.
LEMMA NextControl ==
  TypeOK /\ LockInv /\ KeyInv /\ [Next]_vars => LockInv' /\ KeyInv'
<1>. SUFFICES ASSUME TypeOK, LockInv, KeyInv, [Next]_vars
              PROVE  LockInv' /\ KeyInv'
  OBVIOUS
<1>. USE SortAssumption DEF TypeOK, log, world, procs, bounds, Waiting,
  InSubmit, InReconcile, InSweep, InCollect, InAbandon, LockInv, KeyInv,
  Holding, Keyed, Locals, NoLocals
<1>1. ASSUME NEW r \in Runners, Acquire(r) PROVE LockInv' /\ KeyInv'
  BY <1>1 DEF Acquire, Goto
<1>2. ASSUME NEW r \in Runners, LockTimeout(r) PROVE LockInv' /\ KeyInv'
  BY <1>2 DEF LockTimeout, Goto, Return
<1>3. ASSUME NEW r \in Runners, Escalate(r) PROVE LockInv' /\ KeyInv'
  BY <1>3 DEF Escalate, AppendClosed, Unescalated
<1>4. ASSUME NEW r \in Runners, SubmitBegin(r) PROVE LockInv' /\ KeyInv'
  BY <1>4 DEF SubmitBegin, Enter, Goto
<1>5. ASSUME NEW r \in Runners, Admit(r) PROVE LockInv' /\ KeyInv'
  BY <1>5 DEF Admit, Goto, Unescalated
<1>6. ASSUME NEW r \in Runners, RefuseAdmission(r) PROVE LockInv' /\ KeyInv'
  BY <1>6 DEF RefuseAdmission, Goto, Return, Unescalated
<1>7. ASSUME NEW r \in Runners, Price(r) PROVE LockInv' /\ KeyInv'
  <2>1. /\ pc[r] = "submit_admitted"
        /\ UNCHANGED <<log, world, now, bounds>>
    BY <1>7 DEF Price
  <2>2. PICK c \in Quotes :
           IF WithinCaps(c, now)
           THEN /\ arg' = [arg EXCEPT ![r].cost = c]
                /\ Goto(r, "submit_priced")
                /\ UNCHANGED lock
           ELSE Return(r)
    BY <1>7 DEF Price
  <2>3. CASE WithinCaps(c, now)
    <3>1. c <= PerJobCap
      BY <2>3 DEF WithinCaps
    <3>2. /\ arg' = [arg EXCEPT ![r].cost = c]
          /\ pc' = [pc EXCEPT ![r] = "submit_priced"]
          /\ UNCHANGED lock
      BY <2>2, <2>3 DEF Goto
    <3>3. /\ arg'[r].cost = c
          /\ \A s \in Runners : /\ arg'[s].key = arg[s].key
                                /\ s # r => arg'[s] = arg[s]
      BY <3>2
    <3>. QED
      BY <2>1, <3>1, <3>2, <3>3
  <2>4. CASE ~WithinCaps(c, now)
    <3>1. Return(r)
      BY <2>2, <2>4
    <3>. QED
      BY <2>1, <3>1 DEF Return, Goto
  <2>. QED
    BY <2>3, <2>4
<1>8. ASSUME NEW r \in Runners, Reserve(r) PROVE LockInv' /\ KeyInv'
  BY <1>8 DEF Reserve, AppendReserved, Goto
<1>9. ASSUME NEW r \in Runners, CallSubstrate(r) PROVE LockInv' /\ KeyInv'
  BY <1>9 DEF CallSubstrate, Goto
<1>10. ASSUME NEW r \in Runners, Release(r) PROVE LockInv' /\ KeyInv'
  BY <1>10 DEF Release, AppendClosed, Goto, Return
<1>11. ASSUME NEW r \in Runners, Bind(r) PROVE LockInv' /\ KeyInv'
  BY <1>11 DEF Bind, AppendBound, Goto, Return
<1>12. ASSUME NEW r \in Runners, CollectBegin(r) PROVE LockInv' /\ KeyInv'
  BY <1>12 DEF CollectBegin, Enter, Goto, Outstanding
<1>13. ASSUME NEW r \in Runners, CollectPoll(r) PROVE LockInv' /\ KeyInv'
  <2>1. /\ pc[r] = "collect"
        /\ UNCHANGED <<log, world, lock, now, bounds>>
    BY <1>13 DEF CollectPoll
  <2>2. PICK k \in arg[r].todo :
           IF substrate[k] = "done"
           THEN /\ arg' = [arg EXCEPT ![r].key = k]
                /\ Goto(r, "collect_resolve")
           ELSE /\ arg' = [arg EXCEPT ![r].todo = @ \ {k}]
                /\ UNCHANGED pc
    BY <1>13 DEF CollectPoll
  <2>3. CASE substrate[k] = "done"
    <3>1. /\ arg' = [arg EXCEPT ![r].key = k]
          /\ pc' = [pc EXCEPT ![r] = "collect_resolve"]
      BY <2>2, <2>3 DEF Goto
    <3>2. /\ k \in Keys /\ arg'[r].key = k /\ arg'[r].todo = arg[r].todo
          /\ \A s \in Runners : s # r => arg'[s] = arg[s]
      BY <3>1
    <3>. QED
      BY <2>1, <2>3, <3>1, <3>2
  <2>4. CASE substrate[k] # "done"
    <3>1. /\ arg' = [arg EXCEPT ![r].todo = @ \ {k}]
          /\ UNCHANGED pc
      BY <2>2, <2>4
    <3>2. /\ arg'[r].key = arg[r].key /\ arg'[r].todo \subseteq arg[r].todo
          /\ \A s \in Runners : s # r => arg'[s] = arg[s]
      BY <3>1
    <3>. QED
      BY <2>1, <3>1, <3>2
  <2>. QED
    BY <2>3, <2>4
<1>14. ASSUME NEW r \in Runners, CollectResolve(r) PROVE LockInv' /\ KeyInv'
  BY <1>14 DEF CollectResolve, AppendOutcome, Goto
<1>15. ASSUME NEW r \in Runners, CollectSkip(r) PROVE LockInv' /\ KeyInv'
  BY <1>15 DEF CollectSkip, Goto
<1>16. ASSUME NEW r \in Runners, CollectReturn(r) PROVE LockInv' /\ KeyInv'
  BY <1>16 DEF CollectReturn, Goto, Return
<1>17. ASSUME NEW r \in Runners, SweepBegin(r) PROVE LockInv' /\ KeyInv'
  BY <1>17 DEF SweepBegin, Enter, Goto, Outstanding, Overdue
<1>18. ASSUME NEW r \in Runners, SweepPoll(r) PROVE LockInv' /\ KeyInv'
  BY <1>18 DEF SweepPoll, Goto
<1>19. ASSUME NEW r \in Runners, SweepResolve(r) PROVE LockInv' /\ KeyInv'
  BY <1>19 DEF SweepResolve, AppendOutcome, Goto
<1>20. ASSUME NEW r \in Runners, RecordLost(r) PROVE LockInv' /\ KeyInv'
  BY <1>20 DEF RecordLost, AppendOutcome, Goto
<1>21. ASSUME NEW r \in Runners, SweepReturn(r) PROVE LockInv' /\ KeyInv'
  BY <1>21 DEF SweepReturn, Goto, Return
<1>22. ASSUME NEW r \in Runners, ReconcileBegin(r) PROVE LockInv' /\ KeyInv'
  BY <1>22 DEF ReconcileBegin, Enter, Goto
<1>23. ASSUME NEW r \in Runners, ReconcileReturn(r) PROVE LockInv' /\ KeyInv'
  BY <1>23 DEF ReconcileReturn, Goto, Return, Unescalated
<1>24. ASSUME NEW r \in Runners, AbandonBegin(r) PROVE LockInv' /\ KeyInv'
  BY <1>24 DEF AbandonBegin, Enter, Goto
<1>25. ASSUME NEW r \in Runners, Abandon(r) PROVE LockInv' /\ KeyInv'
  BY <1>25 DEF Abandon, AppendClosed, Goto, Return
<1>26. ASSUME NEW r \in Runners, Raise(r) PROVE LockInv' /\ KeyInv'
  BY <1>26 DEF Raise, Goto, Return
<1>27. ASSUME NEW r \in Runners, Crash(r) PROVE LockInv' /\ KeyInv'
  BY <1>27 DEF Crash, Goto, Return
<1>28. ASSUME NEW k \in Keys, SubstrateStarts(k) PROVE LockInv' /\ KeyInv'
  BY <1>28 DEF SubstrateStarts
<1>29. ASSUME NEW k \in Keys, JobEnds(k) PROVE LockInv' /\ KeyInv'
  BY <1>29 DEF JobEnds
<1>30. ASSUME ResetBreaker PROVE LockInv' /\ KeyInv'
  BY <1>30 DEF ResetBreaker, AppendBreaker
<1>31. ASSUME TripBreaker PROVE LockInv' /\ KeyInv'
  BY <1>31 DEF TripBreaker, AppendBreaker
<1>32. ASSUME Tick PROVE LockInv' /\ KeyInv'
  BY <1>32 DEF Tick
<1>33. CASE UNCHANGED vars
  BY <1>33 DEF vars
<1>. QED
  BY <1>1, <1>2, <1>3, <1>4, <1>5, <1>6, <1>7, <1>8, <1>9, <1>10, <1>11, <1>12,
    <1>13, <1>14, <1>15, <1>16, <1>17, <1>18, <1>19, <1>20, <1>21, <1>22,
    <1>23, <1>24, <1>25, <1>26, <1>27, <1>28, <1>29, <1>30, <1>31, <1>32, <1>33
  DEF Next, Process, Submit, Collect, Sweep, Reconcile

-----------------------------------------------------------------------------
(* Admission.                                                              *)

\* The parts of AdmissionInv that speak of reservations.
ReservationInv ==
  /\ AdmittedInv
  /\ PricedInv
  /\ UncalledInv
  /\ KeyStateInv
  /\ AbandonInv
  /\ LiveReservationNeverEscalated
  /\ AtMostOneInDoubt
  /\ OneCallPerKey

\* An empty log satisfies the inductive invariant.
LEMMA InitAdmission == Init => AdmissionInv
<1>. SUFFICES ASSUME Init PROVE AdmissionInv
  OBVIOUS
<1>1. TypeOK
  BY InitType
<1>2. LockInv /\ KeyInv
  BY SortAssumption DEF Init, LockInv, KeyInv, Holding, Keyed, InSubmit,
    InReconcile
<1>3. ReservationInv
  BY DEF Init, ReservationInv, AdmittedInv, PricedInv, UncalledInv,
     KeyStateInv, AbandonInv, LiveReservationNeverEscalated,
     AtMostOneInDoubt, OneCallPerKey, Unaccounted, Charged
<1>. QED
  BY <1>1, <1>2, <1>3 DEF AdmissionInv, ReservationInv

\* Every step keeps what is known of reservations.
LEMMA NextReservation == AdmissionInv /\ [Next]_vars => ReservationInv'
<1>. SUFFICES ASSUME AdmissionInv, [Next]_vars PROVE ReservationInv'
  OBVIOUS
<1>. USE SortAssumption, MoneyAssumption DEF ReservationInv, AdmissionInv,
  TypeOK, log, world, procs, bounds, Waiting, InSubmit, InReconcile, InSweep,
  InCollect, InAbandon, LockInv, KeyInv, Holding, Keyed, Locals, NoLocals,
  Charge, ReservationState, AdmittedInv, PricedInv, UncalledInv, KeyStateInv,
  AbandonInv, LiveReservationNeverEscalated, AtMostOneInDoubt, OneCallPerKey,
  Unaccounted, BreakerOpen, Charged, Unescalated
<1>1. ASSUME NEW r \in Runners, Acquire(r) PROVE ReservationInv'
  BY <1>1 DEF Acquire, Goto
<1>2. ASSUME NEW r \in Runners, LockTimeout(r) PROVE ReservationInv'
  BY <1>2 DEF LockTimeout, Goto, Return
<1>3. ASSUME NEW r \in Runners, Escalate(r) PROVE ReservationInv'
  BY <1>3 DEF Escalate, AppendClosed, Unescalated
<1>4. ASSUME NEW r \in Runners, SubmitBegin(r) PROVE ReservationInv'
  BY <1>4 DEF SubmitBegin, Enter, Goto
<1>5. ASSUME NEW r \in Runners, Admit(r) PROVE ReservationInv'
  BY <1>5 DEF Admit, Goto, Unescalated
<1>6. ASSUME NEW r \in Runners, RefuseAdmission(r) PROVE ReservationInv'
  BY <1>6 DEF RefuseAdmission, Goto, Return, Unescalated
<1>7. ASSUME NEW r \in Runners, Price(r) PROVE ReservationInv'
  <2>1. /\ pc[r] = "submit_admitted"
        /\ UNCHANGED <<log, world, now, bounds>>
    BY <1>7 DEF Price
  <2>2. PICK c \in Quotes :
           IF WithinCaps(c, now)
           THEN /\ arg' = [arg EXCEPT ![r].cost = c]
                /\ Goto(r, "submit_priced")
                /\ UNCHANGED lock
           ELSE Return(r)
    BY <1>7 DEF Price
  <2>3. CASE WithinCaps(c, now)
    <3>1. c <= PerJobCap
      BY <2>3 DEF WithinCaps
    <3>2. /\ arg' = [arg EXCEPT ![r].cost = c]
          /\ pc' = [pc EXCEPT ![r] = "submit_priced"]
          /\ UNCHANGED lock
      BY <2>2, <2>3 DEF Goto
    <3>3. /\ arg'[r].cost = c
          /\ \A s \in Runners : /\ arg'[s].key = arg[s].key
                                /\ s # r => arg'[s] = arg[s]
      BY <3>2
    <3>. QED
      BY <2>1, <3>1, <3>2, <3>3
  <2>4. CASE ~WithinCaps(c, now)
    <3>1. Return(r)
      BY <2>2, <2>4
    <3>. QED
      BY <2>1, <3>1 DEF Return, Goto
  <2>. QED
    BY <2>3, <2>4
<1>8. ASSUME NEW r \in Runners, Reserve(r) PROVE ReservationInv'
  BY <1>8 DEF Reserve, AppendReserved, Goto
<1>9. ASSUME NEW r \in Runners, CallSubstrate(r) PROVE ReservationInv'
  BY <1>9 DEF CallSubstrate, Goto
<1>10. ASSUME NEW r \in Runners, Release(r) PROVE ReservationInv'
  BY <1>10 DEF Release, AppendClosed, Goto, Return
<1>11. ASSUME NEW r \in Runners, Bind(r) PROVE ReservationInv'
  BY <1>11 DEF Bind, AppendBound, Goto, Return
<1>12. ASSUME NEW r \in Runners, CollectBegin(r) PROVE ReservationInv'
  BY <1>12 DEF CollectBegin, Enter, Goto, Outstanding
<1>13. ASSUME NEW r \in Runners, CollectPoll(r) PROVE ReservationInv'
  <2>1. /\ pc[r] = "collect"
        /\ UNCHANGED <<log, world, lock, now, bounds>>
    BY <1>13 DEF CollectPoll
  <2>2. PICK k \in arg[r].todo :
           IF substrate[k] = "done"
           THEN /\ arg' = [arg EXCEPT ![r].key = k]
                /\ Goto(r, "collect_resolve")
           ELSE /\ arg' = [arg EXCEPT ![r].todo = @ \ {k}]
                /\ UNCHANGED pc
    BY <1>13 DEF CollectPoll
  <2>3. CASE substrate[k] = "done"
    <3>1. /\ arg' = [arg EXCEPT ![r].key = k]
          /\ pc' = [pc EXCEPT ![r] = "collect_resolve"]
      BY <2>2, <2>3 DEF Goto
    <3>2. /\ k \in Keys /\ arg'[r].key = k /\ arg'[r].todo = arg[r].todo
          /\ \A s \in Runners : s # r => arg'[s] = arg[s]
      BY <3>1
    <3>. QED
      BY <2>1, <2>3, <3>1, <3>2
  <2>4. CASE substrate[k] # "done"
    <3>1. /\ arg' = [arg EXCEPT ![r].todo = @ \ {k}]
          /\ UNCHANGED pc
      BY <2>2, <2>4
    <3>2. /\ arg'[r].key = arg[r].key /\ arg'[r].todo \subseteq arg[r].todo
          /\ \A s \in Runners : s # r => arg'[s] = arg[s]
      BY <3>1
    <3>. QED
      BY <2>1, <3>1, <3>2
  <2>. QED
    BY <2>3, <2>4
<1>14. ASSUME NEW r \in Runners, CollectResolve(r) PROVE ReservationInv'
  BY <1>14 DEF CollectResolve, AppendOutcome, Goto
<1>15. ASSUME NEW r \in Runners, CollectSkip(r) PROVE ReservationInv'
  BY <1>15 DEF CollectSkip, Goto
<1>16. ASSUME NEW r \in Runners, CollectReturn(r) PROVE ReservationInv'
  BY <1>16 DEF CollectReturn, Goto, Return
<1>17. ASSUME NEW r \in Runners, SweepBegin(r) PROVE ReservationInv'
  BY <1>17 DEF SweepBegin, Enter, Goto, Outstanding, Overdue
<1>18. ASSUME NEW r \in Runners, SweepPoll(r) PROVE ReservationInv'
  BY <1>18 DEF SweepPoll, Goto
<1>19. ASSUME NEW r \in Runners, SweepResolve(r) PROVE ReservationInv'
  BY <1>19 DEF SweepResolve, AppendOutcome, Goto
<1>20. ASSUME NEW r \in Runners, RecordLost(r) PROVE ReservationInv'
  BY <1>20 DEF RecordLost, AppendOutcome, Goto
<1>21. ASSUME NEW r \in Runners, SweepReturn(r) PROVE ReservationInv'
  BY <1>21 DEF SweepReturn, Goto, Return
<1>22. ASSUME NEW r \in Runners, ReconcileBegin(r) PROVE ReservationInv'
  BY <1>22 DEF ReconcileBegin, Enter, Goto
<1>23. ASSUME NEW r \in Runners, ReconcileReturn(r) PROVE ReservationInv'
  BY <1>23 DEF ReconcileReturn, Goto, Return, Unescalated
<1>24. ASSUME NEW r \in Runners, AbandonBegin(r) PROVE ReservationInv'
  BY <1>24 DEF AbandonBegin, Enter, Goto
<1>25. ASSUME NEW r \in Runners, Abandon(r) PROVE ReservationInv'
  BY <1>25 DEF Abandon, AppendClosed, Goto, Return
<1>26. ASSUME NEW r \in Runners, Raise(r) PROVE ReservationInv'
  BY <1>26 DEF Raise, Goto, Return
<1>27. ASSUME NEW r \in Runners, Crash(r) PROVE ReservationInv'
  BY <1>27 DEF Crash, Goto, Return
<1>28. ASSUME NEW k \in Keys, SubstrateStarts(k) PROVE ReservationInv'
  BY <1>28 DEF SubstrateStarts
<1>29. ASSUME NEW k \in Keys, JobEnds(k) PROVE ReservationInv'
  BY <1>29 DEF JobEnds
<1>30. ASSUME ResetBreaker PROVE ReservationInv'
  BY <1>30 DEF ResetBreaker, AppendBreaker
<1>31. ASSUME TripBreaker PROVE ReservationInv'
  BY <1>31 DEF TripBreaker, AppendBreaker
<1>32. ASSUME Tick PROVE ReservationInv'
  BY <1>32 DEF Tick
<1>33. CASE UNCHANGED vars
  BY <1>33 DEF vars
<1>. QED
  BY <1>1, <1>2, <1>3, <1>4, <1>5, <1>6, <1>7, <1>8, <1>9, <1>10, <1>11, <1>12,
    <1>13, <1>14, <1>15, <1>16, <1>17, <1>18, <1>19, <1>20, <1>21, <1>22,
    <1>23, <1>24, <1>25, <1>26, <1>27, <1>28, <1>29, <1>30, <1>31, <1>32, <1>33
  DEF Next, Process, Submit, Collect, Sweep, Reconcile

\* AdmissionInv is an invariant of the registry.
THEOREM Admission == Spec => []AdmissionInv
<1>1. AdmissionInv /\ [Next]_vars => AdmissionInv'
  BY NextType, NextControl, NextReservation DEF AdmissionInv, ReservationInv
<1>. QED
  BY InitAdmission, <1>1, PTL DEF Spec

\* Every variable always has its type.
THEOREM TypeCorrect == Spec => []TypeOK
<1>1. AdmissionInv => TypeOK
  BY DEF AdmissionInv
<1>. QED
  BY <1>1, Admission, PTL

\* registry.py submit: "a job that was started must have been recorded".
THEOREM StartedJobsAreCharged == Spec => []StartedIsCharged
<1>1. AdmissionInv => StartedIsCharged
  BY DEF AdmissionInv, TypeOK, KeyStateInv, StartedIsCharged, Charged
<1>. QED
  BY <1>1, Admission, PTL

\* At most one reservation is ever in doubt, whatever crashes.
THEOREM OneInDoubt == Spec => []AtMostOneInDoubt
<1>1. AdmissionInv => AtMostOneInDoubt
  BY DEF AdmissionInv
<1>. QED
  BY <1>1, Admission, PTL

\* No escalation takes the reservation of a submit that is still running.
THEOREM NoLiveEscalation == Spec => []LiveReservationNeverEscalated
<1>1. AdmissionInv => LiveReservationNeverEscalated
  BY DEF AdmissionInv
<1>. QED
  BY <1>1, Admission, PTL

\* The substrate is asked at most once for one key.
THEOREM CalledOnce == Spec => []OneCallPerKey
<1>1. AdmissionInv => OneCallPerKey
  BY DEF AdmissionInv
<1>. QED
  BY <1>1, Admission, PTL

-----------------------------------------------------------------------------
(* What one step may never do.                                             *)

\* Only these steps append a row or reach the substrate; every other one moves
\* a process, the clock or a fault counter.
Writes(r) ==
  \/ Escalate(r) \/ Reserve(r) \/ CallSubstrate(r) \/ Release(r) \/ Bind(r)
  \/ CollectResolve(r) \/ SweepResolve(r) \/ RecordLost(r) \/ Abandon(r)

\* Every step is one of these, or leaves the log and the provider alone.
LEMMA Writers ==
  [Next]_vars =>
    \/ \E r \in Runners : Writes(r)
    \/ \E k \in Keys : SubstrateStarts(k) \/ JobEnds(k)
    \/ ResetBreaker \/ TripBreaker
    \/ UNCHANGED <<log, world, resets>>
<1>. SUFFICES ASSUME [Next]_vars
              PROVE  \/ \E r \in Runners : Writes(r)
                     \/ \E k \in Keys : SubstrateStarts(k) \/ JobEnds(k)
                     \/ ResetBreaker \/ TripBreaker
                     \/ UNCHANGED <<log, world, resets>>
  OBVIOUS
<1>1. ASSUME NEW r \in Runners, Process(r)
      PROVE  Writes(r) \/ UNCHANGED <<log, world, resets>>
  <2>. USE DEF Writes, bounds
  <2>1. Acquire(r) \/ LockTimeout(r) \/ Escalate(r)
          => Writes(r) \/ UNCHANGED <<log, world, resets>>
    BY DEF Acquire, LockTimeout
  <2>2. Submit(r) => Writes(r) \/ UNCHANGED <<log, world, resets>>
    BY DEF Submit, SubmitBegin, Admit, RefuseAdmission, Price
  <2>3. Collect(r) => Writes(r) \/ UNCHANGED <<log, world, resets>>
    BY DEF Collect, CollectBegin, CollectPoll, CollectSkip, CollectReturn
  <2>4. Sweep(r) => Writes(r) \/ UNCHANGED <<log, world, resets>>
    BY DEF Sweep, SweepBegin, SweepPoll, SweepReturn
  <2>5. Reconcile(r) \/ AbandonBegin(r) \/ Abandon(r)
          => Writes(r) \/ UNCHANGED <<log, world, resets>>
    BY DEF Reconcile, ReconcileBegin, ReconcileReturn, AbandonBegin
  <2>6. Raise(r) \/ Crash(r) => UNCHANGED <<log, world, resets>>
    BY DEF Raise, Crash
  <2>. QED
    BY <1>1, <2>1, <2>2, <2>3, <2>4, <2>5, <2>6 DEF Process
<1>2. Tick => UNCHANGED <<log, world, resets>>
  BY DEF Tick, bounds
<1>3. UNCHANGED vars => UNCHANGED <<log, world, resets>>
  BY DEF vars, bounds
<1>. QED
  BY <1>1, <1>2, <1>3 DEF Next

\* Whoever writes a reservation holds the lock under which it was admitted.
LEMMA ReserveWhileClosed ==
  AdmissionInv /\ [Next]_vars =>
    \A k \in Keys : held[k] = "none" /\ held'[k] # "none" => ~BreakerOpen
<1>. SUFFICES ASSUME AdmissionInv, [Next]_vars,
                     NEW j \in Keys, held[j] = "none", held'[j] # "none"
              PROVE  ~BreakerOpen
  OBVIOUS
<1>. USE DEF TypeOK, AdmissionInv, log, BreakerOpen, AbandonInv, AdmittedInv,
  LiveReservationNeverEscalated, KeyInv, Keyed, InSubmit
<1>1. ASSUME NEW r \in Runners, Escalate(r) PROVE ~BreakerOpen
  BY <1>1 DEF Escalate, AppendClosed, Unescalated
<1>2. ASSUME NEW r \in Runners, Reserve(r) PROVE ~BreakerOpen
  BY <1>2 DEF Reserve, AppendReserved, Goto
<1>3. ASSUME NEW r \in Runners, CallSubstrate(r) PROVE ~BreakerOpen
  BY <1>3 DEF CallSubstrate, Goto
<1>4. ASSUME NEW r \in Runners, Release(r) PROVE ~BreakerOpen
  BY <1>4 DEF Release, AppendClosed, Goto, Return
<1>5. ASSUME NEW r \in Runners, Bind(r) PROVE ~BreakerOpen
  BY <1>5 DEF Bind, AppendBound, Goto, Return
<1>6. ASSUME NEW r \in Runners, CollectResolve(r) PROVE ~BreakerOpen
  BY <1>6 DEF CollectResolve, AppendOutcome, Goto
<1>7. ASSUME NEW r \in Runners, SweepResolve(r) PROVE ~BreakerOpen
  BY <1>7 DEF SweepResolve, AppendOutcome, Goto
<1>8. ASSUME NEW r \in Runners, RecordLost(r) PROVE ~BreakerOpen
  BY <1>8 DEF RecordLost, AppendOutcome, Goto
<1>9. ASSUME NEW r \in Runners, Abandon(r) PROVE ~BreakerOpen
  BY <1>9 DEF Abandon, AppendClosed, Goto, Return
<1>10. ASSUME NEW k \in Keys, SubstrateStarts(k) PROVE ~BreakerOpen
  BY <1>10 DEF SubstrateStarts
<1>11. ASSUME NEW k \in Keys, JobEnds(k) PROVE ~BreakerOpen
  BY <1>11 DEF JobEnds
<1>12. ASSUME ResetBreaker PROVE ~BreakerOpen
  BY <1>12 DEF ResetBreaker, AppendBreaker
<1>13. ASSUME TripBreaker PROVE ~BreakerOpen
  BY <1>13 DEF TripBreaker, AppendBreaker
<1>14. CASE UNCHANGED <<log, world, resets>>
  BY <1>14 DEF log
<1>. QED
  BY <1>1, <1>2, <1>3, <1>4, <1>5, <1>6, <1>7, <1>8, <1>9, <1>10, <1>11, <1>12,
    <1>13, <1>14, Writers DEF Writes

\* No reservation is written while the breaker is open.
THEOREM BreakerRespected == Spec => AdmissionRespectsBreaker
  BY Admission, ReserveWhileClosed, PTL DEF Spec, AdmissionRespectsBreaker

\* The reservations move along the diagram of registry.py only.
LEMMA LifecycleStep ==
  AdmissionInv /\ [Next]_vars =>
    \A k \in Keys :
      held'[k] # held[k] =>
        <<held[k], held'[k]>> \in
          {<<"none", "reserved">>, <<"reserved", "bound">>,
           <<"reserved", "released">>, <<"reserved", "orphaned">>,
           <<"orphaned", "abandoned">>}
<1>. DEFINE Allowed(j) ==
       <<held[j], held'[j]>> \in
         {<<"none", "reserved">>, <<"reserved", "bound">>,
          <<"reserved", "released">>, <<"reserved", "orphaned">>,
          <<"orphaned", "abandoned">>}
<1>. SUFFICES ASSUME AdmissionInv, [Next]_vars,
                     NEW j \in Keys, held'[j] # held[j]
              PROVE  Allowed(j)
  OBVIOUS
<1>. USE DEF TypeOK, AdmissionInv, log, AbandonInv, AdmittedInv,
  LiveReservationNeverEscalated, KeyInv, Keyed, InSubmit
<1>1. ASSUME NEW r \in Runners, Escalate(r) PROVE Allowed(j)
  BY <1>1 DEF Escalate, AppendClosed, Unescalated
<1>2. ASSUME NEW r \in Runners, Reserve(r) PROVE Allowed(j)
  BY <1>2 DEF Reserve, AppendReserved, Goto
<1>3. ASSUME NEW r \in Runners, CallSubstrate(r) PROVE Allowed(j)
  BY <1>3 DEF CallSubstrate, Goto
<1>4. ASSUME NEW r \in Runners, Release(r) PROVE Allowed(j)
  BY <1>4 DEF Release, AppendClosed, Goto, Return
<1>5. ASSUME NEW r \in Runners, Bind(r) PROVE Allowed(j)
  BY <1>5 DEF Bind, AppendBound, Goto, Return
<1>6. ASSUME NEW r \in Runners, CollectResolve(r) PROVE Allowed(j)
  BY <1>6 DEF CollectResolve, AppendOutcome, Goto
<1>7. ASSUME NEW r \in Runners, SweepResolve(r) PROVE Allowed(j)
  BY <1>7 DEF SweepResolve, AppendOutcome, Goto
<1>8. ASSUME NEW r \in Runners, RecordLost(r) PROVE Allowed(j)
  BY <1>8 DEF RecordLost, AppendOutcome, Goto
<1>9. ASSUME NEW r \in Runners, Abandon(r) PROVE Allowed(j)
  BY <1>9 DEF Abandon, AppendClosed, Goto, Return
<1>10. ASSUME NEW k \in Keys, SubstrateStarts(k) PROVE Allowed(j)
  BY <1>10 DEF SubstrateStarts
<1>11. ASSUME NEW k \in Keys, JobEnds(k) PROVE Allowed(j)
  BY <1>11 DEF JobEnds
<1>12. ASSUME ResetBreaker PROVE Allowed(j)
  BY <1>12 DEF ResetBreaker, AppendBreaker
<1>13. ASSUME TripBreaker PROVE Allowed(j)
  BY <1>13 DEF TripBreaker, AppendBreaker
<1>14. CASE UNCHANGED <<log, world, resets>>
  BY <1>14 DEF log
<1>. QED
  BY <1>1, <1>2, <1>3, <1>4, <1>5, <1>6, <1>7, <1>8, <1>9, <1>10, <1>11, <1>12,
    <1>13, <1>14, Writers DEF Writes

\* Bound, released and abandoned are final, and only a human abandons.
THEOREM Lifecycle == Spec => ReservationLifecycle
  BY Admission, LifecycleStep, PTL DEF Spec, ReservationLifecycle

-----------------------------------------------------------------------------
(* Outcomes and incidents.                                                 *)

\* The settling operations act on what they polled, and it stays true.
LEMMA NextOutcome ==
  AdmissionInv /\ SettlingInv /\ OutcomeIsEarned /\ [Next]_vars
    => SettlingInv' /\ OutcomeIsEarned'
<1>. SUFFICES ASSUME AdmissionInv, SettlingInv, OutcomeIsEarned, [Next]_vars
              PROVE  SettlingInv' /\ OutcomeIsEarned'
  OBVIOUS
<1>. USE SortAssumption, TimeAssumption DEF AdmissionInv, TypeOK, log, world,
  procs, bounds, InSubmit, InSweep, InCollect, InAbandon, KeyInv, Keyed,
  Locals, NoLocals, Charge, ReservationState, SubstrateState, AdmittedInv,
  AbandonInv, LiveReservationNeverEscalated, KeyStateInv, UncalledInv,
  SettlingInv, OutcomeIsEarned
<1>1. ASSUME NEW r \in Runners, Acquire(r)
       PROVE  SettlingInv' /\ OutcomeIsEarned'
  BY <1>1 DEF Acquire, Goto
<1>2. ASSUME NEW r \in Runners, LockTimeout(r)
       PROVE  SettlingInv' /\ OutcomeIsEarned'
  BY <1>2 DEF LockTimeout, Goto, Return
<1>3. ASSUME NEW r \in Runners, Escalate(r)
       PROVE  SettlingInv' /\ OutcomeIsEarned'
  BY <1>3 DEF Escalate, AppendClosed, Unescalated
<1>4. ASSUME NEW r \in Runners, SubmitBegin(r)
       PROVE  SettlingInv' /\ OutcomeIsEarned'
  BY <1>4 DEF SubmitBegin, Enter, Goto
<1>5. ASSUME NEW r \in Runners, Admit(r) PROVE SettlingInv' /\ OutcomeIsEarned'
  BY <1>5 DEF Admit, Goto, Unescalated
<1>6. ASSUME NEW r \in Runners, RefuseAdmission(r)
       PROVE  SettlingInv' /\ OutcomeIsEarned'
  BY <1>6 DEF RefuseAdmission, Goto, Return, Unescalated
<1>7. ASSUME NEW r \in Runners, Price(r) PROVE SettlingInv' /\ OutcomeIsEarned'
  <2>1. /\ pc[r] = "submit_admitted"
        /\ UNCHANGED <<log, world, now, bounds>>
    BY <1>7 DEF Price
  <2>2. PICK c \in Quotes :
           IF WithinCaps(c, now)
           THEN /\ arg' = [arg EXCEPT ![r].cost = c]
                /\ Goto(r, "submit_priced")
                /\ UNCHANGED lock
           ELSE Return(r)
    BY <1>7 DEF Price
  <2>3. CASE WithinCaps(c, now)
    <3>1. c <= PerJobCap
      BY <2>3 DEF WithinCaps
    <3>2. /\ arg' = [arg EXCEPT ![r].cost = c]
          /\ pc' = [pc EXCEPT ![r] = "submit_priced"]
          /\ UNCHANGED lock
      BY <2>2, <2>3 DEF Goto
    <3>3. /\ arg'[r].cost = c
          /\ \A s \in Runners : /\ arg'[s].key = arg[s].key
                                /\ s # r => arg'[s] = arg[s]
      BY <3>2
    <3>. QED
      BY <2>1, <3>1, <3>2, <3>3
  <2>4. CASE ~WithinCaps(c, now)
    <3>1. Return(r)
      BY <2>2, <2>4
    <3>. QED
      BY <2>1, <3>1 DEF Return, Goto
  <2>. QED
    BY <2>3, <2>4
<1>8. ASSUME NEW r \in Runners, Reserve(r)
       PROVE  SettlingInv' /\ OutcomeIsEarned'
  BY <1>8 DEF Reserve, AppendReserved, Goto
<1>9. ASSUME NEW r \in Runners, CallSubstrate(r)
       PROVE  SettlingInv' /\ OutcomeIsEarned'
  BY <1>9 DEF CallSubstrate, Goto
<1>10. ASSUME NEW r \in Runners, Release(r)
       PROVE  SettlingInv' /\ OutcomeIsEarned'
  BY <1>10 DEF Release, AppendClosed, Goto, Return
<1>11. ASSUME NEW r \in Runners, Bind(r) PROVE SettlingInv' /\ OutcomeIsEarned'
  BY <1>11 DEF Bind, AppendBound, Goto, Return
<1>12. ASSUME NEW r \in Runners, CollectBegin(r)
       PROVE  SettlingInv' /\ OutcomeIsEarned'
  BY <1>12 DEF CollectBegin, Enter, Goto, Outstanding
<1>13. ASSUME NEW r \in Runners, CollectPoll(r)
       PROVE  SettlingInv' /\ OutcomeIsEarned'
  <2>1. /\ pc[r] = "collect"
        /\ UNCHANGED <<log, world, lock, now, bounds>>
    BY <1>13 DEF CollectPoll
  <2>2. PICK k \in arg[r].todo :
           IF substrate[k] = "done"
           THEN /\ arg' = [arg EXCEPT ![r].key = k]
                /\ Goto(r, "collect_resolve")
           ELSE /\ arg' = [arg EXCEPT ![r].todo = @ \ {k}]
                /\ UNCHANGED pc
    BY <1>13 DEF CollectPoll
  <2>3. CASE substrate[k] = "done"
    <3>1. /\ arg' = [arg EXCEPT ![r].key = k]
          /\ pc' = [pc EXCEPT ![r] = "collect_resolve"]
      BY <2>2, <2>3 DEF Goto
    <3>2. /\ k \in Keys /\ arg'[r].key = k /\ arg'[r].todo = arg[r].todo
          /\ \A s \in Runners : s # r => arg'[s] = arg[s]
      BY <3>1
    <3>. QED
      BY <2>1, <2>3, <3>1, <3>2
  <2>4. CASE substrate[k] # "done"
    <3>1. /\ arg' = [arg EXCEPT ![r].todo = @ \ {k}]
          /\ UNCHANGED pc
      BY <2>2, <2>4
    <3>2. /\ arg'[r].key = arg[r].key /\ arg'[r].todo \subseteq arg[r].todo
          /\ \A s \in Runners : s # r => arg'[s] = arg[s]
      BY <3>1
    <3>. QED
      BY <2>1, <3>1, <3>2
  <2>. QED
    BY <2>3, <2>4
<1>14. ASSUME NEW r \in Runners, CollectResolve(r)
       PROVE  SettlingInv' /\ OutcomeIsEarned'
  BY <1>14 DEF CollectResolve, AppendOutcome, Goto
<1>15. ASSUME NEW r \in Runners, CollectSkip(r)
       PROVE  SettlingInv' /\ OutcomeIsEarned'
  BY <1>15 DEF CollectSkip, Goto
<1>16. ASSUME NEW r \in Runners, CollectReturn(r)
       PROVE  SettlingInv' /\ OutcomeIsEarned'
  BY <1>16 DEF CollectReturn, Goto, Return
<1>17. ASSUME NEW r \in Runners, SweepBegin(r)
       PROVE  SettlingInv' /\ OutcomeIsEarned'
  BY <1>17 DEF SweepBegin, Enter, Goto, Outstanding, Overdue
<1>18. ASSUME NEW r \in Runners, SweepPoll(r)
       PROVE  SettlingInv' /\ OutcomeIsEarned'
  BY <1>18 DEF SweepPoll, Goto
<1>19. ASSUME NEW r \in Runners, SweepResolve(r)
       PROVE  SettlingInv' /\ OutcomeIsEarned'
  BY <1>19 DEF SweepResolve, AppendOutcome, Goto
<1>20. ASSUME NEW r \in Runners, RecordLost(r)
       PROVE  SettlingInv' /\ OutcomeIsEarned'
  BY <1>20 DEF RecordLost, AppendOutcome, Goto
<1>21. ASSUME NEW r \in Runners, SweepReturn(r)
       PROVE  SettlingInv' /\ OutcomeIsEarned'
  BY <1>21 DEF SweepReturn, Goto, Return
<1>22. ASSUME NEW r \in Runners, ReconcileBegin(r)
       PROVE  SettlingInv' /\ OutcomeIsEarned'
  BY <1>22 DEF ReconcileBegin, Enter, Goto
<1>23. ASSUME NEW r \in Runners, ReconcileReturn(r)
       PROVE  SettlingInv' /\ OutcomeIsEarned'
  BY <1>23 DEF ReconcileReturn, Goto, Return, Unescalated
<1>24. ASSUME NEW r \in Runners, AbandonBegin(r)
       PROVE  SettlingInv' /\ OutcomeIsEarned'
  BY <1>24 DEF AbandonBegin, Enter, Goto
<1>25. ASSUME NEW r \in Runners, Abandon(r)
       PROVE  SettlingInv' /\ OutcomeIsEarned'
  BY <1>25 DEF Abandon, AppendClosed, Goto, Return
<1>26. ASSUME NEW r \in Runners, Raise(r)
       PROVE  SettlingInv' /\ OutcomeIsEarned'
  BY <1>26 DEF Raise, Goto, Return
<1>27. ASSUME NEW r \in Runners, Crash(r)
       PROVE  SettlingInv' /\ OutcomeIsEarned'
  BY <1>27 DEF Crash, Goto, Return
<1>28. ASSUME NEW k \in Keys, SubstrateStarts(k)
       PROVE  SettlingInv' /\ OutcomeIsEarned'
  BY <1>28 DEF SubstrateStarts
<1>29. ASSUME NEW k \in Keys, JobEnds(k) PROVE SettlingInv' /\ OutcomeIsEarned'
  BY <1>29 DEF JobEnds
<1>30. ASSUME ResetBreaker PROVE SettlingInv' /\ OutcomeIsEarned'
  BY <1>30 DEF ResetBreaker, AppendBreaker
<1>31. ASSUME TripBreaker PROVE SettlingInv' /\ OutcomeIsEarned'
  BY <1>31 DEF TripBreaker, AppendBreaker
<1>32. ASSUME Tick PROVE SettlingInv' /\ OutcomeIsEarned'
  BY <1>32 DEF Tick
<1>33. CASE UNCHANGED vars
  BY <1>33 DEF vars
<1>. QED
  BY <1>1, <1>2, <1>3, <1>4, <1>5, <1>6, <1>7, <1>8, <1>9, <1>10, <1>11, <1>12,
    <1>13, <1>14, <1>15, <1>16, <1>17, <1>18, <1>19, <1>20, <1>21, <1>22,
    <1>23, <1>24, <1>25, <1>26, <1>27, <1>28, <1>29, <1>30, <1>31, <1>32, <1>33
  DEF Next, Process, Submit, Collect, Sweep, Reconcile

\* Resolved means finished and lost means overdue, whoever recorded it.
THEOREM OutcomesAreEarned == Spec => []OutcomeIsEarned
<1>1. Init => SettlingInv /\ OutcomeIsEarned
  BY DEF Init, SettlingInv, OutcomeIsEarned, InSweep, InCollect
<1>. QED
  BY Admission, NextOutcome, <1>1, PTL DEF Spec

\* No step but a reset closes the breaker.
LEMMA NextIncident ==
  AdmissionInv /\ IncidentHoldsBreaker /\ [Next]_vars => IncidentHoldsBreaker'
<1>. SUFFICES ASSUME AdmissionInv, IncidentHoldsBreaker, [Next]_vars
              PROVE  IncidentHoldsBreaker'
  OBVIOUS
<1>. USE DEF TypeOK, AdmissionInv, log, bounds, AbandonInv, KeyInv, Keyed,
  InSubmit, IncidentHoldsBreaker
<1>1. ASSUME NEW r \in Runners, Escalate(r) PROVE IncidentHoldsBreaker'
  BY <1>1 DEF Escalate, AppendClosed, Unescalated
<1>2. ASSUME NEW r \in Runners, Reserve(r) PROVE IncidentHoldsBreaker'
  BY <1>2 DEF Reserve, AppendReserved, Goto
<1>3. ASSUME NEW r \in Runners, CallSubstrate(r) PROVE IncidentHoldsBreaker'
  BY <1>3 DEF CallSubstrate, Goto
<1>4. ASSUME NEW r \in Runners, Release(r) PROVE IncidentHoldsBreaker'
  BY <1>4 DEF Release, AppendClosed, Goto, Return
<1>5. ASSUME NEW r \in Runners, Bind(r) PROVE IncidentHoldsBreaker'
  BY <1>5 DEF Bind, AppendBound, Goto, Return
<1>6. ASSUME NEW r \in Runners, CollectResolve(r) PROVE IncidentHoldsBreaker'
  BY <1>6 DEF CollectResolve, AppendOutcome, Goto
<1>7. ASSUME NEW r \in Runners, SweepResolve(r) PROVE IncidentHoldsBreaker'
  BY <1>7 DEF SweepResolve, AppendOutcome, Goto
<1>8. ASSUME NEW r \in Runners, RecordLost(r) PROVE IncidentHoldsBreaker'
  BY <1>8 DEF RecordLost, AppendOutcome, Goto
<1>9. ASSUME NEW r \in Runners, Abandon(r) PROVE IncidentHoldsBreaker'
  BY <1>9 DEF Abandon, AppendClosed, Goto, Return
<1>10. ASSUME NEW k \in Keys, SubstrateStarts(k) PROVE IncidentHoldsBreaker'
  BY <1>10 DEF SubstrateStarts
<1>11. ASSUME NEW k \in Keys, JobEnds(k) PROVE IncidentHoldsBreaker'
  BY <1>11 DEF JobEnds
<1>12. ASSUME ResetBreaker PROVE IncidentHoldsBreaker'
  BY <1>12 DEF ResetBreaker, AppendBreaker
<1>13. ASSUME TripBreaker PROVE IncidentHoldsBreaker'
  BY <1>13 DEF TripBreaker, AppendBreaker
<1>14. CASE UNCHANGED <<log, world, resets>>
  BY <1>14 DEF log
<1>. QED
  BY <1>1, <1>2, <1>3, <1>4, <1>5, <1>6, <1>7, <1>8, <1>9, <1>10, <1>11, <1>12,
    <1>13, <1>14, Writers DEF Writes

\* An incident keeps the breaker open until a human resets it.
THEOREM IncidentsHold == Spec => []IncidentHoldsBreaker
<1>1. Init => IncidentHoldsBreaker
  BY DEF Init, IncidentHoldsBreaker
<1>. QED
  BY Admission, NextIncident, <1>1, PTL DEF Spec

-----------------------------------------------------------------------------
(* One process.                                                            *)

\* A single runner: nobody else settles what it polled.
OneRunner == \A r, s \in Runners : r = s

\* What a settling operation still has to do is open, and what it is about to
\* record is one of these jobs.
OpenInv ==
  \A r \in Runners :
    /\ pc[r] \in InSweep \cup InCollect =>
         \A k \in arg[r].todo : jobs[k] = "submitted"
    /\ pc[r] \in {"collect_resolve", "sweep_resolve", "sweep_lose"} =>
         arg[r].key \in arg[r].todo

\* With one process, every step keeps the jobs it still has to settle open,
\* and none changes an outcome.
LEMMA NextOpen ==
  ASSUME OneRunner, AdmissionInv, OutcomeIsEarned, OpenInv, [Next]_vars
  PROVE  /\ OpenInv'
         /\ \A k \in Keys : jobs[k] \in {"resolved", "lost"} => jobs'[k] = jobs[k]
<1>. DEFINE Goal == /\ OpenInv'
                    /\ \A k \in Keys :
                         jobs[k] \in {"resolved", "lost"} => jobs'[k] = jobs[k]
<1>. USE DEF OneRunner, AdmissionInv, TypeOK, OpenInv, log, world, procs, bounds,
  InSubmit, InSweep, InCollect, KeyInv, Keyed, Locals, NoLocals, Goto
<1>1. ASSUME NEW r \in Runners, Acquire(r) PROVE Goal
  BY <1>1 DEF Acquire
<1>2. ASSUME NEW r \in Runners, LockTimeout(r) PROVE Goal
  BY <1>2 DEF LockTimeout, Return
<1>3. ASSUME NEW r \in Runners, Escalate(r) PROVE Goal
  BY <1>3 DEF Escalate, AppendClosed, Unescalated
<1>4. ASSUME NEW r \in Runners, SubmitBegin(r) PROVE Goal
  BY <1>4 DEF SubmitBegin, Enter
<1>5. ASSUME NEW r \in Runners, Admit(r) \/ RefuseAdmission(r) PROVE Goal
  BY <1>5 DEF Admit, RefuseAdmission, Return
<1>6. ASSUME NEW r \in Runners, Price(r) PROVE Goal
  <2>1. pc[r] = "submit_admitted" /\ UNCHANGED jobs
    BY <1>6 DEF Price
  <2>2. pc'[r] \in {"submit_priced", "idle"}
    BY <1>6 DEF Price, Return
  <2>. QED
    BY <2>1, <2>2
<1>7. ASSUME NEW r \in Runners, Reserve(r) PROVE Goal
  BY <1>7 DEF Reserve, AppendReserved
<1>8. ASSUME NEW r \in Runners, CallSubstrate(r) PROVE Goal
  BY <1>8 DEF CallSubstrate
<1>9. ASSUME NEW r \in Runners, Release(r) PROVE Goal
  BY <1>9 DEF Release, AppendClosed, Return
<1>10. ASSUME NEW r \in Runners, Bind(r) PROVE Goal
  BY <1>10 DEF Bind, AppendBound, Return, LiveReservationNeverEscalated,
    OutcomeIsEarned
<1>11. ASSUME NEW r \in Runners, CollectBegin(r) PROVE Goal
  BY <1>11 DEF CollectBegin, Enter, Outstanding
<1>12. ASSUME NEW r \in Runners, CollectPoll(r) PROVE Goal
  <2>1. pc[r] = "collect" /\ UNCHANGED jobs
    BY <1>12 DEF CollectPoll
  <2>2. PICK k \in arg[r].todo :
           IF substrate[k] = "done"
           THEN /\ arg' = [arg EXCEPT ![r].key = k]
                /\ Goto(r, "collect_resolve")
           ELSE /\ arg' = [arg EXCEPT ![r].todo = @ \ {k}]
                /\ UNCHANGED pc
    BY <1>12 DEF CollectPoll
  <2>3. CASE substrate[k] = "done"
    <3>1. arg'[r].key = k /\ arg'[r].todo = arg[r].todo
      BY <2>2, <2>3
    <3>2. pc'[r] = "collect_resolve"
      BY <2>2, <2>3
    <3>. QED
      BY <2>1, <3>1, <3>2
  <2>4. CASE substrate[k] # "done"
    <3>1. arg'[r].todo \subseteq arg[r].todo /\ pc' = pc
      BY <2>2, <2>4
    <3>. QED
      BY <2>1, <3>1
  <2>. QED
    BY <2>3, <2>4
<1>13. ASSUME NEW r \in Runners, CollectResolve(r) PROVE Goal
  BY <1>13 DEF CollectResolve, AppendOutcome
<1>14. ASSUME NEW r \in Runners, CollectSkip(r) PROVE Goal
  BY <1>14 DEF CollectSkip
<1>15. ASSUME NEW r \in Runners, CollectReturn(r) PROVE Goal
  BY <1>15 DEF CollectReturn, Return
<1>16. ASSUME NEW r \in Runners, SweepBegin(r) PROVE Goal
  BY <1>16 DEF SweepBegin, Enter, Overdue, Outstanding
<1>17. ASSUME NEW r \in Runners, SweepPoll(r) PROVE Goal
  BY <1>17 DEF SweepPoll
<1>18. ASSUME NEW r \in Runners, SweepResolve(r) PROVE Goal
  BY <1>18 DEF SweepResolve, AppendOutcome
<1>19. ASSUME NEW r \in Runners, RecordLost(r) PROVE Goal
  BY <1>19 DEF RecordLost, AppendOutcome
<1>20. ASSUME NEW r \in Runners, SweepReturn(r) PROVE Goal
  BY <1>20 DEF SweepReturn, Return
<1>21. ASSUME NEW r \in Runners, ReconcileBegin(r) \/ ReconcileReturn(r)
       PROVE  Goal
  BY <1>21 DEF ReconcileBegin, ReconcileReturn, Enter, Return
<1>22. ASSUME NEW r \in Runners, AbandonBegin(r) PROVE Goal
  BY <1>22 DEF AbandonBegin, Enter
<1>23. ASSUME NEW r \in Runners, Abandon(r) PROVE Goal
  BY <1>23 DEF Abandon, AppendClosed, Return
<1>24. ASSUME NEW r \in Runners, Raise(r) \/ Crash(r) PROVE Goal
  BY <1>24 DEF Raise, Crash, Return
<1>25. ASSUME NEW k \in Keys, SubstrateStarts(k) \/ JobEnds(k) PROVE Goal
  BY <1>25 DEF SubstrateStarts, JobEnds
<1>26. ASSUME ResetBreaker \/ TripBreaker PROVE Goal
  BY <1>26 DEF ResetBreaker, TripBreaker, AppendBreaker
<1>27. ASSUME Tick PROVE Goal
  BY <1>27 DEF Tick
<1>28. CASE UNCHANGED vars
  BY <1>28 DEF vars
<1>. QED
  BY <1>1, <1>2, <1>3, <1>4, <1>5, <1>6, <1>7, <1>8, <1>9, <1>10, <1>11, <1>12,
    <1>13, <1>14, <1>15, <1>16, <1>17, <1>18, <1>19, <1>20, <1>21, <1>22,
    <1>23, <1>24, <1>25, <1>26, <1>27, <1>28
  DEF Next, Process, Submit, Collect, Sweep, Reconcile

\* registry.py: RESOLVED and LOST are two ends.  As long as one process works
\* on the log, no job goes from one to the other, whatever crashes; the run
\* registry_two_sweepers shows that a second process breaks this.
THEOREM OutcomesAreFinal ==
  ASSUME OneRunner
  PROVE  Spec => OutcomeIsFinal
<1>1. Init => OpenInv
  BY DEF Init, OpenInv, InSweep, InCollect
<1>2. AdmissionInv /\ OutcomeIsEarned /\ OpenInv /\ [Next]_vars => OpenInv'
  BY NextOpen
<1>3. AdmissionInv /\ OutcomeIsEarned /\ OpenInv /\ [Next]_vars =>
        [\A k \in Keys :
           jobs[k] \in {"resolved", "lost"} => jobs'[k] = jobs[k]]_vars
  BY NextOpen
<1>. QED
  BY Admission, OutcomesAreEarned, <1>1, <1>2, <1>3, PTL
  DEF Spec, OutcomeIsFinal

-----------------------------------------------------------------------------
(* Refinement.                                                             *)

\* An empty log maps to an untouched purse.
LEMMA InitAuthority == Init => Authority!Init
  BY DEF Init, Authority!Init, Purse, Started, Unaccounted, Halted

\* Every step of the registry is a step of the authority, or none.
LEMMA NextAuthority ==
  AdmissionInv /\ [Next]_vars => [Authority!Next]_(Authority!vars)
<1>. SUFFICES ASSUME AdmissionInv, [Next]_vars
              PROVE  [Authority!Next]_(Authority!vars)
  OBVIOUS
<1>. USE DEF TypeOK, AdmissionInv, log, world, AbandonInv, AdmittedInv,
  LiveReservationNeverEscalated, KeyStateInv, AtMostOneInDoubt, KeyInv, Keyed,
  InSubmit, Purse, Started, Unaccounted, Halted, SubstrateState,
  ReservationState
<1>1. ASSUME NEW r \in Runners, Escalate(r)
       PROVE  [Authority!Next]_(Authority!vars)
  <2>1. Authority!Halt
    BY <1>1 DEF Escalate, AppendClosed, Unescalated, Authority!Halt
  <2>. QED
    BY <2>1 DEF Authority!Next
<1>2. ASSUME NEW r \in Runners, Reserve(r)
       PROVE  [Authority!Next]_(Authority!vars)
  <2>1. PICK j \in Keys : j = arg[r].key
    BY <1>2 DEF Reserve
  <2>2. Authority!Commit(j)
    BY <1>2, <2>1 DEF Reserve, AppendReserved, Goto, Authority!Commit
  <2>. QED
    BY <2>2 DEF Authority!Next
<1>3. ASSUME NEW r \in Runners, CallSubstrate(r)
       PROVE  [Authority!Next]_(Authority!vars)
  BY <1>3 DEF Authority!vars, CallSubstrate, Goto
<1>4. ASSUME NEW r \in Runners, Release(r)
       PROVE  [Authority!Next]_(Authority!vars)
  <2>1. PICK j \in Keys : j = arg[r].key
    BY <1>4 DEF Release
  <2>2. Authority!Refund(j)
    BY <1>4, <2>1 DEF Release, AppendClosed, Goto, Return, Authority!Refund
  <2>. QED
    BY <2>2 DEF Authority!Next
<1>5. ASSUME NEW r \in Runners, Bind(r) PROVE [Authority!Next]_(Authority!vars)
  <2>1. PICK j \in Keys : j = arg[r].key
    BY <1>5 DEF Bind
  <2>2. Authority!Account(j)
    BY <1>5, <2>1 DEF Bind, AppendBound, Goto, Return, Authority!Account
  <2>. QED
    BY <2>2 DEF Authority!Next
<1>6. ASSUME NEW r \in Runners, CollectResolve(r)
       PROVE  [Authority!Next]_(Authority!vars)
  BY <1>6 DEF Authority!vars, CollectResolve, AppendOutcome, Goto
<1>7. ASSUME NEW r \in Runners, SweepResolve(r)
       PROVE  [Authority!Next]_(Authority!vars)
  BY <1>7 DEF Authority!vars, SweepResolve, AppendOutcome, Goto
<1>8. ASSUME NEW r \in Runners, RecordLost(r)
       PROVE  [Authority!Next]_(Authority!vars)
  <2>1. Authority!Halt
    BY <1>8 DEF RecordLost, AppendOutcome, Goto, Authority!Halt
  <2>. QED
    BY <2>1 DEF Authority!Next
<1>9. ASSUME NEW r \in Runners, Abandon(r)
       PROVE  [Authority!Next]_(Authority!vars)
  <2>1. PICK j \in Keys : j = arg[r].key
    BY <1>9 DEF Abandon
  <2>2. CASE held[j] = "orphaned"
    <3>1. Authority!WriteOff(j)
      BY <1>9, <2>1, <2>2 DEF Abandon, AppendClosed, Authority!WriteOff
    <3>. QED
      BY <3>1 DEF Authority!Next
  <2>3. CASE held[j] = "abandoned"
    BY <1>9, <2>1, <2>3 DEF Abandon, AppendClosed, Authority!vars
  <2>. QED
    BY <1>9, <2>1, <2>2, <2>3 DEF Abandon
<1>10. ASSUME NEW k \in Keys, SubstrateStarts(k)
       PROVE  [Authority!Next]_(Authority!vars)
  <2>1. Authority!Start(k)
    BY <1>10 DEF SubstrateStarts, Authority!Start
  <2>. QED
    BY <2>1 DEF Authority!Next
<1>11. ASSUME NEW k \in Keys, JobEnds(k)
       PROVE  [Authority!Next]_(Authority!vars)
  BY <1>11 DEF Authority!vars, JobEnds
<1>12. ASSUME ResetBreaker PROVE [Authority!Next]_(Authority!vars)
  <2>1. Authority!Resume
    BY <1>12 DEF ResetBreaker, AppendBreaker, Authority!Resume
  <2>. QED
    BY <2>1 DEF Authority!Next
<1>13. ASSUME TripBreaker PROVE [Authority!Next]_(Authority!vars)
  <2>1. Authority!Halt
    BY <1>13 DEF TripBreaker, AppendBreaker, Authority!Halt
  <2>. QED
    BY <2>1 DEF Authority!Next
<1>14. CASE UNCHANGED <<log, world, resets>>
  BY <1>14 DEF log, world, Authority!vars
<1>. QED
  BY <1>1, <1>2, <1>3, <1>4, <1>5, <1>6, <1>7, <1>8, <1>9, <1>10, <1>11, <1>12,
    <1>13, <1>14, Writers DEF Writes

\* The registry, with its log, lock, processes and crashes, implements the
\* authority over money.
THEOREM Refinement == Spec => ImplementsSpendAuthority
  BY InitAuthority, NextAuthority, Admission, PTL
  DEF Spec, ImplementsSpendAuthority, Authority!Spec

=============================================================================
