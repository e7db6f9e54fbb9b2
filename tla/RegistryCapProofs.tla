-------------------------- MODULE RegistryCapProofs --------------------------
(***************************************************************************)
(* Machine-checked proof that the registry keeps its daily cap, for any    *)
(* number of processes and keys, any prices and any length of the day.     *)
(*                                                                         *)
(* The argument has two halves.  The first is about sums: SpendSince adds  *)
(* prices with a fold of the community modules, which takes the keys in an *)
(* order of its own, so it is first shown that every finite set of keys    *)
(* has a total, that the order does not matter, that fewer keys cost no    *)
(* more, and that a total depends on nothing but the prices in it.  The    *)
(* second is about time: DayInv is inductive.  A price that fitted when it *)
(* was compared with the cap still fits when it is reserved, because the   *)
(* submitter holds the admission lock in between, so nobody else charges   *)
(* anything, and because a later day holds a part of what the earlier held.*)
(***************************************************************************)
EXTENDS RegistryProofs, FiniteSetTheorems, WellFoundedInduction

-----------------------------------------------------------------------------
(* Sums over finite sets.                                                  *)

\* What the keys of S were charged, if c is the log's record of prices:
\* the sum that spend_since adds up row by row.
Total(c, S) == MapThenSumSet(LAMBDA k : c[k].cost, S)

\* The key that the library's fold adds next.
Some(S) == CHOOSE k \in S : TRUE

\* g says of every subset of S what the fold makes of it.
Adds(c, S, g) ==
  g = [s \in SUBSET S |->
         IF s = {} THEN 0 ELSE c[Some(s)].cost + g[s \ {Some(s)}]]

\* The function the fold is defined by.
Fold(c, S) == CHOOSE g : Adds(c, S, g)

\* A property of finite sets of keys that every set inherits from its proper
\* subsets is true of all of them.
LEMMA SubsetInduction ==
  ASSUME NEW S, IsFiniteSet(S), NEW Good,
         \A s \in SUBSET S :
           (\A u \in SUBSET s : u # s => u \in Good) => s \in Good
  PROVE  \A s \in SUBSET S : s \in Good
<1>. DEFINE bad == {s \in SUBSET S : s \notin Good}
<1>1. IsWellFoundedOn(StrictSubsetOrdering(S), SUBSET S)
  BY FS_StrictSubsetOrderingWellFounded, FS_FiniteSubsetsOfFinite
<1>2. SUFFICES ASSUME bad # {} PROVE FALSE
  OBVIOUS
<1>3. PICK s \in bad : \A u \in bad : ~(<<u, s>> \in StrictSubsetOrdering(S))
  <2>1. bad \subseteq SUBSET S
    OBVIOUS
  <2>. HIDE DEF bad
  <2>. QED
    BY <1>1, <1>2, <2>1, WFMin
<1>4. ASSUME NEW u \in SUBSET s, u # s PROVE u \in Good
  BY <1>3, <1>4 DEF StrictSubsetOrdering
<1>. QED
  BY <1>3, <1>4

\* The fold's next key is a key of the set.
LEMMA SomeIn == ASSUME NEW S, S # {} PROVE Some(S) \in S
  BY DEF Some

\* Two folds agree on the sets that both speak of.
LEMMA FoldsAgree ==
  ASSUME NEW c, NEW A, NEW B, IsFiniteSet(A), NEW g, NEW h,
         Adds(c, A, g), Adds(c, B, h)
  PROVE  \A s \in SUBSET A : s \in SUBSET B => g[s] = h[s]
<1>. DEFINE same == {s \in SUBSET A : s \in SUBSET B => g[s] = h[s]}
<1>1. ASSUME NEW s \in SUBSET A,
             \A u \in SUBSET s : u # s => u \in same
      PROVE  s \in same
  <2>. SUFFICES ASSUME s \in SUBSET B PROVE g[s] = h[s]
    OBVIOUS
  <2>1. CASE s = {}
    BY <2>1 DEF Adds
  <2>2. CASE s # {}
    <3>. DEFINE u == s \ {Some(s)}
    <3>1. u \in SUBSET s /\ u # s
      BY <2>2, SomeIn
    <3>2. g[u] = h[u]
      BY <1>1, <3>1
    <3>3. /\ g[s] = c[Some(s)].cost + g[u]
          /\ h[s] = c[Some(s)].cost + h[u]
      BY <2>2 DEF Adds
    <3>. QED
      BY <3>2, <3>3
  <2>. QED
    BY <2>1, <2>2
<1>. HIDE DEF same
<1>2. \A s \in SUBSET A : s \in same
  BY <1>1, SubsetInduction
<1>. QED
  BY <1>2 DEF same

\* There is such a function for every finite set, so the fold is one.
LEMMA FoldAdds ==
  ASSUME NEW c, NEW S, IsFiniteSet(S)
  PROVE  Adds(c, S, Fold(c, S))
<1>. DEFINE sound == {s \in SUBSET S : Adds(c, s, Fold(c, s))}
<1>1. ASSUME NEW s \in SUBSET S,
             \A u \in SUBSET s : u # s => u \in sound
      PROVE  s \in sound
  <2>. DEFINE g == [u \in SUBSET s |->
                      IF u = {} THEN 0
                      ELSE c[Some(u)].cost
                             + Fold(c, u \ {Some(u)})[u \ {Some(u)}]]
  <2>1. ASSUME NEW v \in SUBSET s, v # s PROVE g[v] = Fold(c, v)[v]
    <3>1. Adds(c, v, Fold(c, v))
      BY <1>1, <2>1
    <3>2. CASE v = {}
      <4>1. g[v] = 0
        BY <3>2
      <4>2. Fold(c, v)[v] = 0
        BY <3>1, <3>2 DEF Adds
      <4>. QED
        BY <4>1, <4>2
    <3>3. CASE v # {}
      <4>. DEFINE w == v \ {Some(v)}
      <4>1. w \in SUBSET s /\ w # s /\ w \in SUBSET v
        BY <3>3, SomeIn
      <4>2. Adds(c, w, Fold(c, w))
        BY <1>1, <4>1
      <4>3. w \in SUBSET S /\ IsFiniteSet(w)
        <5>1. w \in SUBSET S
          OBVIOUS
        <5>. HIDE DEF w
        <5>. QED
          BY <5>1, FS_Subset
      <4>4. Fold(c, w)[w] = Fold(c, v)[w]
        BY <3>1, <4>1, <4>2, <4>3, FoldsAgree
      <4>5. g[v] = c[Some(v)].cost + Fold(c, w)[w]
        BY <3>3
      <4>6. Fold(c, v)[v] = c[Some(v)].cost + Fold(c, v)[w]
        BY <3>1, <3>3 DEF Adds
      <4>. QED
        BY <4>4, <4>5, <4>6
    <3>. QED
      BY <3>2, <3>3
  <2>2. ASSUME NEW u \in SUBSET s
        PROVE  g[u] = IF u = {} THEN 0
                      ELSE c[Some(u)].cost + g[u \ {Some(u)}]
    <3>1. CASE u = {}
      BY <3>1
    <3>2. CASE u # {}
      <4>1. u \ {Some(u)} \in SUBSET s /\ u \ {Some(u)} # s
        BY <3>2, SomeIn
      <4>2. g[u \ {Some(u)}] = Fold(c, u \ {Some(u)})[u \ {Some(u)}]
        BY <2>1, <4>1
      <4>3. g[u] = c[Some(u)].cost
                     + Fold(c, u \ {Some(u)})[u \ {Some(u)}]
        BY <3>2
      <4>. QED
        BY <3>2, <4>2, <4>3
    <3>. QED
      BY <3>1, <3>2
  <2>3. g = [u \in SUBSET s |-> g[u]]
    OBVIOUS
  <2>. HIDE DEF g
  <2>4. Adds(c, s, g)
    BY <2>2, <2>3 DEF Adds
  <2>. QED
    BY <2>4 DEF Fold
<1>. HIDE DEF sound
<1>2. \A s \in SUBSET S : s \in sound
  BY <1>1, SubsetInduction
<1>. QED
  BY <1>2 DEF sound

\* A total is the fold of its set.
LEMMA TotalIsFold == ASSUME NEW c, NEW S PROVE Total(c, S) = Fold(c, S)[S]
  BY DEF Total, MapThenSumSet, MapThenFoldSet, Fold, Adds, Some

\* How a total is computed: nothing of nothing, and one key after another.
LEMMA TotalUnfolds ==
  ASSUME NEW c, NEW S, IsFiniteSet(S)
  PROVE  Total(c, S) = IF S = {} THEN 0
                       ELSE c[Some(S)].cost + Total(c, S \ {Some(S)})
<1>1. Adds(c, S, Fold(c, S))
  BY FoldAdds
<1>2. CASE S = {}
  BY <1>1, <1>2, TotalIsFold DEF Adds
<1>3. CASE S # {}
  <2>. DEFINE T == S \ {Some(S)}
  <2>1. IsFiniteSet(T) /\ T \in SUBSET S
    BY FS_Subset
  <2>2. Adds(c, T, Fold(c, T))
    BY <2>1, FoldAdds
  <2>3. Fold(c, T)[T] = Fold(c, S)[T]
    BY <1>1, <2>1, <2>2, FoldsAgree
  <2>4. Fold(c, S)[S] = c[Some(S)].cost + Fold(c, S)[T]
    BY <1>1, <1>3 DEF Adds
  <2>5. Total(c, S) = c[Some(S)].cost + Total(c, T)
    BY <2>3, <2>4, TotalIsFold
  <2>. QED
    BY <1>3, <2>5
<1>. QED
  BY <1>2, <1>3

\* A total of prices is a natural number.
LEMMA TotalType ==
  ASSUME NEW c, NEW S, IsFiniteSet(S), \A k \in S : c[k].cost \in Nat
  PROVE  Total(c, S) \in Nat
<1>. DEFINE natural == {s \in SUBSET S : Total(c, s) \in Nat}
<1>1. ASSUME NEW s \in SUBSET S,
             \A u \in SUBSET s : u # s => u \in natural
      PROVE  s \in natural
  <2>1. IsFiniteSet(s)
    BY FS_Subset
  <2>2. CASE s = {}
    <3>1. Total(c, s) = 0
      BY <2>1, <2>2, TotalUnfolds
    <3>. QED
      BY <3>1
  <2>3. CASE s # {}
    <3>1. Some(s) \in s /\ s \ {Some(s)} \in SUBSET s /\ s \ {Some(s)} # s
      BY <2>3, SomeIn
    <3>2. Total(c, s \ {Some(s)}) \in Nat
      BY <1>1, <3>1
    <3>3. c[Some(s)].cost \in Nat
      BY <3>1
    <3>4. Total(c, s) = c[Some(s)].cost + Total(c, s \ {Some(s)})
      BY <2>1, <2>3, TotalUnfolds
    <3>. QED
      BY <3>2, <3>3, <3>4
  <2>. QED
    BY <2>2, <2>3
<1>. HIDE DEF natural
<1>2. \A s \in SUBSET S : s \in natural
  BY <1>1, SubsetInduction
<1>. QED
  BY <1>2 DEF natural

\* The order in which the fold takes the keys does not matter: any one of them
\* may be set apart.
LEMMA TotalWithout ==
  ASSUME NEW c, NEW S, IsFiniteSet(S), \A k \in S : c[k].cost \in Nat,
         NEW j \in S
  PROVE  Total(c, S) = c[j].cost + Total(c, S \ {j})
<1>. DEFINE free == {s \in SUBSET S :
                       \A i \in s : Total(c, s) = c[i].cost + Total(c, s \ {i})}
<1>1. ASSUME NEW s \in SUBSET S,
             \A u \in SUBSET s : u # s => u \in free
      PROVE  s \in free
  <2>. SUFFICES ASSUME NEW i \in s
                PROVE  Total(c, s) = c[i].cost + Total(c, s \ {i})
    OBVIOUS
  <2>. DEFINE x == Some(s)
               rest == s \ {x}
               others == s \ {i}
               both == (s \ {x}) \ {i}
  <2>1. IsFiniteSet(s) /\ IsFiniteSet(rest) /\ IsFiniteSet(others)
          /\ IsFiniteSet(both)
    BY FS_Subset
  <2>2. x \in s
    BY SomeIn
  <2>3. Total(c, s) = c[x].cost + Total(c, rest)
    BY <2>1, TotalUnfolds
  <2>4. CASE i = x
    BY <2>3, <2>4
  <2>5. CASE i # x
    <3>1. rest \in free /\ others \in free
      <4>1. rest \in SUBSET s /\ rest # s /\ others \in SUBSET s /\ others # s
        BY <2>2
      <4>. QED
        BY <1>1, <4>1
    <3>2. i \in rest /\ x \in others /\ rest \ {i} = both /\ others \ {x} = both
      BY <2>2, <2>5
    <3>3. Total(c, rest) = c[i].cost + Total(c, both)
      BY <3>1, <3>2
    <3>4. Total(c, others) = c[x].cost + Total(c, both)
      BY <3>1, <3>2
    <3>5. c[i].cost \in Nat /\ c[x].cost \in Nat
      BY <2>2
    <3>6. Total(c, both) \in Nat
      BY <2>1, TotalType
    <3>. HIDE DEF x, rest, others, both
    <3>7. c[x].cost + (c[i].cost + Total(c, both))
            = c[i].cost + (c[x].cost + Total(c, both))
      BY <3>5, <3>6
    <3>8. Total(c, s) = c[i].cost + Total(c, others)
      BY <2>3, <3>3, <3>4, <3>7
    <3>. QED
      BY <3>8 DEF others
  <2>. QED
    BY <2>4, <2>5
<1>. HIDE DEF free
<1>2. S \in free
  BY <1>1, SubsetInduction
<1>. QED
  BY <1>2 DEF free

\* Fewer keys cost no more.
LEMMA TotalOfFewer ==
  ASSUME NEW c, NEW S, IsFiniteSet(S), \A k \in S : c[k].cost \in Nat,
         NEW T \in SUBSET S
  PROVE  Total(c, T) <= Total(c, S)
<1>. DEFINE above == {s \in SUBSET S : T \subseteq s => Total(c, T) <= Total(c, s)}
<1>1. ASSUME NEW s \in SUBSET S,
             \A u \in SUBSET s : u # s => u \in above
      PROVE  s \in above
  <2>. SUFFICES ASSUME T \subseteq s PROVE Total(c, T) <= Total(c, s)
    OBVIOUS
  <2>1. IsFiniteSet(s) /\ IsFiniteSet(T)
    BY FS_Subset
  <2>2. Total(c, T) \in Nat
    BY <2>1, TotalType
  <2>3. CASE T = s
    BY <2>2, <2>3
  <2>4. CASE T # s
    <3>1. PICK j \in s : j \notin T
      BY <2>4
    <3>2. s \ {j} \in SUBSET s /\ s \ {j} # s /\ T \subseteq s \ {j}
      BY <3>1
    <3>3. Total(c, T) <= Total(c, s \ {j})
      BY <1>1, <3>2
    <3>4. Total(c, s) = c[j].cost + Total(c, s \ {j})
      BY <2>1, TotalWithout
    <3>5. IsFiniteSet(s \ {j})
      BY <2>1, <3>2, FS_Subset
    <3>6. Total(c, s \ {j}) \in Nat /\ c[j].cost \in Nat
      BY <3>5, TotalType
    <3>. QED
      BY <2>2, <3>3, <3>4, <3>6
  <2>. QED
    BY <2>3, <2>4
<1>. HIDE DEF above
<1>2. S \in above
  BY <1>1, SubsetInduction
<1>. QED
  BY <1>2 DEF above

\* A total depends on the prices of its own keys only.
LEMMA TotalOfSame ==
  ASSUME NEW c, NEW d, NEW S, IsFiniteSet(S),
         \A k \in S : c[k].cost = d[k].cost
  PROVE  Total(c, S) = Total(d, S)
<1>. DEFINE same == {s \in SUBSET S : Total(c, s) = Total(d, s)}
<1>1. ASSUME NEW s \in SUBSET S,
             \A u \in SUBSET s : u # s => u \in same
      PROVE  s \in same
  <2>1. IsFiniteSet(s)
    BY FS_Subset
  <2>2. CASE s = {}
    BY <2>1, <2>2, TotalUnfolds
  <2>3. CASE s # {}
    <3>1. Some(s) \in s /\ s \ {Some(s)} \in SUBSET s /\ s \ {Some(s)} # s
      BY <2>3, SomeIn
    <3>2. Total(c, s \ {Some(s)}) = Total(d, s \ {Some(s)})
      BY <1>1, <3>1
    <3>3. c[Some(s)].cost = d[Some(s)].cost
      BY <3>1
    <3>4. /\ Total(c, s) = c[Some(s)].cost + Total(c, s \ {Some(s)})
          /\ Total(d, s) = d[Some(s)].cost + Total(d, s \ {Some(s)})
      BY <2>1, <2>3, TotalUnfolds
    <3>. QED
      BY <3>2, <3>3, <3>4
  <2>. QED
    BY <2>2, <2>3
<1>. HIDE DEF same
<1>2. S \in same
  BY <1>1, SubsetInduction
<1>. QED
  BY <1>2 DEF same

-----------------------------------------------------------------------------
(* The daily cap.                                                          *)

\* What is charged in the trailing day that ends at t.
Window(t) == {k \in Charged : charge[k].at \in (t - Day) .. t}

\* What spend_since counts from t on.
Since(t) == {k \in Charged : charge[k].at >= t}

\* What was checked against the daily cap still fits under it when it is
\* reserved: time may pass in between, and then the day holds no more.
PricedFits ==
  \A r \in Runners :
    pc[r] = "submit_priced" => SpendSince(now - Day) + arg[r].cost <= PerDayCap

\* The inductive invariant behind the daily cap: there are finitely many rows,
\* none is dated in the future, and what is about to be charged fits.
DayInv ==
  /\ IsFiniteSet(Charged)
  /\ \A k \in Charged : charge[k].at <= now
  /\ PricedFits
  /\ SpendWithinCap

\* What a step may do to the sums: nothing that costs money, unless a quoted
\* price was just compared with the caps.
Quiet ==
  /\ UNCHANGED <<charge, now>>
  /\ Charged' \subseteq Charged
  /\ \A r \in Runners :
       pc'[r] = "submit_priced" =>
         \/ pc[r] = "submit_priced" /\ arg'[r].cost = arg[r].cost
         \/ pc[r] = "submit_admitted" /\ WithinCaps(arg'[r].cost, now)

\* Only a reservation charges money and only the clock moves the window.
LEMMA ChargeSteps ==
  AdmissionInv /\ [Next]_vars =>
    (\E r \in Runners : Reserve(r)) \/ Tick \/ Quiet
<1>. SUFFICES ASSUME AdmissionInv, [Next]_vars
              PROVE  (\E r \in Runners : Reserve(r)) \/ Tick \/ Quiet
  OBVIOUS
<1>. USE DEF AdmissionInv, TypeOK, Quiet, Charged, log, world, procs, bounds,
  KeyInv, Keyed, InSubmit, Goto
<1>1. ASSUME NEW r \in Runners, Acquire(r) \/ LockTimeout(r) \/ Raise(r) \/ Crash(r)
      PROVE  Quiet
  BY <1>1 DEF Acquire, LockTimeout, Raise, Crash, Return
<1>2. ASSUME NEW r \in Runners, Escalate(r)
      PROVE  Quiet
  BY <1>2 DEF Escalate, AppendClosed, Unescalated
<1>3. ASSUME NEW r \in Runners, SubmitBegin(r) \/ Admit(r) \/ RefuseAdmission(r)
      PROVE  Quiet
  BY <1>3 DEF SubmitBegin, Admit, RefuseAdmission, Enter, Return
<1>4. ASSUME NEW r \in Runners, Price(r)
      PROVE  Quiet
  <2>1. PICK c \in Quotes :
           IF WithinCaps(c, now)
           THEN /\ arg' = [arg EXCEPT ![r].cost = c]
                /\ Goto(r, "submit_priced")
                /\ UNCHANGED lock
           ELSE Return(r)
    BY <1>4 DEF Price
  <2>2. CASE WithinCaps(c, now)
    <3>1. /\ arg' = [arg EXCEPT ![r].cost = c]
          /\ pc' = [pc EXCEPT ![r] = "submit_priced"]
      BY <2>1, <2>2
    <3>2. arg'[r].cost = c /\ \A s \in Runners : s # r => arg'[s] = arg[s]
      BY <3>1 DEF Locals
    <3>. QED
      BY <1>4, <2>2, <3>1, <3>2 DEF Price
  <2>3. CASE ~WithinCaps(c, now)
    BY <1>4, <2>1, <2>3 DEF Price, Return
  <2>. QED
    BY <2>2, <2>3
<1>5. ASSUME NEW r \in Runners, CallSubstrate(r)
      PROVE  Quiet
  BY <1>5 DEF CallSubstrate
<1>6. ASSUME NEW r \in Runners, Release(r)
      PROVE  Quiet
  BY <1>6 DEF Release, AppendClosed, Return
<1>7. ASSUME NEW r \in Runners, Bind(r)
      PROVE  Quiet
  BY <1>7 DEF Bind, AppendBound, Return, LiveReservationNeverEscalated
<1>8. ASSUME NEW r \in Runners, CollectBegin(r) \/ CollectPoll(r) \/ CollectReturn(r)
      PROVE  Quiet
  BY <1>8 DEF CollectBegin, CollectPoll, CollectReturn, Enter, Return
<1>9. ASSUME NEW r \in Runners, CollectResolve(r) \/ CollectSkip(r)
      PROVE  Quiet
  BY <1>9 DEF CollectResolve, CollectSkip, AppendOutcome
<1>10. ASSUME NEW r \in Runners, SweepBegin(r) \/ SweepPoll(r) \/ SweepReturn(r)
      PROVE  Quiet
  BY <1>10 DEF SweepBegin, SweepPoll, SweepReturn, Enter, Return
<1>11. ASSUME NEW r \in Runners, SweepResolve(r) \/ RecordLost(r)
      PROVE  Quiet
  BY <1>11 DEF SweepResolve, RecordLost, AppendOutcome
<1>12. ASSUME NEW r \in Runners,
              ReconcileBegin(r) \/ ReconcileReturn(r) \/ AbandonBegin(r)
      PROVE  Quiet
  BY <1>12 DEF ReconcileBegin, ReconcileReturn, AbandonBegin, Enter, Return
<1>13. ASSUME NEW r \in Runners, Abandon(r)
      PROVE  Quiet
  BY <1>13 DEF Abandon, AppendClosed, Return, AbandonInv
<1>14. ASSUME NEW k \in Keys, SubstrateStarts(k) \/ JobEnds(k)
      PROVE  Quiet
  BY <1>14 DEF SubstrateStarts, JobEnds
<1>15. ASSUME ResetBreaker \/ TripBreaker
      PROVE  Quiet
  BY <1>15 DEF ResetBreaker, TripBreaker, AppendBreaker
<1>16. CASE UNCHANGED vars
  BY <1>16 DEF vars
<1>. HIDE DEF Quiet
<1>. QED
  BY <1>1, <1>2, <1>3, <1>4, <1>5, <1>6, <1>7, <1>8, <1>9, <1>10, <1>11,
    <1>12, <1>13, <1>14, <1>15, <1>16
  DEF Next, Process, Submit, Collect, Sweep, Reconcile

\* The two sums of the registry in the terms used here.
LEMMA SumsAreTotals ==
  /\ SpendWithinCap <=> \A t \in 0 .. now : Total(charge, Window(t)) <= PerDayCap
  /\ \A t \in Int : SpendSince(t) = Total(charge, Since(t))
  BY DEF SpendWithinCap, SpendSince, Total, Window, Since

\* The same, after a step.
LEMMA SumsStayTotals ==
  /\ SpendWithinCap' <=>
       \A t \in 0 .. now' : Total(charge', Window(t)') <= PerDayCap
  /\ SpendSince(now - Day)' = Total(charge', Since(now - Day)')
  /\ SpendSince(now - Day) = Total(charge, Since(now - Day))
<1>1. SpendWithinCap' <=>
        \A t \in 0 .. now' : Total(charge', Window(t)') <= PerDayCap
  BY DEF SpendWithinCap, Total, Window, MapThenSumSet, MapThenFoldSet
<1>2. SpendSince(now - Day)' = Total(charge', Since(now - Day)')
  BY DEF SpendSince, Total, Since, MapThenSumSet, MapThenFoldSet
<1>3. SpendSince(now - Day) = Total(charge, Since(now - Day))
  BY DEF SpendSince, Total, Since, MapThenSumSet, MapThenFoldSet
<1>. QED
  BY <1>1, <1>2, <1>3

\* Every sum over charged keys is over finitely many natural prices.
LEMMA ChargedFacts ==
  ASSUME TypeOK, DayInv, NEW S \in SUBSET Charged
  PROVE  /\ IsFiniteSet(S)
         /\ \A k \in S : charge[k].cost \in Nat
         /\ Total(charge, S) \in Nat
<1>1. IsFiniteSet(S)
  BY FS_Subset DEF DayInv
<1>2. \A k \in S : charge[k].cost \in Nat
  BY DEF TypeOK, Charge, Charged
<1>. QED
  BY <1>1, <1>2, TotalType

\* What the log holds for a narrower span costs no more.
LEMMA NarrowerSpan ==
  ASSUME TypeOK, DayInv, NEW S \in SUBSET Charged, NEW T \in SUBSET S
  PROVE  Total(charge, T) <= Total(charge, S)
  BY ChargedFacts, TotalOfFewer

\* A quiet step: no window gains a key, and a price compared with the caps in
\* this very step fits.
LEMMA QuietKeepsDay ==
  ASSUME AdmissionInv, TypeOK', DayInv, Quiet
  PROVE  DayInv'
<1>. USE DEF AdmissionInv
<1>1. /\ charge' = charge /\ now' = now
      /\ Charged' \subseteq Charged
  BY DEF Quiet
<1>2. IsFiniteSet(Charged')
  BY <1>1, FS_Subset DEF DayInv
<1>3. \A k \in Charged' : charge'[k].at <= now'
  BY <1>1 DEF DayInv
<1>4. PricedFits'
  <2>. SUFFICES ASSUME NEW r \in Runners, pc'[r] = "submit_priced"
                PROVE  SpendSince(now - Day)' + arg'[r].cost <= PerDayCap
    BY DEF PricedFits
  <2>1. SpendSince(now - Day) + arg'[r].cost <= PerDayCap
    BY DEF Quiet, DayInv, PricedFits, WithinCaps
  <2>. DEFINE old == Since(now - Day)
               new == Since(now - Day)'
  <2>2. new \in SUBSET old /\ old \in SUBSET Charged
    BY <1>1 DEF Since
  <2>3. Total(charge, new) <= Total(charge, old)
    BY <2>2, NarrowerSpan
  <2>4. /\ SpendSince(now - Day) = Total(charge, old)
        /\ SpendSince(now - Day)' = Total(charge, new)
    BY <1>1, SumsStayTotals
  <2>5. Total(charge, new) \in Nat /\ Total(charge, old) \in Nat
    BY <2>2, ChargedFacts
  <2>6. arg'[r].cost \in Nat
    BY DEF TypeOK, Locals
  <2>. QED
    BY <2>1, <2>3, <2>4, <2>5, <2>6, MoneyAssumption
<1>5. SpendWithinCap'
  <2>. SUFFICES ASSUME NEW t \in 0 .. now
                PROVE  Total(charge, Window(t)') <= PerDayCap
    BY <1>1, SumsStayTotals
  <2>1. Window(t)' \in SUBSET Window(t) /\ Window(t) \in SUBSET Charged
    BY <1>1 DEF Window
  <2>2. Total(charge, Window(t)') <= Total(charge, Window(t))
    BY <2>1, NarrowerSpan
  <2>3. Total(charge, Window(t)) <= PerDayCap
    BY SumsAreTotals DEF DayInv
  <2>4. Total(charge, Window(t)') \in Nat /\ Total(charge, Window(t)) \in Nat
    BY <2>1, ChargedFacts
  <2>. QED
    BY <2>2, <2>3, <2>4, MoneyAssumption
<1>. QED
  BY <1>2, <1>3, <1>4, <1>5 DEF DayInv

\* The clock moves: the new day ends with nothing charged in its last instant,
\* so it is part of a day that was within the cap already.
LEMMA TickKeepsDay ==
  ASSUME AdmissionInv, DayInv, Tick
  PROVE  DayInv'
<1>. USE TimeAssumption, MoneyAssumption DEF AdmissionInv
<1>1. /\ now \in Nat /\ now' = now + 1
      /\ UNCHANGED <<held, charge, pc, arg>>
      /\ Charged' = Charged
  BY DEF Tick, TypeOK, log, procs, Charged
<1>2. IsFiniteSet(Charged')
  BY <1>1 DEF DayInv
<1>3. \A k \in Charged' : charge'[k].at <= now'
  BY <1>1 DEF DayInv, TypeOK, Charge, Charged
<1>4. PricedFits'
  <2>. SUFFICES ASSUME NEW r \in Runners, pc'[r] = "submit_priced"
                PROVE  SpendSince(now - Day)' + arg'[r].cost <= PerDayCap
    BY DEF PricedFits
  <2>1. SpendSince(now - Day) + arg[r].cost <= PerDayCap
    BY <1>1 DEF DayInv, PricedFits
  <2>. DEFINE old == Since(now - Day)
               new == Since(now - Day)'
  <2>2. new \in SUBSET old /\ old \in SUBSET Charged
    BY <1>1 DEF Since, TypeOK, Charge, Charged
  <2>3. Total(charge, new) <= Total(charge, old)
    BY <2>2, NarrowerSpan
  <2>4. /\ SpendSince(now - Day) = Total(charge, old)
        /\ SpendSince(now - Day)' = Total(charge, new)
    BY <1>1, SumsStayTotals
  <2>5. Total(charge, new) \in Nat /\ Total(charge, old) \in Nat
    BY <2>2, ChargedFacts
  <2>6. arg[r].cost \in Nat /\ arg'[r].cost = arg[r].cost
    BY <1>1 DEF TypeOK, Locals
  <2>. QED
    BY <2>1, <2>3, <2>4, <2>5, <2>6
<1>5. SpendWithinCap'
  <2>. SUFFICES ASSUME NEW t \in 0 .. now + 1
                PROVE  Total(charge, Window(t)) <= PerDayCap
    <3>1. \A t \in 0 .. now + 1 : Window(t)' = Window(t)
      BY <1>1 DEF Window
    <3>. QED
      BY <1>1, <3>1, SumsStayTotals
  <2>1. ASSUME NEW u \in 0 .. now
        PROVE  Total(charge, Window(u)) <= PerDayCap
    BY SumsAreTotals DEF DayInv
  <2>2. CASE t \in 0 .. now
    BY <2>1, <2>2
  <2>3. CASE t = now + 1
    <3>1. Window(t) \in SUBSET Window(now) /\ Window(now) \in SUBSET Charged
      BY <1>1, <2>3 DEF Window, DayInv, TypeOK, Charge, Charged
    <3>2. Total(charge, Window(t)) <= Total(charge, Window(now))
      BY <3>1, NarrowerSpan
    <3>3. Total(charge, Window(now)) <= PerDayCap
      BY <1>1, <2>1
    <3>4. Total(charge, Window(t)) \in Nat /\ Total(charge, Window(now)) \in Nat
      BY <3>1, ChargedFacts
    <3>. QED
      BY <3>2, <3>3, <3>4
  <2>. QED
    BY <1>1, <2>2, <2>3
<1>. QED
  BY <1>2, <1>3, <1>4, <1>5 DEF DayInv

\* A reservation is dated now: it enters the day that ends now and no earlier
\* one, and with it that day costs what was compared with the cap.
LEMMA ReserveKeepsDay ==
  ASSUME AdmissionInv, DayInv, NEW r \in Runners, Reserve(r)
  PROVE  DayInv'
<1>. USE TimeAssumption, MoneyAssumption DEF AdmissionInv
<1>. DEFINE k == arg[r].key
            price == arg[r].cost
<1>1. /\ pc[r] = "submit_priced" /\ k \in Keys /\ held[k] = "none"
      /\ price \in Nat /\ now \in Nat
      /\ now + arg[r].window \in Nat
  BY DEF Reserve, KeyInv, Keyed, InSubmit, AdmittedInv, TypeOK, Locals
<1>2. /\ now' = now
      /\ charge'[k].at = now /\ charge'[k].cost = price
      /\ \A j \in Keys : j # k => charge'[j] = charge[j]
      /\ k \notin Charged /\ Charged' = Charged \cup {k}
  BY <1>1 DEF Reserve, AppendReserved, TypeOK, Charged, Charge
<1>3. \A s \in Runners : pc'[s] # "submit_priced"
  BY <1>1 DEF Reserve, Goto, LockInv, Holding, InSubmit, TypeOK
<1>. HIDE DEF k, price
<1>4. IsFiniteSet(Charged')
  BY <1>2, FS_AddElement DEF DayInv
<1>5. \A j \in Charged' : charge'[j].at <= now'
  BY <1>1, <1>2 DEF DayInv, Charged
<1>6. ASSUME NEW S \in SUBSET Charged
      PROVE  Total(charge', S) = Total(charge, S)
  <2>1. IsFiniteSet(S) /\ \A j \in S : charge'[j].cost = charge[j].cost
    BY <1>2, ChargedFacts DEF Charged
  <2>. QED
    BY <2>1, TotalOfSame
<1>7. ASSUME NEW t \in 0 .. now
      PROVE  Total(charge', Window(t)') <= PerDayCap
  <2>1. CASE t # now
    <3>1. Window(t)' = Window(t) /\ Window(t) \in SUBSET Charged
      BY <1>1, <1>2, <2>1 DEF Window, Charged
    <3>2. Total(charge, Window(t)) <= PerDayCap
      BY SumsAreTotals DEF DayInv
    <3>. QED
      BY <1>6, <3>1, <3>2
  <2>2. CASE t = now
    <3>. DEFINE W == Window(t)
                 New == Window(t)'
                 S == Since(now - Day)
    <3>1. New = W \cup {k} /\ k \notin W /\ W \in SUBSET S /\ S \in SUBSET Charged
      BY <1>1, <1>2, <2>2 DEF Window, Since, Charged, TypeOK, Charge
    <3>. HIDE DEF W, New, S
    <3>2. /\ IsFiniteSet(New)
          /\ \A j \in New : charge'[j].cost \in Nat
          /\ k \in New /\ New \ {k} = W
      <4>1. IsFiniteSet(W) /\ \A j \in W : charge[j].cost \in Nat
        BY <3>1, ChargedFacts
      <4>2. \A j \in W : charge'[j].cost \in Nat
        BY <1>2, <3>1, <4>1 DEF Charged
      <4>. QED
        BY <1>1, <1>2, <3>1, <4>1, <4>2, FS_AddElement
    <3>3. Total(charge', New) = charge'[k].cost + Total(charge', W)
      BY <3>2, TotalWithout
    <3>4. Total(charge', W) = Total(charge, W)
      BY <1>6, <3>1
    <3>5. Total(charge, W) <= Total(charge, S)
      BY <3>1, NarrowerSpan
    <3>6. Total(charge, S) + price <= PerDayCap
      BY <1>1, SumsAreTotals DEF DayInv, PricedFits, S, price
    <3>7. Total(charge, W) \in Nat /\ Total(charge, S) \in Nat
      BY <3>1, ChargedFacts
    <3>8. Total(charge', New) <= PerDayCap
      BY <1>1, <1>2, <3>3, <3>4, <3>5, <3>6, <3>7
    <3>. QED
      BY <3>8 DEF New
  <2>. QED
    BY <2>1, <2>2
<1>8. SpendWithinCap'
  BY <1>2, <1>7, SumsStayTotals
<1>. QED
  BY <1>3, <1>4, <1>5, <1>8 DEF DayInv, PricedFits

\* DayInv is an invariant of the registry: what the cap was checked against at
\* registry.py submit is still what the log holds when the row is appended.
THEOREM Days == Spec => []DayInv
<1>1. Init => DayInv
  <2>. SUFFICES ASSUME Init PROVE DayInv
    OBVIOUS
  <2>1. Charged = {} /\ now = 0 /\ PricedFits
    BY DEF Init, Charged, PricedFits
  <2>2. IsFiniteSet(Charged)
    BY <2>1, FS_EmptySet
  <2>3. \A t \in 0 .. now : Window(t) = {}
    BY <2>1 DEF Window
  <2>4. Total(charge, {}) = 0
    BY FS_EmptySet, TotalUnfolds
  <2>5. SpendWithinCap
    BY <2>3, <2>4, SumsAreTotals, MoneyAssumption
  <2>. QED
    BY <2>1, <2>2, <2>5 DEF DayInv
<1>2. AdmissionInv /\ DayInv /\ [Next]_vars => DayInv'
  BY ChargeSteps, NextType, QuietKeepsDay, TickKeepsDay, ReserveKeepsDay
    DEF AdmissionInv
<1>. QED
  BY Admission, <1>1, <1>2, PTL DEF Spec

\* registry.py submit: the caps of W-12.  However many processes share the log,
\* wherever they stop between the price and the row, and wherever the day is
\* cut, a trailing day never costs more than the daily cap.
THEOREM CapHolds == Spec => []SpendWithinCap
<1>1. DayInv => SpendWithinCap
  BY DEF DayInv
<1>. QED
  BY <1>1, Days, PTL

=============================================================================
