-------------------------- MODULE PromotionRecord --------------------------
(***************************************************************************)
(* What G-07 and G-08 promise together, without a ledger: rules are filed, *)
(* experiments are first judged at some moment, and a rule wins only if it *)
(* was filed before the experiment it wins with was first judged and its   *)
(* lineage is not exhausted.  A verdict that is promoted without           *)
(* preregistration may cite any rule, and takes it off the count.          *)
(***************************************************************************)
EXTENDS Integers, FiniteSets

CONSTANTS
  Rules, ExpIds,
  ParentOf,     \* rule -> the lineage it belongs to
  Unjudged,
  Limit         \* rules of one lineage that may be unpromoted

VARIABLES
  filed,        \* rules filed so far
  judged,       \* experiment -> rules filed when it was first judged
  won,          \* rules something was promoted under
  cited         \* rules cited by something promoted under no rule

vars == <<filed, judged, won, cited>>

Shopped(x) == {r \in filed \ (won \cup cited) : ParentOf[r] = x}

File(r) ==
  /\ filed' = filed \cup {r}
  /\ UNCHANGED <<judged, won, cited>>

FirstJudged(x) ==
  judged' = [judged EXCEPT ![x] = IF @ = Unjudged THEN filed ELSE @]

Reject(x) ==
  /\ FirstJudged(x)
  /\ UNCHANGED <<filed, won, cited>>

Promote(x, r) ==
  /\ r \in filed
  /\ judged[x] = Unjudged \/ r \in judged[x]
  /\ Cardinality(Shopped(ParentOf[r])) <= Limit
  /\ won' = won \cup {r}
  /\ FirstJudged(x)
  /\ UNCHANGED <<filed, cited>>

Cite(x, r) ==
  /\ cited' = cited \cup {r}
  /\ FirstJudged(x)
  /\ UNCHANGED <<filed, won>>

Init ==
  /\ filed = {}
  /\ judged = [x \in ExpIds |-> Unjudged]
  /\ won = {} /\ cited = {}

Next ==
  \/ \E r \in Rules : File(r)
  \/ \E x \in ExpIds : Reject(x) \/ \E r \in Rules : Promote(x, r) \/ Cite(x, r)

Spec == Init /\ [][Next]_vars

=============================================================================
