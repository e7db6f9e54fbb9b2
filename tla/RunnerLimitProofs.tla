-------------------------- MODULE RunnerLimitProofs --------------------------
(***************************************************************************)
(* Proofs that a tick keeps the two limits, max_concurrent and             *)
(* max_awaiting_human, although it counts only once and from a list that   *)
(* was read before it moved anything itself.                               *)
(***************************************************************************)
EXTENDS RunnerProofs

-----------------------------------------------------------------------------
(* The inductive invariant.                                                *)

\* A relabelling drops every label but the one it has put there, unless a human
\* has taken all of them; and it is what the step it returns to has asked for.
RelabelTo(state) ==
  LET S == labels[relabel.ticket] IN
  /\ state \notin relabel.drop
  /\ S \subseteq relabel.drop \cup {state}
  /\ S # {} => state \in S
  /\ relabel.next = "agent" => state = InProgress
  /\ relabel.next = "bring" => state \in Handed /\ relabel.ticket \in collected
  /\ relabel.next = "ground" => state \in Handed /\ relabel.ticket \in grounded
  /\ relabel.next = "dispatch" =>
       state \in Handed \/ (state = Unattended /\ S \subseteq {InProgress, Unattended})

Relabelling ==
  /\ pc = "relabel" => \E state \in StateLabel : RelabelTo(state)
  /\ pc = "agent" => labels[session] \subseteq {InProgress}

\* Until it dispatches, a tick knows of every ticket in flight, and of every one
\* before a human it has been read there or put there by the tick itself.
Foreseen ==
  Phase \in {"collect", "bring", "sweep", "ground"} =>
    /\ InFlight(labels) \subseteq InFlight(snapshot)
    /\ Awaiting(labels) \subseteq Awaiting(snapshot) \cup collected \cup grounded

\* Tickets that take a place of max_concurrent, and those that take or are about
\* to take one of max_awaiting_human.
Slots == InFlight(labels) \cup ({session} \ {NoTicket})
Fronts == Awaiting(labels) \cup ({session, relabel.ticket} \ {NoTicket})

\* What is taken and what may still be taken stay within the limits.
Budgeted ==
  Phase \in {"dispatch", "agent"} =>
    /\ Cardinality(Slots) + budget <= MaxConcurrent
    /\ review > 0 => Cardinality(Fronts) + review <= MaxAwaiting

LimitInv == Relabelling /\ Foreseen /\ Budgeted /\ ConcurrencyBounded

-----------------------------------------------------------------------------
(* Counting tickets.                                                       *)

\* What makes a ticket count as in flight, and as before a human, label by label.
Flies(S) == InProgress \in S \/ (Unattended \in S /\ InReview \notin S /\ NeedsHuman \notin S)
Waits(S) == InProgress \notin S /\ (InReview \in S \/ NeedsHuman \in S)

\* They do what StateOf makes of the labels.
LEMMA Counted ==
  ASSUME NEW b
  PROVE  /\ InFlight(b) = {t \in Tickets : Flies(b[t])}
         /\ Awaiting(b) = {t \in Tickets : Waits(b[t])}
<1>1. \A S : /\ StateOf(S) \in {InProgress, Unattended} <=> Flies(S)
             /\ StateOf(S) \in Handed <=> Waits(S)
  BY DEF StateOf, Flies, Waits, Handed, InProgress, InReview, NeedsHuman, Unattended
<1>. QED
  BY <1>1 DEF InFlight, Awaiting, In

\* When one ticket's labels change, the others count as they did.
LEMMA OneTicketMoves ==
  ASSUME NEW b, NEW c, NEW t \in Tickets, \A u \in Tickets \ {t} : c[u] = b[u]
  PROVE  /\ InFlight(c) \subseteq InFlight(b) \cup {t}
         /\ Awaiting(c) \subseteq Awaiting(b) \cup {t}
         /\ (Flies(c[t]) => Flies(b[t])) => InFlight(c) \subseteq InFlight(b)
         /\ (Waits(c[t]) => Waits(b[t])) => Awaiting(c) \subseteq Awaiting(b)
  BY Counted

\* Fewer tickets are no more, and one ticket more is at most one more.
LEMMA TicketCounts ==
  ASSUME NEW S \in SUBSET Tickets, NEW T \in SUBSET Tickets
  PROVE  /\ Cardinality(S) \in Nat /\ Cardinality(T) \in Nat
         /\ S \subseteq T => Cardinality(S) <= Cardinality(T)
         /\ \A t : S \subseteq T \cup {t} => Cardinality(S) <= Cardinality(T) + 1
<1>1. IsFiniteSet(S) /\ IsFiniteSet(T)
  BY TicketAssumption, FS_Subset
<1>2. Cardinality(S) \in Nat /\ Cardinality(T) \in Nat
  BY <1>1, FS_CardinalityType
<1>3. S \subseteq T => Cardinality(S) <= Cardinality(T)
  BY <1>1, FS_Subset
<1>4. ASSUME NEW t, S \subseteq T \cup {t}
      PROVE  Cardinality(S) <= Cardinality(T) + 1
  <2>1. /\ IsFiniteSet(T \cup {t})
        /\ Cardinality(T \cup {t}) =
             IF t \in T THEN Cardinality(T) ELSE Cardinality(T) + 1
    BY <1>1, FS_AddElement
  <2>2. Cardinality(S) <= Cardinality(T \cup {t})
    BY <1>4, <2>1, FS_Subset
  <2>. QED
    BY <1>2, <2>1, <2>2
<1>. QED
  BY <1>2, <1>3, <1>4

\* The tickets that count, and both budgets, are in their types.
LEMMA CountTypes ==
  ASSUME TypeOK
  PROVE  /\ \A b : InFlight(b) \in SUBSET Tickets /\ Awaiting(b) \in SUBSET Tickets
         /\ Slots \in SUBSET Tickets /\ Fronts \in SUBSET Tickets
         /\ collected \in SUBSET Tickets /\ grounded \in SUBSET Tickets
         /\ budget \in Nat /\ review \in Nat /\ MaxConcurrent \in Nat /\ MaxAwaiting \in Nat
<1>1. \A b : InFlight(b) \in SUBSET Tickets /\ Awaiting(b) \in SUBSET Tickets
  BY DEF InFlight, Awaiting, In
<1>2. relabel.ticket \in Tickets \cup {NoTicket} /\ session \in Tickets \cup {NoTicket}
  BY DEF TypeOK
<1>3. Slots \in SUBSET Tickets /\ Fronts \in SUBSET Tickets
  BY <1>1, <1>2 DEF Slots, Fronts
<1>. QED
  BY <1>1, <1>3, LimitAssumption DEF TypeOK

-----------------------------------------------------------------------------
(* What the steps of a tick do to what is counted.                         *)

\* set_state writes the ticket's label and either is done, or has begun to
\* remove the others.
LEMMA SetStateEffect ==
  ASSUME TypeOK, NEW t \in Tickets, NEW state \in StateLabel, NEW next,
         SetState(t, state, next)
  PROVE  /\ \A u \in Tickets \ {t} : labels'[u] = labels[u]
         /\ \/ /\ labels'[t] = {state} /\ pc' = next /\ relabel' = relabel
            \/ /\ labels'[t] = labels[t] \cup {state} /\ pc' = "relabel"
               /\ relabel' = [ticket |-> t, drop |-> StateLabel \ {state}, next |-> next]
  BY DEF TypeOK, SetState, LinearSetState, GitHubSetState

counted == <<labels, session, relabel, snapshot, collected, grounded, budget, review>>

\* The steps that nothing counted depends on: polling and reporting jobs, what
\* agents submit, and what jobs, clocks and the breaker do.
Quiet ==
  /\ UNCHANGED counted
  /\ pc' = pc \/ {pc, pc'} \subseteq {"collect", "bring", "sweep", "ground"}

\* A ticket is handed to a human, on what collect_finished or sweep reported.
HandedOver(t, state) ==
  /\ UNCHANGED <<session, snapshot, budget, review>>
  /\ \/ /\ pc = "bring" /\ SetState(t, state, "bring")
        /\ collected' = collected \cup {t} /\ UNCHANGED grounded
     \/ /\ pc = "ground" /\ SetState(t, state, "ground")
        /\ grounded' = grounded \cup {t} /\ UNCHANGED collected

\* A tick ends, of itself or not.
Ends == pc' = "idle" /\ session' = NoTicket /\ UNCHANGED labels

\* Every step of the loop is one of these.
LEMMA Steps ==
  ASSUME TypeOK, Control, Jobbing, [Next]_vars
  PROVE  \/ Quiet \/ Poll \/ DispatchBegin \/ RemoveLabel \/ Ends
         \/ \E t \in Tickets, state \in Handed : HandedOver(t, state)
         \/ \E t \in Tickets : Dispatch(t) \/ HumanReturns(t)
         \/ AgentAnswers \/ AgentDetaches
<1>1. ASSUME CollectJob \/ CollectSkip \/ CollectDone \/ SweepJob \/ SweepDone
      PROVE  Quiet
  BY <1>1 DEF CollectJob, CollectSkip, CollectDone, SweepJob, SweepDone, Quiet, counted, board
<1>2. ASSUME SweepBegin PROVE Quiet
  BY <1>2 DEF SweepBegin, Quiet, counted, board
<1>3. ASSUME AgentSubmits \/ MoveBreaker PROVE Quiet
  BY <1>3 DEF AgentSubmits, MoveBreaker, Quiet, counted, board, locals
<1>4. ASSUME NEW j \in Jobs, JobEnds(j) \/ DeadlinePasses(j) PROVE Quiet
  BY <1>4 DEF JobEnds, DeadlinePasses, Quiet, counted, board, locals
<1>5. ASSUME UNCHANGED vars PROVE Quiet
  BY <1>5 DEF vars, Quiet, counted, board, locals
<1>6. ASSUME Bring PROVE \E t \in Tickets, state \in Handed : HandedOver(t, state)
  <2>1. PICK j \in hand, state \in Handed :
           SetState(owner[j], state, "bring") /\ collected' = collected \cup {owner[j]}
    BY <1>6 DEF Bring
  <2>2. owner[j] \in Tickets
    BY DEF Jobbing, TypeOK
  <2>3. HandedOver(owner[j], state)
    BY <1>6, <2>1 DEF Bring, HandedOver
  <2>. QED
    BY <2>2, <2>3
<1>7. ASSUME Ground PROVE \E t \in Tickets, state \in Handed : HandedOver(t, state)
  <2>1. PICK j \in hand :
           SetState(owner[j], NeedsHuman, "ground") /\ grounded' = grounded \cup {owner[j]}
    BY <1>7 DEF Ground
  <2>2. owner[j] \in Tickets /\ NeedsHuman \in Handed
    BY DEF Jobbing, TypeOK, Handed
  <2>3. HandedOver(owner[j], NeedsHuman)
    BY <1>7, <2>1 DEF Ground, HandedOver
  <2>. QED
    BY <2>2, <2>3
<1>8. ASSUME TickDone \/ Abort \/ SweepRaises PROVE Ends
  BY <1>8 DEF TickDone, Abort, SweepRaises, Forget, Ends, board
<1>. QED
  BY <1>1, <1>2, <1>3, <1>4, <1>5, <1>6, <1>7, <1>8 DEF Next, TickStep, AgentEnds

\* What RemoveLabel does: one label less on the ticket, and one less to remove.
LEMMA RemoveLabelEffect ==
  ASSUME TypeOK, Control, RemoveLabel
  PROVE  /\ pc = "relabel" /\ relabel.ticket \in Tickets
         /\ UNCHANGED <<session, snapshot, collected, grounded, budget, review>>
         /\ \A u \in Tickets \ {relabel.ticket} : labels'[u] = labels[u]
         /\ \E l \in relabel.drop :
              /\ labels'[relabel.ticket] = labels[relabel.ticket] \ {l}
              /\ \/ relabel.drop = {l} /\ pc' = relabel.next /\ relabel' = NoRelabel
                 \/ /\ pc' = pc /\ relabel'.ticket = relabel.ticket
                    /\ relabel'.next = relabel.next /\ relabel'.drop = relabel.drop \ {l}
  BY DEF RemoveLabel, TypeOK, Control

\* No step leaves a relabelling undone, or gives a session's ticket a label that
\* its dispatch has not.
LEMMA RelabellingStep ==
  ASSUME TypeOK, Control, Jobbing, Relabelling, [Next]_vars
  PROVE  Relabelling'
<1>0. /\ pc = "relabel" => relabel.ticket \in Tickets
      /\ pc = "agent" => session \in Tickets
      /\ labels \in [Tickets -> SUBSET StateLabel]
  BY DEF TypeOK, Control, Phase
<1>1. ASSUME Quiet PROVE Relabelling'
  BY <1>1 DEF Quiet, counted, Relabelling, RelabelTo
<1>2. ASSUME Poll \/ DispatchBegin \/ Ends PROVE Relabelling'
  BY <1>2 DEF Poll, DispatchBegin, Ends, Relabelling
<1>3. ASSUME RemoveLabel PROVE Relabelling'
  <2>1. PICK state \in StateLabel : RelabelTo(state)
    BY <1>3, RemoveLabelEffect DEF Relabelling
  <2>2. PICK l \in relabel.drop :
          /\ labels'[relabel.ticket] = labels[relabel.ticket] \ {l}
          /\ \/ relabel.drop = {l} /\ pc' = relabel.next /\ relabel' = NoRelabel
             \/ /\ pc' = pc /\ relabel'.ticket = relabel.ticket
                /\ relabel'.next = relabel.next /\ relabel'.drop = relabel.drop \ {l}
    BY <1>3, RemoveLabelEffect
  <2>3. CASE relabel.drop = {l} /\ pc' = relabel.next /\ relabel' = NoRelabel
    <3>1. pc' # "relabel" /\ (pc' = "agent" => session' = relabel.ticket)
      BY <1>3, <2>3, RemoveLabelEffect DEF Control
    <3>2. pc' = "agent" => labels'[relabel.ticket] \subseteq {InProgress}
      BY <2>1, <2>2, <2>3 DEF RelabelTo
    <3>. QED
      BY <3>1, <3>2 DEF Relabelling
  <2>4. CASE /\ pc' = pc /\ relabel'.ticket = relabel.ticket
             /\ relabel'.next = relabel.next /\ relabel'.drop = relabel.drop \ {l}
    <3>1. RelabelTo(state)'
      BY <1>3, <2>1, <2>2, <2>4, RemoveLabelEffect DEF RelabelTo
    <3>. QED
      BY <1>3, <2>4, <3>1, RemoveLabelEffect DEF Relabelling
  <2>. QED
    BY <2>2, <2>3, <2>4
\* A step that starts set_state, for what it asks for.
<1>4. ASSUME NEW t \in Tickets, NEW state \in StateLabel,
             NEW next \in {"bring", "ground", "dispatch", "agent"},
             pc # "relabel", SetState(t, state, next),
             next = "agent" => state = InProgress /\ session' = t,
             next = "bring" => state \in Handed /\ t \in collected',
             next = "ground" => state \in Handed /\ t \in grounded',
             next = "dispatch" =>
               state \in Handed \/ (state = Unattended /\ labels[t] \subseteq {InProgress})
      PROVE  Relabelling'
  <2>1. CASE labels'[t] = {state} /\ pc' = next
    BY <1>4, <2>1 DEF Relabelling
  <2>2. CASE /\ labels'[t] = labels[t] \cup {state} /\ pc' = "relabel"
             /\ relabel' = [ticket |-> t, drop |-> StateLabel \ {state}, next |-> next]
    <3>1. labels'[t] \subseteq (StateLabel \ {state}) \cup {state}
      BY <1>0, <2>2
    <3>2. RelabelTo(state)'
      BY <1>4, <2>2, <3>1 DEF RelabelTo
    <3>. QED
      BY <2>2, <3>2 DEF Relabelling
  <2>. QED
    BY <1>4, <2>1, <2>2, SetStateEffect
<1>5. ASSUME NEW t \in Tickets, NEW state \in Handed, HandedOver(t, state) PROVE Relabelling'
  <2>1. state \in StateLabel
    BY DEF Handed, StateLabel
  <2>. QED
    BY <1>4, <1>5, <2>1 DEF HandedOver
<1>6. ASSUME NEW t \in Tickets, Dispatch(t) PROVE Relabelling'
  BY <1>4, <1>6 DEF Dispatch, StateLabel
<1>7. ASSUME AgentAnswers PROVE Relabelling'
  <2>1. PICK state \in Handed : SetState(session, state, "dispatch")
    BY <1>7 DEF AgentAnswers
  <2>2. state \in StateLabel /\ pc = "agent"
    BY <1>7 DEF AgentAnswers, Handed, StateLabel
  <2>. QED
    BY <1>0, <1>4, <2>1, <2>2
<1>8. ASSUME AgentDetaches PROVE Relabelling'
  <2>1. SetState(session, Unattended, "dispatch") /\ pc = "agent" /\ Unattended \in StateLabel
    BY <1>8 DEF AgentDetaches, StateLabel
  <2>. QED
    BY <1>0, <1>4, <2>1 DEF Relabelling
<1>9. ASSUME NEW t \in Tickets, HumanReturns(t) PROVE Relabelling'
  <2>1. /\ UNCHANGED <<pc, relabel, session, collected, grounded>>
        /\ \A u \in Tickets : labels'[u] = labels[u] \/ labels'[u] = {}
    BY <1>0, <1>9 DEF HumanReturns, locals
  <2>2. pc = "agent" => labels'[session] \subseteq {InProgress}
    BY <1>0, <2>1 DEF Relabelling
  <2>3. ASSUME pc = "relabel", NEW state \in StateLabel, RelabelTo(state)
        PROVE  RelabelTo(state)'
    <3>1. labels'[relabel.ticket] = labels[relabel.ticket] \/ labels'[relabel.ticket] = {}
      BY <1>0, <2>1, <2>3
    <3>. QED
      BY <2>1, <2>3, <3>1 DEF RelabelTo
  <2>. QED
    BY <2>1, <2>2, <2>3 DEF Relabelling
<1>. QED
  BY <1>1, <1>2, <1>3, <1>5, <1>6, <1>7, <1>8, <1>9, Steps

\* What RemoveLabel makes of what is counted: only the relabelled ticket may
\* move, and it moves to where it was being moved.
LEMMA RemoveLabelCounts ==
  ASSUME TypeOK, Control, Relabelling, RemoveLabel
  PROVE  /\ InFlight(labels') \subseteq InFlight(labels) \cup {relabel.ticket}
         /\ Awaiting(labels') \subseteq Awaiting(labels) \cup {relabel.ticket}
         /\ relabel.next \in {"bring", "ground", "dispatch"} =>
              InFlight(labels') \subseteq InFlight(labels)
<1>1. PICK state \in StateLabel : RelabelTo(state)
  BY RemoveLabelEffect DEF Relabelling
<1>2. PICK l \in relabel.drop : labels'[relabel.ticket] = labels[relabel.ticket] \ {l}
  BY RemoveLabelEffect
<1>3. relabel.ticket \in Tickets
      /\ \A u \in Tickets \ {relabel.ticket} : labels'[u] = labels[u]
  BY RemoveLabelEffect
<1>4. ASSUME relabel.next \in {"bring", "ground", "dispatch"}
      PROVE  Flies(labels'[relabel.ticket]) => Flies(labels[relabel.ticket])
  <2>1. l # state
    BY <1>1, <1>2 DEF RelabelTo
  <2>2. CASE state \in Handed
    BY <1>1, <1>2, <2>1, <2>2
    DEF RelabelTo, Flies, Handed, InProgress, InReview, NeedsHuman, Unattended
  <2>3. CASE labels[relabel.ticket] \subseteq {InProgress, Unattended}
    BY <1>2, <2>3 DEF Flies, InProgress, InReview, NeedsHuman, Unattended
  <2>. QED
    BY <1>1, <1>4, <2>2, <2>3 DEF RelabelTo
<1>. QED
  BY <1>3, <1>4, OneTicketMoves

\* A ticket handed to a human is in flight afterwards only if it was before.
LEMMA HandedOverCounts ==
  ASSUME TypeOK, NEW t \in Tickets, NEW state \in Handed, NEW next, SetState(t, state, next)
  PROVE  /\ InFlight(labels') \subseteq InFlight(labels)
         /\ Awaiting(labels') \subseteq Awaiting(labels) \cup {t}
<1>1. state \in StateLabel
  BY DEF Handed, StateLabel
<1>2. \A u \in Tickets \ {t} : labels'[u] = labels[u]
  BY <1>1, SetStateEffect
<1>3. labels'[t] = {state} \/ labels'[t] = labels[t] \cup {state}
  BY <1>1, SetStateEffect
<1>4. Flies(labels'[t]) => Flies(labels[t])
  <2>1. /\ state \in labels'[t] /\ state \in {InReview, NeedsHuman}
        /\ InProgress \in labels'[t] => InProgress \in labels[t]
    BY <1>3 DEF Handed, InProgress, InReview, NeedsHuman
  <2>. QED
    BY <2>1 DEF Flies
<1>. QED
  BY <1>2, <1>4, OneTicketMoves

\* A ticket that a human sends back is neither in flight nor before a human.
LEMMA ReturnedCounts ==
  ASSUME TypeOK, NEW t \in Tickets, HumanReturns(t)
  PROVE  /\ InFlight(labels') \subseteq InFlight(labels)
         /\ Awaiting(labels') \subseteq Awaiting(labels)
<1>1. labels'[t] = {} /\ \A u \in Tickets \ {t} : labels'[u] = labels[u]
  BY DEF HumanReturns, TypeOK
<1>2. ~Flies(labels'[t]) /\ ~Waits(labels'[t])
  BY <1>1 DEF Flies, Waits
<1>. QED
  BY <1>1, <1>2, OneTicketMoves

\* The steps of a tick before its loop.
Early == {"collect", "bring", "sweep", "ground"}

\* No step before the loop puts a ticket in flight, or before a human without
\* the tick having noted it.
LEMMA ForeseenStep ==
  ASSUME TypeOK, Control, Jobbing, Relabelling, Foreseen, [Next]_vars
  PROVE  Foreseen'
<1>0. Phase \in Early =>
        /\ InFlight(labels) \subseteq InFlight(snapshot)
        /\ Awaiting(labels) \subseteq Awaiting(snapshot) \cup collected \cup grounded
  BY DEF Foreseen, Early
<1>. DEFINE Goal == Phase' \in Early =>
        /\ InFlight(labels') \subseteq InFlight(snapshot')
        /\ Awaiting(labels') \subseteq Awaiting(snapshot') \cup collected' \cup grounded'
<1>1. ASSUME Quiet PROVE Goal
  <2>1. Phase' \in Early => Phase \in Early
    BY <1>1 DEF Quiet, counted, Phase, Early
  <2>. QED
    BY <1>0, <1>1, <2>1 DEF Quiet, counted
<1>2. ASSUME Poll PROVE Goal
  BY <1>2 DEF Poll, board
<1>3. ASSUME DispatchBegin \/ Ends PROVE Goal
  BY <1>3 DEF DispatchBegin, Ends, Phase, Early
<1>4. ASSUME RemoveLabel PROVE Goal
  <2>1. PICK state \in StateLabel : RelabelTo(state)
    BY <1>4, RemoveLabelEffect DEF Relabelling
  <2>2. /\ Phase' = relabel.next /\ Phase = relabel.next
        /\ UNCHANGED <<snapshot, collected, grounded>>
    BY <1>4, RemoveLabelEffect DEF Phase, Control
  <2>3. ASSUME Phase' \in Early
        PROVE  relabel.next \in {"bring", "ground"} /\ relabel.ticket \in collected \cup grounded
    BY <1>4, <2>1, <2>2, <2>3, RemoveLabelEffect DEF Control, RelabelTo, Early
  <2>. QED
    BY <1>0, <1>4, <2>2, <2>3, RemoveLabelCounts
<1>5. ASSUME NEW t \in Tickets, NEW state \in Handed, HandedOver(t, state) PROVE Goal
  <2>1. Phase \in Early
    BY <1>5 DEF HandedOver, Phase, Early
  <2>2. /\ InFlight(labels') \subseteq InFlight(labels)
        /\ Awaiting(labels') \subseteq Awaiting(labels) \cup {t}
    BY <1>5, HandedOverCounts DEF HandedOver
  <2>. QED
    BY <1>0, <1>5, <2>1, <2>2 DEF HandedOver
<1>6. ASSUME NEW t \in Tickets, Dispatch(t) PROVE Goal
  BY <1>6 DEF Dispatch, SetState, LinearSetState, GitHubSetState, Phase, Early
<1>7. ASSUME AgentAnswers \/ AgentDetaches PROVE Goal
  BY <1>7 DEF AgentAnswers, AgentDetaches, SetState, LinearSetState, GitHubSetState, Phase, Early
<1>8. ASSUME NEW t \in Tickets, HumanReturns(t) PROVE Goal
  <2>1. UNCHANGED <<pc, relabel, snapshot, collected, grounded>>
    BY <1>8 DEF HumanReturns, locals
  <2>. QED
    BY <1>0, <1>8, <2>1, ReturnedCounts DEF Phase
<1>9. Goal
  BY <1>1, <1>2, <1>3, <1>4, <1>5, <1>6, <1>7, <1>8, Steps
<1>. QED
  BY <1>9 DEF Foreseen, Early

\* A budget that covers what is counted covers any part of it.
LEMMA BudgetCovers ==
  ASSUME NEW S \in SUBSET Tickets, NEW T \in SUBSET Tickets, S \subseteq T,
         NEW left \in Nat, NEW limit \in Nat, Cardinality(T) + left <= limit
  PROVE  Cardinality(S) + left <= limit
  BY TicketCounts

\* A budget of at least one pays for one more ticket.
LEMMA BudgetPays ==
  ASSUME NEW S \in SUBSET Tickets, NEW T \in SUBSET Tickets, NEW t, S \subseteq T \cup {t},
         NEW left \in Nat \ {0}, NEW limit \in Nat, Cardinality(T) + left <= limit
  PROVE  Cardinality(S) + (left - 1) <= limit
<1>1. /\ Cardinality(S) \in Nat /\ Cardinality(T) \in Nat
      /\ Cardinality(S) <= Cardinality(T) + 1
  BY TicketCounts
<1>. QED
  BY <1>1

\* The budgets a loop begins with cover what is in flight and before a human,
\* though both are computed from the list that was read before.
LEMMA FirstBudgets ==
  ASSUME TypeOK, Control, Foreseen, ConcurrencyBounded, DispatchBegin
  PROVE  /\ Cardinality(InFlight(labels)) + budget' <= MaxConcurrent
         /\ review' > 0 => Cardinality(Awaiting(labels)) + review' <= MaxAwaiting
<1>1. /\ budget' = AtLeastZero(MaxConcurrent - Cardinality(InFlight(snapshot)))
      /\ review' = AtLeastZero(MaxAwaiting - Cardinality(Awaiting(snapshot))
                                 - Cardinality(grounded) - Cardinality(collected))
  BY DEF DispatchBegin, SessionBudget, ReviewBudget
<1>2. Phase = "ground"
  BY DEF DispatchBegin, Phase
<1>3. /\ InFlight(labels) \subseteq InFlight(snapshot)
      /\ Awaiting(labels) \subseteq Awaiting(snapshot) \cup collected \cup grounded
  BY <1>2 DEF Foreseen
<1>. DEFINE a == Cardinality(InFlight(labels))
            b == Cardinality(InFlight(snapshot))
<1>4. a \in Nat /\ b \in Nat /\ a <= b /\ a <= MaxConcurrent
  BY <1>3, CountTypes, TicketCounts DEF ConcurrencyBounded
<1>5. a + budget' <= MaxConcurrent
  <2>. HIDE DEF a, b
  <2>1. budget' = AtLeastZero(MaxConcurrent - b)
    BY <1>1 DEF b
  <2>. QED
    BY <1>4, <2>1, LimitAssumption DEF AtLeastZero
<1>. DEFINE c == Cardinality(Awaiting(labels))
            d == Cardinality(Awaiting(snapshot))
            g == Cardinality(grounded)
            h == Cardinality(collected)
<1>6. c \in Nat /\ d \in Nat /\ g \in Nat /\ h \in Nat
  BY CountTypes, TicketCounts
<1>7. c <= d + g + h
  <2>. DEFINE S == Awaiting(snapshot)
  <2>1. IsFiniteSet(S) /\ IsFiniteSet(collected) /\ IsFiniteSet(grounded)
    BY CountTypes, TicketAssumption, FS_Subset
  <2>2. /\ IsFiniteSet(S \cup collected)
        /\ Cardinality(S \cup collected) = d + h - Cardinality(S \cap collected)
        /\ Cardinality(S \cap collected) \in Nat
    BY <2>1, FS_Union, FS_Intersection, FS_CardinalityType
  <2>3. /\ Cardinality((S \cup collected) \cup grounded)
             = Cardinality(S \cup collected) + g - Cardinality((S \cup collected) \cap grounded)
        /\ Cardinality((S \cup collected) \cap grounded) \in Nat
    BY <2>1, <2>2, FS_Union, FS_Intersection, FS_CardinalityType
  <2>4. c <= Cardinality((S \cup collected) \cup grounded)
    BY <1>3, CountTypes, TicketCounts
  <2>. DEFINE m == Cardinality(S \cup collected)
              n == Cardinality((S \cup collected) \cup grounded)
              p == Cardinality(S \cap collected)
              q == Cardinality((S \cup collected) \cap grounded)
  <2>5. /\ m = d + h - p /\ p \in Nat /\ n = m + g - q /\ q \in Nat /\ c <= n
    BY <2>2, <2>3, <2>4
  <2>. HIDE DEF c, d, g, h, m, n, p, q
  <2>. QED
    BY <1>6, <2>5
<1>8. review' > 0 => c + review' <= MaxAwaiting
  <2>. HIDE DEF c, d, g, h
  <2>1. review' = AtLeastZero(MaxAwaiting - d - g - h)
    BY <1>1 DEF d, g, h
  <2>. QED
    BY <1>6, <1>7, <2>1, LimitAssumption DEF AtLeastZero
<1>. QED
  BY <1>5, <1>8

\* No step of the loop takes a place it has no budget for.
LEMMA BudgetedStep ==
  ASSUME TypeOK, TypeOK', Control, Control', Jobbing, Relabelling, Foreseen, Budgeted,
         ConcurrencyBounded, [Next]_vars
  PROVE  Budgeted'
<1>. DEFINE Looping == {"dispatch", "agent"}
            Goal == Phase' \in Looping =>
              /\ Cardinality(Slots') + budget' <= MaxConcurrent
              /\ review' > 0 => Cardinality(Fronts') + review' <= MaxAwaiting
<1>0. Phase \in Looping =>
        /\ Cardinality(Slots) + budget <= MaxConcurrent
        /\ review > 0 => Cardinality(Fronts) + review <= MaxAwaiting
  BY DEF Budgeted
<1>1. /\ Slots \in SUBSET Tickets /\ Slots' \in SUBSET Tickets
      /\ Fronts \in SUBSET Tickets /\ Fronts' \in SUBSET Tickets
      /\ budget \in Nat /\ review \in Nat /\ MaxConcurrent \in Nat /\ MaxAwaiting \in Nat
  <2>1. /\ InFlight(labels') \in SUBSET Tickets /\ Awaiting(labels') \in SUBSET Tickets
        /\ relabel'.ticket \in Tickets \cup {NoTicket} /\ session' \in Tickets \cup {NoTicket}
    BY CountTypes DEF TypeOK
  <2>2. Slots' \in SUBSET Tickets /\ Fronts' \in SUBSET Tickets
    BY <2>1 DEF Slots, Fronts
  <2>. QED
    BY <2>2, CountTypes
\* A step that takes no place and spends nothing.
<1>2. ASSUME Phase' \in Looping => Phase \in Looping,
             UNCHANGED <<budget, review>>, Slots' \subseteq Slots, Fronts' \subseteq Fronts
      PROVE  Goal
  BY <1>0, <1>1, <1>2, BudgetCovers
<1>3. ASSUME Quiet PROVE Goal
  <2>1. Phase' \in Looping => Phase \in Looping
    BY <1>3 DEF Quiet, counted, Phase
  <2>2. Slots' = Slots /\ Fronts' = Fronts
    BY <1>3 DEF Quiet, counted, Slots, Fronts
  <2>. QED
    BY <1>2, <1>3, <2>1, <2>2 DEF Quiet, counted
<1>4. ASSUME Poll \/ Ends PROVE Goal
  BY <1>4 DEF Poll, Ends, Phase
<1>5. ASSUME NEW t \in Tickets, NEW state \in Handed, HandedOver(t, state) PROVE Goal
  BY <1>5 DEF HandedOver, SetState, LinearSetState, GitHubSetState, Phase
<1>6. ASSUME DispatchBegin PROVE Goal
  <2>1. session' = NoTicket /\ relabel'.ticket = NoTicket /\ labels' = labels
    BY <1>6 DEF DispatchBegin, Control, Phase, NoRelabel, board
  <2>2. Slots' = InFlight(labels) /\ Fronts' = Awaiting(labels)
    BY <2>1 DEF Slots, Fronts
  <2>. QED
    BY <1>6, <2>2, FirstBudgets
<1>7. ASSUME NEW t \in Tickets, Dispatch(t) PROVE Goal
  <2>1. /\ Phase \in Looping /\ budget # 0 /\ review # 0
        /\ budget' = budget - 1 /\ review' = review - 1 /\ session' = t
        /\ SetState(t, InProgress, "agent") /\ relabel = NoRelabel
    BY <1>7 DEF Dispatch, Dispatchable, Phase, Control
  <2>2. /\ \A u \in Tickets \ {t} : labels'[u] = labels[u]
        /\ relabel'.ticket \in {t, NoTicket}
    BY <2>1, SetStateEffect DEF StateLabel, NoRelabel
  <2>3. /\ InFlight(labels') \subseteq InFlight(labels) \cup {t}
        /\ Awaiting(labels') \subseteq Awaiting(labels) \cup {t}
    BY <2>2, OneTicketMoves
  <2>4. Slots' \subseteq Slots \cup {t} /\ Fronts' \subseteq Fronts \cup {t}
    BY <2>1, <2>2, <2>3 DEF Slots, Fronts
  <2>5. Cardinality(Slots') + (budget - 1) <= MaxConcurrent
    BY <1>0, <1>1, <2>1, <2>4, BudgetPays
  <2>6. Cardinality(Fronts') + (review - 1) <= MaxAwaiting
    BY <1>0, <1>1, <2>1, <2>4, BudgetPays
  <2>. QED
    BY <2>1, <2>5, <2>6
<1>8. ASSUME RemoveLabel PROVE Goal
  <2>1. /\ Phase' = Phase /\ Phase = relabel.next
        /\ UNCHANGED <<session, budget, review>>
        /\ relabel.ticket \in Tickets /\ relabel'.ticket \in {relabel.ticket, NoTicket}
        /\ relabel.next = "agent" => relabel.ticket = session
    BY <1>8, RemoveLabelEffect DEF Phase, Control, NoRelabel
  <2>2. ASSUME Phase \in Looping
        PROVE  Slots' \subseteq Slots /\ Fronts' \subseteq Fronts
    <3>1. InFlight(labels') \subseteq InFlight(labels)
          \/ (relabel.ticket = session /\ InFlight(labels') \subseteq InFlight(labels) \cup {session})
      BY <1>8, <2>1, <2>2, RemoveLabelCounts
    <3>2. Awaiting(labels') \subseteq Awaiting(labels) \cup {relabel.ticket}
      BY <1>8, RemoveLabelCounts
    <3>3. relabel.ticket # NoTicket
      BY <2>1, TicketAssumption
    <3>. QED
      BY <2>1, <3>1, <3>2, <3>3 DEF Slots, Fronts
  <2>. QED
    BY <1>2, <2>1, <2>2
\* The session's ticket is written and leaves the session: it was counted.
<1>9. ASSUME NEW state \in Handed \cup {Unattended}, pc = "agent", session' = NoTicket,
             SetState(session, state, "dispatch"), UNCHANGED <<budget, review>>
      PROVE  Goal
  <2>1. session \in Tickets /\ session # NoTicket /\ relabel = NoRelabel /\ Phase \in Looping
    BY <1>9, TicketAssumption DEF Control, Phase
  <2>2. /\ \A u \in Tickets \ {session} : labels'[u] = labels[u]
        /\ relabel'.ticket \in {session, NoTicket}
    BY <1>9, <2>1, SetStateEffect DEF Handed, StateLabel, NoRelabel
  <2>3. /\ InFlight(labels') \subseteq InFlight(labels) \cup {session}
        /\ Awaiting(labels') \subseteq Awaiting(labels) \cup {session}
    BY <2>1, <2>2, OneTicketMoves
  <2>4. Slots' \subseteq Slots /\ Fronts' \subseteq Fronts
    BY <1>9, <2>1, <2>2, <2>3 DEF Slots, Fronts
  <2>. QED
    BY <1>2, <1>9, <2>1, <2>4
<1>10. ASSUME AgentAnswers \/ AgentDetaches PROVE Goal
  <2>1. /\ pc = "agent" /\ session' = NoTicket /\ UNCHANGED <<budget, review>>
        /\ \E state \in Handed \cup {Unattended} : SetState(session, state, "dispatch")
    BY <1>10 DEF AgentAnswers, AgentDetaches
  <2>. QED
    BY <1>9, <2>1
<1>11. ASSUME NEW t \in Tickets, HumanReturns(t) PROVE Goal
  <2>1. UNCHANGED <<pc, relabel, session, budget, review>>
    BY <1>11 DEF HumanReturns, locals
  <2>2. Slots' \subseteq Slots /\ Fronts' \subseteq Fronts
    BY <1>11, <2>1, ReturnedCounts DEF Slots, Fronts
  <2>. QED
    BY <1>2, <2>1, <2>2 DEF Phase
<1>12. Goal
  BY <1>3, <1>4, <1>5, <1>6, <1>7, <1>8, <1>10, <1>11, Steps
<1>. QED
  BY <1>12 DEF Budgeted

\* No step exceeds max_concurrent: outside the loop no ticket takes off, and in
\* it every one has its place in the budget.
LEMMA ConcurrencyStep ==
  ASSUME TypeOK, TypeOK', Control, Control', Jobbing, Relabelling, Budgeted',
         ConcurrencyBounded, [Next]_vars
  PROVE  ConcurrencyBounded'
<1>1. ASSUME Phase' \in {"dispatch", "agent"}
      PROVE  Cardinality(InFlight(labels')) <= MaxConcurrent
  <2>1. /\ InFlight(labels') \in SUBSET Tickets /\ Slots' \in SUBSET Tickets
        /\ budget' \in Nat
    <3>1. session' \in Tickets \cup {NoTicket} /\ budget' \in Nat
      BY DEF TypeOK
    <3>. QED
      BY <3>1, CountTypes DEF Slots
  <2>2. InFlight(labels') \subseteq Slots'
    BY DEF Slots
  <2>3. Cardinality(Slots') + budget' <= MaxConcurrent
    BY <1>1 DEF Budgeted
  <2>4. Cardinality(InFlight(labels')) + budget' <= MaxConcurrent
    BY <2>1, <2>2, <2>3, LimitAssumption, BudgetCovers
  <2>. QED
    BY <2>1, <2>4, LimitAssumption, TicketCounts
<1>2. ASSUME Phase' \notin {"dispatch", "agent"}
      PROVE  InFlight(labels') \subseteq InFlight(labels)
  <2>1. ASSUME Quiet \/ Poll \/ DispatchBegin \/ Ends
        PROVE  labels' = labels
    BY <2>1 DEF Quiet, counted, Poll, DispatchBegin, Ends, board
  <2>2. ASSUME RemoveLabel
        PROVE  InFlight(labels') \subseteq InFlight(labels)
    <3>1. relabel.next \in {"bring", "ground"}
      BY <1>2, <2>2, RemoveLabelEffect DEF Phase, Control
    <3>. QED
      BY <2>2, <3>1, RemoveLabelCounts
  <2>3. ASSUME NEW t \in Tickets, NEW state \in Handed, HandedOver(t, state)
        PROVE  InFlight(labels') \subseteq InFlight(labels)
    BY <2>3, HandedOverCounts DEF HandedOver
  <2>4. ASSUME NEW t \in Tickets, Dispatch(t)
        PROVE  FALSE
    BY <1>2, <2>4 DEF Dispatch, SetState, LinearSetState, GitHubSetState, Phase
  <2>5. ASSUME AgentAnswers \/ AgentDetaches
        PROVE  FALSE
    BY <1>2, <2>5 DEF AgentAnswers, AgentDetaches, SetState, LinearSetState, GitHubSetState, Phase
  <2>. QED
    BY <2>1, <2>2, <2>3, <2>4, <2>5, ReturnedCounts, Steps
<1>3. ASSUME InFlight(labels') \subseteq InFlight(labels)
      PROVE  Cardinality(InFlight(labels')) <= MaxConcurrent
  <2>. DEFINE a == Cardinality(InFlight(labels'))
              b == Cardinality(InFlight(labels))
  <2>1. a \in Nat /\ b \in Nat /\ a <= b
    BY <1>3, CountTypes, TicketCounts
  <2>2. b <= MaxConcurrent
    BY DEF ConcurrencyBounded
  <2>. HIDE DEF a, b
  <2>3. a <= MaxConcurrent
    BY <2>1, <2>2, LimitAssumption
  <2>. QED
    BY <2>3 DEF a
<1>4. Cardinality(InFlight(labels')) <= MaxConcurrent
  BY <1>1, <1>2, <1>3
<1>. QED
  BY <1>4 DEF ConcurrencyBounded

-----------------------------------------------------------------------------
(* The theorems.                                                           *)

\* Nothing is in flight in the beginning.
LEMMA InitLimits ==
  ASSUME Init
  PROVE  LimitInv
<1>1. /\ Phase = "idle" /\ pc = "idle"
      /\ \A t \in Tickets : labels[t] = {}
  BY DEF Init, Phase
<1>2. InFlight(labels) = {}
  BY <1>1, Counted DEF Flies
<1>3. Cardinality(InFlight(labels)) = 0
  BY <1>2, FS_EmptySet
<1>4. ConcurrencyBounded
  BY <1>3, LimitAssumption DEF ConcurrencyBounded
<1>. QED
  BY <1>1, <1>4 DEF LimitInv, Relabelling, Foreseen, Budgeted

\* The limits hold with what a tick keeps of them, in every state.
THEOREM Limits == Spec => []LimitInv
<1>1. Init => LimitInv
  BY InitLimits
<1>2. IInv /\ IInv' /\ LimitInv /\ [Next]_vars => LimitInv'
  <2>. SUFFICES ASSUME IInv, IInv', LimitInv, [Next]_vars
                PROVE  LimitInv'
    OBVIOUS
  <2>1. TypeOK /\ Control /\ Jobbing /\ TypeOK' /\ Control'
    BY DEF IInv
  <2>2. Relabelling /\ Foreseen /\ Budgeted /\ ConcurrencyBounded
    BY DEF LimitInv
  <2>3. Relabelling'
    BY <2>1, <2>2, RelabellingStep
  <2>4. Foreseen'
    BY <2>1, <2>2, ForeseenStep
  <2>5. Budgeted'
    BY <2>1, <2>2, BudgetedStep
  <2>6. ConcurrencyBounded'
    BY <2>1, <2>2, <2>5, ConcurrencyStep
  <2>. QED
    BY <2>3, <2>4, <2>5, <2>6 DEF LimitInv
<1>. QED
  BY <1>1, <1>2, Bookkeeping, PTL DEF Spec

\* max_concurrent: sessions and unattended jobs together never exceed it, on
\* either tracker, with jobs collected and labels half written since they were
\* counted, and with ticks that die at any point.
THEOREM ConcurrencyCorrect == Spec => []ConcurrencyBounded
<1>1. LimitInv => ConcurrencyBounded
  BY DEF LimitInv
<1>. QED
  BY <1>1, Limits, PTL

\* A session starts only while fewer than max_awaiting_human tickets lie in front
\* of a human, counting what the tick itself has put there.
THEOREM StallCorrect == Spec => DispatchStallsOnReview
<1>1. IInv /\ LimitInv /\ [Next]_vars =>
        [(\E t \in Tickets : Claims(t)) => Cardinality(Awaiting(labels)) < MaxAwaiting]_vars
  <2>. SUFFICES ASSUME IInv, LimitInv, Next, NEW t \in Tickets, Claims(t)
                PROVE  Cardinality(Awaiting(labels)) < MaxAwaiting
    OBVIOUS
  <2>1. Dispatch(t)
    BY OnlyDispatchClaims
  <2>2. pc = "dispatch" /\ review # 0 /\ review \in Nat /\ TypeOK
    BY <2>1 DEF Dispatch, Dispatchable, IInv, TypeOK
  <2>3. Cardinality(Fronts) + review <= MaxAwaiting
    BY <2>2 DEF LimitInv, Budgeted, Phase
  <2>4. Awaiting(labels) \subseteq Fronts
    BY DEF Fronts
  <2>5. Cardinality(Awaiting(labels)) + review <= MaxAwaiting
    BY <2>2, <2>3, <2>4, CountTypes, BudgetCovers
  <2>6. Cardinality(Awaiting(labels)) \in Nat /\ MaxAwaiting \in Nat
    BY <2>2, CountTypes, TicketCounts
  <2>. QED
    BY <2>2, <2>5, <2>6
<1>. QED
  BY <1>1, Bookkeeping, Limits, PTL DEF Spec, DispatchStallsOnReview

=============================================================================
