---------------------------- MODULE RunnerProofs ----------------------------
(***************************************************************************)
(* Proofs about the outer loop, for any set of tickets and jobs, either    *)
(* tracker and any limits.                                                 *)
(***************************************************************************)
EXTENDS Runner, FiniteSetTheorems, TLAPS

\* The step of the tick that is being executed, or that a relabelling under
\* way returns to.
Phase == IF pc = "relabel" THEN relabel.next ELSE pc

-----------------------------------------------------------------------------
(* The inductive invariant.                                                *)

\* A session runs from its dispatch to its answer, and a relabelling belongs
\* to the step it returns to.
Control ==
  /\ pc = "relabel" =>
       /\ relabel.ticket \in Tickets
       /\ relabel.next \in {"bring", "ground", "dispatch", "agent"}
       /\ relabel.next = "agent" => relabel.ticket = session
  /\ pc # "relabel" => relabel = NoRelabel
  /\ IF Phase = "agent" THEN session \in Tickets ELSE session = NoTicket

\* What collect_finished and sweep poll is open, what they report is closed,
\* and every job that was ever submitted belongs to a ticket.
Jobbing ==
  /\ \A j \in Jobs : ledger[j] # "none" => owner[j] \in Tickets
  /\ \A j \in todo : ledger[j] = "open"
  /\ \A j \in hand : ledger[j] \in {"resolved", "lost"}
  /\ hand # {} => Phase \in {"collect", "bring", "sweep", "ground"}

\* Who looks after a ticket in flight, label by label: a GitHub ticket may
\* carry a state label that is about to be removed.
AttendedTicket(t) ==
  /\ InProgress \in labels[t] =>
       \/ t = session \/ t \in stranded
       \/ t = relabel.ticket /\ InProgress \in relabel.drop
  /\ Unattended \in labels[t] =>
       \/ Unanswered(t) \/ t \in stranded \cup adrift
       \/ /\ t = relabel.ticket /\ Unattended \in relabel.drop
          /\ (labels[t] \cap {InProgress, InReview, NeedsHuman}) \ relabel.drop # {}

Attended == \A t \in Tickets : AttendedTicket(t)

\* A GitHub ticket before a human carries a label that nothing removes, and the
\* tick that has begun since knows of it.
HumansTicket(t) ==
  /\ labels[t] # {}
  /\ t = relabel.ticket => labels[t] \ relabel.drop # {}
  /\ \/ pc = "idle"
     \/ snapshot[t] # {}
     \/ t \in collected \cup grounded
     \/ Phase \in {"dispatch", "agent"} /\ t \notin queue
  /\ t # session

HumansTurn == tracker = "github" => \A t \in waiting : HumansTicket(t)

\* The loop goes on behind the ticket it has dispatched.
SessionLeftQueue == session \notin queue

IInv ==
  /\ TypeOK /\ Control /\ Jobbing /\ Attended /\ HumansTurn /\ SessionLeftQueue

-----------------------------------------------------------------------------
(* Facts about the two ways of writing a state and about cardinalities.    *)

\* set_state keeps types, whichever adapter writes.
LEMMA SetStateType ==
  ASSUME TypeOK, NEW t \in Tickets, NEW state \in StateLabel, NEW next \in PC,
         SetState(t, state, next)
  PROVE  /\ labels' \in [Tickets -> SUBSET StateLabel]
         /\ pc' \in PC
         /\ relabel' \in [ticket : Tickets \cup {NoTicket},
                          drop : SUBSET StateLabel, next : PC]
  BY DEF TypeOK, SetState, LinearSetState, GitHubSetState, PC

\* What a step that starts set_state does to the labels: the other tickets keep
\* theirs, and the ticket has the new one and at most labels about to go.
Relabelled(t, state) ==
  /\ \A u \in Tickets \ {t} : labels'[u] = labels[u] /\ u # relabel'.ticket
  /\ state \in labels'[t] /\ state \notin relabel'.drop
  /\ \A l \in labels'[t] \ {state} : relabel'.ticket = t /\ l \in relabel'.drop

\* set_state does that, whichever adapter writes.
LEMMA SetStateLabels ==
  ASSUME TypeOK, relabel = NoRelabel, NEW t \in Tickets, NEW state \in StateLabel,
         NEW next, SetState(t, state, next)
  PROVE  Relabelled(t, state)
  BY TicketAssumption DEF TypeOK, SetState, LinearSetState, GitHubSetState, NoRelabel, Relabelled

\* The end of a tick leaves the local variables in their types.
LEMMA ForgetType ==
  ASSUME Forget
  PROVE  /\ pc' \in PC
         /\ snapshot' \in [Tickets -> SUBSET StateLabel]
         /\ todo' \in SUBSET Jobs /\ hand' \in SUBSET Jobs
         /\ collected' \in SUBSET Tickets /\ grounded' \in SUBSET Tickets
         /\ halted' \in BOOLEAN /\ queue' \in SUBSET Tickets
         /\ budget' \in 0 .. MaxConcurrent /\ review' \in 0 .. MaxAwaiting
         /\ session' \in Tickets \cup {NoTicket}
         /\ relabel' \in [ticket : Tickets \cup {NoTicket},
                          drop : SUBSET StateLabel, next : PC]
<1>1. snapshot' \in [Tickets -> SUBSET StateLabel]
  BY DEF Forget
<1>2. relabel' \in [ticket : Tickets \cup {NoTicket}, drop : SUBSET StateLabel,
                    next : PC]
  <2>1. {} \in SUBSET StateLabel /\ "idle" \in PC
    BY DEF PC
  <2>2. relabel' = [ticket |-> NoTicket, drop |-> {}, next |-> "idle"]
    BY DEF Forget, NoRelabel
  <2>. QED
    BY <2>1, <2>2
<1>3. budget' \in 0 .. MaxConcurrent /\ review' \in 0 .. MaxAwaiting
  BY LimitAssumption DEF Forget
<1>. QED
  BY <1>1, <1>2, <1>3 DEF Forget, PC

\* Tickets in given states can be counted.
LEMMA InCardinality ==
  ASSUME NEW states, NEW board_ PROVE Cardinality(In(states, board_)) \in Nat
<1>1. In(states, board_) \in SUBSET Tickets
  BY DEF In
<1>. QED
  BY <1>1, TicketAssumption, FS_Subset, FS_CardinalityType

\* The budgets of a tick lie between zero and the limits.
LEMMA BudgetType ==
  ASSUME TypeOK, NEW board_
  PROVE  SessionBudget(board_) \in 0 .. MaxConcurrent
         /\ ReviewBudget(board_) \in 0 .. MaxAwaiting
<1>1. /\ Cardinality(InFlight(board_)) \in Nat
      /\ Cardinality(Awaiting(board_)) \in Nat
  BY InCardinality DEF InFlight, Awaiting
<1>2. Cardinality(grounded) \in Nat /\ Cardinality(collected) \in Nat
  BY TicketAssumption, FS_Subset, FS_CardinalityType DEF TypeOK
<1>. QED
  BY <1>1, <1>2, LimitAssumption DEF SessionBudget, ReviewBudget, AtLeastZero

-----------------------------------------------------------------------------
(* The steps.                                                              *)

\* Every step keeps the types.
LEMMA TypeStep ==
  TypeOK /\ Control /\ Jobbing /\ [Next]_vars => TypeOK'
<1>. SUFFICES ASSUME TypeOK, Control, Jobbing, [Next]_vars
              PROVE  TypeOK'
  OBVIOUS
<1>. USE TicketAssumption, LimitAssumption DEF TypeOK, board, registry,
  locals, history, PC
<1>1. ASSUME Poll PROVE TypeOK'
  BY <1>1 DEF Poll, Open
<1>2. ASSUME CollectJob PROVE TypeOK'
  BY <1>2 DEF CollectJob
<1>3. ASSUME CollectSkip PROVE TypeOK'
  BY <1>3 DEF CollectSkip
<1>4. ASSUME CollectDone PROVE TypeOK'
  BY <1>4 DEF CollectDone
<1>5. ASSUME Bring PROVE TypeOK'
  <2>1. PICK j \in hand, state \in Handed :
           /\ SetState(owner[j], state, "bring")
           /\ hand' = hand \ {j}
           /\ collected' = collected \cup {owner[j]}
           /\ waiting' = waiting \cup {owner[j]}
    BY <1>5 DEF Bring
  <2>2. owner[j] \in Tickets
    BY DEF Jobbing
  <2>3. state \in StateLabel /\ "bring" \in PC
    BY DEF Handed, StateLabel
  <2>. QED
    BY <1>5, <2>1, <2>2, <2>3, SetStateType DEF Bring
<1>6. ASSUME SweepBegin PROVE TypeOK'
  BY <1>6 DEF SweepBegin, Open
<1>7. ASSUME SweepJob PROVE TypeOK'
  <2>1. PICK j \in todo :
           /\ todo' = todo \ {j}
           /\ IF work[j] = "done"
              THEN /\ ledger' = [ledger EXCEPT ![j] = "resolved"]
                   /\ overdue' = overdue \ {j}
                   /\ stranded' = stranded \cup {owner[j]}
                   /\ breaker' = breaker /\ hand' = hand
              ELSE /\ ledger' = [ledger EXCEPT ![j] = "lost"]
                   /\ overdue' = overdue \ {j}
                   /\ breaker' = TRUE
                   /\ hand' = hand \cup {j}
                   /\ stranded' = stranded
    BY <1>7 DEF SweepJob
  <2>2. owner[j] \in Tickets
    BY DEF Jobbing
  <2>3. ledger' \in [Jobs -> {"none", "open", "resolved", "lost"}]
    BY <2>1
  <2>4. /\ hand' = hand \/ hand' = hand \cup {j}
        /\ stranded' = stranded \/ stranded' = stranded \cup {owner[j]}
        /\ todo' = todo \ {j} /\ overdue' = overdue \ {j}
    BY <2>1, Zenon
  <2>5. breaker' \in BOOLEAN
    BY <2>1, Zenon
  <2>. QED
    BY <1>7, <2>2, <2>3, <2>4, <2>5 DEF SweepJob
<1>8. ASSUME SweepDone PROVE TypeOK'
  BY <1>8 DEF SweepDone
<1>9. ASSUME Ground PROVE TypeOK'
  <2>1. PICK j \in hand :
           /\ SetState(owner[j], NeedsHuman, "ground")
           /\ hand' = hand \ {j}
           /\ grounded' = grounded \cup {owner[j]}
           /\ waiting' = waiting \cup {owner[j]}
    BY <1>9 DEF Ground
  <2>2. owner[j] \in Tickets
    BY DEF Jobbing
  <2>3. NeedsHuman \in StateLabel /\ "ground" \in PC
    BY DEF StateLabel
  <2>. QED
    BY <1>9, <2>1, <2>2, <2>3, SetStateType DEF Ground
<1>10. ASSUME DispatchBegin PROVE TypeOK'
  BY <1>10, BudgetType DEF DispatchBegin
<1>11. ASSUME NEW t \in Tickets, Dispatch(t) PROVE TypeOK'
  <2>1. InProgress \in StateLabel /\ "agent" \in PC
    BY DEF StateLabel
  <2>2. budget' \in 0 .. MaxConcurrent /\ review' \in 0 .. MaxAwaiting
    BY <1>11 DEF Dispatch, Dispatchable
  <2>3. SetState(t, InProgress, "agent")
    BY <1>11 DEF Dispatch
  <2>. QED
    BY <1>11, <2>1, <2>2, <2>3, SetStateType DEF Dispatch
<1>12. ASSUME TickDone PROVE TypeOK'
  <2>. QED
    BY <1>12, ForgetType DEF TickDone
<1>13. ASSUME RemoveLabel PROVE TypeOK'
  <2>1. PICK l \in relabel.drop :
           /\ labels' = [labels EXCEPT ![relabel.ticket] = @ \ {l}]
           /\ IF relabel.drop = {l}
              THEN pc' = relabel.next /\ relabel' = NoRelabel
              ELSE relabel' = [relabel EXCEPT !.drop = @ \ {l}] /\ UNCHANGED pc
    BY <1>13 DEF RemoveLabel
  <2>2. labels' \in [Tickets -> SUBSET StateLabel]
    BY <2>1
  <2>3. CASE relabel.drop = {l}
    BY <1>13, <2>1, <2>2, <2>3 DEF RemoveLabel, NoRelabel
  <2>4. CASE relabel.drop # {l}
    BY <1>13, <2>1, <2>2, <2>4 DEF RemoveLabel
  <2>. QED
    BY <2>3, <2>4
<1>14. ASSUME AgentSubmits PROVE TypeOK'
  BY <1>14 DEF AgentSubmits
<1>15. ASSUME AgentAnswers PROVE TypeOK'
  <2>1. PICK state \in Handed : SetState(session, state, "dispatch")
    BY <1>15 DEF AgentAnswers
  <2>2. session \in Tickets /\ state \in StateLabel /\ "dispatch" \in PC
    BY <1>15 DEF AgentAnswers, Control, Phase, Handed, StateLabel
  <2>3. waiting' \in SUBSET Tickets
    BY <1>15, <2>2 DEF AgentAnswers
  <2>. QED
    BY <1>15, <2>1, <2>2, <2>3, SetStateType DEF AgentAnswers
<1>16. ASSUME AgentDetaches PROVE TypeOK'
  <2>1. session \in Tickets /\ Unattended \in StateLabel /\ "dispatch" \in PC
    BY <1>16 DEF AgentDetaches, Control, Phase, StateLabel
  <2>. QED
    BY <1>16, <2>1, SetStateType DEF AgentDetaches
<1>17. ASSUME Abort PROVE TypeOK'
  <2>1. InHand \ {NoTicket} \in SUBSET Tickets
    BY DEF InHand
  <2>2. stranded' \in SUBSET Tickets
    BY <1>17, <2>1 DEF Abort
  <2>3. faults' \in 0 .. MaxFaults
    BY <1>17 DEF Abort
  <2>. QED
    BY <1>17, <2>2, <2>3, ForgetType DEF Abort
<1>18. ASSUME NEW t \in Tickets, HumanReturns(t) PROVE TypeOK'
  BY <1>18 DEF HumanReturns
<1>19. ASSUME MoveBreaker PROVE TypeOK'
  BY <1>19 DEF MoveBreaker
<1>20. ASSUME NEW j \in Jobs, JobEnds(j) PROVE TypeOK'
  BY <1>20 DEF JobEnds
<1>21. ASSUME NEW j \in Jobs, DeadlinePasses(j) PROVE TypeOK'
  BY <1>21 DEF DeadlinePasses
<1>23. ASSUME SweepRaises PROVE TypeOK'
  <2>1. InHand \ {NoTicket} \in SUBSET Tickets
    BY DEF InHand
  <2>2. stranded' \in SUBSET Tickets
    BY <1>23, <2>1 DEF SweepRaises
  <2>. QED
    BY <1>23, <2>2, ForgetType DEF SweepRaises
<1>22. CASE UNCHANGED vars
  BY <1>22 DEF vars
<1>. QED
  BY <1>1, <1>2, <1>3, <1>4, <1>5, <1>6, <1>7, <1>8, <1>9, <1>10, <1>11, <1>12,
    <1>13, <1>14, <1>15, <1>16, <1>17, <1>18, <1>19, <1>20, <1>21, <1>22, <1>23
  DEF Next, TickStep, AgentEnds

\* A session and a relabelling keep to their place in the tick.
LEMMA ControlStep ==
  TypeOK /\ Control /\ Jobbing /\ [Next]_vars => Control'
<1>. SUFFICES ASSUME TypeOK, Control, Jobbing, [Next]_vars
              PROVE  Control'
  OBVIOUS
<1>. USE TicketAssumption DEF TypeOK, board, registry, locals, history, PC,
  Control, Phase, NoRelabel, Jobbing
<1>1. ASSUME Poll PROVE Control'
  BY <1>1 DEF Poll, Open
<1>2. ASSUME CollectJob PROVE Control'
  BY <1>2 DEF CollectJob
<1>3. ASSUME CollectSkip PROVE Control'
  BY <1>3 DEF CollectSkip
<1>4. ASSUME CollectDone PROVE Control'
  BY <1>4 DEF CollectDone
<1>5. ASSUME Bring PROVE Control'
  BY <1>5 DEF Bring, SetState, LinearSetState, GitHubSetState, Handed
<1>6. ASSUME SweepBegin PROVE Control'
  BY <1>6 DEF SweepBegin, Open
<1>7. ASSUME SweepJob PROVE Control'
  BY <1>7 DEF SweepJob
<1>8. ASSUME SweepDone PROVE Control'
  BY <1>8 DEF SweepDone
<1>9. ASSUME Ground PROVE Control'
  BY <1>9 DEF Ground, SetState, LinearSetState, GitHubSetState, Handed
<1>10. ASSUME DispatchBegin PROVE Control'
  BY <1>10 DEF DispatchBegin
<1>11. ASSUME NEW t \in Tickets, Dispatch(t) PROVE Control'
  BY <1>11 DEF Dispatch, SetState, LinearSetState, GitHubSetState, Handed, Dispatchable
<1>12. ASSUME TickDone PROVE Control'
  BY <1>12 DEF TickDone, Forget
<1>13. ASSUME RemoveLabel PROVE Control'
  BY <1>13 DEF RemoveLabel
<1>14. ASSUME AgentSubmits PROVE Control'
  BY <1>14 DEF AgentSubmits
<1>15. ASSUME AgentAnswers PROVE Control'
  BY <1>15 DEF AgentAnswers, SetState, LinearSetState, GitHubSetState, Handed
<1>16. ASSUME AgentDetaches PROVE Control'
  BY <1>16 DEF AgentDetaches, SetState, LinearSetState, GitHubSetState, Handed
<1>17. ASSUME Abort PROVE Control'
  BY <1>17 DEF Abort, Forget
<1>18. ASSUME NEW t \in Tickets, HumanReturns(t) PROVE Control'
  BY <1>18 DEF HumanReturns
<1>19. ASSUME MoveBreaker PROVE Control'
  BY <1>19 DEF MoveBreaker
<1>20. ASSUME NEW j \in Jobs, JobEnds(j) PROVE Control'
  BY <1>20 DEF JobEnds
<1>21. ASSUME NEW j \in Jobs, DeadlinePasses(j) PROVE Control'
  BY <1>21 DEF DeadlinePasses
<1>23. ASSUME SweepRaises PROVE Control'
  BY <1>23 DEF SweepRaises, Forget
<1>22. CASE UNCHANGED vars
  BY <1>22 DEF vars
<1>. QED
  BY <1>1, <1>2, <1>3, <1>4, <1>5, <1>6, <1>7, <1>8, <1>9, <1>10, <1>11, <1>12,
    <1>13, <1>14, <1>15, <1>16, <1>17, <1>18, <1>19, <1>20, <1>21, <1>22, <1>23
  DEF Next, TickStep, AgentEnds

\* What is polled stays open until it is reported, and what is reported is closed.
LEMMA JobbingStep ==
  TypeOK /\ Control /\ Jobbing /\ [Next]_vars => Jobbing'
<1>. SUFFICES ASSUME TypeOK, Control, Jobbing, [Next]_vars
              PROVE  Jobbing'
  OBVIOUS
<1>. USE TicketAssumption DEF TypeOK, board, registry, locals, history, PC,
  Control, Phase, NoRelabel, Jobbing
<1>1. ASSUME Poll PROVE Jobbing'
  BY <1>1 DEF Poll, Open
<1>2. ASSUME CollectJob PROVE Jobbing'
  BY <1>2 DEF CollectJob
<1>3. ASSUME CollectSkip PROVE Jobbing'
  BY <1>3 DEF CollectSkip
<1>4. ASSUME CollectDone PROVE Jobbing'
  BY <1>4 DEF CollectDone
<1>5. ASSUME Bring PROVE Jobbing'
  BY <1>5 DEF Bring, SetState, LinearSetState, GitHubSetState, Handed
<1>6. ASSUME SweepBegin PROVE Jobbing'
  BY <1>6 DEF SweepBegin, Open
<1>7. ASSUME SweepJob PROVE Jobbing'
  BY <1>7 DEF SweepJob
<1>8. ASSUME SweepDone PROVE Jobbing'
  BY <1>8 DEF SweepDone
<1>9. ASSUME Ground PROVE Jobbing'
  BY <1>9 DEF Ground, SetState, LinearSetState, GitHubSetState, Handed
<1>10. ASSUME DispatchBegin PROVE Jobbing'
  BY <1>10 DEF DispatchBegin
<1>11. ASSUME NEW t \in Tickets, Dispatch(t) PROVE Jobbing'
  BY <1>11 DEF Dispatch, SetState, LinearSetState, GitHubSetState, Handed, Dispatchable
<1>12. ASSUME TickDone PROVE Jobbing'
  BY <1>12 DEF TickDone, Forget
<1>13. ASSUME RemoveLabel PROVE Jobbing'
  BY <1>13 DEF RemoveLabel
<1>14. ASSUME AgentSubmits PROVE Jobbing'
  BY <1>14 DEF AgentSubmits
<1>15. ASSUME AgentAnswers PROVE Jobbing'
  BY <1>15 DEF AgentAnswers, SetState, LinearSetState, GitHubSetState, Handed
<1>16. ASSUME AgentDetaches PROVE Jobbing'
  BY <1>16 DEF AgentDetaches, SetState, LinearSetState, GitHubSetState, Handed
<1>17. ASSUME Abort PROVE Jobbing'
  BY <1>17 DEF Abort, Forget
<1>18. ASSUME NEW t \in Tickets, HumanReturns(t) PROVE Jobbing'
  BY <1>18 DEF HumanReturns
<1>19. ASSUME MoveBreaker PROVE Jobbing'
  BY <1>19 DEF MoveBreaker
<1>20. ASSUME NEW j \in Jobs, JobEnds(j) PROVE Jobbing'
  BY <1>20 DEF JobEnds
<1>21. ASSUME NEW j \in Jobs, DeadlinePasses(j) PROVE Jobbing'
  BY <1>21 DEF DeadlinePasses
<1>23. ASSUME SweepRaises PROVE Jobbing'
  BY <1>23 DEF SweepRaises, Forget
<1>22. CASE UNCHANGED vars
  BY <1>22 DEF vars
<1>. QED
  BY <1>1, <1>2, <1>3, <1>4, <1>5, <1>6, <1>7, <1>8, <1>9, <1>10, <1>11, <1>12,
    <1>13, <1>14, <1>15, <1>16, <1>17, <1>18, <1>19, <1>20, <1>21, <1>22, <1>23
  DEF Next, TickStep, AgentEnds

\* A dispatched ticket is not met again by the loop that dispatched it.
LEMMA QueueStep ==
  TypeOK /\ Control /\ SessionLeftQueue /\ [Next]_vars => SessionLeftQueue'
<1>. SUFFICES ASSUME TypeOK, Control, SessionLeftQueue, [Next]_vars
              PROVE  SessionLeftQueue'
  OBVIOUS
<1>. USE TicketAssumption DEF TypeOK, board, registry, locals, history, PC,
  Control, Phase, NoRelabel, SessionLeftQueue
<1>1. ASSUME Poll PROVE SessionLeftQueue'
  BY <1>1 DEF Poll, Open
<1>2. ASSUME CollectJob PROVE SessionLeftQueue'
  BY <1>2 DEF CollectJob
<1>3. ASSUME CollectSkip PROVE SessionLeftQueue'
  BY <1>3 DEF CollectSkip
<1>4. ASSUME CollectDone PROVE SessionLeftQueue'
  BY <1>4 DEF CollectDone
<1>5. ASSUME Bring PROVE SessionLeftQueue'
  BY <1>5 DEF Bring, SetState, LinearSetState, GitHubSetState, Handed
<1>6. ASSUME SweepBegin PROVE SessionLeftQueue'
  BY <1>6 DEF SweepBegin, Open
<1>7. ASSUME SweepJob PROVE SessionLeftQueue'
  BY <1>7 DEF SweepJob
<1>8. ASSUME SweepDone PROVE SessionLeftQueue'
  BY <1>8 DEF SweepDone
<1>9. ASSUME Ground PROVE SessionLeftQueue'
  BY <1>9 DEF Ground, SetState, LinearSetState, GitHubSetState, Handed
<1>10. ASSUME DispatchBegin PROVE SessionLeftQueue'
  BY <1>10 DEF DispatchBegin
<1>11. ASSUME NEW t \in Tickets, Dispatch(t) PROVE SessionLeftQueue'
  <2>1. session' = t /\ queue' = {u \in queue : u > t} /\ t \in Nat
    BY <1>11 DEF Dispatch
  <2>2. ~(t > t)
    BY <2>1
  <2>. QED
    BY <2>1, <2>2
<1>12. ASSUME TickDone PROVE SessionLeftQueue'
  BY <1>12 DEF TickDone, Forget
<1>13. ASSUME RemoveLabel PROVE SessionLeftQueue'
  BY <1>13 DEF RemoveLabel
<1>14. ASSUME AgentSubmits PROVE SessionLeftQueue'
  BY <1>14 DEF AgentSubmits
<1>15. ASSUME AgentAnswers PROVE SessionLeftQueue'
  BY <1>15 DEF AgentAnswers, SetState, LinearSetState, GitHubSetState, Handed
<1>16. ASSUME AgentDetaches PROVE SessionLeftQueue'
  BY <1>16 DEF AgentDetaches, SetState, LinearSetState, GitHubSetState, Handed
<1>17. ASSUME Abort PROVE SessionLeftQueue'
  BY <1>17 DEF Abort, Forget
<1>18. ASSUME NEW t \in Tickets, HumanReturns(t) PROVE SessionLeftQueue'
  BY <1>18 DEF HumanReturns
<1>19. ASSUME MoveBreaker PROVE SessionLeftQueue'
  BY <1>19 DEF MoveBreaker
<1>20. ASSUME NEW j \in Jobs, JobEnds(j) PROVE SessionLeftQueue'
  BY <1>20 DEF JobEnds
<1>21. ASSUME NEW j \in Jobs, DeadlinePasses(j) PROVE SessionLeftQueue'
  BY <1>21 DEF DeadlinePasses
<1>23. ASSUME SweepRaises PROVE SessionLeftQueue'
  BY <1>23 DEF SweepRaises, Forget
<1>22. CASE UNCHANGED vars
  BY <1>22 DEF vars
<1>. QED
  BY <1>1, <1>2, <1>3, <1>4, <1>5, <1>6, <1>7, <1>8, <1>9, <1>10, <1>11, <1>12,
    <1>13, <1>14, <1>15, <1>16, <1>17, <1>18, <1>19, <1>20, <1>21, <1>22, <1>23
  DEF Next, TickStep, AgentEnds

\* What only a dead tick knew is stranded, whatever killed it.
LEMMA DeadTickStrands ==
  ASSUME Attended, stranded' = stranded \cup (InHand \ {NoTicket}),
         UNCHANGED <<labels, ledger, owner, adrift>>
  PROVE  Attended'
<1>. USE TicketAssumption DEF AttendedTicket, Unanswered, Open
<1>. SUFFICES ASSUME NEW u \in Tickets PROVE AttendedTicket(u)'
  BY DEF Attended
<1>1. u = session \/ u = relabel.ticket => u \in stranded'
  BY DEF InHand
<1>2. Unanswered(u) => Unanswered(u)' \/ u \in stranded'
  <2>1. ASSUME NEW j \in hand, owner[j] = u PROVE u \in stranded'
    BY <2>1 DEF InHand
  <2>. QED
    BY <2>1
<1>. QED
  BY <1>1, <1>2 DEF Attended

\* No step leaves a ticket in flight without someone who will move it.
LEMMA AttendedStep ==
  TypeOK /\ Control /\ Jobbing /\ Attended /\ [Next]_vars => Attended'
<1>. SUFFICES ASSUME TypeOK, Control, Jobbing, Attended, [Next]_vars
              PROVE  Attended'
  OBVIOUS
<1>. USE TicketAssumption DEF TypeOK, board, registry, locals, history, PC,
  Control, Phase,
  NoRelabel, Jobbing, Attended, AttendedTicket, Unanswered, Open
<1>1. ASSUME Poll PROVE Attended'
  BY <1>1 DEF Poll, Open
<1>2. ASSUME CollectJob PROVE Attended'
  <2>1. UNCHANGED <<labels, owner, session, relabel, stranded, adrift>>
    BY <1>2 DEF CollectJob
  <2>. SUFFICES ASSUME NEW u \in Tickets PROVE AttendedTicket(u)'
    BY DEF Attended
  <2>2. Unanswered(u) => Unanswered(u)'
    BY <1>2 DEF CollectJob, Jobbing
  <2>. QED
    BY <2>1, <2>2 DEF Attended
<1>3. ASSUME CollectSkip PROVE Attended'
  BY <1>3 DEF CollectSkip
<1>4. ASSUME CollectDone PROVE Attended'
  BY <1>4 DEF CollectDone
<1>5. ASSUME Bring PROVE Attended'
  <2>1. PICK j \in hand, state \in Handed :
           /\ SetState(owner[j], state, "bring")
           /\ hand' = hand \ {j}
    BY <1>5 DEF Bring
  <2>2. /\ owner[j] \in Tickets /\ state \in StateLabel
        /\ relabel = NoRelabel
        /\ UNCHANGED <<ledger, owner, session, stranded, adrift>>
    BY <1>5 DEF Bring, Jobbing, Control, Handed, StateLabel
  <2>. SUFFICES ASSUME NEW u \in Tickets PROVE AttendedTicket(u)'
    BY DEF Attended
  <2>3. Relabelled(owner[j], state)
    BY <2>1, <2>2, SetStateLabels
  <2>4. CASE u = owner[j]
    <3>1. state \in {InReview, NeedsHuman} /\ state \notin {InProgress, Unattended}
      BY DEF Handed, InProgress, InReview, NeedsHuman, Unattended
    <3>. QED
      BY <2>3, <2>4, <3>1 DEF Relabelled
  <2>5. CASE u # owner[j]
    <3>1. labels'[u] = labels[u]
      BY <2>3, <2>5 DEF Relabelled
    <3>2. Unanswered(u) => Unanswered(u)'
      BY <2>1, <2>2, <2>5
    <3>. QED
      BY <2>2, <3>1, <3>2
  <2>. QED
    BY <2>4, <2>5
<1>6. ASSUME SweepBegin PROVE Attended'
  BY <1>6 DEF SweepBegin, Open
<1>7. ASSUME SweepJob PROVE Attended'
  <2>1. UNCHANGED <<labels, owner, session, relabel, adrift>>
    BY <1>7 DEF SweepJob
  <2>2. PICK j \in todo :
           IF work[j] = "done"
           THEN /\ ledger' = [ledger EXCEPT ![j] = "resolved"]
                /\ stranded' = stranded \cup {owner[j]}
                /\ hand' = hand
           ELSE /\ ledger' = [ledger EXCEPT ![j] = "lost"]
                /\ hand' = hand \cup {j}
                /\ stranded' = stranded
    BY <1>7 DEF SweepJob
  <2>. SUFFICES ASSUME NEW u \in Tickets PROVE AttendedTicket(u)'
    BY DEF Attended
  <2>3. CASE work[j] = "done"
    <3>1. Unanswered(u) => Unanswered(u)' \/ u = owner[j]
      BY <2>1, <2>2, <2>3
    <3>2. u = owner[j] => u \in stranded'
      BY <2>2, <2>3
    <3>3. u \in stranded => u \in stranded'
      BY <2>2, <2>3
    <3>. QED
      BY <2>1, <3>1, <3>2, <3>3
  <2>4. CASE work[j] # "done"
    <3>1. Unanswered(u) => Unanswered(u)'
      BY <2>1, <2>2, <2>4
    <3>. QED
      BY <2>1, <2>2, <2>4, <3>1
  <2>. QED
    BY <2>3, <2>4
<1>8. ASSUME SweepDone PROVE Attended'
  BY <1>8 DEF SweepDone
<1>9. ASSUME Ground PROVE Attended'
  <2>1. PICK j \in hand :
           /\ SetState(owner[j], NeedsHuman, "ground")
           /\ hand' = hand \ {j}
    BY <1>9 DEF Ground
  <2>2. /\ owner[j] \in Tickets /\ NeedsHuman \in StateLabel
        /\ relabel = NoRelabel
        /\ UNCHANGED <<ledger, owner, session, stranded, adrift>>
    BY <1>9 DEF Ground, Jobbing, Control, Handed, StateLabel
  <2>. SUFFICES ASSUME NEW u \in Tickets PROVE AttendedTicket(u)'
    BY DEF Attended
  <2>3. Relabelled(owner[j], NeedsHuman)
    BY <2>1, <2>2, SetStateLabels
  <2>4. CASE u = owner[j]
    <3>1. NeedsHuman \notin {InProgress, Unattended}
      BY DEF InProgress, InReview, NeedsHuman, Unattended
    <3>. QED
      BY <2>3, <2>4, <3>1 DEF Relabelled
  <2>5. CASE u # owner[j]
    <3>1. labels'[u] = labels[u]
      BY <2>3, <2>5 DEF Relabelled
    <3>2. Unanswered(u) => Unanswered(u)'
      BY <2>1, <2>2, <2>5
    <3>. QED
      BY <2>2, <3>1, <3>2
  <2>. QED
    BY <2>4, <2>5
<1>10. ASSUME DispatchBegin PROVE Attended'
  BY <1>10 DEF DispatchBegin
<1>11. ASSUME NEW t \in Tickets, Dispatch(t) PROVE Attended'
  <2>1. /\ SetState(t, InProgress, "agent")
        /\ session' = t /\ relabel = NoRelabel /\ session = NoTicket
        /\ InProgress \in StateLabel
        /\ UNCHANGED <<ledger, owner, hand, stranded, adrift>>
    BY <1>11 DEF Dispatch, Control, Phase, StateLabel
  <2>. SUFFICES ASSUME NEW u \in Tickets PROVE AttendedTicket(u)'
    BY DEF Attended
  <2>2. Relabelled(t, InProgress)
    BY <2>1, SetStateLabels
  <2>3. CASE u = t
    <3>1. InProgress # Unattended
      BY DEF InProgress, Unattended
    <3>. QED
      BY <2>1, <2>2, <2>3, <3>1 DEF Relabelled
  <2>4. CASE u # t
    <3>1. labels'[u] = labels[u]
      BY <2>2, <2>4 DEF Relabelled
    <3>2. Unanswered(u) => Unanswered(u)'
      BY <2>1
    <3>. QED
      BY <2>1, <3>1, <3>2
  <2>. QED
    BY <2>3, <2>4
<1>12. ASSUME TickDone PROVE Attended'
  BY <1>12 DEF TickDone, Forget
<1>13. ASSUME RemoveLabel PROVE Attended'
  <2>1. PICK l \in relabel.drop :
           /\ labels' = [labels EXCEPT ![relabel.ticket] = @ \ {l}]
           /\ IF relabel.drop = {l}
              THEN pc' = relabel.next /\ relabel' = NoRelabel
              ELSE relabel' = [relabel EXCEPT !.drop = @ \ {l}] /\ UNCHANGED pc
    BY <1>13 DEF RemoveLabel
  <2>2. /\ relabel.ticket \in Tickets
        /\ UNCHANGED <<ledger, owner, hand, session, stranded, adrift>>
    BY <1>13 DEF RemoveLabel, Control
  <2>. SUFFICES ASSUME NEW u \in Tickets PROVE AttendedTicket(u)'
    BY DEF Attended
  <2>3. Unanswered(u) => Unanswered(u)'
    BY <2>2
  <2>4. AttendedTicket(u)
    BY DEF Attended
  <2>5. CASE u # relabel.ticket
    BY <2>1, <2>2, <2>3, <2>4, <2>5
  <2>6. CASE u = relabel.ticket
    <3>1. labels'[u] = labels[u] \ {l}
      BY <2>1, <2>6
    <3>2. CASE relabel.drop = {l}
      BY <2>1, <2>2, <2>3, <2>4, <3>1, <3>2
    <3>3. CASE relabel.drop # {l}
      <4>1. relabel'.ticket = relabel.ticket /\ relabel'.drop = relabel.drop \ {l}
        BY <2>1, <3>3
      <4>2. InProgress \in labels'[u] =>
               \/ u = session' \/ u \in stranded'
               \/ u = relabel'.ticket /\ InProgress \in relabel'.drop
        BY <2>2, <2>4, <2>6, <3>1, <4>1
      <4>3. (labels[u] \cap {InProgress, InReview, NeedsHuman}) \ relabel.drop
              \subseteq
            (labels'[u] \cap {InProgress, InReview, NeedsHuman}) \ relabel'.drop
        BY <2>1, <3>1, <4>1
      <4>4. Unattended \in labels'[u] /\ Unattended \in relabel.drop
              => Unattended \in relabel'.drop
        BY <3>1, <4>1
      <4>. QED
        BY <2>2, <2>3, <2>4, <2>6, <3>1, <4>1, <4>2, <4>3, <4>4
    <3>. QED
      BY <3>2, <3>3
  <2>. QED
    BY <2>5, <2>6
<1>14. ASSUME AgentSubmits PROVE Attended'
  BY <1>14 DEF AgentSubmits
<1>15. ASSUME AgentAnswers PROVE Attended'
  <2>1. PICK state \in Handed : SetState(session, state, "dispatch")
    BY <1>15 DEF AgentAnswers
  <2>2. /\ session \in Tickets /\ state \in StateLabel
        /\ relabel = NoRelabel
        /\ UNCHANGED <<ledger, owner, hand, stranded, adrift>>
    BY <1>15 DEF AgentAnswers, Control, Phase, Handed, StateLabel
  <2>. SUFFICES ASSUME NEW u \in Tickets PROVE AttendedTicket(u)'
    BY DEF Attended
  <2>3. Relabelled(session, state)
    BY <2>1, <2>2, SetStateLabels
  <2>4. CASE u = session
    <3>1. state \in {InReview, NeedsHuman} /\ state \notin {InProgress, Unattended}
      BY DEF Handed, InProgress, InReview, NeedsHuman, Unattended
    <3>. QED
      BY <2>3, <2>4, <3>1 DEF Relabelled
  <2>5. CASE u # session
    <3>1. labels'[u] = labels[u]
      BY <2>3, <2>5 DEF Relabelled
    <3>2. Unanswered(u) => Unanswered(u)'
      BY <2>2
    <3>. QED
      BY <2>2, <2>5, <3>1, <3>2
  <2>. QED
    BY <2>4, <2>5
<1>16. ASSUME AgentDetaches PROVE Attended'
  <2>1. /\ SetState(session, Unattended, "dispatch")
        /\ session \in Tickets /\ Unattended \in StateLabel
        /\ relabel = NoRelabel
        /\ UNCHANGED <<ledger, owner, hand, stranded>>
    BY <1>16 DEF AgentDetaches, Control, Phase, StateLabel
  <2>2. /\ adrift \subseteq adrift'
        /\ (\E j \in Open : owner[j] = session) \/ session \in adrift'
    BY <1>16 DEF AgentDetaches
  <2>. SUFFICES ASSUME NEW u \in Tickets PROVE AttendedTicket(u)'
    BY DEF Attended
  <2>3. Relabelled(session, Unattended)
    BY <2>1, SetStateLabels
  <2>4. CASE u = session
    <3>1. Unanswered(u)' \/ u \in adrift'
      BY <2>1, <2>2, <2>4
    <3>2. InProgress # Unattended
      BY DEF InProgress, Unattended
    <3>. QED
      BY <2>3, <2>4, <3>1, <3>2 DEF Relabelled
  <2>5. CASE u # session
    <3>1. labels'[u] = labels[u]
      BY <2>3, <2>5 DEF Relabelled
    <3>2. Unanswered(u) => Unanswered(u)'
      BY <2>1
    <3>. QED
      BY <2>1, <2>2, <2>5, <3>1, <3>2
  <2>. QED
    BY <2>4, <2>5
<1>17. ASSUME Abort PROVE Attended'
  <2>1. /\ stranded' = stranded \cup (InHand \ {NoTicket})
        /\ UNCHANGED <<labels, ledger, owner, adrift>>
    BY <1>17 DEF Abort
  <2>. QED
    BY <2>1, DeadTickStrands
<1>18. ASSUME NEW t \in Tickets, HumanReturns(t) PROVE Attended'
  <2>. SUFFICES ASSUME NEW u \in Tickets PROVE AttendedTicket(u)'
    BY DEF Attended
  <2>1. UNCHANGED <<ledger, owner, hand, session, relabel, stranded, adrift>>
    BY <1>18 DEF HumanReturns
  <2>2. labels'[u] = labels[u] \/ labels'[u] = {}
    BY <1>18 DEF HumanReturns
  <2>3. Unanswered(u) => Unanswered(u)'
    BY <2>1
  <2>. QED
    BY <2>1, <2>2, <2>3 DEF Attended
<1>19. ASSUME MoveBreaker PROVE Attended'
  BY <1>19 DEF MoveBreaker
<1>20. ASSUME NEW j \in Jobs, JobEnds(j) PROVE Attended'
  BY <1>20 DEF JobEnds
<1>21. ASSUME NEW j \in Jobs, DeadlinePasses(j) PROVE Attended'
  BY <1>21 DEF DeadlinePasses
<1>23. ASSUME SweepRaises PROVE Attended'
  <2>1. /\ stranded' = stranded \cup (InHand \ {NoTicket})
        /\ UNCHANGED <<labels, ledger, owner, adrift>>
    BY <1>23 DEF SweepRaises
  <2>. QED
    BY <2>1, DeadTickStrands
<1>22. CASE UNCHANGED vars
  BY <1>22 DEF vars
<1>. QED
  BY <1>1, <1>2, <1>3, <1>4, <1>5, <1>6, <1>7, <1>8, <1>9, <1>10, <1>11, <1>12,
    <1>13, <1>14, <1>15, <1>16, <1>17, <1>18, <1>19, <1>20, <1>21, <1>22, <1>23
  DEF Next, TickStep, AgentEnds

\* No step takes the last label of a GitHub ticket that a human has to answer.
LEMMA HumansTurnStep ==
  TypeOK /\ Control /\ Jobbing /\ SessionLeftQueue /\ HumansTurn /\ [Next]_vars => HumansTurn'
<1>. SUFFICES ASSUME TypeOK, Control, Jobbing, SessionLeftQueue, HumansTurn, [Next]_vars
              PROVE  HumansTurn'
  OBVIOUS
<1>. USE TicketAssumption DEF TypeOK, board, registry, locals, history, PC,
  Control, Phase,
  NoRelabel, Jobbing, SessionLeftQueue, HumansTurn, HumansTicket
<1>1. ASSUME Poll PROVE HumansTurn'
  BY <1>1 DEF Poll, Open
<1>2. ASSUME CollectJob PROVE HumansTurn'
  BY <1>2 DEF CollectJob
<1>3. ASSUME CollectSkip PROVE HumansTurn'
  BY <1>3 DEF CollectSkip
<1>4. ASSUME CollectDone PROVE HumansTurn'
  BY <1>4 DEF CollectDone
<1>5. ASSUME Bring PROVE HumansTurn'
  <2>1. PICK j \in hand, state \in Handed :
           /\ SetState(owner[j], state, "bring")
           /\ collected' = collected \cup {owner[j]}
           /\ waiting' = waiting \cup {owner[j]}
    BY <1>5 DEF Bring
  <2>2. /\ owner[j] \in Tickets /\ state \in StateLabel
        /\ relabel = NoRelabel /\ session = NoTicket /\ pc = "bring"
        /\ UNCHANGED <<tracker, snapshot, grounded, session, queue>>
    BY <1>5 DEF Bring, Jobbing, Control, Phase, Handed, StateLabel
  <2>. SUFFICES ASSUME tracker' = "github", NEW u \in waiting' PROVE HumansTicket(u)'
    BY DEF HumansTurn
  <2>3. Relabelled(owner[j], state)
    BY <2>1, <2>2, SetStateLabels
  <2>4. CASE u = owner[j]
    BY <2>1, <2>2, <2>3, <2>4 DEF Relabelled
  <2>5. CASE u # owner[j]
    <3>1. labels'[u] = labels[u] /\ u # relabel'.ticket /\ u \in waiting
      BY <2>1, <2>3, <2>5 DEF Relabelled
    <3>. QED
      BY <2>1, <2>2, <3>1
  <2>. QED
    BY <2>4, <2>5
<1>6. ASSUME SweepBegin PROVE HumansTurn'
  BY <1>6 DEF SweepBegin, Open
<1>7. ASSUME SweepJob PROVE HumansTurn'
  BY <1>7 DEF SweepJob
<1>8. ASSUME SweepDone PROVE HumansTurn'
  BY <1>8 DEF SweepDone
<1>9. ASSUME Ground PROVE HumansTurn'
  <2>1. PICK j \in hand :
           /\ SetState(owner[j], NeedsHuman, "ground")
           /\ grounded' = grounded \cup {owner[j]}
           /\ waiting' = waiting \cup {owner[j]}
    BY <1>9 DEF Ground
  <2>2. /\ owner[j] \in Tickets /\ NeedsHuman \in StateLabel
        /\ relabel = NoRelabel /\ session = NoTicket /\ pc = "ground"
        /\ UNCHANGED <<tracker, snapshot, collected, session, queue>>
    BY <1>9 DEF Ground, Jobbing, Control, Phase, Handed, StateLabel
  <2>. SUFFICES ASSUME tracker' = "github", NEW u \in waiting' PROVE HumansTicket(u)'
    BY DEF HumansTurn
  <2>3. Relabelled(owner[j], NeedsHuman)
    BY <2>1, <2>2, SetStateLabels
  <2>4. CASE u = owner[j]
    BY <2>1, <2>2, <2>3, <2>4 DEF Relabelled
  <2>5. CASE u # owner[j]
    <3>1. labels'[u] = labels[u] /\ u # relabel'.ticket /\ u \in waiting
      BY <2>1, <2>3, <2>5 DEF Relabelled
    <3>. QED
      BY <2>1, <2>2, <3>1
  <2>. QED
    BY <2>4, <2>5
<1>10. ASSUME DispatchBegin PROVE HumansTurn'
  BY <1>10 DEF DispatchBegin
<1>11. ASSUME NEW t \in Tickets, Dispatch(t) PROVE HumansTurn'
  <2>1. /\ SetState(t, InProgress, "agent")
        /\ session' = t /\ relabel = NoRelabel /\ session = NoTicket
        /\ InProgress \in StateLabel /\ pc = "dispatch"
        /\ queue' = {v \in queue : v > t} /\ waiting' = waiting \ {t}
        /\ UNCHANGED <<tracker, snapshot, collected, grounded>>
    BY <1>11 DEF Dispatch, Control, Phase, StateLabel
  <2>. SUFFICES ASSUME tracker' = "github", NEW u \in waiting' PROVE HumansTicket(u)'
    BY DEF HumansTurn
  <2>2. Relabelled(t, InProgress)
    BY <2>1, SetStateLabels
  <2>3. labels'[u] = labels[u] /\ u # relabel'.ticket /\ u \in waiting
    BY <2>1, <2>2 DEF Relabelled
  <2>4. Phase' = "agent"
    BY <2>1 DEF SetState, LinearSetState, GitHubSetState
  <2>5. u \notin queue => u \notin queue'
    BY <2>1
  <2>. QED
    BY <2>1, <2>3, <2>4, <2>5
<1>12. ASSUME TickDone PROVE HumansTurn'
  BY <1>12 DEF TickDone, Forget
<1>13. ASSUME RemoveLabel PROVE HumansTurn'
  BY <1>13 DEF RemoveLabel
<1>14. ASSUME AgentSubmits PROVE HumansTurn'
  BY <1>14 DEF AgentSubmits
<1>15. ASSUME AgentAnswers PROVE HumansTurn'
  <2>1. PICK state \in Handed : SetState(session, state, "dispatch")
    BY <1>15 DEF AgentAnswers
  <2>2. /\ session \in Tickets /\ state \in StateLabel
        /\ relabel = NoRelabel /\ session' = NoTicket /\ pc = "agent"
        /\ session \notin queue /\ waiting' = waiting \cup {session}
        /\ UNCHANGED <<tracker, snapshot, collected, grounded, queue>>
    BY <1>15 DEF AgentAnswers, Control, Phase, Handed, StateLabel
  <2>. SUFFICES ASSUME tracker' = "github", NEW u \in waiting' PROVE HumansTicket(u)'
    BY DEF HumansTurn
  <2>3. Relabelled(session, state)
    BY <2>1, <2>2, SetStateLabels
  <2>4. Phase' = "dispatch"
    BY <2>1, <2>2 DEF SetState, LinearSetState, GitHubSetState
  <2>5. CASE u = session
    BY <2>2, <2>3, <2>4, <2>5 DEF Relabelled
  <2>6. CASE u # session
    <3>1. labels'[u] = labels[u] /\ u # relabel'.ticket /\ u \in waiting
      BY <2>2, <2>3, <2>6 DEF Relabelled
    <3>. QED
      BY <2>2, <2>4, <3>1
  <2>. QED
    BY <2>5, <2>6
<1>16. ASSUME AgentDetaches PROVE HumansTurn'
  <2>1. /\ SetState(session, Unattended, "dispatch")
        /\ session \in Tickets /\ Unattended \in StateLabel
        /\ relabel = NoRelabel /\ session' = NoTicket /\ pc = "agent"
        /\ UNCHANGED <<tracker, snapshot, collected, grounded, queue, waiting>>
    BY <1>16 DEF AgentDetaches, Control, Phase, StateLabel
  <2>. SUFFICES ASSUME tracker' = "github", NEW u \in waiting' PROVE HumansTicket(u)'
    BY DEF HumansTurn
  <2>2. Relabelled(session, Unattended)
    BY <2>1, SetStateLabels
  <2>3. Phase' = "dispatch"
    BY <2>1 DEF SetState, LinearSetState, GitHubSetState
  <2>4. u # session /\ u \in waiting
    BY <2>1 DEF HumansTurn, HumansTicket
  <2>5. labels'[u] = labels[u] /\ u # relabel'.ticket
    BY <2>1, <2>2, <2>4 DEF Relabelled
  <2>. QED
    BY <2>1, <2>3, <2>4, <2>5
<1>17. ASSUME Abort PROVE HumansTurn'
  BY <1>17 DEF Abort, Forget
<1>18. ASSUME NEW t \in Tickets, HumanReturns(t) PROVE HumansTurn'
  BY <1>18 DEF HumanReturns
<1>19. ASSUME MoveBreaker PROVE HumansTurn'
  BY <1>19 DEF MoveBreaker
<1>20. ASSUME NEW j \in Jobs, JobEnds(j) PROVE HumansTurn'
  BY <1>20 DEF JobEnds
<1>21. ASSUME NEW j \in Jobs, DeadlinePasses(j) PROVE HumansTurn'
  BY <1>21 DEF DeadlinePasses
<1>23. ASSUME SweepRaises PROVE HumansTurn'
  BY <1>23 DEF SweepRaises, Forget
<1>22. CASE UNCHANGED vars
  BY <1>22 DEF vars
<1>. QED
  BY <1>1, <1>2, <1>3, <1>4, <1>5, <1>6, <1>7, <1>8, <1>9, <1>10, <1>11, <1>12,
    <1>13, <1>14, <1>15, <1>16, <1>17, <1>18, <1>19, <1>20, <1>21, <1>22, <1>23
  DEF Next, TickStep, AgentEnds

-----------------------------------------------------------------------------
(* The theorems.                                                           *)

\* The first tick starts with nothing dispatched and nothing handed over.
LEMMA InitInv == Init => IInv
<1>. SUFFICES ASSUME Init PROVE IInv
  OBVIOUS
<1>. USE TicketAssumption, LimitAssumption DEF Init
<1>1. relabel \in [ticket : Tickets \cup {NoTicket}, drop : SUBSET StateLabel,
                   next : PC]
  <2>1. {} \in SUBSET StateLabel /\ "idle" \in PC
    BY DEF PC
  <2>2. relabel = [ticket |-> NoTicket, drop |-> {}, next |-> "idle"]
    BY DEF NoRelabel
  <2>. QED
    BY <2>1, <2>2
<1>2. TypeOK
  <2>1. pc \in PC
    BY DEF PC
  <2>2. /\ labels \in [Tickets -> SUBSET StateLabel]
        /\ snapshot \in [Tickets -> SUBSET StateLabel]
    OBVIOUS
  <2>3. /\ budget \in 0 .. MaxConcurrent /\ review \in 0 .. MaxAwaiting
        /\ faults \in 0 .. MaxFaults
    OBVIOUS
  <2>. QED
    BY <1>1, <2>1, <2>2, <2>3 DEF TypeOK
<1>3. Control /\ Jobbing /\ SessionLeftQueue
  BY DEF Control, Phase, Jobbing, SessionLeftQueue
<1>4. Attended /\ HumansTurn
  BY DEF Attended, AttendedTicket, HumansTurn
<1>. QED
  BY <1>2, <1>3, <1>4 DEF IInv

\* The inductive invariant holds in every reachable state: what a tick knows,
\* what it holds and what the labels say fit together at each of its steps.
THEOREM Bookkeeping == Spec => []IInv
<1>1. Init => IInv
  BY InitInv
<1>2. IInv /\ [Next]_vars => IInv'
  BY TypeStep, ControlStep, JobbingStep, AttendedStep, HumansTurnStep, QueueStep
  DEF IInv
<1>. QED
  BY <1>1, <1>2, PTL DEF Spec

\* Types: every variable of the outer loop keeps its type, for any tickets,
\* jobs and limits.
THEOREM TypeCorrect == Spec => []TypeOK
<1>1. IInv => TypeOK
  BY DEF IInv
<1>. QED
  BY <1>1, Bookkeeping, PTL

\* No ticket in progress or unattended is without someone who will move it,
\* except what a dead tick held, what sweep resolved silently and what a session
\* parked without an open job of that ticket.
THEOREM NobodyForgotten == Spec => []InFlightIsAttended
<1>1. IInv => InFlightIsAttended
  <2>. SUFFICES ASSUME Attended PROVE InFlightIsAttended
    BY DEF IInv
  <2>. USE DEF In, StateOf, InProgress, InReview, NeedsHuman, Unattended
  <2>1. ASSUME NEW t \in In({InProgress}, labels)
        PROVE  t \in {session, relabel.ticket} \cup stranded
    BY <2>1 DEF Attended, AttendedTicket
  <2>2. ASSUME NEW t \in In({Unattended}, labels)
        PROVE  Unanswered(t) \/ t \in stranded \cup adrift
    <3>1. /\ Unattended \in labels[t]
          /\ labels[t] \cap {InProgress, InReview, NeedsHuman} = {}
      BY <2>2
    <3>2. t \in Tickets
      BY <2>2
    <3>. QED
      BY <3>1, <3>2 DEF Attended, AttendedTicket
  <2>. QED
    BY <2>1, <2>2 DEF InFlightIsAttended
<1>. QED
  BY <1>1, Bookkeeping, PTL

\* A set of labels means In Progress exactly if it has that label.
LEMMA InProgressFirst ==
  ASSUME NEW S PROVE StateOf(S) = InProgress <=> InProgress \in S
  BY DEF StateOf, InProgress, InReview, NeedsHuman, Unattended

\* A GitHub ticket that the dispatch loop takes was not before a human, unless
\* this very tick put it there from a finished job.
LEMMA DispatchedOnce ==
  ASSUME IInv, NEW t \in Tickets, Dispatch(t), t \in waiting, t \notin collected
  PROVE  tracker = "linear"
<1>. SUFFICES ASSUME tracker # "linear" PROVE FALSE
  OBVIOUS
<1>1. tracker = "github"
  BY TrackerAssumption DEF IInv, TypeOK
<1>2. pc = "dispatch" /\ t \in queue \ grounded /\ Eligible(t)
  BY DEF Dispatch, Dispatchable
<1>3. snapshot[t] # {}
  BY <1>1, <1>2 DEF IInv, HumansTurn, HumansTicket
<1>4. snapshot[t] \subseteq {InProgress, InReview, NeedsHuman, Unattended}
  BY DEF IInv, TypeOK, StateLabel
<1>5. NeedsHuman \notin snapshot[t]
  BY <1>1, <1>2 DEF Eligible
<1>6. StateOf(snapshot[t]) \in {InProgress, InReview, Unattended}
  BY <1>3, <1>4, <1>5 DEF StateOf
<1>. QED
  BY <1>2, <1>6 DEF Eligible

\* Only the dispatch loop puts a ticket in progress.
LEMMA OnlyDispatchClaims ==
  ASSUME IInv, [Next]_vars, NEW u \in Tickets, Claims(u)
  PROVE  Dispatch(u)
<1>. USE DEF board, registry, locals, history
<1>1. InProgress \in labels'[u] /\ InProgress \notin labels[u]
  BY InProgressFirst DEF Claims
<1>2. TypeOK /\ Control /\ Jobbing
  BY DEF IInv
<1>3. ASSUME NEW t, NEW state, NEW next, SetState(t, state, next), state # InProgress
      PROVE  FALSE
  BY <1>1, <1>2, <1>3 DEF SetState, LinearSetState, GitHubSetState, TypeOK
<1>4. InProgress \notin Handed /\ InProgress \notin {NeedsHuman, Unattended}
  BY DEF Handed, InProgress, InReview, NeedsHuman, Unattended
<1>5. ~Bring
  BY <1>3, <1>4 DEF Bring
<1>6. ~Ground
  BY <1>3, <1>4 DEF Ground
<1>7. ~AgentAnswers
  BY <1>3, <1>4 DEF AgentAnswers
<1>8. ~AgentDetaches
  BY <1>3, <1>4 DEF AgentDetaches
<1>9. ~RemoveLabel
  BY <1>1, <1>2 DEF RemoveLabel, TypeOK
<1>10. \A t \in Tickets : ~HumanReturns(t)
  BY <1>1, <1>2 DEF HumanReturns, TypeOK
<1>11. labels' # labels
  BY <1>1
<1>12. PICK t \in Tickets : Dispatch(t)
  BY <1>5, <1>6, <1>7, <1>8, <1>9, <1>10, <1>11
  DEF Next, TickStep, AgentEnds, vars, Poll, CollectJob, CollectSkip, CollectDone,
      SweepBegin, SweepJob, SweepDone, DispatchBegin, TickDone, AgentSubmits,
      Abort, SweepRaises, MoveBreaker, JobEnds, DeadlinePasses
<1>13. u = t
  BY <1>1, <1>2, <1>12 DEF Dispatch, SetState, LinearSetState, GitHubSetState, TypeOK
<1>. QED
  BY <1>12, <1>13

\* With GitHub's adapter a ticket before a human is dispatched again only after
\* the human sent it back, whatever crashed in between.
THEOREM HumansComeFirst == Spec => RetriedByHumanOnly
<1>1. IInv /\ [Next]_vars =>
        [ \A t \in Tickets :
            Claims(t) => tracker = "linear" \/ t \notin waiting \/ t \in collected ]_vars
  BY OnlyDispatchClaims, DispatchedOnce
<1>. QED
  BY <1>1, Bookkeeping, PTL DEF Spec, RetriedByHumanOnly

=============================================================================
