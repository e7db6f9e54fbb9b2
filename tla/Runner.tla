------------------------------- MODULE Runner -------------------------------
(***************************************************************************)
(* The outer loop (runner.py): one process polls the tracker and, in every *)
(* tick, brings finished compute jobs back into verdicts, grounds tickets  *)
(* whose job was lost, and dispatches agent sessions within a concurrency  *)
(* limit and a limit on what waits for a human.                            *)
(*                                                                         *)
(* The tickets here are those an allowlisted human marked agent-ready in   *)
(* this runner's lane; every other ticket is refused before anything is    *)
(* done to it.  The job registry is reduced to what its callers see: one   *)
(* row per job and the breaker.  Humans, agents and jobs act on their own. *)
(***************************************************************************)
EXTENDS Integers, FiniteSets

CONSTANTS
  Tickets,        \* numbers: trackers list tickets oldest first
  Jobs,           \* jobs the agents may submit, in all
  NoTicket,       \* no session is running
  Trackers,       \* adapters under study: "linear", "github" or both
  MaxConcurrent,  \* max_concurrent
  MaxAwaiting,    \* max_awaiting_human
  PollsRaise,     \* may a poll of the substrate, or a fetch, raise
  MaxFaults       \* bound on crashes and exceptions of the tracker, together

ASSUME TicketAssumption ==
  Tickets \subseteq Nat /\ IsFiniteSet(Tickets) /\ NoTicket \notin Tickets
ASSUME TrackerAssumption == Trackers \subseteq {"linear", "github"}
ASSUME LimitAssumption ==
  /\ MaxConcurrent \in Nat /\ MaxAwaiting \in Nat \ {0} /\ MaxFaults \in Nat
  /\ PollsRaise \in BOOLEAN

VARIABLES
  tracker,    \* the adapter this deployment uses; never changes
  labels,     \* ticket -> its state (Linear) or state labels (GitHub)
  ledger,     \* job -> its row in the registry
  owner,      \* job -> ticket of the session that submitted it
  work,       \* job -> what the substrate really has
  overdue,    \* open jobs past their deadline
  breaker,    \* the registry's breaker is open
  pc,         \* where the tick is
  snapshot,   \* labels as open_tickets() returned them
  todo,       \* jobs that collect_finished or sweep has still to poll
  hand,       \* jobs it reported and whose tickets are not moved yet
  collected,  \* tickets brought back in this tick
  grounded,   \* tickets whose job was lost in this tick
  halted,     \* breaker_reason() as read in this tick
  budget,     \* sessions this tick may still start
  review,     \* tickets this tick may still hand to a human
  queue,      \* tickets the dispatch loop has not reached
  session,    \* ticket of the running agent session
  relabel,    \* a GitHub state change under way
  faults,     \* crashes and exceptions so far
  waiting,    \* history: handed to a human who has not answered yet
  stranded,   \* history: what a dead tick held, and jobs sweep found finished
  adrift      \* history: parked by a session with no open job of that ticket

board    == <<tracker, labels>>
registry == <<ledger, owner, work, overdue, breaker>>
locals   == <<pc, snapshot, todo, hand, collected, grounded, halted, budget,
              review, queue, session, relabel>>
history  == <<waiting, stranded, adrift>>
vars     == <<board, registry, locals, faults, history>>

InProgress == "In Progress"
InReview   == "In Review"
NeedsHuman == "Needs Human"
Unattended == "Running Unattended"
StateLabel == {InProgress, InReview, NeedsHuman, Unattended}

\* What the runner writes when it hands a ticket to a human: a verdict that
\* carries the required gates goes to review, everything else to a human.
Handed == {InReview, NeedsHuman}

PC == {"idle", "collect", "bring", "sweep", "ground", "dispatch", "agent",
       "relabel"}
NoRelabel == [ticket |-> NoTicket, drop |-> {}, next |-> "idle"]

-----------------------------------------------------------------------------
(* Reading the tracker.                                                    *)

\* GitHub's _state_from: the first state, in STATE_LABELS order, that has its
\* label.  A Linear issue has one state.
StateOf(S) ==
  IF InProgress \in S THEN InProgress
  ELSE IF InReview \in S THEN InReview
  ELSE IF NeedsHuman \in S THEN NeedsHuman
  ELSE IF Unattended \in S THEN Unattended
  ELSE "Todo"

In(states, board_) == {t \in Tickets : StateOf(board_[t]) \in states}

InFlight(board_) == In({InProgress, Unattended}, board_)
Awaiting(board_) == In(Handed, board_)

\* Mutant of Eligible: the state is tested and the label is not.
EligibleByState(t) ==
  StateOf(snapshot[t]) \notin {InProgress, InReview, Unattended}

\* eligibility().  `needs-human` is a label: on GitHub it is also how the
\* state Needs Human is written, on Linear nothing sets it.
Eligible(t) ==
  /\ ~(tracker = "github" /\ NeedsHuman \in snapshot[t])
  /\ StateOf(snapshot[t]) \notin {InProgress, InReview, Unattended}

Open == {j \in Jobs : ledger[j] = "open"}

AtLeastZero(n) == IF n < 0 THEN 0 ELSE n

-----------------------------------------------------------------------------
(* Writing the tracker.                                                    *)

\* Linear: one mutation.
LinearSetState(t, state, next) ==
  /\ labels' = [labels EXCEPT ![t] = {state}]
  /\ pc' = next
  /\ UNCHANGED relabel

\* GitHub: the new label is posted; the others are then deleted one by one.
GitHubSetState(t, state, next) ==
  /\ labels' = [labels EXCEPT ![t] = @ \cup {state}]
  /\ pc' = "relabel"
  /\ relabel' = [ticket |-> t, drop |-> StateLabel \ {state}, next |-> next]

SetState(t, state, next) ==
  IF tracker = "linear" THEN LinearSetState(t, state, next)
                        ELSE GitHubSetState(t, state, next)

RemoveLabel ==
  /\ pc = "relabel"
  /\ \E l \in relabel.drop :
       /\ labels' = [labels EXCEPT ![relabel.ticket] = @ \ {l}]
       /\ IF relabel.drop = {l}
          THEN pc' = relabel.next /\ relabel' = NoRelabel
          ELSE relabel' = [relabel EXCEPT !.drop = @ \ {l}] /\ UNCHANGED pc
  /\ UNCHANGED <<tracker, registry, snapshot, todo, hand, collected, grounded,
                 halted, budget, review, queue, session, faults, history>>

-----------------------------------------------------------------------------
(* Collecting.                                                             *)

Poll ==
  /\ pc = "idle"
  /\ pc' = "collect"
  /\ snapshot' = labels
  /\ todo' = Open
  /\ UNCHANGED <<board, registry, hand, collected, grounded, halted, budget,
                 review, queue, session, relabel, faults, history>>

\* collect_finished, one job: the row is durable before the caller knows.
CollectJob ==
  /\ pc = "collect"
  /\ \E j \in todo :
       /\ todo' = todo \ {j}
       /\ IF work[j] = "done"
          THEN /\ ledger' = [ledger EXCEPT ![j] = "resolved"]
               /\ overdue' = overdue \ {j}
               /\ hand' = hand \cup {j}
          ELSE UNCHANGED <<ledger, hand, overdue>>
  /\ UNCHANGED <<board, owner, work, breaker, pc, snapshot, collected,
                 grounded, halted, budget, review, queue, session, relabel,
                 faults, history>>

\* Mutant of CollectSkip: one job's failure discards the others' results.
CollectSkipDiscarding ==
  /\ pc = "collect" /\ PollsRaise
  /\ \E j \in todo : todo' = todo \ {j}
  /\ hand' = {}
  /\ UNCHANGED <<board, registry, pc, snapshot, collected, grounded, halted,
                 budget, review, queue, session, relabel, faults, history>>

\* The substrate cannot be polled or the artifact not fetched: that job stays
\* open and the others are still collected.
CollectSkip ==
  /\ pc = "collect" /\ PollsRaise
  /\ \E j \in todo : todo' = todo \ {j}
  /\ UNCHANGED <<board, registry, pc, snapshot, hand, collected, grounded, halted,
                 budget, review, queue, session, relabel, faults, history>>

CollectDone ==
  /\ pc = "collect"
  /\ todo = {}
  /\ pc' = "bring"
  /\ UNCHANGED <<board, registry, snapshot, todo, hand, collected, grounded,
                 halted, budget, review, queue, session, relabel, faults, history>>

\* A finished job's artifact becomes a verdict, or cannot be read or judged.
Bring ==
  /\ pc = "bring"
  /\ \E j \in hand, state \in Handed :
       /\ SetState(owner[j], state, "bring")
       /\ hand' = hand \ {j}
       /\ collected' = collected \cup {owner[j]}
       /\ waiting' = waiting \cup {owner[j]}
  /\ UNCHANGED <<tracker, registry, snapshot, todo, grounded, halted, budget,
                 review, queue, session, faults, stranded, adrift>>

-----------------------------------------------------------------------------
(* Sweeping.                                                               *)

SweepBegin ==
  /\ pc = "bring"
  /\ hand = {}
  /\ pc' = "sweep"
  /\ todo' = Open \cap overdue
  /\ UNCHANGED <<board, registry, snapshot, hand, collected, grounded, halted,
                 budget, review, queue, session, relabel, faults, history>>

\* Mutant of SweepJob: a job that is still running is given more time.
SweepJobPatient ==
  /\ pc = "sweep"
  /\ \E j \in todo :
       /\ todo' = todo \ {j}
       /\ IF work[j] = "running"
          THEN UNCHANGED <<ledger, overdue, stranded, breaker, hand>>
          ELSE IF work[j] = "done"
          THEN /\ ledger' = [ledger EXCEPT ![j] = "resolved"]
               /\ overdue' = overdue \ {j}
               /\ stranded' = stranded \cup {owner[j]}
               /\ UNCHANGED <<breaker, hand>>
          ELSE /\ ledger' = [ledger EXCEPT ![j] = "lost"]
               /\ overdue' = overdue \ {j}
               /\ breaker' = TRUE
               /\ hand' = hand \cup {j}
               /\ UNCHANGED stranded
  /\ UNCHANGED <<board, owner, work, pc, snapshot, collected, grounded, halted,
                 budget, review, queue, session, relabel, faults, waiting, adrift>>

\* A job that finished after all is resolved and not reported; any other is
\* lost, which opens the breaker.
SweepJob ==
  /\ pc = "sweep"
  /\ \E j \in todo :
       /\ todo' = todo \ {j}
       /\ IF work[j] = "done"
          THEN /\ ledger' = [ledger EXCEPT ![j] = "resolved"]
               /\ overdue' = overdue \ {j}
               /\ stranded' = stranded \cup {owner[j]}
               /\ UNCHANGED <<breaker, hand>>
          ELSE /\ ledger' = [ledger EXCEPT ![j] = "lost"]
               /\ overdue' = overdue \ {j}
               /\ breaker' = TRUE
               /\ hand' = hand \cup {j}
               /\ UNCHANGED stranded
  /\ UNCHANGED <<board, owner, work, pc, snapshot, collected, grounded, halted,
                 budget, review, queue, session, relabel, faults, waiting, adrift>>

SweepDone ==
  /\ pc = "sweep"
  /\ todo = {}
  /\ pc' = "ground"
  /\ UNCHANGED <<board, registry, snapshot, todo, hand, collected, grounded,
                 halted, budget, review, queue, session, relabel, faults, history>>

Ground ==
  /\ pc = "ground"
  /\ \E j \in hand :
       /\ SetState(owner[j], NeedsHuman, "ground")
       /\ hand' = hand \ {j}
       /\ grounded' = grounded \cup {owner[j]}
       /\ waiting' = waiting \cup {owner[j]}
  /\ UNCHANGED <<tracker, registry, snapshot, todo, collected, halted, budget,
                 review, queue, session, faults, stranded, adrift>>

-----------------------------------------------------------------------------
(* Dispatching.                                                            *)

\* Mutant of SessionBudget: only sessions count, not unattended jobs.
SessionBudgetIdle(board_) ==
  AtLeastZero(MaxConcurrent - Cardinality(In({InProgress}, board_)))

SessionBudget(board_) ==
  AtLeastZero(MaxConcurrent - Cardinality(InFlight(board_)))

\* Mutant of ReviewBudget: what this tick itself handed over is forgotten.
ReviewBudgetStale(board_) ==
  AtLeastZero(MaxAwaiting - Cardinality(Awaiting(board_)))

\* Mutant of ReviewBudget: more handed over than allowed gives a negative budget.
ReviewBudgetUnclamped(board_) ==
  MaxAwaiting - Cardinality(Awaiting(board_)) - Cardinality(grounded) - Cardinality(collected)

\* _review_budget, with what this tick has already put before a human.
ReviewBudget(board_) ==
  AtLeastZero(MaxAwaiting - Cardinality(Awaiting(board_))
                - Cardinality(grounded) - Cardinality(collected))

DispatchBegin ==
  /\ pc = "ground"
  /\ hand = {}
  /\ pc' = "dispatch"
  /\ halted' = breaker
  /\ budget' = SessionBudget(snapshot)
  /\ review' = ReviewBudget(snapshot)
  /\ queue' = Tickets
  /\ UNCHANGED <<board, registry, snapshot, todo, hand, collected, grounded,
                 session, relabel, faults, history>>

\* Tickets of the loop that no skip reason holds back.  The budgets only
\* shrink, so a ticket once skipped stays skipped.
Dispatchable ==
  IF halted \/ budget = 0 \/ review = 0 THEN {}
  ELSE {t \in queue \ grounded : Eligible(t)}

Dispatch(t) ==
  /\ pc = "dispatch"
  /\ t \in Dispatchable
  /\ \A u \in Dispatchable : t <= u
  /\ SetState(t, InProgress, "agent")
  /\ session' = t
  /\ queue' = {u \in queue : u > t}
  /\ budget' = budget - 1
  /\ review' = review - 1
  /\ waiting' = waiting \ {t}
  /\ UNCHANGED <<tracker, registry, snapshot, todo, hand, collected, grounded,
                 halted, faults, stranded, adrift>>

\* Everything the tick knew is a local variable of it.
Forget ==
  /\ pc' = "idle"
  /\ snapshot' = [t \in Tickets |-> {}]
  /\ todo' = {} /\ hand' = {} /\ collected' = {} /\ grounded' = {}
  /\ halted' = FALSE /\ budget' = 0 /\ review' = 0
  /\ queue' = {} /\ session' = NoTicket /\ relabel' = NoRelabel

TickDone ==
  /\ pc = "dispatch"
  /\ Dispatchable = {}
  /\ Forget
  /\ UNCHANGED <<board, registry, faults, history>>

\* registry.submit by the agent: refused while the breaker is open.
AgentSubmits ==
  /\ pc = "agent"
  /\ ~breaker
  /\ \E j \in Jobs :
       /\ ledger[j] = "none"
       /\ ledger' = [ledger EXCEPT ![j] = "open"]
       /\ owner'  = [owner EXCEPT ![j] = session]
       /\ work'   = [work EXCEPT ![j] = "running"]
  /\ UNCHANGED <<board, overdue, breaker, locals, faults, history>>

\* The session returns a candidate, which is judged, or it fails.
AgentAnswers ==
  /\ pc = "agent"
  /\ \E state \in Handed : SetState(session, state, "dispatch")
  /\ session' = NoTicket
  /\ waiting' = waiting \cup {session}
  /\ UNCHANGED <<tracker, registry, snapshot, todo, hand, collected, grounded,
                 halted, budget, review, queue, faults, stranded, adrift>>

\* _detach: the session says it submitted a job, and ends.  Nothing asks whether
\* the handle it names exists, is this ticket's or is still open.
AgentDetaches ==
  /\ pc = "agent"
  /\ SetState(session, Unattended, "dispatch")
  /\ session' = NoTicket
  /\ adrift' = IF \E j \in Open : owner[j] = session THEN adrift
                                                     ELSE adrift \cup {session}
  /\ UNCHANGED <<tracker, registry, snapshot, todo, hand, collected, grounded,
                 halted, budget, review, queue, faults, waiting, stranded>>

-----------------------------------------------------------------------------
(* Failures, humans and jobs.                                              *)

\* The tickets that only this tick knows it has to move.
InHand == {owner[j] : j \in hand} \cup {session, relabel.ticket}

\* The tick dies: a tracker call raises, or the process does.
Abort ==
  /\ pc # "idle"
  /\ faults < MaxFaults
  /\ faults' = faults + 1
  /\ Forget
  /\ stranded' = stranded \cup (InHand \ {NoTicket})
  /\ UNCHANGED <<board, registry, waiting, adrift>>

\* The poll of an overdue job raises through the sweep and the tick: this job and
\* those after it stay open, the losses it has recorded are reported to nobody.
SweepRaises ==
  /\ pc = "sweep" /\ PollsRaise
  /\ todo # {}
  /\ Forget
  /\ stranded' = stranded \cup (InHand \ {NoTicket})
  /\ UNCHANGED <<board, registry, faults, waiting, adrift>>

\* A human sends a ticket back for another attempt.
HumanReturns(t) ==
  /\ labels[t] \cap Handed # {}
  /\ labels' = [labels EXCEPT ![t] = {}]
  /\ waiting' = waiting \ {t}
  /\ UNCHANGED <<tracker, registry, locals, faults, stranded, adrift>>

\* A human resets it; a human or a submission in doubt trips it.
MoveBreaker ==
  /\ breaker' = ~breaker
  /\ UNCHANGED <<board, ledger, owner, work, overdue, locals, faults, history>>

\* What a job does once its row is settled is not asked any more.
JobEnds(j) ==
  /\ work[j] = "running" /\ ledger[j] = "open"
  /\ \E s \in {"done", "gone"} : work' = [work EXCEPT ![j] = s]
  /\ UNCHANGED <<board, ledger, owner, overdue, breaker, locals, faults, history>>

DeadlinePasses(j) ==
  /\ ledger[j] = "open" /\ j \notin overdue
  /\ overdue' = overdue \cup {j}
  /\ UNCHANGED <<board, ledger, owner, work, breaker, locals, faults, history>>

-----------------------------------------------------------------------------

Init ==
  /\ tracker \in Trackers
  /\ labels = [t \in Tickets |-> {}]
  /\ ledger = [j \in Jobs |-> "none"]
  /\ owner = [j \in Jobs |-> NoTicket]
  /\ work = [j \in Jobs |-> "none"]
  /\ overdue = {}
  /\ breaker = FALSE
  /\ pc = "idle"
  /\ snapshot = [t \in Tickets |-> {}]
  /\ todo = {} /\ hand = {} /\ collected = {} /\ grounded = {}
  /\ halted = FALSE /\ budget = 0 /\ review = 0
  /\ queue = {} /\ session = NoTicket /\ relabel = NoRelabel
  /\ faults = 0
  /\ waiting = {}
  /\ stranded = {}
  /\ adrift = {}

TickStep ==
  \/ Poll \/ CollectJob \/ CollectDone \/ Bring
  \/ SweepBegin \/ SweepJob \/ SweepDone \/ Ground
  \/ DispatchBegin \/ (\E t \in Tickets : Dispatch(t)) \/ TickDone
  \/ RemoveLabel

AgentEnds == AgentAnswers \/ AgentDetaches

Next ==
  \/ TickStep
  \/ AgentSubmits \/ AgentEnds
  \/ CollectSkip \/ SweepRaises \/ Abort
  \/ (\E t \in Tickets : HumanReturns(t))
  \/ MoveBreaker
  \/ (\E j \in Jobs : JobEnds(j) \/ DeadlinePasses(j))

Spec == Init /\ [][Next]_vars

\* The poll loop goes on for ever, an agent session ends, and time passes.
\* No job has to finish and no human has to answer.
Fairness ==
  /\ WF_vars(TickStep)
  /\ WF_vars(AgentEnds)
  /\ \A j \in Jobs : WF_vars(DeadlinePasses(j))

FairSpec == Spec /\ Fairness

-----------------------------------------------------------------------------
(* Properties                                                              *)

\* Every variable has its type.
TypeOK ==
  /\ tracker \in Trackers
  /\ labels \in [Tickets -> SUBSET StateLabel]
  /\ ledger \in [Jobs -> {"none", "open", "resolved", "lost"}]
  /\ owner \in [Jobs -> Tickets \cup {NoTicket}]
  /\ work \in [Jobs -> {"none", "running", "done", "gone"}]
  /\ overdue \in SUBSET Jobs
  /\ stranded \in SUBSET Tickets /\ adrift \in SUBSET Tickets
  /\ breaker \in BOOLEAN /\ halted \in BOOLEAN
  /\ pc \in PC
  /\ snapshot \in [Tickets -> SUBSET StateLabel]
  /\ todo \in SUBSET Jobs /\ hand \in SUBSET Jobs
  /\ collected \in SUBSET Tickets /\ grounded \in SUBSET Tickets
  /\ queue \in SUBSET Tickets /\ waiting \in SUBSET Tickets
  /\ budget \in 0 .. MaxConcurrent /\ review \in 0 .. MaxAwaiting
  /\ session \in Tickets \cup {NoTicket}
  /\ relabel \in [ticket : Tickets \cup {NoTicket}, drop : SUBSET StateLabel,
                  next : PC]
  /\ faults \in 0 .. MaxFaults

\* max_concurrent: sessions and unattended jobs together never exceed it,
\* although the count is taken from a list read before jobs were collected,
\* and although a ticket on GitHub passes through states of two labels.
ConcurrencyBounded == Cardinality(InFlight(labels)) <= MaxConcurrent

Unanswered(t) == \E j \in Jobs : owner[j] = t /\ j \in Open \cup hand

\* "A ticket stuck in progress with nobody working on it is the failure mode
\* the whole registry exists to prevent": a ticket in progress has its session
\* or is being relabelled, an unattended one has an open job or one whose end
\* this tick is about to report.  The known exceptions are the tickets a dead
\* tick held, a job that finished between collect_finished and sweep, and a
\* session that detached without an open job; one job that cannot be collected
\* strands no other.
InFlightIsAttended ==
  /\ \A t \in In({InProgress}, labels) :
       t \in {session, relabel.ticket} \cup stranded
  /\ \A t \in In({Unattended}, labels) : Unanswered(t) \/ t \in stranded \cup adrift

\* runner.py tick: "Collecting first means the sweep only ever sees jobs that
\* genuinely never answered", so that no ticket waits on a job that is over.
UnattendedIsAnswered ==
  \A t \in In({Unattended}, labels) : faults > 0 \/ Unanswered(t) \/ t \in adrift

Claims(t) ==
  StateOf(labels[t]) # InProgress /\ StateOf(labels'[t]) = InProgress

\* The stall on human review works on what is true now: whatever this tick
\* itself brought back, grounded or dispatched, no session starts while
\* max_awaiting_human tickets lie in front of a human.
DispatchStallsOnReview ==
  [][ (\E t \in Tickets : Claims(t))
        => Cardinality(Awaiting(labels)) < MaxAwaiting ]_vars

\* "Moved to needs-human rather than retried": with the GitHub adapter, crashes
\* and half-written labels included, a ticket handed to a human is not
\* dispatched before the human sends it back.  The one gap is a ticket whose
\* job was collected in the same tick.
RetriedByHumanOnly ==
  [][ \A t \in Tickets :
        Claims(t) => tracker = "linear" \/ t \notin waiting \/ t \in collected ]_vars

\* "Moved to needs-human rather than retried", whatever the adapter.
NeverRetried == [][ \A t \in Tickets : Claims(t) => t \notin waiting ]_vars

\* Every dispatched ticket comes back: a session ends in a verdict, a human or
\* a job, and an unattended job in one of the first two, its deadline passed,
\* unless the ticket is one that InFlightIsAttended excepts.  It takes a sweep
\* that gets through now and then: one poll that raises in every tick keeps every
\* later overdue job, and its ticket, where it is.
DispatchEnds ==
  []<><<SweepDone>>_vars =>
    \A t \in Tickets :
      t \in InFlight(labels) ~> t \notin InFlight(labels) \/ t \in stranded \cup adrift

=============================================================================
