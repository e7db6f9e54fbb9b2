------------------------------- MODULE Grants -------------------------------
(***************************************************************************)
(* Who granted this dispatch?  A tick lists the open tickets and asks, for *)
(* each that may be dispatched, which party most recently applied          *)
(* agent-ready to it.  Both questions are walks over pages (_walk), and    *)
(* while a walk goes from page to page humans and bots apply and remove    *)
(* the label, and humans close, reopen and hand back tickets.  A page here *)
(* is one item; a walk is all or nothing.  Between the two the tick brings *)
(* in finished and lost jobs; what jobs do, and the limits of the dispatch *)
(* loop, are the matter of Runner and a choice here.                       *)
(*                                                                         *)
(* The servers, as the adapters use them.  GitHub numbers its pages: issue *)
(* k of those open now, in the order of their numbers, and event k of a    *)
(* timeline that only grows at its end.  Linear follows a cursor, newest   *)
(* change first: what changes behind the cursor is not met again.          *)
(***************************************************************************)
EXTENDS Integers, Sequences, FiniteSets, FiniteSetsExt, SequencesExt

CONSTANTS
  Tickets,     \* numbers, in the order the tickets were created
  PullRequests,\* numbers of what GitHub lists among its issues and is none
  Parties,     \* who may apply agent-ready: accounts, bots, a deleted account
  Humans,      \* human_allowlist
  Trackers,    \* the adapters a runner may be wired with
  MaxEvents,   \* bound on applications of the label, all tickets together
  MaxTime,     \* bound on the clock, whose unit is the timestamps' precision
  MaxMoves     \* bound on tickets closed, reopened and handed back

ASSUME GrantsAssumption ==
  /\ Tickets \cup PullRequests \subseteq Nat \ {0}
  /\ IsFiniteSet(Tickets) /\ IsFiniteSet(PullRequests)
  /\ Humans \subseteq Parties
  /\ Trackers \subseteq {"github", "linear"}
  /\ MaxEvents \in Nat /\ MaxTime \in Nat /\ MaxMoves \in Nat

VARIABLES
  tracker,     \* the adapter in use; it never changes
  open,        \* tickets and pull requests that are open
  ready,       \* tickets that carry agent-ready
  busy,        \* tickets whose state, or needs-human label, eligibility refuses
  running,     \* tickets that have an open compute job
  history,     \* ticket -> applications of agent-ready, as they happened
  now,         \* the server's clock
  pc,          \* what the tick does; its labels are in TypeOK
  list,        \* the tickets read so far, as they were when they were read
  unread,      \* Linear: tickets the listing's cursor has still to meet
  subject,     \* the ticket being checked
  read,        \* pages of the walk read so far
  upto,        \* how much of its history the walk covers
  collected,   \* tickets whose job this tick has brought back
  grounded,    \* tickets whose job this tick has found lost
  granted,     \* history: tickets a human's grant stood on since the tick began
  stayed,      \* history: tickets the listing has no excuse to miss
  shifted,     \* history: pages moved back under this listing
  moves

server == <<open, ready, busy, running, history, now>>
moved  == <<collected, grounded>>
tick   == <<pc, list, unread, subject, read, upto, moved>>
ghosts == <<granted, stayed, shifted>>
vars   == <<tracker, server, tick, ghosts, moves>>

-----------------------------------------------------------------------------
(* The server                                                              *)

\* What the adapter's listing walks over.
Items == IF tracker = "github" THEN Tickets \cup PullRequests ELSE Tickets

\* The grant that counts: the label is on, and a human was the last to apply it.
Granted(t) ==
  /\ t \in ready
  /\ history[t] # <<>>
  /\ Last(history[t]).by \in Humans

Applied == MapThenSumSet(LAMBDA t : Len(history[t]), Tickets)

\* Linear: a ticket that changes moves ahead of the listing's cursor.
Touch(t) ==
  IF tracker = "linear"
  THEN /\ unread' = unread \ {t}
       /\ stayed' = stayed \ {t}
  ELSE UNCHANGED <<unread, stayed>>

Apply(t, p) ==
  /\ t \notin ready
  /\ Applied < MaxEvents
  /\ ready' = ready \cup {t}
  /\ history' = [history EXCEPT ![t] = Append(@, [by |-> p, at |-> now])]
  /\ granted' = IF p \in Humans THEN granted \cup {t} ELSE granted
  /\ Touch(t)
  /\ UNCHANGED <<tracker, open, busy, running, now, pc, list, subject, read, upto, moved,
                 shifted, moves>>

\* A human revokes, or the workflow that strips what a bot applied.
Revoke(t) ==
  /\ t \in ready
  /\ ready' = ready \ {t}
  /\ Touch(t)
  /\ UNCHANGED <<tracker, open, busy, running, history, now, pc, list, subject, read, upto,
                 moved, granted, shifted, moves>>

Move == moves < MaxMoves /\ moves' = moves + 1

\* GitHub: the pages behind a closed issue move up by one.
Close(t) ==
  /\ t \in open /\ Move
  /\ open' = open \ {t}
  /\ unread' = unread \ {t}
  /\ stayed' = IF tracker = "github" THEN {u \in stayed : u < t} ELSE stayed \ {t}
  /\ UNCHANGED <<tracker, ready, busy, running, history, now, pc, list, subject, read, upto,
                 moved, granted, shifted>>

\* GitHub: the pages behind a reopened issue move back by one.
Reopen(t) ==
  /\ t \notin open /\ Move
  /\ open' = open \cup {t}
  /\ shifted' = (shifted \/ (tracker = "github" /\ pc = "listing"))
  /\ UNCHANGED <<tracker, ready, busy, running, history, now, tick, granted, stayed>>

\* A human moves a ticket out of the state the runner left it in.
HandBack(t) ==
  /\ t \in busy /\ Move
  /\ busy' = busy \ {t}
  /\ Touch(t)
  /\ UNCHANGED <<tracker, open, ready, running, history, now, pc, list, subject, read, upto,
                 moved, granted, shifted>>

Clock ==
  /\ now < MaxTime
  /\ now' = now + 1
  /\ UNCHANGED <<tracker, open, ready, busy, running, history, tick, ghosts, moves>>

-----------------------------------------------------------------------------
(* Listing: open_tickets                                                   *)

\* Mutant of NoTick: what was collected outlives the tick that collected it.
NoTickKeepingList ==
  /\ pc' = "idle" /\ list' = list /\ unread' = {}
  /\ subject' = 0 /\ read' = 0 /\ upto' = 0
  /\ collected' = {} /\ grounded' = {}
  /\ granted' = {} /\ stayed' = {} /\ shifted' = FALSE

\* The end of a tick, by return or by exception: what it read is local to it.
NoTick ==
  /\ pc' = "idle" /\ list' = <<>> /\ unread' = {}
  /\ subject' = 0 /\ read' = 0 /\ upto' = 0
  /\ collected' = {} /\ grounded' = {}
  /\ granted' = {} /\ stayed' = {} /\ shifted' = FALSE

StartTick ==
  /\ pc = "idle"
  /\ pc' = "listing"
  /\ unread' = IF tracker = "linear" THEN open \cap Tickets ELSE {}
  /\ granted' = {t \in Tickets : Granted(t)}
  /\ stayed' = open \cap Tickets
  /\ UNCHANGED <<tracker, server, list, subject, read, upto, moved, shifted, moves>>

Snapshot(t) == [id |-> t, ready |-> t \in ready, busy |-> t \in busy]

Listed == stayed' = IF pc' = "listing" THEN stayed ELSE {}

\* Issue or pull request k of those open now.
Before(t) == {u \in open : u < t}
OnPage(k) == {t \in open : Cardinality(Before(t)) = k - 1}

\* The Link header names the next page as long as there is one.
ListGitHub ==
  /\ pc = "listing" /\ tracker = "github"
  /\ \/ \E t \in OnPage(read + 1) \cap Tickets : list' = Append(list, Snapshot(t))
     \/ OnPage(read + 1) \cap Tickets = {} /\ UNCHANGED list
  /\ IF read + 1 < Cardinality(open)
     THEN pc' = "listing" /\ read' = read + 1
     ELSE pc' = "settling" /\ read' = 0
  /\ Listed
  /\ UNCHANGED <<tracker, server, unread, subject, upto, moved, granted, shifted, moves>>

ListLinear ==
  /\ pc = "listing" /\ tracker = "linear"
  /\ \/ \E t \in unread :
          /\ list' = Append(list, Snapshot(t))
          /\ unread' = unread \ {t}
     \/ unread = {} /\ UNCHANGED <<list, unread>>
  /\ pc' = IF unread' = {} THEN "settling" ELSE "listing"
  /\ Listed
  /\ UNCHANGED <<tracker, server, subject, read, upto, moved, granted, shifted, moves>>

-----------------------------------------------------------------------------
(* Settling: _collect_finished and _reconcile_lost                         *)

\* Needs Human is a label, which eligibility refuses, with GitHub's adapter only.
Moved(review, human) ==
  IF tracker = "github" THEN busy \cup review \cup human ELSE (busy \cup review) \ human

\* A ticket whose job finished goes to review or to a human, one whose job is
\* lost to a human, whatever the list says of it.  It may have other jobs.
Settle ==
  /\ pc = "settling"
  /\ pc' = "choosing"
  /\ \E done \in SUBSET running, lost \in SUBSET running, rest \in SUBSET running :
     \E review \in SUBSET (done \ lost) :
       /\ done \cup lost \cup rest = running
       /\ running' = rest
       /\ busy' = Moved(review, (done \cup lost) \ review)
       /\ collected' = done
       /\ grounded' = lost
  /\ UNCHANGED <<tracker, open, ready, history, now, list, unread, subject, read, upto,
                 ghosts, moves>>

-----------------------------------------------------------------------------
(* Checking: eligibility and label_actor, for one ticket after the other   *)

\* Mutant of Dispatchable: the state is not asked.
DispatchableAnyState(entry) == entry.ready

\* What eligibility decides from the listing alone.
Dispatchable(entry) == entry.ready /\ ~entry.busy

\* Oldest first, whatever order the pages came in.
Candidates ==
  {i \in DOMAIN list : Dispatchable(list[i]) /\ \A j \in DOMAIN list :
     Dispatchable(list[j]) => list[i].id <= list[j].id}

\* GitHub's label_actor does not ask whether the label is still on.
Choose ==
  /\ pc = "choosing"
  /\ \E i \in Candidates :
       /\ \A j \in Candidates : i <= j
       /\ subject' = list[i].id
       /\ list' = RemoveAt(list, i)
  /\ pc' = IF tracker = "linear" THEN "labels" ELSE "history"
  /\ UNCHANGED <<tracker, server, unread, read, upto, moved, ghosts, moves>>

EndTick ==
  /\ pc = "choosing" /\ Candidates = {}
  /\ NoTick
  /\ UNCHANGED <<tracker, server, moves>>

\* Back to the tickets that are left.
Checked ==
  /\ pc' = "choosing"
  /\ subject' = 0 /\ read' = 0 /\ upto' = 0
  /\ UNCHANGED <<list, unread, moved>>

\* _label_id: the label has to be on the ticket now.
AskLabel ==
  /\ pc = "labels"
  /\ IF subject \in ready
     THEN /\ pc' = "history"
          /\ UNCHANGED <<list, unread, subject, read, upto, moved>>
     ELSE Checked
  /\ UNCHANGED <<tracker, server, ghosts, moves>>

\* A timeline is read to where it ends when its last page is fetched, a history
\* from where it ended when its first was.
ReadHistory ==
  /\ pc = "history"
  /\ LET end == IF tracker = "linear" /\ read > 0 THEN upto ELSE Len(history[subject]) IN
     /\ upto' = end
     /\ read' = read + 1
     /\ pc' = IF read + 1 < end THEN "history" ELSE "deciding"
  /\ UNCHANGED <<tracker, server, list, unread, subject, moved, ghosts, moves>>

\* Mutant of Newest: the order of arrival decides between equal instants.
NewestArrival(seen) ==
  IF seen = <<>> THEN {}
  ELSE LET last == Max({seen[i].at : i \in DOMAIN seen}) IN
       {i \in DOMAIN seen : seen[i].at = last /\ \A j \in DOMAIN seen :
          seen[j].at = last => i <= j}

\* Mutant of Newest: every application has a say.
NewestOfAll(seen) == DOMAIN seen

\* The applications that share the newest instant.
Newest(seen) == {i \in DOMAIN seen : \A j \in DOMAIN seen : seen[j].at <= seen[i].at}

\* Who they name; a tie between different parties cannot be decided.
Contenders(seen) == {seen[i].by : i \in Newest(seen)}

Seen == SubSeq(history[subject], 1, upto)

ByHuman == \E h \in Humans : Contenders(Seen) = {h}

\* The whole session: it ends in progress no more, in review, on a job or with a
\* human, and may leave a job behind wherever it ends.  That the ticket has been
\* moved since it was listed is noticed only if its job was lost.
Dispatch ==
  /\ pc = "deciding" /\ ByHuman
  /\ subject \notin grounded
  /\ busy' \in {Moved({subject}, {}), Moved({}, {subject})}
  /\ running' \in {running, running \cup {subject}}
  /\ Checked
  /\ UNCHANGED <<tracker, open, ready, history, now, ghosts, moves>>

\* Its job was lost in this tick, the breaker is open, or a limit is reached.
HoldBack ==
  /\ pc = "deciding" /\ ByHuman
  /\ Checked
  /\ UNCHANGED <<tracker, server, ghosts, moves>>

\* A bot, a stranger, a deleted account, or nobody applied it.
Decline ==
  /\ pc = "deciding"
  /\ Contenders(Seen) \subseteq Parties \ Humans /\ Cardinality(Contenders(Seen)) <= 1
  /\ Checked
  /\ UNCHANGED <<tracker, server, ghosts, moves>>

\* UnorderableEntry, UnorderableEvent: raised through eligibility and the tick.
RefuseTie ==
  /\ pc = "deciding"
  /\ Cardinality(Contenders(Seen)) > 1
  /\ NoTick
  /\ UNCHANGED <<tracker, server, moves>>

\* Mutant of RefuseWalk: what has been read so far will do.
RefuseWalkWithPrefix ==
  /\ pc \in {"listing", "history"}
  /\ pc' = IF pc = "listing" THEN "settling" ELSE "deciding"
  /\ upto' = read
  /\ UNCHANGED <<tracker, server, list, unread, subject, read, moved, ghosts, moves>>

\* An error, a connection that is null or cannot be found, a body that is no
\* list, a next page without a cursor or one already read, too many pages or
\* labels, an instant that cannot be placed: every one of them raises, in a
\* listing or a check.  So do the sweep's polls and the writes of a tick, before
\* or after what they stand for has happened: the tick ends where it is.
RefuseWalk ==
  /\ \/ pc \in {"listing", "settling", "labels", "history"}
     \/ pc = "choosing" /\ Candidates # {}
  /\ NoTick
  /\ UNCHANGED <<tracker, server, moves>>

-----------------------------------------------------------------------------

Init ==
  /\ tracker \in Trackers
  /\ open \in {Items, Tickets}
  /\ ready = {} /\ busy = {} /\ running = {}
  /\ history = [t \in Tickets |-> <<>>]
  /\ now = 0
  /\ pc = "idle" /\ list = <<>> /\ unread = {}
  /\ subject = 0 /\ read = 0 /\ upto = 0
  /\ collected = {} /\ grounded = {}
  /\ granted = {} /\ stayed = {} /\ shifted = FALSE
  /\ moves = 0

Others ==
  \/ Clock
  \/ \E t \in Tickets :
       \/ \E p \in Parties : Apply(t, p)
       \/ Revoke(t) \/ HandBack(t)
  \/ \E t \in Items : Close(t) \/ Reopen(t)

Runner ==
  \/ StartTick \/ ListGitHub \/ ListLinear \/ Settle \/ Choose \/ EndTick
  \/ AskLabel \/ ReadHistory \/ Dispatch \/ HoldBack \/ Decline \/ RefuseTie

Next == Others \/ Runner \/ RefuseWalk

Spec == Init /\ [][Next]_vars

\* The runner polls for ever and every walk has finitely many pages.  Nothing says
\* that a walk is answered.
FairSpec == Spec /\ WF_vars(Runner)

-----------------------------------------------------------------------------
(* Properties                                                              *)

Entry == [id : Tickets, ready : BOOLEAN, busy : BOOLEAN]

\* Every variable has its type, a walk covers what exists, and "nothing partially
\* collected escapes" a tick.
TypeOK ==
  /\ tracker \in Trackers
  /\ open \subseteq Items /\ ready \subseteq Tickets
  /\ busy \subseteq Tickets /\ running \subseteq Tickets
  /\ history \in [Tickets -> Seq([by : Parties, at : 0 .. MaxTime])]
  /\ now \in 0 .. MaxTime
  /\ pc \in {"idle", "listing", "settling", "choosing", "labels", "history", "deciding"}
  /\ list \in Seq(Entry) /\ (pc = "idle" => list = <<>>)
  /\ unread \subseteq open \cap Tickets
  /\ subject \in Tickets \cup {0} /\ (pc \in {"labels", "history", "deciding"} => subject # 0)
  /\ read \in Nat /\ upto \in Nat
  /\ subject # 0 => upto <= Len(history[subject])
  /\ collected \subseteq Tickets /\ grounded \subseteq Tickets
  /\ granted \subseteq Tickets /\ stayed \subseteq open \cap Tickets /\ shifted \in BOOLEAN
  /\ moves \in 0 .. MaxMoves

\* Invariant 7, "which human applied it": nothing is dispatched unless, at some
\* instant of this very tick, the label was on the ticket and a human on the
\* allowlist was the last to have applied it.  A grant that was superseded or
\* revoked before the tick began never counts, however the pages fell.
GrantStoodDuringTick ==
  [][Dispatch => subject \in granted]_vars

\* "Every item, or an exception": a listing that returns has every ticket that
\* stayed open and where it was.  What it may miss are tickets that changed
\* (Linear) or stood behind an issue that was closed meanwhile (GitHub).
ListingIsWhole ==
  [][ pc = "listing" /\ pc' = "settling" => stayed \subseteq {list'[i].id : i \in DOMAIN list'} ]_vars

\* Re-dispatching "would start a second GPU job": the runner does not dispatch
\* what it has itself put in progress, before a human or on a job, unless GitHub's
\* pages moved back under the listing and it was listed twice, or it was this very
\* tick that brought it back, a human having returned it while its job ran.
DispatchedOnce ==
  [][Dispatch /\ subject \in busy => shifted \/ subject \in collected]_vars

Ambiguous(t) ==
  \E i \in DOMAIN history[t] :
    history[t][i].at = Last(history[t]).at /\ history[t][i].by # Last(history[t]).by

\* A ticket a human has granted is asked about again and again, and found to be
\* granted: it is dispatched unless a lost job, the breaker or a limit of the loop
\* holds it back.  It takes walks that are answered from some time on, and no tie
\* for the newest grant of any ticket: that raises in every tick and blocks all.
GrantedIsDispatched ==
  <>[][~RefuseWalk]_vars =>
    \A t \in Tickets :
      <>[]( /\ t \in open \ busy /\ Granted(t)
            /\ \A u \in Tickets : ~Ambiguous(u) )
        => []<><<(Dispatch \/ HoldBack) /\ subject = t>>_vars

-----------------------------------------------------------------------------
(* The inductive invariant behind the safety properties.                   *)

\* A human among the applications from the n-th on has granted t in this tick.
Stood(t, n) ==
  \A i \in n .. Len(history[t]) : history[t][i].by \in Humans => t \in granted

\* The label was on t at some instant of this tick.
Carried(t) == history[t] # <<>> /\ Stood(t, Len(history[t]))

\* The server: applications are in the order of their instants, and the label is
\* on nothing it was never applied to.
ServerInv ==
  \A t \in Tickets :
    /\ \A i, j \in DOMAIN history[t] : i <= j => history[t][i].at <= history[t][j].at
    /\ \A i \in DOMAIN history[t] : history[t][i].at <= now
    /\ t \in ready => history[t] # <<>>

\* What the walks have seen of a grant is not older than the tick.
GrantInv ==
  /\ pc # "idle" => \A t \in Tickets : Granted(t) => t \in granted
  /\ \A i \in DOMAIN list : list[i].ready => Carried(list[i].id)
  /\ subject # 0 => /\ Carried(subject)
                    /\ upto > 0 => Stood(subject, upto)
  /\ pc = "deciding" \/ (pc = "history" /\ read > 0) => upto > 0

Ids == {list[i].id : i \in DOMAIN list}

\* What the listing may not miss is listed or still ahead.
AheadInv ==
  /\ pc # "listing" => stayed = {}
  /\ tracker = "linear" => stayed \subseteq Ids \cup unread
  /\ tracker = "github" =>
       /\ unread = {}
       /\ \A t \in stayed \ Ids : Cardinality(Before(t)) >= read

\* A ticket that has been moved since it was listed was moved by this tick.
Known ==
  \A i \in DOMAIN list :
    list[i].id \in busy => list[i].busy \/ list[i].id \in collected \cup grounded

\* Nothing is listed twice, or dispatched and still on the list, unless pages
\* moved back; what this tick has moved it knows.
OnceInv ==
  ~shifted =>
    /\ \A i, j \in DOMAIN list : list[i].id = list[j].id => i = j
    /\ subject \notin Ids
    /\ Known
    /\ Ids \cap unread = {}
    /\ pc = "listing" /\ tracker = "github" =>
         \A t \in Ids : Cardinality({u \in open : u <= t}) <= read

\* What the tick uses only while it walks or asks.
ControlInv ==
  /\ pc \in {"idle", "listing", "settling", "choosing"} => subject = 0
  /\ pc \in {"idle", "listing", "settling", "choosing", "labels"} => upto = 0
  /\ pc \in {"idle", "settling", "choosing", "labels"} => read = 0
  /\ pc = "listing" /\ tracker = "linear" => read = 0
  /\ pc \in {"idle", "listing", "settling"} => collected = {} /\ grounded = {}

\* What is being asked about is idle, with the exceptions of DispatchedOnce and of
\* what is held back.
AskedIdle ==
  pc \in {"labels", "history", "deciding"} /\ subject \in busy =>
    shifted \/ subject \in collected \cup grounded

IInv ==
  /\ TypeOK
  /\ ControlInv
  /\ ServerInv
  /\ GrantInv
  /\ AheadInv
  /\ OnceInv
  /\ AskedIdle

=============================================================================
