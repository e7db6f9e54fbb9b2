---------------------------- MODULE Adjudication ----------------------------
(***************************************************************************)
(* How a claim becomes a verdict (verifier.py, pipeline.py).  One process  *)
(* owns an append-only ledger that holds preregistrations and verdicts in  *)
(* one order.  Agents file rules through it and train; a candidate is      *)
(* judged against what the ledger says at that moment and the verdict is   *)
(* appended, or, on the runner's lane, only reported.  The process may die *)
(* in the middle of a write.                                               *)
(***************************************************************************)
EXTENDS Gates, SequencesExt

CONSTANTS
  Sessions,    \* agent sessions; each is also the ticket it works for
  ExpIds,      \* experiment ids, fresh or pinned by an id factory
  Rules,       \* the rules an agent tries to file
  Evidence,    \* what a session's training may leave behind
  Jobs,        \* job handle -> what the registry's log says of it
  Grouped,     \* does the task declare a DatasetGrouping
  NotRunning,  \* a session that has not begun to train
  Unjudged,    \* an experiment without a verdict
  NoVerdict,   \* nothing was just reported
  MaxRows      \* bound on the ledger

ASSUME BoundAssumption == MaxRows \in Nat

\* What a session's training leaves behind lists its runs in their order.
ASSUME EvidenceAssumption == \A e \in Evidence : e.runs \in Seq(Range(e.runs))

\* Having no verdict differs from having one that no rule preceded.
ASSUME UnjudgedAssumption == \A known \in SUBSET Rules : known # Unjudged

VARIABLES
  ledger,      \* the rows, in the order they were appended
  tail,        \* how the file ends: "ok", "bare" (no newline) or "torn"
  knew,        \* history: session -> the rules on file when its first seed ran
  shown        \* the ticket on which the runner has just reported a promotion

vars == <<ledger, tail, knew, shown>>

-----------------------------------------------------------------------------
(* Reading.  Every reader parses the whole file, so one torn row raises.   *)

\* Mutant of Readable: a line that does not parse is skipped.
ReadableAlways == TRUE

Readable == tail # "torn"

IsRule(i)    == ledger[i].kind = "prereg"
IsVerdict(i) == ledger[i].kind = "verdict"

\* Mutant of Filed: every hash in the file counts, a verdict's too.
FiledAnywhere == {ledger[i].rule : i \in DOMAIN ledger}

Filed == {ledger[i].rule : i \in {j \in DOMAIN ledger : IsRule(j)}}

RulePositions(r)   == {i \in DOMAIN ledger : IsRule(i) /\ ledger[i].rule = r}
VerdictsOf(x)      == {i \in DOMAIN ledger : IsVerdict(i) /\ ledger[i].exp = x}

First(positions) == IF positions = {} THEN 0 ELSE Min(positions)

PositionOfPrereg(r) == First(RulePositions(r))

\* Mutant of PositionOfVerdict: the newest verdict of the experiment.
PositionOfLastVerdict(x) == IF VerdictsOf(x) = {} THEN 0 ELSE Max(VerdictsOf(x))

PositionOfVerdict(x) == First(VerdictsOf(x))

\* Mutant of VerdictMetrics: the first verdict the experiment was given.
FirstVerdictMetrics(x) ==
  IF VerdictsOf(x) = {} THEN <<>> ELSE ledger[Min(VerdictsOf(x))].metrics

VerdictMetrics(x) ==
  IF VerdictsOf(x) = {} THEN <<>> ELSE ledger[Max(VerdictsOf(x))].metrics

\* Rules some promoted verdict cites.
Won == {ledger[i].rule : i \in {j \in DOMAIN ledger : IsVerdict(j) /\ ledger[j].rule # NoRule}}

\* Rows that filed a rule of lineage x nothing was promoted under.
Unpromoted(x) ==
  LET won == Won IN
  {i \in DOMAIN ledger : IsRule(i) /\ ledger[i].rule.parent = x /\ ledger[i].rule \notin won}

\* Mutant of NonPromotingCount: the attempt being judged is left out.
NonPromotingCountBefore(x) == Max({0, Cardinality(Unpromoted(x)) - 1})

\* Rows, not rules: a rule filed twice counts twice.
NonPromotingCount(x) ==
  IF x = NoExp THEN 0 ELSE Cardinality(Unpromoted(x))

\* _prereg_ctx raises when a candidate and its rule disagree on the parent.
ConsistentLineage(parent, r) == r \in Filed => r.parent = parent

PreregCtx(x, parent, r, exploratory) ==
  LET found == r \in Filed IN
  [prereg |-> IF found THEN r ELSE NoRule,
   exploratory |-> exploratory,
   filed |-> Filed,
   attempts |-> NonPromotingCount(IF found THEN r.parent ELSE parent),
   parentMetrics |-> IF found /\ r.parent # NoExp THEN VerdictMetrics(r.parent) ELSE <<>>,
   preregPosition |-> PositionOfPrereg(r),
   verdictPosition |-> PositionOfVerdict(x)]

-----------------------------------------------------------------------------
(* Writing: one line, appended.  A write that fails, or whose process      *)
(* dies, may leave nothing (EndUnrecorded), part of the line, or all of it *)
(* without the newline; the next line is then glued to what is there.      *)

Write(row) ==
  IF tail = "ok" THEN /\ ledger' = Append(ledger, row) /\ UNCHANGED tail
                 ELSE /\ tail' = "torn" /\ UNCHANGED ledger

WriteFails(row) ==
  \/ tail' = "torn" /\ UNCHANGED ledger
  \/ tail = "ok" /\ tail' = "bare" /\ ledger' = Append(ledger, row)

Log(row) ==
  /\ Write(row) \/ WriteFails(row)
  /\ shown' = NoVerdict

Room == Len(ledger) < MaxRows

-----------------------------------------------------------------------------
(* Agents                                                                  *)

\* append_prereg, at any moment of anybody's run.
FileRule(r) ==
  /\ Room
  /\ WellFormedRule(r)
  /\ Log([kind |-> "prereg", rule |-> r])
  /\ UNCHANGED knew

\* The first seed is about to run.
Begin(s) ==
  /\ knew[s] = NotRunning
  /\ knew' = [knew EXCEPT ![s] = Filed]
  /\ shown' = NoVerdict
  /\ UNCHANGED <<ledger, tail>>

-----------------------------------------------------------------------------
(* Verdicts.  What nobody reads back is not kept: a row has a rule only if *)
(* it was promoted and cites one, and says on which seeds, and whether its *)
(* evidence was plain, only if that rule governed it.                      *)

Verdict(x, metrics) ==
  [kind |-> "verdict", exp |-> x, metrics |-> metrics, rule |-> NoRule,
   governed |-> FALSE, seeds |-> <<>>, plain |-> TRUE]

Citation(x, e, r) ==
  [kind |-> "verdict", exp |-> x, metrics |-> MeanMetrics(e), rule |-> r,
   governed |-> FALSE, seeds |-> <<>>, plain |-> TRUE]

Promotion(x, e, r) ==
  [kind |-> "verdict", exp |-> x, metrics |-> MeanMetrics(e), rule |-> r,
   governed |-> TRUE, seeds |-> Seeds(e), plain |-> Plain(e)]

\* Candidates that can be built at all, and their means.
Candidates == {e \in Evidence : Adjudicable(e)}
Means == {MeanMetrics(e) : e \in Candidates}

\* The gates every GateVerifier runs; they read nothing but the evidence.
PassesGates(e) ==
  /\ GateNoLeakage(e) /\ GateReproducible(e) /\ GateSeedVariance(e) /\ GateCost(e)
  /\ GateNoSingleSeedDominance(e) /\ GateNoGroupLeakage(e, Grouped)
  /\ GateNoTestTampering(e.diff)

Passing == {e \in Candidates : PassesGates(e)}

\* The rules this evidence is promoted under as experiment x.  A candidate also
\* names its lineage, and may be marked exploratory.
PromotableUnder(e, x) ==
  {r \in Filed :
     \E parent \in ExpIds \cup {NoExp}, exploratory \in BOOLEAN :
       LET ctx == PreregCtx(x, parent, r, exploratory) IN
       /\ ConsistentLineage(parent, r)
       /\ GatePreregistration(e, ctx)
       /\ GatePreregChurn(ctx)}

\* A session hands over what it trained once every seed has run.
HandsOver(s) ==
  /\ knew[s] # NotRunning
  /\ knew' = [knew EXCEPT ![s] = NotRunning]

\* run_and_record with GateVerifier(require_prereg=True).  Any candidate may be
\* rejected, if only because it cites nothing.
RunAndRecord(s) ==
  /\ HandsOver(s)
  /\ Readable
  /\ Room
  /\ \E x \in ExpIds :
       \/ \E e \in Passing : \E r \in PromotableUnder(e, x) :
            Log(Promotion(x, e, r))
       \/ \E m \in Means : Log(Verdict(x, m))

\* Rules that have a hash.  Whether they are filed is not asked of who cites one.
Citable == {r \in Rules : WellFormedRule(r)}

\* run_and_record with a verifier that reads no ledger: GateVerifier() without
\* preregistration records the means and the hash the candidate cites, whichever
\* it is, ExitCodeVerifier records neither.
RunUngoverned(s) ==
  /\ HandsOver(s)
  /\ Room
  /\ \E x \in ExpIds :
       \/ \E m \in Means \cup {<<>>} : Log(Verdict(x, m))
       \/ \E e \in Passing, r \in Citable : Log(Citation(x, e, r))

\* The runner's _adjudicate: it names the ticket and asks the registry, it
\* comments the verdict on the ticket, and it appends nothing.
Report(s) ==
  /\ HandsOver(s)
  /\ Readable
  /\ \E e \in Passing :
       /\ GateAttestedRun(e, Jobs, s)
       /\ \E r \in PromotableUnder(e, NoExp) :   \* its id is always fresh
            shown' = s
  /\ UNCHANGED <<ledger, tail>>

\* No row and no promotion: the run failed, its records are no numbers, the
\* verifier raised, or the runner reported a rejection.
EndUnrecorded(s) ==
  /\ HandsOver(s)
  /\ shown' = NoVerdict
  /\ UNCHANGED <<ledger, tail>>

-----------------------------------------------------------------------------

Init ==
  /\ ledger = <<>>
  /\ tail = "ok"
  /\ knew = [s \in Sessions |-> NotRunning]
  /\ shown = NoVerdict

Next ==
  \/ \E r \in Rules : FileRule(r)
  \/ \E s \in Sessions :
       Begin(s) \/ RunAndRecord(s) \/ RunUngoverned(s) \/ Report(s) \/ EndUnrecorded(s)

Spec == Init /\ [][Next]_vars

-----------------------------------------------------------------------------
(* Properties                                                              *)

Row ==
  [kind : {"prereg"}, rule : Citable]
    \cup [kind : {"verdict"}, exp : ExpIds, rule : Rules \cup {NoRule},
          governed : BOOLEAN, plain : BOOLEAN,
          seeds : {<<>>} \cup {Seeds(e) : e \in Candidates},
          metrics : {<<>>} \cup Means]

\* Every variable has its type.
TypeOK ==
  /\ ledger \in Seq(Row)
  /\ tail \in {"ok", "bare", "torn"}
  /\ knew \in [Sessions -> {NotRunning} \cup SUBSET Rules]
  /\ shown \in {NoVerdict} \cup Sessions

\* Promoted under a rule, and promoted while citing one.
Promoted  == {i \in DOMAIN ledger : IsVerdict(i) /\ ledger[i].governed}
Citations == {i \in DOMAIN ledger :
               IsVerdict(i) /\ ledger[i].rule # NoRule /\ ~ledger[i].governed}

\* The newest verdict of experiment x above position i.
Precedent(x, i) == {j \in VerdictsOf(x) : j < i /\ \A k \in VerdictsOf(x) : k < i => k <= j}

\* "Each row reconstructs the verdict alone": read back long after, a promoted
\* row names a rule whose baseline is what its parent had recorded last at that
\* point; and the row still shows a gain over it, and no guardrail worse than it,
\* unless a run gave a Boolean for a metric, or one by the primary field's name.
ClaimIsAudited ==
  \A i \in Promoted :
    LET r == ledger[i].rule IN
    \E j \in Precedent(r.parent, i) :
      LET was == ledger[j].metrics
          is  == ledger[i].metrics
      IN /\ was[r.metric][1] = r.base * was[r.metric][2]
         /\ ledger[i].plain =>
              /\ Gain(r, is[r.metric]) >= r.effect * is[r.metric][2]
              /\ \A g \in r.guards : ~Regressed(g, is[g.metric], was[g.metric])

\* The seed lottery: no promotion rests on fewer than three different seeds, and
\* they are those of a rule filed above it.
PromotionRestsOnSeeds ==
  \A i \in Promoted :
    /\ Cardinality(ToSet(ledger[i].seeds)) >= 3
    /\ \E j \in RulePositions(ledger[i].rule) :
         j < i /\ ToSet(ledger[i].seeds) = ToSet(ledger[j].rule.seeds)

\* An experiment that already has a verdict, promoted or not, is never promoted
\* under a rule filed after that verdict, however often it is judged again.
NoHindsight ==
  \A i \in Promoted :
    \A j \in VerdictsOf(ledger[i].exp) :
      \E k \in RulePositions(ledger[i].rule) : k < i /\ k < j

Exhausted(x) == Cardinality({r \in Filed \ Won : r.parent = x}) > MaxAttempts

\* "S-hacking": while more than MaxAttempts rules of a lineage are on file with
\* nothing promoted that cites them, no rule promotes anything of that lineage;
\* and nothing changes that but a verdict without preregistration that cites one.
ExhaustedStaysClosed ==
  [][ \A x \in ExpIds : Exhausted(x) =>
        /\ \A i \in Promoted' \ Promoted : ledger'[i].rule.parent # x
        /\ Exhausted(x)' \/ \E i \in Citations' \ Citations : ledger'[i].rule.parent = x ]_vars

\* A torn row makes the whole ledger unreadable: whatever is appended to it
\* afterwards, nothing is promoted and no promotion is shown.
TornLedgerPromotesNothing ==
  [][ tail = "torn" => Won' = Won /\ shown' = NoVerdict /\ tail' = "torn" ]_vars

\* "Must happen before the run it governs": a rule wins only with a run that
\* began when the rule was already filed.
RulePrecedesRun ==
  [][ \A s \in Sessions : \A i \in Promoted' \ Promoted :
        knew[s] # NotRunning /\ knew'[s] = NotRunning => ledger'[i].rule \in knew[s] ]_vars

\* The rules something was promoted under, and those an ungoverned verdict cites.
Winners == {ledger[i].rule : i \in Promoted}
Quoted  == {ledger[i].rule : i \in Citations}

Record ==
  INSTANCE PromotionRecord WITH
    ParentOf <- [r \in Rules |-> r.parent],
    Limit    <- MaxAttempts,
    filed    <- Filed,
    won      <- Winners,
    cited    <- Quoted,
    judged   <- [x \in ExpIds |->
                  IF VerdictsOf(x) = {} THEN Unjudged
                  ELSE {r \in Filed : PositionOfPrereg(r) < PositionOfVerdict(x)}]

\* Whatever is filed, re-filed, judged, re-judged, lost or torn, the ledger
\* promises what PromotionRecord does.
ImplementsPromotionRecord == Record!Spec

=============================================================================
