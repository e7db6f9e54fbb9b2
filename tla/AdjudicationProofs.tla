------------------------- MODULE AdjudicationProofs -------------------------
(***************************************************************************)
(* Proofs about the verdict ledger, for any sessions, rules, evidence and  *)
(* jobs and a ledger of any length.  All of them rest on the ledger being  *)
(* append-only: what was true of the rows above a row stays true of them.  *)
(***************************************************************************)
EXTENDS Adjudication, FiniteSetTheorems, SequenceTheorems, WellFoundedInduction, TLAPS

-----------------------------------------------------------------------------
(* The first and the last of some positions.                               *)

\* The reader that looks for the first row finds it, if there is one.
LEMMA MinOfPositions ==
  ASSUME NEW S \in SUBSET Nat, S # {}
  PROVE  Min(S) \in S /\ \A i \in S : Min(S) <= i
<1>. DEFINE below == {ss \in Nat \X Nat : ss[1] < ss[2]}
<1>1. IsWellFoundedOn(below, Nat)
  BY NatLessThanWellFounded DEF OpToRel
<1>2. PICK x \in S : \A y \in S : ~(<<y, x>> \in below)
  BY <1>1, WFMin
<1>3. ASSUME NEW y \in S PROVE x <= y
  <2>1. x \in Nat /\ y \in Nat /\ <<y, x>> \in Nat \X Nat
    OBVIOUS
  <2>2. <<y, x>> \notin below
    BY <1>2
  <2>3. ~(y < x)
    BY <2>1, <2>2
  <2>. QED
    BY <2>1, <2>3
<1>. QED
  BY <1>3 DEF Min

\* The reader that goes on to the end finds the last row, if there is one.
LEMMA MaxOfPositions ==
  ASSUME NEW n \in Nat, NEW S \in SUBSET (1 .. n), S # {}
  PROVE  Max(S) \in S /\ \A i \in S : i <= Max(S)
<1>. DEFINE T == {n - i : i \in S}
<1>1. T \in SUBSET Nat /\ T # {}
  <2>1. \A i \in S : i \in Nat /\ i <= n
    OBVIOUS
  <2>2. \A i \in S : n - i \in Nat
    BY <2>1
  <2>. QED
    BY <2>2
<1>2. Min(T) \in T /\ \A j \in T : Min(T) <= j
  BY <1>1, MinOfPositions
<1>3. PICK x \in S : Min(T) = n - x
  BY <1>2
<1>4. \A y \in S : n - x <= n - y
  BY <1>2, <1>3
<1>5. \A y \in S : x >= y
  BY <1>4
<1>. QED
  BY <1>5 DEF Max

\* Where the elements of a prolonged sequence are.
LEMMA AppendFacts ==
  ASSUME NEW S, NEW s \in Seq(S), NEW e \in S
  PROVE  /\ Append(s, e) \in Seq(S)
         /\ Len(s) \in Nat /\ DOMAIN s = 1 .. Len(s)
         /\ DOMAIN Append(s, e) = 1 .. Len(s) + 1
         /\ \A i \in 1 .. Len(s) : Append(s, e)[i] = s[i] /\ s[i] \in S
         /\ Append(s, e)[Len(s) + 1] = e
  BY AppendProperties, LenProperties, ElementOfSeq

-----------------------------------------------------------------------------
(* Type correctness.                                                       *)

\* Evidence lists its runs, and a plain one is recorded as it was judged.
LEMMA EvidenceFacts ==
  ASSUME NEW e \in Evidence
  PROVE  /\ Len(e.runs) \in Nat /\ DOMAIN e.runs = 1 .. Len(e.runs)
         /\ DOMAIN Seeds(e) = 1 .. Len(e.runs)
         /\ \A m : MeanOf(e, m)[2] = Cardinality(Judged(e, m))
         /\ \A m : Plain(e) /\ Judged(e, m) # {} => MeanMetrics(e)[m] = MeanOf(e, m)
<1>1. e.runs \in Seq(Range(e.runs))
  BY EvidenceAssumption
<1>2. Len(e.runs) \in Nat /\ DOMAIN e.runs = 1 .. Len(e.runs)
  BY <1>1, LenProperties
<1>3. ASSUME NEW m, Plain(e)
      PROVE  Recorded(e, m) = Judged(e, m)
  <2>1. CASE m = "val"
    <3>1. {i \in DOMAIN e.runs : m \in DOMAIN e.runs[i].extra /\ ~e.runs[i].extra[m].bool} = {}
      BY <1>3, <2>1 DEF Plain
    <3>2. {i \in DOMAIN e.runs : m = "val"} = DOMAIN e.runs
      BY <2>1
    <3>. QED
      BY <2>1, <3>1, <3>2 DEF Recorded, Judged, Extra
  <2>2. CASE m # "val"
    <3>1. {i \in DOMAIN e.runs : m \in DOMAIN e.runs[i].extra /\ ~e.runs[i].extra[m].bool}
            = {i \in DOMAIN e.runs : m \in DOMAIN e.runs[i].extra}
      BY <1>3 DEF Plain
    <3>2. {i \in DOMAIN e.runs : m = "val"} = {}
      BY <2>2
    <3>. QED
      BY <2>2, <3>1, <3>2 DEF Recorded, Judged, Field
  <2>. QED
    BY <2>1, <2>2
<1>4. ASSUME NEW m, Plain(e), Judged(e, m) # {}
      PROVE  MeanMetrics(e)[m] = MeanOf(e, m)
  <2>1. m \in {"val"} \cup UNION {DOMAIN e.runs[i].extra : i \in DOMAIN e.runs}
    BY <1>4 DEF Judged, Extra
  <2>2. Recorded(e, m) = Judged(e, m)
    BY <1>3, <1>4
  <2>. QED
    BY <1>4, <2>1, <2>2 DEF MeanMetrics, MeanOf
<1>. QED
  BY <1>2, <1>4 DEF Seeds, MeanOf, MeanOver

\* What the rows of either kind hold.
LEMMA RowFacts ==
  /\ \A row \in Row :
       /\ row.kind \in {"prereg", "verdict"}
       /\ row.kind = "prereg" => row.rule \in Citable
       /\ row.kind = "verdict" => row.exp \in ExpIds /\ row.rule \in Rules \cup {NoRule}
  /\ \A r \in Citable : r \in Rules /\ WellFormedRule(r) /\ [kind |-> "prereg", rule |-> r] \in Row
  /\ \A x \in ExpIds, m \in Means \cup {<<>>} : Verdict(x, m) \in Row
  /\ \A x \in ExpIds, e \in Passing, r \in Rules :
       Citation(x, e, r) \in Row /\ Promotion(x, e, r) \in Row
<1>1. \A row \in Row :
        /\ row.kind \in {"prereg", "verdict"}
        /\ row.kind = "prereg" => row.rule \in Citable
        /\ row.kind = "verdict" => row.exp \in ExpIds /\ row.rule \in Rules \cup {NoRule}
  BY DEF Row
<1>2. \A r \in Citable : r \in Rules /\ WellFormedRule(r) /\ [kind |-> "prereg", rule |-> r] \in Row
  BY DEF Row, Citable
<1>3. \A x \in ExpIds, m \in Means \cup {<<>>} : Verdict(x, m) \in Row
  BY DEF Row, Verdict
<1>4. ASSUME NEW x \in ExpIds, NEW e \in Passing, NEW r \in Rules
      PROVE  Citation(x, e, r) \in Row /\ Promotion(x, e, r) \in Row
  <2>1. e \in Candidates /\ MeanMetrics(e) \in Means
    BY DEF Passing, Means
  <2>2. Plain(e) \in BOOLEAN
    BY DEF Plain
  <2>3. Citation(x, e, r) \in Row
    BY <2>1 DEF Row, Citation
  <2>4. Promotion(x, e, r) \in Row
    BY <2>1, <2>2 DEF Row, Promotion
  <2>. QED
    BY <2>3, <2>4
<1>. QED
  BY <1>1, <1>2, <1>3, <1>4

\* The ledger's rows, and the rules on file.
LEMMA LedgerFacts ==
  ASSUME TypeOK
  PROVE  /\ ledger \in Seq(Row)
         /\ Len(ledger) \in Nat /\ DOMAIN ledger = 1 .. Len(ledger)
         /\ \A i \in 1 .. Len(ledger) : ledger[i] \in Row
         /\ Filed \subseteq Rules /\ \A r \in Filed : WellFormedRule(r)
<1>1. ledger \in Seq(Row)
  BY DEF TypeOK
<1>2. /\ Len(ledger) \in Nat /\ DOMAIN ledger = 1 .. Len(ledger)
      /\ \A i \in 1 .. Len(ledger) : ledger[i] \in Row
  BY <1>1, LenProperties, ElementOfSeq
<1>3. Filed \subseteq Rules /\ \A r \in Filed : WellFormedRule(r)
  BY <1>2, RowFacts DEF Filed, IsRule
<1>. QED
  BY <1>1, <1>2, <1>3

\* A line is appended whole, with or without its newline, or leaves a torn
\* ledger as it is; and no promotion is being shown.
LEMMA LogFacts ==
  ASSUME TypeOK, NEW row \in Row, Log(row)
  PROVE  /\ ledger' = Append(ledger, row) \/ UNCHANGED ledger
         /\ tail = "torn" => UNCHANGED ledger /\ tail' = "torn"
         /\ ledger' \in Seq(Row) /\ tail' \in {"ok", "bare", "torn"}
         /\ shown' = NoVerdict
<1>1. Append(ledger, row) \in Seq(Row)
  BY LedgerFacts, AppendFacts
<1>. QED
  BY <1>1, LedgerFacts DEF Log, Write, WriteFails, TypeOK

\* Every initial state has the types.
LEMMA InitType ==
  ASSUME Init
  PROVE  TypeOK
  BY EmptySeq DEF Init, TypeOK

\* Every step keeps the types.
LEMMA NextType ==
  ASSUME TypeOK, [Next]_vars
  PROVE  TypeOK'
<1>1. ASSUME NEW r \in Rules, FileRule(r) PROVE TypeOK'
  <2>1. [kind |-> "prereg", rule |-> r] \in Row
    BY <1>1, RowFacts DEF FileRule, Citable
  <2>. QED
    BY <1>1, <2>1, LogFacts DEF FileRule, TypeOK
<1>2. ASSUME NEW s \in Sessions, Begin(s) PROVE TypeOK'
  BY <1>2, LedgerFacts DEF Begin, TypeOK
<1>3. ASSUME NEW s \in Sessions, HandsOver(s)
      PROVE  knew' \in [Sessions -> {NotRunning} \cup SUBSET Rules]
  BY <1>3 DEF HandsOver, TypeOK
<1>4. ASSUME NEW s \in Sessions, RunAndRecord(s) PROVE TypeOK'
  <2>1. PICK row \in Row : Log(row)
    <3>1. PICK x \in ExpIds :
            \/ \E e \in Passing : \E r \in PromotableUnder(e, x) : Log(Promotion(x, e, r))
            \/ \E m \in Means : Log(Verdict(x, m))
      BY <1>4 DEF RunAndRecord
    <3>2. \A e \in Passing : PromotableUnder(e, x) \subseteq Rules
      BY LedgerFacts DEF PromotableUnder
    <3>. QED
      BY <3>1, <3>2, RowFacts
  <2>. QED
    BY <1>3, <1>4, <2>1, LogFacts DEF RunAndRecord, TypeOK
<1>5. ASSUME NEW s \in Sessions, RunUngoverned(s) PROVE TypeOK'
  <2>1. PICK row \in Row : Log(row)
    BY <1>5, RowFacts DEF RunUngoverned
  <2>. QED
    BY <1>3, <1>5, <2>1, LogFacts DEF RunUngoverned, TypeOK
<1>6. ASSUME NEW s \in Sessions, Report(s) PROVE TypeOK'
  BY <1>3, <1>6 DEF Report, TypeOK
<1>7. ASSUME NEW s \in Sessions, EndUnrecorded(s) PROVE TypeOK'
  BY <1>3, <1>7 DEF EndUnrecorded, TypeOK
<1>8. ASSUME UNCHANGED vars PROVE TypeOK'
  BY <1>8 DEF vars, TypeOK
<1>. QED
  BY <1>1, <1>2, <1>4, <1>5, <1>6, <1>7, <1>8 DEF Next

\* Every variable keeps its type, however a line of the ledger is cut off.
THEOREM TypeCorrect == Spec => []TypeOK
<1>1. Init => TypeOK
  BY InitType
<1>2. TypeOK /\ [Next]_vars => TypeOK'
  BY NextType
<1>. QED
  BY <1>1, <1>2, PTL DEF Spec

-----------------------------------------------------------------------------
(* What a step does to the ledger, and what a promotion has read from it.  *)

Promotes(row) == row.kind = "verdict" /\ row.governed

Cites(row) == row.kind = "verdict" /\ row.rule # NoRule /\ ~row.governed

Appends(row) == ledger' = Append(ledger, row)

\* What each kind of row says of rules.
LEMMA KindsOfRows ==
  /\ \A r : ~Promotes([kind |-> "prereg", rule |-> r])
  /\ \A x, m : ~Promotes(Verdict(x, m))
  /\ \A x, e, r : ~Promotes(Citation(x, e, r))
  /\ \A x, e, r : LET row == Promotion(x, e, r) IN
       /\ row.kind = "verdict" /\ row.exp = x /\ row.rule = r
       /\ Promotes(row) /\ ~Cites(row)
       /\ row.metrics = MeanMetrics(e) /\ row.seeds = Seeds(e) /\ row.plain = Plain(e)
  BY DEF Promotes, Cites, Verdict, Citation, Promotion

\* A step leaves the ledger alone, or appends a row that promotes under no rule,
\* or a verdict that is promoted under one on file.
LEMMA LedgerSteps ==
  ASSUME TypeOK, [Next]_vars
  PROVE  \/ UNCHANGED ledger
         \/ \E row \in Row : ~Promotes(row) /\ Appends(row)
         \/ \E x \in ExpIds, e \in Passing :
              \E r \in PromotableUnder(e, x) : Appends(Promotion(x, e, r))
<1>. DEFINE Goal ==
       \/ UNCHANGED ledger
       \/ \E row \in Row : ~Promotes(row) /\ Appends(row)
       \/ \E x \in ExpIds, e \in Passing :
            \E r \in PromotableUnder(e, x) : Appends(Promotion(x, e, r))
<1>0. ASSUME NEW row \in Row, Log(row)
      PROVE  Appends(row) \/ UNCHANGED ledger
  BY <1>0, LogFacts DEF Appends
<1>1. ASSUME NEW r \in Rules, FileRule(r) PROVE Goal
  <2>. DEFINE row == [kind |-> "prereg", rule |-> r]
  <2>1. row \in Row /\ Log(row) /\ ~Promotes(row)
    BY <1>1, RowFacts, KindsOfRows DEF FileRule, Citable
  <2>. QED
    BY <1>0, <2>1
<1>2. ASSUME NEW x \in ExpIds, NEW m \in Means \cup {<<>>}, Log(Verdict(x, m))
      PROVE  Goal
  <2>1. Verdict(x, m) \in Row /\ ~Promotes(Verdict(x, m))
    BY RowFacts, KindsOfRows
  <2>. QED
    BY <1>0, <1>2, <2>1
<1>3. ASSUME NEW s \in Sessions, RunAndRecord(s) PROVE Goal
  <2>1. PICK x \in ExpIds :
          \/ \E e \in Passing : \E r \in PromotableUnder(e, x) : Log(Promotion(x, e, r))
          \/ \E m \in Means : Log(Verdict(x, m))
    BY <1>3 DEF RunAndRecord
  <2>2. ASSUME NEW e \in Passing, NEW r \in PromotableUnder(e, x), Log(Promotion(x, e, r))
        PROVE  Goal
    <3>1. Promotion(x, e, r) \in Row
      BY RowFacts, LedgerFacts DEF PromotableUnder
    <3>. QED
      BY <1>0, <2>2, <3>1
  <2>. QED
    BY <1>2, <2>1, <2>2
<1>4. ASSUME NEW s \in Sessions, RunUngoverned(s) PROVE Goal
  <2>1. PICK x \in ExpIds :
          \/ \E m \in Means \cup {<<>>} : Log(Verdict(x, m))
          \/ \E e \in Passing, r \in Citable : Log(Citation(x, e, r))
    BY <1>4 DEF RunUngoverned
  <2>2. ASSUME NEW e \in Passing, NEW r \in Citable, Log(Citation(x, e, r))
        PROVE  Goal
    <3>1. Citation(x, e, r) \in Row /\ ~Promotes(Citation(x, e, r))
      BY RowFacts, KindsOfRows
    <3>. QED
      BY <1>0, <2>2, <3>1
  <2>. QED
    BY <1>2, <2>1, <2>2
<1>5. ASSUME NEW s \in Sessions, Begin(s) \/ Report(s) \/ EndUnrecorded(s) PROVE Goal
  BY <1>5 DEF Begin, Report, EndUnrecorded
<1>6. ASSUME UNCHANGED vars PROVE Goal
  BY <1>6 DEF vars
<1>. QED
  BY <1>1, <1>3, <1>4, <1>5, <1>6 DEF Next

\* What one more row changes in what the readers see: the rows above it stay.
LEMMA Growth ==
  ASSUME TypeOK, NEW row \in Row, Appends(row)
  PROVE  LET n == Len(ledger) IN
         /\ n \in Nat /\ DOMAIN ledger = 1 .. n /\ DOMAIN ledger' = 1 .. n + 1
         /\ \A i \in 1 .. n : ledger'[i] = ledger[i]
         /\ ledger'[n + 1] = row
         /\ \A r : RulePositions(r)' =
              RulePositions(r) \cup {i \in {n + 1} : row.kind = "prereg" /\ row.rule = r}
         /\ \A x : VerdictsOf(x)' =
              VerdictsOf(x) \cup {i \in {n + 1} : row.kind = "verdict" /\ row.exp = x}
         /\ Promoted' = Promoted \cup {i \in {n + 1} : Promotes(row)}
         /\ Citations' = Citations \cup {i \in {n + 1} : Cites(row)}
         /\ Filed' = Filed \cup {r \in {row.rule} : row.kind = "prereg"}
         /\ Winners' = Winners \cup {r \in {row.rule} : Promotes(row)}
         /\ Quoted' = Quoted \cup {r \in {row.rule} : Cites(row)}
         /\ Won' = Won \cup {r \in {row.rule} : row.kind = "verdict" /\ r # NoRule}
<1>. DEFINE n == Len(ledger)
<1>1. /\ n \in Nat /\ DOMAIN ledger = 1 .. n /\ DOMAIN ledger' = 1 .. n + 1
      /\ \A i \in 1 .. n : ledger'[i] = ledger[i]
      /\ ledger'[n + 1] = row
  BY LedgerFacts, AppendFacts DEF Appends
<1>. HIDE DEF n
<1>2. \A i \in 1 .. n + 1 : i \in 1 .. n \/ i = n + 1
  BY <1>1
<1>3. 1 .. n \subseteq 1 .. n + 1 /\ n + 1 \in 1 .. n + 1 /\ n + 1 \notin 1 .. n
  BY <1>1
<1>4. \A r : RulePositions(r)' =
              RulePositions(r) \cup {i \in {n + 1} : row.kind = "prereg" /\ row.rule = r}
  BY <1>1, <1>2, <1>3 DEF RulePositions, IsRule
<1>5. \A x : VerdictsOf(x)' =
              VerdictsOf(x) \cup {i \in {n + 1} : row.kind = "verdict" /\ row.exp = x}
  BY <1>1, <1>2, <1>3 DEF VerdictsOf, IsVerdict
<1>6. Promoted' = Promoted \cup {i \in {n + 1} : Promotes(row)}
  BY <1>1, <1>2, <1>3 DEF Promoted, Promotes, IsVerdict
<1>7. Filed' = Filed \cup {r \in {row.rule} : row.kind = "prereg"}
  BY <1>1, <1>2, <1>3 DEF Filed, IsRule
<1>8. Citations' = Citations \cup {i \in {n + 1} : Cites(row)}
  BY <1>1, <1>2, <1>3 DEF Citations, Cites, IsVerdict
<1>9. Promoted \subseteq 1 .. n /\ Citations \subseteq 1 .. n
  BY <1>1 DEF Promoted, Citations
<1>10. Winners' = Winners \cup {r \in {row.rule} : Promotes(row)}
  BY <1>1, <1>3, <1>6, <1>9 DEF Winners
<1>11. Quoted' = Quoted \cup {r \in {row.rule} : Cites(row)}
  BY <1>1, <1>3, <1>8, <1>9 DEF Quoted
<1>12. Won' = Won \cup {r \in {row.rule} : row.kind = "verdict" /\ r # NoRule}
  BY <1>1, <1>2, <1>3 DEF Won, IsVerdict
<1>. QED
  BY <1>1, <1>4, <1>5, <1>6, <1>7, <1>8, <1>10, <1>11, <1>12 DEF n

\* A step that leaves the ledger alone changes nothing that is read from it.
LEMMA SameLedger ==
  ASSUME UNCHANGED ledger
  PROVE  /\ \A r : RulePositions(r)' = RulePositions(r)
         /\ \A x : VerdictsOf(x)' = VerdictsOf(x)
         /\ Promoted' = Promoted /\ Citations' = Citations /\ Filed' = Filed
         /\ Winners' = Winners /\ Quoted' = Quoted /\ Won' = Won
  BY DEF RulePositions, VerdictsOf, Promoted, Citations, Filed, Winners, Quoted, Won,
         IsRule, IsVerdict

\* Positions are positions, and the first and the last of them are what the
\* readers find.
LEMMA PositionFacts ==
  ASSUME TypeOK
  PROVE  /\ \A r : RulePositions(r) \subseteq 1 .. Len(ledger)
         /\ \A x : VerdictsOf(x) \subseteq 1 .. Len(ledger)
         /\ \A r : r \in Filed <=> RulePositions(r) # {}
         /\ \A r : RulePositions(r) # {} =>
              /\ PositionOfPrereg(r) \in RulePositions(r)
              /\ \A i \in RulePositions(r) : PositionOfPrereg(r) <= i
         /\ \A x : VerdictsOf(x) = {} => PositionOfVerdict(x) = 0
         /\ \A x : VerdictsOf(x) # {} =>
              /\ PositionOfVerdict(x) \in VerdictsOf(x)
              /\ \A i \in VerdictsOf(x) : PositionOfVerdict(x) <= i
              /\ Max(VerdictsOf(x)) \in VerdictsOf(x)
              /\ \A i \in VerdictsOf(x) : i <= Max(VerdictsOf(x))
<1>1. Len(ledger) \in Nat /\ DOMAIN ledger = 1 .. Len(ledger)
  BY LedgerFacts
<1>2. ASSUME NEW r
      PROVE  /\ RulePositions(r) \subseteq 1 .. Len(ledger)
             /\ r \in Filed <=> RulePositions(r) # {}
  BY <1>1 DEF RulePositions, Filed
<1>3. ASSUME NEW x
      PROVE  VerdictsOf(x) \subseteq 1 .. Len(ledger)
  BY <1>1 DEF VerdictsOf
<1>4. 1 .. Len(ledger) \subseteq Nat
  BY <1>1
<1>5. ASSUME NEW r, RulePositions(r) # {}
      PROVE  /\ PositionOfPrereg(r) \in RulePositions(r)
             /\ \A i \in RulePositions(r) : PositionOfPrereg(r) <= i
  <2>1. RulePositions(r) \in SUBSET Nat
    BY <1>2, <1>4
  <2>. QED
    BY <1>5, <2>1, MinOfPositions DEF PositionOfPrereg, First
<1>6. ASSUME NEW x, VerdictsOf(x) # {}
      PROVE  /\ PositionOfVerdict(x) \in VerdictsOf(x)
             /\ \A i \in VerdictsOf(x) : PositionOfVerdict(x) <= i
             /\ Max(VerdictsOf(x)) \in VerdictsOf(x)
             /\ \A i \in VerdictsOf(x) : i <= Max(VerdictsOf(x))
  <2>1. VerdictsOf(x) \in SUBSET Nat /\ VerdictsOf(x) \in SUBSET (1 .. Len(ledger))
    BY <1>3, <1>4
  <2>2. /\ PositionOfVerdict(x) \in VerdictsOf(x)
        /\ \A i \in VerdictsOf(x) : PositionOfVerdict(x) <= i
    BY <1>6, <2>1, MinOfPositions DEF PositionOfVerdict, First
  <2>. QED
    BY <1>1, <1>6, <2>1, <2>2, MaxOfPositions
<1>7. \A x : VerdictsOf(x) = {} => PositionOfVerdict(x) = 0
  BY DEF PositionOfVerdict, First
<1>. QED
  BY <1>2, <1>3, <1>5, <1>6, <1>7

\* What the gates have read of a rule under which something is promoted.
LEMMA PromotionFacts ==
  ASSUME TypeOK, NEW e \in Passing, NEW x, NEW r \in PromotableUnder(e, x)
  PROVE  LET was == ledger[Max(VerdictsOf(r.parent))].metrics IN
         /\ r \in Rules /\ r \in Filed /\ WellFormedRule(r) /\ r # NoRule
         /\ PositionOfVerdict(x) = 0 \/ PositionOfPrereg(r) < PositionOfVerdict(x)
         /\ Len(e.runs) >= 3 /\ SameMultiset(Seeds(e), r.seeds)
         /\ VerdictsOf(r.parent) # {}
         /\ Cardinality(Judged(e, r.metric)) = Len(e.runs)
         /\ was[r.metric][1] = r.base * was[r.metric][2]
         /\ Gain(r, MeanOf(e, r.metric)) >= r.effect * Len(e.runs)
         /\ \A g \in r.guards :
              /\ Cardinality(Judged(e, g.metric)) = Len(e.runs)
              /\ ~Regressed(g, MeanOf(e, g.metric), was[g.metric])
         /\ r.parent # NoExp
         /\ Cardinality(Unpromoted(r.parent)) <= MaxAttempts
<1>. DEFINE was == ledger[Max(VerdictsOf(r.parent))].metrics
<1>1. r \in Filed
  BY DEF PromotableUnder
<1>2. PICK parent \in ExpIds \cup {NoExp}, exploratory \in BOOLEAN :
        LET ctx == PreregCtx(x, parent, r, exploratory) IN
        GatePreregistration(e, ctx) /\ GatePreregChurn(ctx)
  BY DEF PromotableUnder
<1>. DEFINE ctx == PreregCtx(x, parent, r, exploratory)
<1>3. /\ ctx.prereg = r /\ ctx.exploratory = exploratory
      /\ ctx.attempts = NonPromotingCount(r.parent)
      /\ ctx.parentMetrics = IF r.parent # NoExp THEN VerdictMetrics(r.parent) ELSE <<>>
      /\ ctx.preregPosition = PositionOfPrereg(r)
      /\ ctx.verdictPosition = PositionOfVerdict(x)
  BY <1>1 DEF PreregCtx
<1>4. GatePreregistration(e, ctx) /\ GatePreregChurn(ctx)
  BY <1>2
<1>. HIDE DEF ctx
<1>5. /\ ~ctx.exploratory /\ r # NoRule
      /\ PositionOfVerdict(x) = 0 \/ PositionOfPrereg(r) < PositionOfVerdict(x)
      /\ SameMultiset(Seeds(e), r.seeds)
      /\ Cardinality(Judged(e, r.metric)) = Len(e.runs)
      /\ Gain(r, MeanOf(e, r.metric)) >= r.effect * Len(e.runs)
      /\ \A g \in r.guards : GuardrailHolds(e, g, ctx.parentMetrics)
      /\ r.parent # NoExp
      /\ r.metric \in DOMAIN ctx.parentMetrics
      /\ ctx.parentMetrics[r.metric][1] = r.base * ctx.parentMetrics[r.metric][2]
  BY <1>3, <1>4 DEF GatePreregistration
<1>6. ctx.parentMetrics = VerdictMetrics(r.parent)
  BY <1>3, <1>5
<1>7. VerdictsOf(r.parent) # {} /\ VerdictMetrics(r.parent) = was
  <2>1. DOMAIN <<>> = {}
    OBVIOUS
  <2>. QED
    BY <2>1, <1>5, <1>6 DEF VerdictMetrics
<1>8. Cardinality(Unpromoted(r.parent)) <= MaxAttempts
  BY <1>3, <1>4, <1>5 DEF GatePreregChurn, NonPromotingCount
<1>9. Len(e.runs) >= 3
  BY DEF Passing, PassesGates, GateSeedVariance
<1>10. ASSUME NEW g \in r.guards
       PROVE  /\ Cardinality(Judged(e, g.metric)) = Len(e.runs)
              /\ ~Regressed(g, MeanOf(e, g.metric), was[g.metric])
  BY <1>5, <1>6, <1>7 DEF GuardrailHolds
<1>. QED
  BY <1>1, <1>5, <1>6, <1>7, <1>8, <1>9, <1>10, LedgerFacts

\* A promoted row is a row, of the kind that promotes.
LEMMA PromotionRowFacts ==
  ASSUME TypeOK, NEW x \in ExpIds, NEW e \in Passing, NEW r \in PromotableUnder(e, x)
  PROVE  LET row == Promotion(x, e, r) IN
         /\ row \in Row /\ Promotes(row) /\ ~Cites(row) /\ row.kind = "verdict"
         /\ row.rule = r /\ row.exp = x
         /\ row.metrics = MeanMetrics(e) /\ row.seeds = Seeds(e) /\ row.plain = Plain(e)
<1>1. r \in Rules
  BY PromotionFacts
<1>. QED
  BY <1>1, RowFacts, KindsOfRows

\* A rule that has won is one something was promoted under, or a cited one.
LEMMA WonParts == Won \subseteq Winners \cup Quoted
  BY DEF Won, Winners, Quoted, Promoted, Citations

-----------------------------------------------------------------------------
(* No hindsight.                                                           *)

\* Rule r is filed above row i and above every verdict of experiment x.
Foreseen(i, r, x) == \A j \in VerdictsOf(x) : \E k \in RulePositions(r) : k < i /\ k < j

\* NoHindsight says that of every promoted row.
LEMMA HindsightForm ==
  /\ NoHindsight <=>
       \A i \in Promoted : \A r, x : ledger[i].rule = r /\ ledger[i].exp = x => Foreseen(i, r, x)
  /\ NoHindsight' <=>
       \A i \in Promoted' : \A r, x :
         ledger'[i].rule = r /\ ledger'[i].exp = x => Foreseen(i, r, x)'
  BY DEF NoHindsight, Foreseen, VerdictsOf, RulePositions, IsVerdict, IsRule

\* No step promotes an experiment that was judged before its rule was filed.
LEMMA NextNoHindsight ==
  ASSUME TypeOK, NoHindsight, [Next]_vars
  PROVE  NoHindsight'
<1>. DEFINE n == Len(ledger)
<1>0. /\ n \in Nat /\ Promoted \subseteq 1 .. n
      /\ \A i \in Promoted : \A r, x :
           ledger[i].rule = r /\ ledger[i].exp = x => Foreseen(i, r, x)
  BY LedgerFacts, HindsightForm DEF Promoted
<1>1. CASE UNCHANGED ledger
  BY <1>1 DEF NoHindsight, Promoted, VerdictsOf, RulePositions, IsVerdict, IsRule
<1>. HIDE DEF n
\* The rows above stay foreseen: a new verdict of the experiment of a promoted
\* row stands below that row.
<1>2. ASSUME NEW row \in Row, Appends(row),
             NEW i \in Promoted, NEW r, NEW x, ledger'[i].rule = r, ledger'[i].exp = x
      PROVE  Foreseen(i, r, x)'
  <2>1. ledger[i].rule = r /\ ledger[i].exp = x
    BY <1>0, <1>2, Growth DEF n
  <2>2. Foreseen(i, r, x) /\ i \in VerdictsOf(x)
    BY <1>0, <2>1 DEF Promoted, VerdictsOf
  <2>3. PICK k \in RulePositions(r) : k < i
    BY <2>2 DEF Foreseen
  <2>4. k < n + 1 /\ i < n + 1 /\ k \in RulePositions(r)'
    <3>1. k \in 1 .. n /\ i \in 1 .. n
      BY <1>0, PositionFacts DEF n
    <3>. QED
      BY <3>1, <1>0, <1>2, Growth
  <2>5. RulePositions(r) \subseteq RulePositions(r)'
    BY <1>2, Growth
  <2>6. \A j \in VerdictsOf(x)' : j \in VerdictsOf(x) \/ j = n + 1
    BY <1>2, Growth DEF n
  <2>. QED
    BY <2>2, <2>3, <2>4, <2>5, <2>6 DEF Foreseen
<1>3. ASSUME NEW row \in Row, Appends(row),
             ~Promotes(row)
      PROVE  NoHindsight'
  <2>1. Promoted' = Promoted
    BY <1>3, Growth
  <2>. QED
    BY <2>1, <1>2, <1>3, HindsightForm
<1>4. ASSUME NEW x \in ExpIds, NEW e \in Passing, NEW r \in PromotableUnder(e, x),
             Appends(Promotion(x, e, r))
      PROVE  NoHindsight'
  <2>. DEFINE row == Promotion(x, e, r)
  <2>1. /\ row \in Row /\ Promotes(row) /\ row.kind = "verdict" /\ row.rule = r /\ row.exp = x
        /\ r \in Filed
        /\ PositionOfVerdict(x) = 0 \/ PositionOfPrereg(r) < PositionOfVerdict(x)
    BY PromotionFacts, PromotionRowFacts
  <2>. HIDE DEF row
  <2>2. Appends(row)
    BY <1>4 DEF row
  <2>3. /\ PositionOfPrereg(r) \in RulePositions(r) /\ PositionOfPrereg(r) \in 1 .. n
        /\ \A j \in VerdictsOf(x) :
             j \in 1 .. n /\ PositionOfVerdict(x) <= j /\ PositionOfVerdict(x) \in 1 .. n
    BY <2>1, PositionFacts DEF n
  <2>4. \A j \in VerdictsOf(x) : PositionOfPrereg(r) < j
    BY <2>1, <2>3, <1>0
  <2>5. PositionOfPrereg(r) < n + 1
    BY <2>3, <1>0
  <2>6. RulePositions(r) \subseteq RulePositions(r)'
    BY <2>1, <2>2, Growth
  <2>7. \A j \in VerdictsOf(x)' : j \in VerdictsOf(x) \/ j = n + 1
    BY <2>1, <2>2, Growth DEF n
  <2>8. \A j \in VerdictsOf(x)' :
          \E k \in RulePositions(r)' : k < n + 1 /\ k < j
    BY <2>3, <2>4, <2>5, <2>6, <2>7
  <2>9. ASSUME NEW i \in Promoted', i = n + 1
        PROVE  Foreseen(i, r, x)' /\ ledger'[i] = row
    <3>1. \A j \in VerdictsOf(x)' : \E k \in RulePositions(r)' : k < i /\ k < j
      BY <2>8, <2>9
    <3>2. Foreseen(i, r, x)'
      BY <3>1 DEF Foreseen
    <3>. QED
      BY <2>1, <2>2, <2>9, <3>2, Growth DEF n
  <2>10. \A i \in Promoted' : i \in Promoted \/ i = n + 1
    BY <2>1, <2>2, Growth DEF n
  <2>. QED
    BY <2>1, <2>2, <2>9, <2>10, <1>2, HindsightForm
<1>. QED
  BY <1>1, <1>3, <1>4, LedgerSteps

-----------------------------------------------------------------------------
(* A promoted row still carries its claim when it is read back.            *)

\* Row i shows what rule r claimed against the verdict its parent had then.
Audited(i, r) ==
  \E j \in Precedent(r.parent, i) :
    LET was == ledger[j].metrics
        is  == ledger[i].metrics
    IN /\ was[r.metric][1] = r.base * was[r.metric][2]
       /\ ledger[i].plain =>
            /\ Gain(r, is[r.metric]) >= r.effect * is[r.metric][2]
            /\ \A g \in r.guards : ~Regressed(g, is[g.metric], was[g.metric])

\* ClaimIsAudited says that of every promoted row.
LEMMA ClaimForm ==
  /\ ClaimIsAudited <=>
       \A i \in Promoted : \A r : ledger[i].rule = r => Audited(i, r)
  /\ ClaimIsAudited' <=>
       \A i \in Promoted' : \A r : ledger'[i].rule = r => Audited(i, r)'
  BY DEF ClaimIsAudited, Audited, Precedent, VerdictsOf, IsVerdict

\* The verdict that was newest above a row stays it: rows are added below.
LEMMA PrecedentStays ==
  ASSUME TypeOK, NEW row \in Row, Appends(row), NEW x, NEW i \in 1 .. Len(ledger) + 1
  PROVE  Precedent(x, i)' = Precedent(x, i)
<1>1. VerdictsOf(x)' =
        VerdictsOf(x) \cup {j \in {Len(ledger) + 1} : row.kind = "verdict" /\ row.exp = x}
  BY Growth
<1>2. ~(Len(ledger) + 1 < i)
  BY LedgerFacts
<1>. QED
  BY <1>1, <1>2 DEF Precedent

\* The means a verdict records of plain evidence are those it was judged on.
LEMMA MeansRecorded ==
  ASSUME NEW e \in Passing, Plain(e), NEW m,
         Cardinality(Judged(e, m)) = Len(e.runs), Len(e.runs) >= 3
  PROVE  /\ MeanMetrics(e)[m] = MeanOf(e, m)
         /\ MeanOf(e, m)[2] = Len(e.runs)
<1>1. e \in Evidence
  BY DEF Passing, Candidates
<1>2. Judged(e, m) # {}
  <2>1. Cardinality(Judged(e, m)) # 0
    <3>1. Len(e.runs) \in Nat
      BY <1>1, EvidenceFacts
    <3>. QED
      BY <3>1
  <2>. QED
    BY <2>1, FS_EmptySet
<1>. QED
  BY <1>1, <1>2, EvidenceFacts

\* No step promotes a claim its own row does not show.
LEMMA NextClaim ==
  ASSUME TypeOK, ClaimIsAudited, [Next]_vars
  PROVE  ClaimIsAudited'
<1>. DEFINE n == Len(ledger)
<1>0. /\ n \in Nat /\ Promoted \subseteq 1 .. n
      /\ \A i \in Promoted : \A r : ledger[i].rule = r => Audited(i, r)
  BY LedgerFacts, ClaimForm DEF Promoted
<1>1. CASE UNCHANGED ledger
  BY <1>1 DEF ClaimIsAudited, Precedent, Promoted, VerdictsOf, IsVerdict
<1>. HIDE DEF n
\* What the rows above a row show stays what it was.
<1>2. ASSUME NEW row \in Row, Appends(row),
             NEW i \in Promoted, NEW r, ledger'[i].rule = r
      PROVE  Audited(i, r)'
  <2>1. i \in 1 .. n /\ i \in 1 .. n + 1 /\ ledger'[i] = ledger[i]
    BY <1>0, <1>2, Growth DEF n
  <2>2. Audited(i, r)
    BY <1>0, <1>2, <2>1
  <2>3. Precedent(r.parent, i)' = Precedent(r.parent, i)
    BY <1>2, <2>1, PrecedentStays DEF n
  <2>4. \A j \in Precedent(r.parent, i) : ledger'[j] = ledger[j]
    <3>1. \A j \in Precedent(r.parent, i) : j \in 1 .. n
      BY PositionFacts DEF Precedent, n
    <3>. QED
      BY <3>1, <1>2, Growth DEF n
  <2>. QED
    BY <2>1, <2>2, <2>3, <2>4 DEF Audited
<1>3. ASSUME NEW row \in Row, Appends(row), ~Promotes(row)
      PROVE  ClaimIsAudited'
  <2>1. Promoted' = Promoted
    BY <1>3, Growth
  <2>. QED
    BY <2>1, <1>2, <1>3, ClaimForm
<1>4. ASSUME NEW x \in ExpIds, NEW e \in Passing, NEW r \in PromotableUnder(e, x),
             Appends(Promotion(x, e, r))
      PROVE  ClaimIsAudited'
  <2>. DEFINE row == Promotion(x, e, r)
              j   == Max(VerdictsOf(r.parent))
              was == ledger[j].metrics
  <2>1. /\ row \in Row /\ row.rule = r /\ row.metrics = MeanMetrics(e)
        /\ row.plain = Plain(e) /\ Appends(row)
    BY <1>4, PromotionRowFacts
  <2>2. /\ VerdictsOf(r.parent) # {} /\ Len(e.runs) >= 3
        /\ Cardinality(Judged(e, r.metric)) = Len(e.runs)
        /\ was[r.metric][1] = r.base * was[r.metric][2]
        /\ Gain(r, MeanOf(e, r.metric)) >= r.effect * Len(e.runs)
        /\ \A g \in r.guards :
             /\ Cardinality(Judged(e, g.metric)) = Len(e.runs)
             /\ ~Regressed(g, MeanOf(e, g.metric), was[g.metric])
    BY PromotionFacts
  <2>3. /\ j \in VerdictsOf(r.parent) /\ j \in 1 .. n
        /\ \A k \in VerdictsOf(r.parent) : k <= j
    BY <2>2, PositionFacts DEF n
  <2>. HIDE DEF row, j
  <2>4. j \in Precedent(r.parent, n + 1)
    BY <2>3, <1>0 DEF Precedent
  <2>5. ASSUME NEW i \in Promoted', i = n + 1
        PROVE  ledger'[i].rule = r /\ Audited(i, r)'
    <3>1. ledger'[i] = row /\ ledger'[j] = ledger[j]
      BY <2>1, <2>3, <2>5, Growth DEF n
    <3>2. j \in Precedent(r.parent, i)'
      <4>1. i \in 1 .. n + 1
        BY <2>5, <1>0
      <4>. QED
        BY <4>1, <2>1, <2>4, <2>5, PrecedentStays DEF n
    <3>3. ASSUME ledger'[i].plain
          PROVE  /\ Gain(r, ledger'[i].metrics[r.metric])
                      >= r.effect * ledger'[i].metrics[r.metric][2]
                 /\ \A g \in r.guards :
                      ~Regressed(g, ledger'[i].metrics[g.metric], ledger'[j].metrics[g.metric])
      <4>1. Plain(e)
        BY <2>1, <3>1, <3>3
      <4>2. /\ ledger'[i].metrics[r.metric] = MeanOf(e, r.metric)
            /\ ledger'[i].metrics[r.metric][2] = Len(e.runs)
        BY <2>1, <2>2, <3>1, <4>1, MeansRecorded
      <4>3. \A g \in r.guards : ledger'[i].metrics[g.metric] = MeanOf(e, g.metric)
        BY <2>1, <2>2, <3>1, <4>1, MeansRecorded
      <4>4. Gain(r, ledger'[i].metrics[r.metric]) >= r.effect * ledger'[i].metrics[r.metric][2]
        BY <2>2, <4>2
      <4>5. \A g \in r.guards :
              ~Regressed(g, ledger'[i].metrics[g.metric], ledger'[j].metrics[g.metric])
        BY <2>2, <3>1, <4>3
      <4>. QED
        BY <4>4, <4>5
    <3>7. ledger'[j].metrics[r.metric][1] = r.base * ledger'[j].metrics[r.metric][2]
      BY <2>2, <3>1
    <3>. QED
      BY <2>1, <3>1, <3>2, <3>3, <3>7 DEF Audited
  <2>6. \A i \in Promoted' : i \in Promoted \/ i = n + 1
    BY <2>1, Growth DEF n
  <2>. QED
    BY <2>1, <2>5, <2>6, <1>2, ClaimForm
<1>. QED
  BY <1>1, <1>3, <1>4, LedgerSteps

-----------------------------------------------------------------------------
(* A promotion rests on its rule's seeds.                                  *)

\* Seeds that are, sorted, those of a rule that repeats none, are those of the
\* rule, and none of them was run twice.
LEMMA SameSeeds ==
  ASSUME NEW s, NEW t, NEW n \in Nat, DOMAIN s = 1 .. n, SameMultiset(s, t),
         \A i, j \in DOMAIN t : t[i] = t[j] => i = j
  PROVE  /\ {s[i] : i \in DOMAIN s} = {t[i] : i \in DOMAIN t}
         /\ \A i, j \in 1 .. n : s[i] = s[j] => i = j
<1>. DEFINE At(x) == {i \in DOMAIN s : s[i] = x}
<1>1. \A x : IsFiniteSet(At(x))
  <2>1. IsFiniteSet(1 .. n)
    BY FS_Interval
  <2>2. \A x : At(x) \in SUBSET (1 .. n)
    OBVIOUS
  <2>. QED
    BY <2>1, <2>2, FS_Subset
<1>2. ASSUME NEW x, x \in {t[i] : i \in DOMAIN t}
      PROVE  Cardinality(At(x)) = 1
  <2>1. PICK i \in DOMAIN t : t[i] = x
    BY <1>2
  <2>2. {k \in DOMAIN t : t[k] = x} = {i}
    BY <2>1
  <2>3. Cardinality({k \in DOMAIN t : t[k] = x}) = 1
    BY <2>2, FS_Singleton
  <2>. QED
    BY <1>2, <2>3 DEF SameMultiset
<1>3. ASSUME NEW i \in DOMAIN s
      PROVE  s[i] \in {t[k] : k \in DOMAIN t}
  <2>1. SUFFICES ASSUME s[i] \notin {t[k] : k \in DOMAIN t}
                 PROVE  FALSE
    OBVIOUS
  <2>2. {k \in DOMAIN t : t[k] = s[i]} = {}
    BY <2>1
  <2>3. Cardinality({k \in DOMAIN t : t[k] = s[i]}) = 0
    BY <2>2, FS_EmptySet
  <2>4. Cardinality(At(s[i])) = 0
    BY <2>3 DEF SameMultiset
  <2>5. At(s[i]) = {}
    BY <2>4, <1>1, FS_EmptySet
  <2>. QED
    BY <2>5
<1>4. ASSUME NEW x, x \in {t[k] : k \in DOMAIN t}
      PROVE  \E i \in DOMAIN s : At(x) = {i}
  <2>0. IsFiniteSet(At(x)) /\ Cardinality(At(x)) = 1
    BY <1>1, <1>2, <1>4
  <2>. HIDE DEF At
  <2>1. PICK i : At(x) = {i}
    BY <2>0, FS_Singleton
  <2>. USE DEF At
  <2>2. i \in At(x)
    BY <2>1
  <2>. QED
    BY <2>1, <2>2
<1>5. {t[k] : k \in DOMAIN t} \subseteq {s[i] : i \in DOMAIN s}
  BY <1>4
<1>6. ASSUME NEW i \in 1 .. n, NEW j \in 1 .. n, s[i] = s[j]
      PROVE  i = j
  <2>1. i \in At(s[i]) /\ j \in At(s[i])
    BY <1>6
  <2>2. PICK k \in DOMAIN s : At(s[i]) = {k}
    BY <1>3, <1>4
  <2>. QED
    BY <2>1, <2>2
<1>. QED
  BY <1>3, <1>5, <1>6

\* So many runs with different seeds have so many seeds.
LEMMA SeedsCounted ==
  ASSUME NEW s, NEW n \in Nat, DOMAIN s = 1 .. n,
         \A i, j \in 1 .. n : s[i] = s[j] => i = j
  PROVE  Cardinality({s[i] : i \in DOMAIN s}) = n
<1>. DEFINE T == {s[i] : i \in DOMAIN s}
            f == [i \in 1 .. n |-> s[i]]
<1>1. f \in [1 .. n -> T]
  OBVIOUS
<1>2. f \in Surjection(1 .. n, T)
  <2>1. \A y \in T : \E i \in 1 .. n : f[i] = y
    OBVIOUS
  <2>. QED
    BY <1>1, <2>1 DEF Surjection
<1>3. f \in Injection(1 .. n, T)
  <2>1. \A i, j \in 1 .. n : f[i] = f[j] => i = j
    OBVIOUS
  <2>2. DOMAIN f = 1 .. n
    OBVIOUS
  <2>. HIDE DEF f, T
  <2>. QED
    BY <1>1, <2>1, <2>2 DEF Injection, IsInjective
<1>. HIDE DEF f, T
<1>4. IsFiniteSet(1 .. n) /\ Cardinality(1 .. n) = n
  BY FS_Interval
<1>5. Cardinality(T) = n
  BY <1>2, <1>3, <1>4, FS_Surjection
<1>. QED
  BY <1>5 DEF T

\* Row i rests on three seeds or more, those of rule r as it is filed above.
Seeded(i, r) ==
  /\ Cardinality(ToSet(ledger[i].seeds)) >= 3
  /\ \E j \in RulePositions(r) :
       j < i /\ ToSet(ledger[i].seeds) = ToSet(ledger[j].rule.seeds)

\* PromotionRestsOnSeeds says that of every promoted row.
LEMMA SeedsForm ==
  /\ PromotionRestsOnSeeds <=>
       \A i \in Promoted : \A r : ledger[i].rule = r => Seeded(i, r)
  /\ PromotionRestsOnSeeds' <=>
       \A i \in Promoted' : \A r : ledger'[i].rule = r => Seeded(i, r)'
  BY DEF PromotionRestsOnSeeds, Seeded, RulePositions, IsRule

\* No step promotes on fewer seeds, or on others than the rule declares.
LEMMA NextSeeds ==
  ASSUME TypeOK, PromotionRestsOnSeeds, [Next]_vars
  PROVE  PromotionRestsOnSeeds'
<1>. DEFINE n == Len(ledger)
<1>0. /\ n \in Nat /\ Promoted \subseteq 1 .. n
      /\ \A i \in Promoted : \A r : ledger[i].rule = r => Seeded(i, r)
  BY LedgerFacts, SeedsForm DEF Promoted
<1>1. CASE UNCHANGED ledger
  BY <1>1, SeedsForm, SameLedger DEF Seeded
<1>. HIDE DEF n
\* The rows above a row, and the rules on file there, stay.
<1>2. ASSUME NEW row \in Row, Appends(row),
             NEW i \in Promoted, NEW r, ledger'[i].rule = r
      PROVE  Seeded(i, r)'
  <2>1. ledger'[i] = ledger[i]
    BY <1>0, <1>2, Growth DEF n
  <2>2. Seeded(i, r)
    BY <1>0, <1>2, <2>1
  <2>3. PICK j \in RulePositions(r) :
          j < i /\ ToSet(ledger[i].seeds) = ToSet(ledger[j].rule.seeds)
    BY <2>2 DEF Seeded
  <2>4. j \in RulePositions(r)' /\ ledger'[j] = ledger[j]
    <3>1. j \in 1 .. n
      BY PositionFacts DEF n
    <3>. QED
      BY <3>1, <1>2, Growth DEF n
  <2>. QED
    BY <2>1, <2>2, <2>3, <2>4 DEF Seeded
<1>3. ASSUME NEW row \in Row, Appends(row), ~Promotes(row)
      PROVE  PromotionRestsOnSeeds'
  <2>1. Promoted' = Promoted
    BY <1>3, Growth
  <2>. QED
    BY <2>1, <1>2, <1>3, SeedsForm
<1>4. ASSUME NEW x \in ExpIds, NEW e \in Passing, NEW r \in PromotableUnder(e, x),
             Appends(Promotion(x, e, r))
      PROVE  PromotionRestsOnSeeds'
  <2>. DEFINE row == Promotion(x, e, r)
              seen == ToSet(Seeds(e))
  <2>1. row \in Row /\ row.rule = r /\ row.seeds = Seeds(e) /\ Appends(row)
    BY <1>4, PromotionRowFacts
  <2>2. /\ r \in Filed /\ WellFormedRule(r) /\ Len(e.runs) >= 3
        /\ SameMultiset(Seeds(e), r.seeds)
    BY PromotionFacts
  <2>3. Len(e.runs) \in Nat /\ DOMAIN Seeds(e) = 1 .. Len(e.runs)
    BY EvidenceFacts DEF Passing, Candidates
  <2>4. \A i, j \in DOMAIN r.seeds : r.seeds[i] = r.seeds[j] => i = j
    BY <2>2 DEF WellFormedRule
  <2>5. /\ seen = ToSet(r.seeds)
        /\ \A i, j \in 1 .. Len(e.runs) : Seeds(e)[i] = Seeds(e)[j] => i = j
    BY <2>2, <2>3, <2>4, SameSeeds DEF ToSet
  <2>6. Cardinality(seen) >= 3
    <3>1. Cardinality(seen) = Len(e.runs)
      BY <2>3, <2>5, SeedsCounted DEF ToSet
    <3>. QED
      BY <3>1, <2>2
  <2>7. PICK j : j \in RulePositions(r) /\ j \in 1 .. n /\ ledger[j].rule = r
    <3>1. PICK k : k \in RulePositions(r)
      BY <2>2, PositionFacts
    <3>. QED
      BY <3>1, PositionFacts DEF RulePositions, n
  <2>. HIDE DEF row
  <2>8. j \in RulePositions(r)' /\ ledger'[j].rule = r /\ j < n + 1
    BY <2>1, <2>7, <1>0, Growth DEF n
  <2>9. ASSUME NEW i \in Promoted', i = n + 1
        PROVE  ledger'[i].rule = r /\ Seeded(i, r)'
    <3>1. ledger'[i] = row
      BY <2>1, <2>9, Growth DEF n
    <3>2. ToSet(ledger'[i].seeds) = seen
      BY <2>1, <3>1
    <3>. QED
      BY <2>1, <2>5, <2>6, <2>8, <2>9, <3>1, <3>2 DEF Seeded
  <2>10. \A i \in Promoted' : i \in Promoted \/ i = n + 1
    BY <2>1, Growth DEF n
  <2>. QED
    BY <2>1, <2>9, <2>10, <1>2, SeedsForm
<1>. QED
  BY <1>1, <1>3, <1>4, LedgerSteps

-----------------------------------------------------------------------------
(* An exhausted lineage.                                                   *)

\* The rules of a lineage that won nothing are no more than the rows that filed
\* them: a rule that is filed twice counts twice.
LEMMA RulesBoundedByRows ==
  ASSUME TypeOK, NEW x
  PROVE  /\ IsFiniteSet({r \in Filed \ Won : r.parent = x})
         /\ Cardinality({r \in Filed \ Won : r.parent = x}) \in Nat
         /\ Cardinality(Unpromoted(x)) \in Nat
         /\ Cardinality({r \in Filed \ Won : r.parent = x}) <= Cardinality(Unpromoted(x))
<1>. DEFINE shopped == {r \in Filed \ Won : r.parent = x}
            f == [i \in Unpromoted(x) |-> ledger[i].rule]
<1>1. Unpromoted(x) \subseteq 1 .. Len(ledger)
  BY LedgerFacts DEF Unpromoted
<1>2. IsFiniteSet(Unpromoted(x))
  <2>1. IsFiniteSet(1 .. Len(ledger))
    BY LedgerFacts, FS_Interval
  <2>. QED
    BY <1>1, <2>1, FS_Subset
<1>3. \A i \in Unpromoted(x) : ledger[i].rule \in shopped
  BY DEF Unpromoted, Filed
<1>4. \A r \in shopped : \E i \in Unpromoted(x) : ledger[i].rule = r
  BY DEF Unpromoted, Filed
<1>. HIDE DEF shopped
<1>5. f \in Surjection(Unpromoted(x), shopped)
  BY <1>3, <1>4 DEF Surjection
<1>. HIDE DEF f
<1>6. IsFiniteSet(shopped) /\ Cardinality(shopped) <= Cardinality(Unpromoted(x))
  BY <1>2, <1>5, FS_Surjection
<1>7. Cardinality(shopped) \in Nat /\ Cardinality(Unpromoted(x)) \in Nat
  BY <1>2, <1>6, FS_CardinalityType
<1>. QED
  BY <1>6, <1>7 DEF shopped

\* While a lineage is exhausted, no step promotes under one of its rules.
LEMMA ExhaustedPromotesNothing ==
  ASSUME TypeOK, [Next]_vars, NEW x, Exhausted(x), NEW i \in Promoted' \ Promoted
  PROVE  ledger'[i].rule.parent # x
<1>1. PICK y \in ExpIds, e \in Passing, r \in Rules :
        r \in PromotableUnder(e, y) /\ Appends(Promotion(y, e, r))
  <2>1. CASE UNCHANGED ledger
    BY <2>1, SameLedger
  <2>2. ASSUME NEW row \in Row, ~Promotes(row), Appends(row) PROVE FALSE
    BY <2>2, Growth
  <2>. QED
    BY <2>1, <2>2, LedgerSteps, PromotionFacts
<1>. DEFINE row == Promotion(y, e, r)
<1>2. row \in Row /\ row.rule = r /\ Appends(row)
  BY <1>1, PromotionRowFacts
<1>. HIDE DEF row
<1>3. ledger'[i].rule = r
  BY <1>2, Growth
<1>4. Cardinality(Unpromoted(r.parent)) <= MaxAttempts
  BY <1>1, PromotionFacts
<1>5. ASSUME r.parent = x PROVE FALSE
  <2>. DEFINE rules == Cardinality({s \in Filed \ Won : s.parent = x})
              rows  == Cardinality(Unpromoted(x))
  <2>1. rules \in Nat /\ rows \in Nat /\ rules <= rows
    BY RulesBoundedByRows
  <2>2. rules > MaxAttempts /\ rows <= MaxAttempts
    BY <1>4, <1>5 DEF Exhausted
  <2>. HIDE DEF rules, rows
  <2>. QED
    BY <2>1, <2>2, LimitAssumption
<1>. QED
  BY <1>3, <1>5

\* An exhausted lineage stays exhausted, unless an ungoverned verdict cites one
\* of its rules.
LEMMA ExhaustedStays ==
  ASSUME TypeOK, [Next]_vars, NEW x, Exhausted(x)
  PROVE  Exhausted(x)' \/ \E i \in Citations' \ Citations : ledger'[i].rule.parent = x
<1>. DEFINE shopped == {r \in Filed \ Won : r.parent = x}
<1>1. SUFFICES ASSUME ~\E i \in Citations' \ Citations : ledger'[i].rule.parent = x
               PROVE  Exhausted(x)'
  OBVIOUS
<1>2. shopped \subseteq shopped' /\ \E one : shopped' \subseteq shopped \cup {one}
  <2>1. CASE UNCHANGED ledger
    BY <2>1, SameLedger
  <2>2. ASSUME NEW row \in Row, Appends(row),
               row.kind = "verdict" /\ row.rule # NoRule => row.rule.parent # x
        PROVE  shopped \subseteq shopped' /\ \E one : shopped' \subseteq shopped \cup {one}
    <3>1. /\ Filed' = Filed \cup {r \in {row.rule} : row.kind = "prereg"}
          /\ Won' = Won \cup {r \in {row.rule} : row.kind = "verdict" /\ r # NoRule}
      BY <2>2, Growth
    <3>2. \A r \in Won' \ Won : r.parent # x
      BY <2>2, <3>1
    <3>3. shopped \subseteq shopped'
      BY <3>1, <3>2
    <3>4. shopped' \subseteq shopped \cup {row.rule}
      BY <3>1
    <3>. QED
      BY <3>3, <3>4
  <2>3. ASSUME NEW row \in Row, ~Promotes(row), Appends(row)
        PROVE  row.kind = "verdict" /\ row.rule # NoRule => row.rule.parent # x
    <3>1. SUFFICES ASSUME row.kind = "verdict", row.rule # NoRule
                   PROVE  row.rule.parent # x
      OBVIOUS
    <3>2. Cites(row)
      BY <2>3, <3>1 DEF Cites, Promotes
    <3>3. Citations \subseteq 1 .. Len(ledger)
      BY LedgerFacts DEF Citations
    <3>4. /\ Len(ledger) + 1 \in Citations' \ Citations
          /\ ledger'[Len(ledger) + 1] = row
      BY <2>3, <3>2, <3>3, Growth
    <3>. QED
      BY <1>1, <3>4
  <2>4. ASSUME NEW y \in ExpIds, NEW e \in Passing, NEW r \in PromotableUnder(e, y),
               Appends(Promotion(y, e, r))
        PROVE  shopped \subseteq shopped' /\ \E one : shopped' \subseteq shopped \cup {one}
    <3>. DEFINE row == Promotion(y, e, r)
    <3>1. row \in Row /\ Promotes(row) /\ Appends(row)
      BY <2>4, PromotionRowFacts
    <3>. HIDE DEF row
    <3>2. Promoted \subseteq 1 .. Len(ledger)
      BY LedgerFacts DEF Promoted
    <3>3. /\ Len(ledger) + 1 \in Promoted' \ Promoted
          /\ ledger'[Len(ledger) + 1] = row
      BY <3>1, <3>2, Growth
    <3>4. row.rule.parent # x
      BY <3>3, ExhaustedPromotesNothing
    <3>. QED
      BY <2>2, <3>1, <3>4
  <2>. QED
    BY <2>1, <2>2, <2>3, <2>4, LedgerSteps
<1>3. IsFiniteSet(shopped')
  <2>1. IsFiniteSet(shopped)
    BY RulesBoundedByRows
  <2>2. PICK r : shopped' \subseteq shopped \cup {r}
    BY <1>2
  <2>. HIDE DEF shopped
  <2>3. IsFiniteSet(shopped \cup {r})
    BY <2>1, FS_AddElement
  <2>. QED
    BY <2>2, <2>3, FS_Subset
<1>. HIDE DEF shopped
<1>4. /\ Cardinality(shopped) \in Nat /\ Cardinality(shopped') \in Nat
      /\ Cardinality(shopped) <= Cardinality(shopped')
  BY <1>2, <1>3, FS_Subset, FS_CardinalityType
<1>5. Cardinality(shopped) > MaxAttempts
  BY DEF Exhausted, shopped
<1>6. Cardinality(shopped') > MaxAttempts
  BY <1>4, <1>5, LimitAssumption
<1>. QED
  BY <1>6 DEF Exhausted, shopped

\* No step promotes anything on a torn ledger, or mends it.
LEMMA NextTorn ==
  ASSUME TypeOK, Next, tail = "torn"
  PROVE  Won' = Won /\ shown' = NoVerdict /\ tail' = "torn"
<1>1. ASSUME NEW row \in Row, Log(row)
      PROVE  Won' = Won /\ shown' = NoVerdict /\ tail' = "torn"
  BY <1>1, LogFacts, SameLedger
<1>2. ASSUME NEW r \in Rules, FileRule(r)
      PROVE  Won' = Won /\ shown' = NoVerdict /\ tail' = "torn"
  BY <1>1, <1>2, RowFacts DEF FileRule, Citable
<1>3. ASSUME NEW s \in Sessions, Begin(s) \/ EndUnrecorded(s)
      PROVE  Won' = Won /\ shown' = NoVerdict /\ tail' = "torn"
  BY <1>3, SameLedger DEF Begin, EndUnrecorded
<1>4. ASSUME NEW s \in Sessions, RunUngoverned(s)
      PROVE  Won' = Won /\ shown' = NoVerdict /\ tail' = "torn"
  <2>1. PICK x \in ExpIds :
          \/ \E m \in Means \cup {<<>>} : Log(Verdict(x, m))
          \/ \E e \in Passing, r \in Citable : Log(Citation(x, e, r))
    BY <1>4 DEF RunUngoverned
  <2>. QED
    BY <1>1, <2>1, RowFacts
<1>5. ASSUME NEW s \in Sessions, RunAndRecord(s) \/ Report(s)
      PROVE  FALSE
  BY <1>5 DEF RunAndRecord, Report, Readable
<1>. QED
  BY <1>2, <1>3, <1>4, <1>5 DEF Next

-----------------------------------------------------------------------------
(* The properties.                                                         *)

\* A promoted row, read back whenever, names a rule whose baseline is what its
\* parent had recorded last above it; and if its evidence was plain, it shows the
\* gain it was promoted for and no worse guardrail.
THEOREM ClaimCorrect == Spec => []ClaimIsAudited
<1>1. Init => ClaimIsAudited
  BY DEF Init, ClaimIsAudited, Promoted
<1>2. TypeOK /\ ClaimIsAudited /\ [Next]_vars => ClaimIsAudited'
  BY NextClaim
<1>. QED
  BY <1>1, <1>2, TypeCorrect, PTL DEF Spec

\* Whatever seeds were run and whatever rules are filed, a promotion rests on
\* three different seeds or more, and they are those its rule declared above it.
THEOREM SeedsCorrect == Spec => []PromotionRestsOnSeeds
<1>1. Init => PromotionRestsOnSeeds
  BY DEF Init, PromotionRestsOnSeeds, Promoted
<1>2. TypeOK /\ PromotionRestsOnSeeds /\ [Next]_vars => PromotionRestsOnSeeds'
  BY NextSeeds
<1>. QED
  BY <1>1, <1>2, TypeCorrect, PTL DEF Spec

\* However often an experiment is judged again, it is promoted only under rules
\* that were on file before it was first judged.
THEOREM HindsightCorrect == Spec => []NoHindsight
<1>1. Init => NoHindsight
  BY DEF Init, NoHindsight, Promoted
<1>2. TypeOK /\ NoHindsight /\ [Next]_vars => NoHindsight'
  BY NextNoHindsight
<1>. QED
  BY <1>1, <1>2, TypeCorrect, PTL DEF Spec

\* While a lineage has more unpromoted rules than the limit, nothing is promoted
\* under one of them, though the code counts rows and not rules; and only an
\* ungoverned verdict that cites one of them ends that.
THEOREM ExhaustionCorrect == Spec => ExhaustedStaysClosed
<1>1. TypeOK /\ [Next]_vars =>
        [\A x \in ExpIds : Exhausted(x) =>
           /\ \A i \in Promoted' \ Promoted : ledger'[i].rule.parent # x
           /\ Exhausted(x)' \/ \E i \in Citations' \ Citations : ledger'[i].rule.parent = x]_vars
  BY ExhaustedPromotesNothing, ExhaustedStays
<1>. QED
  BY <1>1, TypeCorrect, PTL DEF Spec, ExhaustedStaysClosed

\* A torn row closes the ledger for good: nothing wins and nothing is shown.
THEOREM TornCorrect == Spec => TornLedgerPromotesNothing
<1>1. TypeOK /\ [Next]_vars =>
        [tail = "torn" => Won' = Won /\ shown' = NoVerdict /\ tail' = "torn"]_vars
  BY NextTorn
<1>. QED
  BY <1>1, TypeCorrect, PTL DEF Spec, TornLedgerPromotesNothing

-----------------------------------------------------------------------------
(* The ledger implements PromotionRecord.                                  *)

\* A position below all the others does not move the first of them.
LEMMA FirstStays ==
  ASSUME NEW n \in Nat, NEW S \in SUBSET (1 .. n), NEW T \in SUBSET {n + 1}
  PROVE  /\ S # {} => First(S \cup T) = First(S) /\ First(S) \in 1 .. n
         /\ S = {} /\ T # {} => First(S \cup T) = n + 1
<1>0. S \subseteq Nat /\ S \cup T \in SUBSET Nat
  OBVIOUS
<1>1. ASSUME S # {}
      PROVE  First(S \cup T) = First(S) /\ First(S) \in 1 .. n
  <2>. DEFINE a == Min(S \cup T)
              b == Min(S)
  <2>1. a \in S \cup T /\ \A i \in S \cup T : a <= i
    BY <1>0, <1>1, MinOfPositions
  <2>2. b \in S /\ \A i \in S : b <= i
    BY <1>0, <1>1, MinOfPositions
  <2>3. First(S \cup T) = a /\ First(S) = b
    BY <1>1 DEF First
  <2>. HIDE DEF a, b
  <2>4. a \in Nat /\ b \in 1 .. n /\ a <= b
    BY <1>0, <2>1, <2>2
  <2>5. a \in S
    BY <2>1, <2>4
  <2>6. b <= a
    BY <2>2, <2>5
  <2>. QED
    BY <2>3, <2>4, <2>6
<1>2. ASSUME S = {}, T # {}
      PROVE  First(S \cup T) = n + 1
  <2>1. S \cup T = {n + 1}
    BY <1>2
  <2>2. Min({n + 1}) \in {n + 1}
    BY MinOfPositions
  <2>. QED
    BY <2>1, <2>2 DEF First
<1>. QED
  BY <1>1, <1>2

\* Where a rule was first filed and an experiment first judged stays where it
\* is, and what is filed or judged for the first time is so in the new row.
LEMMA FirstPositions ==
  ASSUME TypeOK, NEW row \in Row, Appends(row)
  PROVE  LET n == Len(ledger) IN
         /\ \A r \in Filed :
              PositionOfPrereg(r)' = PositionOfPrereg(r) /\ PositionOfPrereg(r) \in 1 .. n
         /\ \A r \in Filed' \ Filed : PositionOfPrereg(r)' = n + 1
         /\ \A x : VerdictsOf(x) # {} =>
              PositionOfVerdict(x)' = PositionOfVerdict(x) /\ PositionOfVerdict(x) \in 1 .. n
         /\ \A x : VerdictsOf(x) = {} /\ VerdictsOf(x)' # {} => PositionOfVerdict(x)' = n + 1
<1>. DEFINE n == Len(ledger)
<1>0. n \in Nat
  BY LedgerFacts
<1>1. \A r : /\ RulePositions(r) \in SUBSET (1 .. n)
             /\ RulePositions(r)' =
                  RulePositions(r) \cup {i \in {n + 1} : row.kind = "prereg" /\ row.rule = r}
  BY PositionFacts, Growth
<1>2. \A x : /\ VerdictsOf(x) \in SUBSET (1 .. n)
             /\ VerdictsOf(x)' =
                  VerdictsOf(x) \cup {i \in {n + 1} : row.kind = "verdict" /\ row.exp = x}
  BY PositionFacts, Growth
<1>3. Filed' = Filed \cup {r \in {row.rule} : row.kind = "prereg"}
  BY Growth
<1>4. \A r : r \in Filed <=> RulePositions(r) # {}
  BY PositionFacts
<1>. HIDE DEF n
<1>5. ASSUME NEW r \in Filed
      PROVE  PositionOfPrereg(r)' = PositionOfPrereg(r) /\ PositionOfPrereg(r) \in 1 .. n
  <2>. DEFINE T == {i \in {n + 1} : row.kind = "prereg" /\ row.rule = r}
  <2>1. RulePositions(r) # {} /\ T \in SUBSET {n + 1} /\ RulePositions(r)' = RulePositions(r) \cup T
    BY <1>1, <1>4
  <2>. HIDE DEF T
  <2>. QED
    BY <1>0, <1>1, <2>1, FirstStays DEF PositionOfPrereg
<1>6. ASSUME NEW r \in Filed' \ Filed
      PROVE  PositionOfPrereg(r)' = n + 1
  <2>. DEFINE T == {i \in {n + 1} : row.kind = "prereg" /\ row.rule = r}
  <2>1. RulePositions(r) = {} /\ T = {n + 1} /\ RulePositions(r)' = RulePositions(r) \cup T
    BY <1>1, <1>3, <1>4
  <2>2. T \in SUBSET {n + 1} /\ T # {}
    BY <2>1
  <2>. HIDE DEF T
  <2>3. First(RulePositions(r) \cup T) = n + 1
    <3>1. {} \in SUBSET (1 .. n)
      OBVIOUS
    <3>2. First({} \cup T) = n + 1
      BY <1>0, <2>2, <3>1, FirstStays
    <3>. QED
      BY <2>1, <3>2
  <2>. QED
    BY <2>1, <2>3 DEF PositionOfPrereg
<1>7. ASSUME NEW x, VerdictsOf(x) # {}
      PROVE  PositionOfVerdict(x)' = PositionOfVerdict(x) /\ PositionOfVerdict(x) \in 1 .. n
  <2>. DEFINE T == {i \in {n + 1} : row.kind = "verdict" /\ row.exp = x}
  <2>1. T \in SUBSET {n + 1} /\ VerdictsOf(x)' = VerdictsOf(x) \cup T
    BY <1>2
  <2>. HIDE DEF T
  <2>2. /\ First(VerdictsOf(x) \cup T) = First(VerdictsOf(x))
        /\ First(VerdictsOf(x)) \in 1 .. n
    BY <1>0, <1>2, <1>7, <2>1, FirstStays
  <2>. QED
    BY <2>1, <2>2 DEF PositionOfVerdict
<1>8. ASSUME NEW x, VerdictsOf(x) = {}, VerdictsOf(x)' # {}
      PROVE  PositionOfVerdict(x)' = n + 1
  <2>. DEFINE T == {i \in {n + 1} : row.kind = "verdict" /\ row.exp = x}
  <2>1. T \in SUBSET {n + 1} /\ VerdictsOf(x)' = VerdictsOf(x) \cup T /\ T # {}
    BY <1>2, <1>8
  <2>. HIDE DEF T
  <2>. QED
    BY <1>0, <1>2, <1>8, <2>1, FirstStays DEF PositionOfVerdict
<1>. QED
  BY <1>5, <1>6, <1>7, <1>8 DEF n

\* The rules an experiment may still win with: those its first verdict found.
JudgedWith(x) ==
  IF VerdictsOf(x) = {} THEN Unjudged
  ELSE {r \in Filed : PositionOfPrereg(r) < PositionOfVerdict(x)}

\* An experiment's first verdict finds the rules that are on file; nothing else
\* changes what it found.
LEMMA JudgedSteps ==
  ASSUME TypeOK, NEW row \in Row, Appends(row), NEW x
  PROVE  /\ JudgedWith(x) = Unjudged <=> VerdictsOf(x) = {}
         /\ row.kind = "verdict" /\ row.exp = x /\ VerdictsOf(x) = {} => JudgedWith(x)' = Filed
         /\ ~(row.kind = "verdict" /\ row.exp = x /\ VerdictsOf(x) = {}) =>
              JudgedWith(x)' = JudgedWith(x)
<1>. DEFINE n == Len(ledger)
<1>0. n \in Nat /\ Filed \subseteq Rules
  BY LedgerFacts
<1>1. VerdictsOf(x)' =
        VerdictsOf(x) \cup {i \in {n + 1} : row.kind = "verdict" /\ row.exp = x}
  BY Growth
<1>2. Filed' = Filed \cup {r \in {row.rule} : row.kind = "prereg"}
  BY Growth
<1>3. /\ \A r \in Filed :
           PositionOfPrereg(r)' = PositionOfPrereg(r) /\ PositionOfPrereg(r) \in 1 .. n
      /\ \A r \in Filed' \ Filed : PositionOfPrereg(r)' = n + 1
      /\ VerdictsOf(x) # {} =>
           PositionOfVerdict(x)' = PositionOfVerdict(x) /\ PositionOfVerdict(x) \in 1 .. n
      /\ VerdictsOf(x) = {} /\ VerdictsOf(x)' # {} => PositionOfVerdict(x)' = n + 1
  BY FirstPositions
<1>. HIDE DEF n
<1>4. JudgedWith(x) = Unjudged <=> VerdictsOf(x) = {}
  <2>1. {r \in Filed : PositionOfPrereg(r) < PositionOfVerdict(x)} \in SUBSET Rules
    BY <1>0
  <2>. QED
    BY <2>1, UnjudgedAssumption DEF JudgedWith
<1>5. ASSUME row.kind = "verdict", row.exp = x, VerdictsOf(x) = {}
      PROVE  JudgedWith(x)' = Filed
  <2>1. VerdictsOf(x)' # {} /\ Filed' = Filed
    BY <1>1, <1>2, <1>5
  <2>2. \A r \in Filed : PositionOfPrereg(r)' < PositionOfVerdict(x)'
    BY <1>0, <1>3, <1>5, <2>1
  <2>. QED
    BY <2>1, <2>2 DEF JudgedWith
<1>6. ASSUME ~(row.kind = "verdict" /\ row.exp = x), VerdictsOf(x) = {}
      PROVE  JudgedWith(x)' = JudgedWith(x)
  BY <1>1, <1>6 DEF JudgedWith
<1>7. ASSUME VerdictsOf(x) # {}
      PROVE  JudgedWith(x)' = JudgedWith(x)
  <2>1. VerdictsOf(x)' # {} /\ PositionOfVerdict(x)' = PositionOfVerdict(x)
        /\ PositionOfVerdict(x) \in 1 .. n
    BY <1>1, <1>3, <1>7
  <2>2. \A r \in Filed' \ Filed : ~(PositionOfPrereg(r)' < PositionOfVerdict(x)')
    BY <1>0, <1>3, <2>1
  <2>3. \A r \in Filed :
          PositionOfPrereg(r)' < PositionOfVerdict(x)'
            <=> PositionOfPrereg(r) < PositionOfVerdict(x)
    BY <1>3, <2>1
  <2>4. {r \in Filed' : PositionOfPrereg(r)' < PositionOfVerdict(x)'}
          = {r \in Filed : PositionOfPrereg(r) < PositionOfVerdict(x)}
    BY <1>2, <2>2, <2>3
  <2>. QED
    BY <1>7, <2>1, <2>4 DEF JudgedWith
<1>. QED
  BY <1>4, <1>5, <1>6, <1>7

\* A verdict is an experiment's first or changes nothing of what it was judged
\* with; any other row does not concern experiments.
LEMMA FirstJudgedSteps ==
  ASSUME TypeOK, NEW row \in Row, Appends(row)
  PROVE  /\ row.kind = "verdict" => Record!FirstJudged(row.exp)
         /\ row.kind = "prereg" =>
              [x \in ExpIds |-> JudgedWith(x)]' = [x \in ExpIds |-> JudgedWith(x)]
<1>1. ASSUME row.kind = "verdict"
      PROVE  Record!FirstJudged(row.exp)
  <2>1. row.exp \in ExpIds
    BY <1>1, RowFacts
  <2>2. \A x \in ExpIds \ {row.exp} : JudgedWith(x)' = JudgedWith(x)
    BY JudgedSteps
  <2>3. JudgedWith(row.exp)' =
          IF JudgedWith(row.exp) = Unjudged THEN Filed ELSE JudgedWith(row.exp)
    BY <1>1, JudgedSteps
  <2>4. [x \in ExpIds |-> JudgedWith(x)'] =
          [[x \in ExpIds |-> JudgedWith(x)] EXCEPT
             ![row.exp] = IF @ = Unjudged THEN Filed ELSE @]
    BY <2>1, <2>2, <2>3
  <2>. QED
    BY <2>4 DEF Record!FirstJudged, JudgedWith
<1>2. ASSUME row.kind = "prereg"
      PROVE  [x \in ExpIds |-> JudgedWith(x)]' = [x \in ExpIds |-> JudgedWith(x)]
  BY <1>2, JudgedSteps
<1>. QED
  BY <1>1, <1>2

\* Both modules count alike.
LEMMA RecordCardinality == \A S : Record!Cardinality(S) = Cardinality(S)
  BY DEF Record!Cardinality, Cardinality

\* The empty ledger is the empty record.
LEMMA InitRecord ==
  ASSUME Init
  PROVE  Record!Init
<1>1. DOMAIN ledger = {}
  BY DEF Init
<1>2. Filed = {} /\ Winners = {} /\ Quoted = {} /\ \A x : VerdictsOf(x) = {}
  BY <1>1 DEF Filed, Winners, Quoted, Promoted, Citations, VerdictsOf
<1>. QED
  BY <1>2 DEF Record!Init

\* Every step of the ledger files a rule, rejects or promotes an experiment, cites
\* a rule for one, or is none of the record's.
LEMMA NextRecord ==
  ASSUME TypeOK, [Next]_vars
  PROVE  [Record!Next]_(Record!vars)
<1>1. CASE UNCHANGED ledger
  <2>1. /\ Filed' = Filed /\ Winners' = Winners /\ Quoted' = Quoted
        /\ \A x : VerdictsOf(x)' = VerdictsOf(x) /\ PositionOfVerdict(x)' = PositionOfVerdict(x)
        /\ \A r : PositionOfPrereg(r)' = PositionOfPrereg(r)
    BY <1>1, SameLedger DEF PositionOfVerdict, PositionOfPrereg
  <2>2. \A x : JudgedWith(x)' = JudgedWith(x)
    BY <2>1 DEF JudgedWith
  <2>3. [x \in ExpIds |-> JudgedWith(x)]' = [x \in ExpIds |-> JudgedWith(x)]
    BY <2>2
  <2>. QED
    BY <2>1, <2>3 DEF Record!vars, JudgedWith
<1>2. ASSUME NEW row \in Row, ~Promotes(row), Appends(row)
      PROVE  Record!Next
  <2>1. Winners' = Winners
    BY <1>2, Growth
  <2>2. CASE row.kind = "prereg"
    <3>1. row.rule \in Rules /\ Filed' = Filed \cup {row.rule} /\ Quoted' = Quoted
      BY <1>2, <2>2, RowFacts, Growth DEF Cites
    <3>2. [x \in ExpIds |-> JudgedWith(x)]' = [x \in ExpIds |-> JudgedWith(x)]
      BY <1>2, <2>2, FirstJudgedSteps
    <3>3. Record!File(row.rule)
      BY <2>1, <3>1, <3>2 DEF Record!File, JudgedWith
    <3>. QED
      BY <3>1, <3>3 DEF Record!Next
  <2>3. CASE row.kind = "verdict"
    <3>1. row.exp \in ExpIds /\ Filed' = Filed
      BY <1>2, <2>3, RowFacts, Growth
    <3>2. CASE Cites(row)
      <4>1. row.rule \in Rules /\ Quoted' = Quoted \cup {row.rule}
        BY <1>2, <3>2, RowFacts, Growth DEF Cites
      <4>2. Record!Cite(row.exp, row.rule)
        BY <1>2, <2>1, <2>3, <3>1, <4>1, FirstJudgedSteps DEF Record!Cite
      <4>. QED
        BY <3>1, <4>1, <4>2 DEF Record!Next
    <3>3. CASE ~Cites(row)
      <4>1. Quoted' = Quoted
        BY <1>2, <3>3, Growth
      <4>2. Record!Reject(row.exp)
        BY <1>2, <2>1, <2>3, <3>1, <4>1, FirstJudgedSteps DEF Record!Reject
      <4>. QED
        BY <3>1, <4>2 DEF Record!Next
    <3>. QED
      BY <3>2, <3>3
  <2>. QED
    BY <2>2, <2>3, RowFacts
<1>3. ASSUME NEW x \in ExpIds, NEW e \in Passing, NEW r \in PromotableUnder(e, x),
             Appends(Promotion(x, e, r))
      PROVE  Record!Next
  <2>. DEFINE row == Promotion(x, e, r)
  <2>1. /\ row \in Row /\ row.kind = "verdict" /\ Promotes(row) /\ ~Cites(row)
        /\ row.rule = r /\ row.exp = x /\ Appends(row)
    BY <1>3, PromotionRowFacts
  <2>2. /\ r \in Rules /\ r \in Filed
        /\ PositionOfVerdict(x) = 0 \/ PositionOfPrereg(r) < PositionOfVerdict(x)
        /\ Cardinality(Unpromoted(r.parent)) <= MaxAttempts
    BY PromotionFacts
  <2>. HIDE DEF row
  <2>3. Filed' = Filed /\ Winners' = Winners \cup {r} /\ Quoted' = Quoted
    BY <2>1, Growth
  <2>4. Record!FirstJudged(x)
    BY <2>1, FirstJudgedSteps
  <2>5. JudgedWith(x) = Unjudged \/ r \in JudgedWith(x)
    <3>1. VerdictsOf(x) # {} => PositionOfVerdict(x) # 0
      BY PositionFacts
    <3>. QED
      BY <2>2, <3>1 DEF JudgedWith
  <2>6. Cardinality(Record!Shopped(r.parent)) <= MaxAttempts
    <3>. DEFINE unwon == {s \in Filed \ Won : s.parent = r.parent}
                rows  == Cardinality(Unpromoted(r.parent))
    <3>1. Record!Shopped(r.parent) \subseteq unwon
      BY LedgerFacts, WonParts DEF Record!Shopped
    <3>2. /\ IsFiniteSet(unwon) /\ Cardinality(unwon) \in Nat
          /\ rows \in Nat /\ Cardinality(unwon) <= rows
      BY RulesBoundedByRows
    <3>3. rows <= MaxAttempts
      BY <2>2
    <3>. HIDE DEF unwon, rows
    <3>. DEFINE shopped == Record!Shopped(r.parent)
    <3>4. Cardinality(shopped) \in Nat /\ Cardinality(shopped) <= Cardinality(unwon)
      <4>. HIDE DEF shopped
      <4>. QED
        BY <3>1, <3>2, FS_Subset, FS_CardinalityType DEF shopped
    <3>. HIDE DEF shopped
    <3>5. Cardinality(shopped) <= MaxAttempts
      BY <3>2, <3>3, <3>4, LimitAssumption
    <3>. QED
      BY <3>5 DEF shopped
  <2>7. Record!Promote(x, r)
    <3>1. [y \in ExpIds |-> JudgedWith(y)][x] = JudgedWith(x)
      OBVIOUS
    <3>2. [s \in Rules |-> s.parent][r] = r.parent
      BY <2>2
    <3>. QED
      BY <2>2, <2>3, <2>4, <2>5, <2>6, <3>1, <3>2, RecordCardinality
         DEF Record!Promote, JudgedWith
  <2>. QED
    BY <2>2, <2>7 DEF Record!Next
<1>. QED
  BY <1>1, <1>2, <1>3, LedgerSteps

\* Whatever is filed, filed again, judged, judged again, lost or torn, the
\* ledger keeps the promises of G-07 and G-08 as PromotionRecord states them.
THEOREM RecordCorrect == Spec => ImplementsPromotionRecord
<1>1. Init => Record!Init
  BY InitRecord
<1>2. TypeOK /\ [Next]_vars => [Record!Next]_(Record!vars)
  BY NextRecord
<1>. QED
  BY <1>1, <1>2, TypeCorrect, PTL DEF Spec, Record!Spec, ImplementsPromotionRecord

=============================================================================
