------------------------------- MODULE Gates -------------------------------
(***************************************************************************)
(* The gate set (harness.py, gates_v1.py, prereg.py) as predicates over a  *)
(* candidate's evidence: what a run reported, what its diff touched, and   *)
(* which job it cites.  A metric is an integer number of ticks, far wider  *)
(* than the code's tolerances; a mean is the pair <<sum, count>> and is    *)
(* compared by cross multiplication, so nothing is rounded.                *)
(*                                                                         *)
(* evidence: runs, a sequence of [seed, val, extra, overlap, train, eval], *)
(*           where extra maps metrics to [num, bool], bool saying that the *)
(*           number is a Boolean; cost; diff, or NoDiff; att (the          *)
(*           attestation), or NoJob.                                       *)
(* rule:     a Preregistration.  It is its own content hash.               *)
(***************************************************************************)
EXTENDS Integers, Sequences, FiniteSets, FiniteSetsExt

CONSTANTS
  NotFinite,   \* a NaN or infinite number in a record
  NoDiff,      \* a candidate without diff evidence
  NoJob,       \* a candidate without an attestation
  NoRule,      \* nothing cited
  NoExp,       \* no parent experiment
  Unrecorded,  \* what the substrate could not say about a finished job
  MaxUsd,      \* gate_cost
  MaxAttempts  \* DEFAULT_MAX_ATTEMPTS of gate_prereg_churn

ASSUME LimitAssumption == MaxUsd \in Nat /\ MaxAttempts \in Nat

-----------------------------------------------------------------------------
(* Records                                                                 *)

\* Candidate.__post_init__: no gate ever sees a number that is not one.
Adjudicable(e) ==
  /\ e.cost \in Nat
  /\ \A i \in DOMAIN e.runs :
       /\ e.runs[i].overlap \in Nat
       /\ e.runs[i].val # NotFinite
       /\ \A m \in DOMAIN e.runs[i].extra : e.runs[i].extra[m].num # NotFinite

Seeds(e) == [i \in DOMAIN e.runs |-> e.runs[i].seed]
Vals(e)  == [i \in DOMAIN e.runs |-> e.runs[i].val]

\* A sample is a run and where it says a metric.  The primary metric has a field
\* of its own; whatever else a run reports is in its extra, a Boolean too.
Field(runs) == runs \X {"field"}
Extra(runs) == runs \X {"extra"}

Said(e, m, sample) ==
  IF sample[2] = "field" THEN e.runs[sample[1]].val ELSE e.runs[sample[1]].extra[m].num

MeanOver(e, m, samples) ==
  << MapThenSumSet(LAMBDA sample : Said(e, m, sample), samples), Cardinality(samples) >>

\* What the gates read: the field if the metric is the primary one, else the extra.
Judged(e, m) ==
  IF m = "val" THEN Field(DOMAIN e.runs)
               ELSE Extra({i \in DOMAIN e.runs : m \in DOMAIN e.runs[i].extra})

MeanOf(e, m) == MeanOver(e, m, Judged(e, m))

\* What a verdict records: no Boolean, and the primary field together with what an
\* extra says under its name.
Recorded(e, m) ==
  Field({i \in DOMAIN e.runs : m = "val"}) \cup
  Extra({i \in DOMAIN e.runs : m \in DOMAIN e.runs[i].extra /\ ~e.runs[i].extra[m].bool})

MeanMetrics(e) ==
  [m \in {n \in {"val"} \cup UNION {DOMAIN e.runs[i].extra : i \in DOMAIN e.runs} :
            Recorded(e, n) # {}} |-> MeanOver(e, m, Recorded(e, m))]

\* Evidence of which both say the same.
Plain(e) ==
  \A i \in DOMAIN e.runs :
    /\ "val" \notin DOMAIN e.runs[i].extra
    /\ \A m \in DOMAIN e.runs[i].extra : ~e.runs[i].extra[m].bool

\* How often each value occurs: two sequences are equal when sorted.
SameMultiset(s, t) ==
  \A x \in {s[i] : i \in DOMAIN s} \cup {t[i] : i \in DOMAIN t} :
    Cardinality({i \in DOMAIN s : s[i] = x}) = Cardinality({i \in DOMAIN t : t[i] = x})

\* Mutant of WellFormedRule: a declared seed may be repeated.
WellFormedRuleAnySeeds(r) ==
  /\ r.base # NotFinite /\ r.effect \in Nat /\ r.seeds # <<>>
  /\ \A g \in r.guards : g.tol \in Nat /\ g.metric # r.metric

\* Preregistration.__post_init__: a rule that cannot be built cannot be filed.
WellFormedRule(r) ==
  /\ r.base # NotFinite /\ r.effect \in Nat /\ r.seeds # <<>>
  /\ \A i, j \in DOMAIN r.seeds : r.seeds[i] = r.seeds[j] => i = j
  /\ \A g \in r.guards :
       g.tol \in Nat /\ g.metric # r.metric /\ g.metric \notin r.secondary

-----------------------------------------------------------------------------
(* The prototype's gates                                                   *)

GateNoLeakage(e) == \A i \in DOMAIN e.runs : e.runs[i].overlap = 0

GateReproducible(e) ==
  \A i, j \in DOMAIN e.runs :
    e.runs[i].seed = e.runs[j].seed => Vals(e)[i] = Vals(e)[j]

\* Without a baseline only the number of seeds is judged; the hill-climb lane
\* configures none, and leaves the comparison to the preregistration.
GateSeedVariance(e) == Len(e.runs) >= 3

GateCost(e) == e.cost <= MaxUsd

-----------------------------------------------------------------------------
(* The hardened gates                                                      *)

\* The modules that are the verification layer itself (_HARNESS_PATHS).
HarnessPaths ==
  {"harness.py", "gates_v1.py", "verifier.py", "conftest.py", "prereg.py",
   "adversarial_suite.py", "holdout.py", "selfcheck.py", "registry.py",
   "pipeline.py", "runner.py", "github_tracker.py", "substrate_guard.py",
   "literature.py", "local_substrate.py", "egress.py", "drone_audio.py",
   "linear_tracker.py", "gate_probe.py", "scorer.py", "llm_probe.py",
   "sandbox.py", "review_fleet.py"}

\* Runs only for a candidate that carries a diff.
GateNoTestTampering(d) ==
  d # NoDiff =>
    /\ d.touched \cap HarnessPaths = {}
    /\ ~d.removesAssert /\ ~d.addsSkip
    /\ \A old \in d.floorWas, new \in d.floorIs : new >= old

\* The best seed stands no further above the next than the others spread.
GateNoSingleSeedDominance(e) ==
  /\ Len(e.runs) >= 3
  /\ \E top \in DOMAIN e.runs :
       LET rest == {Vals(e)[i] : i \in DOMAIN e.runs \ {top}} IN
       /\ \A v \in rest : v <= Vals(e)[top]
       /\ Vals(e)[top] - Max(rest) <= Max(rest) - Min(rest)

\* A task that declares a grouping gets disjoint, declared groups or blocks.
GateNoGroupLeakage(e, grouped) ==
  grouped => \A i \in DOMAIN e.runs :
    /\ e.runs[i].train # {} /\ e.runs[i].eval # {}
    /\ e.runs[i].train \cap e.runs[i].eval = {}

\* The cited job is in the registry's log and is this ticket's, it ended with 0
\* and agrees with the attestation, wherever the substrate could say.
GateAttestedRun(e, jobs, ticket) ==
  /\ e.att # NoJob
  /\ e.att.job \in DOMAIN jobs
  /\ LET job == jobs[e.att.job] IN
     /\ job.ticket \in {Unrecorded, ticket}
     /\ job.digest \in {Unrecorded, e.att.digest}
     /\ job.exit \in {Unrecorded, 0} /\ (job.exit = 0 => e.att.exit = 0)
     /\ \/ Unrecorded \in {job.asked, job.ran}
        \/ job.ran = job.asked /\ e.att.ran \in {Unrecorded, job.ran}

-----------------------------------------------------------------------------
(* G-07 and G-08.  ctx is a PreregContext; position 0 stands for None.     *)

\* Guardrail.regressed: worse than the parent's record by more than tol.
Regressed(g, seen, parent) ==
  IF g.dir = "maximize"
  THEN seen[1] * parent[2] < (parent[1] - g.tol * parent[2]) * seen[2]
  ELSE seen[1] * parent[2] > (parent[1] + g.tol * parent[2]) * seen[2]

GuardrailHolds(e, g, parentMetrics) ==
  /\ Cardinality(Judged(e, g.metric)) = Len(e.runs)
  /\ g.metric \in DOMAIN parentMetrics
  /\ ~Regressed(g, MeanOf(e, g.metric), parentMetrics[g.metric])

\* The gain of a mean over the declared baseline, times the mean's count.
Gain(r, mean) ==
  IF r.dir = "maximize" THEN mean[1] - r.base * mean[2]
                        ELSE r.base * mean[2] - mean[1]

GatePreregistration(e, ctx) ==
  LET r == ctx.prereg IN
  /\ ~ctx.exploratory
  /\ r # NoRule
  /\ r \in ctx.filed
  /\ ctx.verdictPosition = 0 \/ ctx.preregPosition < ctx.verdictPosition
  /\ SameMultiset(Seeds(e), r.seeds)
  /\ Cardinality(Judged(e, r.metric)) = Len(e.runs)
  /\ \A g \in r.guards : GuardrailHolds(e, g, ctx.parentMetrics)
  /\ r.parent # NoExp
  /\ r.metric \in DOMAIN ctx.parentMetrics
  /\ LET parent == ctx.parentMetrics[r.metric] IN parent[1] = r.base * parent[2]
  /\ Gain(r, MeanOf(e, r.metric)) >= r.effect * Len(e.runs)

\* Mutant of GatePreregChurn: the limit is one attempt too generous.
GatePreregChurnLate(ctx) == ctx.exploratory \/ ctx.attempts <= MaxAttempts + 1

GatePreregChurn(ctx) == ctx.exploratory \/ ctx.attempts <= MaxAttempts

=============================================================================
