# expfactory: a verification project in TLA+

expfactory lets language-model agents run machine-learning experiments and
keeps them honest: agents propose, deterministic gates judge, and humans hold
the keys.  Five parts of it carry state that several processes, crashes and
humans change behind each other's back, or that decides what counts as a result:
the **job registry** (money and compute jobs), the **runner** (tickets and agent
sessions), the **local substrate** (jobs as detached processes), the **verdict
ledger** with its gates (what is promoted, under which rule filed when) and the
**trackers** (which tickets there are and who granted a dispatch).  This directory
models these five, checks them with TLC on small instances, and proves with TLAPS, for
every value of the constants, every safety and action property that the passing runs
check, and the three refinements.

Paths such as `registry.py:1229` mean `src/src/expfactory/registry.py`, line 1229.
`PROJECT.json` maps every definition to the lines it stands for.

## 1. The system

| Part | State it keeps | Operations | Status |
|---|---|---|---|
| Job registry, `registry.py` | an append-only, fsynced JSONL log; a lock file | `submit`, `collect_finished`, `resolve`, `sweep`, `reconcile`, `abandon_reservation`, `trip_breaker`, `reset_breaker` | `Registry`, log damage planned |
| Runner, `runner.py` | nothing of its own: tickets in the tracker, jobs in the registry, the locals of one tick | `tick`, `_collect_finished`, `_reconcile_lost`, `_dispatch`, `_detach`, `eligibility`, the two budgets | `Runner` |
| Local GPU substrate, `local_substrate.py` | run directories (`meta.json`, `done.json`), one marker file per key, two processes per job | `submit`, `poll`, `cancel`, `running`, `fetch_artifact`, `rate_card`, `preflight` | `LocalSubstrate`; `fetch_artifact` and the resource checks left out |
| Linear and GitHub trackers, `linear_tracker.py`, `github_tracker.py` | none: a remote board, read page by page | `open_tickets`, `label_actor`, `set_state`, `comment` | `Grants` (listings, histories, who granted), `Runner` (states); comments left out |
| Verdict ledger and gate verifier, `verifier.py`, `pipeline.py` | an append-only file of preregistrations and verdicts | `append_prereg`, `run_and_record`, `GateVerifier.run`, the runner's `_adjudicate`, positions, lineage counts, recorded metrics | `Adjudication` |
| Preregistration gates, `prereg.py` | none: pure rules over what the ledger says | `Preregistration`, `Guardrail`, `gate_preregistration` (G-07), `gate_prereg_churn` (G-08) | `Gates` |
| Prototype gates and experiment ledger, `harness.py` | a ledger of experiments | `gate_no_leakage` and its siblings, `run_experiment` | the four gates of the hill-climb lane, in `Gates` |
| Hardened gates, `gates_v1.py` | none | test tampering, single-seed dominance, group leakage, attested run | `Gates` |
| Holdout budget and ladder, `holdout.py`, `scorer.py` | a budget file with a count cached in memory; the ladder's best score | `query`, release rule | not modelled: no caller |
| Sandbox workspaces and secrets, `sandbox.py` | none that outlives a call | path and environment checks | not modelled |
| Egress policy, `egress.py` | none | decision over hosts and addresses | not modelled |
| Substrate guard, review fleet | none | path classification of a diff | not modelled |
| Literature corpus, `literature.py` | one JSON file | validate, write | not modelled |
| Drone audio task, `drone_audio.py` | none | dataset split, metrics | not modelled |
| Self-test, adversarial suite, probes | none of the system's | drive the gates | not modelled |
| Scripts, examples, docs | none | tooling | read as a reference for what the code promises |

### How the parts interact

```
 humans --labels, states--> tracker <--set_state, comment-- Runner.tick
                                                             |  starts
                                        agent session <------+
                                           |  submit         |  collect_finished, sweep,
                                           v                 v  breaker_reason
                                    JobRegistry  (log + lock, several processes)
                                           |  rate_card, submit, poll, fetch_artifact
                                           v
                                    LocalGpuSubstrate (files, wrapper, payload)
```

* A tick reads the ticket list once, then collects, sweeps, grounds and
  dispatches; agents submit jobs through the same registry while it runs.
* The registry holds one lock from its reading of the breaker to the row that
  binds the handle; the substrate's `submit` is called under it, `poll` is not.
* The substrate keeps nothing in memory.  Its three answers to a submission
  (a handle, `SubstrateRefused`, any other exception) decide whether the registry
  binds, releases or leaves a reservation in doubt.
* Whether a ticket may be dispatched is two walks over the tracker's pages: the
  listing of open tickets, then the history of `agent-ready` on each candidate.
* A judged session's evidence passes to the verifier, which reads rules, positions,
  lineage counts and the parent's metrics from the ledger as it is at that moment.
  `run_and_record` then appends the verdict; the runner only reports it on the ticket.

### What is hard in it, and what makes each part correct

* **Registry.** Processes interleave on one log; a process may die between two
  rows; a failed call has an unknown outcome.  Correct: whatever was started is
  charged and within both caps, no key reaches the provider twice, no admission
  while anything is unaccounted for, an incident stays until a human resets it,
  every job gets one outcome, and gets it.
* **Runner.** Every decision is taken on a list read earlier, in which jobs end,
  deadlines pass, humans answer and the tick itself moves tickets; a crash
  forgets everything.  Correct: no ticket in flight is forgotten, both limits
  hold, a ticket before a human waits for the human, every dispatch ends.
* **Local substrate.** Files are written in place, the submitter, the wrapper and
  the machine die at any step, pids are reused, polls race with endings.
  Correct: one process per intent, refusals and outcomes are true, the card is
  not shared, slots come back.
* **Trackers.** GitHub moves a state by several requests; Linear's states are not
  labels; listings and histories are read over many pages while people and bots
  change what is on them.  Correct: a half-written state is never read as an idle
  ticket, nothing is dispatched without a human's grant that stood, and what a walk
  returns is whole.
* **Verdict ledger and gates.** Agents choose when to file a rule, file it again,
  revise it, and have an experiment judged again under the same id; the record a
  claim is compared with moves; the process may die inside a write.  Correct:
  a promotion rests on a rule filed before, on enough different seeds, and on a gain
  the ledger still shows; an exhausted lineage stays closed; a damaged ledger
  promotes nothing.

The full list of hazards, each at its line with the properties that cover it,
is in `PROJECT.json`.

## 2. Modules

| Module | What it is |
|---|---|
| `SpendAuthority` | abstract: what the registry promises about money |
| `Registry` | `registry.py`: log, lock, processes, crashes; implements `SpendAuthority` |
| `RegistryProofs` | its theorems, all but one |
| `RegistryCapProofs` | sums over finite sets, and the daily cap |
| `Runner` | `runner.py` with the state changes of both trackers |
| `RunnerProofs` | its theorems about tickets |
| `RunnerLimitProofs` | its theorems about the two limits |
| `ComputeSubstrate` | abstract: what the registry relies on in a substrate |
| `LocalSubstrate` | `local_substrate.py`: files and processes; implements `ComputeSubstrate` |
| `LocalSubstrateProofs` | its theorems |
| `Gates` | `harness.py`, `gates_v1.py`, `prereg.py`: the gates as predicates over evidence; no variables |
| `PromotionRecord` | abstract: what G-07 and G-08 promise together |
| `Adjudication` | `verifier.py`, `pipeline.py`: the ledger and every way to a verdict; implements `PromotionRecord` |
| `AdjudicationProofs` | its theorems |
| `Grants` | the page walks of both trackers and the runner's question who granted a dispatch |
| `GrantsProofs` | its theorems |
| `MCRegistry`, `MCRunner`, `MCLocalSubstrate`, `MCAdjudication`, `MCGrants` | instances for TLC |

The components are checked apart, joined by what one needs of the next:

* `Registry` lets the substrate do for a key exactly what `ComputeSubstrate`
  allows in the absence of doubt: asked, then refused or running, then done or
  gone, and a `poll` that is true.  `LocalSubstrate` implements
  `ComputeSubstrate`.  The licence that the contract grants to a call that was cut
  short (a false "lost") does not reach a registry that did not crash itself: such
  a key was never bound, so the registry never polls it; only a key that a second
  `submit` found by its marker can be concerned, and the registry makes no second
  call for a key (`OneCallPerKey`).
* `Runner` reduces the registry to a row per job and a breaker.  What it assumes
  is what `Registry` shows: an open row is settled by a poll that says finished or
  by its deadline (`OutcomeIsEarned`, `EveryJobSettles`), and a loss opens the
  breaker (`IncidentHoldsBreaker`).
* `Runner` takes the tickets a human granted as given; `Grants` is about which those
  are, and reduces a dispatch to the state it moves the ticket to.
* `Adjudication` reads of the registry what `GateAttestedRun` compares: the jobs, each
  with its ticket and what the substrate said of it.

This composition is an argument, not a checked theorem.

### Registry: state and actions

| Model | Code |
|---|---|
| `held`, `charge`, `jobs` | `_replay` folded over the log: a reservation and a job record per key |
| `latch` | the newest breaker row, as `breaker_reason` finds it walking back |
| `substrate`, `calls` | the world outside: what the provider has, how often it was called |
| `lock` | the `flock` of `_admission_lock`, dropped by the system when its holder dies |
| `pc`, `arg` | where a process is in an operation, and that operation's locals |
| `SubmitBegin`, `Acquire`, `Escalate`, `Admit` / `RefuseAdmission`, `Price`, `Reserve`, `CallSubstrate`, `Release` / `Bind` | `submit`, one step per row appended or answer awaited |
| `CollectBegin` ... `CollectReturn` | `collect_finished` and its `resolve` |
| `SweepBegin` ... `SweepReturn` | `sweep`; `RecordLost` takes the lock for its one row |
| `ReconcileBegin`, `ReconcileReturn`, `AbandonBegin`, `Abandon`, `ResetBreaker`, `TripBreaker` | the operator's calls |
| `Raise`, `Crash` | an exception that leaves the operation (a rate card or a submission, bounded; the poll of a sweep or its `resolve`, any number of times); the death of the process |

Appending a row is one step because it is one locked, fsynced `write`.  Every
process sees the log as it is, because each operation replays it.

### Runner: state and actions

| Model | Code |
|---|---|
| `labels` | the workflow state on Linear, the state labels on GitHub |
| `ledger`, `owner`, `work`, `overdue`, `breaker` | the registry as its callers see it, and the jobs themselves |
| `pc` ... `relabel` | the local variables of `tick` |
| `waiting`, `stranded`, `adrift` | history, for the properties only: handed to a human who has not answered; held by a tick that died, or resolved by `sweep`; parked by a session with no open job of its own |
| `Poll`, `CollectJob`, `CollectSkip`, `CollectDone`, `Bring` | `open_tickets`, `collect_finished`, `_collect_finished`; a job that cannot be polled or fetched is skipped |
| `SweepBegin`, `SweepJob`, `SweepDone`, `SweepRaises`, `Ground` | `sweep`, whose poll is not guarded, and `_reconcile_lost` |
| `DispatchBegin`, `Dispatch`, `TickDone` | the budgets, `eligibility`, the dispatch loop |
| `AgentSubmits`, `AgentAnswers`, `AgentDetaches` | a session inside `_dispatch`, `_detach` |
| `SetState`, `RemoveLabel` | one mutation on Linear; a post and a delete per label on GitHub |
| `Abort` | an exception of the tracker, and the death of the process |

Abstractions.  The tickets are those an allowlisted human marked `agent-ready`
in this lane: every other ticket is refused before anything is done to it.  One
runner works on a board: nothing in `runner.py` guards against two.  Which human state a judged or failed
session ends in (a verdict, a refused workspace, a failed agent, missing gates)
is a choice, since nothing but the state moves on from it.  Collected and lost jobs
are brought in any order.  A `collect_finished` that raises as a whole is the same
as every failing job being skipped.  Humans move a ticket only out of In Review and
Needs Human.  A session may detach with or without an open job of its own, since
`_detach` asks for neither; that it is refused where no collector or no registry is
wired (`runner.py:743-774`) is one of the ways in which `AgentAnswers` ends with a human.
`PollsRaise` says whether polls and fetches raise at all; where it is true they may do so
in every tick.

### LocalSubstrate: state and actions

| Model | Code |
|---|---|
| `marker` | `keys/<sha256 of the key>`: absent, torn, or the handle it names |
| `intent`, `meta`, `done` | a run directory, its `meta.json`, its `done.json` |
| `job`, `payload` | the wrapper whose pid is recorded, and the process it waits for |
| `call`, `probe` | the `submit` and the `poll` under way |
| `told`, `refused` | what callers were last told |
| `SubmitKnown`, `SubmitDeclined`, `SubmitBegin`, `WriteMeta`, `OpenMarker`, `WriteMarker`, `Spawn`, `OpenPid`, `WritePid` | `submit`, one step per file operation |
| `PollDone`, `PollMeta`, `PollAlive`, `PollAgain` | `_state_of`, one step per thing it looks at |
| `PayloadEnds`, `OpenDone`, `WriteDone` | the wrapper script and its `finally` |
| `Cancel` | `cancel`: SIGTERM to the recorded pid |
| `SubmitDies`, `MarkerTorn`, `WrapperDies`, `PidReused`, `StrangerExits` | failures |

Abstractions.  One `submit` at a time, as the registry's lock ensures, and one
`poll` at a time; the two interleave with each other and with the jobs.  Creating the
directory and opening `meta.json` is one step, starting the wrapper and the
payload is one step, a failing `Popen` is a death of the submitter: none of
these leaves a state the model does not have.  `running()` is read at one instant: jobs end
one at a time, so a scan counts what some instant of it would have counted.  The
registry polls what it bound and has not yet recorded as over.

### Adjudication: state and actions

| Model | Code |
|---|---|
| `ledger` | the rows of `Ledger`, in file order; a rule is its own content hash |
| `tail` | how the file ends: whole, a last row without its newline, or a line that does not parse |
| `knew` | history: the rules on file when a session's first seed ran |
| `shown` | the ticket on which the runner has just reported a promotion |
| `Promotion`, `Citation`, `Verdict` | a row promoted under a rule; one promoted without preregistration that records the hash it was handed; any other |
| `FileRule` | `Preregistration(...)` and `append_prereg` |
| `Begin`, then one of `RunAndRecord`, `RunUngoverned`, `Report`, `EndUnrecorded` | a session trains, then: `run_and_record` with a governed `GateVerifier`; `run_and_record` with a verifier that reads no ledger; the runner's `_adjudicate`; no row and no promotion |
| `Write`, `WriteFails` | `_write`: nothing, part of the line, or all but the newline; the next line is glued to what is there |
| `Judged`, `MeanOf`; `Recorded`, `MeanMetrics` (in `Gates`) | where a gate reads a metric (`prereg.py:268-273`); what `_mean_metrics` records of it (`verifier.py:231-237`) |
| `Filed`, `PositionOfPrereg`, `PositionOfVerdict`, `VerdictMetrics`, `NonPromotingCount`, `PreregCtx` | the readers of `Ledger` and `_prereg_ctx` |

Abstractions.  One process writes, which the docstring of `Ledger` requires and nothing
enforces.  Metrics are whole ticks, far wider than the tolerances of the code, and a
mean is a pair of sum and count, so that nothing is rounded.  What nobody reads
back is not kept: a row has a rule only if it was promoted and cites one, and seeds only if
that rule governed it.  A verifier without `require_prereg` records the hash its candidate
cites whichever it is (`verifier.py:592`), so `RunUngoverned` may cite any rule that can be
built, filed or not.  A gate and a row do not read the same numbers: a Boolean counts for
the gate and is not recorded, and an extra that bears the primary field's name is recorded
together with the field.  `Plain` evidence has neither.  `run_and_record` passes no
attestation and no ticket, so G-10 blocks only in `Report`, whose experiment id is
always fresh and which appends nothing: the comment on `_adjudicate` that a proof of
work can be rebuilt from the ledger row alone has no row to refer to on this lane.
Wanting a baseline in `seed_variance`, the holdout gate and `too_good` are not
configured by the hill-climb lane and left out.

### Grants: state and actions

| Model | Code |
|---|---|
| `tracker` | the adapter the runner is wired with; chosen once |
| `open`, `ready`, `busy`, `history` | the server: what is open, carries `agent-ready`, is in a state `eligibility` calls "already ..."; who applied the label, when |
| `running`, `collected`, `grounded` | tickets with an open job; what this tick brought in, and what it found lost |
| `now` | the server's clock, in the unit its timestamps resolve |
| `list`, `unread`, `subject`, `read`, `upto` | the locals of a tick and of the walk under way; a page is one item |
| `granted`, `stayed`, `shifted` | history: grants that stood since the tick began; tickets the listing has no excuse to miss; pages moved back under it |
| `StartTick`, `ListGitHub`, `ListLinear` | `open_tickets` page by page |
| `Settle` | any outcome of `_collect_finished` and `_reconcile_lost` for the jobs that run (`runner.py:530-537`), between the listing and the loop |
| `Choose`, `AskLabel`, `ReadHistory` | `eligibility`, `_label_id`, the walk of a history or timeline |
| `Dispatch`, `HoldBack`, `Decline`, `RefuseTie` | what `label_actor` answers, and what the tick does with it; `HoldBack` is the loop's guards after eligibility (`runner.py:559-575`: grounded, the breaker, the two limits) |
| `RefuseWalk` | every fault of a page, which all raise: an error, a connection that is null or missing, no cursor or a repeated one, too many pages or labels, an instant that cannot be placed; also the sweep's polls and the writes of the tick.  Any number of times |
| `Apply`, `Revoke`, `Close`, `Reopen`, `HandBack`, `Clock` | people, bots and the clock, between any two pages |

Abstractions.  The server is modelled from how the adapters read it: GitHub numbers
its pages over the issues open at the moment of the request, pull requests
included, and a timeline grows at its end; Linear follows a cursor, newest change first, so
a ticket that changes moves ahead of the cursor and is not met again.  Labels other than
`agent-ready` are constant (`needs-human` is in `Runner`).  Humans hand tickets back but do
not put them forward themselves.  What jobs do, where a session ends, and whether the loop
holds a granted ticket back are choices here and the matter of `Runner`.

## 3. Runs

Twelve runs, from a few seconds to three minutes each (`tlc -workers 2 -config X.cfg M`).

| Run | What it asks | What it shows |
|---|---|---|
| `registry_two_writers` | every safety and action property of the registry, and `ImplementsSpendAuthority` | two processes, two keys, prices on both sides of the caps, one crash or failed submission, polls that raise at any time, one reset and one trip: all hold |
| `registry_one_runner` | `OutcomeIsFinal`, `EveryJobSettles`, `SpendWithinCap` | with one process an outcome is final, an open job is settled once its deadline has passed as long as sweeps get through to their end, and no day is overspent while the clock moves out of one |
| `registry_two_sweepers` | `OutcomeIsFinal` | **violated** with two processes (finding 1) |
| `runner_tick` | `TypeOK`, `InFlightIsAttended`, `RetriedByHumanOnly` | either tracker, one crash anywhere, polls that raise, sessions that detach with or without a job: nothing in flight is forgotten but what the property names |
| `runner_limits` | `ConcurrencyBounded`, `DispatchStallsOnReview`, `DispatchEnds` | both limits hold although counts are stale and a tick may die anywhere; every dispatch comes back if sweeps get through, but for the same exceptions |
| `runner_late_finish` | `UnattendedIsAnswered` | **violated** (finding 2) |
| `runner_linear_retry` | `NeverRetried` | **violated** (finding 3) |
| `local_substrate` | all properties of the substrate, and `ImplementsSubstrate` | retries, crashes between any two file operations, killed wrappers, torn markers and reused pids: all hold |
| `local_phantom_slot` | `EverySlotIsFreed` | **violated** (finding 4) |
| `adjudication` | `ClaimIsAudited`, `PromotionRestsOnSeeds`, `NoHindsight`, `ExhaustedStaysClosed`, `TornLedgerPromotesNothing`, `ImplementsPromotionRecord` | rules filed, revised and repeated, evidence that is good, bad in one way each, or recorded otherwise than judged, experiments judged again under one id, ungoverned verdicts that cite a rule, writes cut off anywhere: all hold |
| `adjudication_late_rule` | `RulePrecedesRun` | **violated** (finding 5) |
| `grants` | `DispatchedOnce`, `GrantStoodDuringTick`, `ListingIsWhole`, `GrantedIsDispatched` | either tracker, grants that come and go between two pages, issues closed and reopened, jobs that end inside the tick, walks that fail: all hold, with the exceptions named below |

### Bounds

* `registry_*`: two processes are enough for every race, because the log is
  total and each property relates at most two operations; a second
  key is needed so that one reservation can be in doubt while another is asked for.
  `registry_two_writers` takes prices 1, 2 and 3 against caps 2 and 3, so that a quote
  fails the first cap, the second, or neither, in two processes that race.  The clock
  of `registry_one_runner` goes one tick beyond the day (2 against `Day` 1), so that a
  charge leaves the trailing day while prices 1 and 2 cross the daily cap of 2; that of
  the other runs reaches the deadline of a job submitted at the start, which is all
  that a deadline can change.  `MaxFaults` counts crashes and the exceptions of
  submissions together; the polls of a sweep may raise without limit.  `MaxResets` counts
  resets and trips, each.  `registry_two_sweepers` needs neither and has both at zero.
* `runner_tick`: two tickets, limits of two, so that both can run or both can be
  before a human; two jobs, so that one can end while the other is lost.
  `runner_limits`: three tickets, so that the counts exceed one and a third
  ticket is there to be held back, and one job, which is enough for a detached ticket to
  come back among others.  Both have one fault, at any step, and polls that may raise in any
  tick; the two runs that show a finding have neither.
* `local_substrate`: three directories: one spent by a submitter that died
  before its marker, and two that compete for the card; two faults: a crash
  followed by a torn marker, a kill or a reused pid.

* `adjudication`: four rows are a parent's verdict, two rules and a promotion, or two rules,
  an ungoverned verdict that cites one of them, which is then the parent's record and reopens
  the exhausted lineage, and a promotion; two lineages, one a child of the other, so that a
  rule may cite what was promoted under another; four rules (the first, a revision that adds a
  guardrail which the better evidence breaks, one with a repeated seed, and one of the child
  on another metric, downwards, with a guardrail on the first); nine pieces of evidence, of
  which two are sound (one of them recorded otherwise than it is judged, from a job whose
  command went unrecorded, where G-10 abstains) and each other breaks one gate only.
  `MaxAttempts` is 1 (the code's default is 3), so that a lineage can be exhausted within four
  rows.  One session at a time: the ledger has one writer, and a second session would only
  repeat the first.  `adjudication_late_rule` needs three rows.
* `grants`: two tickets behind one pull request, so that a page can move and a ticket can
  be hidden or met twice; two applications of the label, so that a grant can be
  superseded by the other party; a human and a party that is none; two instants, so that
  applications can tie or not; one ticket closed, reopened or handed back.  Failed walks
  and the jobs' endings have no bound.  At first all tickets are open, and the pull request
  is open or closed.

Symmetry is used in the safety runs only (processes and keys, or jobs): tickets
are served in order and are not symmetric.  Deadlock is not checked in
`local_substrate`, where the system stops once every directory is used, nor in
`local_phantom_slot`, nor in the `adjudication` runs, which stop once the ledger is
full; it is checked everywhere else.

### Fairness

* Registry: an operation begun goes on (`WF` of `Continue`), an idle process
  sweeps again (`SF` of `SweepBegin`: `Runner.tick` calls `sweep` on every tick, but
  in between the process is free to do other things), the clock advances, and a
  call once received starts its job or is refused.  No job has to finish.  That polls are
  answered is not assumed of the code but stated in the property: `EveryJobSettles` is about
  behaviours in which sweeps get through to their end again and again.  The run has one
  process: with several, the lock's timeout could starve one of them for ever.
* Runner: the poll loop goes on, deadlines pass, and a session ends: `AgentSession.run` is
  a call that the tick waits for with no limit of its own, so this is an
  assumption about the agent behind it.  No job has to finish, and no human has to answer.
  `DispatchEnds` is, in the same way, about behaviours in which sweeps get through.
* Local substrate: a call and a poll go on unless their process dies, a payload
  ends, and a stranger that took a pid ends.

* Grants: the poll loop starts ticks for ever and goes on with the one it began, since
  every walk has finitely many pages (`WF` of `Runner`).  Nobody has to grant anything, and
  walks may fail for ever; `GrantedIsDispatched` is about behaviours in which they are
  answered from some time on.

## 4. Proofs

Every theorem holds for any number of processes, keys, tickets, parties, jobs and
handles, any prices, limits and length of a day, any rules, evidence and length of the
ledger, and any number of faults, under the `ASSUME`s of its module.  These say that the
model values differ from each other; that bounds and prices are natural numbers; that
`Tickets`, `PullRequests` and `Handles` are finite (their cardinalities are compared);
that `MaxAwaiting` is positive; that a piece of evidence lists its runs as a sequence; and
that having no verdict differs from every set of rules.  Nothing is assumed of the number
of keys: that finitely many are charged is proved.

**RegistryProofs.**  Written out, the properties are not inductive: whether a
reservation may be written is decided at `Admit` and used at `Reserve`, two steps
later.  `AdmissionInv` adds what ties the two together: a process is inside the
locked section exactly when it holds the lock (`LockInv`), and what `Admit` read
is still true until the row is written (`AdmittedInv`), because the only rows
other processes append without the lock are resolved jobs, human resets and
abandoned reservations, and none of them undoes it.  `KeyStateInv` and `UncalledInv` say
that a key the provider knows is one the log charges.  `SettlingInv` does the same
for `sweep` and `collect_finished`: what they polled as done stays done, what
they found overdue stays overdue.  From the two follow the theorems
`TypeCorrect`, `StartedJobsAreCharged`, `OneInDoubt`, `NoLiveEscalation`, `CalledOnce`,
`BreakerRespected`, `Lifecycle`, `OutcomesAreEarned`, `IncidentsHold` and
`Refinement` (the registry implements `SpendAuthority`).  `OutcomesAreFinal` has a
hypothesis, `OneRunner`: with one process, what `sweep` or `collect_finished` still has to
settle is open (`OpenInv`).  With two it is false (finding 1).

**RegistryCapProofs.**  `SpendSince` adds up prices with a fold of the community modules, a
recursive function that takes the keys in an order of its own.  No induction theorem of
the library can be applied to it, since those take the property as an operator; the
induction is done by hand instead, with a *set* of subsets and a smallest set outside it
(`SubsetInduction`).  It gives that the fold exists, and how it unfolds (`TotalUnfolds`), that
any key may be set apart (`TotalWithout`), that fewer keys cost no more (`TotalOfFewer`), and
that a total depends on its own prices only (`TotalOfSame`).  `DayInv` then says that the
price a submitter compared with the cap *still* fits (`PricedFits`): nobody else charges
anything while the lock is held, and when the clock moves, the trailing day holds a part
of what it held.  A reservation is dated now, so it enters the day that ends now and no
earlier one; hence `CapHolds`, for every day that ended so far and not only for the last.

**RunnerProofs.**  The invariant says, label by label of the tick, who will move
each ticket that is in flight: the session, the state change under way, an open
job, or a job in the tick's hand, unless the ticket is `stranded` or `adrift`; and what the
tick's list still says about
tickets before a human (a ticket in the queue whose human has not answered
shows its state in the list, unless it was collected in this tick).
`NobodyForgotten` and `HumansComeFirst` follow.  On Linear the second says nothing, by its
own statement: there the promise is false (finding 3).

**RunnerLimitProofs.**  A tick counts once, from a list read before it moved anything, and
then spends two budgets.  `LimitInv` has three parts.  `Relabelling`: while a state is
written label by label, the ticket carries nothing but the new label and those still to be
dropped, so it is never counted where neither state puts it.  `Foreseen`: until it
dispatches, every ticket in flight is in flight on the list as well, and every ticket before
a human is so on the list or was put there by this tick.  `Budgeted`: what is taken and what
may still be taken stay within the limits, a session under way included.  The counts need
`Tickets` to be finite.  `ConcurrencyCorrect` and `StallCorrect` follow: the list
undercounts by the tickets that the tick itself brought before a human (`collected`,
`grounded`), and these are what the code counts besides the list in the review budget.

**LocalSubstrateProofs.**  `DiskInv` names, for every key, the one directory that
*speaks* for it (it has a process, was returned to a caller, or its submitter is past
the marker) and says that the marker names that directory or is torn; a torn
marker lets no submission through.  `ClaimInv` counts the payloads on the card
together with the directory of the call under way, which has passed preflight
and not yet started.  The refinement maps a key's directories to one life:
`SubmitBegin` is *Ask*, `Spawn` is *Start*, `OpenDone`, `WrapperDies` and `Cancel` are
*End*, `SubmitDies` is *CutShort*, a reply of `poll` is *Answer*, and everything else
stutters.

**GrantsProofs.**  `GrantInv` says what the walks still know of a grant: what the listing
showed as ready, and the ticket being checked, carried the label in this tick, and from
the newest application a walk covers onwards every human's is a grant of this tick.
`ServerInv` (a history is in the order of its instants) then makes that application one
of the newest, so that whoever the walk names is its author: `GrantStood`.  `AheadInv`
is about pages: a ticket that stayed open and where it was is on the list or still
ahead, on GitHub because at least as many open issues stand before it as pages have been
read.  At the end of the walk there is no room for it, hence `ListingWhole`.  `OnceInv`
is the other side, a listed issue is not ahead and what the tick has moved since it listed
it is in `collected` or `grounded`, and holds until a reopened issue moves the pages back
(`shifted`); what is asked about is then idle or among these (`AskedIdle`), and `AskedOnce`
follows, since a grounded ticket is never dispatched.  `TypeCorrect` includes that a tick that is
over has left nothing of what it collected.

**AdjudicationProofs.**  Everything rests on the ledger being append-only.  `LedgerSteps` and
`Growth` say what one step does to the rows (one more at the end, or none) and
that every row above keeps its place; `MinOfPositions` and `MaxOfPositions` that the readers
that look for the first or the last row of a kind find it.  Then what a promoted row was
judged by (`PromotionFacts`: its rule on file, above the first verdict of its experiment, its
seeds those of the rule, its base the parent's last record, and, where the evidence was
plain, the gain over it) is a statement about rows above it and
stays true: `ClaimCorrect`, `SeedsCorrect`, `HindsightCorrect`.  No strengthening is needed
beyond types, because each of these is itself inductive once it is said of *positions* in
the ledger; what is hard is that the readers' answers do not change (`FirstStays`,
`FirstPositions`).  `ExhaustionCorrect` counts: a rule filed and not won takes an attempt, there
are no more rules than rows (`RulesBoundedByRows`), so `NonPromotingCount` is at least what
the property counts and nothing is promoted under a rule of an exhausted lineage
(`ExhaustedPromotesNothing`); and only a citation takes a rule off the count
(`ExhaustedStays`).  `TornCorrect` is about single steps.
`RecordCorrect` maps a file of rows to `PromotionRecord`: the first row of a rule is
*File*, a verdict is *Reject* or, with a promoted rule, *Promote* (the first verdict of
an experiment fixes which rules it found) or, with a rule that only was cited, *Cite*; and
repeated rules, repeated verdicts and torn
lines stutter.

**Checked only by TLC.**  Liveness (`EveryJobSettles`, `DispatchEnds`,
`RecordedSlotIsFreed`, `GrantedIsDispatched`), which is out of the prover's reach.  The
properties that the five findings refute are not theorems, of course.  That the parts fit
together (section 2) is an argument, neither checked nor proved.

## 5. Findings

1. **Two processes that settle jobs overwrite each other** (`registry_two_sweepers`).
   `sweep` polls outside the lock and appends `lost`; `_replay` applies it to a job
   another process has meanwhile resolved, and the breaker opens for a job that finished.
2. **A job that finishes between the two polls of a tick strands its ticket**
   (`runner_late_finish`).  `sweep` resolves it and reports it to nobody; the ticket stays
   Running Unattended and occupies a slot.
3. **On Linear a ticket moved to Needs Human is dispatched again by the next tick**
   (`runner_linear_retry`).  `eligibility` refuses the label, and Linear's `set_state` writes
   no label.
4. **A submitter that dies before the pid is recorded holds its slot for ever**
   (`local_phantom_slot`).  The directory reads as submitted, nothing completes it, and
   with the default limit of one every later job is refused.

5. **A rule filed while the run it governs is training promotes that run**
   (`adjudication_late_rule`).  `append_prereg` says a preregistration "must happen before
   the run it governs" (`verifier.py:679`); the code compares its position with the
   experiment's verdict, which is written after every seed has run, and never with the
   start of the run.  What does hold is `NoHindsight`: an experiment that already has a
   verdict is not promoted under a rule filed after it.

The properties that do hold name their exceptions, and a reader should know them:

* A ticket collected in this tick and listed as idle may be dispatched in the same
  tick: only grounded tickets are left out (`runner.py:558-559`; `collected` in
  `RetriedByHumanOnly` and in `DispatchedOnce`).
* A session that detaches without an open job of its own, naming one that is settled, foreign
  or missing, leaves its ticket Running Unattended with nobody to move it: `_detach` asks the
  registry nothing (`runner.py:743-787`; `adrift` in `InFlightIsAttended`).
* A poll that raises in every tick stops every tick at the sweep, since nothing guards it
  (`registry.py:1436`, `runner.py:680`): that job and the later overdue ones stay open, and
  nothing is dispatched.  `EveryJobSettles` and `DispatchEnds` assume that sweeps get through.
* A poll that meets `meta.json` while its submitter is dead and the file torn
  says lost, although the process may run.
* `cancel` and a killed wrapper leave the payload on the card, where no directory
  tells of it.
* `done.json` exists before its content: a poll in between says resolved and the record
  read next may not parse.

* A verdict promoted without preregistration records whichever hash it cites
  (`verifier.py:592`); the count of non-promoting filings leaves that rule out
  (`verifier.py:737-748`), so an exhausted lineage promotes again (`Citations` in
  `ExhaustedStaysClosed`, *Cite* in `PromotionRecord`).
* A promotion is judged on means that the row need not show: a Boolean extra is judged and
  not recorded, and an extra called `val_metric` is recorded together with the field
  (`prereg.py:268-273`, `verifier.py:231-237`), although "each row reconstructs the verdict
  alone" (`docs/SPEC.md`).  `ClaimIsAudited` asks the gain of `Plain` evidence.
* On GitHub an issue or pull request that is reopened while the listing runs moves the
  pages back: a ticket is listed twice and, as the tick tests the state it listed, dispatched
  twice (`shifted` in `DispatchedOnce`; without the exception TLC finds it).
* On GitHub an issue closed while the listing runs hides the ticket behind it, although
  `_walk` says "every item in a paginated collection, or an exception"; on Linear a ticket that
  changes may be missed (`stayed` in `ListingIsWhole`).
* While two parties tie for the newest application of `agent-ready` on one ticket, every tick
  raises there and dispatches none of the tickets after it (`Ambiguous` in
  `GrantedIsDispatched`).
* A grant revoked after the tick began may still be acted on (`GrantStoodDuringTick` asks
  that it stood at some instant of the tick, not at its end).

## 6. Not modelled, and why

* Registry: damaged or torn rows of the log, since the log is modelled as what a
  replay folds it into (the same write is modelled row by row in `Adjudication`); non-finite
  numbers, which `_checked_usd` refuses; the `submitted` rows of older logs; how
  long a process waits for the lock.
* Runner: startup checks of its wiring, comments and wording;
  two runners on one board.
* Trackers: which fault a page had, rate limits and retries of a transport, comments, and
  the cached list of workflow states.
* Verdict ledger: a second writer (ruled out by its docstring), rows of other kinds,
  the text of a verdict, and rounding.  Of the gates, how the lines of a diff are matched,
  comparison with a baseline, the non-blocking `too_good`, and the prototype's own ledger.
* Holdout budget, label store and ladder: nothing in the source constructs one, so the order
  and the number of their calls would be invented.
* Local substrate: device and memory checks and the rate card (they refuse
  before anything is written), calls without a key (the registry makes none), what
  the completion record says, and a reboot of the machine.
* The components marked *not modelled* in the table: they decide about one call's
  data, with string matching and arithmetic dominating, and keep no state
  of the system.

## 7. Plan

1. `Registry`, `SpendAuthority` and their proofs: done.
2. `Runner` and its proofs: done.
3. `LocalSubstrate`, `ComputeSubstrate` and their proofs: done.
4. `Gates`, `Adjudication`, `PromotionRecord` and their proofs: done.
5. `Grants` and its proofs: done.
6. The limits of the runner and the daily cap of the registry: done.
7. `RegistryLog`: the log as a sequence of rows with damage in the last one, implementing
   the fold that `Registry` works on.
8. The holdout budget and the ladder, once the source has a caller for them.
