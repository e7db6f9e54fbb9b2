--------------------------- MODULE MCAdjudication ---------------------------
(* The verdict ledger on small instances.  Metrics are a few ticks; each   *)
(* piece of evidence after the first two is chosen to break one gate only. *)
EXTENDS Adjudication, TLC

CONSTANTS Base, Child, S1, S2

Number(n) == [num |-> n, bool |-> FALSE]

Run(seed, val, recall) ==
  [seed |-> seed, val |-> val, extra |-> [recall |-> Number(recall)],
   overlap |-> 0, train |-> {"a"}, eval |-> {"b"}]

Sound(v1, v2, v3, recall) ==
  [runs |-> <<Run(1, v1, recall), Run(2, v2, recall), Run(3, v3, recall)>>,
   cost |-> 1, diff |-> NoDiff,
   att |-> [job |-> "j1", digest |-> "d1", exit |-> 0, ran |-> "train"]]

Better  == Sound(2, 3, 4, 5)

\* Judged like Better on val, but recorded with the mean 2, and with a recall of 4
\* that was judged as 3: a run says twice what val is, and one a Boolean.
Twice(run) == [run EXCEPT !.extra = [val |-> Number(1), recall |-> Number(4)]]
Unclear ==
  [Better EXCEPT !.runs = <<Twice(@[1]), Twice(@[2]), Twice(@[3])>>,
                 !.runs[1].extra.recall = [num |-> 1, bool |-> TRUE],
                 !.att.job = "j3"]   \* says itself what it ran

Broken  == [Better EXCEPT !.runs[1].val = NotFinite]
Leaked  == [Better EXCEPT !.runs[1].overlap = 1]
Grouped1 == [Better EXCEPT !.runs[1].eval = {"a"}]
Lottery == Sound(2, 2, 5, 5)
OneSeed == [Better EXCEPT !.runs = <<Run(1, 3, 5), Run(1, 3, 5), Run(1, 3, 5)>>]
Tampered == [Better EXCEPT !.diff = [touched |-> {"verifier.py"}, removesAssert |-> FALSE,
                                     addsSkip |-> FALSE, floorWas |-> {}, floorIs |-> {}]]
Borrowed == [Better EXCEPT !.att.job = "j2"]

MCEvidence == {Unclear, Better, Broken, Leaked, Grouped1, Lottery, OneSeed,
               Tampered, Borrowed}

Rule(parent, base, seeds, guards, after) ==
  [parent |-> parent, metric |-> "val", dir |-> "maximize", base |-> base, effect |-> 1,
   seeds |-> seeds, guards |-> guards, secondary |-> {}, after |-> after]

Held(metric, tol) == {[metric |-> metric, dir |-> "minimize", tol |-> tol]}

Original == Rule(Base, 2, <<1, 2, 3>>, {}, 0)
\* The same rule, superseding the first; what Better trades is no longer allowed.
Revised  == Rule(Base, 2, <<1, 2, 3>>, Held("recall", 0), 1)
Repeats  == Rule(Base, 2, <<1, 1, 1>>, {}, 0)   \* cannot be built
\* Of the next lineage, on another metric, downwards.
Faster   == [Rule(Child, 5, <<1, 2, 3>>, Held("val", 1), 0) EXCEPT
              !.metric = "recall", !.dir = "minimize"]

MCRules == {Original, Revised, Repeats, Faster}

MCJobs == "j1" :> [ticket |-> S1, digest |-> "d1", exit |-> 0, asked |-> "train", ran |-> "train"]
       @@ "j2" :> [ticket |-> S2, digest |-> "d1", exit |-> 0, asked |-> "train", ran |-> "train"]
       @@ "j3" :> [ticket |-> S1, digest |-> "d1", exit |-> 0, asked |-> "train", ran |-> Unrecorded]

=============================================================================
