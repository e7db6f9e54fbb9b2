-------------------------- MODULE ComputeSubstrate --------------------------
(***************************************************************************)
(* What the job registry relies on when it hands a job to a compute        *)
(* substrate (the ComputeSubstrate protocol of registry.py), with no       *)
(* files, no processes and no crashes: an idempotency key buys at most one *)
(* job, whose life goes one way, and an outcome is reported only if it is  *)
(* true.  The one licence is a call that was cut short: whether its job    *)
(* exists is then unknown, and the substrate may say that it is lost.      *)
(***************************************************************************)
CONSTANT Keys

VARIABLES
  life,    \* key -> "absent", "asked", "running", "done" or "gone"
  doubt,   \* keys of calls that were cut short
  answer   \* key -> last answer to poll, "none" before the first

vars == <<life, doubt, answer>>

Init ==
  /\ life   = [k \in Keys |-> "absent"]
  /\ doubt  = {}
  /\ answer = [k \in Keys |-> "none"]

Moves(k, from, to) ==
  /\ life[k] \in from
  /\ \E s \in to : life' = [life EXCEPT ![k] = s]
  /\ UNCHANGED <<doubt, answer>>

Ask(k)     == Moves(k, {"absent"}, {"asked"})
Decline(k) == Moves(k, {"asked"}, {"absent"})
Start(k)   == Moves(k, {"asked"}, {"running"})
End(k)     == Moves(k, {"running"}, {"done", "gone"})

CutShort(k) ==
  /\ life[k] # "absent"
  /\ doubt' = doubt \cup {k}
  /\ UNCHANGED <<life, answer>>

Answer(k) ==
  /\ life[k] # "absent"
  /\ \E a \in {"submitted", "resolved", "lost"} :
       /\ a = "resolved" => life[k] = "done"
       /\ a = "lost" => life[k] = "gone" \/ k \in doubt
       /\ answer' = [answer EXCEPT ![k] = a]
  /\ UNCHANGED <<life, doubt>>

Next ==
  \E k \in Keys :
    Ask(k) \/ Decline(k) \/ Start(k) \/ End(k) \/ CutShort(k) \/ Answer(k)

Spec == Init /\ [][Next]_vars

=============================================================================
