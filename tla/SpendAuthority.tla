--------------------------- MODULE SpendAuthority ---------------------------
(***************************************************************************)
(* What the job registry promises about money, with no log, no lock, no    *)
(* processes and no crashes: money is committed before anything is         *)
(* started, one commitment at a time may be in doubt, nothing is committed *)
(* while a commitment is in doubt or the authority is halted, and money    *)
(* comes back only for work that was not and will not be started.          *)
(***************************************************************************)
CONSTANT Keys

VARIABLES
  purse,    \* key -> "untouched", "committed" or "refunded"
  started,  \* keys whose work the world has begun
  doubt,    \* commitments nobody has accounted for
  halted    \* an incident is waiting for a human

vars == <<purse, started, doubt, halted>>

Init ==
  /\ purse   = [k \in Keys |-> "untouched"]
  /\ started = {}
  /\ doubt   = {}
  /\ halted  = FALSE

Commit(k) ==
  /\ ~halted
  /\ doubt = {}
  /\ purse[k] = "untouched"
  /\ purse' = [purse EXCEPT ![k] = "committed"]
  /\ doubt' = {k}
  /\ UNCHANGED <<started, halted>>

Start(k) ==
  /\ purse[k] = "committed"
  /\ k \notin started
  /\ started' = started \cup {k}
  /\ UNCHANGED <<purse, doubt, halted>>

Refund(k) ==
  /\ k \in doubt \ started
  /\ purse' = [purse EXCEPT ![k] = "refunded"]
  /\ doubt' = doubt \ {k}
  /\ UNCHANGED <<started, halted>>

\* The work is known to exist and has a name.
Account(k) ==
  /\ k \in doubt \cap started
  /\ doubt' = doubt \ {k}
  /\ UNCHANGED <<purse, started, halted>>

\* A human states what became of the commitment; the money stays spent.
WriteOff(k) ==
  /\ k \in doubt
  /\ doubt' = doubt \ {k}
  /\ UNCHANGED <<purse, started, halted>>

Halt ==
  /\ halted' = TRUE
  /\ UNCHANGED <<purse, started, doubt>>

Resume ==
  /\ halted' = FALSE
  /\ UNCHANGED <<purse, started, doubt>>

Next ==
  \/ \E k \in Keys :
       Commit(k) \/ Start(k) \/ Refund(k) \/ Account(k) \/ WriteOff(k)
  \/ Halt \/ Resume

Spec == Init /\ [][Next]_vars

=============================================================================
