----------------------------- MODULE MCGrants ------------------------------
(* Grants on a few tickets, one human on the allowlist and one party that   *)
(* is not, wired with either tracker.                                       *)
EXTENDS Grants
=============================================================================
