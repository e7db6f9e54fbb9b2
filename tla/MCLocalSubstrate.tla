-------------------------- MODULE MCLocalSubstrate --------------------------
(* The local substrate on small instances.                                 *)
EXTENDS LocalSubstrate, TLC

=============================================================================
