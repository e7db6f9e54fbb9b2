----------------------------- MODULE MCRegistry -----------------------------
(* The registry on small instances: processes and keys are interchangeable. *)
EXTENDS Registry, TLC

Symmetry == Permutations(Runners) \cup Permutations(Keys)

=============================================================================
