------------------------------ MODULE MCRunner ------------------------------
(* Small instances of the outer loop.                                      *)
EXTENDS Runner, TLC

\* Jobs are interchangeable; tickets are not, they are served in order.
Symmetry == Permutations(Jobs)

=============================================================================
