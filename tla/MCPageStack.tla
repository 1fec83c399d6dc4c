------------------------------ MODULE MCPageStack ------------------------------
(* PageStack for TLC: processes are interchangeable *)
EXTENDS PageStack, TLC

Symmetry == Permutations(Procs)
=============================================================================
