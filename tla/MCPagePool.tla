------------------------------ MODULE MCPagePool ------------------------------
(* PagePool for TLC: a pool of three cache pages and two I/O pages *)
EXTENDS PagePool, TLC

MCPageLimit == [u \in Purposes |-> IF u = cachePage THEN 3 ELSE 2]
Symmetry == Permutations(Procs)
=============================================================================
