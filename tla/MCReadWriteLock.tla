--------------------------- MODULE MCReadWriteLock ---------------------------
(* Four users of one lock.  The counters hold more than four, so that one   *)
(* that wrapped around below zero is not mistaken for a count of users.      *)
EXTENDS ReadWriteLock, TLC

CONSTANTS u1, u2, u3, u4

MCUsers == {u1, u2, u3, u4}
UserSymmetry == Permutations(MCUsers)
=============================================================================
