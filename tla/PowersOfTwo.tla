------------------------------ MODULE PowersOfTwo ------------------------------
(***************************************************************************)
(* 2^n as a function that a proof can reason about: the sizes of the levels *)
(* of the tree in ipc/mem/PageStack.                                        *)
(***************************************************************************)
LOCAL INSTANCE Integers

\* 1U << level, and what the loops that double and halve arrive at
PowerOfTwo[n \in Nat] == IF n = 0 THEN 1 ELSE 2 * PowerOfTwo[n - 1]
=============================================================================
