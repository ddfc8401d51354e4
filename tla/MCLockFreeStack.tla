-------------------------- MODULE MCLockFreeStack --------------------------
(* An instance of LockFreeStack for TLC.                                   *)
EXTENDS LockFreeStack, TLC

Symmetry == Permutations(Threads)
=============================================================================
