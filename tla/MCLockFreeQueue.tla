-------------------------- MODULE MCLockFreeQueue --------------------------
(* Instances of LockFreeQueue for TLC.                                     *)
EXTENDS LockFreeQueue, TLC

\* Threads of the same role are alike.
Symmetry == Permutations(Enqueuers) \cup Permutations(Dequeuers)
=============================================================================
