----------------------------- MODULE MCSendPath -----------------------------
(* Model checking of SendPath: slots and senders are interchangeable in the *)
(* runs without liveness.                                                   *)
EXTENDS SendPath, TLC

SlotSenderSymmetry == Permutations(Slots) \cup Permutations(Senders)
=============================================================================
