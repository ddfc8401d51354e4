------------------------- MODULE MCSessionLifetime -------------------------
(* Model checking of SessionLifetime: slots, workers and callers are        *)
(* interchangeable in the safety runs.                                      *)
EXTENDS SessionLifetime, TLC

Symmetry == Permutations(Slots) \cup Permutations(Workers) \cup Permutations(Callers)
=============================================================================
