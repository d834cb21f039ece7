--------------------------- MODULE MCViaRoundtrip ---------------------------
(* Model values for ViaRoundtrip; the two keycodes are interchangeable. *)
EXTENDS ViaRoundtrip, TLC

Symmetry == Permutations(Values)
=============================================================================
