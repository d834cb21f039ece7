---------------------------- MODULE MCViaSession ----------------------------
(* Model values for ViaSession. *)
EXTENDS ViaSession, TLC

Symmetry == Permutations(Keys) \cup Permutations(Channels)
=============================================================================
