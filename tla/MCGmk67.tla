------------------------------- MODULE MCGmk67 -------------------------------
(* Model values for Gmk67: two layers, as on the board, of two pages each. *)
EXTENDS Gmk67
=============================================================================
