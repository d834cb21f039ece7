------------------------------ MODULE MCEngine ------------------------------
(* Small instances of Engine. *)
EXTENDS Engine, TLC

ClientSymmetry == Permutations(Clients)
=============================================================================
