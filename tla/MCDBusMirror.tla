---------------------------- MODULE MCDBusMirror ----------------------------
(* Finite instances of DBusMirror for TLC. *)
EXTENDS DBusMirror, TLC

Symmetry == Permutations(Keys)
=============================================================================
