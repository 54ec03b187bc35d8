----------------------------- MODULE MCWorldGame -----------------------------
(* A few clients of the world server for TLC. *)
EXTENDS WorldGame, TLC

Symmetry == Permutations(Sessions) \cup Permutations(Handles)
=============================================================================
