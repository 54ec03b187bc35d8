---------------------------- MODULE MCWorldServer ----------------------------
(* A small world for TLC: every handler, called by every session in any order. *)
EXTENDS WorldServer, TLC

Symmetry == Permutations(Sessions) \cup Permutations(Handles)
=============================================================================
