------------------------------ MODULE MCTsQueue ------------------------------
(* Two producers and a consumer for TLC.  Items are told apart by their producer,
   so the runs use no symmetry. *)
EXTENDS TsQueue
=============================================================================
