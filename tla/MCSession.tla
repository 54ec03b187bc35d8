------------------------------ MODULE MCSession ------------------------------
(* A session with a few frames and packets for TLC. *)
EXTENDS Session
=============================================================================
