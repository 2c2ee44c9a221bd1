-------------------------- MODULE MCCustomChannel --------------------------
(* CustomChannel for TLC. *)
EXTENDS CustomChannel
=============================================================================
