------------------------------ MODULE MCServe ------------------------------
(* Serve for TLC. *)
EXTENDS Serve
=============================================================================
