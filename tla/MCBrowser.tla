------------------------------ MODULE MCBrowser ------------------------------
(* Browser for TLC. *)
EXTENDS Browser

(* One instance that moves between two addresses, the first of them seeded. *)
SeedFirst == {[inst |-> 1, ep |-> 1]}
=============================================================================
