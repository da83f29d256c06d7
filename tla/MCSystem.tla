------------------------------ MODULE MCSystem ------------------------------
(* Instances of System for TLC: its constants are numbers. *)
EXTENDS System, TLC
=============================================================================
