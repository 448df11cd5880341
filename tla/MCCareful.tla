------------------------------- MODULE MCCareful -------------------------------
(* CarefulScript.tla on small instances, for TLC. *)
EXTENDS CarefulScript
CONSTANTS s1, w1
=============================================================================
