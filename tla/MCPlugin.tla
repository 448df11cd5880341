------------------------------- MODULE MCPlugin -------------------------------
(* Plugin.tla on small instances, for TLC. *)
EXTENDS Plugin, TLC
CONSTANTS s1, w1, w2
=============================================================================
