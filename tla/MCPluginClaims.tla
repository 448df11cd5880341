---------------------------- MODULE MCPluginClaims ----------------------------
(* PluginClaims.tla on small instances, for TLC. *)
EXTENDS PluginClaims, TLC
CONSTANTS s1, w1
=============================================================================
