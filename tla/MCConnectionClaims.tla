-------------------------- MODULE MCConnectionClaims --------------------------
(* ConnectionClaims.tla on small instances, for TLC. *)
EXTENDS ConnectionClaims
=============================================================================
