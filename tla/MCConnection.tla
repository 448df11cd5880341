----------------------------- MODULE MCConnection -----------------------------
(* Connection.tla on small instances, for TLC. *)
EXTENDS Connection
=============================================================================
