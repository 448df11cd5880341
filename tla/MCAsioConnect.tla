--------------------------- MODULE MCAsioConnect ---------------------------
(* AsioConnect.tla on small instances, for TLC. *)
EXTENDS AsioConnect
=============================================================================
