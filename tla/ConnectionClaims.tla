--------------------------- MODULE ConnectionClaims ---------------------------
(***************************************************************************)
(* What the library's documentation says of its handlers, and the library  *)
(* does not keep.                                                          *)
(***************************************************************************)
EXTENDS Connection

(***************************************************************************)
(* "Either the fail handler or the open handler will be called for each    *)
(* WebSocket connection attempt" (connection.hpp:54 and :74): not both, in *)
(* whichever order.                                                        *)
(***************************************************************************)
OpenOrFail == calls["open"] = 0 \/ calls["fail"] = 0
=============================================================================
