----------------------------- MODULE PluginClaims -----------------------------
(***************************************************************************)
(* What comments in the code say of the plugin and its library, and the    *)
(* plugin does not keep.                                                   *)
(***************************************************************************)
EXTENDS Plugin

(***************************************************************************)
(* send pushes true, "success" (plugin.cpp:322), whenever is_connected is  *)
(* set: the library then accepts the frame, which it does only while the   *)
(* connection is open.                                                     *)
(***************************************************************************)
SendSuccessIsAccepted ==
    ScriptRuns => \A i \in DOMAIN hdls :
        connections[hdls[i]].is_connected => con[hdls[i]] = "open"

(***************************************************************************)
(* Collecting the userdata of a connection that has closed queues nothing: *)
(* "connection already closed" (plugin.cpp:274).                           *)
(***************************************************************************)
GcOfClosedQueuesNothing ==
    [][\A i \in DOMAIN hdls :
        WebSocket_gc(i) /\ told[hdls[i]] = "close" => close_queue' = close_queue]_vars

(***************************************************************************)
(* The closing handshake has a timer "so we don't wait forever for the     *)
(* acknowledgement close frame" (connection_impl.hpp:2130): while the game *)
(* runs, a connection does not stay in the closing handshake.              *)
(***************************************************************************)
ClosingIsBounded ==
    \A h \in Handles : con[h] = "closing" ~> con[h] # "closing" \/ ~GameRuns

(***************************************************************************)
(* After stop_perpetual run ends when the client runs out of connections:  *)
(* "If there are currently active connections it will not end until they   *)
(* are complete" (transport/asio/endpoint.hpp:697), so exit leaves none.   *)
(***************************************************************************)
ExitLeavesNoConnection ==
    pc = "exited" => \A cl \in Clients : ~Work(cl)
=============================================================================
