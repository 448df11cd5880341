----------------------------- MODULE CarefulScript -----------------------------
(***************************************************************************)
(* Plugin.tla under scripts that keep to a discipline that keeps update    *)
(* free of faults:                                                         *)
(*   - a socket is closed only after its connect callback, not after its   *)
(*     close callback, once, from outside callbacks, and only when no      *)
(*     other close is waiting for the next frame;                          *)
(*   - methods are called on sockets, __gc by the collector alone, and     *)
(*     nothing is called on a socket after its close;                      *)
(*   - every socket is kept referenced until it was closed and the plugin  *)
(*     has erased its entry, failed sockets for ever.                      *)
(* The engine, the library and the plugin are as in Plugin.                *)
(***************************************************************************)
EXTENDS Plugin

MayUse(i) == hdls[i] \notin closed

MayClose(i) ==
    /\ MayUse(i)
    /\ pc = "idle"
    /\ close_queue = <<>>
    /\ told[hdls[i]] \in {"connect", "message"}

CarefulMethods ==
    \/ \E h \in Handles : l_connect(h)
    \/ \E i \in DOMAIN hdls :
        \/ MayUse(i) /\ WebSocket_send_message(i)
        \/ MayUse(i) /\ WebSocket_tostring(i)
        \/ MayClose(i) /\ WebSocket_close(i)
        \/ ~MayUse(i) /\ ~Present(hdls[i]) /\ WebSocket_gc(i)

CarefulNext == CarefulMethods \/ Update \/ Events \/ Shutdown \/ Ended

CarefulSpec == Init /\ [][CarefulNext]_vars

FairCarefulSpec == CarefulSpec /\ EngineFairness

-----------------------------------------------------------------------------
(***************************************************************************)
(* Under the discipline no frame ends in a fault: every queued close finds *)
(* its connection alive and registered under the client it belongs to, no  *)
(* callback queues a close while update iterates, and no entry is blank.   *)
(* shutdown is left out: it may still throw, for a socket whose connection *)
(* failed or was closed by the peer (plugin.cpp:544).                      *)
(***************************************************************************)
CarefulSafe == pc \in Faults => shutting_down

(***************************************************************************)
(* No connection is left to itself: while the game runs, one that is       *)
(* connecting or open has an entry with the script's callbacks.            *)
(***************************************************************************)
NoOrphan ==
    GameRuns => \A h \in Handles :
        con[h] \in {"connecting", "open"} => Registered(h)

(***************************************************************************)
(* A close the script asked for is carried out, unless shutdown overtakes  *)
(* it: the entry goes, and the connection is no longer open.               *)
(***************************************************************************)
CloseCarriedOut ==
    \A h \in Handles :
        h \in closed ~> shutting_down \/ (~Present(h) /\ con[h] # "open")
=============================================================================
