------------------------------ MODULE LuaSocket ------------------------------
(***************************************************************************)
(* What the plugin promises to the Lua script, and nothing of how: the     *)
(* script creates sockets, each socket calls its script back in the order  *)
(* connect, message*, close, the plugin forgets no socket the script has   *)
(* not closed while the game runs, and after the game's shutdown no        *)
(* callback runs any more.  Plugin.tla implements this module.             *)
(***************************************************************************)

CONSTANT Handles                  \* the sockets a script may ever create

VARIABLES
    live,                         \* the sockets the plugin keeps callbacks of
    told,                         \* the last callback each socket has run
    closed,                       \* the sockets the script is done with
    on                            \* TRUE until the game shuts down

vars == <<live, told, closed, on>>

Callbacks == {"connect", "message", "close"}

TypeOK ==
    /\ live \subseteq Handles
    /\ told \in [Handles -> Callbacks \cup {"nothing"}]
    /\ closed \subseteq Handles
    /\ on \in BOOLEAN

Init ==
    /\ live = {}
    /\ told = [h \in Handles |-> "nothing"]
    /\ closed = {}
    /\ on = TRUE

(***************************************************************************)
(* Callback k may follow callback `last`: connect comes first and once,    *)
(* nothing comes after close.                                              *)
(***************************************************************************)
MayFollow(last, k) ==
    \/ last = "nothing" /\ k = "connect"
    \/ last \in {"connect", "message"} /\ k \in {"message", "close"}

(* The script's connect returned a socket: no callback has run for it yet. *)
Create(h) ==
    /\ on
    /\ h \notin live
    /\ told[h] = "nothing"
    /\ live' = live \cup {h}
    /\ UNCHANGED <<told, closed, on>>

(* A socket calls its script back. *)
Tell(h, k) ==
    /\ on
    /\ h \in live
    /\ MayFollow(told[h], k)
    /\ told' = [told EXCEPT ![h] = k]
    /\ UNCHANGED <<live, closed, on>>

(* The script closes a socket, perhaps again, or drops its last reference. *)
Close(h) ==
    /\ on
    /\ closed' = closed \cup {h}
    /\ UNCHANGED <<live, told, on>>

(* The plugin forgets sockets: closed ones, and any one at shutdown. *)
Retire(S) ==
    /\ S \subseteq live
    /\ on => S \subseteq closed
    /\ live' = live \ S
    /\ UNCHANGED <<told, closed, on>>

(* The game begins to shut down. *)
ShutDown ==
    /\ on' = FALSE
    /\ UNCHANGED <<live, told, closed>>

Next ==
    \/ \E h \in Handles : Create(h)
    \/ \E h \in Handles, k \in Callbacks : Tell(h, k)
    \/ \E h \in Handles : Close(h)
    \/ \E S \in SUBSET Handles : Retire(S)
    \/ ShutDown

Spec == Init /\ [][Next]_vars
=============================================================================
