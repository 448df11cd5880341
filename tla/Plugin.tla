-------------------------------- MODULE Plugin --------------------------------
(***************************************************************************)
(* src/src/plugin.cpp: a game plugin that gives Lua scripts WebSocket      *)
(* connections.  Everything runs on the engine's thread:                   *)
(*                                                                         *)
(*   - the script calls connect, send, close, tostring and, through the    *)
(*     collector, __gc.  It runs between two frames (pc = "idle") or       *)
(*     inside a callback of the plugin (in_lua);                           *)
(*   - the engine calls update once a frame: it flushes close_queue and    *)
(*     polls both websocketpp clients;                                     *)
(*   - the engine calls shutdown once;                                     *)
(*   - a client runs its handlers only inside poll, poll_one and run, and  *)
(*     the open, message and close handlers call Lua back.                 *)
(*                                                                         *)
(* A connection of the library (con) is seen here through its phases; its  *)
(* sockets, frames and timers are nondeterminism.  A step that leaves the  *)
(* defined behaviour of the program ends in one of the Faults, and nothing *)
(* is modelled after it.                                                   *)
(***************************************************************************)
EXTENDS Naturals, Sequences

CONSTANTS
    Handles,          \* the connections (connection_hdl) that can be created
    SecureHandles,    \* those created with a wss:// address
    MaxQueue          \* bound of the model: pending closes

ASSUME HandlesAssumption == SecureHandles \subseteq Handles
ASSUME MaxQueueAssumption == MaxQueue \in Nat

VARIABLES
    con,              \* the library's connection behind each handle
    stopped,          \* clients whose io_service ran out of work and stopped
    connections,      \* handle -> ConnectionMeta
    hdls,             \* the vector a Lua userdata is an index of
    close_queue,      \* handles to close, in order
    shutting_down,
    pc,               \* where the engine's thread is
    todo,             \* what the range-for over close_queue still has to visit
    visit,            \* what the range-for over connections still has to visit
    moved,            \* close_queue was reallocated while it is iterated
    handling,         \* the connection whose handler poll_one runs, if any
    in_lua,           \* a callback of the script is running
    told,             \* history: the last callback of each handle
    closed            \* history: handles whose close the script has queued

libVars == <<con, stopped>>
loopVars == <<pc, todo, visit, moved, handling>>
luaVars == <<hdls, told, closed, in_lua>>
vars == <<libVars, connections, close_queue, shutting_down, loopVars, luaVars>>

-----------------------------------------------------------------------------
(* The state space *)

Clients == {"secure", "insecure"}

(***************************************************************************)
(* con[h]: not created; TCP, TLS or HTTP handshake under way; open; the    *)
(* closing handshake or the TLS shutdown under way; closed with handlers   *)
(* still pending; and every reference dropped, so that the weak pointers   *)
(* the plugin keeps have expired.                                          *)
(***************************************************************************)
Phases == {"none", "connecting", "open", "closing", "terminated", "gone"}

(* "blank" is the uri of a ConnectionMeta made by connections[hdl] itself: *)
(* no address, not connected, and callback references 0.                   *)
Uris == {"absent", "blank", "ws", "wss"}
Entries == [uri : Uris, is_connected : BOOLEAN]
Entry(u, c) == [uri |-> u, is_connected |-> c]
NoEntry == Entry("absent", FALSE)
(* Mutation: a ConnectionMeta whose is_connected is not initialised. *)
BlankEntryUninitialised == Entry("blank", TRUE)
BlankEntry == Entry("blank", FALSE)

Faults ==
    {"exception",            \* an exception leaves update or shutdown
     "typeConfusion",        \* a connection reached through the other client
     "danglingIterator",     \* an iterator of a reallocated vector is used
     "badCallback",          \* lua->call on registry slot 0
     "noSocket"}             \* a method called on what is no socket

Polls == {"pollSecure", "pollInsecure"}
Runs == {"shutQueueRun", "shutMapRun", "finalSecure", "finalInsecure"}
Locations ==
    {"idle", "flush", "flushPoll", "shutQueue", "shutMap", "exited"}
        \cup Polls \cup Runs \cup Faults

TypeOK ==
    /\ con \in [Handles -> Phases]
    /\ stopped \subseteq Clients
    /\ connections \in [Handles -> Entries]
    /\ hdls \in Seq(Handles)
    /\ close_queue \in Seq(Handles)
    /\ shutting_down \in BOOLEAN
    /\ pc \in Locations
    /\ todo \in Seq(Handles)
    /\ visit \subseteq Handles
    /\ moved \in BOOLEAN
    /\ handling \subseteq Handles
    /\ in_lua \in BOOLEAN
    /\ told \in [Handles -> {"nothing", "connect", "message", "close"}]
    /\ closed \subseteq Handles

(* After setup_game: both clients exist, no connection does. *)
Init ==
    /\ con = [h \in Handles |-> "none"]
    /\ stopped = {}
    /\ connections = [h \in Handles |-> NoEntry]
    /\ hdls = <<>>
    /\ close_queue = <<>>
    /\ shutting_down = FALSE
    /\ pc = "idle"
    /\ todo = <<>>
    /\ visit = {}
    /\ moved = FALSE
    /\ handling = {}
    /\ in_lua = FALSE
    /\ told = [h \in Handles |-> "nothing"]
    /\ closed = {}

-----------------------------------------------------------------------------
(* The clients and the map *)

Client(h) == IF h \in SecureHandles THEN "secure" ELSE "insecure"
Scheme(h) == IF h \in SecureHandles THEN "wss" ELSE "ws"

(* starts_with(uri, "wss://"): the client the plugin asks for a handle. *)
ClientFor(uri) == IF uri = "wss" THEN "secure" ELSE "insecure"

(***************************************************************************)
(* client.get_con_from_hdl(hdl): it throws when the weak pointer has       *)
(* expired, and casts without a check, so the other client's connection    *)
(* comes back as an object of the wrong type.                              *)
(***************************************************************************)
GetCon(h, uri) ==
    IF con[h] = "gone" THEN "exception"
    ELSE IF ClientFor(uri) = Client(h) THEN "found" ELSE "typeConfusion"

Present(h) == connections[h].uri # "absent"
Registered(h) == connections[h].uri \in {"ws", "wss"}
Keys == {h \in Handles : Present(h)}

(* connections[hdl], read: the entry found or the one inserted. *)
Lookup(h) == IF Present(h) THEN connections[h] ELSE BlankEntry

(***************************************************************************)
(* connections[h] = entry.  A key inserted while update iterates over the  *)
(* map is visited if it sorts after the current one.                       *)
(***************************************************************************)
Store(h, entry) ==
    /\ connections' = [connections EXCEPT ![h] = entry]
    /\ \/ visit' = visit
       \/ ~Present(h) /\ pc \in Polls /\ visit' = visit \cup {h}

-----------------------------------------------------------------------------
(* The script *)

(* Lua runs between two frames or in a callback; a fault ends it. *)
ScriptRuns ==
    \/ pc = "idle"
    \/ in_lua /\ pc \notin Faults

(***************************************************************************)
(* The methods take their first argument for a userdata of pushHandle and  *)
(* its number for an index of hdls; nothing is checked.  With no argument  *)
(* or no userdata the number is read through 0, and the number in a        *)
(* foreign userdata may be any: beyond hdls it ends here, within hdls it   *)
(* is the index i of the methods below, which need not be the script's.    *)
(***************************************************************************)
toHandleFails ==
    /\ ScriptRuns
    /\ pc' = "noSocket"
    /\ UNCHANGED <<libVars, connections, close_queue, shutting_down, todo, visit, moved,
                   handling, luaVars>>

(* A queued close; while update iterates, push_back may reallocate. *)
QueueClose(h) ==
    /\ Len(close_queue) < MaxQueue
    /\ close_queue' = Append(close_queue, h)
    /\ moved' \in IF pc = "flushPoll" THEN {moved, TRUE} ELSE {moved}
    /\ closed' = closed \cup {h}

(* A valid address: an invalid one changes nothing but registry references. *)
l_connect(h) ==
    /\ ScriptRuns
    /\ con[h] = "none"
    /\ con' = [con EXCEPT ![h] = "connecting"]
    /\ Store(h, Entry(Scheme(h), FALSE))
    /\ hdls' = Append(hdls, h)
    /\ UNCHANGED <<stopped, close_queue, shutting_down, pc, todo, moved, handling,
                   in_lua, told, closed>>

WebSocket_send_message(i) ==
    /\ ScriptRuns
    /\ LET h == hdls[i]
           found == GetCon(h, Lookup(h).uri)
       IN  /\ Store(h, Lookup(h))
           /\ \/ pc' = pc
              \/ Lookup(h).is_connected /\ found # "found" /\ pc' = found
    /\ UNCHANGED <<libVars, close_queue, shutting_down, todo, moved, handling, luaVars>>

WebSocket_tostring(i) ==
    /\ ScriptRuns
    /\ Store(hdls[i], Lookup(hdls[i]))
    /\ UNCHANGED <<libVars, close_queue, shutting_down, pc, todo, moved, handling,
                   luaVars>>

WebSocket_close(i) ==
    /\ ScriptRuns
    /\ Store(hdls[i], [Lookup(hdls[i]) EXCEPT !.is_connected = FALSE])
    /\ QueueClose(hdls[i])
    /\ UNCHANGED <<libVars, shutting_down, pc, todo, handling, hdls, told, in_lua>>

(* Called by the collector or, through __index, by the script.             *)
(* is_connected is cleared in a copy of the entry, the map keeps TRUE.     *)
WebSocket_gc(i) ==
    /\ ScriptRuns
    /\ \/ Present(hdls[i]) /\ QueueClose(hdls[i])
       \/ ~Present(hdls[i]) /\ UNCHANGED <<close_queue, moved, closed>>
    /\ UNCHANGED <<libVars, connections, shutting_down, pc, todo, visit, handling,
                   hdls, told, in_lua>>

-----------------------------------------------------------------------------
(* update, once a frame *)

(* The loop over the map takes a next key or, when none is left, ends. *)
NextVisit(keys) ==
    \/ /\ keys = {}
       /\ pc' = "idle"
       /\ visit' = {}
    \/ \E h \in keys : pc' = "pollSecure" /\ visit' = keys \ {h}

(* Mutation: the queue is taken for empty. *)
UpdateBeginSkipsQueue ==
    /\ pc = "idle"
    /\ pc' = "flush"
    /\ todo' = <<>>
    /\ moved' = FALSE
    /\ UNCHANGED <<libVars, connections, close_queue, shutting_down, visit, handling,
                   luaVars>>

UpdateBegin ==
    /\ pc = "idle"
    /\ pc' = "flush"
    /\ todo' = close_queue
    /\ moved' = FALSE
    /\ UNCHANGED <<libVars, connections, close_queue, shutting_down, visit, handling,
                   luaVars>>

(* Mutation: the entry is erased, the connection is not closed. *)
CloseForgets(h, uri, next) ==
    LET found == GetCon(h, uri)
    IN  /\ pc' = IF found = "found" THEN next ELSE found
        /\ UNCHANGED con

(***************************************************************************)
(* One close of update or shutdown up to its poll or run: get the          *)
(* connection from the client that uri names, and start the closing        *)
(* handshake; the library refuses unless the connection is open, and the   *)
(* refusal is only logged.                                                 *)
(***************************************************************************)
Close(h, uri, next) ==
    LET found == GetCon(h, uri)
    IN  IF found = "found"
        THEN /\ con' = [con EXCEPT ![h] = IF @ = "open" THEN "closing" ELSE @]
             /\ pc' = next
        ELSE pc' = found /\ UNCHANGED con

FlushClose ==
    /\ pc = "flush"
    /\ todo # <<>>
    /\ connections' = [connections EXCEPT ![Head(todo)] = Lookup(Head(todo))]
    /\ Close(Head(todo), Lookup(Head(todo)).uri, "flushPoll")
    /\ UNCHANGED <<stopped, close_queue, shutting_down, todo, visit, moved, handling,
                   luaVars>>

(* poll has found no ready handler: the entry is erased. *)
FlushErase ==
    /\ pc = "flushPoll"
    /\ ~in_lua
    /\ \/ /\ moved
          /\ pc' = "danglingIterator"
          /\ UNCHANGED <<connections, todo>>
       \/ /\ ~moved
          /\ pc' = "flush"
          /\ connections' = [connections EXCEPT ![Head(todo)] = NoEntry]
          /\ todo' = Tail(todo)
    /\ UNCHANGED <<libVars, close_queue, shutting_down, visit, moved, handling, luaVars>>

(* Mutation: close_queue.clear() is missing. *)
FlushEndKeepsQueue ==
    /\ pc = "flush"
    /\ todo = <<>>
    /\ NextVisit(Keys)
    /\ UNCHANGED <<libVars, connections, close_queue, shutting_down, todo, moved,
                   handling, luaVars>>

FlushEnd ==
    /\ pc = "flush"
    /\ todo = <<>>
    /\ close_queue' = <<>>
    /\ NextVisit(Keys)
    /\ UNCHANGED <<libVars, connections, shutting_down, todo, moved, handling, luaVars>>

-----------------------------------------------------------------------------
(* The clients' event loops, inside poll, poll_one and run *)

Polled ==
    CASE pc \in {"pollSecure", "finalSecure"} -> "secure"
      [] pc \in {"pollInsecure", "finalInsecure"} -> "insecure"
      [] OTHER -> Client(Head(todo))

(***************************************************************************)
(* The thread is in the event loop of h's client, no Lua is running, and   *)
(* the next event is one of h.  poll and run serve handler after handler.  *)
(* poll_one serves one: its events are all of one connection, but they may *)
(* be several, such as the frames of one read.                             *)
(***************************************************************************)
Event(h) ==
    /\ pc \in Polls \cup Runs \cup {"flushPoll"}
    /\ ~in_lua
    /\ Client(h) = Polled
    /\ handling \subseteq {h}
    /\ handling' = IF pc \in Polls THEN {h} ELSE {}

(* A connection has work for its client from connect to its last handler. *)
Work(cl) ==
    \E h \in Handles : Client(h) = cl /\ con[h] \notin {"none", "gone"}

(* Mutation: the handlers do not look at shutting_down. *)
UnheardWhenAbsent(h) == ~Present(h)

(* No Lua for this event: the handler returns early. *)
Unheard(h) == shutting_down \/ ~Present(h)

Ignore(h) ==
    /\ Unheard(h)
    /\ UNCHANGED <<connections, pc, told, in_lua>>

(***************************************************************************)
(* lua->call of the callback k of a handle whose entry becomes `entry`.  A *)
(* blank entry has no callback: the call is made on whatever registry slot *)
(* 0 holds, and fails.                                                     *)
(***************************************************************************)
CallLua(h, k, entry) ==
    /\ ~Unheard(h)
    /\ connections' = [connections EXCEPT ![h] = entry]
    /\ IF Registered(h)
       THEN /\ told' = [told EXCEPT ![h] = k]
            /\ in_lua' = TRUE
            /\ UNCHANGED pc
       ELSE /\ pc' = "badCallback"
            /\ UNCHANGED <<told, in_lua>>

Notify(h, k, entry) ==
    /\ Ignore(h) \/ CallLua(h, k, entry)
    /\ UNCHANGED <<stopped, close_queue, shutting_down, todo, visit, moved, hdls,
                   closed>>

(* The opening handshake succeeds. *)
on_open(h) ==
    /\ Event(h)
    /\ con[h] = "connecting"
    /\ con' = [con EXCEPT ![h] = "open"]
    /\ Notify(h, "connect", [connections[h] EXCEPT !.is_connected = TRUE])

(* A text or binary frame; while closing the library drops it. *)
on_message(h) ==
    /\ Event(h)
    /\ con[h] = "open"
    /\ Notify(h, "message", connections[h])
    /\ UNCHANGED con

(* Mutation: is_connected stays as it is. *)
on_closeStaysConnected(h) ==
    /\ Event(h)
    /\ con[h] \in {"open", "closing"}
    /\ con' = [con EXCEPT ![h] = "terminated"]
    /\ Notify(h, "close", connections[h])

(* The connection is over, by a closing handshake, a timeout or an error. *)
on_close(h) ==
    /\ Event(h)
    /\ con[h] \in {"open", "closing"}
    /\ con' = [con EXCEPT ![h] = "terminated"]
    /\ Notify(h, "close", [connections[h] EXCEPT !.is_connected = FALSE])

(***************************************************************************)
(* The library's own handlers, with none of the plugin's behind them: the  *)
(* peer's close frame (or an invalid frame) starts the closing handshake;  *)
(* connecting fails or times out, and no fail handler is set.              *)
(***************************************************************************)
Quietly(h, from, to) ==
    /\ Event(h)
    /\ con[h] = from
    /\ con' = [con EXCEPT ![h] = to]
    /\ UNCHANGED <<connections, close_queue, shutting_down, pc, todo, visit, moved,
                   luaVars>>

peer_close(h) == Quietly(h, "open", "closing") /\ UNCHANGED stopped

connect_failed(h) == Quietly(h, "connecting", "terminated") /\ UNCHANGED stopped

(***************************************************************************)
(* The last pending handler of a closed connection returns.  In the close  *)
(* loops a local shared pointer outlives it, until nothing reads con any   *)
(* more.  A client left without work stops its io_service.                 *)
(***************************************************************************)
release(h) ==
    /\ Quietly(h, "terminated", "gone")
    /\ stopped' = IF Work(Client(h))' THEN stopped ELSE stopped \cup {Client(h)}

(* The script's callback returns to its handler. *)
CallbackReturns ==
    /\ in_lua
    /\ pc \notin Faults
    /\ in_lua' = FALSE
    /\ UNCHANGED <<libVars, connections, close_queue, shutting_down, loopVars, hdls,
                   told, closed>>

(* Mutation: the loop over the map polls one client only. *)
PollReturnsEarly ==
    /\ pc \in Polls
    /\ ~in_lua
    /\ NextVisit(visit)
    /\ handling' = {}
    /\ stopped' = IF Work(Polled) THEN stopped ELSE stopped \cup {Polled}
    /\ UNCHANGED <<con, connections, close_queue, shutting_down, todo, moved, luaVars>>

(***************************************************************************)
(* poll_one is over: its handler has returned, showed nothing of what is   *)
(* modelled, or was not there.  Without any work the io_service stops.     *)
(***************************************************************************)
PollReturns ==
    /\ pc \in Polls
    /\ ~in_lua
    /\ \/ pc = "pollSecure" /\ pc' = "pollInsecure" /\ UNCHANGED visit
       \/ pc = "pollInsecure" /\ NextVisit(visit)
    /\ handling' = {}
    /\ stopped' = IF Work(Polled) THEN stopped ELSE stopped \cup {Polled}
    /\ UNCHANGED <<con, connections, close_queue, shutting_down, todo, moved, luaVars>>

-----------------------------------------------------------------------------
(* shutdown, called once *)

ShutdownBegin ==
    /\ pc = "idle"
    /\ shutting_down' = TRUE
    /\ pc' = "shutQueue"
    /\ todo' = close_queue
    /\ UNCHANGED <<libVars, connections, close_queue, visit, moved, handling, luaVars>>

ShutQueueClose ==
    /\ pc = "shutQueue"
    /\ todo # <<>>
    /\ connections' = [connections EXCEPT ![Head(todo)] = Lookup(Head(todo))]
    /\ Close(Head(todo), Lookup(Head(todo)).uri, "shutQueueRun")
    /\ UNCHANGED <<stopped, close_queue, shutting_down, todo, visit, moved, handling,
                   luaVars>>

(* Mutation: start_perpetual keeps run from returning. *)
RunReturnsWhenStopped(cl) ==
    /\ cl \in stopped
    /\ UNCHANGED stopped

(***************************************************************************)
(* run returns when its client has no work left, or at once when the       *)
(* io_service has stopped before: nobody resets it.                        *)
(***************************************************************************)
RunReturns(cl) ==
    /\ ~Work(cl) \/ cl \in stopped
    /\ stopped' = stopped \cup {cl}

ShutQueueErase ==
    /\ pc = "shutQueueRun"
    /\ RunReturns(Polled)
    /\ connections' = [connections EXCEPT ![Head(todo)] = NoEntry]
    /\ todo' = Tail(todo)
    /\ pc' = "shutQueue"
    /\ UNCHANGED <<con, close_queue, shutting_down, visit, moved, handling, luaVars>>

ShutQueueEnd ==
    /\ pc = "shutQueue"
    /\ todo = <<>>
    /\ close_queue' = <<>>
    /\ visit' = Keys
    /\ pc' = "shutMap"
    /\ UNCHANGED <<libVars, connections, shutting_down, todo, moved, handling, luaVars>>

ShutMapClose(h) ==
    /\ pc = "shutMap"
    /\ h \in visit
    /\ visit' = visit \ {h}
    /\ todo' = <<h>>
    /\ Close(h, connections[h].uri, "shutMapRun")
    /\ UNCHANGED <<stopped, connections, close_queue, shutting_down, moved, handling,
                   luaVars>>

ShutMapRun ==
    /\ pc = "shutMapRun"
    /\ RunReturns(Polled)
    /\ pc' = "shutMap"
    /\ UNCHANGED <<con, connections, close_queue, shutting_down, todo, visit,
                   moved, handling, luaVars>>

(* connections.clear(), hdls.clear() *)
ShutMapEnd ==
    /\ pc = "shutMap"
    /\ visit = {}
    /\ connections' = [h \in Handles |-> NoEntry]
    /\ hdls' = <<>>
    /\ pc' = "finalSecure"
    /\ UNCHANGED <<libVars, close_queue, shutting_down, todo, visit, moved,
                   handling, in_lua, told, closed>>

(* The last two runs, and exit(0). *)
ShutFinal ==
    /\ \/ pc = "finalSecure" /\ pc' = "finalInsecure"
       \/ pc = "finalInsecure" /\ pc' = "exited"
    /\ RunReturns(Polled)
    /\ UNCHANGED <<con, connections, close_queue, shutting_down, todo, visit,
                   moved, handling, luaVars>>

-----------------------------------------------------------------------------
(* The specification *)

Script ==
    \/ \E h \in Handles : l_connect(h)
    \/ \E i \in DOMAIN hdls :
        \/ WebSocket_send_message(i)
        \/ WebSocket_tostring(i)
        \/ WebSocket_close(i)
        \/ WebSocket_gc(i)
    \/ toHandleFails

Update == UpdateBegin \/ FlushClose \/ FlushErase \/ FlushEnd \/ PollReturns

Events ==
    \/ \E h \in Handles :
        \/ on_open(h)
        \/ on_message(h)
        \/ on_close(h)
        \/ peer_close(h)
        \/ connect_failed(h)
        \/ release(h)
    \/ CallbackReturns

Shutdown ==
    \/ ShutdownBegin
    \/ ShutQueueClose
    \/ ShutQueueErase
    \/ ShutQueueEnd
    \/ \E h \in Handles : ShutMapClose(h)
    \/ ShutMapRun
    \/ ShutMapEnd
    \/ ShutFinal

(* The process has ended: nothing more happens. *)
Ended ==
    /\ pc \in Faults \cup {"exited"}
    /\ UNCHANGED vars

Next == Script \/ Update \/ Events \/ Shutdown \/ Ended

Spec == Init /\ [][Next]_vars

(***************************************************************************)
(* Fairness of the engine's thread: update is called every frame until     *)
(* shutdown, Lua returns, and the steps of update and shutdown follow each *)
(* other; no two of these are enabled together, so one condition does for  *)
(* all.  poll and poll_one end: a peer does not supply ready handlers for  *)
(* ever, nor one read frames without end.  Nothing makes the engine call   *)
(* shutdown or the script call anything.                                   *)
(***************************************************************************)
EngineStep ==
    \/ UpdateBegin \/ FlushClose \/ FlushEnd \/ CallbackReturns
    \/ ShutQueueClose \/ ShutQueueErase \/ ShutQueueEnd
    \/ \E h \in Handles : ShutMapClose(h)
    \/ ShutMapRun \/ ShutMapEnd \/ ShutFinal

EngineFairness == WF_vars(EngineStep) /\ SF_vars(FlushErase \/ PollReturns)

(***************************************************************************)
(* Fairness of the library: opening and closing a connection are bounded   *)
(* by timers of 5 s (core_client.hpp:126-164), and a closed connection's   *)
(* handlers are few; each phase ends once its client is served often       *)
(* enough.  An open connection may stay open for ever.                     *)
(***************************************************************************)
Settles(h) ==
    \/ on_open(h)
    \/ connect_failed(h)
    \/ con[h] = "closing" /\ on_close(h)
    \/ release(h)

LibraryFairness == \A h \in Handles : SF_vars(Settles(h))

FairSpec == Spec /\ EngineFairness /\ LibraryFairness

-----------------------------------------------------------------------------
(* Safety *)

(***************************************************************************)
(* The thread is where its flags say: shutdown is never left, Lua runs     *)
(* inside update's polls, and a loop that closes a handle has it at hand.  *)
(***************************************************************************)
ShutdownLocations == Runs \cup {"shutQueue", "shutMap", "exited"}

ControlConsistent ==
    /\ shutting_down => pc \in ShutdownLocations \cup Faults
    /\ pc \in ShutdownLocations => shutting_down
    /\ in_lua => pc \in Polls \cup {"flushPoll"} \cup Faults
    /\ pc \in {"flushPoll", "shutQueueRun", "shutMapRun"} => todo # <<>>

(***************************************************************************)
(* While no fault has happened and the game runs:                          *)
(*   - a handle that was not created is in no container, and one that is   *)
(*     to be closed was queued by the script;                              *)
(*   - an entry names the client that owns its connection;                 *)
(*   - the script has been told connect exactly when the connection has    *)
(*     been open, and close only when it is over;                          *)
(*   - is_connected is set only for a registered connection between its    *)
(*     open and its close handler.                                         *)
(***************************************************************************)
Unborn(h) == con[h] = "none"

UnbornUntouched ==
    \A h \in Handles : Unborn(h) => ~Present(h) /\ told[h] = "nothing"

ContainersHoldBorn ==
    /\ \A i \in DOMAIN hdls : ~Unborn(hdls[i])
    /\ \A i \in DOMAIN close_queue : ~Unborn(close_queue[i])
    /\ \A i \in DOMAIN todo : ~Unborn(todo[i])

QueuedByScript ==
    /\ \A i \in DOMAIN close_queue : close_queue[i] \in closed
    /\ \A i \in DOMAIN todo : todo[i] \in closed

EntriesMatch == \A h \in Handles : Registered(h) => connections[h].uri = Scheme(h)

ToldInStep ==
    \A h \in Handles : Registered(h) =>
        /\ con[h] = "connecting" => told[h] = "nothing"
        /\ con[h] \in {"open", "closing"} => told[h] \in {"connect", "message"}

ConnectedInStep ==
    \A h \in Handles : connections[h].is_connected =>
        Registered(h) /\ con[h] \in {"open", "closing"}

GameRuns == ~shutting_down /\ pc \notin Faults

EntriesConsistent ==
    GameRuns =>
        /\ UnbornUntouched
        /\ ContainersHoldBorn
        /\ QueuedByScript
        /\ EntriesMatch
        /\ ToldInStep
        /\ ConnectedInStep

IInv == TypeOK /\ ControlConsistent /\ EntriesConsistent

(***************************************************************************)
(* send goes by is_connected alone (plugin.cpp:291): whenever it is set,   *)
(* get_con_from_hdl finds the connection, in the client that uri names.    *)
(***************************************************************************)
ConnectedIsUsable ==
    GameRuns => \A h \in Handles :
        connections[h].is_connected => GetCon(h, connections[h].uri) = "found"

(***************************************************************************)
(* Of the script's calls only one on what is no socket leaves the defined  *)
(* behaviour (toHandle, plugin.cpp:253, does not check it).  On a socket,  *)
(* closed, flushed or re-inserted though it may be, no method raises an    *)
(* exception or touches an object of the wrong type: such faults are left  *)
(* to update, shutdown and handlers.                                       *)
(***************************************************************************)
SocketMethodsNeverFault == [][ScriptRuns /\ pc' \in Faults => pc' = "noSocket"]_vars

(* The callbacks of a socket come in the order LuaSocket promises. *)
Contract == INSTANCE LuaSocket
    WITH live <- {h \in Handles : Registered(h)}, on <- ~shutting_down

ImplementsContract == Contract!Spec

-----------------------------------------------------------------------------
(* Liveness *)

(***************************************************************************)
(* A connection whose close has begun is freed in the end, provided update *)
(* goes on polling, which it does only while the map has entries           *)
(* (plugin.cpp:441).                                                       *)
(***************************************************************************)
PollingFrees ==
    []<>(pc = "pollSecure") =>
        \A h \in Handles : con[h] \in {"closing", "terminated"} ~> con[h] = "gone"

(***************************************************************************)
(* shutdown ends, by exit or by an exception, provided no connection stays *)
(* open for ever: run returns only when its client has no connection left, *)
(* and the connections shutdown has not yet come to are still open.        *)
(***************************************************************************)
ShutdownEnds ==
    (\A h \in Handles : []<>(con[h] # "open")) =>
        (shutting_down ~> pc \in Faults \cup {"exited"})
=============================================================================
