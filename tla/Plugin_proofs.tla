----------------------------- MODULE Plugin_proofs -----------------------------
(***************************************************************************)
(* Proofs about Plugin.tla for any set of handles, whichever of them are   *)
(* secure, and any bound of the close queue.                               *)
(***************************************************************************)
EXTENDS Plugin, TLAPS

-----------------------------------------------------------------------------
(* Sequences of handles *)

LEMMA AppendHandle ==
    ASSUME NEW s \in Seq(Handles), NEW h \in Handles
    PROVE  /\ Append(s, h) \in Seq(Handles)
           /\ \A i \in DOMAIN Append(s, h) :
                Append(s, h)[i] = h \/ (i \in DOMAIN s /\ Append(s, h)[i] = s[i])
OBVIOUS

LEMMA NonEmptyHandles ==
    ASSUME NEW s \in Seq(Handles), s # <<>>
    PROVE  /\ Head(s) \in Handles
           /\ Tail(s) \in Seq(Handles)
           /\ 1 \in DOMAIN s /\ Head(s) = s[1]
           /\ \A i \in DOMAIN Tail(s) : i + 1 \in DOMAIN s /\ Tail(s)[i] = s[i + 1]
OBVIOUS

LEMMA NoHandles ==
    /\ <<>> \in Seq(Handles)
    /\ DOMAIN <<>> = {}
OBVIOUS

LEMMA OneHandle ==
    ASSUME NEW h \in Handles
    PROVE  <<h>> \in Seq(Handles) /\ <<h>> # <<>>
OBVIOUS

LEMMA HeldHandle ==
    ASSUME TypeOK, NEW i \in DOMAIN hdls
    PROVE  hdls[i] \in Handles
BY DEF TypeOK

-----------------------------------------------------------------------------
(* The helpers the actions are built from *)

LEMMA EntryTypes ==
    /\ NoEntry \in Entries
    /\ BlankEntry \in Entries
    /\ \A h \in Handles, c \in BOOLEAN : Entry(Scheme(h), c) \in Entries
BY DEF NoEntry, BlankEntry, Entry, Entries, Uris, Scheme

LEMMA LookupType ==
    ASSUME TypeOK, NEW h \in Handles
    PROVE  Lookup(h) \in Entries
BY EntryTypes DEF TypeOK, Lookup

(* get_con_from_hdl finds a connection or is a fault. *)
LEMMA GetConRange ==
    ASSUME NEW h, NEW uri
    PROVE  GetCon(h, uri) # "found" => GetCon(h, uri) \in Faults
BY DEF GetCon, Faults

LEMMA StoreType ==
    ASSUME TypeOK, NEW h \in Handles, NEW entry \in Entries, Store(h, entry)
    PROVE  connections' \in [Handles -> Entries] /\ visit' \subseteq Handles
BY DEF TypeOK, Store

LEMMA QueueCloseType ==
    ASSUME TypeOK, NEW h \in Handles, QueueClose(h)
    PROVE  close_queue' \in Seq(Handles) /\ moved' \in BOOLEAN /\ closed' \subseteq Handles
BY AppendHandle DEF TypeOK, QueueClose

LEMMA CloseType ==
    ASSUME TypeOK, NEW h \in Handles, NEW uri, NEW next, Close(h, uri, next)
    PROVE  con' \in [Handles -> Phases] /\ pc' \in {next} \cup Faults
BY GetConRange DEF TypeOK, Close, Phases

(* The loop over the map goes to one of its own places or ends. *)
LEMMA NextVisitType ==
    ASSUME NEW keys, keys \subseteq Handles, NextVisit(keys)
    PROVE  pc' \in {"idle", "pollSecure"} /\ visit' \subseteq Handles
BY DEF NextVisit

(* What a handler that calls Lua, or does not, leaves behind. *)
LEMMA NotifyType ==
    ASSUME TypeOK, NEW h \in Handles, NEW k \in {"connect", "message", "close"},
           NEW entry \in Entries, Notify(h, k, entry)
    PROVE  /\ connections' \in [Handles -> Entries]
           /\ told' \in [Handles -> {"nothing", "connect", "message", "close"}]
           /\ in_lua' \in BOOLEAN
           /\ \/ pc' = pc /\ in_lua' = in_lua
              \/ pc' = pc /\ in_lua' = TRUE /\ ~shutting_down
              \/ pc' = "badCallback" /\ in_lua' = in_lua
BY DEF TypeOK, Notify, Ignore, CallLua, Unheard

(* What any event begins with. *)
LEMMA EventType ==
    ASSUME NEW h \in Handles, Event(h)
    PROVE  /\ pc \in Polls \cup Runs \cup {"flushPoll"} /\ ~in_lua
           /\ handling' \subseteq Handles
BY DEF Event

-----------------------------------------------------------------------------
(* Types and control *)

LEMMA TypeControlInit == Init => TypeOK /\ ControlConsistent
BY NoHandles, EntryTypes
DEF Init, TypeOK, ControlConsistent, Phases, Locations, ShutdownLocations, Runs,
    Polls, Faults

(* The methods of the script. *)
LEMMA TypeControlScript ==
    ASSUME TypeOK, ControlConsistent, Script
    PROVE  TypeOK' /\ ControlConsistent'
<1> USE DEF TypeOK, ControlConsistent, ScriptRuns, libVars, luaVars
<1>1. ASSUME NEW h \in Handles, l_connect(h)
      PROVE  TypeOK' /\ ControlConsistent'
    <2>1. Entry(Scheme(h), FALSE) \in Entries
        BY EntryTypes
    <2>2. connections' \in [Handles -> Entries] /\ visit' \subseteq Handles
        BY <1>1, <2>1, StoreType DEF l_connect
    <2>3. hdls' \in Seq(Handles) /\ con' \in [Handles -> Phases]
        BY <1>1, AppendHandle DEF l_connect, Phases
    <2> QED BY <1>1, <2>2, <2>3 DEF l_connect
<1>2. ASSUME NEW i \in DOMAIN hdls, WebSocket_send_message(i)
      PROVE  TypeOK' /\ ControlConsistent'
    <2>1. hdls[i] \in Handles /\ Lookup(hdls[i]) \in Entries
        BY HeldHandle, LookupType
    <2>2. connections' \in [Handles -> Entries] /\ visit' \subseteq Handles
        BY <1>2, <2>1, StoreType DEF WebSocket_send_message
    <2>3. pc' = pc \/ pc' \in Faults
        BY <1>2, GetConRange DEF WebSocket_send_message
    <2>4. UNCHANGED <<libVars, close_queue, shutting_down, todo, moved, handling, luaVars>>
        BY <1>2 DEF WebSocket_send_message
    <2>5. pc' \in Faults => pc' \in Locations \ (ShutdownLocations \cup {"flushPoll"})
        BY DEF Locations, Faults, ShutdownLocations, Runs
    <2>6. {"shutQueueRun", "shutMapRun"} \subseteq ShutdownLocations
        BY DEF ShutdownLocations, Runs
    <2> QED BY <2>2, <2>3, <2>4, <2>5, <2>6
<1>3. ASSUME NEW i \in DOMAIN hdls, WebSocket_tostring(i)
      PROVE  TypeOK' /\ ControlConsistent'
    <2>1. hdls[i] \in Handles /\ Lookup(hdls[i]) \in Entries
        BY HeldHandle, LookupType
    <2>2. connections' \in [Handles -> Entries] /\ visit' \subseteq Handles
        BY <1>3, <2>1, StoreType DEF WebSocket_tostring
    <2> QED BY <1>3, <2>2 DEF WebSocket_tostring
<1>4. ASSUME NEW i \in DOMAIN hdls, WebSocket_close(i)
      PROVE  TypeOK' /\ ControlConsistent'
    <2>1. hdls[i] \in Handles /\ Lookup(hdls[i]) \in Entries
        BY HeldHandle, LookupType
    <2>2. [Lookup(hdls[i]) EXCEPT !.is_connected = FALSE] \in Entries
        BY <2>1 DEF Entries
    <2>3. connections' \in [Handles -> Entries] /\ visit' \subseteq Handles
        BY <1>4, <2>1, <2>2, StoreType DEF WebSocket_close
    <2>4. close_queue' \in Seq(Handles) /\ moved' \in BOOLEAN /\ closed' \subseteq Handles
        BY <1>4, <2>1, QueueCloseType DEF WebSocket_close
    <2> QED BY <1>4, <2>3, <2>4 DEF WebSocket_close
<1>5. ASSUME NEW i \in DOMAIN hdls, WebSocket_gc(i)
      PROVE  TypeOK' /\ ControlConsistent'
    <2>1. hdls[i] \in Handles
        BY HeldHandle
    <2>2. close_queue' \in Seq(Handles) /\ moved' \in BOOLEAN /\ closed' \subseteq Handles
        BY <1>5, <2>1, QueueCloseType DEF WebSocket_gc
    <2> QED BY <1>5, <2>2 DEF WebSocket_gc
<1>6. CASE toHandleFails
    BY <1>6 DEF toHandleFails, Locations, ShutdownLocations, Runs, Polls, Faults
<1> QED BY <1>1, <1>2, <1>3, <1>4, <1>5, <1>6 DEF Script

(* update. *)
LEMMA TypeControlUpdate ==
    ASSUME TypeOK, ControlConsistent, Update
    PROVE  TypeOK' /\ ControlConsistent'
<1> USE DEF TypeOK, ControlConsistent, libVars, luaVars, Locations,
        ShutdownLocations, Runs, Polls, Faults
<1>1. CASE UpdateBegin
    BY <1>1 DEF UpdateBegin
<1>2. CASE FlushClose
    <2>1. Head(todo) \in Handles
        BY <1>2, NonEmptyHandles DEF FlushClose
    <2>2. Lookup(Head(todo)) \in Entries
        BY <2>1, LookupType
    <2>3. con' \in [Handles -> Phases] /\ pc' \in {"flushPoll"} \cup Faults
        BY <1>2, <2>1, CloseType DEF FlushClose
    <2> QED BY <1>2, <2>2, <2>3 DEF FlushClose
<1>3. CASE FlushErase
    <2>1. todo # <<>> /\ Tail(todo) \in Seq(Handles)
        BY <1>3, NonEmptyHandles DEF FlushErase
    <2> QED BY <1>3, <2>1, EntryTypes DEF FlushErase
<1>4. CASE FlushEnd
    <2>1. pc' \in {"idle", "pollSecure"} /\ visit' \subseteq Handles
        BY <1>4, NextVisitType DEF FlushEnd, Keys
    <2> QED BY <1>4, <2>1, NoHandles DEF FlushEnd
<1>5. CASE PollReturns
    <2>1. visit' \subseteq Handles /\ pc' \in {"pollInsecure", "idle", "pollSecure"}
        BY <1>5, NextVisitType DEF PollReturns
    <2>2. stopped' \subseteq Clients
        BY <1>5 DEF PollReturns, Polled, Clients, Client
    <2> QED BY <1>5, <2>1, <2>2 DEF PollReturns
<1> QED BY <1>1, <1>2, <1>3, <1>4, <1>5 DEF Update

(***************************************************************************)
(* The events of a client that is served: one with a handler of the        *)
(* plugin, one without, and the return of a callback.                      *)
(***************************************************************************)
LEMMA TypeControlNotify ==
    ASSUME TypeOK, ControlConsistent, NEW h \in Handles, Event(h),
           NEW k \in {"connect", "message", "close"}, NEW entry \in Entries,
           Notify(h, k, entry), con' \in [Handles -> Phases]
    PROVE  TypeOK' /\ ControlConsistent'
<1> USE DEF TypeOK, ControlConsistent
<1>1. /\ connections' \in [Handles -> Entries]
      /\ told' \in [Handles -> {"nothing", "connect", "message", "close"}]
      /\ in_lua' \in BOOLEAN
    BY NotifyType
<1>2. UNCHANGED <<stopped, close_queue, shutting_down, todo, visit, moved, hdls,
                  closed>>
    BY DEF Notify
<1>3. /\ pc \in Polls \cup Runs \cup {"flushPoll"} /\ ~in_lua
      /\ handling' \subseteq Handles
    BY EventType
<1>4. \/ pc' = pc /\ in_lua' = in_lua
      \/ pc' = pc /\ in_lua' = TRUE /\ ~shutting_down
      \/ pc' = "badCallback" /\ in_lua' = in_lua
    BY NotifyType
<1>5. pc' \in Locations /\ ControlConsistent'
    <2>1. CASE pc' = pc /\ in_lua' = in_lua
        BY <1>2, <1>3, <2>1
    <2>2. CASE pc' = pc /\ in_lua' = TRUE /\ ~shutting_down
        BY <1>2, <1>3, <2>2 DEF ShutdownLocations
    <2>3. CASE pc' = "badCallback" /\ in_lua' = in_lua
        BY <1>2, <1>3, <2>3 DEF Locations, ShutdownLocations, Runs, Polls, Faults
    <2> QED BY <1>4, <2>1, <2>2, <2>3
<1> QED BY <1>1, <1>2, <1>3, <1>5

LEMMA TypeControlQuietly ==
    ASSUME TypeOK, ControlConsistent, NEW h \in Handles, NEW from,
           NEW to \in Phases, Quietly(h, from, to), stopped' \subseteq Clients
    PROVE  TypeOK' /\ ControlConsistent'
BY EventType DEF TypeOK, ControlConsistent, Quietly, luaVars

LEMMA TypeControlEvents ==
    ASSUME TypeOK, ControlConsistent, Events
    PROVE  TypeOK' /\ ControlConsistent'
<1>1. ASSUME NEW h \in Handles, on_open(h)
      PROVE  TypeOK' /\ ControlConsistent'
    <2>1. [connections[h] EXCEPT !.is_connected = TRUE] \in Entries
        BY DEF TypeOK, Entries
    <2>2. con' \in [Handles -> Phases]
        BY <1>1 DEF TypeOK, on_open, Phases
    <2> QED BY <1>1, <2>1, <2>2, TypeControlNotify DEF on_open
<1>2. ASSUME NEW h \in Handles, on_message(h)
      PROVE  TypeOK' /\ ControlConsistent'
    <2>1. connections[h] \in Entries /\ con' \in [Handles -> Phases]
        BY <1>2 DEF TypeOK, on_message
    <2> QED BY <1>2, <2>1, TypeControlNotify DEF on_message
<1>3. ASSUME NEW h \in Handles, on_close(h)
      PROVE  TypeOK' /\ ControlConsistent'
    <2>1. [connections[h] EXCEPT !.is_connected = FALSE] \in Entries
        BY DEF TypeOK, Entries
    <2>2. con' \in [Handles -> Phases]
        BY <1>3 DEF TypeOK, on_close, Phases
    <2> QED BY <1>3, <2>1, <2>2, TypeControlNotify DEF on_close
<1>4. ASSUME NEW h \in Handles, peer_close(h) \/ connect_failed(h)
      PROVE  TypeOK' /\ ControlConsistent'
    BY <1>4, TypeControlQuietly DEF TypeOK, peer_close, connect_failed, Phases
<1>5. ASSUME NEW h \in Handles, release(h)
      PROVE  TypeOK' /\ ControlConsistent'
    BY <1>5, TypeControlQuietly DEF TypeOK, release, Phases, Client, Clients
<1>6. ASSUME CallbackReturns
      PROVE  TypeOK' /\ ControlConsistent'
    BY <1>6 DEF TypeOK, ControlConsistent, CallbackReturns, libVars, loopVars
<1> QED BY <1>1, <1>2, <1>3, <1>4, <1>5, <1>6 DEF Events

(* shutdown. *)
LEMMA TypeControlShutdown ==
    ASSUME TypeOK, ControlConsistent, Shutdown
    PROVE  TypeOK' /\ ControlConsistent'
<1> USE DEF TypeOK, ControlConsistent, libVars, luaVars, Locations,
        ShutdownLocations, Runs, Polls, Faults
<1>0. RunReturns(Polled) => stopped' \subseteq Clients
    BY DEF RunReturns, Polled, Clients, Client
<1>1. CASE ShutdownBegin
    BY <1>1 DEF ShutdownBegin
<1>2. CASE ShutQueueClose
    <2>1. Head(todo) \in Handles
        BY <1>2, NonEmptyHandles DEF ShutQueueClose
    <2>2. Lookup(Head(todo)) \in Entries
        BY <2>1, LookupType
    <2>3. con' \in [Handles -> Phases] /\ pc' \in {"shutQueueRun"} \cup Faults
        BY <1>2, <2>1, CloseType DEF ShutQueueClose
    <2> QED BY <1>2, <2>2, <2>3 DEF ShutQueueClose
<1>3. CASE ShutQueueErase
    <2>1. Tail(todo) \in Seq(Handles)
        BY <1>3, NonEmptyHandles DEF ShutQueueErase
    <2> QED BY <1>0, <1>3, <2>1, EntryTypes DEF ShutQueueErase
<1>4. CASE ShutQueueEnd
    BY <1>4, NoHandles DEF ShutQueueEnd, Keys
<1>5. ASSUME NEW h \in Handles, ShutMapClose(h)
      PROVE  TypeOK' /\ ControlConsistent'
    <2>1. con' \in [Handles -> Phases] /\ pc' \in {"shutMapRun"} \cup Faults
        BY <1>5, CloseType DEF ShutMapClose
    <2> QED BY <1>5, <2>1, OneHandle DEF ShutMapClose
<1>6. CASE ShutMapRun
    BY <1>0, <1>6 DEF ShutMapRun
<1>7. CASE ShutMapEnd
    BY <1>7, NoHandles, EntryTypes DEF ShutMapEnd
<1>8. CASE ShutFinal
    BY <1>0, <1>8 DEF ShutFinal
<1> QED BY <1>1, <1>2, <1>3, <1>4, <1>5, <1>6, <1>7, <1>8 DEF Shutdown

LEMMA TypeControlStep ==
    TypeOK /\ ControlConsistent /\ [Next]_vars => TypeOK' /\ ControlConsistent'
<1> SUFFICES ASSUME TypeOK, ControlConsistent, [Next]_vars
             PROVE  TypeOK' /\ ControlConsistent'
    OBVIOUS
<1>1. CASE UNCHANGED vars
    BY <1>1 DEF TypeOK, ControlConsistent, vars, libVars, loopVars, luaVars
<1> QED
    BY <1>1, TypeControlScript, TypeControlUpdate, TypeControlEvents,
       TypeControlShutdown
    DEF Next, Ended

(***************************************************************************)
(* Every state of the plugin is of its type, and the engine's thread is    *)
(* where shutting_down, in_lua and the loops' variables say it is.         *)
(***************************************************************************)
THEOREM TypeCorrect == Spec => [](TypeOK /\ ControlConsistent)
BY TypeControlInit, TypeControlStep, PTL DEF Spec

-----------------------------------------------------------------------------
(***************************************************************************)
(* Entries.  Most steps concern one handle: its part of the invariant is   *)
(* proved for that handle and carried over for all others.                 *)
(***************************************************************************)
HandleConsistent(h) ==
    /\ Unborn(h) => ~Present(h) /\ told[h] = "nothing"
    /\ Registered(h) =>
        /\ connections[h].uri = Scheme(h)
        /\ con[h] = "connecting" => told[h] = "nothing"
        /\ con[h] \in {"open", "closing"} => told[h] \in {"connect", "message"}
    /\ connections[h].is_connected =>
        Registered(h) /\ con[h] \in {"open", "closing"}

ContainersConsistent == ContainersHoldBorn /\ QueuedByScript

LEMMA Pointwise ==
    EntriesConsistent <=>
        (GameRuns => ContainersConsistent /\ \A h \in Handles : HandleConsistent(h))
BY DEF EntriesConsistent, ContainersConsistent, HandleConsistent, UnbornUntouched,
       EntriesMatch, ToldInStep, ConnectedInStep

LEMMA PointwiseNext ==
    EntriesConsistent' <=>
        (GameRuns' => ContainersConsistent' /\ \A h \in Handles : HandleConsistent(h)')
BY DEF EntriesConsistent, ContainersConsistent, HandleConsistent, UnbornUntouched,
       EntriesMatch, ToldInStep, ConnectedInStep

(* A step that touches no handle. *)
LEMMA NoHandleTouched ==
    ASSUME \A h \in Handles : HandleConsistent(h),
           UNCHANGED <<con, connections, told>>
    PROVE  \A h \in Handles : HandleConsistent(h)'
BY DEF HandleConsistent, Unborn, Present, Registered

(* A step that touches one handle. *)
LEMMA OneHandleTouched ==
    ASSUME \A g \in Handles : HandleConsistent(g),
           NEW h \in Handles, HandleConsistent(h)',
           \A g \in Handles \ {h} :
               con'[g] = con[g] /\ connections'[g] = connections[g] /\ told'[g] = told[g]
    PROVE  \A g \in Handles : HandleConsistent(g)'
<1>1. ASSUME NEW g \in Handles, g # h
      PROVE  HandleConsistent(g)'
    <2>1. HandleConsistent(g)
        OBVIOUS
    <2> QED BY <1>1, <2>1 DEF HandleConsistent, Unborn, Present, Registered
<1> QED BY <1>1

(* A connection that was created stays so. *)
LEMMA ContainersKept ==
    ASSUME TypeOK, ContainersConsistent,
           UNCHANGED <<hdls, close_queue, todo>>, closed \subseteq closed',
           \A h \in Handles : con[h] # "none" => con'[h] # "none"
    PROVE  ContainersConsistent'
<1>1. /\ \A i \in DOMAIN hdls : hdls[i] \in Handles
      /\ \A i \in DOMAIN close_queue : close_queue[i] \in Handles
      /\ \A i \in DOMAIN todo : todo[i] \in Handles
    BY DEF TypeOK
<1> QED BY <1>1 DEF ContainersConsistent, ContainersHoldBorn, QueuedByScript, Unborn

(* connections[h] read, or its is_connected cleared, for a created handle. *)
LEMMA LookupConsistent ==
    ASSUME TypeOK, NEW h \in Handles, HandleConsistent(h), ~Unborn(h),
           NEW entry \in {Lookup(h), [Lookup(h) EXCEPT !.is_connected = FALSE]},
           connections' = [connections EXCEPT ![h] = entry],
           con' = con, told' = told
    PROVE  HandleConsistent(h)'
<1>1. Lookup(h) \in Entries
    BY LookupType
<1>2. entry.uri = Lookup(h).uri /\ (entry.is_connected => Lookup(h).is_connected)
    BY <1>1 DEF Entries
<1>3. connections'[h] = entry /\ connections[h] \in Entries
    BY DEF TypeOK
<1>4. CASE Present(h)
    <2>1. Lookup(h) = connections[h]
        BY <1>4 DEF Lookup
    <2> QED BY <1>2, <1>3, <2>1 DEF HandleConsistent, Unborn, Present, Registered
<1>5. CASE ~Present(h)
    <2>1. Lookup(h).uri = "blank" /\ Lookup(h).is_connected = FALSE
        BY <1>5 DEF Lookup, BlankEntry, Entry
    <2> QED BY <1>2, <1>3, <2>1 DEF HandleConsistent, Unborn, Present, Registered
<1> QED BY <1>4, <1>5

(* The whole step, for a method that stores an entry it has looked up. *)
LEMMA MethodConsistent ==
    ASSUME TypeOK, \A g \in Handles : HandleConsistent(g), ContainersConsistent,
           NEW h \in Handles, ~Unborn(h),
           NEW entry \in {Lookup(h), [Lookup(h) EXCEPT !.is_connected = FALSE]},
           Store(h, entry), con' = con, told' = told
    PROVE  \A g \in Handles : HandleConsistent(g)'
<1>1. connections' = [connections EXCEPT ![h] = entry]
    BY DEF Store
<1>2. HandleConsistent(h)'
    BY <1>1, LookupConsistent
<1>3. \A g \in Handles \ {h} : connections'[g] = connections[g]
    BY <1>1 DEF TypeOK
<1> QED BY <1>2, <1>3, OneHandleTouched

LEMMA QueueCloseConsistent ==
    ASSUME TypeOK, ContainersConsistent, NEW h \in Handles, ~Unborn(h), QueueClose(h),
           UNCHANGED <<con, hdls, todo>>
    PROVE  ContainersConsistent'
<1>1. /\ close_queue' = Append(close_queue, h)
      /\ closed' = closed \cup {h}
    BY DEF QueueClose
<1>2. \A i \in DOMAIN close_queue' :
        close_queue'[i] = h \/ (i \in DOMAIN close_queue /\ close_queue'[i] = close_queue[i])
    BY <1>1, AppendHandle DEF TypeOK
<1> QED
    BY <1>1, <1>2 DEF ContainersConsistent, ContainersHoldBorn, QueuedByScript, Unborn

LEMMA ConsistentInit == Init => EntriesConsistent
BY NoHandles
DEF Init, EntriesConsistent, UnbornUntouched, ContainersHoldBorn, QueuedByScript,
    EntriesMatch, ToldInStep, ConnectedInStep, Unborn, Present, Registered, NoEntry,
    Entry

(* The methods of the script. *)
LEMMA ConsistentScript ==
    ASSUME TypeOK, ContainersConsistent, \A g \in Handles : HandleConsistent(g), Script
    PROVE  ContainersConsistent' /\ \A g \in Handles : HandleConsistent(g)'
<1> USE DEF libVars, luaVars
<1>1. ASSUME NEW h \in Handles, l_connect(h)
      PROVE  ContainersConsistent' /\ \A g \in Handles : HandleConsistent(g)'
    <2>1. /\ con[h] = "none" /\ con' = [con EXCEPT ![h] = "connecting"]
          /\ connections' = [connections EXCEPT ![h] = Entry(Scheme(h), FALSE)]
          /\ hdls' = Append(hdls, h)
          /\ UNCHANGED <<close_queue, todo, told, closed>>
        BY <1>1 DEF l_connect, Store
    <2>2. HandleConsistent(h)'
        <3>1. told[h] = "nothing"
            BY <2>1 DEF HandleConsistent, Unborn
        <3>2. connections'[h] = Entry(Scheme(h), FALSE) /\ con'[h] = "connecting"
            BY <2>1 DEF TypeOK
        <3> QED BY <2>1, <3>1, <3>2
                DEF HandleConsistent, Unborn, Present, Registered, Entry, Scheme
    <2>3. \A g \in Handles : HandleConsistent(g)'
        BY <2>1, <2>2, OneHandleTouched DEF TypeOK
    <2>4. \A g \in Handles : con[g] # "none" => con'[g] # "none"
        BY <2>1 DEF TypeOK
    <2>5. ContainersConsistent'
        <3>1. \A i \in DOMAIN hdls' :
                hdls'[i] = h \/ (i \in DOMAIN hdls /\ hdls'[i] = hdls[i])
            BY <2>1, AppendHandle DEF TypeOK
        <3>2. con'[h] = "connecting"
            BY <2>1 DEF TypeOK
        <3>3. /\ \A i \in DOMAIN hdls : hdls[i] \in Handles
              /\ \A i \in DOMAIN close_queue : close_queue[i] \in Handles
              /\ \A i \in DOMAIN todo : todo[i] \in Handles
            BY DEF TypeOK
        <3> QED BY <2>1, <2>4, <3>1, <3>2, <3>3
                DEF ContainersConsistent, ContainersHoldBorn, QueuedByScript, Unborn
    <2> QED BY <2>3, <2>5
<1>2. ASSUME NEW i \in DOMAIN hdls
      PROVE  hdls[i] \in Handles /\ ~Unborn(hdls[i])
    BY HeldHandle DEF ContainersConsistent, ContainersHoldBorn
<1>3. ASSUME NEW i \in DOMAIN hdls,
             WebSocket_send_message(i) \/ WebSocket_tostring(i)
      PROVE  ContainersConsistent' /\ \A g \in Handles : HandleConsistent(g)'
    <2>1. Store(hdls[i], Lookup(hdls[i])) /\ con' = con /\ told' = told
        BY <1>3 DEF WebSocket_send_message, WebSocket_tostring
    <2>2. UNCHANGED <<hdls, close_queue, todo, closed>>
        BY <1>3 DEF WebSocket_send_message, WebSocket_tostring
    <2> QED BY <1>2, <2>1, <2>2, MethodConsistent, ContainersKept
<1>4. ASSUME NEW i \in DOMAIN hdls, WebSocket_close(i)
      PROVE  ContainersConsistent' /\ \A g \in Handles : HandleConsistent(g)'
    <2>1. /\ Store(hdls[i], [Lookup(hdls[i]) EXCEPT !.is_connected = FALSE])
          /\ QueueClose(hdls[i])
          /\ UNCHANGED <<con, told, hdls, todo>>
        BY <1>4 DEF WebSocket_close
    <2> QED BY <1>2, <2>1, MethodConsistent, QueueCloseConsistent
<1>5. ASSUME NEW i \in DOMAIN hdls, WebSocket_gc(i)
      PROVE  ContainersConsistent' /\ \A g \in Handles : HandleConsistent(g)'
    <2>1. \/ QueueClose(hdls[i])
          \/ UNCHANGED <<close_queue, closed>>
        BY <1>5 DEF WebSocket_gc
    <2>2. UNCHANGED <<con, connections, told, hdls, todo>>
        BY <1>5 DEF WebSocket_gc
    <2> QED BY <1>2, <2>1, <2>2, NoHandleTouched, QueueCloseConsistent, ContainersKept
<1>6. CASE toHandleFails
    BY <1>6, NoHandleTouched, ContainersKept DEF toHandleFails
<1> QED BY <1>1, <1>3, <1>4, <1>5, <1>6 DEF Script

(* update, as far as it stays clear of faults. *)
LEMMA ConsistentUpdate ==
    ASSUME TypeOK, ControlConsistent, ContainersConsistent,
           \A g \in Handles : HandleConsistent(g), Update, pc' \notin Faults
    PROVE  ContainersConsistent' /\ \A g \in Handles : HandleConsistent(g)'
<1> USE DEF libVars, luaVars
<1>1. CASE UpdateBegin
    <2>1. UNCHANGED <<con, connections, told, hdls, close_queue, closed>> /\ todo' = close_queue
        BY <1>1 DEF UpdateBegin
    <2> QED BY <2>1, NoHandleTouched
            DEF ContainersConsistent, ContainersHoldBorn, QueuedByScript, Unborn
<1>2. CASE FlushClose
    <2>1. PICK h \in Handles : h = Head(todo)
        BY <1>2, NonEmptyHandles DEF FlushClose, TypeOK
    <2>2. ~Unborn(h)
        BY <1>2, <2>1, NonEmptyHandles
        DEF FlushClose, TypeOK, ContainersConsistent, ContainersHoldBorn
    <2>3. /\ connections' = [connections EXCEPT ![h] = Lookup(h)]
          /\ con' = [con EXCEPT ![h] = IF @ = "open" THEN "closing" ELSE @]
          /\ UNCHANGED <<told, hdls, close_queue, todo, closed>>
        BY <1>2, <2>1, GetConRange DEF FlushClose, Close
    <2>4. HandleConsistent(h)'
        <3>1. /\ connections'[h] = Lookup(h)
              /\ con'[h] = IF con[h] = "open" THEN "closing" ELSE con[h]
            BY <2>3 DEF TypeOK
        <3> QED BY <2>2, <2>3, <3>1
                DEF HandleConsistent, Lookup, BlankEntry, Entry, Unborn, Present, Registered
    <2>5. \A g \in Handles : HandleConsistent(g)'
        BY <2>3, <2>4, OneHandleTouched DEF TypeOK
    <2>6. \A g \in Handles : con[g] # "none" => con'[g] # "none"
        BY <2>3 DEF TypeOK
    <2> QED BY <2>3, <2>5, <2>6, ContainersKept
<1>3. CASE FlushErase
    <2>1. todo # <<>>
        BY <1>3 DEF FlushErase, ControlConsistent
    <2>2. PICK h \in Handles : h = Head(todo)
        BY <2>1, NonEmptyHandles DEF TypeOK
    <2>3. /\ connections' = [connections EXCEPT ![h] = NoEntry]
          /\ todo' = Tail(todo)
          /\ UNCHANGED <<con, told, hdls, close_queue, closed>>
        BY <1>3, <2>2 DEF FlushErase, Faults
    <2>4. HandleConsistent(h)'
        <3>1. connections'[h] = NoEntry
            BY <2>3 DEF TypeOK
        <3> QED BY <2>3, <3>1
                DEF HandleConsistent, NoEntry, Entry, Unborn, Present, Registered
    <2>5. \A g \in Handles : HandleConsistent(g)'
        BY <2>3, <2>4, OneHandleTouched DEF TypeOK
    <2>6. \A i \in DOMAIN todo' : i + 1 \in DOMAIN todo /\ todo'[i] = todo[i + 1]
        BY <2>1, <2>3, NonEmptyHandles DEF TypeOK
    <2> QED BY <2>3, <2>5, <2>6
            DEF ContainersConsistent, ContainersHoldBorn, QueuedByScript, Unborn
<1>4. CASE FlushEnd
    <2>1. /\ UNCHANGED <<con, connections, told, hdls, todo, closed>>
          /\ close_queue' = <<>>
        BY <1>4 DEF FlushEnd
    <2> QED BY <2>1, NoHandles, NoHandleTouched
            DEF ContainersConsistent, ContainersHoldBorn, QueuedByScript, Unborn
<1>5. CASE PollReturns
    <2>1. UNCHANGED <<con, connections, told, hdls, close_queue, todo, closed>>
        BY <1>5 DEF PollReturns
    <2> QED BY <2>1, NoHandleTouched, ContainersKept
<1> QED BY <1>1, <1>2, <1>3, <1>4, <1>5 DEF Update

(* A handler finds no entry and does nothing, or a registered one. *)
LEMMA NotifyEffect ==
    ASSUME NEW h \in Handles, NEW k, NEW entry, Notify(h, k, entry),
           ~shutting_down, pc' \notin Faults
    PROVE  /\ UNCHANGED <<hdls, close_queue, todo, closed>>
           /\ \/ ~Present(h) /\ UNCHANGED <<connections, told>>
              \/ /\ Registered(h)
                 /\ connections' = [connections EXCEPT ![h] = entry]
                 /\ told' = [told EXCEPT ![h] = k]
BY DEF Notify, Ignore, CallLua, Unheard, Faults

(* An event of the library, while the game runs. *)
LEMMA ConsistentEvents ==
    ASSUME TypeOK, ContainersConsistent, \A g \in Handles : HandleConsistent(g),
           Events, ~shutting_down, pc' \notin Faults
    PROVE  ContainersConsistent' /\ \A g \in Handles : HandleConsistent(g)'
<1> USE DEF libVars, luaVars
<1>1. ASSUME NEW h \in Handles, on_open(h)
      PROVE  ContainersConsistent' /\ \A g \in Handles : HandleConsistent(g)'
    <2>1. con[h] = "connecting" /\ con' = [con EXCEPT ![h] = "open"]
        BY <1>1 DEF on_open
    <2>2. /\ UNCHANGED <<hdls, close_queue, todo, closed>>
          /\ \/ ~Present(h) /\ UNCHANGED <<connections, told>>
             \/ /\ Registered(h)
                /\ connections' = [connections EXCEPT ![h].is_connected = TRUE]
                /\ told' = [told EXCEPT ![h] = "connect"]
        BY <1>1, NotifyEffect DEF on_open
    <2>3. con'[h] = "open" /\ \A g \in Handles : con[g] # "none" => con'[g] # "none"
        BY <2>1 DEF TypeOK
    <2>4. HandleConsistent(h)'
        BY <2>1, <2>2, <2>3
        DEF TypeOK, Entries, HandleConsistent, Unborn, Present, Registered
    <2>5. \A g \in Handles : HandleConsistent(g)'
        BY <2>1, <2>2, <2>4, OneHandleTouched DEF TypeOK
    <2> QED BY <2>2, <2>3, <2>5, ContainersKept
<1>2. ASSUME NEW h \in Handles, on_message(h)
      PROVE  ContainersConsistent' /\ \A g \in Handles : HandleConsistent(g)'
    <2>1. con[h] = "open" /\ con' = con
        BY <1>2 DEF on_message
    <2>2. /\ UNCHANGED <<hdls, close_queue, todo, closed>>
          /\ \/ ~Present(h) /\ UNCHANGED <<connections, told>>
             \/ /\ Registered(h)
                /\ connections' = [connections EXCEPT ![h] = connections[h]]
                /\ told' = [told EXCEPT ![h] = "message"]
        BY <1>2, NotifyEffect DEF on_message
    <2>3. HandleConsistent(h)'
        BY <2>1, <2>2 DEF TypeOK, HandleConsistent, Unborn, Present, Registered
    <2>4. \A g \in Handles : HandleConsistent(g)'
        BY <2>1, <2>2, <2>3, OneHandleTouched DEF TypeOK
    <2> QED BY <2>1, <2>2, <2>4, ContainersKept
<1>3. ASSUME NEW h \in Handles, on_close(h)
      PROVE  ContainersConsistent' /\ \A g \in Handles : HandleConsistent(g)'
    <2>1. con[h] \in {"open", "closing"} /\ con' = [con EXCEPT ![h] = "terminated"]
        BY <1>3 DEF on_close
    <2>2. /\ UNCHANGED <<hdls, close_queue, todo, closed>>
          /\ \/ ~Present(h) /\ UNCHANGED <<connections, told>>
             \/ /\ Registered(h)
                /\ connections' = [connections EXCEPT ![h].is_connected = FALSE]
                /\ told' = [told EXCEPT ![h] = "close"]
        BY <1>3, NotifyEffect DEF on_close
    <2>3. con'[h] = "terminated" /\ \A g \in Handles : con[g] # "none" => con'[g] # "none"
        BY <2>1 DEF TypeOK
    <2>4. HandleConsistent(h)'
        BY <2>1, <2>2, <2>3
        DEF TypeOK, Entries, HandleConsistent, Unborn, Present, Registered
    <2>5. \A g \in Handles : HandleConsistent(g)'
        BY <2>1, <2>2, <2>4, OneHandleTouched DEF TypeOK
    <2> QED BY <2>2, <2>3, <2>5, ContainersKept
<1>4. ASSUME NEW h \in Handles, peer_close(h) \/ connect_failed(h) \/ release(h)
      PROVE  ContainersConsistent' /\ \A g \in Handles : HandleConsistent(g)'
    <2>1. PICK from \in Phases, to \in Phases :
            /\ Quietly(h, from, to)
            /\ <<from, to>> \in {<<"open", "closing">>, <<"connecting", "terminated">>,
                                <<"terminated", "gone">>}
        BY <1>4 DEF peer_close, connect_failed, release, Phases
    <2>2. /\ con[h] = from /\ con' = [con EXCEPT ![h] = to]
          /\ UNCHANGED <<connections, told, hdls, close_queue, todo, closed>>
        BY <2>1 DEF Quietly
    <2>3. con'[h] = to /\ \A g \in Handles : con[g] # "none" => con'[g] # "none"
        BY <2>1, <2>2 DEF TypeOK
    <2>4. HandleConsistent(h)'
        BY <2>1, <2>2, <2>3 DEF HandleConsistent, Unborn, Present, Registered
    <2>5. \A g \in Handles : HandleConsistent(g)'
        BY <2>2, <2>4, OneHandleTouched DEF TypeOK
    <2> QED BY <2>2, <2>3, <2>5, ContainersKept
<1>5. CASE CallbackReturns
    <2>1. UNCHANGED <<con, connections, told, hdls, close_queue, todo, closed>>
        BY <1>5 DEF CallbackReturns, loopVars
    <2> QED BY <2>1, NoHandleTouched, ContainersKept
<1> QED BY <1>1, <1>2, <1>3, <1>4, <1>5 DEF Events

(***************************************************************************)
(* A fault is final, and so is shutdown: where the game runs after a step, *)
(* it ran before it.                                                       *)
(***************************************************************************)
LEMMA GameRanBefore ==
    ASSUME ControlConsistent, [Next]_vars, GameRuns'
    PROVE  GameRuns /\ (Script \/ Update \/ Events \/ UNCHANGED vars)
<1> USE DEF GameRuns, Faults, Polls, Runs
<1>1. CASE Script
    <2>1. ScriptRuns /\ shutting_down' = shutting_down
        BY <1>1
        DEF Script, l_connect, WebSocket_send_message, WebSocket_tostring,
            WebSocket_close, WebSocket_gc, toHandleFails
    <2> QED BY <1>1, <2>1 DEF ScriptRuns
<1>2. CASE Update
    BY <1>2 DEF Update, UpdateBegin, FlushClose, FlushErase, FlushEnd, PollReturns
<1>3. CASE Events
    <2>1. CallbackReturns \/ \E h \in Handles : Event(h)
        BY <1>3
        DEF Events, on_open, on_message, on_close, peer_close, connect_failed, release,
            Quietly
    <2>2. shutting_down' = shutting_down
        BY <1>3
        DEF Events, on_open, on_message, on_close, peer_close, connect_failed, release,
            Notify, Quietly, CallbackReturns
    <2> QED BY <1>3, <2>1, <2>2 DEF Event, CallbackReturns, loopVars
<1>4. ASSUME Shutdown
      PROVE  FALSE
    BY <1>4
    DEF Shutdown, ControlConsistent, ShutdownLocations, ShutdownBegin, ShutQueueClose,
        ShutQueueErase, ShutQueueEnd, ShutMapClose, ShutMapRun, ShutMapEnd, ShutFinal
<1>5. CASE UNCHANGED vars
    BY <1>5 DEF vars, loopVars
<1> QED BY <1>1, <1>2, <1>3, <1>4, <1>5 DEF Next, Ended

LEMMA ConsistentStep ==
    ASSUME TypeOK, ControlConsistent, EntriesConsistent, [Next]_vars
    PROVE  EntriesConsistent'
<1> SUFFICES ASSUME GameRuns'
             PROVE  ContainersConsistent' /\ \A h \in Handles : HandleConsistent(h)'
    BY PointwiseNext
<1>1. GameRuns /\ (Script \/ Update \/ Events \/ UNCHANGED vars)
    BY GameRanBefore
<1>2. ContainersConsistent /\ \A h \in Handles : HandleConsistent(h)
    BY <1>1, Pointwise
<1>3. ~shutting_down /\ pc' \notin Faults
    BY <1>1 DEF GameRuns
<1>4. CASE UNCHANGED vars
    BY <1>2, <1>4, NoHandleTouched, ContainersKept DEF vars, libVars, luaVars, loopVars
<1> QED
    BY <1>1, <1>2, <1>3, <1>4, ConsistentScript, ConsistentUpdate, ConsistentEvents

(***************************************************************************)
(* While the game runs, the map, the queue and the library agree: what is  *)
(* connected is registered, under the client that owns it, and open or     *)
(* closing; what was told follows the connection's phase.                  *)
(***************************************************************************)
THEOREM Consistent == Spec => []IInv
<1>1. Init => IInv
    BY TypeControlInit, ConsistentInit DEF IInv
<1>2. IInv /\ [Next]_vars => IInv'
    BY TypeControlStep, ConsistentStep DEF IInv
<1> QED BY <1>1, <1>2, PTL DEF Spec

LEMMA IInvConnectedIsUsable == IInv => ConnectedIsUsable
BY DEF IInv, TypeOK, EntriesConsistent, EntriesMatch, ConnectedInStep, ConnectedIsUsable,
       GetCon, ClientFor, Scheme, Client, Registered

(***************************************************************************)
(* send never throws: whenever is_connected is set, the connection exists  *)
(* and belongs to the client that its address names.                       *)
(***************************************************************************)
THEOREM ConnectedUsable == Spec => []ConnectedIsUsable
BY Consistent, IInvConnectedIsUsable, PTL

LEMMA MethodStep ==
    IInv /\ [Next]_vars => [ScriptRuns /\ pc' \in Faults => pc' = "noSocket"]_vars
<1> SUFFICES ASSUME IInv, Next, ScriptRuns
             PROVE  pc' \notin Faults \ {"noSocket"}
    OBVIOUS
<1>1. pc \notin Faults /\ pc \in Polls \cup {"flushPoll", "idle"} /\ GameRuns
    BY DEF IInv, ControlConsistent, ScriptRuns, GameRuns, ShutdownLocations, Runs, Polls,
           Faults
<1>2. ASSUME NEW i \in DOMAIN hdls, WebSocket_send_message(i)
      PROVE  pc' = pc
    <2>1. hdls[i] \in Handles
        BY HeldHandle DEF IInv
    <2>2. Lookup(hdls[i]).is_connected => GetCon(hdls[i], Lookup(hdls[i]).uri) = "found"
        BY <1>1, <2>1, IInvConnectedIsUsable
        DEF ConnectedIsUsable, Lookup, BlankEntry, Entry
    <2> QED BY <1>2, <2>2 DEF WebSocket_send_message
<1>3. CASE Script
    BY <1>1, <1>2, <1>3
    DEF Script, l_connect, WebSocket_tostring, WebSocket_close, WebSocket_gc,
        toHandleFails
<1>4. CASE in_lua /\ CallbackReturns
    BY <1>1, <1>4 DEF CallbackReturns, loopVars
<1>5. CASE UpdateBegin \/ ShutdownBegin
    BY <1>5 DEF UpdateBegin, ShutdownBegin, Faults
<1>6. CASE Update /\ ~UpdateBegin
    BY <1>1, <1>6
    DEF Update, ScriptRuns, FlushClose, FlushErase, FlushEnd, PollReturns, Polls
<1>7. CASE Events /\ ~CallbackReturns
    <2>1. \E h \in Handles : Event(h)
        BY <1>7
        DEF Events, on_open, on_message, on_close, peer_close, connect_failed, release,
            Quietly
    <2> QED BY <2>1 DEF ScriptRuns, Event, Polls, Runs
<1>8. CASE Shutdown /\ ~ShutdownBegin
    BY <1>1, <1>8
    DEF Shutdown, ShutQueueClose, ShutQueueErase, ShutQueueEnd, ShutMapClose, ShutMapRun,
        ShutMapEnd, ShutFinal, Polls
<1>9. CASE Ended
    BY <1>1, <1>9 DEF Ended, vars, loopVars
<1>10. in_lua \/ ~CallbackReturns
    BY DEF CallbackReturns
<1> QED BY <1>3, <1>4, <1>5, <1>6, <1>7, <1>8, <1>9, <1>10 DEF Next

(***************************************************************************)
(* No method called on a socket ends in a fault, in any state: a call that *)
(* does was made on no socket.                                             *)
(***************************************************************************)
THEOREM MethodsSafe == Spec => SocketMethodsNeverFault
BY Consistent, MethodStep, PTL DEF Spec, SocketMethodsNeverFault

=============================================================================
