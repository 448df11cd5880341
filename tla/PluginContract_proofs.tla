------------------------- MODULE PluginContract_proofs -------------------------
(***************************************************************************)
(* Plugin implements LuaSocket: each step of the plugin is a step of the   *)
(* contract, or leaves what the contract speaks of as it is.  The live     *)
(* sockets are the registered handles, and the contract is on until        *)
(* shutdown.                                                               *)
(***************************************************************************)
EXTENDS Plugin_proofs

Live == {h \in Handles : Registered(h)}

LEMMA ContractInit == Init => Contract!Init
BY DEF Init, Contract!Init, Registered, NoEntry, Entry

(* Reading an entry, or clearing its is_connected, registers nothing. *)
LEMMA LookupKeepsLive ==
    ASSUME TypeOK, NEW h \in Handles,
           NEW entry \in {Lookup(h), [Lookup(h) EXCEPT !.is_connected = FALSE]},
           connections' = [connections EXCEPT ![h] = entry]
    PROVE  Live' = Live
<1>1. entry.uri = Lookup(h).uri
    BY LookupType DEF Entries
<1>2. entry.uri \in {"ws", "wss"} <=> Registered(h)
    BY <1>1 DEF Lookup, BlankEntry, Entry, Present, Registered
<1> QED BY <1>2 DEF Live, Registered, TypeOK

(* An erased entry is forgotten by the contract, if it was live. *)
LEMMA EraseRetires ==
    ASSUME TypeOK, NEW h \in Handles, ~shutting_down => h \in closed,
           connections' = [connections EXCEPT ![h] = NoEntry],
           UNCHANGED <<told, closed, shutting_down>>
    PROVE  \E S \in SUBSET Handles : Contract!Retire(S)
<1> DEFINE S == Live \cap {h}
<1>1. Live' = Live \ S
    BY DEF Live, Registered, NoEntry, Entry, TypeOK
<1>2. S \in SUBSET Handles
    BY DEF Live
<1>3. Contract!Retire(S)
    BY <1>1 DEF Contract!Retire, Live
<1> QED BY <1>2, <1>3

(* The contract holds no view of the rest. *)
LEMMA UntouchedStutters ==
    ASSUME UNCHANGED <<connections, told, closed, shutting_down>>
    PROVE  UNCHANGED Contract!vars
BY DEF Contract!vars, Registered

(* A script runs only before shutdown. *)
LEMMA ScriptBeforeShutdown ==
    ASSUME ControlConsistent, ScriptRuns
    PROVE  ~shutting_down
BY DEF ControlConsistent, ScriptRuns, ShutdownLocations, Runs, Polls, Faults

LEMMA ScriptImplements ==
    ASSUME IInv, Script
    PROVE  Contract!Next \/ UNCHANGED Contract!vars
<1> USE DEF luaVars, libVars
<1>1. TypeOK /\ ControlConsistent /\ ScriptRuns
    BY DEF IInv, Script, l_connect, WebSocket_send_message, WebSocket_tostring,
           WebSocket_close, WebSocket_gc, toHandleFails
<1>2. ~shutting_down /\ pc \notin Faults
    BY <1>1, ScriptBeforeShutdown DEF ScriptRuns, Faults
<1>3. ASSUME NEW h \in Handles, l_connect(h)
      PROVE  Contract!Next
    <2>1. /\ con[h] = "none"
          /\ connections' = [connections EXCEPT ![h] = Entry(Scheme(h), FALSE)]
          /\ UNCHANGED <<told, closed, shutting_down>>
        BY <1>3 DEF l_connect, Store
    <2>2. ~Registered(h) /\ told[h] = "nothing"
        BY <1>2, <2>1
        DEF IInv, EntriesConsistent, GameRuns, UnbornUntouched, Unborn, Present, Registered
    <2>3. Live' = Live \cup {h}
        BY <1>1, <2>1 DEF Live, Registered, Entry, Scheme, TypeOK
    <2>4. Contract!Create(h)
        BY <1>2, <2>1, <2>2, <2>3 DEF Contract!Create, Live
    <2> QED BY <2>4 DEF Contract!Next
<1>4. ASSUME NEW i \in DOMAIN hdls,
             WebSocket_send_message(i) \/ WebSocket_tostring(i)
      PROVE  UNCHANGED Contract!vars
    <2>1. /\ connections' = [connections EXCEPT ![hdls[i]] = Lookup(hdls[i])]
          /\ UNCHANGED <<told, closed, shutting_down>>
        BY <1>4 DEF WebSocket_send_message, WebSocket_tostring, Store
    <2>2. Live' = Live
        BY <1>1, <2>1, HeldHandle, LookupKeepsLive
    <2> QED BY <2>1, <2>2 DEF Contract!vars, Live
<1>5. ASSUME NEW i \in DOMAIN hdls, WebSocket_close(i)
      PROVE  Contract!Next
    <2>1. PICK h \in Handles : h = hdls[i]
        BY <1>1, HeldHandle
    <2>2. /\ connections' = [connections EXCEPT
                ![h] = [Lookup(h) EXCEPT !.is_connected = FALSE]]
          /\ closed' = closed \cup {h}
          /\ UNCHANGED <<told, shutting_down>>
        BY <1>5, <2>1 DEF WebSocket_close, Store, QueueClose
    <2>3. Live' = Live
        BY <1>1, <2>2, LookupKeepsLive
    <2>4. Contract!Close(h)
        BY <1>2, <2>2, <2>3 DEF Contract!Close, Live
    <2> QED BY <2>4 DEF Contract!Next
<1>6. ASSUME NEW i \in DOMAIN hdls, WebSocket_gc(i)
      PROVE  Contract!Next \/ UNCHANGED Contract!vars
    <2>1. PICK h \in Handles : h = hdls[i]
        BY <1>1, HeldHandle
    <2>2. UNCHANGED <<connections, told, shutting_down>>
        BY <1>6 DEF WebSocket_gc
    <2>3. closed' = closed \cup {h} \/ closed' = closed
        BY <1>6, <2>1 DEF WebSocket_gc, QueueClose
    <2>4. CASE closed' = closed \cup {h}
        BY <1>2, <2>2, <2>4 DEF Contract!Close, Contract!Next, Registered
    <2>5. CASE closed' = closed
        BY <2>2, <2>5, UntouchedStutters
    <2> QED BY <2>3, <2>4, <2>5
<1>7. CASE toHandleFails
    BY <1>7, UntouchedStutters DEF toHandleFails
<1> QED BY <1>3, <1>4, <1>5, <1>6, <1>7 DEF Script

LEMMA UpdateImplements ==
    ASSUME IInv, Update
    PROVE  Contract!Next \/ UNCHANGED Contract!vars
<1> USE DEF luaVars, libVars
<1>1. CASE UpdateBegin \/ FlushEnd \/ PollReturns
    BY <1>1, UntouchedStutters DEF UpdateBegin, FlushEnd, PollReturns
<1>2. CASE FlushClose
    <2>1. PICK h \in Handles : h = Head(todo)
        BY <1>2, NonEmptyHandles DEF FlushClose, IInv, TypeOK
    <2>2. /\ connections' = [connections EXCEPT ![h] = Lookup(h)]
          /\ UNCHANGED <<told, closed, shutting_down>>
        BY <1>2, <2>1 DEF FlushClose
    <2>3. Live' = Live
        BY <2>2, LookupKeepsLive DEF IInv
    <2> QED BY <2>2, <2>3 DEF Contract!vars, Live
<1>3. CASE FlushErase
    <2>1. todo # <<>> /\ GameRuns
        BY <1>3 DEF FlushErase, IInv, ControlConsistent, GameRuns, ShutdownLocations, Runs,
                    Faults
    <2>2. PICK h \in Handles : h = Head(todo)
        BY <2>1, NonEmptyHandles DEF IInv, TypeOK
    <2>3. h \in closed
        BY <2>1, <2>2, NonEmptyHandles
        DEF IInv, TypeOK, EntriesConsistent, QueuedByScript
    <2>4. UNCHANGED <<told, closed, shutting_down>>
        BY <1>3 DEF FlushErase
    <2>5. CASE connections' = [connections EXCEPT ![h] = NoEntry]
        BY <2>3, <2>4, <2>5, EraseRetires DEF IInv, Contract!Next
    <2>6. CASE connections' = connections
        BY <2>4, <2>6, UntouchedStutters
    <2> QED BY <1>3, <2>2, <2>5, <2>6 DEF FlushErase
<1> QED BY <1>1, <1>2, <1>3 DEF Update

(* A callback that runs is one the contract lets run now. *)
LEMMA NotifyImplements ==
    ASSUME TypeOK, NEW h \in Handles, NEW k \in Contract!Callbacks, NEW entry,
           entry.uri = connections[h].uri, Notify(h, k, entry),
           GameRuns /\ Registered(h) => Contract!MayFollow(told[h], k)
    PROVE  Contract!Next \/ UNCHANGED Contract!vars \/ pc \in Faults
<1>1. UNCHANGED <<closed, shutting_down>>
    BY DEF Notify
<1>2. CASE Ignore(h)
    BY <1>1, <1>2, UntouchedStutters DEF Ignore
<1>3. CASE CallLua(h, k, entry)
    <2>1. ~shutting_down /\ connections' = [connections EXCEPT ![h] = entry]
        BY <1>3 DEF CallLua, Unheard
    <2>2. Live' = Live
        BY <2>1 DEF Live, Registered, TypeOK
    <2>3. CASE Registered(h) /\ pc \notin Faults
        <3>1. told' = [told EXCEPT ![h] = k]
            BY <1>3, <2>3 DEF CallLua
        <3>2. Contract!MayFollow(told[h], k)
            BY <2>1, <2>3 DEF GameRuns
        <3>3. Contract!Tell(h, k)
            BY <1>1, <2>1, <2>2, <2>3, <3>1, <3>2 DEF Contract!Tell, Live
        <3> QED BY <3>3 DEF Contract!Next
    <2>4. CASE ~Registered(h)
        BY <1>1, <1>3, <2>2, <2>4 DEF CallLua, Contract!vars, Live
    <2> QED BY <2>3, <2>4
<1> QED BY <1>2, <1>3 DEF Notify

LEMMA EventsImplement ==
    ASSUME IInv, Events
    PROVE  Contract!Next \/ UNCHANGED Contract!vars
<1> USE DEF luaVars, libVars
<1>1. ASSUME NEW h \in Handles, on_open(h)
      PROVE  Contract!Next \/ UNCHANGED Contract!vars
    <2>1. pc \notin Faults /\ con[h] = "connecting"
        BY <1>1 DEF on_open, Event, Polls, Runs, Faults
    <2>2. [connections[h] EXCEPT !.is_connected = TRUE].uri = connections[h].uri
        BY DEF IInv, TypeOK, Entries
    <2>3. GameRuns /\ Registered(h) => Contract!MayFollow(told[h], "connect")
        BY <2>1 DEF IInv, EntriesConsistent, ToldInStep, Contract!MayFollow
    <2> QED BY <1>1, <2>1, <2>2, <2>3, NotifyImplements
            DEF on_open, IInv, Contract!Callbacks
<1>2. ASSUME NEW h \in Handles, on_message(h)
      PROVE  Contract!Next \/ UNCHANGED Contract!vars
    <2>1. pc \notin Faults /\ con[h] = "open"
        BY <1>2 DEF on_message, Event, Polls, Runs, Faults
    <2>2. GameRuns /\ Registered(h) => Contract!MayFollow(told[h], "message")
        BY <2>1 DEF IInv, EntriesConsistent, ToldInStep, Contract!MayFollow
    <2> QED BY <1>2, <2>1, <2>2, NotifyImplements DEF on_message, IInv, Contract!Callbacks
<1>3. ASSUME NEW h \in Handles, on_close(h)
      PROVE  Contract!Next \/ UNCHANGED Contract!vars
    <2>1. pc \notin Faults /\ con[h] \in {"open", "closing"}
        BY <1>3 DEF on_close, Event, Polls, Runs, Faults
    <2>2. [connections[h] EXCEPT !.is_connected = FALSE].uri = connections[h].uri
        BY DEF IInv, TypeOK, Entries
    <2>3. GameRuns /\ Registered(h) => Contract!MayFollow(told[h], "close")
        BY <2>1 DEF IInv, EntriesConsistent, ToldInStep, Contract!MayFollow
    <2> QED BY <1>3, <2>1, <2>2, <2>3, NotifyImplements
            DEF on_close, IInv, Contract!Callbacks
<1>4. ASSUME NEW h \in Handles, peer_close(h) \/ connect_failed(h) \/ release(h)
      PROVE  UNCHANGED Contract!vars
    BY <1>4, UntouchedStutters DEF peer_close, connect_failed, release, Quietly
<1>5. CASE CallbackReturns
    BY <1>5, UntouchedStutters DEF CallbackReturns
<1> QED BY <1>1, <1>2, <1>3, <1>4, <1>5 DEF Events

LEMMA ShutdownImplements ==
    ASSUME IInv, Shutdown
    PROVE  Contract!Next \/ UNCHANGED Contract!vars
<1> USE DEF luaVars, libVars
<1>1. CASE ShutdownBegin
    BY <1>1 DEF ShutdownBegin, Contract!ShutDown, Contract!Next, Registered
<1>2. CASE Shutdown /\ ~ShutdownBegin
    <2>1. shutting_down
        BY <1>2
        DEF Shutdown, IInv, ControlConsistent, ShutdownLocations, Runs, ShutQueueClose,
            ShutQueueErase, ShutQueueEnd, ShutMapClose, ShutMapRun, ShutMapEnd, ShutFinal
    <2>2. CASE ShutQueueClose
        <3>1. PICK h \in Handles : h = Head(todo)
            BY <2>2, NonEmptyHandles DEF ShutQueueClose, IInv, TypeOK
        <3>2. /\ connections' = [connections EXCEPT ![h] = Lookup(h)]
              /\ UNCHANGED <<told, closed, shutting_down>>
            BY <2>2, <3>1 DEF ShutQueueClose
        <3>3. Live' = Live
            BY <3>2, LookupKeepsLive DEF IInv
        <3> QED BY <3>2, <3>3 DEF Contract!vars, Live
    <2>3. CASE ShutQueueErase
        <3>1. todo # <<>>
            BY <2>3 DEF ShutQueueErase, IInv, ControlConsistent
        <3>2. PICK h \in Handles : h = Head(todo)
            BY <3>1, NonEmptyHandles DEF IInv, TypeOK
        <3>3. /\ connections' = [connections EXCEPT ![h] = NoEntry]
              /\ UNCHANGED <<told, closed, shutting_down>>
            BY <2>3, <3>2 DEF ShutQueueErase
        <3> QED BY <2>1, <3>3, EraseRetires DEF IInv, Contract!Next
    <2>4. CASE ShutMapEnd
        <3>1. Live' = {}
            BY <2>4 DEF ShutMapEnd, Live, Registered, NoEntry, Entry
        <3>2. UNCHANGED <<told, closed, shutting_down>>
            BY <2>4 DEF ShutMapEnd
        <3>3. Contract!Retire(Live)
            BY <2>1, <3>1, <3>2 DEF Contract!Retire, Live
        <3> QED BY <3>3 DEF Contract!Next, Live
    <2>5. CASE \/ ShutQueueEnd \/ ShutMapRun \/ ShutFinal
               \/ \E h \in Handles : ShutMapClose(h)
        BY <2>5, UntouchedStutters DEF ShutQueueEnd, ShutMapRun, ShutFinal, ShutMapClose
    <2> QED BY <1>2, <2>2, <2>3, <2>4, <2>5 DEF Shutdown
<1> QED BY <1>1, <1>2

LEMMA NextImplements == IInv /\ [Next]_vars => [Contract!Next]_(Contract!vars)
<1> SUFFICES ASSUME IInv, [Next]_vars
             PROVE  Contract!Next \/ UNCHANGED Contract!vars
    OBVIOUS
<1>1. CASE UNCHANGED vars
    BY <1>1, UntouchedStutters DEF vars, luaVars
<1> QED
    BY <1>1, ScriptImplements, UpdateImplements, EventsImplement, ShutdownImplements
    DEF Next, Ended

(***************************************************************************)
(* The plugin implements the contract of LuaSocket: callbacks come in      *)
(* order, to sockets the plugin still keeps; none is forgotten that the    *)
(* script has not closed, while the game runs; none is called after.       *)
(***************************************************************************)
THEOREM PluginImplementsContract == Spec => ImplementsContract
BY ContractInit, Consistent, NextImplements, PTL
DEF Spec, ImplementsContract, Contract!Spec
=============================================================================
