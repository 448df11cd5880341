------------------------- MODULE CarefulScript_proofs -------------------------
(***************************************************************************)
(* Proofs about CarefulScript.tla, for any set of handles.                 *)
(***************************************************************************)
EXTENDS CarefulScript, Plugin_proofs

-----------------------------------------------------------------------------
(***************************************************************************)
(* The inductive invariant.  At most one close is on its way, from the     *)
(* script's call to the end of the next flush; its handle is due until its *)
(* entry is erased.                                                        *)
(***************************************************************************)
Flushing == {"flush", "flushPoll"}

OneClose ==
    /\ pc \notin Faults
    /\ ~moved
    /\ close_queue = <<>> \/ \E h \in Handles : close_queue = <<h>>
    /\ pc \notin Flushing \cup {"idle"} => close_queue = <<>>
    /\ todo = <<>> \/ (pc \in Flushing /\ todo = close_queue)

Due(h) == IF pc = "idle" THEN close_queue = <<h>> ELSE todo = <<h>>

Over == {"closing", "terminated", "gone"}

(* While it is due the connection is there to be closed, then is closed. *)
DuePhases ==
    IF pc = "flushPoll" THEN Over ELSE {"open", "closing"}

HandleCareful(h) ==
    /\ Present(h) => Registered(h)
    /\ con[h] # "none" /\ h \notin closed => Registered(h)
    /\ Registered(h) /\ told[h] \in {"connect", "message"} => con[h] \in {"open", "closing"}
    /\ h \in closed => Due(h) \/ (~Present(h) /\ con[h] \in Over)
    /\ Due(h) => h \in closed /\ Registered(h) /\ con[h] \in DuePhases

Disciplined ==
    ~shutting_down => OneClose /\ \A h \in Handles : HandleCareful(h)

-----------------------------------------------------------------------------
(* What the invariant says of the places it speaks of *)

LEMMA OneInQueue ==
    ASSUME NEW h \in Handles
    PROVE  /\ <<h>> # <<>> /\ Head(<<h>>) = h /\ Tail(<<h>>) = <<>>
           /\ Append(<<>>, h) = <<h>>
           /\ \A g \in Handles : <<g>> = <<h>> => g = h
OBVIOUS

LEMMA TheGameRuns ==
    ASSUME IInv, ~shutting_down, OneClose
    PROVE  /\ TypeOK /\ ControlConsistent
           /\ ContainersConsistent /\ \A h \in Handles : HandleConsistent(h)
BY Pointwise DEF IInv, OneClose, GameRuns

(* A handle the script may use is registered. *)
LEMMA MayUseRegistered ==
    ASSUME IInv, ~shutting_down, OneClose, \A h \in Handles : HandleCareful(h),
           NEW i \in DOMAIN hdls, MayUse(i)
    PROVE  /\ hdls[i] \in Handles
           /\ Registered(hdls[i]) /\ Lookup(hdls[i]) = connections[hdls[i]]
<1>1. hdls[i] \in Handles /\ con[hdls[i]] # "none"
    BY TheGameRuns, HeldHandle DEF ContainersConsistent, ContainersHoldBorn, Unborn
<1> QED BY <1>1 DEF HandleCareful, MayUse, Lookup, Registered, Present

(* A step that leaves the queue alone, and every handle but one. *)
LEMMA OneHandleCareful ==
    ASSUME OneClose, \A g \in Handles : HandleCareful(g),
           NEW h \in Handles, HandleCareful(h)',
           UNCHANGED <<pc, todo, close_queue, closed, moved>>,
           \A g \in Handles \ {h} :
               con'[g] = con[g] /\ connections'[g] = connections[g] /\ told'[g] = told[g]
    PROVE  OneClose' /\ \A g \in Handles : HandleCareful(g)'
<1>1. OneClose'
    BY DEF OneClose
<1>2. ASSUME NEW g \in Handles, g # h
      PROVE  HandleCareful(g)'
    <2>1. HandleCareful(g)
        OBVIOUS
    <2> QED BY <1>2, <2>1
            DEF HandleCareful, Present, Registered, Due, DuePhases
<1> QED BY <1>1, <1>2

(* A step that leaves all handles alone, and which of them is due. *)
LEMMA NoHandleCareful ==
    ASSUME \A g \in Handles : HandleCareful(g),
           UNCHANGED <<con, connections, told, closed>>,
           \A g \in Handles : Due(g)' <=> Due(g),
           \A g \in Handles : Due(g) => DuePhases' = DuePhases
    PROVE  \A g \in Handles : HandleCareful(g)'
<1> SUFFICES ASSUME NEW g \in Handles
             PROVE  HandleCareful(g)'
    OBVIOUS
<1>1. HandleCareful(g) /\ (Due(g)' <=> Due(g)) /\ (Due(g) => DuePhases' = DuePhases)
    OBVIOUS
<1> QED BY <1>1 DEF HandleCareful, Present, Registered

-----------------------------------------------------------------------------
(* The steps *)

LEMMA CarefulInit == Init => Disciplined
BY OneInQueue
DEF Init, Disciplined, OneClose, HandleCareful, Due, Faults, Flushing, Present,
    Registered, NoEntry, Entry

LEMMA CarefulIsScript == CarefulNext => Next
BY DEF CarefulNext, CarefulMethods, MayClose, Next, Script

LEMMA CarefulMethodsKeep ==
    ASSUME IInv, ~shutting_down, OneClose, \A h \in Handles : HandleCareful(h),
           CarefulMethods
    PROVE  OneClose' /\ \A h \in Handles : HandleCareful(h)'
<1>1. /\ TypeOK /\ ControlConsistent
      /\ ContainersConsistent /\ \A h \in Handles : HandleConsistent(h)
    BY TheGameRuns
<1>2. ASSUME NEW h \in Handles, l_connect(h)
      PROVE  OneClose' /\ \A g \in Handles : HandleCareful(g)'
    <2>1. /\ con[h] = "none"
          /\ con' = [con EXCEPT ![h] = "connecting"]
          /\ connections' = [connections EXCEPT ![h] = Entry(Scheme(h), FALSE)]
          /\ UNCHANGED <<pc, todo, close_queue, closed, moved, told>>
        BY <1>2 DEF l_connect, Store
    <2>2. con'[h] = "connecting" /\ Registered(h)' /\ told[h] = "nothing"
        BY <1>1, <2>1 DEF TypeOK, Registered, Entry, Scheme, HandleConsistent, Unborn
    <2>3. HandleCareful(h)'
        BY <2>1, <2>2
        DEF HandleCareful, Over, Due, DuePhases, Present, Registered
    <2>4. \A g \in Handles \ {h} : con'[g] = con[g] /\ connections'[g] = connections[g]
        BY <1>1, <2>1 DEF TypeOK
    <2> QED BY <2>1, <2>3, <2>4, OneHandleCareful
<1>3. ASSUME NEW i \in DOMAIN hdls, MayUse(i), WebSocket_send_message(i)
      PROVE  OneClose' /\ \A g \in Handles : HandleCareful(g)'
    <2>1. hdls[i] \in Handles /\ Registered(hdls[i]) /\ Lookup(hdls[i]) = connections[hdls[i]]
        BY <1>3, MayUseRegistered
    <2>2. connections' = connections
        BY <1>1, <1>3, <2>1 DEF WebSocket_send_message, Store, TypeOK
    <2>3. Lookup(hdls[i]).is_connected => GetCon(hdls[i], Lookup(hdls[i]).uri) = "found"
        BY <2>1, IInvConnectedIsUsable
        DEF ConnectedIsUsable, GameRuns, OneClose
    <2>4. UNCHANGED <<pc, todo, close_queue, closed, moved, con, told>>
        BY <1>3, <2>3 DEF WebSocket_send_message, libVars, luaVars
    <2> QED BY <2>1, <2>2, <2>4, OneHandleCareful, NoHandleCareful DEF Due, DuePhases
<1>4. ASSUME NEW i \in DOMAIN hdls, MayUse(i), WebSocket_tostring(i)
      PROVE  OneClose' /\ \A g \in Handles : HandleCareful(g)'
    <2>1. hdls[i] \in Handles /\ Registered(hdls[i]) /\ Lookup(hdls[i]) = connections[hdls[i]]
        BY <1>4, MayUseRegistered
    <2>2. connections' = connections
        BY <1>1, <1>4, <2>1 DEF WebSocket_tostring, Store, TypeOK
    <2>3. UNCHANGED <<pc, todo, close_queue, closed, moved, con, told>>
        BY <1>4 DEF WebSocket_tostring, libVars, luaVars
    <2> QED BY <2>1, <2>2, <2>3, OneHandleCareful, NoHandleCareful DEF Due, DuePhases
<1>5. ASSUME NEW i \in DOMAIN hdls, MayClose(i), WebSocket_close(i)
      PROVE  OneClose' /\ \A g \in Handles : HandleCareful(g)'
    <2>1. PICK h \in Handles :
            h = hdls[i] /\ Registered(h) /\ Lookup(h) = connections[h]
        BY <1>5, MayUseRegistered DEF MayClose
    <2>2. pc = "idle" /\ close_queue = <<>> /\ con[h] \in {"open", "closing"}
        BY <1>5, <2>1 DEF MayClose, HandleCareful
    <2>3. /\ connections' = [connections EXCEPT ![h] = [Lookup(h) EXCEPT !.is_connected = FALSE]]
          /\ close_queue' = Append(close_queue, h)
          /\ moved' = moved
          /\ closed' = closed \cup {h}
          /\ UNCHANGED <<pc, todo, con, told>>
        BY <1>5, <2>1, <2>2 DEF WebSocket_close, Store, QueueClose, libVars
    <2>4. close_queue' = <<h>> /\ pc' = "idle"
        BY <2>1, <2>2, <2>3, OneInQueue
    <2>5. OneClose'
        BY <2>1, <2>2, <2>3, <2>4 DEF OneClose, Flushing
    <2>6. Registered(h)' /\ con'[h] = con[h]
        BY <1>1, <2>1, <2>3 DEF TypeOK, Entries, Registered
    <2>7. HandleCareful(h)'
        BY <2>1, <2>2, <2>3, <2>4, <2>6
        DEF HandleCareful, Due, DuePhases, Registered, Present
    <2>8. ASSUME NEW g \in Handles, g # h
          PROVE  HandleCareful(g)'
        <3>1. connections'[g] = connections[g] /\ con'[g] = con[g] /\ told'[g] = told[g]
            BY <1>1, <2>3, <2>8 DEF TypeOK
        <3>2. ~Due(g) /\ ~Due(g)'
            BY <2>1, <2>2, <2>4, <2>8, OneInQueue DEF Due
        <3>3. HandleCareful(g) /\ (g \in closed' <=> g \in closed)
            BY <2>3, <2>8
        <3> QED BY <3>1, <3>2, <3>3 DEF HandleCareful, Present, Registered
    <2> QED BY <2>5, <2>7, <2>8
<1>6. ASSUME NEW i \in DOMAIN hdls, ~Present(hdls[i]), WebSocket_gc(i)
      PROVE  OneClose' /\ \A g \in Handles : HandleCareful(g)'
    <2>1. UNCHANGED <<pc, todo, close_queue, closed, moved, con, connections, told>>
        BY <1>6 DEF WebSocket_gc, libVars
    <2>2. \A g \in Handles : HandleCareful(g)'
        BY <2>1, NoHandleCareful DEF Due, DuePhases
    <2> QED BY <2>1, <2>2 DEF OneClose
<1> QED BY <1>2, <1>3, <1>4, <1>5, <1>6 DEF CarefulMethods

LEMMA CarefulUpdateKeeps ==
    ASSUME IInv, ~shutting_down, OneClose, \A h \in Handles : HandleCareful(h), Update
    PROVE  OneClose' /\ \A h \in Handles : HandleCareful(h)'
<1>1. /\ TypeOK /\ ControlConsistent
      /\ ContainersConsistent /\ \A h \in Handles : HandleConsistent(h)
    BY TheGameRuns
<1>2. CASE UpdateBegin
    <2>1. /\ pc = "idle" /\ pc' = "flush" /\ todo' = close_queue /\ moved' = FALSE
          /\ UNCHANGED <<con, connections, told, closed, close_queue>>
        BY <1>2 DEF UpdateBegin, libVars, luaVars
    <2>2. OneClose'
        BY <2>1 DEF OneClose, Flushing, Faults
    <2> QED BY <2>1, <2>2, NoHandleCareful DEF Due, DuePhases
<1>3. ASSUME NEW h \in Handles, todo = <<h>>, FlushClose
      PROVE  OneClose' /\ \A g \in Handles : HandleCareful(g)'
    <2>1. pc = "flush" /\ Head(todo) = h
        BY <1>3, OneInQueue DEF FlushClose
    <2>2. /\ Due(h) /\ h \in closed /\ Registered(h) /\ con[h] \in {"open", "closing"}
          /\ Lookup(h) = connections[h]
        BY <1>3, <2>1 DEF Due, DuePhases, HandleCareful, Lookup, Registered, Present
    <2>3. GetCon(h, Lookup(h).uri) = "found"
        BY <1>1, <2>2 DEF HandleConsistent, GetCon, ClientFor, Client, Scheme, Registered
    <2>4. /\ connections' = [connections EXCEPT ![h] = connections[h]]
          /\ con' = [con EXCEPT ![h] = IF @ = "open" THEN "closing" ELSE @]
          /\ pc' = "flushPoll"
          /\ UNCHANGED <<todo, moved, told, closed, close_queue>>
        BY <1>3, <2>1, <2>2, <2>3 DEF FlushClose, Close, luaVars
    <2>5. connections' = connections /\ con'[h] = "closing"
        BY <1>1, <2>2, <2>4 DEF TypeOK
    <2>6. OneClose'
        BY <1>3, <2>1, <2>4, OneInQueue DEF OneClose, Flushing, Faults
    <2>7. HandleCareful(h)'
        BY <1>3, <2>2, <2>4, <2>5
        DEF HandleCareful, Due, DuePhases, Over, Registered, Present
    <2>8. ASSUME NEW g \in Handles, g # h
          PROVE  HandleCareful(g)'
        <3>1. con'[g] = con[g]
            BY <1>1, <2>4, <2>8 DEF TypeOK
        <3>2. ~Due(g) /\ ~Due(g)'
            BY <1>3, <2>1, <2>4, <2>8, OneInQueue DEF Due
        <3>3. HandleCareful(g)
            OBVIOUS
        <3> QED BY <2>4, <2>5, <3>1, <3>2, <3>3 DEF HandleCareful, Present, Registered
    <2> QED BY <2>6, <2>7, <2>8
<1>4. ASSUME NEW h \in Handles, todo = <<h>>, FlushErase
      PROVE  OneClose' /\ \A g \in Handles : HandleCareful(g)'
    <2>1. /\ pc = "flushPoll" /\ pc' = "flush"
          /\ connections' = [connections EXCEPT ![h] = NoEntry]
          /\ todo' = <<>>
          /\ UNCHANGED <<con, moved, told, closed, close_queue>>
        BY <1>4, OneInQueue DEF FlushErase, OneClose, libVars, luaVars
    <2>2. h \in closed /\ con[h] \in Over
        BY <1>4, <2>1 DEF Due, DuePhases, HandleCareful
    <2>3. OneClose'
        BY <2>1 DEF OneClose, Flushing, Faults
    <2>4. ASSUME NEW g \in Handles
          PROVE  ~Due(g)'
        BY <2>1, OneInQueue DEF Due
    <2>5. ~Present(h)' /\ ~Registered(h)'
        BY <1>1, <2>1 DEF TypeOK, NoEntry, Entry, Present, Registered
    <2>6. HandleCareful(h)'
        BY <2>1, <2>2, <2>4, <2>5 DEF HandleCareful
    <2>7. ASSUME NEW g \in Handles, g # h
          PROVE  HandleCareful(g)'
        <3>1. connections'[g] = connections[g]
            BY <1>1, <2>1, <2>7 DEF TypeOK
        <3>2. ~Due(g)
            BY <1>4, <2>1, <2>7, OneInQueue DEF Due
        <3>3. HandleCareful(g)
            OBVIOUS
        <3> QED BY <2>1, <2>4, <3>1, <3>2, <3>3 DEF HandleCareful, Present, Registered
    <2> QED BY <2>3, <2>6, <2>7
<1>5. CASE FlushEnd \/ PollReturns
    <2>1. /\ todo = <<>> /\ pc # "idle"
          /\ close_queue' = <<>>
          /\ UNCHANGED <<con, connections, todo, moved, told, closed>>
        BY <1>5 DEF FlushEnd, PollReturns, OneClose, Flushing, Polls, libVars, luaVars
    <2>2. pc' \in {"idle", "pollSecure", "pollInsecure"}
        BY <1>1, <1>5, NextVisitType DEF FlushEnd, PollReturns, Keys, TypeOK
    <2>3. OneClose'
        BY <2>1, <2>2 DEF OneClose, Flushing, Faults
    <2>4. \A g \in Handles : ~Due(g) /\ ~Due(g)'
        BY <2>1, OneInQueue DEF Due
    <2> QED BY <2>1, <2>3, <2>4, NoHandleCareful
<1>6. FlushClose \/ FlushErase => \E h \in Handles : todo = <<h>>
    BY <1>1 DEF FlushClose, FlushErase, ControlConsistent, OneClose
<1> QED BY <1>2, <1>3, <1>4, <1>5, <1>6 DEF Update

LEMMA CarefulEventsKeep ==
    ASSUME IInv, ~shutting_down, OneClose, \A h \in Handles : HandleCareful(h), Events
    PROVE  OneClose' /\ \A h \in Handles : HandleCareful(h)'
<1>1. /\ TypeOK /\ ControlConsistent
      /\ ContainersConsistent /\ \A h \in Handles : HandleConsistent(h)
    BY TheGameRuns
<1>2. ASSUME NEW h \in Handles, Event(h)
      PROVE  Due(h) => pc = "flushPoll"
    BY <1>2, OneInQueue DEF Event, OneClose, Flushing, Due, Polls, Runs
<1>3. ASSUME NEW h \in Handles, NEW k, NEW entry, Event(h), Notify(h, k, entry)
      PROVE  /\ UNCHANGED <<pc, todo, close_queue, closed, moved>>
             /\ \/ ~Present(h) /\ UNCHANGED <<connections, told>>
                \/ /\ Registered(h)
                   /\ connections' = [connections EXCEPT ![h] = entry]
                   /\ told' = [told EXCEPT ![h] = k]
    BY <1>3 DEF Notify, Ignore, CallLua, Unheard, HandleCareful
<1>4. ASSUME NEW h \in Handles, on_open(h)
      PROVE  OneClose' /\ \A g \in Handles : HandleCareful(g)'
    <2>1. /\ Event(h) /\ con[h] = "connecting"
          /\ con' = [con EXCEPT ![h] = "open"]
          /\ Notify(h, "connect", [connections[h] EXCEPT !.is_connected = TRUE])
        BY <1>4 DEF on_open
    <2>2. h \notin closed /\ ~Due(h) /\ Registered(h)
        BY <1>2, <2>1 DEF HandleCareful, DuePhases, Over
    <2>3. /\ connections' = [connections EXCEPT ![h] = [connections[h] EXCEPT !.is_connected = TRUE]]
          /\ told' = [told EXCEPT ![h] = "connect"]
          /\ UNCHANGED <<pc, todo, close_queue, closed, moved>>
        BY <1>3, <2>1, <2>2 DEF Registered, Present
    <2>4. Registered(h)' /\ con'[h] = "open"
        BY <1>1, <2>1, <2>2, <2>3 DEF TypeOK, Entries, Registered
    <2>5. HandleCareful(h)'
        BY <2>2, <2>3, <2>4 DEF HandleCareful, Due
    <2>6. \A g \in Handles \ {h} :
            con'[g] = con[g] /\ connections'[g] = connections[g] /\ told'[g] = told[g]
        BY <1>1, <2>1, <2>3 DEF TypeOK
    <2> QED BY <2>3, <2>5, <2>6, OneHandleCareful
<1>5. ASSUME NEW h \in Handles, on_message(h)
      PROVE  OneClose' /\ \A g \in Handles : HandleCareful(g)'
    <2>1. /\ Event(h) /\ con[h] = "open" /\ con' = con
          /\ Notify(h, "message", connections[h])
        BY <1>5 DEF on_message
    <2>2. /\ UNCHANGED <<pc, todo, close_queue, closed, moved>>
          /\ connections' = connections
          /\ \A g \in Handles \ {h} : told'[g] = told[g]
        BY <1>1, <1>3, <2>1 DEF TypeOK
    <2>3. HandleCareful(h)'
        BY <2>1, <2>2 DEF HandleCareful, Due, DuePhases, Present, Registered
    <2> QED BY <2>1, <2>2, <2>3, OneHandleCareful
<1>6. ASSUME NEW h \in Handles, on_close(h)
      PROVE  OneClose' /\ \A g \in Handles : HandleCareful(g)'
    <2>1. /\ Event(h) /\ con[h] \in {"open", "closing"}
          /\ con' = [con EXCEPT ![h] = "terminated"]
          /\ Notify(h, "close", [connections[h] EXCEPT !.is_connected = FALSE])
        BY <1>6 DEF on_close
    <2>2. UNCHANGED <<pc, todo, close_queue, closed, moved>> /\ con'[h] = "terminated"
        BY <1>1, <1>3, <2>1 DEF TypeOK
    <2>3. /\ Present(h)' <=> Present(h)
          /\ Registered(h)' <=> Registered(h)
          /\ Registered(h) => told'[h] = "close"
        BY <1>1, <1>3, <2>1 DEF TypeOK, Entries, Present, Registered
    <2>4. (Due(h)' <=> Due(h)) /\ DuePhases' = DuePhases
        BY <2>2 DEF Due, DuePhases
    <2>5. HandleCareful(h)'
        BY <1>2, <2>1, <2>2, <2>3, <2>4 DEF HandleCareful, DuePhases, Over
    <2>6. \A g \in Handles \ {h} :
            con'[g] = con[g] /\ connections'[g] = connections[g] /\ told'[g] = told[g]
        BY <1>1, <1>3, <2>1 DEF TypeOK
    <2> QED BY <2>2, <2>5, <2>6, OneHandleCareful
<1>7. ASSUME NEW h \in Handles, NEW from, NEW to, Quietly(h, from, to),
             <<from, to>> \in {<<"open", "closing">>, <<"connecting", "terminated">>,
                               <<"terminated", "gone">>}
      PROVE  OneClose' /\ \A g \in Handles : HandleCareful(g)'
    <2>1. /\ Event(h) /\ con[h] = from
          /\ con' = [con EXCEPT ![h] = to]
          /\ UNCHANGED <<pc, todo, close_queue, closed, moved, connections, told>>
        BY <1>7 DEF Quietly, luaVars
    <2>2. con'[h] = to
        BY <1>1, <2>1 DEF TypeOK
    <2>3. (Due(h)' <=> Due(h)) /\ DuePhases' = DuePhases
        BY <2>1 DEF Due, DuePhases
    <2>4. Registered(h) /\ con[h] = "connecting" => told[h] = "nothing"
        BY <1>1 DEF HandleConsistent
    <2>5. HandleCareful(h)'
        BY <1>2, <1>7, <2>1, <2>2, <2>3, <2>4
        DEF HandleCareful, DuePhases, Over, Present, Registered
    <2>6. \A g \in Handles \ {h} : con'[g] = con[g]
        BY <1>1, <2>1 DEF TypeOK
    <2> QED BY <2>1, <2>5, <2>6, OneHandleCareful
<1>8. CASE CallbackReturns
    <2>1. UNCHANGED <<pc, todo, close_queue, closed, moved, con, connections, told>>
        BY <1>8 DEF CallbackReturns, libVars, loopVars
    <2>2. \A g \in Handles : HandleCareful(g)'
        BY <2>1, NoHandleCareful DEF Due, DuePhases
    <2> QED BY <2>1, <2>2 DEF OneClose
<1> QED BY <1>4, <1>5, <1>6, <1>7, <1>8
        DEF Events, peer_close, connect_failed, release

(* Once shutdown has begun the invariant says nothing. *)
LEMMA BeforeShutdown ==
    ASSUME IInv, CarefulNext, ~shutting_down'
    PROVE  ~shutting_down /\ (CarefulMethods \/ Update \/ Events \/ UNCHANGED vars)
<1>1. CarefulMethods => shutting_down' = shutting_down
    BY DEF CarefulMethods, l_connect, WebSocket_send_message, WebSocket_tostring,
           WebSocket_close, WebSocket_gc
<1>2. Update => shutting_down' = shutting_down
    BY DEF Update, UpdateBegin, FlushClose, FlushErase, FlushEnd, PollReturns
<1>3. Events => shutting_down' = shutting_down
    BY DEF Events, on_open, on_message, on_close, peer_close, connect_failed, release,
           Notify, Quietly, CallbackReturns
<1>4. ~Shutdown
    BY DEF IInv, ControlConsistent, ShutdownLocations, Runs, Shutdown, ShutdownBegin,
           ShutQueueClose, ShutQueueErase, ShutQueueEnd, ShutMapClose, ShutMapRun,
           ShutMapEnd, ShutFinal
<1>5. UNCHANGED vars => shutting_down' = shutting_down
    BY DEF vars
<1> QED BY <1>1, <1>2, <1>3, <1>4, <1>5 DEF CarefulNext, Ended

LEMMA CarefulStep == IInv /\ Disciplined /\ [CarefulNext]_vars => Disciplined'
<1> SUFFICES ASSUME IInv, Disciplined, [CarefulNext]_vars, ~shutting_down'
             PROVE  OneClose' /\ \A h \in Handles : HandleCareful(h)'
    BY DEF Disciplined
<1>1. CASE UNCHANGED vars
    <2>1. /\ ~shutting_down
          /\ UNCHANGED <<pc, todo, close_queue, closed, moved, con, connections, told>>
        BY <1>1 DEF vars, libVars, loopVars, luaVars
    <2>2. \A g \in Handles : HandleCareful(g)'
        BY <2>1, NoHandleCareful DEF Disciplined, Due, DuePhases
    <2> QED BY <2>1, <2>2 DEF Disciplined, OneClose
<1>2. CASE CarefulNext /\ ~UNCHANGED vars
    BY <1>2, BeforeShutdown, CarefulMethodsKeep, CarefulUpdateKeeps, CarefulEventsKeep
    DEF Disciplined
<1> QED BY <1>1, <1>2

-----------------------------------------------------------------------------
(* The theorems *)

LEMMA CarefulConsistent == CarefulSpec => []IInv
<1>1. [CarefulNext]_vars => [Next]_vars
    BY CarefulIsScript
<1> QED BY <1>1, Consistent, PTL DEF CarefulSpec, Spec

(***************************************************************************)
(* Under the discipline one close is under way at a time, a handle that is *)
(* due is registered and alive until it is closed, one that was closed is  *)
(* out of the map, and every other connection has its entry.               *)
(***************************************************************************)
THEOREM CarefulDisciplined == CarefulSpec => []Disciplined
BY CarefulInit, CarefulStep, CarefulConsistent, PTL DEF CarefulSpec

(***************************************************************************)
(* A script that keeps to the discipline never makes update fault, however *)
(* many sockets it has and whatever the peers do (plugin.cpp:406-446).     *)
(***************************************************************************)
THEOREM CarefulIsSafe == CarefulSpec => []CarefulSafe
<1>1. Disciplined => CarefulSafe
    BY DEF Disciplined, OneClose, CarefulSafe
<1> QED BY <1>1, CarefulDisciplined, PTL

(***************************************************************************)
(* Nor does it lose a connection that is connecting or open: its entry     *)
(* stays in the map until it is closed (plugin.cpp:414, 436).              *)
(***************************************************************************)
THEOREM NoneOrphaned == CarefulSpec => []NoOrphan
<1>1. Disciplined => NoOrphan
    BY DEF Disciplined, HandleCareful, NoOrphan, GameRuns, Over
<1> QED BY <1>1, CarefulDisciplined, PTL
=============================================================================
