------------------------------ MODULE Connection ------------------------------
(***************************************************************************)
(* impl/connection_impl.hpp in the role of a client: one connection of the *)
(* library as a machine of handlers.  The program is single-threaded: a    *)
(* handler runs to its end, inside poll or run, and what it has started (a *)
(* read, a write, a timer, a posted call) calls the next handler.          *)
(*                                                                         *)
(* The transport below it (asio/connection.hpp, asio/endpoint.hpp) is the  *)
(* set of operations that are pending; each ends once, well or badly, when *)
(* it likes.  Frames are their kinds; handle_read_frame's loop over the    *)
(* frames of one read is one step per frame, and a read that completes no  *)
(* frame or no HTTP header only starts the next read.                      *)
(***************************************************************************)
EXTENDS Naturals, Sequences, SequencesExt

CONSTANTS
    MaxSends,         \* bounds of the model: messages the script sends,
    MaxPongs,         \* pings of the peer,
    MaxMessages,      \* messages of the peer,
    MaxCloses         \* close frames made by this side

ASSUME BoundsAssumption ==
    /\ MaxSends \in Nat /\ MaxPongs \in Nat
    /\ MaxMessages \in Nat /\ MaxCloses \in Nat

VARIABLES
    tls,              \* the socket policy: TLS, or plain TCP
    m_state,          \* session::state
    m_internal_state, \* session::internal_state, as far as a client goes
    pending,          \* operations of the transport whose handler has not run
    dispatched,       \* write_frame calls posted to the io_service
    timers,           \* the handshake timers ever set
    m_handshake_timer,\* index of the current one, 0 for the null pointer
    shutdowns,        \* socket shutdowns under way, by terminate_status
    m_send_queue,
    m_current_msgs,   \* the frames of the write under way
    m_write_flag,
    calls,            \* history: how often each user handler has run
    wire              \* history: the frames given to the socket, in order

stateVars == <<tls, m_state, m_internal_state>>
timerVars == <<timers, m_handshake_timer>>
writeVars == <<m_send_queue, m_current_msgs, m_write_flag, wire>>
vars == <<stateVars, pending, dispatched, timerVars, shutdowns, writeVars, calls>>

-----------------------------------------------------------------------------
(* The state space *)

States == {"connecting", "open", "closing", "closed"}

InternalStates ==
    {"USER_INIT", "TRANSPORT_INIT", "WRITE_HTTP_REQUEST", "READ_HTTP_RESPONSE",
     "PROCESS_CONNECTION"}

(***************************************************************************)
(* What the transport may owe a call: the end of async_connect, of init,   *)
(* of the request's write, of the response's read, of a frame write or     *)
(* read, and of operations that were cancelled and whose handlers do       *)
(* nothing but hold the connection.                                        *)
(***************************************************************************)
Operations == {"connect", "init", "request", "response", "write", "read", "cancelled"}

(* A timer is running; its handler is queued; it was cancelled; it is over. *)
TimerStates == {"armed", "fired", "aborted", "done"}

TerminateStatus == {"failed", "closed"}

(* A terminal close is the last frame: the socket is dropped after it. *)
Frames == [kind : {"data", "pong", "close", "terminal"}, n : Nat]

Handlers == {"open", "message", "close", "fail"}

TypeOK ==
    /\ tls \in BOOLEAN
    /\ m_state \in States
    /\ m_internal_state \in InternalStates
    /\ pending \subseteq Operations
    /\ dispatched \in Nat
    /\ timers \in Seq(TimerStates)
    /\ m_handshake_timer \in Nat
    /\ shutdowns \in [TerminateStatus -> Nat]
    /\ m_send_queue \in Seq(Frames)
    /\ m_current_msgs \in Seq(Frames)
    /\ m_write_flag \in BOOLEAN
    /\ calls \in [Handlers -> Nat]
    /\ wire \in Seq(Frames)

(* client.get_connection has made the connection. *)
Init ==
    /\ tls \in BOOLEAN
    /\ m_state = "connecting"
    /\ m_internal_state = "USER_INIT"
    /\ pending = {}
    /\ dispatched = 0
    /\ timers = <<>>
    /\ m_handshake_timer = 0
    /\ shutdowns = [t \in TerminateStatus |-> 0]
    /\ m_send_queue = <<>>
    /\ m_current_msgs = <<>>
    /\ m_write_flag = FALSE
    /\ calls = [h \in Handlers |-> 0]
    /\ wire = <<>>

(* The frames of a kind that were ever pushed: the model's bounds. *)
Made(kinds) == Len(SelectSeq(wire \o m_send_queue, LAMBDA f : f.kind \in kinds))

-----------------------------------------------------------------------------
(* Timers and the end of a connection *)

(* m_handshake_timer->cancel(): too late for a handler already queued. *)
Cancelled(ts) ==
    IF m_handshake_timer = 0 THEN ts
    ELSE [ts EXCEPT ![m_handshake_timer] = IF @ = "armed" THEN "aborted" ELSE @]

(* m_handshake_timer = set_timer(...): the pointer's old timer runs on. *)
SetTimer ==
    /\ timers' = Append(timers, "armed")
    /\ m_handshake_timer' = Len(timers) + 1

Called(c, h) == [c EXCEPT ![h] = @ + 1]

(* handle_terminate: one user handler, by what the connection died of. *)
handle_terminate(c, status) == Called(c, IF status = "failed" THEN "fail" ELSE "close")

(***************************************************************************)
(* async_shutdown, with c the user handlers that ran before or run in the  *)
(* same step, and ops what stays pending.  A plain socket is shut down at  *)
(* once, inside the call; TLS exchanges its own closing messages first.    *)
(* Either way the shutdown timer's handler is left over.                   *)
(***************************************************************************)
async_shutdown(status, c, ops) ==
    IF tls
    THEN /\ shutdowns' = [shutdowns EXCEPT ![status] = @ + 1]
         /\ calls' = c
         /\ pending' = ops
    ELSE /\ calls' = handle_terminate(c, status)
         /\ pending' = ops \cup {"cancelled"}
         /\ UNCHANGED shutdowns

(* Mutation: a connection that is closed already is shut down again. *)
terminateAgain(ops, ts) ==
    /\ timers' = Cancelled(ts)
    /\ m_handshake_timer' = 0
    /\ m_state' = "closed"
    /\ async_shutdown(IF m_state = "connecting" THEN "failed" ELSE "closed", calls, ops)

(***************************************************************************)
(* terminate, the one way out, called by many: only the first call shuts   *)
(* the socket down.                                                        *)
(***************************************************************************)
terminate(ops, ts) ==
    /\ timers' = Cancelled(ts)
    /\ m_handshake_timer' = 0
    /\ m_state' = "closed"
    /\ IF m_state = "closed"
       THEN pending' = ops /\ UNCHANGED <<shutdowns, calls>>
       ELSE async_shutdown(IF m_state = "connecting" THEN "failed" ELSE "closed",
                           calls, ops)

(* A handler with nothing left to do: the connection was closed meanwhile. *)
Drop(op) ==
    /\ pending' = pending \ {op}
    /\ UNCHANGED <<m_state, timerVars, shutdowns, calls>>

(* An operation fails, or its outcome is refused. *)
Fails(op) == terminate(pending \ {op}, timers)

(* What connect and init leave: the handler of their cancelled timer. *)
Finished(op) == (pending \ {op}) \cup {"cancelled"}

-----------------------------------------------------------------------------
(* The opening handshake *)

(* client.connect(con): asynchronous, its outcome comes to handle_connect. *)
connect ==
    /\ m_internal_state = "USER_INIT"
    /\ m_state = "connecting"
    /\ pending = {}
    /\ pending' = {"connect"}
    /\ UNCHANGED <<stateVars, dispatched, timerVars, shutdowns, writeVars, calls>>

(* Mutation: no timer is set for the opening handshake. *)
requestUntimed(ops) ==
    /\ m_internal_state' = "WRITE_HTTP_REQUEST"
    /\ UNCHANGED timerVars
    /\ pending' = ops \cup {"request"}

(* A plain transport is ready without further ado. *)
send_http_request(ops) ==
    /\ m_internal_state' = "WRITE_HTTP_REQUEST"
    /\ SetTimer
    /\ pending' = ops \cup {"request"}

(***************************************************************************)
(* client_endpoint's handle_connect and start.  With TLS the transport's   *)
(* init waits for the TLS handshake; without, it calls back in the call.   *)
(***************************************************************************)
handle_connect ==
    /\ "connect" \in pending
    /\ \/ terminate(Finished("connect"), timers) /\ UNCHANGED m_internal_state
       \/ /\ IF tls
             THEN /\ m_internal_state' = "TRANSPORT_INIT"
                  /\ pending' = Finished("connect") \cup {"init"}
                  /\ UNCHANGED timerVars
             ELSE send_http_request(Finished("connect"))
          /\ UNCHANGED <<m_state, shutdowns, calls>>
    /\ UNCHANGED <<tls, dispatched, writeVars>>

handle_transport_init ==
    /\ "init" \in pending
    /\ \/ terminate(Finished("init"), timers) /\ UNCHANGED m_internal_state
       \/ /\ send_http_request(Finished("init"))
          /\ UNCHANGED <<m_state, shutdowns, calls>>
    /\ UNCHANGED <<tls, dispatched, writeVars>>

handle_send_http_request ==
    /\ "request" \in pending
    /\ \/ Fails("request") /\ UNCHANGED m_internal_state
       \/ m_state = "closed" /\ Drop("request") /\ UNCHANGED m_internal_state
       \/ /\ m_state = "connecting"
          /\ m_internal_state' = "READ_HTTP_RESPONSE"
          /\ pending' = (pending \ {"request"}) \cup {"response"}
          /\ UNCHANGED <<m_state, timerVars, shutdowns, calls>>
    /\ UNCHANGED <<tls, dispatched, writeVars>>

(***************************************************************************)
(* The server's answer: the read fails, the answer is not HTTP or not the  *)
(* one that opens a WebSocket, or the connection is open.  When only its   *)
(* Sec-WebSocket-Extensions cannot be parsed, terminate is called and the  *)
(* code goes on: the connection is open all the same, with its shutdown    *)
(* under way (1619-1635).                                                  *)
(***************************************************************************)
handle_read_http_response ==
    /\ "response" \in pending
    /\ \/ Fails("response") /\ UNCHANGED m_internal_state
       \/ m_state = "closed" /\ Drop("response") /\ UNCHANGED m_internal_state
       \/ /\ m_state = "connecting"
          /\ m_internal_state' = "PROCESS_CONNECTION"
          /\ m_state' = "open"
          /\ timers' = Cancelled(timers)
          /\ m_handshake_timer' = 0
          /\ LET ops == (pending \ {"response"}) \cup {"read"}
                 opened == Called(calls, "open")
             IN  \/ calls' = opened /\ pending' = ops /\ UNCHANGED shutdowns
                 \/ async_shutdown("failed", opened, ops)
    /\ UNCHANGED <<tls, dispatched, writeVars>>

-----------------------------------------------------------------------------
(* Writing *)

(***************************************************************************)
(* write_push, and write_frame posted when no write will see the queue.    *)
(* A frame's n is its place among all frames ever pushed.                  *)
(***************************************************************************)
write_push(kind) ==
    /\ m_send_queue' =
           Append(m_send_queue, [kind |-> kind, n |-> Len(wire \o m_send_queue) + 1])
    /\ dispatched' = IF m_write_flag THEN dispatched ELSE dispatched + 1
    /\ UNCHANGED <<m_current_msgs, m_write_flag, wire>>

(* Mutation: a message is taken while the connection is closing. *)
sendLate ==
    /\ m_state \in {"open", "closing"}
    /\ Made({"data"}) < MaxSends
    /\ write_push("data")
    /\ UNCHANGED <<stateVars, pending, timerVars, shutdowns, calls>>

(* A message of the script. *)
send ==
    /\ m_state = "open"
    /\ Made({"data"}) < MaxSends
    /\ write_push("data")
    /\ UNCHANGED <<stateVars, pending, timerVars, shutdowns, calls>>

(* Mutation: the closing handshake has no timer. *)
closeFrameUntimed(kind) ==
    /\ Made({"close", "terminal"}) < MaxCloses
    /\ m_state' = "closing"
    /\ UNCHANGED timerVars
    /\ write_push(kind)

(***************************************************************************)
(* The closing handshake begins, or is answered; its timer replaces the    *)
(* current one.                                                            *)
(***************************************************************************)
send_close_frame(kind) ==
    /\ Made({"close", "terminal"}) < MaxCloses
    /\ m_state' = "closing"
    /\ SetTimer
    /\ write_push(kind)

(* Mutation: close does not ask whether the connection is closed already. *)
closeAgain ==
    /\ m_state # "connecting"
    /\ send_close_frame("close")
    /\ UNCHANGED <<tls, m_internal_state, pending, shutdowns, calls>>

(* close, with a code of the user; refused unless the connection is open. *)
close ==
    /\ m_state = "open"
    /\ send_close_frame("close")
    /\ UNCHANGED <<tls, m_internal_state, pending, shutdowns, calls>>

(* What one write takes: all that is queued, but nothing after a terminal. *)
Batch ==
    LET last == SelectInSeq(m_send_queue, LAMBDA f : f.kind = "terminal")
    IN  IF last = 0 THEN m_send_queue ELSE SubSeq(m_send_queue, 1, last)

(* The posted call: a write that is under way makes it return at once. *)
write_frame ==
    /\ dispatched > 0
    /\ dispatched' = dispatched - 1
    /\ IF m_write_flag \/ m_send_queue = <<>>
       THEN UNCHANGED <<writeVars, pending>>
       ELSE LET msgs == m_current_msgs \o Batch
            IN  /\ m_current_msgs' = msgs
                /\ m_send_queue' =
                       SubSeq(m_send_queue, Len(Batch) + 1, Len(m_send_queue))
                /\ m_write_flag' = TRUE
                /\ wire' = wire \o msgs
                /\ pending' = pending \cup {"write"}
    /\ UNCHANGED <<stateVars, timerVars, shutdowns, calls>>

(* Mutation: what was queued during the write is not asked for. *)
writeForgets ==
    /\ "write" \in pending
    /\ m_current_msgs' = <<>>
    /\ \/ /\ Fails("write")
          /\ UNCHANGED m_write_flag
       \/ /\ Last(m_current_msgs).kind # "terminal"
          /\ m_write_flag' = FALSE
          /\ Drop("write")
    /\ UNCHANGED <<tls, m_internal_state, m_send_queue, wire, dispatched>>

(***************************************************************************)
(* A write is over.  After an error or a terminal frame the flag stays     *)
(* set: nothing is written any more.                                       *)
(***************************************************************************)
handle_write_frame ==
    /\ "write" \in pending
    /\ m_current_msgs' = <<>>
    /\ \/ /\ Fails("write")
          /\ UNCHANGED <<m_write_flag, dispatched>>
       \/ /\ Last(m_current_msgs).kind # "terminal"
          /\ m_write_flag' = FALSE
          /\ dispatched' = IF m_send_queue = <<>> THEN dispatched ELSE dispatched + 1
          /\ Drop("write")
    /\ UNCHANGED <<tls, m_internal_state, m_send_queue, wire>>

-----------------------------------------------------------------------------
(* Reading *)

(* The read fails or ends: in every state terminate is called or idle. *)
read_fails ==
    /\ "read" \in pending
    /\ Fails("read")
    /\ UNCHANGED <<tls, m_internal_state, dispatched, writeVars>>

(* A message: the user's message handler, unless the closing has begun. *)
read_message ==
    /\ "read" \in pending
    /\ m_state = "open"
    /\ calls["message"] < MaxMessages
    /\ calls' = Called(calls, "message")
    /\ UNCHANGED <<stateVars, pending, dispatched, timerVars, shutdowns, writeVars>>

(* A ping is answered unless the closing has begun. *)
read_ping ==
    /\ "read" \in pending
    /\ m_state = "open"
    /\ Made({"pong"}) < MaxPongs
    /\ write_push("pong")
    /\ UNCHANGED <<stateVars, pending, timerVars, shutdowns, calls>>

(***************************************************************************)
(* The peer's close frame.  It is acknowledged when it begins the closing  *)
(* handshake; one with an invalid code or reason, whenever it comes before *)
(* the connection is closed (1995, 2013).  An acknowledgement of our own   *)
(* close is awaited no further: a client leaves the socket to the server   *)
(* or to the timer.                                                        *)
(***************************************************************************)
read_close ==
    /\ "read" \in pending
    /\ m_state \in {"open", "closing"}
    /\ send_close_frame("close")
    /\ UNCHANGED <<tls, m_internal_state, pending, shutdowns, calls>>

(***************************************************************************)
(* Bytes that are no frame: the connection is closed with a terminal code, *)
(* or, when the closing has begun, terminated; nothing more is read.       *)
(***************************************************************************)
read_violation ==
    /\ "read" \in pending
    /\ \/ /\ m_state = "open"
          /\ send_close_frame("terminal")
          /\ pending' = pending \ {"read"}
          /\ UNCHANGED <<shutdowns, calls>>
       \/ /\ m_state # "open"
          /\ Fails("read")
          /\ UNCHANGED <<dispatched, writeVars>>
    /\ UNCHANGED <<tls, m_internal_state>>

-----------------------------------------------------------------------------
(* Timers, the end of the shutdown, leftovers *)

(* 5 s have passed (core_client.hpp:160-162): the handler is queued. *)
expire(t) ==
    /\ timers[t] = "armed"
    /\ timers' = [timers EXCEPT ![t] = "fired"]
    /\ UNCHANGED <<stateVars, pending, dispatched, m_handshake_timer, shutdowns,
                   writeVars, calls>>

(***************************************************************************)
(* handle_open_handshake_timeout, handle_close_handshake_timeout: both end *)
(* the connection, whatever has become of the handshake they were set for; *)
(* a cancelled timer's handler does nothing.                               *)
(***************************************************************************)
handle_timeout(t) ==
    /\ timers[t] \in {"fired", "aborted"}
    /\ LET over == [timers EXCEPT ![t] = "done"]
       IN  IF timers[t] = "fired"
           THEN terminate(pending, over)
           ELSE /\ timers' = over
                /\ UNCHANGED <<m_state, m_handshake_timer, pending, shutdowns, calls>>
    /\ UNCHANGED <<tls, m_internal_state, dispatched, writeVars>>

(* Mutation: the shutdown's end and its timeout both call back. *)
shutdownTwice(status) ==
    /\ m_state = "closed"
    /\ shutdowns' = [shutdowns EXCEPT ![status] = @ - 1]
    /\ calls' = handle_terminate(calls, status)
    /\ pending' = pending \cup {"cancelled"}
    /\ UNCHANGED <<stateVars, dispatched, timerVars, writeVars>>

(* The TLS shutdown is over, or has timed out. *)
handle_async_shutdown(status) ==
    /\ shutdowns[status] > 0
    /\ shutdowns' = [shutdowns EXCEPT ![status] = @ - 1]
    /\ calls' = handle_terminate(calls, status)
    /\ pending' = pending \cup {"cancelled"}
    /\ UNCHANGED <<stateVars, dispatched, timerVars, writeVars>>

(* The handlers of cancelled operations run, and do nothing. *)
leftovers ==
    /\ "cancelled" \in pending
    /\ pending' = pending \ {"cancelled"}
    /\ UNCHANGED <<stateVars, dispatched, timerVars, shutdowns, writeVars, calls>>

-----------------------------------------------------------------------------
(* The specification *)

(* No handler holds the connection any more. *)
Idle ==
    /\ pending = {}
    /\ dispatched = 0
    /\ \A s \in TerminateStatus : shutdowns[s] = 0
    /\ \A t \in DOMAIN timers : timers[t] = "done"

(* The connection is over and nothing refers to it. *)
Gone == m_state = "closed" /\ Idle /\ UNCHANGED vars

Opening ==
    \/ handle_connect \/ handle_transport_init
    \/ handle_send_http_request \/ handle_read_http_response

Reading == read_fails \/ read_message \/ read_ping \/ read_close \/ read_violation

Script == connect \/ send \/ close

Next ==
    \/ Script
    \/ Opening
    \/ Reading
    \/ write_frame \/ handle_write_frame
    \/ \E t \in DOMAIN timers : expire(t) \/ handle_timeout(t)
    \/ \E s \in TerminateStatus : handle_async_shutdown(s)
    \/ leftovers
    \/ Gone

Spec == Init /\ [][Next]_vars

(***************************************************************************)
(* Fairness.  Whoever polls runs the handlers that are queued; timers      *)
(* expire; connect, init and the TLS shutdown end, having timers of their  *)
(* own (AsioConnect.tla).  Of a live connection's reads and writes nothing *)
(* is assumed: the peer may be silent for ever.  Those of a closed one     *)
(* end, because its socket was shut down.                                  *)
(***************************************************************************)
Fairness ==
    /\ WF_vars(handle_connect)
    /\ WF_vars(handle_transport_init)
    /\ WF_vars(write_frame)
    /\ WF_vars(leftovers)
    /\ WF_vars(\E t \in DOMAIN timers : expire(t))
    /\ WF_vars(\E t \in DOMAIN timers : handle_timeout(t))
    /\ WF_vars(\E s \in TerminateStatus : handle_async_shutdown(s))
    /\ WF_vars(m_state = "closed" /\ (Opening \/ read_fails \/ handle_write_frame))

FairSpec == Spec /\ Fairness

-----------------------------------------------------------------------------
(* Safety *)

(***************************************************************************)
(* A timer runs, or its handler is queued, in every state that waits for   *)
(* the peer to do its part of a handshake (connection_impl.hpp:2130: "so   *)
(* we don't wait forever"), however timers were replaced before; and a     *)
(* closed connection's timer pointer is null.                              *)
(***************************************************************************)
Live(t) == t \in DOMAIN timers /\ timers[t] \in {"armed", "fired"}

WaitsForPeer ==
    \/ m_state = "closing"
    \/ m_state = "connecting"
          /\ m_internal_state \in {"WRITE_HTTP_REQUEST", "READ_HTTP_RESPONSE"}

WaitsAreBounded ==
    /\ WaitsForPeer => Live(m_handshake_timer)
    /\ m_state = "closed" => m_handshake_timer = 0

(***************************************************************************)
(* No frame is left behind: while the connection lives, a frame in the     *)
(* queue has a posted write_frame or the handler of a write before it.     *)
(***************************************************************************)
NoFrameLeftBehind ==
    m_state # "closed" /\ m_send_queue # <<>> => dispatched > 0 \/ "write" \in pending

(***************************************************************************)
(* On the wire: frames in the order they were made, none twice and none    *)
(* skipped, whatever writes, pongs and messages overlap; no message and no *)
(* pong after a close frame; and nothing after a terminal one.             *)
(***************************************************************************)
Pushed == wire \o m_send_queue

FramesInOrder == \A i \in DOMAIN Pushed : Pushed[i].n = i

QuietAfterClose ==
    \A i, j \in DOMAIN Pushed :
        i < j /\ Pushed[i].kind \in {"close", "terminal"} =>
            Pushed[j].kind \in {"close", "terminal"}

TerminalIsLast == \A i \in DOMAIN wire : wire[i].kind = "terminal" => i = Len(wire)

WireInOrder == FramesInOrder /\ QuietAfterClose /\ TerminalIsLast

(***************************************************************************)
(* "The close handler will be called exactly once for every connection for *)
(* which the open handler was called" (connection.hpp:69), and open at     *)
(* most once: whatever timers, failures and the peer do, and also when a   *)
(* failed connection is opened all the same.                               *)
(***************************************************************************)
HandlersOnce ==
    /\ calls["open"] <= 1
    /\ calls["fail"] <= 1
    /\ calls["close"] + shutdowns["closed"] <= calls["open"]
    /\ m_state \in {"open", "closing"} => calls["close"] = 0

-----------------------------------------------------------------------------
(* The inductive invariant behind these *)

(***************************************************************************)
(* While connecting, the transport owes the one operation that the         *)
(* internal state names, no timer runs before the request is sent, and     *)
(* nothing is queued; so the handlers' invalid_state branches              *)
(* (connection_impl.hpp:745, 1502, 1557) are never taken.                  *)
(***************************************************************************)
Expected ==
    [USER_INIT |-> "connect", TRANSPORT_INIT |-> "init",
     WRITE_HTTP_REQUEST |-> "request", READ_HTTP_RESPONSE |-> "response"]

HandshakeInStep ==
    /\ m_state = "connecting" =>
        /\ m_internal_state \in DOMAIN Expected
        /\ pending \subseteq {Expected[m_internal_state], "cancelled"}
        /\ m_internal_state = "USER_INIT" => "cancelled" \notin pending
        /\ m_internal_state \in {"USER_INIT", "TRANSPORT_INIT"} => timers = <<>>
        /\ m_send_queue = <<>>
    /\ m_state # "connecting" => {"connect", "init"} \cap pending = {}

(* Of a connection's handlers: how many have run, and how many are to come. *)
HandlersInStep ==
    /\ calls["fail"] + shutdowns["failed"] <= 1
    /\ calls["close"] + shutdowns["closed"] <= calls["open"]
    /\ calls["open"] <= 1
    /\ m_state = "connecting" =>
        calls["open"] = 0 /\ calls["fail"] + shutdowns["failed"] = 0
    /\ m_state \in {"open", "closing"} =>
        calls["open"] = 1 /\ calls["close"] + shutdowns["closed"] = 0

(* m_write_flag means that a write's handler will see the queue. *)
FlagMeansWrite == m_state # "closed" => (m_write_flag <=> "write" \in pending)

(***************************************************************************)
(* The wire and the queue: no close frame before the closing begins, the   *)
(* frames of the write under way are the wire's last ones, and the write   *)
(* flag of a write that ended in a terminal frame stays set.               *)
(***************************************************************************)
FramesInStep ==
    /\ WireInOrder
    /\ m_state \in {"connecting", "open"} =>
        \A i \in DOMAIN Pushed : Pushed[i].kind \notin {"close", "terminal"}
    /\ ~m_write_flag => m_current_msgs = <<>>
    /\ "write" \in pending =>
        /\ m_write_flag
        /\ Len(m_current_msgs) > 0 /\ Len(wire) > 0
        /\ Last(m_current_msgs) = Last(wire)
    /\ \A i \in DOMAIN wire : wire[i].kind = "terminal" => m_write_flag

IInv ==
    /\ TypeOK
    /\ HandshakeInStep
    /\ HandlersInStep
    /\ FlagMeansWrite
    /\ FramesInStep
    /\ WaitsAreBounded
    /\ NoFrameLeftBehind

-----------------------------------------------------------------------------
(* The life of the connection *)

phase ==
    CASE m_state = "connecting" ->
            IF m_internal_state = "USER_INIT" /\ pending = {} THEN "none"
            ELSE "connecting"
      [] m_state = "open" -> "open"
      [] m_state = "closing" -> "closing"
      [] OTHER ->
            IF shutdowns["closed"] > 0 THEN "closing"
            ELSE IF Idle THEN "gone" ELSE "terminated"

Life == INSTANCE ConnectionLife

(* A connection begins, opens and ends once, and in that order. *)
ImplementsLife == Life!Spec

(***************************************************************************)
(* Every handshake and every shutdown ends, and so does every connection   *)
(* that was closed, though the peer may never say anything again.          *)
(***************************************************************************)
HandshakesEnd == Life!PhasesEnd
=============================================================================
