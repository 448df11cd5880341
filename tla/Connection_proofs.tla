--------------------------- MODULE Connection_proofs ---------------------------
(***************************************************************************)
(* Proofs about Connection.tla, for any number of messages, pings, close   *)
(* frames and timers.                                                      *)
(***************************************************************************)
EXTENDS Connection, SequenceTheorems, NaturalsInduction, WellFoundedInduction, TLAPS

-----------------------------------------------------------------------------
(* Sequences *)

LEMMA AppendType ==
    ASSUME NEW S, NEW s \in Seq(S), NEW e \in S
    PROVE  /\ Append(s, e) \in Seq(S)
           /\ Len(Append(s, e)) = Len(s) + 1
           /\ \A i \in DOMAIN s : Append(s, e)[i] = s[i]
           /\ Append(s, e)[Len(s) + 1] = e
           /\ Append(s, e) # <<>>
OBVIOUS

LEMMA ExceptType ==
    ASSUME NEW S, NEW s \in Seq(S), NEW i, NEW e, i \in DOMAIN s => e \in S
    PROVE  /\ [s EXCEPT ![i] = e] \in Seq(S)
           /\ DOMAIN [s EXCEPT ![i] = e] = DOMAIN s
           /\ \A j \in DOMAIN s :
                [s EXCEPT ![i] = e][j] = IF j = i THEN e ELSE s[j]
<1>1. CASE i \in DOMAIN s
    BY <1>1, ExceptSeq, LenProperties
<1>2. CASE i \notin DOMAIN s
    <2>1. [s EXCEPT ![i] = e] = s
        BY <1>2, LenProperties
    <2> QED BY <1>2, <2>1
<1> QED BY <1>1, <1>2

-----------------------------------------------------------------------------
(* The helpers the handlers are built from *)

LEMMA TimersType ==
    ASSUME TypeOK
    PROVE  /\ DOMAIN timers = 1..Len(timers) /\ Len(timers) \in Nat
           /\ \A t \in DOMAIN timers : timers[t] \in TimerStates
BY LenProperties, ElementOfSeq DEF TypeOK

(* Cancelling touches the current timer only. *)
LEMMA CancelledType ==
    ASSUME TypeOK, NEW ts \in Seq(TimerStates)
    PROVE  Cancelled(ts) \in Seq(TimerStates)
<1>1. m_handshake_timer \in DOMAIN ts =>
        (IF ts[m_handshake_timer] = "armed" THEN "aborted" ELSE ts[m_handshake_timer])
            \in TimerStates
    BY LenProperties, ElementOfSeq DEF TimerStates
<1>2. [ts EXCEPT ![m_handshake_timer] =
          IF ts[m_handshake_timer] = "armed" THEN "aborted" ELSE ts[m_handshake_timer]]
        \in Seq(TimerStates)
    BY <1>1, ExceptType
<1> QED BY <1>2 DEF Cancelled

(* A new timer is live. *)
LEMMA SetTimerLive ==
    ASSUME TypeOK, SetTimer
    PROVE  /\ timers' \in Seq(TimerStates)
           /\ m_handshake_timer' \in Nat
           /\ Live(m_handshake_timer)'
<1>1. "armed" \in TimerStates
    BY DEF TimerStates
<1>2. /\ timers' = Append(timers, "armed")
      /\ m_handshake_timer' = Len(timers) + 1
    BY DEF SetTimer
<1>3. timers' \in Seq(TimerStates) /\ Len(timers') = Len(timers) + 1
    BY <1>1, <1>2, AppendType DEF TypeOK
<1>4. DOMAIN timers' = 1..(Len(timers) + 1) /\ timers'[Len(timers) + 1] = "armed"
    BY <1>1, <1>2, <1>3, AppendType, LenProperties DEF TypeOK
<1> QED BY <1>2, <1>3, <1>4, TimersType DEF Live

(* A shutdown is under way or over, and counts for one handler. *)
LEMMA ShutdownEffect ==
    ASSUME TypeOK, NEW status \in TerminateStatus, NEW ops,
           NEW c \in [Handlers -> Nat], async_shutdown(status, c, ops)
    PROVE  /\ ops \subseteq pending' /\ pending' \subseteq ops \cup {"cancelled"}
           /\ \/ /\ shutdowns' = [shutdowns EXCEPT ![status] = @ + 1]
                 /\ calls' = c
              \/ /\ calls' = handle_terminate(c, status)
                 /\ shutdowns' = shutdowns
                 /\ "cancelled" \in pending'
BY DEF async_shutdown

LEMMA CalledType ==
    ASSUME NEW c \in [Handlers -> Nat], NEW h \in Handlers
    PROVE  /\ Called(c, h) \in [Handlers -> Nat]
           /\ Called(c, h)[h] = c[h] + 1
           /\ \A g \in Handlers \ {h} : Called(c, h)[g] = c[g]
BY DEF Called

LEMMA HandleTerminateType ==
    ASSUME NEW c \in [Handlers -> Nat], NEW status \in TerminateStatus
    PROVE  /\ handle_terminate(c, status) \in [Handlers -> Nat]
           /\ status = "failed" => handle_terminate(c, status) = Called(c, "fail")
           /\ status = "closed" => handle_terminate(c, status) = Called(c, "close")
BY CalledType DEF handle_terminate, TerminateStatus, Handlers

(* What terminate leaves, whoever calls it. *)
LEMMA TerminateType ==
    ASSUME TypeOK, NEW ops \in SUBSET Operations, NEW ts \in Seq(TimerStates),
           terminate(ops, ts)
    PROVE  /\ m_state' = "closed"
           /\ m_handshake_timer' = 0
           /\ timers' \in Seq(TimerStates)
           /\ ops \subseteq pending' /\ pending' \subseteq ops \cup {"cancelled"}
           /\ shutdowns' \in [TerminateStatus -> Nat]
           /\ calls' \in [Handlers -> Nat]
<1>1. timers' \in Seq(TimerStates)
    BY CancelledType DEF terminate
<1>2. CASE m_state = "closed"
    BY <1>1, <1>2 DEF terminate, TypeOK
<1>3. CASE m_state # "closed"
    <2>1. PICK status \in TerminateStatus : async_shutdown(status, calls, ops)
        BY <1>3 DEF terminate, TerminateStatus
    <2>2. calls \in [Handlers -> Nat] /\ shutdowns \in [TerminateStatus -> Nat]
        BY DEF TypeOK
    <2>3. /\ ops \subseteq pending' /\ pending' \subseteq ops \cup {"cancelled"}
          /\ \/ /\ shutdowns' = [shutdowns EXCEPT ![status] = @ + 1]
                /\ calls' = calls
             \/ /\ calls' = handle_terminate(calls, status)
                /\ shutdowns' = shutdowns
        BY <2>1, <2>2, ShutdownEffect
    <2>4. calls' \in [Handlers -> Nat]
        BY <2>2, <2>3, HandleTerminateType
    <2>5. shutdowns' \in [TerminateStatus -> Nat]
        BY <2>2, <2>3
    <2> QED BY <1>1, <2>3, <2>4, <2>5 DEF terminate
<1> QED BY <1>2, <1>3

(* A handler of an operation that fails, or finds the connection closed. *)
LEMMA FailsType ==
    ASSUME TypeOK, NEW op, Fails(op)
    PROVE  /\ m_state' = "closed"
           /\ m_handshake_timer' = 0
           /\ timers' \in Seq(TimerStates)
           /\ pending \ {op} \subseteq pending'
           /\ pending' \subseteq (pending \ {op}) \cup {"cancelled"}
           /\ shutdowns' \in [TerminateStatus -> Nat]
           /\ calls' \in [Handlers -> Nat]
BY TerminateType DEF Fails, TypeOK

LEMMA WritePushEffect ==
    ASSUME TypeOK, NEW kind \in {"data", "pong", "close", "terminal"}, write_push(kind)
    PROVE  /\ m_send_queue' \in Seq(Frames)
           /\ dispatched' \in Nat
           /\ m_write_flag \/ dispatched' > 0
<1>1. wire \o m_send_queue \in Seq(Frames)
    BY ConcatProperties DEF TypeOK
<1>2. [kind |-> kind, n |-> Len(wire \o m_send_queue) + 1] \in Frames
    BY <1>1, LenProperties DEF Frames
<1>3. m_send_queue' \in Seq(Frames)
    BY <1>2, AppendType DEF write_push, TypeOK
<1> QED BY <1>3 DEF write_push, TypeOK

(* A set of naturals has its least element. *)
LEMMA MinNat ==
    ASSUME NEW I, I \subseteq Nat, I # {}
    PROVE  Min(I) \in I /\ \A i \in I : Min(I) <= i
<1>1. IsWellFoundedOn(OpToRel(<, Nat), Nat)
    BY NatLessThanWellFounded
<1>2. PICK x \in I : \A y \in I : ~(<<y, x>> \in OpToRel(<, Nat))
    BY <1>1, WFMin, Zenon
<1>3. ASSUME NEW y \in I, y < x
      PROVE  FALSE
    <2>1. <<y, x>> \in Nat \X Nat /\ <<y, x>>[1] < <<y, x>>[2]
        BY <1>3
    <2>2. <<y, x>> \in OpToRel(<, Nat)
        BY <2>1, Zenon DEF OpToRel
    <2> QED BY <1>2, <2>2
<1>4. \A y \in I : x <= y
    BY <1>3
<1> QED BY <1>2, <1>4 DEF Min

(* What a write takes is a prefix of the queue, up to the first terminal. *)
LEMMA BatchPrefix ==
    ASSUME TypeOK
    PROVE  \E k \in 0..Len(m_send_queue) :
               /\ Batch = SubSeq(m_send_queue, 1, k)
               /\ m_send_queue # <<>> => k > 0
               /\ \A i \in 1..k : m_send_queue[i].kind = "terminal" => i = k
<1> DEFINE I == {i \in 1..Len(m_send_queue) : m_send_queue[i].kind = "terminal"}
<1>1. m_send_queue \in Seq(Frames) /\ Len(m_send_queue) \in Nat
    BY LenProperties DEF TypeOK
<1>2. Batch = IF I # {} /\ Min(I) # 0 THEN SubSeq(m_send_queue, 1, Min(I))
              ELSE m_send_queue
    BY DEF Batch, SelectInSeq
<1>3. I \subseteq 1..Len(m_send_queue)
    OBVIOUS
<1> HIDE DEF I
<1>4. CASE I = {}
    <2>1. m_send_queue = SubSeq(m_send_queue, 1, Len(m_send_queue))
        BY <1>1, SubSeqFull
    <2>2. m_send_queue # <<>> => Len(m_send_queue) > 0
        BY <1>1
    <2>3. Len(m_send_queue) \in 0..Len(m_send_queue)
        BY <1>1
    <2>4. \A i \in 1..Len(m_send_queue) : m_send_queue[i].kind # "terminal"
        BY <1>4 DEF I
    <2> QED BY <1>2, <1>4, <2>1, <2>2, <2>3, <2>4
<1>5. CASE I # {}
    <2>1. I \subseteq Nat
        BY <1>1, <1>3
    <2>2. Min(I) \in 1..Len(m_send_queue)
        BY <1>3, <1>5, <2>1, MinNat
    <2>3. \A i \in 1..Min(I) : m_send_queue[i].kind = "terminal" => i = Min(I)
        <3>1. \A i \in 1..Len(m_send_queue) :
                m_send_queue[i].kind = "terminal" => i \in I
            BY DEF I
        <3>2. \A i \in I : Min(I) <= i
            BY <1>5, <2>1, MinNat
        <3> QED BY <1>1, <2>2, <3>1, <3>2
    <2>4. Min(I) \in 0..Len(m_send_queue) /\ Min(I) > 0
        BY <1>1, <2>2
    <2>5. Batch = SubSeq(m_send_queue, 1, Min(I))
        BY <1>2, <1>5, <2>4
    <2> QED BY <2>3, <2>4, <2>5
<1> QED BY <1>4, <1>5

-----------------------------------------------------------------------------
(* Types *)

LEMMA TypeInit == Init => TypeOK
<1>1. <<>> \in Seq(TimerStates) /\ <<>> \in Seq(Frames)
    OBVIOUS
<1>2. /\ [t \in TerminateStatus |-> 0] \in [TerminateStatus -> Nat]
      /\ [h \in Handlers |-> 0] \in [Handlers -> Nat]
    OBVIOUS
<1>3. ASSUME Init
      PROVE  /\ timers \in Seq(TimerStates) /\ m_send_queue \in Seq(Frames)
             /\ m_current_msgs \in Seq(Frames) /\ wire \in Seq(Frames)
             /\ shutdowns \in [TerminateStatus -> Nat]
             /\ calls \in [Handlers -> Nat]
    BY <1>1, <1>2, <1>3 DEF Init
<1>4. ASSUME Init
      PROVE  /\ m_state \in States /\ m_internal_state \in InternalStates
             /\ pending \subseteq Operations /\ dispatched \in Nat
             /\ m_handshake_timer \in Nat
    BY <1>4 DEF Init, States, InternalStates
<1>5. Init => tls \in BOOLEAN /\ m_write_flag \in BOOLEAN
    BY DEF Init
<1> QED BY <1>3, <1>4, <1>5 DEF TypeOK

LEMMA TypeOpening ==
    ASSUME TypeOK, Opening
    PROVE  TypeOK'
<1> USE DEF stateVars, timerVars, writeVars
<1>1. {"connect", "init", "request", "response", "read", "cancelled"} \subseteq Operations
    BY DEF Operations
<1>2. timers \in Seq(TimerStates)
    BY DEF TypeOK
<1>3. CASE handle_connect
    <2>1. CASE terminate(Finished("connect"), timers) /\ UNCHANGED m_internal_state
        <3>1. Finished("connect") \in SUBSET Operations
            BY <1>1 DEF TypeOK, Finished
        <3>2. /\ m_state' = "closed" /\ m_handshake_timer' = 0
              /\ timers' \in Seq(TimerStates)
              /\ pending' \subseteq Finished("connect") \cup {"cancelled"}
              /\ shutdowns' \in [TerminateStatus -> Nat]
              /\ calls' \in [Handlers -> Nat]
            BY <1>2, <2>1, <3>1, TerminateType
        <3> QED BY <1>1, <1>3, <2>1, <3>1, <3>2 DEF handle_connect, TypeOK, States
    <2>2. CASE tls /\ m_internal_state' = "TRANSPORT_INIT" /\ UNCHANGED timerVars
               /\ pending' = Finished("connect") \cup {"init"}
               /\ UNCHANGED <<m_state, shutdowns, calls>>
        BY <1>1, <1>3, <2>2 DEF handle_connect, TypeOK, InternalStates, Finished
    <2>3. CASE send_http_request(Finished("connect")) /\ UNCHANGED <<m_state, shutdowns, calls>>
        BY <1>1, <1>3, <2>3, SetTimerLive
        DEF handle_connect, send_http_request, TypeOK, InternalStates, Finished
    <2> QED BY <1>3, <2>1, <2>2, <2>3 DEF handle_connect
<1>4. CASE handle_transport_init
    <2>1. CASE terminate(Finished("init"), timers) /\ UNCHANGED m_internal_state
        <3>1. Finished("init") \in SUBSET Operations
            BY <1>1 DEF TypeOK, Finished
        <3>2. /\ m_state' = "closed" /\ m_handshake_timer' = 0
              /\ timers' \in Seq(TimerStates)
              /\ pending' \subseteq Finished("init") \cup {"cancelled"}
              /\ shutdowns' \in [TerminateStatus -> Nat]
              /\ calls' \in [Handlers -> Nat]
            BY <1>2, <2>1, <3>1, TerminateType
        <3> QED BY <1>1, <1>4, <2>1, <3>1, <3>2 DEF handle_transport_init, TypeOK, States
    <2>2. CASE send_http_request(Finished("init")) /\ UNCHANGED <<m_state, shutdowns, calls>>
        BY <1>1, <1>4, <2>2, SetTimerLive
        DEF handle_transport_init, send_http_request, TypeOK, InternalStates, Finished
    <2> QED BY <1>4, <2>1, <2>2 DEF handle_transport_init
<1>5. CASE handle_send_http_request
    <2>1. CASE Fails("request") /\ UNCHANGED m_internal_state
        BY <1>1, <1>5, <2>1, FailsType DEF handle_send_http_request, TypeOK, States
    <2>2. CASE ~(Fails("request") /\ UNCHANGED m_internal_state)
        BY <1>1, <1>5, <2>2 DEF handle_send_http_request, Drop, TypeOK, InternalStates
    <2> QED BY <1>5, <2>1, <2>2 DEF handle_send_http_request
<1>6. CASE handle_read_http_response
    <2>1. CASE Fails("response") /\ UNCHANGED m_internal_state
        BY <1>1, <1>6, <2>1, FailsType DEF handle_read_http_response, TypeOK, States
    <2>2. CASE Drop("response") /\ UNCHANGED m_internal_state
        BY <1>1, <1>6, <2>2 DEF handle_read_http_response, Drop, TypeOK
    <2>3. CASE m_state = "connecting" /\ m_state' = "open"
        <3> DEFINE ops == (pending \ {"response"}) \cup {"read"}
                   opened == Called(calls, "open")
        <3>1. opened \in [Handlers -> Nat] /\ "failed" \in TerminateStatus
            BY CalledType DEF TypeOK, Handlers, TerminateStatus
        <3>2. /\ m_internal_state' = "PROCESS_CONNECTION"
              /\ timers' = Cancelled(timers)
              /\ m_handshake_timer' = 0
              /\ \/ calls' = opened /\ pending' = ops /\ UNCHANGED shutdowns
                 \/ async_shutdown("failed", opened, ops)
            BY <1>6, <2>3 DEF handle_read_http_response, Fails, Drop, terminate
        <3>3. ops \subseteq Operations
            BY <1>1 DEF TypeOK
        <3>4. timers' \in Seq(TimerStates)
            BY <1>2, <3>2, CancelledType
        <3>5. /\ calls' \in [Handlers -> Nat]
              /\ shutdowns' \in [TerminateStatus -> Nat]
              /\ pending' \subseteq Operations
            <4>1. CASE calls' = opened /\ pending' = ops /\ UNCHANGED shutdowns
                BY <3>1, <3>3, <4>1 DEF TypeOK
            <4>2. CASE async_shutdown("failed", opened, ops)
                <5>1. /\ pending' \subseteq ops \cup {"cancelled"}
                      /\ \/ /\ shutdowns' = [shutdowns EXCEPT !["failed"] = @ + 1]
                            /\ calls' = opened
                         \/ /\ calls' = handle_terminate(opened, "failed")
                            /\ shutdowns' = shutdowns
                    BY <3>1, <4>2, ShutdownEffect
                <5>2. handle_terminate(opened, "failed") \in [Handlers -> Nat]
                    BY <3>1, HandleTerminateType
                <5> QED BY <1>1, <3>1, <3>3, <5>1, <5>2 DEF TypeOK
            <4> QED BY <3>2, <4>1, <4>2
        <3> QED BY <1>6, <2>3, <3>2, <3>4, <3>5
                DEF handle_read_http_response, TypeOK, States, InternalStates
    <2> QED BY <1>6, <2>1, <2>2, <2>3 DEF handle_read_http_response
<1> QED BY <1>3, <1>4, <1>5, <1>6 DEF Opening

LEMMA TypeWriting ==
    ASSUME TypeOK, Script \/ write_frame \/ handle_write_frame
    PROVE  TypeOK'
<1> USE DEF stateVars, timerVars, writeVars
<1>1. CASE connect
    BY <1>1 DEF connect, TypeOK, Operations
<1>2. CASE send
    BY <1>2, WritePushEffect DEF send, write_push, TypeOK
<1>3. CASE close
    BY <1>3, WritePushEffect, SetTimerLive
    DEF close, send_close_frame, write_push, TypeOK, States
<1>4. CASE write_frame
    <2>1. PICK k \in 0..Len(m_send_queue) : Batch = SubSeq(m_send_queue, 1, k)
        BY BatchPrefix
    <2>2. m_send_queue \in Seq(Frames) /\ Len(m_send_queue) \in Nat
        BY LenProperties DEF TypeOK
    <2>3. Batch \in Seq(Frames) /\ Len(Batch) = k
        BY <2>1, <2>2
    <2>4. SubSeq(m_send_queue, Len(Batch) + 1, Len(m_send_queue)) \in Seq(Frames)
        BY <2>2, <2>3
    <2>5. m_current_msgs \o Batch \in Seq(Frames)
        BY <2>3, ConcatProperties DEF TypeOK
    <2>6. wire \o (m_current_msgs \o Batch) \in Seq(Frames)
        BY <2>5, ConcatProperties DEF TypeOK
    <2>7. CASE m_write_flag \/ m_send_queue = <<>>
        BY <1>4, <2>7 DEF write_frame, TypeOK
    <2>8. CASE ~(m_write_flag \/ m_send_queue = <<>>)
        <3>1. /\ dispatched' = dispatched - 1 /\ dispatched > 0 /\ m_write_flag' = TRUE
              /\ pending' = pending \cup {"write"}
            BY <1>4, <2>8 DEF write_frame
        <3>3. dispatched' \in Nat /\ pending' \subseteq Operations
            BY <3>1 DEF TypeOK, Operations
        <3>2. /\ m_current_msgs' = m_current_msgs \o Batch
              /\ m_send_queue' = SubSeq(m_send_queue, Len(Batch) + 1, Len(m_send_queue))
              /\ wire' = wire \o (m_current_msgs \o Batch)
            BY <1>4, <2>8 DEF write_frame
        <3> QED BY <1>4, <2>4, <2>5, <2>6, <3>1, <3>2, <3>3 DEF write_frame, TypeOK
    <2> QED BY <2>7, <2>8
<1>5. CASE handle_write_frame
    <2>1. <<>> \in Seq(Frames)
        OBVIOUS
    <2>2. CASE Fails("write") /\ UNCHANGED <<m_write_flag, dispatched>>
        <3>1. pending' \subseteq Operations
            BY <2>2, FailsType DEF TypeOK, Operations
        <3> QED BY <1>5, <2>1, <2>2, <3>1, FailsType DEF handle_write_frame, TypeOK, States
    <2>3. CASE ~(Fails("write") /\ UNCHANGED <<m_write_flag, dispatched>>)
        <3>1. /\ dispatched' = IF m_send_queue = <<>> THEN dispatched ELSE dispatched + 1
              /\ m_write_flag' = FALSE
              /\ m_current_msgs' = <<>>
              /\ Drop("write")
            BY <1>5, <2>3 DEF handle_write_frame
        <3>2. dispatched' \in Nat
            BY <3>1 DEF TypeOK
        <3> QED BY <1>5, <2>1, <3>1, <3>2 DEF handle_write_frame, Drop, TypeOK
    <2> QED BY <1>5, <2>2, <2>3 DEF handle_write_frame
<1> QED BY <1>1, <1>2, <1>3, <1>4, <1>5 DEF Script

LEMMA TypeReading ==
    ASSUME TypeOK, Reading
    PROVE  TypeOK'
<1> USE DEF stateVars, timerVars, writeVars
<1>1. CASE read_fails
    <2>1. pending' \subseteq Operations
        BY <1>1, FailsType DEF read_fails, TypeOK, Operations
    <2> QED BY <1>1, <2>1, FailsType DEF read_fails, TypeOK, States
<1>2. CASE read_message
    <2>1. calls' \in [Handlers -> Nat]
        BY <1>2, CalledType DEF read_message, TypeOK, Handlers
    <2> QED BY <1>2, <2>1 DEF read_message, TypeOK
<1>3. CASE read_ping
    BY <1>3, WritePushEffect DEF read_ping, write_push, TypeOK
<1>4. CASE read_close
    BY <1>4, WritePushEffect, SetTimerLive
    DEF read_close, send_close_frame, write_push, TypeOK, States
<1>5. CASE read_violation
    <2>1. CASE send_close_frame("terminal") /\ pending' = pending \ {"read"}
               /\ UNCHANGED <<shutdowns, calls>>
        BY <1>5, <2>1, WritePushEffect, SetTimerLive
        DEF read_violation, send_close_frame, write_push, TypeOK, States
    <2>2. CASE Fails("read") /\ UNCHANGED <<dispatched, writeVars>>
        <3>1. pending' \subseteq Operations
            BY <2>2, FailsType DEF TypeOK, Operations
        <3> QED BY <1>5, <2>2, <3>1, FailsType DEF read_violation, TypeOK, States
    <2> QED BY <1>5, <2>1, <2>2 DEF read_violation
<1> QED BY <1>1, <1>2, <1>3, <1>4, <1>5 DEF Reading

LEMMA TypeTimers ==
    ASSUME TypeOK, NEW t \in DOMAIN timers, expire(t) \/ handle_timeout(t)
    PROVE  TypeOK'
<1> USE DEF stateVars, timerVars, writeVars
<1>1. CASE expire(t)
    <2>1. timers' \in Seq(TimerStates)
        BY <1>1, ExceptType DEF expire, TypeOK, TimerStates
    <2> QED BY <1>1, <2>1 DEF expire, TypeOK
<1>2. CASE handle_timeout(t)
    <2> DEFINE over == [timers EXCEPT ![t] = "done"]
    <2>1. over \in Seq(TimerStates)
        BY ExceptType DEF TypeOK, TimerStates
    <2>2. CASE terminate(pending, over)
        <3>1. pending \in SUBSET Operations
            BY DEF TypeOK
        <3>2. /\ m_state' = "closed" /\ m_handshake_timer' = 0
              /\ timers' \in Seq(TimerStates)
              /\ pending' \subseteq pending \cup {"cancelled"}
              /\ shutdowns' \in [TerminateStatus -> Nat]
              /\ calls' \in [Handlers -> Nat]
            BY <2>1, <2>2, <3>1, TerminateType
        <3>3. pending' \subseteq Operations
            BY <3>1, <3>2 DEF Operations
        <3> QED BY <1>2, <3>2, <3>3 DEF handle_timeout, TypeOK, States
    <2>3. CASE timers' = over /\ UNCHANGED <<m_state, m_handshake_timer, pending,
                                            shutdowns, calls>>
        BY <1>2, <2>1, <2>3 DEF handle_timeout, TypeOK
    <2> QED BY <1>2, <2>2, <2>3 DEF handle_timeout
<1> QED BY <1>1, <1>2

LEMMA TypeEnding ==
    ASSUME TypeOK, leftovers \/ \E s \in TerminateStatus : handle_async_shutdown(s)
    PROVE  TypeOK'
<1> USE DEF stateVars, timerVars, writeVars
<1>1. CASE leftovers
    BY <1>1 DEF leftovers, TypeOK
<1>2. ASSUME NEW s \in TerminateStatus, handle_async_shutdown(s)
      PROVE  TypeOK'
    <2>1. calls' \in [Handlers -> Nat]
        BY <1>2, HandleTerminateType DEF handle_async_shutdown, TypeOK
    <2>2. shutdowns[s] - 1 \in Nat /\ shutdowns' = [shutdowns EXCEPT ![s] = @ - 1]
        BY <1>2 DEF handle_async_shutdown, TypeOK
    <2>3. shutdowns' \in [TerminateStatus -> Nat] /\ pending' \subseteq Operations
        BY <1>2, <2>2 DEF handle_async_shutdown, TypeOK, Operations
    <2> QED BY <1>2, <2>1, <2>3 DEF handle_async_shutdown, TypeOK
<1> QED BY <1>1, <1>2

LEMMA TypeStep == TypeOK /\ [Next]_vars => TypeOK'
<1> SUFFICES ASSUME TypeOK, [Next]_vars
             PROVE  TypeOK'
    OBVIOUS
<1>1. CASE UNCHANGED vars
    BY <1>1 DEF vars, stateVars, timerVars, writeVars, TypeOK
<1> QED BY <1>1, TypeOpening, TypeWriting, TypeReading, TypeTimers, TypeEnding
        DEF Next, Gone

(***************************************************************************)
(* Every variable of the connection keeps its type: whatever handlers run, *)
(* no shutdown ends twice and no timer or queue holds what it should not.  *)
(***************************************************************************)
THEOREM TypeCorrect == Spec => []TypeOK
BY TypeInit, TypeStep, PTL DEF Spec

-----------------------------------------------------------------------------
(* Each handler of the user runs once *)

LEMMA TerminateOnce ==
    ASSUME TypeOK, HandlersInStep, NEW ops, NEW ts, terminate(ops, ts)
    PROVE  HandlersInStep'
<1>1. m_state' = "closed"
    BY DEF terminate
<1>2. calls \in [Handlers -> Nat] /\ shutdowns \in [TerminateStatus -> Nat]
    BY DEF TypeOK
<1>3. CASE m_state = "closed"
    BY <1>1, <1>3 DEF terminate, HandlersInStep
<1>4. CASE m_state = "connecting"
    <2>1. "failed" \in TerminateStatus /\ async_shutdown("failed", calls, ops)
        BY <1>4 DEF terminate, TerminateStatus
    <2>2. \/ shutdowns' = [shutdowns EXCEPT !["failed"] = @ + 1] /\ calls' = calls
          \/ shutdowns' = shutdowns /\ calls' = Called(calls, "fail")
        BY <1>2, <2>1, ShutdownEffect, HandleTerminateType
    <2>3. /\ calls'["fail"] + shutdowns'["failed"] = calls["fail"] + shutdowns["failed"] + 1
          /\ calls'["close"] + shutdowns'["closed"] = calls["close"] + shutdowns["closed"]
          /\ calls'["open"] = calls["open"]
        <3>1. CASE shutdowns' = [shutdowns EXCEPT !["failed"] = @ + 1] /\ calls' = calls
            BY <1>2, <3>1 DEF Handlers, TerminateStatus
        <3>2. CASE shutdowns' = shutdowns /\ calls' = Called(calls, "fail")
            <4>1. /\ calls'["fail"] = calls["fail"] + 1
                  /\ calls'["close"] = calls["close"] /\ calls'["open"] = calls["open"]
                BY <1>2, <3>2, CalledType DEF Handlers
            <4> QED BY <1>2, <3>2, <4>1 DEF Handlers, TerminateStatus
        <3> QED BY <2>2, <3>1, <3>2
    <2> QED BY <1>1, <1>2, <1>4, <2>3 DEF HandlersInStep, Handlers, TerminateStatus
<1>5. CASE m_state \in {"open", "closing"}
    <2>1. "closed" \in TerminateStatus /\ async_shutdown("closed", calls, ops)
        BY <1>5 DEF terminate, TerminateStatus
    <2>2. \/ shutdowns' = [shutdowns EXCEPT !["closed"] = @ + 1] /\ calls' = calls
          \/ shutdowns' = shutdowns /\ calls' = Called(calls, "close")
        BY <1>2, <2>1, ShutdownEffect, HandleTerminateType
    <2>3. /\ calls'["fail"] + shutdowns'["failed"] = calls["fail"] + shutdowns["failed"]
          /\ calls'["close"] + shutdowns'["closed"] =
                 calls["close"] + shutdowns["closed"] + 1
          /\ calls'["open"] = calls["open"]
        <3>1. CASE shutdowns' = [shutdowns EXCEPT !["closed"] = @ + 1] /\ calls' = calls
            BY <1>2, <3>1 DEF Handlers, TerminateStatus
        <3>2. CASE shutdowns' = shutdowns /\ calls' = Called(calls, "close")
            <4>1. /\ calls'["close"] = calls["close"] + 1
                  /\ calls'["fail"] = calls["fail"] /\ calls'["open"] = calls["open"]
                BY <1>2, <3>2, CalledType DEF Handlers
            <4> QED BY <1>2, <3>2, <4>1 DEF Handlers, TerminateStatus
        <3> QED BY <2>2, <3>1, <3>2
    <2> QED BY <1>1, <1>2, <1>5, <2>3 DEF HandlersInStep, Handlers, TerminateStatus
<1> QED BY <1>3, <1>4, <1>5 DEF TypeOK, States

(* The connection opens, also when its shutdown has begun already. *)
LEMMA OpenOnce ==
    ASSUME TypeOK, HandlersInStep, m_state = "connecting", m_state' = "open",
           NEW ops,
           LET opened == Called(calls, "open")
           IN  \/ calls' = opened /\ UNCHANGED shutdowns
               \/ async_shutdown("failed", opened, ops)
    PROVE  HandlersInStep'
<1> DEFINE opened == Called(calls, "open")
<1>1. calls \in [Handlers -> Nat] /\ shutdowns \in [TerminateStatus -> Nat]
    BY DEF TypeOK
<1>2. /\ opened \in [Handlers -> Nat]
      /\ opened["open"] = calls["open"] + 1
      /\ opened["fail"] = calls["fail"] /\ opened["close"] = calls["close"]
    BY <1>1, CalledType DEF Handlers
<1>3. /\ Called(opened, "fail")["fail"] = opened["fail"] + 1
      /\ Called(opened, "fail")["open"] = opened["open"]
      /\ Called(opened, "fail")["close"] = opened["close"]
    BY <1>2, CalledType DEF Handlers
<1>4. \/ shutdowns' = [shutdowns EXCEPT !["failed"] = @ + 1] /\ calls' = opened
      \/ shutdowns' = shutdowns /\ calls' = Called(opened, "fail")
      \/ shutdowns' = shutdowns /\ calls' = opened
    <2>1. CASE async_shutdown("failed", opened, ops)
        BY <1>2, <2>1, ShutdownEffect, HandleTerminateType DEF TerminateStatus
    <2> QED BY <2>1
<1>5. /\ calls'["fail"] + shutdowns'["failed"] <= calls["fail"] + shutdowns["failed"] + 1
      /\ calls'["close"] + shutdowns'["closed"] = calls["close"] + shutdowns["closed"]
      /\ calls'["open"] = calls["open"] + 1
    BY <1>1, <1>2, <1>3, <1>4 DEF Handlers, TerminateStatus
<1> QED BY <1>1, <1>5 DEF HandlersInStep, Handlers, TerminateStatus

LEMMA ShutdownOnce ==
    ASSUME TypeOK, HandlersInStep, NEW s \in TerminateStatus, handle_async_shutdown(s)
    PROVE  HandlersInStep'
<1>1. calls \in [Handlers -> Nat] /\ shutdowns \in [TerminateStatus -> Nat]
    BY DEF TypeOK
<1>2. /\ shutdowns[s] > 0
      /\ shutdowns' = [shutdowns EXCEPT ![s] = @ - 1]
      /\ calls' = handle_terminate(calls, s)
      /\ m_state' = m_state
    BY DEF handle_async_shutdown, stateVars
<1>3. /\ calls'["fail"] + shutdowns'["failed"] = calls["fail"] + shutdowns["failed"]
      /\ calls'["close"] + shutdowns'["closed"] = calls["close"] + shutdowns["closed"]
      /\ calls'["open"] = calls["open"]
    <2>1. CASE s = "failed"
        <3>1. calls' = Called(calls, "fail")
            BY <1>1, <1>2, <2>1, HandleTerminateType
        <3>2. /\ calls'["fail"] = calls["fail"] + 1
              /\ calls'["close"] = calls["close"] /\ calls'["open"] = calls["open"]
            BY <1>1, <3>1, CalledType DEF Handlers
        <3>3. /\ shutdowns'["failed"] = shutdowns["failed"] - 1
              /\ shutdowns'["closed"] = shutdowns["closed"]
              /\ shutdowns["failed"] \in Nat /\ calls["fail"] \in Nat
            BY <1>1, <1>2, <2>1 DEF TerminateStatus, Handlers
        <3> QED BY <3>2, <3>3
    <2>2. CASE s = "closed"
        <3>1. calls' = Called(calls, "close")
            BY <1>1, <1>2, <2>2, HandleTerminateType
        <3>2. /\ calls'["close"] = calls["close"] + 1
              /\ calls'["fail"] = calls["fail"] /\ calls'["open"] = calls["open"]
            BY <1>1, <3>1, CalledType DEF Handlers
        <3>3. /\ shutdowns'["closed"] = shutdowns["closed"] - 1
              /\ shutdowns'["failed"] = shutdowns["failed"]
              /\ shutdowns["closed"] \in Nat /\ calls["close"] \in Nat
            BY <1>1, <1>2, <2>2 DEF TerminateStatus, Handlers
        <3> QED BY <3>2, <3>3
    <2> QED BY <2>1, <2>2 DEF TerminateStatus
<1> QED BY <1>2, <1>3 DEF HandlersInStep

LEMMA HandlersStep ==
    ASSUME TypeOK, HandlersInStep, [Next]_vars
    PROVE  HandlersInStep'
<1> USE DEF stateVars, timerVars, writeVars
<1>1. CASE \E ops, ts : terminate(ops, ts)
    BY <1>1, TerminateOnce
<1>2. CASE \E s \in TerminateStatus : handle_async_shutdown(s)
    BY <1>2, ShutdownOnce
<1>3. ASSUME UNCHANGED <<calls, shutdowns>>,
             m_state' = m_state \/ (m_state \in {"open", "closing"} /\ m_state' = "closing")
      PROVE  HandlersInStep'
    BY <1>3 DEF HandlersInStep
<1>4. CASE handle_read_http_response /\ ~\E ops, ts : terminate(ops, ts)
    <2>1. CASE Drop("response")
        BY <1>3, <2>1 DEF Drop
    <2>2. CASE ~Drop("response")
        BY <1>4, <2>2, OpenOnce DEF handle_read_http_response, Fails
    <2> QED BY <2>1, <2>2
<1>5. CASE read_message
    <2>1. /\ calls' = Called(calls, "message") /\ UNCHANGED <<m_state, shutdowns>>
          /\ calls \in [Handlers -> Nat] /\ "message" \in Handlers
        BY <1>5 DEF read_message, TypeOK, Handlers
    <2>2. \A h \in {"open", "close", "fail"} : calls'[h] = calls[h]
        <3>1. {"open", "close", "fail"} \subseteq Handlers \ {"message"}
            BY DEF Handlers
        <3>2. \A g \in Handlers \ {"message"} : Called(calls, "message")[g] = calls[g]
            BY <2>1, CalledType, Zenon
        <3> QED BY <2>1, <3>1, <3>2, Zenon
    <2> QED BY <2>1, <2>2 DEF HandlersInStep
<1>6. CASE Opening /\ ~handle_read_http_response /\ ~\E ops, ts : terminate(ops, ts)
    BY <1>3, <1>6
    DEF Opening, handle_connect, handle_transport_init, handle_send_http_request, Fails,
        Drop
<1>7. CASE Script \/ write_frame \/ leftovers \/ UNCHANGED vars
    BY <1>3, <1>7
    DEF Script, connect, send, close, send_close_frame, write_frame, leftovers, vars
<1>8. CASE (Reading \/ handle_write_frame) /\ ~read_message /\ ~\E ops, ts : terminate(ops, ts)
    BY <1>3, <1>8
    DEF Reading, read_fails, read_ping, read_close, read_violation, send_close_frame,
        handle_write_frame, Fails, Drop
<1>9. ASSUME NEW t \in DOMAIN timers, expire(t) \/ handle_timeout(t),
             ~\E ops, ts : terminate(ops, ts)
      PROVE  HandlersInStep'
    BY <1>3, <1>9 DEF expire, handle_timeout
<1> QED BY <1>1, <1>2, <1>4, <1>5, <1>6, <1>7, <1>8, <1>9 DEF Next, Gone

(***************************************************************************)
(* The open, fail and close handlers run once at most, and close exactly   *)
(* for a connection that opened, for any number of timers and failures.    *)
(***************************************************************************)
THEOREM HandlersRunOnce == Spec => []HandlersOnce
<1>1. Init => HandlersInStep
    BY DEF Init, HandlersInStep, Handlers, TerminateStatus
<1>2. TypeOK /\ HandlersInStep => HandlersOnce
    BY DEF HandlersInStep, HandlersOnce, TypeOK, Handlers, TerminateStatus
<1>3. TypeOK /\ HandlersInStep /\ [Next]_vars => HandlersInStep'
    BY HandlersStep
<1> QED BY <1>1, <1>2, <1>3, TypeCorrect, PTL DEF Spec

-----------------------------------------------------------------------------
(* The opening handshake is in step with the operations of the transport *)

(* What connecting says of the operations that are pending. *)
LEMMA ExpectedOnly ==
    ASSUME HandshakeInStep, NEW op \in pending, op # "cancelled", m_state = "connecting"
    PROVE  /\ op \in {"connect", "init", "request", "response"}
           /\ pending \subseteq {op, "cancelled"}
           /\ op = "connect" => m_internal_state = "USER_INIT" /\ pending = {"connect"}
           /\ op = "init" => m_internal_state = "TRANSPORT_INIT"
           /\ op = "request" => m_internal_state = "WRITE_HTTP_REQUEST"
           /\ op = "response" => m_internal_state = "READ_HTTP_RESPONSE"
BY DEF HandshakeInStep, Expected

(* A failed operation leaves neither connect nor init behind. *)
LEMMA FailsInStep ==
    ASSUME TypeOK, HandshakeInStep, NEW op \in pending, op # "cancelled",
           m_state' = "closed", pending' \subseteq (pending \ {op}) \cup {"cancelled"}
    PROVE  HandshakeInStep'
<1>1. {"connect", "init"} \cap pending' = {}
    <2>1. CASE m_state = "connecting"
        BY <2>1, ExpectedOnly
    <2>2. CASE m_state # "connecting"
        BY <2>2 DEF HandshakeInStep
    <2> QED BY <2>1, <2>2
<1> QED BY <1>1 DEF HandshakeInStep

LEMMA TerminateState ==
    ASSUME NEW ops, NEW ts, terminate(ops, ts)
    PROVE  m_state' = "closed" /\ pending' \subseteq ops \cup {"cancelled"}
BY DEF terminate, async_shutdown

LEMMA HandshakeOpening ==
    ASSUME TypeOK, HandshakeInStep, Opening
    PROVE  HandshakeInStep'
<1> USE DEF stateVars, timerVars, writeVars
<1>1. ASSUME NEW op \in pending, op # "cancelled", NEW ops, NEW ts, terminate(ops, ts),
             ops \subseteq (pending \ {op}) \cup {"cancelled"}
      PROVE  HandshakeInStep'
    BY <1>1, TerminateState, FailsInStep
<1>2. CASE handle_connect
    <2>1. m_state = "connecting" /\ m_internal_state = "USER_INIT" /\ pending = {"connect"}
        BY <1>2, ExpectedOnly DEF handle_connect, HandshakeInStep
    <2>2. CASE terminate(Finished("connect"), timers)
        BY <1>1, <1>2, <2>2 DEF handle_connect, Finished
    <2>3. CASE ~terminate(Finished("connect"), timers)
        <3>1. CASE tls
            BY <1>2, <2>1, <2>3, <3>1
            DEF handle_connect, HandshakeInStep, Expected, Finished
        <3>2. CASE ~tls
            BY <1>2, <2>1, <2>3, <3>2
            DEF handle_connect, send_http_request, HandshakeInStep, Expected, Finished
        <3> QED BY <3>1, <3>2
    <2> QED BY <2>2, <2>3
<1>3. CASE handle_transport_init
    <2>1. /\ m_state = "connecting" /\ pending \subseteq {"init", "cancelled"}
        BY <1>3, ExpectedOnly DEF handle_transport_init, HandshakeInStep
    <2>2. CASE terminate(Finished("init"), timers)
        BY <1>1, <1>3, <2>2 DEF handle_transport_init, Finished
    <2>3. CASE ~terminate(Finished("init"), timers)
        <3>1. /\ m_internal_state' = "WRITE_HTTP_REQUEST"
              /\ pending' = ((pending \ {"init"}) \cup {"cancelled"}) \cup {"request"}
              /\ UNCHANGED <<m_state, m_send_queue>>
            BY <1>3, <2>3 DEF handle_transport_init, send_http_request, Finished
        <3>2. m_send_queue = <<>>
            BY <2>1 DEF HandshakeInStep
        <3> QED BY <2>1, <3>1, <3>2 DEF HandshakeInStep, Expected
    <2> QED BY <2>2, <2>3
<1>4. CASE handle_send_http_request
    <2>1. CASE Fails("request")
        BY <1>1, <1>4, <2>1 DEF handle_send_http_request, Fails
    <2>2. CASE Drop("request") /\ m_state = "closed"
        BY <1>4, <2>2 DEF handle_send_http_request, Drop, HandshakeInStep
    <2>3. CASE /\ m_state = "connecting" /\ m_state' = m_state
               /\ m_internal_state' = "READ_HTTP_RESPONSE"
               /\ pending' = (pending \ {"request"}) \cup {"response"}
        <3>1. pending \subseteq {"request", "cancelled"}
            BY <1>4, <2>3, ExpectedOnly DEF handle_send_http_request
        <3>2. m_send_queue' = <<>>
            BY <1>4, <2>3 DEF handle_send_http_request, HandshakeInStep
        <3> QED BY <2>3, <3>1, <3>2 DEF HandshakeInStep, Expected
    <2> QED BY <1>4, <2>1, <2>2, <2>3 DEF handle_send_http_request
<1>5. CASE handle_read_http_response
    <2>1. CASE Fails("response")
        BY <1>1, <1>5, <2>1 DEF handle_read_http_response, Fails
    <2>2. CASE Drop("response") /\ m_state = "closed"
        BY <1>5, <2>2 DEF handle_read_http_response, Drop, HandshakeInStep
    <2>3. CASE m_state = "connecting" /\ m_state' = "open"
        <3>1. pending \subseteq {"response", "cancelled"}
            BY <1>5, <2>3, ExpectedOnly DEF handle_read_http_response
        <3>2. pending' \subseteq ((pending \ {"response"}) \cup {"read"}) \cup {"cancelled"}
            BY <1>5, <2>3, TerminateState
            DEF handle_read_http_response, Fails, Drop, async_shutdown
        <3> QED BY <2>3, <3>1, <3>2 DEF HandshakeInStep
    <2> QED BY <1>5, <2>1, <2>2, <2>3 DEF handle_read_http_response
<1> QED BY <1>2, <1>3, <1>4, <1>5 DEF Opening

LEMMA HandshakeStep ==
    ASSUME TypeOK, HandshakeInStep, HandlersInStep, [Next]_vars
    PROVE  HandshakeInStep'
<1> USE DEF stateVars, timerVars, writeVars
<1>1. ASSUME m_state # "connecting", m_state' # "connecting",
             pending' \subseteq pending \cup {"write", "cancelled"}
      PROVE  HandshakeInStep'
    BY <1>1 DEF HandshakeInStep
<1>2. CASE connect
    BY <1>2 DEF connect, HandshakeInStep, Expected
<1>3. CASE send \/ close
    BY <1>1, <1>3 DEF send, close, send_close_frame
<1>4. CASE Reading
    <2>1. m_state # "connecting"
        BY <1>4, ExpectedOnly
        DEF Reading, read_fails, read_message, read_ping, read_close, read_violation
    <2>2. m_state' # "connecting" /\ pending' \subseteq pending \cup {"write", "cancelled"}
        BY <1>4, <2>1, TerminateState
        DEF Reading, read_fails, read_message, read_ping, read_close, read_violation,
            send_close_frame, Fails
    <2> QED BY <1>1, <2>1, <2>2
<1>5. CASE write_frame \/ leftovers \/ UNCHANGED vars
    <2>1. CASE write_frame
        <3>1. CASE m_write_flag \/ m_send_queue = <<>>
            BY <2>1, <3>1 DEF write_frame, HandshakeInStep
        <3>2. CASE m_state # "connecting"
            BY <1>1, <2>1, <3>2 DEF write_frame
        <3> QED BY <3>1, <3>2 DEF HandshakeInStep
    <2> QED BY <1>5, <2>1 DEF leftovers, vars, HandshakeInStep
<1>6. CASE handle_write_frame
    <2>1. m_state # "connecting"
        BY <1>6, ExpectedOnly DEF handle_write_frame
    <2> QED BY <1>1, <1>6, <2>1, TerminateState DEF handle_write_frame, Fails, Drop
<1>7. ASSUME NEW t \in DOMAIN timers, expire(t) \/ handle_timeout(t)
      PROVE  HandshakeInStep'
    <2>1. timers # <<>>
        BY <1>7
    <2>2. {"connect", "init"} \cap pending = {}
        BY <2>1 DEF HandshakeInStep, Expected
    <2>3. CASE m_state' = "closed" /\ pending' \subseteq pending \cup {"cancelled"}
        BY <2>2, <2>3 DEF HandshakeInStep
    <2>4. CASE UNCHANGED <<m_state, m_internal_state, pending, m_send_queue>>
        BY <2>1, <2>4 DEF HandshakeInStep
    <2> QED BY <1>7, <2>3, <2>4, TerminateState DEF expire, handle_timeout
<1>8. ASSUME NEW s \in TerminateStatus, handle_async_shutdown(s)
      PROVE  HandshakeInStep'
    <2>1. m_state # "connecting"
        BY <1>8
        DEF handle_async_shutdown, HandlersInStep, TypeOK, Handlers, TerminateStatus
    <2> QED BY <1>1, <1>8, <2>1 DEF handle_async_shutdown
<1> QED BY <1>2, <1>3, <1>4, <1>5, <1>6, <1>7, <1>8, HandshakeOpening
        DEF Next, Script, Gone

-----------------------------------------------------------------------------
(* No frame is left behind *)

WritesInStep == FlagMeansWrite /\ NoFrameLeftBehind

LEMMA WritesUntouched ==
    ASSUME WritesInStep, m_state = "closed" => m_state' = "closed",
           UNCHANGED <<m_send_queue, m_write_flag, dispatched>>,
           "write" \in pending' <=> "write" \in pending
    PROVE  WritesInStep'
BY DEF WritesInStep, FlagMeansWrite, NoFrameLeftBehind

LEMMA WritesClosed ==
    ASSUME m_state' = "closed"
    PROVE  WritesInStep'
BY DEF WritesInStep, FlagMeansWrite, NoFrameLeftBehind

LEMMA WritesPushed ==
    ASSUME TypeOK, WritesInStep, m_state # "closed",
           NEW kind \in {"data", "pong", "close", "terminal"}, write_push(kind),
           "write" \in pending' <=> "write" \in pending
    PROVE  WritesInStep'
<1>1. m_write_flag' = m_write_flag /\ (m_write_flag \/ dispatched' > 0)
    BY WritePushEffect DEF write_push
<1>2. m_write_flag <=> "write" \in pending
    BY DEF WritesInStep, FlagMeansWrite
<1> QED BY <1>1, <1>2 DEF WritesInStep, FlagMeansWrite, NoFrameLeftBehind

LEMMA WritesStep ==
    ASSUME TypeOK, HandshakeInStep, WritesInStep, [Next]_vars
    PROVE  WritesInStep'
<1> USE DEF stateVars, timerVars, writeVars
<1>1. CASE \E ops, ts : terminate(ops, ts)
    BY <1>1, TerminateState, WritesClosed
<1>2. CASE Opening /\ ~\E ops, ts : terminate(ops, ts)
    <2>1. CASE handle_connect \/ handle_transport_init
        <3>1. m_state = "connecting"
            BY <2>1, ExpectedOnly DEF handle_connect, handle_transport_init, HandshakeInStep
        <3> QED BY <1>2, <2>1, <3>1, WritesUntouched
                DEF handle_connect, handle_transport_init, send_http_request, Finished
    <2>2. CASE handle_send_http_request
        BY <1>2, <2>2, WritesUntouched DEF handle_send_http_request, Fails, Drop
    <2>3. CASE handle_read_http_response
        BY <1>2, <2>3, WritesUntouched
        DEF handle_read_http_response, Fails, Drop, async_shutdown
    <2> QED BY <1>2, <2>1, <2>2, <2>3 DEF Opening
<1>3. CASE connect
    BY <1>3, WritesUntouched DEF connect
<1>4. CASE send \/ close
    BY <1>4, WritesPushed DEF send, close, send_close_frame
<1>5. CASE Reading /\ ~\E ops, ts : terminate(ops, ts)
    <2>1. CASE read_ping \/ read_close
        BY <2>1, WritesPushed DEF read_ping, read_close, send_close_frame
    <2>2. CASE read_violation
        BY <1>5, <2>2, WritesPushed DEF read_violation, send_close_frame, Fails
    <2>3. CASE read_message
        BY <2>3, WritesUntouched DEF read_message
    <2> QED BY <1>5, <2>1, <2>2, <2>3 DEF Reading, read_fails, Fails
<1>6. CASE write_frame
    <2>1. CASE m_write_flag
        <3>1. UNCHANGED <<m_state, m_send_queue, m_write_flag, pending>>
            BY <1>6, <2>1 DEF write_frame
        <3> QED BY <2>1, <3>1 DEF WritesInStep, FlagMeansWrite, NoFrameLeftBehind
    <2>2. CASE ~m_write_flag /\ m_send_queue = <<>>
        <3>1. UNCHANGED <<m_state, m_send_queue, m_write_flag, pending>>
            BY <1>6, <2>2 DEF write_frame
        <3> QED BY <2>2, <3>1 DEF WritesInStep, FlagMeansWrite, NoFrameLeftBehind
    <2>3. CASE ~m_write_flag /\ m_send_queue # <<>>
        <3>1. m_write_flag' = TRUE /\ "write" \in pending'
            BY <1>6, <2>3 DEF write_frame
        <3> QED BY <3>1 DEF WritesInStep, FlagMeansWrite, NoFrameLeftBehind
    <2> QED BY <2>1, <2>2, <2>3
<1>7. CASE handle_write_frame /\ ~\E ops, ts : terminate(ops, ts)
    <2>1. /\ m_write_flag' = FALSE /\ "write" \notin pending'
          /\ dispatched' = IF m_send_queue = <<>> THEN dispatched ELSE dispatched + 1
          /\ UNCHANGED m_send_queue
        BY <1>7 DEF handle_write_frame, Fails, Drop
    <2>2. m_send_queue # <<>> => dispatched' > 0
        BY <2>1 DEF TypeOK
    <2> QED BY <2>1, <2>2 DEF WritesInStep, FlagMeansWrite, NoFrameLeftBehind
<1>8. ASSUME NEW t \in DOMAIN timers, expire(t) \/ handle_timeout(t),
             ~\E ops, ts : terminate(ops, ts)
      PROVE  WritesInStep'
    BY <1>8, WritesUntouched DEF expire, handle_timeout
<1>9. CASE \/ leftovers \/ UNCHANGED vars
           \/ \E s \in TerminateStatus : handle_async_shutdown(s)
    BY <1>9, WritesUntouched DEF leftovers, vars, handle_async_shutdown
<1> QED BY <1>1, <1>2, <1>3, <1>4, <1>5, <1>6, <1>7, <1>8, <1>9 DEF Next, Script, Gone

-----------------------------------------------------------------------------
(* Every wait for the peer has a timer *)

LEMMA WaitsUntouched ==
    ASSUME WaitsAreBounded, UNCHANGED <<m_state, m_internal_state, timerVars>>
    PROVE  WaitsAreBounded'
BY DEF WaitsAreBounded, WaitsForPeer, Live, timerVars

LEMMA WaitsTimed ==
    ASSUME TypeOK, SetTimer, m_state' # "closed"
    PROVE  WaitsAreBounded'
BY SetTimerLive DEF WaitsAreBounded

LEMMA WaitsTimers ==
    ASSUME TypeOK, WaitsAreBounded, NEW t \in DOMAIN timers,
           \/ expire(t)
           \/ handle_timeout(t) /\ ~\E ops, ts : terminate(ops, ts)
    PROVE  WaitsAreBounded'
<1> USE DEF stateVars, timerVars, writeVars
<1>1. UNCHANGED <<m_state, m_internal_state, m_handshake_timer>>
    BY DEF expire, handle_timeout
<1>2. PICK new \in TimerStates : /\ timers' = [timers EXCEPT ![t] = new]
                                 /\ Live(t) => new = "fired"
    BY TimersType DEF expire, handle_timeout, Live, TimerStates
<1>3. /\ DOMAIN timers' = DOMAIN timers
      /\ \A i \in DOMAIN timers : timers'[i] = IF i = t THEN new ELSE timers[i]
    BY <1>2, ExceptType DEF TypeOK
<1>4. Live(m_handshake_timer) => Live(m_handshake_timer)'
    BY <1>1, <1>2, <1>3 DEF Live
<1> QED BY <1>1, <1>4 DEF WaitsAreBounded, WaitsForPeer

LEMMA WaitsStep ==
    ASSUME TypeOK, HandshakeInStep, WaitsAreBounded, [Next]_vars
    PROVE  WaitsAreBounded'
<1> USE DEF stateVars, timerVars, writeVars
<1>1. CASE \E ops, ts : terminate(ops, ts)
    BY <1>1 DEF terminate, WaitsAreBounded, WaitsForPeer
<1>2. CASE Opening /\ ~\E ops, ts : terminate(ops, ts)
    <2>1. CASE handle_connect \/ handle_transport_init
        <3>1. m_state = "connecting"
            BY <2>1, ExpectedOnly DEF handle_connect, handle_transport_init, HandshakeInStep
        <3>2. CASE SetTimer /\ UNCHANGED m_state
            BY <3>1, <3>2, WaitsTimed
        <3>3. CASE m_state' = m_state /\ m_internal_state' = "TRANSPORT_INIT"
            BY <3>1, <3>3 DEF WaitsAreBounded, WaitsForPeer
        <3> QED BY <1>2, <2>1, <3>2, <3>3
                DEF handle_connect, handle_transport_init, send_http_request
    <2>2. CASE handle_send_http_request
        <3>1. CASE Drop("request") /\ UNCHANGED m_internal_state
            BY <3>1, WaitsUntouched DEF Drop
        <3>2. CASE ~(Drop("request") /\ UNCHANGED m_internal_state)
            <4>1. m_internal_state = "WRITE_HTTP_REQUEST" /\ m_state = "connecting"
                BY <1>2, <2>2, <3>2, ExpectedOnly DEF handle_send_http_request, Fails
            <4>2. Live(m_handshake_timer)
                BY <4>1 DEF WaitsAreBounded, WaitsForPeer
            <4>3. UNCHANGED <<m_state, timers, m_handshake_timer>>
                BY <1>2, <2>2, <3>2 DEF handle_send_http_request, Fails
            <4> QED BY <4>1, <4>2, <4>3 DEF WaitsAreBounded, WaitsForPeer, Live
        <3> QED BY <3>1, <3>2
    <2>3. CASE handle_read_http_response
        <3>1. CASE Drop("response") /\ UNCHANGED m_internal_state
            BY <3>1, WaitsUntouched DEF Drop
        <3>2. CASE m_state' = "open"
            BY <3>2 DEF WaitsAreBounded, WaitsForPeer
        <3> QED BY <1>2, <2>3, <3>1, <3>2 DEF handle_read_http_response, Fails
    <2> QED BY <1>2, <2>1, <2>2, <2>3 DEF Opening
<1>3. CASE close \/ read_close \/ (read_violation /\ ~\E ops, ts : terminate(ops, ts))
    BY <1>3, WaitsTimed DEF close, read_close, read_violation, send_close_frame, Fails
<1>4. CASE connect \/ send \/ read_message \/ read_ping
    BY <1>4, WaitsUntouched DEF connect, send, read_message, read_ping
<1>5. CASE read_fails
    BY <1>1, <1>5 DEF read_fails, Fails
<1>6. CASE handle_write_frame /\ ~\E ops, ts : terminate(ops, ts)
    BY <1>6, WaitsUntouched DEF handle_write_frame, Fails, Drop
<1>7. CASE \/ write_frame \/ leftovers \/ UNCHANGED vars
           \/ \E s \in TerminateStatus : handle_async_shutdown(s)
    BY <1>7, WaitsUntouched DEF write_frame, leftovers, vars, handle_async_shutdown
<1>8. ASSUME NEW t \in DOMAIN timers, expire(t) \/ handle_timeout(t),
             ~\E ops, ts : terminate(ops, ts)
      PROVE  WaitsAreBounded'
    BY <1>8, WaitsTimers
<1> QED BY <1>1, <1>2, <1>3, <1>4, <1>5, <1>6, <1>7, <1>8 DEF Next, Script, Reading, Gone

-----------------------------------------------------------------------------
(* The frames on the wire *)

(* A frame pushed is the last of all. *)
LEMMA PushedAppend ==
    ASSUME TypeOK, NEW kind \in {"data", "pong", "close", "terminal"}, write_push(kind)
    PROVE  /\ Len(Pushed) \in Nat
           /\ DOMAIN Pushed = 1..Len(Pushed)
           /\ DOMAIN Pushed' = 1..(Len(Pushed) + 1)
           /\ \A i \in 1..Len(Pushed) : Pushed'[i] = Pushed[i]
           /\ Pushed'[Len(Pushed) + 1] = [kind |-> kind, n |-> Len(Pushed) + 1]
<1> DEFINE frame == [kind |-> kind, n |-> Len(Pushed) + 1]
<1>1. Pushed \in Seq(Frames)
    BY ConcatProperties DEF TypeOK, Pushed
<1>2. Len(Pushed) \in Nat /\ DOMAIN Pushed = 1..Len(Pushed)
    BY <1>1, LenProperties
<1>3. frame \in Frames
    BY <1>2 DEF Frames
<1>4. Pushed' = wire \o Append(m_send_queue, frame)
    BY DEF Pushed, write_push
<1> HIDE DEF frame
<1>5. Append(m_send_queue, frame) = m_send_queue \o <<frame>> /\ <<frame>> \in Seq(Frames)
    BY <1>3, AppendIsConcat DEF TypeOK
<1>6. Pushed' = Pushed \o <<frame>>
    BY <1>4, <1>5, ConcatAssociative DEF TypeOK, Pushed
<1>7. Pushed' = Append(Pushed, frame)
    BY <1>1, <1>3, <1>6, AppendIsConcat
<1>8. Pushed' \in Seq(Frames) /\ Len(Pushed') = Len(Pushed) + 1
    BY <1>1, <1>3, <1>7, AppendProperties
<1>9. DOMAIN Pushed' = 1..(Len(Pushed) + 1)
    BY <1>8, LenProperties
<1> QED BY <1>1, <1>2, <1>3, <1>7, <1>9, AppendProperties DEF frame

LEMMA FramesUntouched ==
    ASSUME FramesInStep, UNCHANGED writeVars,
           "write" \in pending' => "write" \in pending,
           m_state' \in {"connecting", "open"} => m_state \in {"connecting", "open"}
    PROVE  FramesInStep'
BY DEF FramesInStep, WireInOrder, FramesInOrder, QuietAfterClose, TerminalIsLast,
       Pushed, writeVars

(* A frame is pushed that the state allows. *)
LEMMA FramesPushed ==
    ASSUME TypeOK, FramesInStep,
           NEW kind \in {"data", "pong", "close", "terminal"}, write_push(kind),
           "write" \in pending' => "write" \in pending,
           \/ m_state = "open" /\ m_state' = "open" /\ kind \in {"data", "pong"}
           \/ m_state' = "closing" /\ kind \in {"close", "terminal"}
    PROVE  FramesInStep'
<1>1. UNCHANGED <<m_current_msgs, m_write_flag, wire>>
    BY DEF write_push
<1>2. FramesInOrder'
    BY PushedAppend DEF FramesInStep, WireInOrder, FramesInOrder
<1>3. QuietAfterClose'
    <2>1. \A i \in 1..Len(Pushed) :
            Pushed[i].kind \in {"close", "terminal"} => kind \in {"close", "terminal"}
        BY PushedAppend DEF FramesInStep
    <2>2. \A i, j \in 1..Len(Pushed) :
            i < j /\ Pushed[i].kind \in {"close", "terminal"} =>
                Pushed[j].kind \in {"close", "terminal"}
        BY PushedAppend DEF FramesInStep, WireInOrder, QuietAfterClose
    <2>3. Pushed'[Len(Pushed) + 1].kind = kind
        BY PushedAppend
    <2>4. SUFFICES ASSUME NEW i \in DOMAIN Pushed', NEW j \in DOMAIN Pushed',
                          i < j, Pushed'[i].kind \in {"close", "terminal"}
                   PROVE  Pushed'[j].kind \in {"close", "terminal"}
        BY DEF QuietAfterClose
    <2>5. i \in 1..Len(Pushed) /\ Pushed'[i] = Pushed[i]
        BY <2>4, PushedAppend
    <2>6. CASE j \in 1..Len(Pushed)
        BY <2>2, <2>4, <2>5, <2>6, PushedAppend
    <2>7. CASE j = Len(Pushed) + 1
        BY <2>1, <2>3, <2>4, <2>5, <2>7
    <2> QED BY <2>6, <2>7, PushedAppend
<1>4. m_state' \in {"connecting", "open"} =>
        \A i \in DOMAIN Pushed' : Pushed'[i].kind \notin {"close", "terminal"}
    BY PushedAppend DEF FramesInStep
<1> QED BY <1>1, <1>2, <1>3, <1>4 DEF FramesInStep, WireInOrder, TerminalIsLast

(* A write moves a prefix of the queue to the wire. *)
LEMMA FramesWritten ==
    ASSUME TypeOK, FramesInStep, write_frame, ~m_write_flag, m_send_queue # <<>>
    PROVE  FramesInStep'
<1>1. PICK k \in 0..Len(m_send_queue) :
           /\ Batch = SubSeq(m_send_queue, 1, k) /\ k > 0
           /\ \A i \in 1..k : m_send_queue[i].kind = "terminal" => i = k
    BY BatchPrefix
<1>2. /\ wire \in Seq(Frames) /\ Len(wire) \in Nat /\ DOMAIN wire = 1..Len(wire)
      /\ m_send_queue \in Seq(Frames) /\ Len(m_send_queue) \in Nat
    BY LenProperties DEF TypeOK
<1>3. /\ Batch \in Seq(Frames) /\ Len(Batch) = k
      /\ \A i \in 1..k : Batch[i] = m_send_queue[i]
    <2>1. \A i \in 1..k : m_send_queue[i] \in Frames
        BY <1>2, ElementOfSeq
    <2> QED BY <1>1, <1>2, <2>1, SubSeqProperties
<1>4. m_current_msgs \o Batch = Batch
    BY <1>3, ConcatEmptySeq DEF FramesInStep
<1>5. /\ m_current_msgs' = Batch
      /\ m_send_queue' = SubSeq(m_send_queue, k + 1, Len(m_send_queue))
      /\ m_write_flag' = TRUE
      /\ wire' = wire \o Batch
      /\ UNCHANGED m_state
    BY <1>3, <1>4 DEF write_frame, stateVars
<1>6. Pushed' = Pushed
    <2>1. m_send_queue' \in Seq(Frames)
        <3>1. \A i \in (k + 1)..Len(m_send_queue) : m_send_queue[i] \in Frames
            BY <1>2, ElementOfSeq
        <3> QED BY <1>2, <1>5, <3>1, SubSeqProperties
    <2>2. Batch \o m_send_queue' = SubSeq(m_send_queue, 1, Len(m_send_queue))
        <3>1. /\ 1 \in 1..(Len(m_send_queue) + 1)
              /\ k \in (1 - 1)..Len(m_send_queue)
              /\ Len(m_send_queue) \in k..Len(m_send_queue)
            BY <1>2
        <3>2. SubSeq(m_send_queue, 1, k) \o SubSeq(m_send_queue, k + 1, Len(m_send_queue))
                = SubSeq(m_send_queue, 1, Len(m_send_queue))
            BY <1>2, <3>1, ConcatAdjacentSubSeq
        <3> QED BY <1>1, <1>5, <3>2, Zenon
    <2>3. Batch \o m_send_queue' = m_send_queue
        BY <1>2, <2>2, SubSeqFull
    <2>4. (wire \o Batch) \o m_send_queue' = wire \o (Batch \o m_send_queue')
        <3>1. \A s, t, u \in Seq(Frames) : (s \o t) \o u = s \o (t \o u)
            BY ConcatAssociative
        <3>2. wire \in Seq(Frames) /\ Batch \in Seq(Frames)
            BY <1>2, <1>3
        <3> QED BY <2>1, <3>1, <3>2, Zenon
    <2>5. Pushed' = wire' \o m_send_queue' /\ Pushed = wire \o m_send_queue
        BY DEF Pushed
    <2>6. wire' = wire \o Batch
        BY <1>5
    <2> QED BY <2>3, <2>4, <2>5, <2>6, Zenon
<1>7. /\ wire' \in Seq(Frames) /\ Len(wire') = Len(wire) + k
      /\ DOMAIN wire' = 1..(Len(wire) + k)
      /\ \A i \in 1..(Len(wire) + k) :
            wire'[i] = IF i <= Len(wire) THEN wire[i] ELSE Batch[i - Len(wire)]
    <2> DEFINE moved == wire \o Batch
    <2>1. /\ moved \in Seq(Frames) /\ Len(moved) = Len(wire) + k
          /\ \A i \in 1..(Len(wire) + k) :
                moved[i] = IF i <= Len(wire) THEN wire[i] ELSE Batch[i - Len(wire)]
        BY <1>2, <1>3, ConcatProperties
    <2> HIDE DEF moved
    <2>2. DOMAIN moved = 1..(Len(wire) + k)
        BY <2>1, LenProperties
    <2>3. wire' = moved
        BY <1>5 DEF moved
    <2> QED BY <2>1, <2>2, <2>3
<1>8. TerminalIsLast'
    <2>1. SUFFICES ASSUME NEW i \in 1..(Len(wire) + k), wire'[i].kind = "terminal"
                   PROVE  i = Len(wire) + k
        BY <1>7 DEF TerminalIsLast
    <2>2. i > Len(wire)
        BY <1>2, <1>7, <2>1 DEF FramesInStep
    <2>3. i - Len(wire) \in 1..k /\ wire'[i] = m_send_queue[i - Len(wire)]
        BY <1>2, <1>3, <1>7, <2>2
    <2>4. m_send_queue[i - Len(wire)].kind = "terminal"
        BY <2>1, <2>3
    <2>5. i - Len(wire) = k
        BY <1>1, <2>3, <2>4
    <2>6. \A a, c \in Nat : \A b \in 1..(a + c) : b - a = c => b = a + c
        OBVIOUS
    <2> QED BY <1>1, <1>2, <2>1, <2>5, <2>6
<1>9. Last(m_current_msgs)' = Last(wire)'
    BY <1>1, <1>2, <1>3, <1>5, <1>7 DEF Last
<1> QED BY <1>1, <1>2, <1>3, <1>5, <1>6, <1>7, <1>8, <1>9
        DEF FramesInStep, WireInOrder, FramesInOrder, QuietAfterClose

(* The end of a write: unless its last frame was terminal, none was. *)
LEMMA FramesEnded ==
    ASSUME TypeOK, FramesInStep, handle_write_frame
    PROVE  FramesInStep'
<1>1. /\ m_current_msgs' = <<>> /\ "write" \notin pending'
      /\ UNCHANGED <<m_send_queue, wire>>
      /\ m_state' \in {"connecting", "open"} => m_state \in {"connecting", "open"}
      /\ \/ m_write_flag' = m_write_flag
         \/ Last(m_current_msgs).kind # "terminal"
    BY FailsType DEF handle_write_frame, Drop
<1>2. Last(m_current_msgs).kind # "terminal" =>
        \A i \in DOMAIN wire : wire[i].kind # "terminal"
    BY DEF handle_write_frame, FramesInStep, WireInOrder, TerminalIsLast, Last
<1> QED BY <1>1, <1>2
        DEF FramesInStep, WireInOrder, FramesInOrder, QuietAfterClose, TerminalIsLast, Pushed

LEMMA FramesStep ==
    ASSUME TypeOK, HandshakeInStep, FramesInStep, [Next]_vars
    PROVE  FramesInStep'
<1> USE DEF stateVars, timerVars
<1>1. CASE Opening
    <2>1. UNCHANGED writeVars
        BY <1>1 DEF Opening, handle_connect, handle_transport_init,
                    handle_send_http_request, handle_read_http_response
    <2>2. CASE handle_connect \/ handle_transport_init
        BY <2>1, <2>2, FramesUntouched, TerminateType
        DEF handle_connect, handle_transport_init, send_http_request, Finished, terminate,
            async_shutdown
    <2>3. CASE handle_send_http_request
        BY <2>1, <2>3, FramesUntouched, FailsType DEF handle_send_http_request, Drop
    <2>4. CASE handle_read_http_response
        BY <2>1, <2>4, FramesUntouched, FailsType
        DEF handle_read_http_response, Drop, async_shutdown
    <2> QED BY <1>1, <2>2, <2>3, <2>4 DEF Opening
<1>2. CASE connect
    BY <1>2, FramesUntouched DEF connect
<1>3. CASE send \/ close
    BY <1>3, FramesPushed DEF send, close, send_close_frame
<1>4. CASE Reading
    <2>1. CASE read_ping \/ read_close
        BY <2>1, FramesPushed DEF read_ping, read_close, send_close_frame
    <2>2. CASE read_violation
        <3>1. CASE send_close_frame("terminal") /\ pending' = pending \ {"read"}
            BY <3>1, FramesPushed DEF send_close_frame
        <3>2. CASE Fails("read") /\ UNCHANGED writeVars
            BY <3>2, FramesUntouched, FailsType
        <3> QED BY <2>2, <3>1, <3>2 DEF read_violation
    <2>3. CASE read_message
        BY <2>3, FramesUntouched DEF read_message
    <2>4. CASE read_fails
        BY <2>4, FramesUntouched, FailsType DEF read_fails
    <2> QED BY <1>4, <2>1, <2>2, <2>3, <2>4 DEF Reading
<1>5. CASE write_frame
    <2>1. CASE m_write_flag \/ m_send_queue = <<>>
        BY <1>5, <2>1, FramesUntouched DEF write_frame
    <2>2. CASE ~m_write_flag /\ m_send_queue # <<>>
        BY <1>5, <2>2, FramesWritten
    <2> QED BY <2>1, <2>2
<1>6. CASE handle_write_frame
    BY <1>6, FramesEnded
<1>7. ASSUME NEW t \in DOMAIN timers, expire(t) \/ handle_timeout(t)
      PROVE  FramesInStep'
    <2>1. CASE expire(t)
        BY <2>1, FramesUntouched DEF expire
    <2>2. CASE handle_timeout(t)
        <3>1. UNCHANGED writeVars
            BY <2>2 DEF handle_timeout
        <3>2. \/ m_state' = "closed" /\ ("write" \in pending' => "write" \in pending)
              \/ UNCHANGED <<m_state, pending>>
            BY <2>2 DEF handle_timeout, terminate, async_shutdown
        <3> QED BY <3>1, <3>2, FramesUntouched
    <2> QED BY <1>7, <2>1, <2>2
<1>8. CASE \/ leftovers \/ UNCHANGED vars
           \/ \E s \in TerminateStatus : handle_async_shutdown(s)
    BY <1>8, FramesUntouched DEF leftovers, vars, handle_async_shutdown
<1> QED BY <1>1, <1>2, <1>3, <1>4, <1>5, <1>6, <1>7, <1>8 DEF Next, Script, Gone

-----------------------------------------------------------------------------
(* The inductive invariant *)

LEMMA InvInit == Init => IInv
<1>1. Init => HandshakeInStep
    BY DEF Init, HandshakeInStep, Expected
<1>2. Init => HandlersInStep
    BY DEF Init, HandlersInStep, Handlers, TerminateStatus
<1>3. Init => FlagMeansWrite /\ NoFrameLeftBehind
    BY DEF Init, FlagMeansWrite, NoFrameLeftBehind
<1>4. Init => WaitsAreBounded
    BY DEF Init, WaitsAreBounded, WaitsForPeer
<1>5. Init => FramesInStep
    BY DEF Init, FramesInStep, WireInOrder, FramesInOrder, QuietAfterClose,
           TerminalIsLast, Pushed
<1> QED BY <1>1, <1>2, <1>3, <1>4, <1>5, TypeInit DEF IInv

LEMMA InvStep == IInv /\ [Next]_vars => IInv'
BY TypeStep, HandlersStep, HandshakeStep, WritesStep, FramesStep, WaitsStep
DEF IInv, WritesInStep

(***************************************************************************)
(* The inductive invariant: internal states, pending operations, handlers, *)
(* the write flag and the timers agree, whatever the peer and timers do.   *)
(***************************************************************************)
THEOREM Consistent == Spec => []IInv
BY InvInit, InvStep, PTL DEF Spec

(***************************************************************************)
(* No state waits for the peer's part of a handshake without a timer.      *)
(***************************************************************************)
THEOREM BoundedWaits == Spec => []WaitsAreBounded
<1>1. IInv => WaitsAreBounded
    BY DEF IInv
<1> QED BY <1>1, Consistent, PTL

(***************************************************************************)
(* A frame that is queued on a live connection will be looked at: by a     *)
(* posted write_frame or by the end of the write under way.                *)
(***************************************************************************)
THEOREM FramesFollowed == Spec => []NoFrameLeftBehind
<1>1. IInv => NoFrameLeftBehind
    BY DEF IInv
<1> QED BY <1>1, Consistent, PTL

(***************************************************************************)
(* Frames go out in the order they were made, none twice and none skipped, *)
(* no message or pong after a close frame, nothing after a terminal one.   *)
(***************************************************************************)
THEOREM FramesInOrderSent == Spec => []WireInOrder
<1>1. IInv => WireInOrder
    BY DEF IInv, FramesInStep
<1> QED BY <1>1, Consistent, PTL

-----------------------------------------------------------------------------
(* The connection's phases *)

(* What has begun to connect and has not ended. *)
LEMMA ConnectingPhase ==
    ASSUME m_state = "connecting"
    PROVE  /\ phase \in {"none", "connecting"}
           /\ phase = "none" <=> m_internal_state = "USER_INIT" /\ pending = {}
BY DEF phase

LEMMA LivePhase ==
    ASSUME m_state \in {"open", "closing"}
    PROVE  phase = m_state
BY DEF phase

(* Over: its shutdown, then its last handlers, then nothing. *)
LEMMA ClosedPhase ==
    ASSUME m_state = "closed"
    PROVE  /\ phase \in {"closing", "terminated", "gone"}
           /\ phase = "closing" <=> shutdowns["closed"] > 0
           /\ phase = "gone" => Idle
           /\ phase = "terminated" => ~Idle
BY DEF phase

LEMMA ClosedPhaseNext ==
    ASSUME m_state' = "closed"
    PROVE  /\ phase' \in {"closing", "terminated", "gone"}
           /\ phase' = "closing" <=> shutdowns'["closed"] > 0
           /\ phase' = "gone" => Idle'
BY DEF phase

(* Of what is not gone, only the shutdowns' end is to be seen. *)
LEMMA ClosedPhaseStep ==
    ASSUME m_state = "closed", m_state' = "closed", ~Idle, shutdowns' = shutdowns
    PROVE  phase' = phase \/ (phase = "terminated" /\ phase' = "gone")
<1>1. phase = IF shutdowns["closed"] > 0 THEN "closing" ELSE "terminated"
    BY DEF phase
<1>2. phase' = IF shutdowns["closed"] > 0 THEN "closing"
               ELSE IF Idle' THEN "gone" ELSE "terminated"
    BY DEF phase
<1> QED BY <1>1, <1>2

(* Nothing happens to a connection that is gone. *)
LEMMA GoneStays ==
    ASSUME TypeOK, m_state = "closed", Idle, [Next]_vars
    PROVE  UNCHANGED vars
<1>1. ~(Opening \/ Reading \/ Script \/ write_frame \/ handle_write_frame \/ leftovers)
    BY DEF Idle, Opening, handle_connect, handle_transport_init, handle_send_http_request,
           handle_read_http_response, Reading, read_fails, read_message, read_ping,
           read_close, read_violation, Script, connect, send, close, write_frame,
           handle_write_frame, leftovers
<1>2. ~\E t \in DOMAIN timers : expire(t) \/ handle_timeout(t)
    BY DEF Idle, expire, handle_timeout
<1>3. ~\E s \in TerminateStatus : handle_async_shutdown(s)
    BY DEF Idle, handle_async_shutdown
<1> QED BY <1>1, <1>2, <1>3 DEF Next, Gone

(* terminate ends a connection, or leaves one that has ended. *)
LEMMA TerminatePhase ==
    ASSUME IInv, phase # "none", NEW ops, NEW ts, terminate(ops, ts), [Next]_vars
    PROVE  phase' = phase \/ <<phase, phase'>> \in Life!Moves
<1> USE DEF IInv
<1>1. m_state' = "closed"
    BY DEF terminate
<1>2. calls \in [Handlers -> Nat] /\ shutdowns \in [TerminateStatus -> Nat]
    BY DEF TypeOK
<1>3. CASE m_state = "closed"
    <2>1. CASE Idle
        <3>1. UNCHANGED vars
            BY <1>3, <2>1, GoneStays
        <3> QED BY <3>1 DEF phase, Idle, vars, stateVars, timerVars
    <2>2. CASE ~Idle
        <3>1. UNCHANGED shutdowns
            BY <1>3 DEF terminate
        <3>2. phase' = phase \/ (phase = "terminated" /\ phase' = "gone")
            BY <1>1, <1>3, <2>2, <3>1, ClosedPhaseStep
        <3> QED BY <3>2 DEF Life!Moves
    <2> QED BY <2>1, <2>2
<1>4. CASE m_state # "closed"
    <2>1. PICK status \in TerminateStatus :
              /\ async_shutdown(status, calls, ops)
              /\ m_state = "connecting" => status = "failed"
        BY <1>4 DEF terminate, TerminateStatus
    <2>2. \/ shutdowns' = [shutdowns EXCEPT ![status] = @ + 1]
          \/ shutdowns' = shutdowns /\ "cancelled" \in pending'
        BY <1>2, <2>1, ShutdownEffect
    <2>3. ~Idle'
        <3>1. CASE "cancelled" \in pending'
            BY <3>1 DEF Idle
        <3>2. CASE shutdowns' = [shutdowns EXCEPT ![status] = @ + 1]
            <4>1. shutdowns'[status] # 0
                BY <1>2, <3>2
            <4> QED BY <4>1 DEF Idle
        <3> QED BY <2>2, <3>1, <3>2
    <2>4. phase' \in {"closing", "terminated"}
        BY <1>1, <2>3, ClosedPhaseNext
    <2>5. CASE m_state = "connecting"
        <3>1. phase = "connecting"
            BY <2>5, ConnectingPhase
        <3>2. shutdowns["closed"] = 0
            BY <1>2, <2>5 DEF HandlersInStep, Handlers, TerminateStatus
        <3>3. shutdowns'["closed"] = 0
            BY <1>2, <2>1, <2>2, <2>5, <3>2 DEF TerminateStatus
        <3>4. phase' = "terminated"
            BY <1>1, <2>4, <3>3, ClosedPhaseNext
        <3> QED BY <3>1, <3>4 DEF Life!Moves
    <2>6. CASE m_state \in {"open", "closing"}
        <3>1. phase = m_state
            BY <2>6, LivePhase
        <3> QED BY <2>4, <2>6, <3>1 DEF Life!Moves
    <2> QED BY <1>4, <2>5, <2>6 DEF TypeOK, States
<1> QED BY <1>3, <1>4

(* Any step of a connection that is closed. *)
LEMMA ClosedMoves ==
    ASSUME IInv, m_state = "closed", m_state' = "closed", [Next]_vars,
           \/ UNCHANGED shutdowns
           \/ \E s \in TerminateStatus : handle_async_shutdown(s)
    PROVE  phase' = phase \/ <<phase, phase'>> \in Life!Moves
<1> USE DEF IInv
<1>1. CASE Idle
    <2>1. UNCHANGED vars
        BY <1>1, GoneStays
    <2> QED BY <2>1 DEF phase, Idle, vars, stateVars, timerVars
<1>2. CASE ~Idle /\ UNCHANGED shutdowns
    <2>1. phase' = phase \/ (phase = "terminated" /\ phase' = "gone")
        BY <1>2, ClosedPhaseStep
    <2> QED BY <2>1 DEF Life!Moves
<1>3. ASSUME NEW s \in TerminateStatus, handle_async_shutdown(s)
      PROVE  phase' = phase \/ <<phase, phase'>> \in Life!Moves
    <2>1. /\ shutdowns[s] > 0
          /\ shutdowns' = [shutdowns EXCEPT ![s] = @ - 1]
          /\ "cancelled" \in pending'
          /\ shutdowns \in [TerminateStatus -> Nat]
        BY <1>3 DEF handle_async_shutdown, TypeOK
    <2>2. phase \in {"closing", "terminated"}
        <3>1. ~Idle
            BY <1>3, <2>1 DEF Idle
        <3> QED BY <3>1, ClosedPhase
    <2>3. phase' \in {"closing", "terminated"}
        <3>1. ~Idle'
            BY <2>1 DEF Idle
        <3> QED BY <3>1, ClosedPhaseNext
    <2>4. phase' = "closing" => phase = "closing"
        <3>1. shutdowns'["closed"] > 0 => shutdowns["closed"] > 0
            BY <2>1 DEF TerminateStatus
        <3> QED BY <3>1, ClosedPhase, ClosedPhaseNext
    <2> QED BY <2>2, <2>3, <2>4 DEF Life!Moves
<1> QED BY <1>1, <1>2, <1>3

LEMMA PhaseUntouched ==
    ASSUME IInv, [Next]_vars, UNCHANGED <<m_state, m_internal_state, shutdowns>>,
           m_state = "connecting" /\ m_internal_state = "USER_INIT" =>
               (pending = {} <=> pending' = {})
    PROVE  phase' = phase \/ <<phase, phase'>> \in Life!Moves
<1>1. CASE m_state = "closed"
    BY <1>1, ClosedMoves
<1>2. CASE m_state = "connecting"
    BY <1>2 DEF phase
<1>3. CASE m_state \in {"open", "closing"}
    BY <1>3 DEF phase
<1> QED BY <1>1, <1>2, <1>3 DEF IInv, TypeOK, States

(* Nothing ends a connection before connect was called. *)
LEMMA BeforeTerminate ==
    ASSUME IInv, [Next]_vars, m_state' = "closed"
    PROVE  phase # "none"
<1> SUFFICES ASSUME phase = "none"
             PROVE  FALSE
    OBVIOUS
<1> USE DEF IInv, stateVars, timerVars, writeVars
<1>1. /\ m_state = "connecting" /\ m_internal_state = "USER_INIT" /\ pending = {}
      /\ timers = <<>>
    BY DEF phase, HandshakeInStep
<1>2. ~(Opening \/ Reading \/ handle_write_frame \/ leftovers)
    BY <1>1
    DEF Opening, handle_connect, handle_transport_init, handle_send_http_request,
        handle_read_http_response, Reading, read_fails, read_message, read_ping,
        read_close, read_violation, handle_write_frame, leftovers
<1>3. ~\E t \in DOMAIN timers : expire(t) \/ handle_timeout(t)
    BY <1>1
<1>4. ~(\/ connect \/ send \/ close \/ write_frame \/ UNCHANGED vars
        \/ \E s \in TerminateStatus : handle_async_shutdown(s))
    BY <1>1
    DEF connect, send, close, send_close_frame, write_frame, vars, handle_async_shutdown
<1> QED BY <1>1, <1>2, <1>3, <1>4 DEF Next, Script, Gone

LEMMA PhaseStep ==
    ASSUME IInv, [Next]_vars
    PROVE  phase' = phase \/ <<phase, phase'>> \in Life!Moves
<1> USE DEF IInv, stateVars, timerVars, writeVars
<1>1. ASSUME m_state \in {"open", "closing"}, m_state' \in {m_state, "closing"}
      PROVE  phase' = phase \/ <<phase, phase'>> \in Life!Moves
    <2>1. phase = m_state /\ phase' = m_state'
        BY <1>1 DEF phase
    <2> QED BY <1>1, <2>1 DEF Life!Moves
<1>2. CASE connect
    <2>1. phase = "none" /\ phase' = "connecting"
        BY <1>2 DEF connect, phase
    <2> QED BY <2>1 DEF Life!Moves
<1>3. CASE Opening /\ ~\E ops, ts : terminate(ops, ts)
    <2>1. CASE handle_connect \/ handle_transport_init
        <3>1. m_state = "connecting" /\ m_state' = "connecting" /\ phase # "none"
            BY <1>3, <2>1, ExpectedOnly, ConnectingPhase
            DEF handle_connect, handle_transport_init, HandshakeInStep
        <3>2. m_internal_state' # "USER_INIT"
            BY <1>3, <2>1 DEF handle_connect, handle_transport_init, send_http_request
        <3> QED BY <3>1, <3>2 DEF phase
    <2>2. CASE handle_send_http_request
        <3>1. CASE m_state = "closed"
            BY <1>3, <2>2, <3>1, ClosedMoves DEF handle_send_http_request, Fails, Drop
        <3>2. CASE m_state # "closed"
            <4>1. m_state = "connecting" /\ m_state' = "connecting" /\ phase # "none"
                BY <1>3, <2>2, <3>2, ConnectingPhase DEF handle_send_http_request, Fails
            <4>2. m_internal_state' # "USER_INIT"
                BY <1>3, <2>2, <3>2 DEF handle_send_http_request, Fails
            <4> QED BY <4>1, <4>2 DEF phase
        <3> QED BY <3>1, <3>2
    <2>3. CASE handle_read_http_response
        <3>1. CASE m_state = "closed"
            BY <1>3, <2>3, <3>1, ClosedMoves DEF handle_read_http_response, Fails, Drop
        <3>2. CASE m_state # "closed"
            <4>1. m_state = "connecting" /\ m_state' = "open" /\ pending # {}
                BY <1>3, <2>3, <3>2 DEF handle_read_http_response, Fails
            <4>2. phase = "connecting" /\ phase' = "open"
                BY <4>1 DEF phase
            <4> QED BY <4>2 DEF Life!Moves
        <3> QED BY <3>1, <3>2
    <2> QED BY <1>3, <2>1, <2>2, <2>3 DEF Opening
<1>4. CASE send \/ close
    BY <1>1, <1>4 DEF send, close, send_close_frame
<1>5. CASE Reading /\ ~\E ops, ts : terminate(ops, ts)
    BY <1>1, <1>5
    DEF Reading, read_fails, read_message, read_ping, read_close, read_violation,
        send_close_frame, Fails
<1>7. CASE UNCHANGED vars
    BY <1>7 DEF vars, phase, Idle
<1>8. CASE write_frame \/ leftovers
    <2>1. CASE write_frame
        <3>1. UNCHANGED <<m_state, m_internal_state, shutdowns>>
            BY <2>1 DEF write_frame
        <3>2. m_state = "connecting" => pending' = pending
            BY <2>1 DEF write_frame, HandshakeInStep
        <3> QED BY <3>1, <3>2, PhaseUntouched
    <2>2. CASE leftovers
        <3>1. m_state = "connecting" => m_internal_state # "USER_INIT"
            BY <2>2 DEF leftovers, HandshakeInStep
        <3> QED BY <2>2, <3>1, PhaseUntouched DEF leftovers
    <2> QED BY <1>8, <2>1, <2>2
<1>9. CASE handle_write_frame /\ ~\E ops, ts : terminate(ops, ts)
    <2>1. m_state # "connecting"
        BY <1>9, ExpectedOnly DEF handle_write_frame
    <2> QED BY <1>9, <2>1, PhaseUntouched DEF handle_write_frame, Fails, Drop
<1>10. ASSUME NEW t \in DOMAIN timers, expire(t) \/ handle_timeout(t),
              ~\E ops, ts : terminate(ops, ts)
       PROVE  phase' = phase \/ <<phase, phase'>> \in Life!Moves
    BY <1>10, PhaseUntouched DEF expire, handle_timeout
<1>11. ASSUME NEW s \in TerminateStatus, handle_async_shutdown(s)
       PROVE  phase' = phase \/ <<phase, phase'>> \in Life!Moves
    <2>1. m_state # "connecting"
        BY <1>11
        DEF handle_async_shutdown, HandlersInStep, TypeOK, Handlers, TerminateStatus
    <2>2. UNCHANGED <<m_state, m_internal_state>>
        BY <1>11 DEF handle_async_shutdown
    <2>3. CASE m_state = "closed"
        BY <1>11, <2>2, <2>3, ClosedMoves
    <2>4. CASE m_state \in {"open", "closing"}
        BY <1>1, <2>2, <2>4
    <2> QED BY <2>1, <2>3, <2>4 DEF TypeOK, States
<1>12. CASE \E ops, ts : terminate(ops, ts)
    <2>1. m_state' = "closed"
        BY <1>12, TerminateState
    <2>2. phase # "none"
        BY <2>1, BeforeTerminate
    <2> QED BY <1>12, <2>2, TerminatePhase
<1> QED BY <1>2, <1>3, <1>4, <1>5, <1>7, <1>8, <1>9, <1>10, <1>11, <1>12 DEF Next, Script, Gone

(***************************************************************************)
(* A connection of the library lives as ConnectionLife says: it begins,    *)
(* opens and ends once, and in that order.                                 *)
(***************************************************************************)
THEOREM ConnectionImplementsLife == Spec => ImplementsLife
<1>1. Init => Life!Init
    BY DEF Init, Life!Init, phase
<1>2. IInv /\ [Next]_vars => [Life!Next]_phase
    BY PhaseStep DEF Life!Next
<1> QED BY <1>1, <1>2, Consistent, PTL DEF Spec, ImplementsLife, Life!Spec
=============================================================================
