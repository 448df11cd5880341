----------------------------- MODULE AsioConnect -----------------------------
(***************************************************************************)
(* transport/asio: how the connections of one endpoint are opened and shut *)
(* down.  Four stages (look the host up, connect, post_init, shutdown) are *)
(* one pattern: set a timer, start an operation of asio, and let the two   *)
(* handlers settle between them which one calls back.  Nothing but that    *)
(* settlement keeps a callback from running twice or never.                *)
(*                                                                         *)
(* The connections share the endpoint's one resolver, and a lookup that    *)
(* times out cancels all of its lookups.                                   *)
(*                                                                         *)
(* Handlers run one at a time.  Time is dense: no handler looks at a timer *)
(* at the very instant it expires (is_neg of a remaining time of zero).    *)
(* The handler of a cancelled timer does nothing and is not a step.        *)
(***************************************************************************)
EXTENDS Naturals

CONSTANT Connections

VARIABLES
    secure,    \* the endpoint's socket policy: TLS, or plain TCP
    conn       \* of each connection: its operations, their timers, and how
               \* the callback of each call stands (a history)

vars == <<secure, conn>>

-----------------------------------------------------------------------------
(* The state space *)

Stages == {"resolve", "connect", "init", "shutdown"}

(* async_connect's one callback serves the lookup and the TCP connect. *)
Calls == {"connect", "init", "shutdown"}

(***************************************************************************)
(* An operation was cancelled but has not ended; its handler is queued     *)
(* with success, an error or operation_aborted; its handler has run.       *)
(***************************************************************************)
OpStates == {"none", "pending", "cancelled", "ok", "error", "aborted", "over"}

(* A timer has passed its expiry, and so its handler is queued, or has run. *)
TimerStates == {"none", "running", "expired", "cancelled", "over"}

ResultStates == {"idle", "pending", "ok", "error", "twice"}

ConnectionState ==
    [op : [Stages -> OpStates], timer : [Stages -> TimerStates],
     result : [Calls -> ResultStates]]

TypeOK ==
    /\ secure \in BOOLEAN
    /\ conn \in [Connections -> ConnectionState]

Init ==
    /\ secure \in BOOLEAN
    /\ conn = [c \in Connections |->
                 [op |-> [s \in Stages |-> "none"],
                  timer |-> [s \in Stages |-> "none"],
                  result |-> [k \in Calls |-> "idle"]]]

-----------------------------------------------------------------------------
(* What a handler does to its connection k, as functions of the state. *)

(* is_neg(timer->expires_from_now()) *)
Past(k, s) == k.timer[s] \in {"expired", "over"}

(* Set the stage's timer, then start its operation. *)
Begin(k, s) == [k EXCEPT !.op[s] = "pending", !.timer[s] = "running"]

Called(k, call) == [k EXCEPT !.result[call] = "pending"]

(* The callback of a call runs. *)
Reported(k, call, r) ==
    [k EXCEPT !.result[call] = IF @ = "pending" THEN r ELSE "twice"]

OpOver(k, s) == [k EXCEPT !.op[s] = "over"]

(* Mutation: a handler that speaks leaves its timer running. *)
timerLeftRunning(k, s) == OpOver(k, s)

(* A handler that speaks cancels its timer, unless that is queued already. *)
Settled(k, s) ==
    [OpOver(k, s) EXCEPT !.timer[s] = IF @ = "running" THEN "cancelled" ELSE @]

(* cancel() of a resolver or a socket: what is queued already stays so. *)
Cancel(k, s) == [k EXCEPT !.op[s] = IF @ = "pending" THEN "cancelled" ELSE @]

(* A plain socket is shut down, and the callback called, inside the call. *)
async_shutdown(k) ==
    LET begun == Begin(Called(k, "shutdown"), "shutdown")
    IN  IF secure THEN begun
        ELSE Reported(Settled(begun, "shutdown"), "shutdown", "ok")

(* connection::terminate shuts the socket down the first time only. *)
terminate(k) == IF k.result["shutdown"] = "idle" THEN async_shutdown(k) ELSE k

(***************************************************************************)
(* init: pre_init calls back at once, then post_init runs.  (TLS pre_init  *)
(* fails only for a host name no lookup would have found.)  For a plain    *)
(* socket post_init calls back at once, too.                               *)
(***************************************************************************)
init(k) ==
    LET begun == Begin(Called(k, "init"), "init")
    IN  IF secure THEN begun
        ELSE Reported(Settled(begun, "init"), "init", "ok")

(* The three callbacks: client::handle_connect, handle_transport_init and  *)
(* handle_terminate.                                                       *)
CallBack(k, call, r) ==
    LET told == Reported(k, call, r)
    IN  CASE call = "connect" /\ r = "ok" -> init(told)
          [] call \in {"connect", "init"} /\ r = "error" -> terminate(told)
          [] OTHER -> told

-----------------------------------------------------------------------------
(* The actions *)

Step(c, k) ==
    /\ conn' = [conn EXCEPT ![c] = k]
    /\ UNCHANGED secure

(* The operation of stage s has ended with r, or was cancelled. *)
Ended(c, s, r) == conn[c].op[s] = r

async_connect(c) ==
    /\ conn[c].result["connect"] = "idle"
    /\ Step(c, Begin(Called(conn[c], "connect"), "resolve"))

(***************************************************************************)
(* asio ends an operation.  cancel() is a request: a lookup whose query is *)
(* already with the system gets its answer, async_connect goes on to the   *)
(* host's next address.  TLS reports an aborted handshake as any other     *)
(* failure.                                                                *)
(***************************************************************************)
complete(c, s) ==
    /\ conn[c].op[s] \in {"pending", "cancelled"}
    /\ \E r \in {"ok", "error"} \cup
                (IF conn[c].op[s] = "cancelled" /\ s # "init" THEN {"aborted"} ELSE {}) :
          Step(c, [conn[c] EXCEPT !.op[s] = r])

(* The clock passes the expiry of a timer. *)
expire(c, s) ==
    /\ conn[c].timer[s] = "running"
    /\ Step(c, [conn[c] EXCEPT !.timer[s] = "expired"])

(* Mutation: the clock is not looked at. *)
SilentIfAborted(c, s) == Ended(c, s, "aborted")

(* Mutation: an aborted operation counts as one that failed. *)
SilentIfLate(c, s) == Past(conn[c], s)

(* The end of an operation whose timer has the say: silence. *)
Silent(c, s) == Ended(c, s, "aborted") \/ Past(conn[c], s)

(* A queued handler of stage s. *)
Queued(c, s) == conn[c].op[s] \in {"ok", "error", "aborted"}

(* if (ec): what a handler that speaks reports. *)
Outcome(c, s) == IF Ended(c, s, "ok") THEN "ok" ELSE "error"

(* Mutation: the timer is cancelled first and the error looked at then. *)
resolveCancelsFirst(c) ==
    /\ Queued(c, "resolve")
    /\ LET settled == Settled(conn[c], "resolve")
       IN  Step(c, CASE Silent(c, "resolve") -> settled
                     [] ~Silent(c, "resolve") /\ Outcome(c, "resolve") = "error" ->
                          CallBack(settled, "connect", "error")
                     [] OTHER -> Begin(settled, "connect"))

(* handle_resolve starts the TCP connect, under a timer of its own. *)
handle_resolve(c) ==
    /\ Queued(c, "resolve")
    /\ LET settled == Settled(conn[c], "resolve")
       IN  Step(c, CASE Silent(c, "resolve") -> OpOver(conn[c], "resolve")
                     [] ~Silent(c, "resolve") /\ Outcome(c, "resolve") = "error" ->
                          CallBack(settled, "connect", "error")
                     [] OTHER -> Begin(settled, "connect"))

(* handle_connect, handle_post_init and handle_async_shutdown. *)
handle_end(c, s) ==
    /\ Queued(c, s)
    /\ Step(c, IF Silent(c, s) THEN OpOver(conn[c], s)
               ELSE CallBack(Settled(conn[c], s), s, Outcome(c, s)))

(* m_resolver->cancel(): every lookup of the endpoint, whoever's it is. *)
handle_resolve_timeout(c) ==
    /\ conn[c].timer["resolve"] = "expired"
    /\ conn' = [d \in Connections |->
                  IF d = c
                  THEN CallBack([Cancel(conn[c], "resolve") EXCEPT !.timer["resolve"] = "over"],
                                "connect", "error")
                  ELSE Cancel(conn[d], "resolve")]
    /\ UNCHANGED secure

(***************************************************************************)
(* handle_connect_timeout, handle_post_init_timeout and                    *)
(* handle_async_shutdown_timeout cancel what the socket is doing.          *)
(***************************************************************************)
handle_timeout(c, s) ==
    /\ conn[c].timer[s] = "expired"
    /\ Step(c, CallBack([Cancel(conn[c], s) EXCEPT !.timer[s] = "over"], s, "error"))

(* The connection that was initialized comes to its end: Connection.tla. *)
end(c) ==
    /\ conn[c].result["init"] = "ok"
    /\ conn[c].result["shutdown"] = "idle"
    /\ Step(c, terminate(conn[c]))

Handler(c) ==
    \/ handle_resolve(c) \/ handle_resolve_timeout(c)
    \/ \E s \in Calls : handle_end(c, s) \/ handle_timeout(c, s)

Next ==
    \E c \in Connections :
       \/ async_connect(c)
       \/ Handler(c)
       \/ \E s \in Stages : complete(c, s) \/ expire(c, s)
       \/ end(c)

Spec == Init /\ [][Next]_vars

(***************************************************************************)
(* The clock runs, and the loop that polls the endpoint runs the handlers  *)
(* that are queued.  Nothing makes a lookup, a host or a peer answer.      *)
(***************************************************************************)
Fairness ==
    \A c \in Connections :
       /\ \A s \in Stages : WF_vars(expire(c, s))
       /\ WF_vars(handle_resolve_timeout(c))
       /\ \A s \in Calls : WF_vars(handle_timeout(c, s))

FairSpec == Spec /\ Fairness

-----------------------------------------------------------------------------
(* Properties *)

(***************************************************************************)
(* OnceOnly: no callback runs twice.  A stage's operation and its timer    *)
(* may both have a handler queued; whichever runs first, the other one     *)
(* finds the timer past, the timer cancelled or the operation aborted.     *)
(***************************************************************************)
OnceOnly == \A c \in Connections, k \in Calls : conn[c].result[k] # "twice"

StagesOf(call) == IF call = "connect" THEN {"resolve", "connect"} ELSE {call}

(***************************************************************************)
(* SomeoneCalls: a callback that is still owed has a timer of its stage    *)
(* behind it, whatever became of the operation: a lookup that another      *)
(* connection's timeout aborted falls silent, its timer does not.          *)
(***************************************************************************)
SomeoneCalls ==
    \A c \in Connections, k \in Calls :
       conn[c].result[k] = "pending" =>
          \E s \in StagesOf(k) : conn[c].timer[s] \in {"running", "expired"}

(***************************************************************************)
(* ShutdownLast: the socket is shut down, and handle_terminate runs, when  *)
(* no other call of the connection is owed and none of its timers runs; a  *)
(* late answer does not start it again (handle_resolve, handle_connect).   *)
(***************************************************************************)
ShutdownLast ==
    \A c \in Connections :
       conn[c].result["shutdown"] # "idle" =>
          /\ \A k \in {"connect", "init"} : conn[c].result[k] # "pending"
          /\ \A s \in Stages \ {"shutdown"} : conn[c].timer[s] # "running"

(***************************************************************************)
(* FailsOnItsOwn: a connect fails by its own operation or its own timer.   *)
(* Another connection's timeout, which cancels the lookups of the whole    *)
(* endpoint (handle_resolve_timeout), makes it wait and never fails it.    *)
(***************************************************************************)
FailsOnItsOwn ==
    [][\A c \in Connections :
          conn[c].result["connect"] = "pending" /\ conn'[c].result["connect"] = "error" =>
             \E s \in StagesOf("connect") :
                conn[c].op[s] = "error" \/ conn[c].timer[s] = "expired"]_vars

(***************************************************************************)
(* The inductive invariant, of each connection k.  A stage's timer is set  *)
(* with its operation, is cancelled only when that is over, and runs only  *)
(* while its call is owed; the calls follow one another.                   *)
(***************************************************************************)
Live == {"running", "expired"}

TimedStages(k) ==
    \A s \in Stages :
       /\ k.op[s] = "none" <=> k.timer[s] = "none"
       /\ k.timer[s] = "cancelled" => k.op[s] = "over"

TimersServeCalls(k) ==
    /\ \A call \in Calls :
          /\ k.result[call] = "pending" <=> \E s \in StagesOf(call) : k.timer[s] \in Live
          /\ k.result[call] # "twice"
    /\ k.result["connect"] = "idle" <=> k.timer["resolve"] = "none"
    /\ k.timer["connect"] # "none" => k.timer["resolve"] = "cancelled"
    /\ \A call \in {"init", "shutdown"} :
          k.result[call] = "idle" <=> k.timer[call] = "none"

InTurn(k) ==
    /\ k.result["init"] # "idle" => k.result["connect"] = "ok"
    /\ k.result["shutdown"] # "idle" =>
          k.result["connect"] = "error" \/ k.result["init"] \in {"ok", "error"}

Good(k) == TimedStages(k) /\ TimersServeCalls(k) /\ InTurn(k)

(* IInv: the three parts hold of every connection in every state: what the *)
(* four timed stages of transport/asio rest on.                            *)
IInv == TypeOK /\ \A c \in Connections : Good(conn[c])

(* Each callback is a call in the sense of AsyncCall. *)
Promise(c, k) == INSTANCE AsyncCall WITH result <- conn[c].result[k]

(***************************************************************************)
(* ImplementsCalls: no handler breaks the promise of AsyncCall: a callback *)
(* runs only while it is owed, and once.                                   *)
(***************************************************************************)
ImplementsCalls ==
    /\ \A c \in Connections, k \in Calls : Promise(c, k)!Init
    /\ [][\A c \in Connections, k \in Calls :
             [Promise(c, k)!Next]_(conn[c].result[k])]_conn

(***************************************************************************)
(* CallsReturn: every callback does run, though nobody has to answer, by   *)
(* the timers of the four stages; also that of an aborted lookup.          *)
(***************************************************************************)
CallsReturn == \A c \in Connections, k \in Calls : Promise(c, k)!Returns
=============================================================================
