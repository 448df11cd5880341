------------------------- MODULE AsioConnect_proofs -------------------------
(***************************************************************************)
(* Proofs about AsioConnect.tla, for any number of connections on one      *)
(* endpoint.                                                               *)
(***************************************************************************)
EXTENDS AsioConnect, TLAPS

-----------------------------------------------------------------------------
(* The functions of a connection's state *)

(* The components of a state are functions of the types they should have. *)
LEMMA Components ==
    ASSUME NEW k \in ConnectionState
    PROVE  /\ k.op \in [Stages -> OpStates]
           /\ k.timer \in [Stages -> TimerStates]
           /\ k.result \in [Calls -> ResultStates]
BY DEF ConnectionState

(* A state is given by its components. *)
LEMMA BeginState ==
    ASSUME NEW k \in ConnectionState, NEW s \in Stages
    PROVE  /\ Begin(k, s) \in ConnectionState
           /\ Begin(k, s).result = k.result
           /\ \A u \in Stages :
                /\ Begin(k, s).op[u] = IF u = s THEN "pending" ELSE k.op[u]
                /\ Begin(k, s).timer[u] = IF u = s THEN "running" ELSE k.timer[u]
BY DEF Begin, ConnectionState, OpStates, TimerStates

LEMMA CalledState ==
    ASSUME NEW k \in ConnectionState, NEW call \in Calls
    PROVE  /\ Called(k, call) \in ConnectionState
           /\ Called(k, call).op = k.op
           /\ Called(k, call).timer = k.timer
           /\ \A u \in Calls : Called(k, call).result[u] =
                IF u = call THEN "pending" ELSE k.result[u]
BY DEF Called, ConnectionState, ResultStates

LEMMA ReportedState ==
    ASSUME NEW k \in ConnectionState, NEW call \in Calls, NEW r \in {"ok", "error"}
    PROVE  /\ Reported(k, call, r) \in ConnectionState
           /\ Reported(k, call, r).op = k.op
           /\ Reported(k, call, r).timer = k.timer
           /\ \A u \in Calls : Reported(k, call, r).result[u] =
                IF u # call THEN k.result[u]
                ELSE IF k.result[u] = "pending" THEN r ELSE "twice"
BY DEF Reported, ConnectionState, ResultStates

LEMMA OpOverState ==
    ASSUME NEW k \in ConnectionState, NEW s \in Stages
    PROVE  /\ OpOver(k, s) \in ConnectionState
           /\ OpOver(k, s).timer = k.timer
           /\ OpOver(k, s).result = k.result
           /\ \A u \in Stages : OpOver(k, s).op[u] = IF u = s THEN "over" ELSE k.op[u]
BY DEF OpOver, ConnectionState, OpStates

LEMMA SettledState ==
    ASSUME NEW k \in ConnectionState, NEW s \in Stages
    PROVE  /\ Settled(k, s) \in ConnectionState
           /\ Settled(k, s).result = k.result
           /\ \A u \in Stages :
                /\ Settled(k, s).op[u] = IF u = s THEN "over" ELSE k.op[u]
                /\ Settled(k, s).timer[u] =
                     IF u = s /\ k.timer[u] = "running" THEN "cancelled" ELSE k.timer[u]
BY DEF Settled, OpOver, ConnectionState, OpStates, TimerStates

LEMMA CancelState ==
    ASSUME NEW k \in ConnectionState, NEW s \in Stages
    PROVE  /\ Cancel(k, s) \in ConnectionState
           /\ Cancel(k, s).timer = k.timer
           /\ Cancel(k, s).result = k.result
           /\ \A u \in Stages : Cancel(k, s).op[u] =
                IF u = s /\ k.op[u] = "pending" THEN "cancelled" ELSE k.op[u]
BY DEF Cancel, ConnectionState, OpStates

-----------------------------------------------------------------------------
(* Good states stay good *)

(***************************************************************************)
(* A stage's operation and timer may change, as long as the timer stays    *)
(* live or dead and is cancelled only with the operation over.             *)
(***************************************************************************)
LEMMA SameStages ==
    ASSUME NEW k \in ConnectionState, NEW k2 \in ConnectionState, Good(k),
           k2.result = k.result,
           \A u \in Stages :
              /\ k2.op[u] = "none" <=> k.op[u] = "none"
              /\ k.op[u] = "over" => k2.op[u] = "over"
              /\ \/ k2.timer[u] = k.timer[u]
                 \/ k.timer[u] \in Live /\ k2.timer[u] \in Live
    PROVE  Good(k2)
<1>1. TimedStages(k2)
    BY DEF Good, TimedStages, Live
<1>2. TimersServeCalls(k2)
    <2>1. \A u \in Stages : k2.timer[u] \in Live <=> k.timer[u] \in Live
        OBVIOUS
    <2>2. \A u \in Stages : /\ k2.timer[u] = "none" <=> k.timer[u] = "none"
                            /\ k2.timer[u] = "cancelled" <=> k.timer[u] = "cancelled"
        BY DEF Live
    <2> QED BY <2>1, <2>2 DEF Good, TimersServeCalls, StagesOf, Stages, Calls
<1>3. InTurn(k2)
    BY DEF Good, InTurn
<1> QED BY <1>1, <1>2, <1>3 DEF Good

(* Initializing a connection that is connected. *)
LEMMA InitGood ==
    ASSUME NEW k \in ConnectionState, Good(k), secure \in BOOLEAN,
           k.result["connect"] = "ok", k.result["init"] = "idle"
    PROVE  /\ init(k) \in ConnectionState
           /\ Good(init(k))
           /\ \A u \in Calls : IF u = "init" THEN init(k).result[u] \in {"pending", "ok"}
                               ELSE init(k).result[u] = k.result[u]
<1> DEFINE begun == Begin(Called(k, "init"), "init")
<1>0. k.result["shutdown"] = "idle"
    BY DEF Good, InTurn
<1>1. /\ begun \in ConnectionState
      /\ Good(begun)
      /\ \A u \in Calls : begun.result[u] = IF u = "init" THEN "pending" ELSE k.result[u]
    <2>1. /\ begun \in ConnectionState
          /\ begun.result = Called(k, "init").result
          /\ \A u \in Stages :
                /\ begun.op[u] = IF u = "init" THEN "pending" ELSE k.op[u]
                /\ begun.timer[u] = IF u = "init" THEN "running" ELSE k.timer[u]
        BY BeginState, CalledState DEF Stages, Calls
    <2>2. \A u \in Calls : begun.result[u] = IF u = "init" THEN "pending" ELSE k.result[u]
        BY <2>1, CalledState DEF Calls
    <2> HIDE DEF begun
    <2>3. TimedStages(begun)
        BY <2>1 DEF Good, TimedStages
    <2>4. TimersServeCalls(begun)
        BY <2>1, <2>2 DEF Good, TimersServeCalls, StagesOf, Stages, Calls, Live
    <2>5. InTurn(begun)
        BY <1>0, <2>2 DEF InTurn, Calls
    <2> QED BY <2>1, <2>2, <2>3, <2>4, <2>5 DEF Good
<1>2. CASE secure
    BY <1>1, <1>2 DEF init
<1>3. CASE ~secure
    <2> DEFINE told == Reported(Settled(begun, "init"), "init", "ok")
    <2>1. init(k) = told
        BY <1>3 DEF init
    <2>2. begun.timer["init"] = "running"
        BY BeginState, CalledState DEF Stages, Calls
    <2> HIDE DEF begun
    <2>3. /\ told \in ConnectionState
          /\ \A u \in Stages :
                /\ told.op[u] = IF u = "init" THEN "over" ELSE begun.op[u]
                /\ told.timer[u] = IF u = "init" THEN "cancelled" ELSE begun.timer[u]
          /\ \A u \in Calls : told.result[u] = IF u = "init" THEN "ok" ELSE k.result[u]
        BY <1>1, <2>2, SettledState, ReportedState DEF Stages, Calls
    <2> HIDE DEF told
    <2>4. TimedStages(told)
        BY <1>1, <2>3 DEF Good, TimedStages
    <2>5. TimersServeCalls(told)
        BY <1>1, <2>3 DEF Good, TimersServeCalls, StagesOf, Stages, Calls, Live
    <2>6. InTurn(told)
        BY <1>0, <2>3 DEF InTurn, Calls
    <2> QED BY <2>1, <2>3, <2>4, <2>5, <2>6 DEF Good
<1> QED BY <1>2, <1>3

(* Shutting a connection down that failed or is initialized. *)
LEMMA TerminateGood ==
    ASSUME NEW k \in ConnectionState, Good(k), secure \in BOOLEAN,
           k.result["shutdown"] = "idle",
           k.result["connect"] = "error" \/ k.result["init"] \in {"ok", "error"}
    PROVE  /\ terminate(k) \in ConnectionState
           /\ Good(terminate(k))
           /\ \A u \in Calls :
                IF u = "shutdown" THEN terminate(k).result[u] \in {"pending", "ok"}
                ELSE terminate(k).result[u] = k.result[u]
<1> DEFINE begun == Begin(Called(k, "shutdown"), "shutdown")
<1>1. /\ begun \in ConnectionState
      /\ Good(begun)
      /\ \A u \in Calls : begun.result[u] = IF u = "shutdown" THEN "pending" ELSE k.result[u]
    <2>1. /\ begun \in ConnectionState
          /\ begun.result = Called(k, "shutdown").result
          /\ \A u \in Stages :
                /\ begun.op[u] = IF u = "shutdown" THEN "pending" ELSE k.op[u]
                /\ begun.timer[u] = IF u = "shutdown" THEN "running" ELSE k.timer[u]
        BY BeginState, CalledState DEF Stages, Calls
    <2>2. \A u \in Calls :
            begun.result[u] = IF u = "shutdown" THEN "pending" ELSE k.result[u]
        BY <2>1, CalledState DEF Calls
    <2> HIDE DEF begun
    <2>3. TimedStages(begun)
        BY <2>1 DEF Good, TimedStages
    <2>4. TimersServeCalls(begun)
        BY <2>1, <2>2 DEF Good, TimersServeCalls, StagesOf, Stages, Calls, Live
    <2>5. InTurn(begun)
        BY <2>2 DEF Good, InTurn, Calls
    <2> QED BY <2>1, <2>2, <2>3, <2>4, <2>5 DEF Good
<1>2. terminate(k) = async_shutdown(k)
    BY DEF terminate
<1>3. CASE secure
    BY <1>1, <1>2, <1>3 DEF async_shutdown
<1>4. CASE ~secure
    <2> DEFINE told == Reported(Settled(begun, "shutdown"), "shutdown", "ok")
    <2>1. terminate(k) = told
        BY <1>2, <1>4 DEF async_shutdown
    <2>2. begun.timer["shutdown"] = "running"
        BY BeginState, CalledState DEF Stages, Calls
    <2> HIDE DEF begun
    <2>3. /\ told \in ConnectionState
          /\ \A u \in Stages :
                /\ told.op[u] = IF u = "shutdown" THEN "over" ELSE begun.op[u]
                /\ told.timer[u] = IF u = "shutdown" THEN "cancelled" ELSE begun.timer[u]
          /\ \A u \in Calls : told.result[u] = IF u = "shutdown" THEN "ok" ELSE k.result[u]
        BY <1>1, <2>2, SettledState, ReportedState DEF Stages, Calls
    <2> HIDE DEF told
    <2>4. TimedStages(told)
        BY <1>1, <2>3 DEF Good, TimedStages
    <2>5. TimersServeCalls(told)
        BY <1>1, <2>3 DEF Good, TimersServeCalls, StagesOf, Stages, Calls, Live
    <2>6. InTurn(told)
        BY <1>1, <2>3 DEF Good, InTurn, Calls
    <2> QED BY <2>1, <2>3, <2>4, <2>5, <2>6 DEF Good
<1> QED BY <1>3, <1>4

(***************************************************************************)
(* k2 is k after a handler of stage s has settled it: its timer was live   *)
(* and will not run any more.  The callback of the call follows.           *)
(***************************************************************************)
Settles(k, k2, s) ==
    /\ k.timer[s] \in Live
    /\ k2.result = k.result
    /\ \A u \in Stages \ {s} : k2.op[u] = k.op[u] /\ k2.timer[u] = k.timer[u]
    /\ k2.op[s] # "none"
    /\ \/ k2.timer[s] = "over"
       \/ k2.timer[s] = "cancelled" /\ k2.op[s] = "over"

(* The call of a stage whose timer is live is owed, and no other is. *)
LEMMA OneOwed ==
    ASSUME NEW k \in ConnectionState, Good(k), NEW call \in Calls,
           NEW s \in StagesOf(call), k.timer[s] \in Live
    PROVE  /\ s \in Stages
           /\ k.result[call] = "pending"
           /\ \A u \in Stages \ {s} : k.timer[u] \notin Live
           /\ call = "connect" => k.result["init"] = "idle"
           /\ call # "shutdown" => k.result["shutdown"] = "idle"
<1>1. s \in Stages
    BY DEF StagesOf, Stages, Calls
<1>2. k.result[call] = "pending"
    BY DEF Good, TimersServeCalls
<1>3. /\ call = "connect" => k.result["init"] = "idle"
      /\ call # "shutdown" => k.result["shutdown"] = "idle"
    BY <1>2, Components DEF Good, InTurn, Calls
<1>4. ASSUME NEW u \in Stages \ {s}, k.timer[u] \in Live PROVE FALSE
    <2>1. PICK other \in Calls : u \in StagesOf(other)
        BY DEF StagesOf, Stages, Calls
    <2>2. k.result[other] = "pending"
        BY <1>4, <2>1 DEF Good, TimersServeCalls
    <2>3. other = call
        BY <1>2, <2>2 DEF Good, InTurn, Calls
    <2>4. k.timer["connect"] \in Live /\ k.timer["resolve"] \in Live
        BY <1>4, <2>1, <2>3 DEF StagesOf, Calls
    <2> QED BY <2>4 DEF Good, TimersServeCalls, Live
<1> QED BY <1>1, <1>2, <1>3, <1>4

LEMMA ReportedGood ==
    ASSUME NEW k \in ConnectionState, Good(k), NEW k2 \in ConnectionState,
           NEW call \in Calls, NEW s \in StagesOf(call), Settles(k, k2, s),
           NEW r \in {"ok", "error"}, s = "resolve" => r = "error"
    PROVE  /\ Reported(k2, call, r) \in ConnectionState
           /\ Good(Reported(k2, call, r))
           /\ \A u \in Calls : Reported(k2, call, r).result[u] =
                IF u = call THEN r ELSE k.result[u]
<1> DEFINE told == Reported(k2, call, r)
<1>1. /\ k.timer[s] \in Live
      /\ s \in Stages
      /\ k.result[call] = "pending"
      /\ \A u \in Stages \ {s} : k.timer[u] \notin Live
      /\ call = "connect" => k.result["init"] = "idle"
      /\ call # "shutdown" => k.result["shutdown"] = "idle"
    BY OneOwed DEF Settles
<1>2. /\ told \in ConnectionState
      /\ told.op = k2.op
      /\ told.timer = k2.timer
      /\ \A u \in Calls : told.result[u] = IF u = call THEN r ELSE k.result[u]
    <2>1. k2.result[call] = "pending" /\ k2.result = k.result
        BY <1>1 DEF Settles
    <2>2. told \in ConnectionState /\ told.op = k2.op /\ told.timer = k2.timer
        BY ReportedState
    <2>3. \A u \in Calls : told.result[u] =
            IF u # call THEN k2.result[u]
            ELSE IF k2.result[u] = "pending" THEN r ELSE "twice"
        BY DEF Reported, ConnectionState
    <2> QED BY <2>1, <2>2, <2>3
<1> HIDE DEF told
<1>3. TimedStages(told)
    BY <1>1, <1>2 DEF Good, TimedStages, Settles, Live
<1>4. TimersServeCalls(told)
    <2>1. \A u \in Stages : told.timer[u] \notin Live
        BY <1>1, <1>2 DEF Settles, Live
    <2>2. \A u \in Calls : told.result[u] \notin {"pending", "twice"}
        <3>1. \A u \in Calls \ {call} : k.result[u] # "pending"
            <4> SUFFICES ASSUME NEW u \in Calls \ {call}, k.result[u] = "pending" PROVE FALSE
                OBVIOUS
            <4>1. PICK t \in StagesOf(u) : k.timer[t] \in Live
                BY DEF Good, TimersServeCalls
            <4>2. t \in Stages \ {s}
                BY <4>1 DEF StagesOf, Stages, Calls
            <4> QED BY <1>1, <4>1, <4>2
        <3>2. \A u \in Calls : k.result[u] # "twice"
            BY DEF Good, TimersServeCalls
        <3> QED BY <1>2, <3>1, <3>2
    <2>3. \A u \in Stages : told.timer[u] = "none" <=> k.timer[u] = "none"
        BY <1>1, <1>2 DEF Settles, Live
    <2>4. \A u \in Calls : told.result[u] = "idle" <=> k.result[u] = "idle"
        BY <1>1, <1>2
    <2>5. told.timer["connect"] # "none" => told.timer["resolve"] = "cancelled"
        <3>1. CASE s = "resolve"
            <4>1. k.timer["connect"] = "none"
                BY <1>1, <3>1 DEF Good, TimersServeCalls, Live
            <4> QED BY <2>3, <4>1 DEF Stages
        <3>2. CASE s # "resolve"
            <4>1. told.timer["resolve"] = k.timer["resolve"]
                BY <1>2, <3>2 DEF Settles, Stages
            <4> QED BY <2>3, <4>1 DEF Good, TimersServeCalls, Stages
        <3> QED BY <3>1, <3>2
    <2>6. \A u \in Calls : StagesOf(u) \subseteq Stages
        BY DEF StagesOf, Calls, Stages
    <2> QED
        <3>1. \A u \in {"init", "shutdown"} :
                told.result[u] = "idle" <=> told.timer[u] = "none"
            BY <2>3, <2>4 DEF Good, TimersServeCalls, Stages, Calls
        <3>2. told.result["connect"] = "idle" <=> told.timer["resolve"] = "none"
            BY <2>3, <2>4 DEF Good, TimersServeCalls, Stages, Calls
        <3> QED BY <2>1, <2>2, <2>5, <2>6, <3>1, <3>2 DEF TimersServeCalls
<1>5. InTurn(told)
    BY <1>1, <1>2 DEF Good, InTurn, Calls
<1> QED BY <1>2, <1>3, <1>4, <1>5 DEF Good, told

(***************************************************************************)
(* The callback of a call that is settled: what it goes on to do leaves a  *)
(* good state, and moves every call as AsyncCall allows.                   *)
(***************************************************************************)
CallMoves(k, k2) ==
    \A u \in Calls :
       \/ k2.result[u] = k.result[u]
       \/ k.result[u] = "idle" /\ k2.result[u] \in {"pending", "ok"}
       \/ k.result[u] = "pending" /\ k2.result[u] \in {"ok", "error"}

LEMMA CallBackGood ==
    ASSUME NEW k \in ConnectionState, Good(k), NEW k2 \in ConnectionState,
           NEW call \in Calls, NEW s \in StagesOf(call), Settles(k, k2, s),
           NEW r \in {"ok", "error"}, s = "resolve" => r = "error",
           secure \in BOOLEAN
    PROVE  /\ CallBack(k2, call, r) \in ConnectionState
           /\ Good(CallBack(k2, call, r))
           /\ CallMoves(k, CallBack(k2, call, r))
           /\ CallBack(k2, call, r).result["connect"] =
                IF call = "connect" THEN r ELSE k.result["connect"]
<1> DEFINE told == Reported(k2, call, r)
<1>1. /\ told \in ConnectionState
      /\ Good(told)
      /\ \A u \in Calls : told.result[u] = IF u = call THEN r ELSE k.result[u]
    BY ReportedGood
<1>2. /\ k.result[call] = "pending"
      /\ call = "connect" => k.result["init"] = "idle"
      /\ call # "shutdown" => k.result["shutdown"] = "idle"
    BY OneOwed DEF Settles
<1>3. CASE call = "connect" /\ r = "ok"
    <2>1. CallBack(k2, call, r) = init(told)
        BY <1>3 DEF CallBack
    <2>2. told.result["connect"] = "ok" /\ told.result["init"] = "idle"
        BY <1>1, <1>2, <1>3 DEF Calls
    <2> HIDE DEF told
    <2>3. /\ init(told) \in ConnectionState
          /\ Good(init(told))
          /\ \A u \in Calls : IF u = "init" THEN init(told).result[u] \in {"pending", "ok"}
                              ELSE init(told).result[u] = told.result[u]
        BY <1>1, <2>2, InitGood
    <2>4. CallMoves(k, init(told))
        BY <1>1, <1>2, <1>3, <2>3 DEF CallMoves, Calls
    <2> QED BY <1>3, <2>1, <2>2, <2>3, <2>4 DEF Calls
<1>4. CASE call \in {"connect", "init"} /\ r = "error"
    <2>1. CallBack(k2, call, r) = terminate(told)
        BY <1>4 DEF CallBack
    <2>2. /\ told.result["shutdown"] = "idle"
          /\ told.result["connect"] = "error" \/ told.result["init"] \in {"ok", "error"}
        BY <1>1, <1>2, <1>4 DEF Calls
    <2> HIDE DEF told
    <2>3. /\ terminate(told) \in ConnectionState
          /\ Good(terminate(told))
          /\ \A u \in Calls :
                IF u = "shutdown" THEN terminate(told).result[u] \in {"pending", "ok"}
                ELSE terminate(told).result[u] = told.result[u]
        BY <1>1, <2>2, TerminateGood
    <2>4. CallMoves(k, terminate(told))
        BY <1>1, <1>2, <1>4, <2>3 DEF CallMoves, Calls
    <2> QED BY <1>1, <1>4, <2>1, <2>3, <2>4 DEF Calls
<1>5. CASE call = "shutdown" \/ (call = "init" /\ r = "ok")
    <2>1. CallBack(k2, call, r) = told
        BY <1>5 DEF CallBack
    <2>2. CallMoves(k, told)
        BY <1>1, <1>2 DEF CallMoves
    <2> HIDE DEF told
    <2> QED BY <1>1, <1>5, <2>1, <2>2 DEF Calls
<1> QED BY <1>3, <1>4, <1>5 DEF Calls

-----------------------------------------------------------------------------
(* The actions *)

(* What every step makes of a connection's state k. *)
Fine(k, k2) ==
    /\ k2 \in ConnectionState
    /\ Good(k2)
    /\ CallMoves(k, k2)
    /\ k.result["connect"] = "pending" /\ k2.result["connect"] = "error" =>
          \E s \in StagesOf("connect") : k.op[s] = "error" \/ k.timer[s] = "expired"

LEMMA SameIsFine ==
    ASSUME NEW k \in ConnectionState, Good(k) PROVE Fine(k, k)
BY DEF Fine, CallMoves

LEMMA SameStagesFine ==
    ASSUME NEW k \in ConnectionState, NEW k2 \in ConnectionState, Good(k),
           k2.result = k.result,
           \A u \in Stages :
              /\ k2.op[u] = "none" <=> k.op[u] = "none"
              /\ k.op[u] = "over" => k2.op[u] = "over"
              /\ \/ k2.timer[u] = k.timer[u]
                 \/ k.timer[u] \in Live /\ k2.timer[u] \in Live
    PROVE  Fine(k, k2)
<1>1. Good(k2)
    BY SameStages
<1> QED BY <1>1 DEF Fine, CallMoves

LEMMA CancelFine ==
    ASSUME NEW k \in ConnectionState, Good(k), NEW s \in Stages
    PROVE  Fine(k, Cancel(k, s))
<1> DEFINE k2 == Cancel(k, s)
<1>1. /\ k2 \in ConnectionState /\ k2.timer = k.timer /\ k2.result = k.result
      /\ \A u \in Stages : k2.op[u] =
            IF u = s /\ k.op[u] = "pending" THEN "cancelled" ELSE k.op[u]
    BY CancelState
<1> HIDE DEF k2
<1>2. Fine(k, k2)
    BY <1>1, SameStagesFine
<1> QED BY <1>2 DEF k2

LEMMA OpOverFine ==
    ASSUME NEW k \in ConnectionState, Good(k), NEW s \in Stages, k.op[s] # "none"
    PROVE  Fine(k, OpOver(k, s))
<1> DEFINE k2 == OpOver(k, s)
<1>1. /\ k2 \in ConnectionState /\ k2.timer = k.timer /\ k2.result = k.result
      /\ \A u \in Stages : k2.op[u] = IF u = s THEN "over" ELSE k.op[u]
    BY OpOverState
<1> HIDE DEF k2
<1>2. Fine(k, k2)
    BY <1>1, SameStagesFine
<1> QED BY <1>2 DEF k2

(* A handler that speaks: its operation has ended and its timer still runs. *)
LEMMA SpeaksFine ==
    ASSUME NEW k \in ConnectionState, Good(k), secure \in BOOLEAN,
           NEW call \in Calls, NEW s \in StagesOf(call), NEW r \in {"ok", "error"},
           s = "resolve" => r = "error", r = "error" => k.op[s] = "error",
           k.op[s] \in {"ok", "error"}, ~Past(k, s)
    PROVE  Fine(k, CallBack(Settled(k, s), call, r))
<1>1. s \in Stages
    BY DEF StagesOf, Stages, Calls
<1>2. k.timer[s] = "running"
    BY <1>1, Components DEF Good, TimedStages, Past, TimerStates
<1>3. Settled(k, s) \in ConnectionState /\ Settles(k, Settled(k, s), s)
    BY <1>1, <1>2, SettledState DEF Settles, Live
<1>4. LET k2 == CallBack(Settled(k, s), call, r)
      IN  /\ k2 \in ConnectionState
          /\ Good(k2)
          /\ CallMoves(k, k2)
          /\ k2.result["connect"] = IF call = "connect" THEN r ELSE k.result["connect"]
    BY <1>3, CallBackGood
<1> QED BY <1>4 DEF Fine

(* A timeout: the timer has expired, the operation may go on or not. *)
LEMMA TimeoutFine ==
    ASSUME NEW k \in ConnectionState, Good(k), secure \in BOOLEAN,
           NEW call \in Calls, NEW s \in StagesOf(call), k.timer[s] = "expired"
    PROVE  Fine(k, CallBack([Cancel(k, s) EXCEPT !.timer[s] = "over"], call, "error"))
<1> DEFINE k2 == [Cancel(k, s) EXCEPT !.timer[s] = "over"]
<1>1. s \in Stages
    BY DEF StagesOf, Stages, Calls
<1>2. k.op[s] # "none"
    BY <1>1 DEF Good, TimedStages
<1>3. /\ k2 \in ConnectionState
      /\ k2.result = k.result
      /\ k2.op = Cancel(k, s).op
      /\ \A u \in Stages : k2.timer[u] = IF u = s THEN "over" ELSE k.timer[u]
    BY <1>1, CancelState DEF ConnectionState, TimerStates
<1>4. Settles(k, k2, s)
    <2> HIDE DEF k2
    <2> QED BY <1>1, <1>2, <1>3, CancelState DEF Settles, Live
<1> HIDE DEF k2
<1>5. LET k3 == CallBack(k2, call, "error")
      IN  /\ k3 \in ConnectionState
          /\ Good(k3)
          /\ CallMoves(k, k3)
          /\ k3.result["connect"] =
               IF call = "connect" THEN "error" ELSE k.result["connect"]
    BY <1>3, <1>4, CallBackGood
<1>6. Fine(k, CallBack(k2, call, "error"))
    BY <1>5 DEF Fine
<1> QED BY <1>6 DEF k2

(* The two places where a stage of connecting begins. *)
LEMMA AsyncConnectFine ==
    ASSUME NEW k \in ConnectionState, Good(k), k.result["connect"] = "idle"
    PROVE  Fine(k, Begin(Called(k, "connect"), "resolve"))
<1> DEFINE begun == Begin(Called(k, "connect"), "resolve")
<1>1. /\ \A s \in Stages : k.timer[s] = "none"
      /\ \A u \in Calls : k.result[u] = "idle"
    <2>1. k.result["init"] = "idle" /\ k.result["shutdown"] = "idle"
        BY DEF Good, InTurn
    <2> QED BY <2>1 DEF Good, TimersServeCalls, Stages, Calls
<1>2. /\ begun \in ConnectionState
      /\ begun.result = Called(k, "connect").result
      /\ \A u \in Stages :
            /\ begun.op[u] = IF u = "resolve" THEN "pending" ELSE k.op[u]
            /\ begun.timer[u] = IF u = "resolve" THEN "running" ELSE k.timer[u]
    BY BeginState, CalledState DEF Stages, Calls
<1>3. \A u \in Calls : begun.result[u] = IF u = "connect" THEN "pending" ELSE k.result[u]
    BY <1>2, CalledState DEF Calls
<1> HIDE DEF begun
<1>4. TimedStages(begun)
    BY <1>2 DEF Good, TimedStages
<1>5. TimersServeCalls(begun)
    BY <1>1, <1>2, <1>3 DEF TimersServeCalls, StagesOf, Stages, Calls, Live
<1>6. InTurn(begun)
    BY <1>1, <1>3 DEF InTurn, Calls
<1>7. Fine(k, begun)
    BY <1>1, <1>2, <1>3, <1>4, <1>5, <1>6 DEF Fine, Good, CallMoves, Calls
<1> QED BY <1>7 DEF begun

LEMMA ConnectBeginsFine ==
    ASSUME NEW k \in ConnectionState, Good(k), k.op["resolve"] = "ok", ~Past(k, "resolve")
    PROVE  Fine(k, Begin(Settled(k, "resolve"), "connect"))
<1> DEFINE begun == Begin(Settled(k, "resolve"), "connect")
<1>1. k.timer["resolve"] = "running"
    BY Components DEF Good, TimedStages, Past, TimerStates, Stages
<1>2. /\ k.result["connect"] = "pending"
      /\ \A u \in Stages \ {"resolve"} : k.timer[u] \notin Live
    BY <1>1, OneOwed DEF StagesOf, Calls, Live
<1>3. /\ begun \in ConnectionState
      /\ begun.result = k.result
      /\ \A u \in Stages :
            /\ begun.op[u] = IF u = "connect" THEN "pending"
                             ELSE IF u = "resolve" THEN "over" ELSE k.op[u]
            /\ begun.timer[u] = IF u = "connect" THEN "running"
                                ELSE IF u = "resolve" THEN "cancelled" ELSE k.timer[u]
    BY <1>1, BeginState, SettledState DEF Stages
<1> HIDE DEF begun
<1>4. TimedStages(begun)
    BY <1>3 DEF Good, TimedStages
<1>5. TimersServeCalls(begun)
    BY <1>1, <1>2, <1>3 DEF Good, TimersServeCalls, StagesOf, Stages, Calls, Live
<1>6. InTurn(begun)
    BY <1>3 DEF Good, InTurn
<1>7. Fine(k, begun)
    BY <1>2, <1>3, <1>4, <1>5, <1>6 DEF Fine, Good, CallMoves
<1> QED BY <1>7 DEF begun

-----------------------------------------------------------------------------
(* Every step *)

(* A step of connection c leaves the others as they are. *)
LEMMA StepFine ==
    ASSUME IInv, NEW c \in Connections, NEW k, Fine(conn[c], k), Step(c, k)
    PROVE  secure' \in BOOLEAN /\ \A d \in Connections : Fine(conn[d], conn'[d])
<1>1. \A d \in Connections : conn'[d] = IF d = c THEN k ELSE conn[d]
    BY DEF IInv, TypeOK, Step
<1>2. \A d \in Connections : Fine(conn[d], conn[d])
    BY SameIsFine DEF IInv, TypeOK
<1> QED BY <1>1, <1>2 DEF IInv, TypeOK, Step

(* handle_end speaks for its own stage. *)
LEMMA EndFine ==
    ASSUME IInv, NEW c \in Connections, NEW s \in Calls, handle_end(c, s)
    PROVE  secure' \in BOOLEAN /\ \A d \in Connections : Fine(conn[d], conn'[d])
<1>1. /\ conn[c] \in ConnectionState
      /\ Good(conn[c])
      /\ secure \in BOOLEAN
      /\ s \in Stages /\ s \in StagesOf(s)
      /\ conn[c].op[s] \in {"ok", "error", "aborted"}
    BY DEF IInv, TypeOK, handle_end, Queued, Stages, Calls, StagesOf
<1>2. CASE Silent(c, s)
    <2>1. Step(c, OpOver(conn[c], s))
        BY <1>2 DEF handle_end
    <2>2. Fine(conn[c], OpOver(conn[c], s))
        BY <1>1, OpOverFine
    <2> QED BY <2>1, <2>2, StepFine
<1>3. CASE ~Silent(c, s)
    <2> DEFINE r == Outcome(c, s)
    <2>1. Step(c, CallBack(Settled(conn[c], s), s, r))
        BY <1>3 DEF handle_end
    <2>2. /\ conn[c].op[s] \in {"ok", "error"}
          /\ ~Past(conn[c], s)
          /\ r \in {"ok", "error"}
          /\ r = "error" => conn[c].op[s] = "error"
          /\ s # "resolve"
        BY <1>1, <1>3 DEF Silent, Ended, Outcome, Calls
    <2> HIDE DEF r
    <2>3. Fine(conn[c], CallBack(Settled(conn[c], s), s, r))
        BY <1>1, <2>2, SpeaksFine
    <2> QED BY <2>1, <2>3, StepFine
<1> QED BY <1>2, <1>3

LEMMA ResolveFine ==
    ASSUME IInv, NEW c \in Connections, handle_resolve(c)
    PROVE  secure' \in BOOLEAN /\ \A d \in Connections : Fine(conn[d], conn'[d])
<1>1. /\ conn[c] \in ConnectionState
      /\ Good(conn[c])
      /\ secure \in BOOLEAN
      /\ "resolve" \in Stages /\ "resolve" \in StagesOf("connect") /\ "connect" \in Calls
      /\ conn[c].op["resolve"] \in {"ok", "error", "aborted"}
    BY DEF IInv, TypeOK, handle_resolve, Queued, Stages, Calls, StagesOf
<1>2. CASE Silent(c, "resolve")
    <2>1. Step(c, OpOver(conn[c], "resolve"))
        BY <1>2 DEF handle_resolve
    <2>2. Fine(conn[c], OpOver(conn[c], "resolve"))
        BY <1>1, OpOverFine
    <2> QED BY <2>1, <2>2, StepFine
<1>3. CASE ~Silent(c, "resolve") /\ Outcome(c, "resolve") = "error"
    <2>1. Step(c, CallBack(Settled(conn[c], "resolve"), "connect", "error"))
        BY <1>3 DEF handle_resolve
    <2>2. conn[c].op["resolve"] = "error" /\ ~Past(conn[c], "resolve")
        BY <1>1, <1>3 DEF Silent, Ended, Outcome
    <2>3. Fine(conn[c], CallBack(Settled(conn[c], "resolve"), "connect", "error"))
        BY <1>1, <2>2, SpeaksFine
    <2> QED BY <2>1, <2>3, StepFine
<1>4. CASE ~Silent(c, "resolve") /\ Outcome(c, "resolve") # "error"
    <2>1. Step(c, Begin(Settled(conn[c], "resolve"), "connect"))
        BY <1>4 DEF handle_resolve
    <2>2. conn[c].op["resolve"] = "ok" /\ ~Past(conn[c], "resolve")
        BY <1>1, <1>4 DEF Silent, Ended, Outcome
    <2>3. Fine(conn[c], Begin(Settled(conn[c], "resolve"), "connect"))
        BY <1>1, <2>2, ConnectBeginsFine
    <2> QED BY <2>1, <2>3, StepFine
<1> QED BY <1>2, <1>3, <1>4

(* The timeout of one lookup touches the lookups of all connections. *)
LEMMA ResolveTimeoutFine ==
    ASSUME IInv, NEW c \in Connections, handle_resolve_timeout(c)
    PROVE  secure' \in BOOLEAN /\ \A d \in Connections : Fine(conn[d], conn'[d])
<1>1. /\ \A d \in Connections : conn[d] \in ConnectionState /\ Good(conn[d])
      /\ secure' \in BOOLEAN /\ secure \in BOOLEAN
      /\ conn[c].timer["resolve"] = "expired"
      /\ "resolve" \in Stages /\ "resolve" \in StagesOf("connect") /\ "connect" \in Calls
    BY DEF IInv, TypeOK, handle_resolve_timeout, Stages, StagesOf, Calls
<1>2. SUFFICES ASSUME NEW d \in Connections PROVE Fine(conn[d], conn'[d])
    BY <1>1
<1>3. CASE d = c
    <2>1. conn'[c] = CallBack([Cancel(conn[c], "resolve") EXCEPT !.timer["resolve"] = "over"],
                              "connect", "error")
        BY DEF handle_resolve_timeout
    <2>2. Fine(conn[c], CallBack([Cancel(conn[c], "resolve") EXCEPT !.timer["resolve"] = "over"],
                                 "connect", "error"))
        BY <1>1, TimeoutFine
    <2> QED BY <1>3, <2>1, <2>2
<1>4. CASE d # c
    <2>1. conn'[d] = Cancel(conn[d], "resolve")
        BY <1>4 DEF handle_resolve_timeout
    <2> QED BY <1>1, <2>1, CancelFine
<1> QED BY <1>3, <1>4

LEMMA NextFine ==
    ASSUME IInv, Next
    PROVE  secure' \in BOOLEAN /\ \A d \in Connections : Fine(conn[d], conn'[d])
<1>1. PICK c \in Connections :
          \/ async_connect(c)
          \/ Handler(c)
          \/ \E s \in Stages : complete(c, s) \/ expire(c, s)
          \/ end(c)
    BY DEF Next
<1>2. conn[c] \in ConnectionState /\ Good(conn[c]) /\ secure \in BOOLEAN
    BY DEF IInv, TypeOK
<1>3. CASE async_connect(c)
    <2>1. Fine(conn[c], Begin(Called(conn[c], "connect"), "resolve"))
        BY <1>2, <1>3, AsyncConnectFine DEF async_connect
    <2> QED BY <1>3, <2>1, StepFine DEF async_connect
<1>4. CASE Handler(c)
    <2>1. ASSUME NEW s \in Calls, handle_timeout(c, s)
          PROVE  secure' \in BOOLEAN /\ \A d \in Connections : Fine(conn[d], conn'[d])
        <3>1. s \in StagesOf(s) /\ conn[c].timer[s] = "expired"
            BY <2>1 DEF handle_timeout, StagesOf, Calls
        <3>2. Fine(conn[c], CallBack([Cancel(conn[c], s) EXCEPT !.timer[s] = "over"], s, "error"))
            BY <1>2, <3>1, TimeoutFine
        <3> QED BY <2>1, <3>2, StepFine DEF handle_timeout
    <2> QED BY <1>4, <2>1, ResolveFine, ResolveTimeoutFine, EndFine DEF Handler
<1>5. ASSUME NEW s \in Stages, complete(c, s)
      PROVE  secure' \in BOOLEAN /\ \A d \in Connections : Fine(conn[d], conn'[d])
    <2>1. PICK r \in {"ok", "error", "aborted"} : Step(c, [conn[c] EXCEPT !.op[s] = r])
        BY <1>5 DEF complete
    <2> DEFINE k == [conn[c] EXCEPT !.op[s] = r]
    <2>2. /\ k \in ConnectionState
          /\ k.result = conn[c].result
          /\ k.timer = conn[c].timer
          /\ \A u \in Stages : k.op[u] = IF u = s THEN r ELSE conn[c].op[u]
        BY <1>2 DEF ConnectionState, OpStates
    <2>3. conn[c].op[s] \in {"pending", "cancelled"}
        BY <1>5 DEF complete
    <2> HIDE DEF k
    <2>4. Fine(conn[c], k)
        BY <1>2, <2>2, <2>3, SameStagesFine
    <2>5. Step(c, k)
        BY <2>1 DEF k
    <2> QED BY <2>4, <2>5, StepFine
<1>6. ASSUME NEW s \in Stages, expire(c, s)
      PROVE  secure' \in BOOLEAN /\ \A d \in Connections : Fine(conn[d], conn'[d])
    <2> DEFINE k == [conn[c] EXCEPT !.timer[s] = "expired"]
    <2>1. /\ k \in ConnectionState
          /\ k.result = conn[c].result
          /\ k.op = conn[c].op
          /\ \A u \in Stages : k.timer[u] = IF u = s THEN "expired" ELSE conn[c].timer[u]
        BY <1>2 DEF ConnectionState, TimerStates
    <2>2. conn[c].timer[s] = "running" /\ Step(c, k)
        BY <1>6 DEF expire
    <2> HIDE DEF k
    <2>3. Fine(conn[c], k)
        BY <1>2, <2>1, <2>2, SameStagesFine DEF Live
    <2> QED BY <2>2, <2>3, StepFine
<1>7. CASE end(c)
    <2>1. conn[c].result["init"] = "ok" /\ conn[c].result["shutdown"] = "idle"
        BY <1>7 DEF end
    <2>2. /\ terminate(conn[c]) \in ConnectionState
          /\ Good(terminate(conn[c]))
          /\ \A u \in Calls :
                IF u = "shutdown" THEN terminate(conn[c]).result[u] \in {"pending", "ok"}
                ELSE terminate(conn[c]).result[u] = conn[c].result[u]
        BY <1>2, <2>1, TerminateGood
    <2>3. Fine(conn[c], terminate(conn[c]))
        BY <2>1, <2>2 DEF Fine, CallMoves, Calls
    <2> QED BY <1>7, <2>3, StepFine DEF end
<1> QED BY <1>1, <1>3, <1>4, <1>5, <1>6, <1>7

(* A step that changes nothing is fine as well. *)
LEMMA StepKeeps ==
    ASSUME IInv, [Next]_vars
    PROVE  IInv' /\ \A d \in Connections : Fine(conn[d], conn'[d])
<1>1. CASE Next
    <2>1. secure' \in BOOLEAN /\ \A d \in Connections : Fine(conn[d], conn'[d])
        BY <1>1, NextFine
    <2>2. \A c \in Connections : \A k : Step(c, k) => conn' = [conn EXCEPT ![c] = k]
        BY DEF Step
    <2>3. conn' \in [Connections -> ConnectionState]
        <3>1. \E f : conn' = [d \in Connections |-> f[d]]
            <4>1. PICK c \in Connections : (\E k : Step(c, k)) \/ handle_resolve_timeout(c)
                BY <1>1
                DEF Next, Handler, async_connect, complete, expire, end, handle_resolve,
                    handle_end, handle_timeout
            <4>2. CASE \E k : Step(c, k)
                BY <2>2, <4>2 DEF IInv, TypeOK
            <4>3. CASE handle_resolve_timeout(c)
                BY <4>3 DEF handle_resolve_timeout
            <4> QED BY <4>1, <4>2, <4>3
        <3> QED BY <2>1, <3>1 DEF Fine
    <2> QED BY <2>1, <2>3 DEF IInv, TypeOK, Fine
<1>2. CASE UNCHANGED vars
    BY <1>2, SameIsFine DEF IInv, TypeOK, vars
<1> QED BY <1>1, <1>2

-----------------------------------------------------------------------------
(* Theorems *)

(***************************************************************************)
(* The inductive invariant: every stage of every connection of an endpoint *)
(* is timed and serves its call, and the calls come in turn.               *)
(***************************************************************************)
THEOREM Timed == Spec => []IInv
<1>1. Init => IInv
    BY DEF Init, IInv, TypeOK, ConnectionState, OpStates, TimerStates, ResultStates, Good,
           TimedStages, TimersServeCalls, InTurn, StagesOf, Stages, Calls, Live
<1>2. IInv /\ [Next]_vars => IInv'
    BY StepKeeps
<1> QED BY <1>1, <1>2, PTL DEF Spec

(***************************************************************************)
(* No callback of async_connect, init or async_shutdown runs twice.        *)
(***************************************************************************)
THEOREM CallBackOnce == Spec => []OnceOnly
<1>1. IInv => OnceOnly
    BY DEF IInv, Good, TimersServeCalls, OnceOnly
<1> QED BY <1>1, Timed, PTL

(***************************************************************************)
(* A callback that is owed has a live timer behind it.                     *)
(***************************************************************************)
THEOREM TimerBehindCall == Spec => []SomeoneCalls
<1>1. IInv => SomeoneCalls
    BY DEF IInv, Good, TimersServeCalls, SomeoneCalls, Live
<1> QED BY <1>1, Timed, PTL

(***************************************************************************)
(* When the socket is shut down, nothing of connecting is left to happen.  *)
(***************************************************************************)
THEOREM ShutdownIsLast == Spec => []ShutdownLast
<1>1. IInv => ShutdownLast
    <2> SUFFICES ASSUME IInv, NEW c \in Connections, conn[c].result["shutdown"] # "idle"
                 PROVE  /\ \A k \in {"connect", "init"} : conn[c].result[k] # "pending"
                        /\ \A s \in Stages \ {"shutdown"} : conn[c].timer[s] # "running"
        BY DEF ShutdownLast
    <2>1. Good(conn[c])
        BY DEF IInv
    <2>2. \A k \in {"connect", "init"} : conn[c].result[k] # "pending"
        BY <2>1 DEF Good, InTurn
    <2>3. \A s \in Stages \ {"shutdown"} : conn[c].timer[s] # "running"
        BY <2>1, <2>2 DEF Good, TimersServeCalls, StagesOf, Stages, Calls, Live
    <2> QED BY <2>2, <2>3
<1> QED BY <1>1, Timed, PTL

(***************************************************************************)
(* A connection fails by its own operation or its own timer, whatever the  *)
(* others do to the resolver.                                              *)
(***************************************************************************)
THEOREM OwnFailure == Spec => FailsOnItsOwn
<1>1. IInv /\ [Next]_vars =>
        [\A c \in Connections :
           conn[c].result["connect"] = "pending" /\ conn'[c].result["connect"] = "error" =>
              \E s \in StagesOf("connect") :
                 conn[c].op[s] = "error" \/ conn[c].timer[s] = "expired"]_vars
    BY StepKeeps DEF Fine
<1> QED BY <1>1, Timed, PTL DEF Spec, FailsOnItsOwn

(***************************************************************************)
(* Every call of the transport implements AsyncCall (safety).              *)
(***************************************************************************)
THEOREM CallsImplemented == Spec => ImplementsCalls
<1>1. Init => \A c \in Connections, k \in Calls : Promise(c, k)!Init
    BY DEF Init, Promise!Init, Calls
<1>2. IInv /\ [Next]_vars =>
        [\A c \in Connections, k \in Calls :
            [Promise(c, k)!Next]_(conn[c].result[k])]_conn
    <2> SUFFICES ASSUME IInv, [Next]_vars, NEW c \in Connections, NEW k \in Calls
                 PROVE  [Promise(c, k)!Next]_(conn[c].result[k])
        OBVIOUS
    <2>1. CallMoves(conn[c], conn'[c])
        BY StepKeeps DEF Fine
    <2> QED BY <2>1 DEF CallMoves, Promise!Next, Promise!Call, Promise!CallAndReturn,
                        Promise!Return, Promise!Results
<1> QED BY <1>1, <1>2, Timed, PTL DEF Spec, ImplementsCalls
=============================================================================
