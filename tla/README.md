# Darktide WebSocket plugin: a TLA+ verification project

The program is a game plugin (`src/plugin.cpp`, 600 lines of C++) that lets the
game's Lua scripts open WebSocket connections. It drives a vendored copy of
websocketpp over Boost.Asio. Paths below are relative to the repository, line
numbers are those of the commit modelled here.

## 1. Inventory

### The parts and how they interact

Everything runs on **one thread, the engine's**. There is no lock and no second
thread in the plugin; what makes it hard is re-entrancy: the engine calls
`update`, `update` polls the clients, a client runs a handler, the handler calls
Lua, and Lua calls the plugin's methods back, in the middle of `update`'s loops.

| Part | State | Operations | Talks to |
|---|---|---|---|
| life cycle (`plugin.cpp:376-582`) | `shutting_down` | `setup_game`, `update` once a frame, `shutdown` once | engine; polls and runs both clients |
| Lua API (`143-338`) | `hdls` (userdata index to handle) | `connect`, `send`, `close`, `tostring`, `__gc` | script; inserts in `connections`, queues closes |
| handlers (`64-129`) | - | `on_open`, `on_message`, `on_close` | called by a client, call Lua |
| map and queue (`32-34`) | `connections` (handle to `ConnectionMeta`), `close_queue` | insert by `operator[]`, find, erase, iterate | shared by all of the above |
| client selection (`starts_with.cpp`, `endpoint.hpp:633-660`) | - | address prefix to client, weak handle to connection | methods, `update`, `shutdown` |
| websocketpp connection (`connection.hpp`, `impl/connection_impl.hpp`) | session state, timers, write queue | connect, send, close, read, write, terminate | calls the handlers, owes nothing to anyone once gone |
| asio transport (`transport/asio`) | `io_service` (work, stopped), one resolver per client, one timer per stage | `poll`, `poll_one`, `run`, lookup, connect, TLS, shutdown | network; calls the connection back |
| HTTP response (`http/impl`) | unread line, counted bytes | `consume`, a read at a time | connection |
| hybi13 processor, frames, UTF-8 (`processors/hybi13.hpp`, `frame.hpp`, `utf8_validator.hpp`) | header bytes, bytes needed, two messages under assembly | `consume`, `get_message` | connection |
| preparing frames and the request, SHA-1, extensions | - | bytes from frames | connection |

### What is hard

* **Re-entrancy.** A callback may queue a close while `update` iterates over
  `close_queue` (406-437), or insert into `connections` while `update` iterates
  over it (441).
* **Stale knowledge.** The map, `is_connected` and the userdata outlive the
  connection object, to which only a weak pointer is kept. An entry that was
  erased is re-inserted empty by any `connections[hdl]`.
* **Order.** Close before open, close after close, a handler after erasure, a
  collection after the peer's close.
* **Progress.** The clients are polled once per map entry and frame, timers
  included; the `io_service` is never reset after it ran out of work; `run` in
  `shutdown` blocks while its client has any connection.
* **Timers.** Every stage of opening and closing races a timer, and both may have
  a handler queued; a connection's handshake timer is replaced while the old one
  runs on; one lookup's timeout cancels the lookups of all connections.
* **Cuts.** A read ends anywhere: within a line end of the server's answer,
  within a frame's header, between the fragments of a message, behind frames
  that came with the answer.
* **Overlapping writes.** Messages, pongs and close frames are queued while a
  write is under way, and the flag that says so must never be stale.
* **Partial failure.** `close` on a connection that is not open fails and is only
  logged; `get_con_from_hdl` throws out of `update` and `shutdown`.

### What makes each part correct

* Lua API: a method that is called on a socket neither throws nor touches an object
  of the wrong type, whatever else the script does (`SocketMethodsNeverFault`,
  `ConnectedIsUsable`). One that is called on anything else is undefined behaviour:
  `toHandle` (`plugin.cpp:251-256`) checks nothing.
* Handlers: callbacks come in the order connect, message*, close, never for a
  forgotten socket, never after shutdown has begun (`ImplementsContract`).
* Map and queue: what they say agrees with the library (`IInv`); a queued close
  is carried out, no connection is left without entry (`CloseCarriedOut`,
  `NoOrphan`, for scripts that keep to a discipline).
* `update`: no fault (`CarefulSafe`), closing connections are freed
  (`PollingFrees`).
* `shutdown`: it ends (`ShutdownEnds`).
* websocketpp connection: each user handler once and in order (`HandlersOnce`,
  `ImplementsLife`); no wait for the peer without a timer (`WaitsAreBounded`,
  `HandshakesEnd`); every frame is followed up and goes out in order
  (`NoFrameLeftBehind`, `WireInOrder`).
* asio transport: every callback once (`OnceOnly`, `SomeoneCalls`,
  `ImplementsCalls`, `CallsReturn`), shutdown last (`ShutdownLast`), connections
  fail on their own (`FailsOnItsOwn`).
* HTTP response and hybi13 processor: the cuts do not matter (`AsSent`,
  `OpenNothingHeldBack`, `OpensOnceRead`, `AnsweredAsMeant`); the header stays
  bounded (`HeaderBounded`), and so does a message, unless the 64 bit length of a
  continuation makes the sum at `hybi13.hpp:457` wrap (`MessageBounded`).

The `hazards` of PROJECT.json list each of these at its line.

## 2. The modules

| Module | What it is |
|---|---|
| `LuaSocket` | the abstract contract: what a script may rely on |
| `Plugin` | the core: script, `update`, handlers, `shutdown`, both clients |
| `CarefulScript` | `Plugin` under scripts that keep to a discipline |
| `PluginClaims` | what comments say and the program does not keep |
| `ConnectionLife` | the abstract life of one connection, as its user sees it |
| `Connection` | websocketpp's connection: handshakes, timers, writes, handlers |
| `ConnectionClaims` | what the library's comments say and it does not keep |
| `AsyncCall` | the abstract promise of one asynchronous call: a callback, once |
| `AsioConnect` | the transport's timed stages, several connections on one endpoint |
| `Hybi13` | bytes of the peer into messages |
| `ClientStream` | the server's answer and the frames behind it, one stream (extends `Hybi13`) |
| `Plugin_proofs` | types, the inductive invariant, no fault in a method |
| `PluginContract_proofs` | `Plugin` implements `LuaSocket` |
| `CarefulScript_proofs` | the discipline's invariant; no fault, no orphan |
| `Connection_proofs` | the connection's invariant; it implements `ConnectionLife` |
| `AsioConnect_proofs` | the stages' invariant; each call implements `AsyncCall` |
| `Hybi13_proofs` | the processor stays in step with the peer's bytes; what is delivered |
| `ClientStream_proofs` | the same for the whole stream; when a connection opens |
| `MCPlugin`, `MCCareful`, `MCPluginClaims`, `MCConnection`, `MCConnectionClaims`, `MCAsioConnect`, `MCHybi13`, `MCClientStream` | instances for TLC |

How they fit together. Three abstract modules are the interfaces between the
layers, each implemented from below and relied on from above:

    script          LuaSocket                      ImplementsContract
    plugin          Plugin  (con[h] is a life)
                    ConnectionLife
    connection      Connection (phase is a life)   ImplementsLife, HandshakesEnd
                    AsyncCall
    transport       AsioConnect                    ImplementsCalls, CallsReturn
    bytes           ClientStream / Hybi13          what Connection's Reading receives

`Plugin` therefore does not look into the library: its library events move `con[h]`
along the moves of `ConnectionLife` because they are written so, and what is shown
is that `Connection` makes no other move. `Connection` takes
connect, init and the TLS shutdown as operations that end once, well or badly.

### `Plugin`: state and steps

| Variable | In the code |
|---|---|
| `con[h]` | the library's connection: none, connecting, open, closing, terminated, gone |
| `stopped` | clients whose `io_service` is stopped |
| `connections[h]` | the map: absent, blank (made by `operator[]`), or `ws`/`wss` with `is_connected` |
| `hdls`, `close_queue`, `shutting_down` | the globals of those names |
| `pc`, `todo`, `visit` | where the engine's thread is; what its two range-for loops still have to visit |
| `moved` | `close_queue` was reallocated while it is iterated |
| `handling` | the connection whose handler `poll_one` is running |
| `in_lua` | a callback of the script is running inside a handler |
| `told`, `closed` | history: the last callback of a handle; handles whose close was queued |

The steps have the names of the functions they model. A function that runs to
its end without a poll is one step. `update` and `shutdown` are cut at the polls
and runs, because handlers and Lua run there:

* `UpdateBegin`, then for each queued handle `FlushClose` (406-414), any events
  during `poll` (415/428), `FlushErase` (436); `FlushEnd` is `clear` (439) and
  the start of the loop over the map (441). For each entry `poll_one` is called
  on the secure, then on the insecure client (`pollSecure`, `pollInsecure`);
  `PollReturns` ends each.
* `ShutdownBegin`; for each queued handle `ShutQueueClose`, events during `run`,
  `ShutQueueErase`; `ShutQueueEnd`; for each entry `ShutMapClose`, events,
  `ShutMapRun`; `ShutMapEnd` clears; `ShutFinal` is the last two runs and
  `exit`.
* Events of the library: `on_open`, `on_message`, `on_close`, `peer_close`,
  `connect_failed`, `release`. An event happens only where the thread is in the
  event loop of that connection's client (`Event`). `poll` and `run` serve any
  number of events, `poll_one` only those of one connection, but possibly more
  than one: `handle_read_frame` (`connection_impl.hpp:1032-1103`) dispatches all
  frames of one read, and the open handler is followed by the frames that came
  with the handshake's answer (1649).
* The script's methods run between two frames (`pc = "idle"`) or while a
  callback runs (`in_lua`), any of them, in any order, on any index of `hdls`, as
  often as they like; so also `__gc` called by the script itself, or on a socket that
  is used afterwards, and a foreign userdata that happens to hold a valid index.
  With no userdata, or with one that holds no index, `toHandle` reads out of bounds:
  `toHandleFails`.

A step that leaves the defined behaviour of the program ends in a **fault** and
nothing is modelled after it: an exception that no one catches
(`exception`), a connection fetched through the other client's unchecked cast
(`typeConfusion`), the iterator of a reallocated vector (`danglingIterator`), a
call on registry slot 0 (`badCallback`), a method whose self is no socket (`noSocket`).

Abstractions, each of them a choice of the model:

* an address is its client (`Scheme`); a payload, a log line and a close reason
  are nothing;
* `connect` with a bad argument or address changes only registry references and
  is left out;
* DNS, TCP, TLS, proxy and HTTP of the opening are the one phase `connecting`;
  the closing handshake and the TLS shutdown are the one phase `closing`;
* a callback of the script returns (`CallbackReturns`): an error raised in one
  unwinds through `poll` and `update` into the engine, whose handling of it is
  not in the repository;
* `std::vector` may or may not reallocate on any `push_back` (`moved`), and the
  position of a key inserted in the map while it is iterated is open (`Store`):
  keys are ordered by the addresses of control blocks;
* the order in which `shutdown` visits the map is open for the same reason;
* `release`: in the close loops a local `shared_ptr` keeps the connection a
  little longer than here; nothing looks at it in between.
* `stopped`: the plugin is built for Windows, where `poll` and `run` of a
  stopped `io_service` (IOCP) still hand out completions queued before the stop
  packet; so events remain possible in a stopped client, and `run` may return at
  any time.

### `LuaSocket`, the contract

`live`, `told`, `closed`, `on`: a script creates sockets; a live socket calls
back in order; a socket is forgotten only after the script closed it, or from
shutdown on; from shutdown on nothing calls back. `Plugin` implements it with
`live` as the handles with a registered entry and `on` as `~shutting_down`.

### `CarefulScript`, the discipline

An unrestricted script, even one that calls methods on sockets only, drives `update`
into every fault above but the last. `CarefulScript`
states a discipline under which none is reachable: close a socket only between
its connect and its close callback, once, outside callbacks, at most one close
per frame; call methods on sockets only, `__gc` never, and none on a socket after
its close; keep every userdata referenced until it was closed and flushed. It is stated as restrictions on the script's methods
alone: engine, library and plugin are unchanged.

### `Connection` and `ConnectionLife`

One handler of `impl/connection_impl.hpp` is one action, with its name: it runs
to its end on the one thread. `pending` holds the operations of the transport
whose handlers are to come (`connect`, `init`, `request`, `response`, `read`,
`write`, and `cancelled` ones that only hold the connection); `dispatched` counts
posted `write_frame`s; `timers` are all handshake timers ever set, with
`m_handshake_timer` the pointer to one of them, because a replaced timer runs on
and a fired one cannot be cancelled any more; `shutdowns` counts socket
shutdowns under way. `m_send_queue`, `m_current_msgs`, `m_write_flag` are the
members. `calls` (user handlers that ran) and `wire` (frames given to the socket)
are histories. `terminate(ops, ts)` is the one way out, used by every handler
that fails. A frame is its kind and its number; `handle_read_frame`'s loop is one
step a frame. `phase` maps all this to `ConnectionLife`: a life begins, opens and
ends once and in that order.

The model keeps what the code does when only the `Sec-WebSocket-Extensions` of
the server's answer fails to parse: `terminate` and then open all the same
(finding 5).

### `AsioConnect` and `AsyncCall`

For each connection the operation, the timer and the callback of the stages
lookup, connect, post_init (TLS) and shutdown. An operation that ended has its
handler queued, and so has a timer that expired; the handlers find out by
`operation_aborted` and by the remaining time of the timer which of them speaks
(`Silent`, `Settled`). `handle_resolve_timeout` cancels the endpoint's one
resolver. A plain socket's `post_init` and shutdown call back within the call.
Left out: a handler that looks at a timer in the instant of its expiry (time is
dense); a TLS `pre_init` that fails, which takes a host name that no lookup
finds; the proxy, which the plugin never sets; accept, which servers use.

### `Hybi13` and `ClientStream`

One action of `Hybi13` is one turn of `consume`'s loop, by the stage it is in:
`HeaderBasic`, `HeaderExtended` (which starts the message, `Started`),
`Application` (with `finalize_message` or `reset_headers`). `GoesOn` is the loop's
condition; when it no longer holds, `get_message` hands a finished message over
and `Read` brings the next bytes, as in `handle_read_frame`. `m_state`,
`m_bytes_needed`, the two headers and the two messages are the members of those
names; `in` is what the last read brought and was not processed, `wire` what the
peer sent and was not read. The two header bytes are records of their fields, the
digits of an extended length are digits to a base, a payload byte is its class in
UTF-8 (ASCII, lead of two to four, continuation, never): overlong and surrogate
encodings are rows of the validator's table and are not told apart.

A size is a `size_t`: `SizeWidth` is its number of values, a payload is shorter than
that, and `consume`'s sum of what a message has and what its next frame brings
(`hybi13.hpp:457`) is taken modulo `SizeWidth` (`Added`), so the limit lets through
what the code lets through. `TooBig`, in the reference, has the same sum: whether a
message that wraps it is delivered as sent is `AsSent`, how far it may outgrow the
limit is `MessageBounded`.

`Meaning` is the reference: what a whole frame means after RFC 6455 and the
library's limits, given the message that the frames before it left unfinished.
`got` is what was delivered for the frame that is read. To compare the two, a byte
on its way carries its frame, its place there and that unfinished message, and
`reading` is the last byte that was processed: histories, which the processor,
seeing `Values` only, knows nothing of.

`ClientStream` puts the server's answer in front: `consume_line` is one turn of the
loop of `http::response::consume`, for one line of bytes with a line end of two
bytes; `ReadAnswer` and `HeaderEnds` are `handle_read_http_response`, which hands the
bytes behind the header to `handle_read_frame` in the same call (`leftover`), and
`ReadFrames` is `Hybi13`. A line's text is what parsing and
`validate_server_handshake_response` tell apart. `answer` and `done`, histories, are
the header the server sends and how much of it is in processed lines. An error
ends the model: the connection is closed or terminated, which is `Connection`'s.
Left out: an answer with a Content-Length (it opens no WebSocket; with one, the
bytes behind the header are a body in the first read and frames in later ones),
and the extension header, which is in `Connection`.

## 3. The runs

| Run | Module, cfg | Checks | Shows |
|---|---|---|---|
| `plugin_safety` | `MCPlugin`, `MCPlugin.cfg` | `IInv` (with `TypeOK`), `ConnectedIsUsable`, `SocketMethodsNeverFault`, `ImplementsContract` | the safety of the core for any script; 930 thousand states |
| `careful` | `MCCareful`, `MCCareful.cfg` | `CarefulSafe`, `NoOrphan`, `CloseCarriedOut` | no fault, no orphan, and a requested close happens, under the discipline; 18 thousand states |
| `plugin_liveness` | `MCPlugin`, `MCPluginLive.cfg` | `PollingFrees`, `ShutdownEnds` | progress of closing and of shutdown; 170 thousand states |
| `connection` | `MCConnection`, `MCConnection.cfg` | `TypeOK`, `IInv`, `WaitsAreBounded`, `NoFrameLeftBehind`, `WireInOrder`, `HandlersOnce`, `ImplementsLife`, `HandshakesEnd` | one connection of the library, whatever peer, timers and transport do; 340 thousand states |
| `asio_connect` | `MCAsioConnect`, `MCAsioConnect.cfg` | `IInv`, `OnceOnly`, `SomeoneCalls`, `ShutdownLast`, `FailsOnItsOwn`, `ImplementsCalls`, `CallsReturn` | two connections on one endpoint, TLS or plain, every order of operations and timers; 77 thousand states |
| `client_stream` | `MCClientStream`, `MCClientStream.cfg` | `TypeOK`, `MessageBounded`, `AsSent`, `OpenNothingHeldBack`, `OpensOnceRead`, `HeaderBounded`, `StreamIInv`, `AnsweredAsMeant` | answers and frames, legal and not, cut everywhere; 1.2 million states |
| `claim_send` | `MCPluginClaims`, `MCClaimSend.cfg` | `SendSuccessIsAccepted` | violated: finding 1 |
| `claim_gc` | `MCPluginClaims`, `MCClaimGc.cfg` | `GcOfClosedQueuesNothing` | violated: finding 2 |
| `claim_closing` | `MCPluginClaims`, `MCClaimClosing.cfg` | `ClosingIsBounded` | violated: finding 3 |
| `claim_exit` | `MCPluginClaims`, `MCClaimExit.cfg` | `ExitLeavesNoConnection` | violated: finding 4 |
| `claim_open` | `MCConnectionClaims`, `MCClaimOpen.cfg` | `OpenOrFail` | violated: finding 5 |
| `claim_text` | `MCHybi13`, `MCClaimText.cfg` | `TextEndsComplete` | violated: finding 6 |

**Bounds.**

* `Handles` = one connection of each client: client confusion, a stopped client
  beside a running one, and insertion while the other's entry is visited all
  need one of each. `careful` needs no third for safety, which is proved for
  any number. `MaxQueue` bounds `close_queue` and nothing else: 3 lets one handle
  be queued twice with another between, 1 suffices where the discipline allows
  no more. Every other variable of `Plugin` is finite by itself: each handle is
  created once.
* `connection`: one message sent, one pong, one message received, two close
  frames: enough for a message, a pong and a close to be queued behind a write
  and for the peer's close to cross ours, and for two handshake timers beside
  the opening one. The bounds are constants of the proofs, too.
* `asio_connect`: two connections, the one whose lookup times out and the one it
  cancels; each stage runs once per connection.
* `client_stream`: sizes scaled down: a base of 3, extended lengths of one and two
  digits, basic lengths up to 1, 16 bit ones up to 2, messages up to 3 bytes; so
  every length class has a frame, lengths that are not minimal included, and the
  limit is passed by one frame and by the sum of fragments. `SizeWidth` is 9, two
  digits, as 2^64 is eight: the longest 64 bit length, 8, wraps the sum behind a first
  fragment and passes for less than the limit (`WrappingFrames`). Reads of 1 to 4 bytes,
  and frames sent while at most 1 byte is unread: a read ends at every byte, and
  holds the end of one frame and the whole of the next, or the end of the answer
  and a frame. `MaxHeaderSize` is 65: two legal answers fit into it five times, the
  longer one exactly; a third legal one is opened or refused as the reads have it,
  because every read that ends within the header counts three
  bytes too many (`response.hpp:66-81`); a last one has a line above the limit.
  None of these sizes is an assumption of the proofs.

**Fairness.** `EngineFairness`: `update` is called "per game frame"
(`PluginApi128.h`), Lua callbacks return, the steps of `update` and `shutdown`
follow each other (weak); `poll` and `poll_one` end, because a peer does not
supply ready handlers without end (strong, as handlers may run in between).
`LibraryFairness`: opening, closing and socket shutdown are bounded by 5 s
timers (`config/core_client.hpp:126-164`), so each such phase ends if its client
is served again and again (strong, since it is served only now and then); that
the library keeps this is `HandshakesEnd` of `connection`.
Nothing forces the script to do anything, the engine to shut down, or an open
connection to close.

`Connection!Fairness`: queued handlers run, timers expire, connect, init and the
TLS shutdown end (that they do is `CallsReturn` of `asio_connect`), and reads and
writes of a closed connection end, its socket being shut down. Nothing is
assumed of a live connection's reads and writes.
`AsioConnect!Fairness`: timers expire and their handlers run; no operation need
ever end.

`PollingFrees` and `ShutdownEnds` state their premises: polling goes on (false
once the map is empty, finding 3), and no connection stays open for ever (else
`run` blocks).

**Deadlock** is checked for `Plugin` and `Connection`, where `Ended` and `Gone` are
the only states that do nothing. It is not for `asio_connect`, which stops when
every connection has been shut down, and for `client_stream`, where reading stops
at an error.

### Findings

1. `send` answers true, commented "success" (`plugin.cpp:322`), when the library
   has refused the frame because the peer is closing.
2. `__gc` logs "connection already closed" (274) only if the entry is absent,
   which a close by the peer does not make it: it queues a close that throws in
   the next `update` once the connection object is gone.
3. The closing handshake's timer exists "so we don't wait forever"
   (`connection_impl.hpp:2130`); with the last entry erased nothing polls.
4. After `stop_perpetual` "it will not end until they are complete"
   (`transport/asio/endpoint.hpp:697`); a client that was polled without work is
   stopped and its `run` ends at once.
5. "Either the fail handler or the open handler" is called for a connection
   attempt (`connection.hpp:54`); after an answer whose extensions do not parse,
   both are: `terminate` (`connection_impl.hpp:1629`) is not followed by a return.
6. "Ensure that text messages end on a valid UTF8 code point"
   (`hybi13.hpp:536`): the check looks at the opcode of the last frame, so a text
   message in fragments is not checked.

## 4. What is proved

Assumptions: for `Plugin` and `CarefulScript` any set `Handles`, any
`SecureHandles` within it (`HandlesAssumption`), any bound `MaxQueue`
(`MaxQueueAssumption`); for `Connection` any bounds (`BoundsAssumption`); for
`AsioConnect` any set of connections, no assumption. For `Hybi13`: any frames whose
payload is as long as their header says, with any bytes in them, legal or not
(`FramesAssumption`), and any base, sizes and limits, `SizeWidth` among them (`SizesAssumption`); reads of
any length. A payload is shorter than `SizeWidth`, as a `size_t` holds its length; a
sum of lengths may not be. For `ClientStream` also any answers that end with their only blank
line, and any limit (`AnswersAssumption`).

| Theorem | States |
|---|---|
| `Plugin_proofs!TypeCorrect` | `Spec => [](TypeOK /\ ControlConsistent)` |
| `Plugin_proofs!Consistent` | `Spec => []IInv` |
| `Plugin_proofs!ConnectedUsable` | `Spec => []ConnectedIsUsable` |
| `Plugin_proofs!MethodsSafe` | `Spec => SocketMethodsNeverFault` |
| `PluginImplementsContract` | `Spec => ImplementsContract` |
| `CarefulDisciplined` | `CarefulSpec => []Disciplined` |
| `CarefulIsSafe`, `NoneOrphaned` | `CarefulSpec => []CarefulSafe`, `[]NoOrphan` |
| `Connection_proofs!TypeCorrect`, `Consistent` | `Spec => []TypeOK`, `[]IInv` |
| `HandlersRunOnce` | `Spec => []HandlersOnce` |
| `BoundedWaits`, `FramesFollowed` | `Spec => []WaitsAreBounded`, `[]NoFrameLeftBehind` |
| `FramesInOrderSent` | `Spec => []WireInOrder` |
| `ConnectionImplementsLife` | `Spec => ImplementsLife` |
| `Timed` | `Spec => []IInv` of `AsioConnect` |
| `CallBackOnce`, `TimerBehindCall`, `ShutdownIsLast`, `OwnFailure` | `OnceOnly`, `SomeoneCalls`, `ShutdownLast`, `FailsOnItsOwn` |
| `CallsImplemented` | `Spec => ImplementsCalls` |
| `Hybi13_proofs!Invariant` | `Spec => []IInv` of `Hybi13` |
| `TypeCorrect`, `DeliversAsSent`, `HoldsNothingBack` | `[]TypeOK`, `[]AsSent`, `[]NothingHeldBack` |
| `MessagesBounded`, `StreamMessagesBounded` | `Spec => []MessageBounded`, `StreamSpec => []MessageBounded` |
| `StreamInvariant` | `StreamSpec => []StreamIInv` |
| `StreamTypes`, `StreamDelivers`, `StreamHoldsNothingBack` | `[]TypeOK`, `[]AsSent`, `[]OpenNothingHeldBack` |
| `StreamOpens`, `HeaderStaysBounded` | `[]OpensOnceRead`, `[]HeaderBounded` |
| `OpensAsMeant` | `StreamSpec => AnsweredAsMeant` |

**The plugin.** `ConnectedIsUsable` is not inductive: that a connected handle's
object exists needs `is_connected` to imply a registered entry and the phase
open or closing (`ConnectedInStep`); that only `on_open` sets it while the phase
is open needs entries to exist for created connections only
(`UnbornUntouched`), which needs queue, loop and userdata to hold created
handles only (`ContainersHoldBorn`); that the entry names the right client is
`EntriesMatch`. The contract's order of callbacks needs `ToldInStep`, its
`Retire` needs `QueuedByScript`. All of that holds while the game runs and no
fault has happened (`GameRuns`); `ControlConsistent` says that once it does not,
it never will again. `IInv` is the conjunction, checked by TLC in
`plugin_safety`. Most of it is a statement about one handle
(`HandleConsistent`), so a step is proved for the handle it touches and carried
over to the others (`OneHandleTouched`).

**The discipline.** `Disciplined` (in `CarefulScript_proofs`) holds until shutdown:
at most one close is on its way, from the script's call to the end of the next
flush (`OneClose`: the queue holds one handle at most, and none outside `idle` and
the flush); its handle is *due*, registered, and its connection is there to be
closed, then closed (`DuePhases`); every other closed handle has lost its entry;
every created handle that was not closed has one (`HandleCareful`). It rests on
`Plugin`'s `IInv`, since `CarefulSpec` implies `Spec`.

**The connection.** `IInv` is five facts that need each other.
`HandshakeInStep`: while connecting, the internal state says which one operation
is pending. `HandlersInStep`: handlers that ran plus shutdowns under way are at
most one of each kind. `FlagMeansWrite` and `NoFrameLeftBehind`: a set write flag
means that a write's handler will look at the queue. `FramesInStep`: wire and queue
together are the frames in order; the write under way is the wire's end, so that
a write that ended in a terminal frame is known to, and its flag stays set.
`WaitsAreBounded` needs the first for the handshake states. The refinement adds
that a closed connection's phase only moves from the shutdown to terminated to
gone (`ClosedMoves`, `PhaseStep`).

**The transport.** `Good` of every connection: a stage's timer is set with its
operation and cancelled only when that is over (`TimedStages`); a callback is owed
exactly while a timer of its stages is running or expired (`TimersServeCalls`); the
calls follow each other (`InTurn`). Everything else follows from it.

**The bytes received.** `AsSent` speaks of a frame's end, and says nothing of the
turns before it. `IInv` of `Hybi13` says two things more. `InOrder`: the bytes in the
buffer and on the wire follow the last one processed and each other, up to the end
of a frame. `InStep`: for each state of the processor, which byte that was and what
the members hold of its frame: between frames nothing but the fragments so far; in
a header its first bytes, and as many needed as are missing; in the payload the
message with the frame's payload up to that byte, its header legal, its length
minimal and within the limit; when ready the whole message, without flaw. The
validator's state is tied to the bytes by `DueIs`: so many continuation bytes are
due behind the last lead. That `decode` keeps this is the lemmas `DecodeTakes` and
`DecodeRejects` on one byte and `DecodedText` on a run of them (`decoded` is a
recursive function, and the least place where a claim fails serves as induction).
`ChunkOf` and `TakenInFrame` say that a turn never takes bytes of two frames. Then
each stage is a lemma (`HeaderBasicKeeps`, `HeaderExtendedKeeps`, `ApplicationKeeps`),
by what is still needed and by the errors, which must be those of `Flaw`, in its
order. `HoldsNothingBack` follows because a processor that waits with nothing on its
way would be in mid frame, which `InOrder` excludes.

`MessageBounded` is not a part of `IInv` but rests on it: while a payload is read,
what the message has and what is still needed of the frame come to the length of the
whole (`CurrentFits`), which `consume`'s sum gives exactly as long as it is below
`SizeWidth` (`AddedValue`); each turn moves bytes from the one to the other, and
outside `APPLICATION` a message does not grow (`KeptBounded`).

**The answer.** `StreamIInv` is `HeaderInv` until the connection is open and `IInv` from
then on. `HeaderInv`: the lines of the answer were read up to `done`, a line's end;
the rest of it is ahead, in the buffer and on the wire, and behind it come frames
in order; `status`, `upgrade` and the absence of bad bytes are what the first `done`
bytes say. So the first line end of the buffer is the next one of the answer
(`LineOfHeader`), the blank line found is the last (`BlankIsLast`), and what is behind
it is where the frames begin (`OpensKeeps`), for every cut. For the count,
`header_bytes` is at least the processed bytes, so what opens is below the limit; and
for a header that fits into the limit five times, the count, two for each buffered
byte and five for each unread one never exceed the limit: a read turns at least one
unread byte into a buffered one and pays for its three bytes with the difference, and
a line of n bytes with its end costs n + 1 and gives back 2n. `ShortIsCounted` draws the conclusion: such
a header is never refused for its length, even if it comes a byte at a time.

Only model-checked: the liveness properties (`CloseCarriedOut`, `PollingFrees`,
`ShutdownEnds`, `HandshakesEnd`, `CallsReturn`): fairness and `ENABLED` are outside
the prover's reach. `get_payload_size` is a fold and is taken in the proofs as the
length that `FramesAssumption` gives a frame, so that the digits of a length stand
for it is what TLC's instance checks.

## 5. What is not modelled

* Preparing frames and the request, masking, base64, SHA-1: functions that run in
  one call, on data only this side has chosen; `Connection` needs of them that
  they end. permessage-deflate is disabled in the plugin's configuration.
* URI parsing: an address that does not parse is refused before there is a
  connection, and the plugin's `connect` then changes registry references only.
* Servers, proxies, the iostream, stub and debug transports, logging, random
  numbers: not used by this client, or of no influence on it.
* Locks and strands of websocketpp: all calls come from the engine's thread.
* The engine's and Lua's headers, declarations of the interfaces that `Plugin`'s
  external definitions stand for. `loaded` is empty.
* `json.hpp`: half of all lines of the repository, and included by nothing that is
  compiled here.

Most of the repository is such vendored and unused code; of what the plugin
executes, the control is modelled: the whole of `plugin.cpp`, the client's side of
`connection_impl.hpp`, of the asio transport and of the bytes received.

## 6. Plan

1. Done: the plugin, the discipline, the connection, the transport's stages, the
   bytes received, with proofs of every safety property of the passing runs.
2. `Prepare`: `prepare_data_frame`, `prepare_control` and `basic_header` as functions, and
   that `Hybi13` in the role of a server would read from them what was sent.
3. The case `ClientStream` leaves out: Content-Length, where the bytes behind the
   header are a body or frames, as the reads cut them.
4. The liveness of `Plugin` under `ConnectionLife!PhasesEnd` in place of
   `LibraryFairness`, with both clients' `io_service` as components of their own.
