# hypha-rpc: a TLA+ model of the RPC client

hypha-rpc lets programs in Python and JavaScript call each other's functions
through a Hypha server.  This directory holds TLA+ modules for the client
library under `src/`, TLC configurations that check them on small instances,
and proofs, checked by TLAPS, that hold for instances of any size.

`PROJECT.json` lists the runs, the theorems, the code each definition models,
and for every checked property a plausible error in the code that it detects.

## 1. The system

### Components

| Component | State it keeps | Operations |
|---|---|---|
| **RPC core** (`rpc.py`, class `RPC`) | `_object_store`: services, the message cache and one dictionary per open *session*; `_target_id_index`: peer -> sessions; `_rintf_caller_index`; `_background_tasks`; `_last_manager_id`; `_emit_message` | call, answer, heartbeat, timeout, session GC, close, handling of disconnected peers |
| **RemoteFunction** (`rpc.py`) | target, method, parents of a remote method | `__call__`: opens a session, encodes the arguments, emits the message |
| **Timer** (`rpc.py`) | a sleeping task, `started` | `start`, `clear`, `reset` |
| **Method dispatch** (`_handle_method`, `_call_method`) | heartbeat task and method task of each call it serves | decode, check permissions, run, reply |
| **Message cache** (`_create_message` ... `_process_message`) | partly received chunked messages by key | create, append, set, process, remove |
| **Services** (`add_service` ... `unregister_service`, `on_connected`) | `_services`, `_method_annotations`, the subscription to `client_disconnected` | add, register, unregister, re-register after a reconnection |
| **_rintf services** (`_encode`) | services made from callbacks, by allowed caller | create while encoding, `_dispose`, cleanup when the caller leaves |
| **WebSocket connection** (`websocket_client.py`) | websocket, `_closed`, `_enable_reconnect`, `_reconnected_event`, listen, ping, token and reconnect tasks | open, listen, reconnect with backoff, emit, disconnect |
| **Manager proxy** (`connect_to_server`) | targets of the manager's methods | retarget after a reconnection |
| **HTTP connection** (`http_client.py`) | stream task, `connection_info`, `_closed` | stream loop, framing, POST with retries |
| **Event emitter** (`utils`) | handlers by event | on, once, off, fire, wait_for |
| **Sync wrapper, WebRTC, Pyodide, crypto, schema, MCP, serve, launch** | little or none | adapters |
| **JavaScript client** (`javascript/src`) | the same as the Python one | the same protocol, ported |

### How they interact

`RemoteFunction.__call__` creates a session in the object store, puts the
functions `resolve`, `reject` and `heartbeat` into it, and hands the message to
the connection in an asyncio task.  The connection sends it to the server, the
server to the peer.  The peer runs the method and calls `session.resolve` or
`session.reject`, which are remote methods like any other; while it runs it calls
`session.heartbeat`, which resets the caller's timer.  Everything of one client
runs in one event loop: code between two `await`s is atomic, tasks and callbacks
interleave.  The connection tells the RPC core when it is lost and when it is
back; the server notifies clients of peers that are gone, either in reply to a
message (`peer_not_found`) or as an event (`client_disconnected`).

### What is hard

* A call can end in many ways - answer, timeout, failed emission,
  `peer_not_found`, `client_disconnected`, a new manager, a permanent loss of
  the connection, the garbage collector, `close()` - and several of them can
  happen to the same call, in any order, with callbacks of earlier ones pending.
* `_target_id_index` duplicates information of the object store and is updated
  on a dozen paths, by a helper that needs the session to be still there.
* Sessions nest: the replies to a callback live in the session the callback
  belongs to, which may be gone when the reply is made.
* The reconnect task opens the connection, and opening cleans up after a
  failure by cancelling all reconnect tasks.
* Re-registration of services, the subscription to events and the refresh of
  the manager proxy happen in coroutines that a new disconnection can overtake.
* Messages can be lost with the connection, come twice (HTTP POST is retried),
  or overtake each other (a chunked message is assembled over several calls).
* Heartbeats must reset the caller's timer in time and end with the method, on
  every way out of `_handle_method`.
* A function that was received is sent back or on, and must still reach the
  original, or be refused.

`PROJECT.json` lists these hazards at the lines where they bite.

## 2. Modules

| Module | Component | Relation to the others |
|---|---|---|
| `CallSession` | call sessions, caller's side | implements `CallContract` |
| `MethodDispatch` | both sides of a call, in time; callbacks | implements `CallContract`, too |
| `CallContract` | what a call promises | abstract |
| `WebSocketConnection` | open, listen, reconnect, emit, disconnect | tells `CallSession` and `Registration` of losses |
| `HttpConnection` | stream loop, framing, POST retries | implements `RepeatedDelivery` |
| `RepeatedDelivery` | what emitting over HTTP promises | abstract |
| `ServiceStore` | services, permissions, `_rintf` services | abstract for `Registration`, a component of its own |
| `Registration` | registration at the manager, `on_connected`, the manager's proxy | extends `ServiceStore` and implements it |
| `ChunkTransfer` | long messages, `_send_chunks` and the message cache | implements `MessageDelivery` |
| `MessageDelivery` | what sending a long message promises | abstract |
| `ObjectCodec` | `_encode`, `_decode` and who reaches what was sent | uses the permissions that `ServiceStore` keeps |
| `X_proofs` | theorems about `X` | one for each of the above but `ObjectCodec` and the abstract ones |
| `RegistryAgreement_proofs` | what client and manager know of each other | more theorems about `Registration` |
| `MCX` | the constants with which TLC checks `X` | - |

The modules meet at their interfaces: a loss of the link is an event in
`CallSession` (`ConnectionLost`) and `Registration` (`LinkLost`), whatever
`WebSocketConnection` or `HttpConnection` say of when it may happen, and a message
is lost or delayed in `MethodDispatch` and `ChunkTransfer` as they allow.  That a POST
is repeated is in `HttpConnection` and `RepeatedDelivery`, and what comes of an answer
that arrives twice in `CallSession`; the messages of `MethodDispatch` and the chunks of
`ChunkTransfer` arrive once at most and, of one transfer, in order.
Both `CallSession` (every event that ends a call, no time, no callee) and
`MethodDispatch` (time and the callee, few events) implement the same contract.

A definition whose comment says "A plausible error" is not used by its module: it
stands above the definition it could replace, and `PROJECT.json` pairs it with the
property that detects the error.

### What is left

* The event emitter: handlers that are changed while an event is fired.
* The pool of threads of the synchronous wrapper.
* The JavaScript client where it differs: its `_reconnecting` flag in
  `WebSocketConnection`, its encoder in `ObjectCodec`.
* `StormEnds` and `LinkSettles` beyond the instance of their run (section 10 says what
  stands in the way), and `ObjectCodec` beyond three levels.

## 3. CallSession: the caller's side of a call

### Correspondence

| Model | Code |
|---|---|
| `kind[c]` | whether the call is made with a promise (`_rpromise`), and whether its session holds callables (`stream`) or only data (`oneway`) |
| `target[c]` | `session["target_id"]` |
| `fut[c]` | the future `__call__` returns |
| `store` | the session ids in `_object_store` |
| `index` | `_target_id_index`; an absent key is the empty set |
| `timer[c]` | the `Timer` of the call; `due` is the moment between the end of its sleep and the callback |
| `emit_task[c]` | the task that emits the message; `sent` is the moment between its end and `handle_result` |
| `stale` | sessions whose `_last_activity_at` is older than `_session_ttl` |
| `closed` | `_emit_message is None` |
| `reached`, `bounced`, `answers` | the requests a peer has received, those the server could not deliver, and the answers sent; all of this is outside the library |

One action is one uninterrupted piece of code between two `await`s: `Invoke` is
the whole of `__call__`, `EmitSucceeded` and `EmitFailed` are `handle_result`,
`Timeout` is `timeout_callback`, `ReceiveAnswer` is `_handle_method` with the
session's `resolve` or `reject` (`wrapped_callback`, `_cleanup_session_if_needed`,
`_delete_session_completely`), and so on as `PROJECT.json` maps them.  A session
that has a promise has a `reject`; that decides which sessions the bulk
operations reject and which they only delete.

Events may come in any order and answers any number of times, which covers
reordering and duplication by the transports.  A peer may leave at any time and
come back under the same id before its event arrives, so the caller cannot tell
whether it is there, and `client_disconnected` may come at any moment.

### Run

`calls` checks two calls to one peer, under `FairSpec`: the invariants
`IndexMatchesStore`, `PendingCanSettle` and `ClosedHoldsNothing`, the action property
`DisconnectEndsCalls`, the liveness property `PromiseSettles`, and `ImplementsContract`:
an outcome is final, and a result comes only from the peer (105,265 states).

Two calls are enough because no operation relates more than two sessions: the
bulk operations treat each session of a set alike.  With one peer they must take
both sessions, and the session that another operation has deleted just before;
what they must leave, the sessions for other peers, is covered by the proofs,
which hold for any number of calls and peers.  Every counter of the code that
matters here (how often a timer was reset, how many answers were sent) is
abstracted to a set, so the state space is finite without further bounds.
`CHECK_DEADLOCK FALSE` is set because a client may well stop: after `close()`,
with every call made and settled, there is nothing left to do.

### Fairness

`FairSpec` assumes weak fairness of the emit task (the connection returns or
raises: `emit_message` has timeouts of its own), of the timer's sleep and of its
callback.  These are tasks of asyncio, which runs every task that is ready.
Nothing is assumed of the peer, the server or the network, and nothing of the
user.  `PromiseSettles` therefore has one exception: a peer that heartbeats
forever keeps a call pending, which is what heartbeats are for.

### Proofs

`CallSession_proofs` proves, for any set of calls and any set of peers not
containing `NoPeer` (`PeersAssumption`, a name clash that a client id cannot
produce):

* `TypeCorrect`, `IndexCorrect`, `NoCallOrphaned`, `CloseFinal`: type correctness and the
  invariants of `calls`;
* `DisconnectCorrect`: the action property `DisconnectEndsCalls`;
* `ContractImplemented`: the refinement `Spec => Contract!Spec`;
* `EveryPromiseSettles`: the liveness property, `Spec /\ Justice => PromiseSettles`.

The inductive invariant is
`IInv == TypeOK /\ CallsMade /\ IndexMatchesStore /\ PendingCanSettle /\ ClosedHoldsNothing`.
`CallsMade` says that a call that has not been made has no target, no future, no
session, timer or task, and that a call that was made has a future and a
target.  It is needed because `Invoke` must find the index without `c`, and
because a session without a target would be missed by `IndexMatchesStore`.
`IndexMatchesStore` is needed for `PendingCanSettle`, since
`_cleanup_sessions_for_client` finds its sessions through the index and leaves
those it misses; `PendingCanSettle` is needed for `ClosedHoldsNothing`, because
`close()` rejects pending calls through their sessions.  Each action is shown to
preserve `IInv` (lemma `StepIInv`) by way of lemmas on the helpers
(`SettledFacts`, `UnindexedFacts`, `SessionsOfFacts`) and on three shapes of
steps: `QuietStep` leaves sessions and futures alone, `ForgettingStep` deletes
sessions, the rest change one call.  The refinement is proved step by step: a
rejection of any set of calls is a `Reject` of the contract, a resolution a
`Resolve`, everything else a stutter.

`Justice` stands for `Fairness`, since the prover cannot treat `ENABLED`.  It says of each
task that it takes its step again and again, or is again and again not ready, where
*ready* is an explicit condition: the emit task is `sending` or `sent`, the timer
`armed` or `due`.  Each condition makes the step possible, so that `Fairness` implies
`Justice` (TLC, apart from the runs, confirms on the instance of `calls` that each
condition implies `ENABLED` of its step); hence the theorem holds for `FairSpec`.  The
proof follows a pending call through its stages, which `PendingCanSettle` makes exhaustive: its message is not sent
(`Unsent`), sent and not reported (`Unreported`), its timer sleeps (`Sleeping`) or has
expired (`Expired`).  The step of the task that is ready leaves a stage for the next or
for the end of the call, and the only way back is a heartbeat, which the property
excepts.

### Where the code does something else than its comments say

Checking these definitions of `CallSession` in place of the properties of
`CallSession.cfg` shows a behaviour:

1. **A fire-and-forget call can hang on `close()`** (`OnewaySettles`).  `close()`
   cancels the emit task; `handle_result` calls `emit_fut.exception()`, which raises
   `CancelledError` on a cancelled task, and so neither resolves nor rejects.  A
   call without promise has no `reject` in its session, so nothing else settles
   its future.  The comment at `rpc.py:624-630` promises otherwise for messages
   that cannot be delivered.
2. **The session of a call whose emission failed is kept until disconnection**
   (`SweepSparesOnlyUnsettled`).  `handle_result` rejects the future but leaves the
   session, and the GC takes its `resolve` and `reject` for an unsettled promise.

Besides, `_reject_pending_calls` deletes every session it rejects, since the
session's `reject` clears it; its docstring says that it does not remove
sessions.  The model does what the code does (`ConnectionLost`).

## 4. WebSocketConnection: losing and restoring the link

### Correspondence

| Model | Code |
|---|---|
| `sock`, `open` | `self._websocket`, and the websockets in state `OPEN`; the others are `CLOSED` |
| `listener[s]` | the `_listen` task made for websocket `s`: created and not begun, or in `recv()` |
| `closed`, `reg_ok` | `self._closed`, `self._services_registered_ok` |
| `event` | whether `self._reconnected_event` is set up; an emitter that waits for an earlier event is `orphaned` |
| `lock` | who holds `_connecting_lock` |
| `pc[t]` | where a reconnect task (`reconnect_with_retry`) or an emitter (`emit_message`) is; both call `open()` |
| `retry`, `flaps`, `lasting` | `retry`, `_reconnect_flap_count`, and whether the connection has lived for `RECONNECT_FLAP_WINDOW` |
| `outlasts` | how many attempts of other tasks in a row a delay is certain to outlast |
| `tracked` | the reconnect tasks in `_reconnect_tasks`; a task that sleeps is cancelled through its sleep, which is tracked too |
| `user` | the user's `disconnect()` |
| `healthy` | from now on nothing fails (environment) |

`open()` is five steps, between its awaits: taking the lock and closing the old
websocket (`OpenBegins`, `OpenCloses`), `_attempt_connection` (`OpenConnects`),
`connection_info` (`OpenAnswered`), the `on_connected` callback (`OpenEnds`); it
fails in `OpenBreaks` and `OpenRefused`, with `_cleanup` (`OpenFails`).  `_cleanup`
awaits the tasks it cancels, among them its caller; the `CancelledError` this
raises in the caller is caught by the `except` around that very `wait_for`, so
the caller goes on, untracked.  The listen task is `ListenBegins`, `ListenLoses`
with the finally clause `ListenEnds`.

Sleeps have no duration, with these exceptions, which matter: whoever is ready
runs before a round trip or a sleep is over (`Prompt`); a connection lives for
the flap window only if nothing quicker is going on (`Lasts`); and once the network
is healthy an attempt to connect takes less than a second, unless `Faults` contains
`slow`.  The delays of `reconnect_with_retry` are 1, 2, 4, ... seconds (times a
jitter), so the k-th of them outlasts at least k attempts that follow one another
without a pause.  `outlasts[r]` counts those that are left when task `r` has fallen
asleep during an attempt (`FallsAsleep`, `AttemptOver`); `r` wakes up when it is 0
or nobody is opening the connection (`MayWake`).

### Runs

All have `MaxRetry = 2`, and three or four task identities.  `Spare` is the bound: the
network drops the link, and attempts are slow, only while two identities are
free.  Flaps are counted up to `MaxFlaps`, and flapping alone does not use up the
retries.

| Run | Instance | Shows | States |
|---|---|---|---|
| `ws_safety` | 2 sockets, 3 reconnect tasks, 1 emitter, all faults, a user who disconnects | `SocketHeld`, `LockHeld` | 317,522 |
| `ws_recovery` | 1 socket, 4 reconnect tasks, `MaxFlaps = 3`, refusal, `FairSpec` | `LinkHeard`, `LossNoticed`, `EventHasTask`, `StormEnds`, `LinkSettles` | 457,216 |
| `ws_registration` | 1 socket, 3 reconnect tasks, a registration that fails | finding 3 below: `RegistrationRetried` is violated | - |
| `ws_disconnect` | 1 socket, 3 reconnect tasks, no faults but a lost link, a user who disconnects | finding 1 below: `DisconnectFinal` is violated | - |

Two sockets are the one in use and one that could be left behind; where nothing
leaks a socket, one is enough, since a websocket is only made when the old one is
closed and its listen task has ended.  Tasks that have ended give their identity
back, so three or four stand for any number of reconnections of which so many
overlap; that more never overlap is not shown.  `StormEnds` depends on the growth of
the delays: with four tasks and `MaxFlaps = 2`, where every delay is the same, it is
violated.  `ws_recovery` excludes what breaks its properties, as described below: an
emitter that opens the connection, a stalled handshake, a failed registration,
`disconnect()`, and attempts that are slower than the delays.

### Fairness

The event loop runs the listen task and every reconnect task that can go on;
every connection attempt and every wait for the server ends because it has a
timeout (`_attempt_connection`, `recv`, `on_connected`).  Losses stop only because
`LinkSettles` and `StormEnds` assume `<>healthy`; nothing is assumed about when.

### Proofs

`WebSocketConnection_proofs` proves for any number of sockets, tasks and retries
that `TypeOK`, `SocketHeld` and `LockHeld` are invariants (theorems
`ConnectionTypeCorrect`, `NoSocketLeaked`, `LockNeverLost`).  The inductive
invariant adds `NothingOpen`: while a task is closing the previous websocket or
connecting, no websocket is open.  It is what makes `SocketHeld` inductive,
because `OpenConnects` puts the new websocket in place of the old one, and it
needs `LockHeld`, because another task in the middle of `open()` could have put one
there.  These proofs use `IdsAssumption` and `RetryAssumption` and nothing of `Faults`,
so they hold under every fault of the model.

The invariants of `ws_recovery` are proved, too, each under hypotheses that exclude
the findings below and no more, so some cover more than the run:

| Theorem | Property | Hypotheses |
|---|---|---|
| `LinkIsHeard` | `LinkHeard` | no stall; no emitters, or no refusals |
| `LossIsNoticed` | `LossNoticed` | no stall, no emitters, no `disconnect()` |
| `EventIsSet` | `EventHasTask` | no stall, no emitters, no `disconnect()`, no failed registration |

Each has its own strengthening of `IInv`:

* `HeardInv`: an open link nobody listens to was refused, so `_closed` is set and no
  listen task is left that has not begun (`Unborn`) - it would reset `_closed`.
  `UserInv`, that the link stays down while `disconnect()` closes it, makes the
  theorem hold whatever the user does.
* `RegInv`, for `EventIsSet`: likewise, where no registration fails, an open link
  without registration and without a task in `open()` was refused.
* `LossInv`: if `self._websocket` is `None`, which makes the finally clause of
  `_listen` fail, a reconnect task is at work, or the connection is closed for good.
  It needs `HeardInv` when the socket drops, and `StartInv`: a reconnect task that
  has not begun does not find `_closed` set, for it would end with nobody left.
* `EventInv`: `_closed` is never set while there is an event, and while the link is
  open and the event not set some task is neither done nor in its backoff, because
  a task that finds the link open after its backoff ends without notifying.  That
  the task which settles without registration leaves another one in `open()` is
  `RegInv`.

No hypothesis can be dropped: if only it is, TLC finds the property violated, by one
of the ways listed below or, for `LossNoticed` and `EventHasTask`, by a `disconnect()`
that cancels a reconnect task which a listen task has just started, having reset
`_closed`.  What a reconnect task may do in a step is said once, in `Outcome` (lemma `ReconnectMoves`).
The liveness properties are model-checked only.

### Where the connection does not come back, or does not go

Each was reproduced by running the class against a scripted websocket.  The first
and the third are runs; the others are seen by giving `Faults` and `Emitters` the
values named, defined in `MCWebSocketConnection`, in the configuration of the run
that checks the property.

1. **`disconnect()` is not final** (run `ws_disconnect`).  A reconnect task whose
   first attempt failed is no longer tracked; if it is opening the connection,
   `disconnect()` does not cancel it, and the new listen task resets `_closed`.
2. **A stalled handshake ends reconnection** (`Stall`, `LinkHeard`): the websocket
   stays open, the loop takes it for a restored connection, and nobody listens.
3. **A failed registration is not retried** (run `ws_registration`).  The comment at
   `websocket_client.py:601-604` says "if any services failed to register, retry
   instead of declaring success with missing services"; but the task that has raised
   this error to itself finds, after its backoff, the websocket it has opened, by the
   same test as in point 2 (`:695-697`), and ends.  Nor does it set
   `_reconnected_event` (`Register`, `EventHasTask`).
4. **A failed `emit_message` ends reconnection** (`OneEmitter`, `LossNoticed`):
   called between the loss and its detection it opens the connection itself, and
   its failure cancels the reconnect task or makes the listen task fail.
5. **Reconnect storm** (`Slow`, `StormEnds`): a reconnect task that waited for the
   lock closes the link just restored by another, whose listen task starts the
   next reconnect task.  With one overlap this costs two good connections; if
   opening takes longer than the delays it never ends.  The JavaScript
   client has a flag (`_reconnecting`) that keeps reconnections from overlapping.


## 5. ServiceStore and Registration: what a client offers, and who knows of it

### Correspondence

| Model | Code |
|---|---|
| `services[s]` | `_services`: the methods of a service, its visibility, which stands for all its settings, and for an `_rintf` service the caller it is for |
| `annotations[f]` | `_method_annotations`: the service, visibility and caller under which `_handle_method` lets function `f` be called |
| `caller_index` | `_rintf_caller_index` |
| `disposing` | the `_dispose` coroutines `_call_method` has made a task of and that have not run |
| `registry` | the manager's list of this client's services (external) |
| `doing`, `stage`, `proxy` | where a task of `register_service`, `unregister_service`, `on_connected` or `connect_to_server` is, how far its request to the manager is, and which manager its own proxy calls |
| `todo`, `item`, `failed` | the local variables of these coroutines |
| `handlers`, `bound`, `subscribed`, `server_sub` | the handlers of `client_disconnected`, `_bound_handle_client_disconnected`, `_client_disconnected_subscription`, and the manager's side of it |
| `wm`, `skip` | the manager that the user's proxy calls, and `_is_initial_refresh` |
| `current`, `reported`, `overlap`, `raced`, `unsure` | history, for the properties |

`ServiceStore` has what happens without an await; `add_service` (`AddService`)
annotates before it looks whether the id is taken, as the code does.
`Registration` extends it with the coroutines, cut at each request to the manager:
a request is on its way, served, refused, or lost with the link.  `get_manager_service`
asks again (`FetchAgain`) or, when its attempts are used up, raises (`GivesUp`),
in whichever way the last of them has failed.  The link may come
back to the same manager or to one that knows nothing.

### Runs

| Run | Instance | Shows | States |
|---|---|---|---|
| `services` | 1 service in 3 versions, 2 `_rintf` services in 2 versions each, 2 peers, 3 functions that they share | `RintfIndexed`, `NoGhost` | 11,336 |
| `registration` | 2 users, 2 reporters, 1 manager, 1 service in 1 version, one refused request, one loss | `RegistryAgrees`, `NoServiceLost`, `OneHandler`, `StoreImplemented` | 910,911 |
| `proxy_stale` | 1 user, 2 managers | finding: `ProxyFresh` is violated | - |

Two reporters are one that runs and one that a new connection starts beside it.
One service is enough because tasks that work on different services share nothing
but the link; two versions of it with one loss and no refusal pass too, but take
too long for a run.  `RegistryAgrees` excepts services that two tasks worked on at
once and services of which an operation has raised an error; `NoServiceLost` holds
even after races.  `OneHandler` excepts overlapping runs of `on_connected`.

### Proofs

`ServiceStore_proofs` proves for any services, callables and peers:
`StoreTypeCorrect`; `RintfIndexCorrect`, whose inductive invariant adds
`DisposalsKnown` - a pending disposal names the caller its service was made for -
because `DisposeRuns` takes the service out of the index by that name;
and `NoGhostLeft`, which needs nothing but the types and allows functions to be shared
and offered again in any way.  `Registration_proofs` proves that `Registration`
implements `ServiceStore` (`StoreRefined`).  It
rests on `TaskInv`: a user's task that waits for the manager knows what it is to do
with which service.

`RegistryAgreement_proofs` proves what client and manager know of each other, for any
number of services, tasks, managers, errors and losses: `RegistrationTypeCorrect`
(`TypeOK`), `ManagerAgrees` (`RegistryAgrees`), `ServicesKnown` (`NoServiceLost`)
and `HandlerUnique` (`OneHandler`).  Its `IInv` says who is responsible when both
sides do not agree:

* `TruthInv`: a service of the client that the manager does not know is in the hands
  of a user's task that will register it or remove it from the client, too
  (`UserCovers`), or of the reporter of this connection (`Covered`); and what the
  manager knows is what the client has, unless a user's task works on it.
* `SoleInv` and `ApiInv`: a service that is not in `raced` is worked on by one task,
  which has it as the client has it now.  Otherwise a late registration could bring
  back what has been replaced.
* `LinkInv`: without a connection nothing is known to the manager and nothing is on
  its way, so that a reconnection begins from nothing.
* `CountInv` and `SubInv`: there are no more reporters and handlers than connections
  were made, and without overlap one reporter at most, which has installed the only
  handler if it has subscribed.

The proofs use the assumptions of `Registration`; `ItemsAssumption` is that `Absent`
is no service.

### Observations

* **Permissions belong to the function, not to the service.**  `_method_annotations`
  is a dictionary with functions as keys, so one function in two services is called
  under the settings of the one that was added last, and when an `_rintf` service is
  removed its functions lose them, even where another service has them, too.  For
  the functions of `_rintf` services `NoGhost` says what does hold: who is annotated
  as the method of one has its settings, so sharing never opens it to another caller.
* A refused `add_service` has changed the annotations already
  (`rpc.py:2124-2138`): to offer a function of a protected service again, as public and
  without `overwrite`, raises "Service already exists" and makes it public
  where it is.  That a stored service keeps its settings is `OwnSettings` of
  `ServiceStore`; as an invariant of `ServiceStore.cfg`, TLC finds it violated by these
  two steps.  Nothing in the repository promises it, so no run does.
* Two overlapping runs of `on_connected` can leave two handlers installed, or one
  that hears nothing.
* What another task removes while `on_connected` reports the services remains known
  to the manager.
* **The user's manager proxy can stay with the previous manager** (run
  `proxy_stale`): the first `manager_refreshed` event that `connect_to_server` hears
  is skipped as the initial one, but a reconnection may have come first.
* A handler installed with `once` is never removed: the attribute it is marked with,
  `___event_run_once`, is set inside a class and so has its name mangled
  (`utils/__init__.py:409`), while `:445` asks for the plain name.  The event emitter
  is not modelled.

## 6. MethodDispatch: heartbeats and callbacks, in time

### Correspondence

| Model | Code |
|---|---|
| `caller[c]`, `timer[c]` | the caller's future, and the ticks left of its `Timer` |
| `net` | messages on their way, with their age |
| `task[c]`, `beat[c]`, `left[c]` | the callee's method task and heartbeat task (`_call_method`, `_handle_method`), and the ticks in which the latter has sent or slept |
| `missing` | calls whose method was not found |
| `replies`, `returned`, `lost`, `closed` | history: answers sent, results sent, calls with a lost message, calls whose callee has closed |
| `zombies` | sessions that `_get_session_store` has created again for a late reply |

`Parent[c]` makes `c` a callback: it lives in the session of its parent, which may
end first.  `HandleFound`, `HandleMissing` and so on are the ways out of
`_handle_method`; those of the method task are `MethodEnds` and a cancellation.

Time is discrete.  `Tick` ages the messages and runs the timers down; it waits for
what the event loop can do at once, for messages that are due and for heartbeats
that must be sent.  The network delivers within `MaxDelay` or loses, and sending
takes at most `MaxSend`.  `FastAssumption` says that both are short compared with
the timeout (30 s in the code), half of which is the heartbeat interval.

### Run

`dispatch` checks a call and a callback passed to it, with `Timeout = 5`,
`MaxDelay = 1`, `MaxSend = 1`, the smallest numbers that meet `FastAssumption` and let
a message be delayed (248,780 states): `NoFalseTimeout`, `BeatMatchesTask`,
`AnsweredOnce`, `CallEnds`, `ImplementsContract`.  One level of nesting has both a
session that a callback lives in and a session of its own.  Fairness is weak, of
what the event loop can do and of time.

### Proofs

`MethodDispatch_proofs` proves for any nesting of calls and any timing that meets
the assumptions: `DispatchTypeCorrect`, `HeartbeatsInTime` (`NoFalseTimeout`),
`OneAnswer` (`AnsweredOnce`), `HeartbeatsOfTasks` (`BeatMatchesTask`) and
`ContractImplemented`.  The
inductive invariant is `TypeOK`, `FreshInv` (the callee knows nothing of a call
whose request is on its way), `CalleeInv` (a running method has not answered, and
heartbeats keep to their times), `ReturnedInv` and `TimeInv`.  The last is the
argument: as long as nothing is lost, a caller that waits is about to be told
something before its timer fires (`Hears`) - by a request that will be handled, a
heartbeat that will be sent, or an answer - and would be, even if the timer were
reset now, since a heartbeat may be on its way (`BeatDue`).

What `CallEnds` rests on is proved, too.  Only a method that runs, or a call whose method
was not found, has a heartbeat task (`BeatingInv`).  Without one, a call that waits has
some heartbeats on their way and some ticks on its timer, and no step raises this pair
in lexicographic order, while each tick lowers it (`SilenceIsShort`).  So if time goes on,
`CallEnds` holds or the pair runs down forever (`CallsEndOrRunDown`).  That natural numbers
cannot do so is induction in time, out of the prover's reach, and stays with TLC, as
does that time goes on: on the instance of `dispatch` `FairSpec` implies that it does
while a call waits (checked apart from the runs), but with infinitely many calls, or heartbeats sent without a tick
between them (`Interval` and `MaxSend` 0), infinitely many steps may come before the next.

### Observations

* If the method is not found the heartbeat task runs on, until the heartbeat fails
  (`HandleMissing`); hence `missing` in `CallEnds`.
* The caller of a generator that is exhausted and gone is not answered, if the entry
  was in a session that waits for its own answer (`HandleExhausted`).
* A reply to a callback whose parent has ended creates the parent's session again
  (`NoZombie` in `MethodDispatch.cfg` is violated).

Not modelled: a method that swallows its cancellation, calls to oneself, the
caller's `close()` (see `CallSession`).

## 7. ChunkTransfer: long messages

### Correspondence

| Model | Code |
|---|---|
| `phase[m]`, `chunk[m]` | where `_send_chunks` is, and which chunks it has sent and had confirmed |
| `wire`, `answers` | calls of the receiver's `message_cache` and their answers |
| `cache[k]`, `maker[k]` | an entry of `message_cache`; `maker` is the message it was created for |
| `Key[m]` | the session that `m` is a reply to, after which its entry is named; a new id for other messages |
| `ended` | sessions that have been deleted at the receiver |
| `fired`, `torn`, `hurt` | history |

`_set_message`, `_process_message`, `_remove_message` and `_create_message` are
executed in any order that the transport allows (`InOrder`: requests of one message
follow one another on one WebSocket, except those of its chunks, which are sent by
tasks of their own).

### Run and proofs

`chunks` checks two long messages that are replies to the same session, in 3 chunks,
of which 2 are sent at a time, with one message that faults happen to (47,960
states): `WholeMessages`, `FailsForAReason`, `OnlyFaultsLeak`, `TransferEnds` and
`DeliveryImplemented`.  Three chunks and a limit of two make a task wait for the
semaphore; two messages collide, and a third would collide with either.

`ChunkTransfer_proofs` proves for any messages, chunks, limit and faults
`TransferTypeCorrect`, `OnlyWholeMessages`, `DeliveryCorrect` (a message is
delivered at most once, and has been if the sender thinks so), `FailureJustified`
(`FailsForAReason`) and `LeaksExplained` (`OnlyFaultsLeak`).  The argument: an
entry belongs to the message it was made for until that message has it removed or
processed (`OwnInv`), all of whose chunks have been taken before (`CallsInv`); hence
it holds chunks of its owner only, and all that its owner knows to be stored
(`StoredInv`).  A refusal on its way has its reason already (`ReasonInv`), because
only a message that has begun owns an entry; and who has been told that its entry is
gone or was never made does not own it (`LeakInv`), so that what a transfer leaves
behind comes of an answer it did not get, or of a `process` refused because the
session had ended.

Three theorems are about the end of a transfer.  `Remaining` counts what there is to do:
three for each stage and each chunk ahead, two for a request on its way, one for an
answer.  `TransfersFinite` says that every step lowers it, faults included; only the end of a
session leaves it alone.  `TransfersNeverStuck` says that a transfer that has begun and has not
ended can always go on: one of its calls can be taken or answered, a chunk or `process`
be sent, or a call that was lost be given up.  It needs `Accounted` (who waits for a call
that is not under way has suffered a fault) and that the bound on faults leaves room for
the timeout that follows a loss.  `TransfersEndOrShrink` concludes, under `Justice` (as in
section 3: `FairSpec` with these conditions in place of `ENABLED`), that every transfer ends
or `Remaining` is lowered forever.  The last inference, that a natural number cannot be
lowered forever, is left to the reader and, for the instance of `chunks`, to TLC, which
checks `TransferEnds` itself.

### Observations

* Two long messages to one session collide: `create` of the second raises, so a
  long result can be lost because a long callback argument is still on its way.
* If `create` or `process` fails nobody removes the entry, which stays until the
  session ends, or for ever if it has none (`CacheFreed` in `ChunkTransfer.cfg` is
  violated).
* A message that lost its tail, but whose first part unpacks, would be processed
  without its `extra`; the last chunk is never skipped by `_send_chunks`, so it takes a
  fault of the transport.

Not modelled: `append` for receivers before API version 3, and the resets of the
caller's timer by chunk calls.

## 8. HttpConnection: the other transport

### Correspondence

| Model | Code |
|---|---|
| `opening` | `open()`, which polls for the first `connection_info` |
| `loop`, `retry`, `again` | `_stream_loop`, its retry counter and `_is_reconnection` |
| `wire`, `buffer` | bytes on their way and the buffer of the frame parser; a length has two digits to `Base` instead of four to 256 |
| `info`, `manager`, `workspace` | `connection_info`, `manager_id`, `_workspace` |
| `notices` | `_handle_reconnection` tasks that have not begun |
| `attached`, `reported` | the RPC object has set its handlers; for which manager it was last told that it is connected |
| `closed`, `client`, `refresher`, `user` | `_closed`, `_http_client`, `_refresh_token_task`, `disconnect()` |
| `post`, `attempt`, `delivered` | `emit_message`: its attempts and how often the server took the message |
| `server`, `healthy`, `sent` | the environment |

### Run

`http` checks two servers, one of which puts the client into another workspace, one
message from the server, one post, lengths of `Base` 2 (so that a payload of two
bytes carries), two streams, `MaxRetry = 2` and three attempts to post (254,223
states): `FramesIntact`, `ReportedToManager`, `DisconnectFinal`, `SilentWhenGone`,
`StreamRecovers`, `ImplementsContract`.  Two streams are one that breaks and its
successor.  Fairness is weak, of the tasks of the library and of their timeouts;
`StreamRecovers` assumes that the server stays from some time on.

### Proofs

`HttpConnection_proofs` proves for any servers, messages and bounds
`HttpTypeCorrect`, `DisconnectIsFinal`, `GoneIsSilent`, `FramesReadWhole`
(`FramesIntact`), `EveryServerReported` (`ReportedToManager`) and
`PostsImplementContract`.  `EndInv` orders the tasks: the stream task begins before
anything comes from the server, the refresher after it, and `disconnect()` ends them
in turn.  `PostInv` counts: a message has been delivered at most once in each of its
attempts, and at least once when it was taken.

`StreamInv` is the argument for the parser: the bytes in the buffer followed by those
on their way can always be cut into frames, for any `Base` and wherever the network
cuts them.  Sequences of frames are described by the set of places where a frame
begins (`Frames`) and not by recursion, so that taking one off the head (`FramesRest`)
and adding one at the end (`FrameFollows`) are proved without induction.  `Expected`
says where the connection info may still come: only in front, which is why no notice
is missed.  `NoticeInv` then says that the last notice is of the present server, and
that without one `manager_id` is up to date.

Recovery is proved under `Justice` (as in section 3) for `Loops`, `OpenWakes` and `Noticed`.
`_stream_loop` goes through its stages in one direction once the server stays: it is
created, sleeps or tries, streams before it has the connection info, and streams after
it, or ends, for a reason (`ReasonInv`).  The connection info is the frame at the head of
buffer and wire until it has been read (`TellInv`), and its three bytes can always be
read, whatever follows and however they are cut.  `StreamAlwaysComesBack` says therefore that
the loop ends for one of its reasons or streams for good and knows its server.
`StreamRecovers` wants the services to be reported as well, and so every task of
`_handle_reconnection` to have run.  `StreamRecoversOrNotices` proves it unless they run
forever, and `NoticesComeToAnEnd` that, once the info has been read, none is added to those that
are left.  That a finite list cannot be shortened forever is induction in time again: TLC
checks `StreamRecovers` itself.

### Observations

* A POST whose answer is lost is repeated, so a call may be executed up to three
  times; `RepeatedDelivery` says no more than that.
* The repetitions of `emit_message` last 1.5 s, while the stream is tried again after
  2 s at the earliest.
* When the retries are used up (1,000,000) the stream task ends with `_closed` false, and
  so the RPC object rejects nothing.
* If the first attempt of `open()` fails, the info of the second is taken for a
  reconnection, which may replace the workspace before `open()` compares it with the
  one asked for (`AskedWorkspace` in `HttpConnection.cfg` is violated; `open()` at
  `http_client.py:271-275`).

Not modelled: the posts that refresh the token, ping and error frames.  The server
is restarted only between streams.

## 9. ObjectCodec: what arrives

`Encode` and `Decode` follow `_encode` and `_decode` case by case; a value is a record
with a type, and names under which functions and generators are stored take the
place of strings.  `store` is what all clients have in `_object_store`.  The
sender encodes a value for the peer; the peer decodes it and sends the result back
to the sender, on to a neighbour at the same server, or, by way of a second
connection (`agent`), to a third client at another server.

`codec` (512,128 states, about a minute) takes every type in every position, three
levels deep, with and without custom codecs.  `Intact` is about meaning, not form:
`View` is what a user takes a value for, in which a function is what one reaches by
calling it, through as many proxies as it has become.  `FastPathSound` says that the
shortcuts for lists and dicts of primitives change nothing.  Three levels have a
container in a container in a special form of each kind.  There are no theorems: the
encoding is recursive over values, and induction over data is out of the prover's reach.

Observations, which `Supported`, `Forwardable` and `View` make explicit:

* An `OrderedDict` is copied to a `dict` first, so the branch for it is dead and the
  order is only kept because a `dict` keeps it; `README.md:48` of the repository
  lists it as a type of its own.
* A set of tuples cannot be decoded: its elements have become lists, as `README.md:45`
  and `:47` of the repository have it for each of the two.
* An `_rintf` object that was received cannot be forwarded or returned (`add_service`
  refuses the methods of others).  The repository's `README.md:156-206` does this in
  its Example 2: what it echoes is a zarr array, encoded as an `_rintf` object.
* A function that lives in a session is of no use to anybody but the client the
  session is with: not to others of the same server, nor to the sender who gets it
  back (`rpc.py:3116-3132`, "Access denied").  Through another server it works.
* The reuse of `__rpc_object__` for streams never happens.
* A failed `_encode` leaves the functions and services it has stored already.

Not modelled: ordered maps and typed arrays as JavaScript sends them, encoders that do
not return a dict, encryption, names, docstrings and schemas of functions, and the
prefix of error messages.

## 10. Not modelled

* The synchronous wrapper (a thread with an event loop, a pool of two threads), the
  event emitter, WebRTC, the Pyodide transports, the JavaScript client: ports and
  adapters, which have components of their own in `PROJECT.json` with the reasons.
* End-to-end encryption, schemas, MCP, pydantic, `serve`, login and the command line:
  computations without a state that several actors share.
* Within the modules: logging, case conversion, `_force_cleanup_all_sessions` and
  `get_session_stats` (`CallSession`); the first `open()`, the ping and token refresh
  tasks, what is sent, and the websocket state `CLOSING` (`WebSocketConnection`).
* Two more ways for a websocket to stay open and unheard, with the effect of point 2
  of section 4: a text message that is no JSON object ends `_listen` with an exception
  (`websocket_client.py:489-491`), and a server that answers 403 and needs the legacy
  authentication ends the reconnection with `NotImplementedError` (`:162-165`,
  `:301-302`, `:623-635`).
* The retry wrapper around services of other clients; `Registration` has it for the
  manager's (`FetchAgain`).

Every invariant, action property and refinement that a passing run checks is also a
theorem, except those of `ObjectCodec`; of the liveness properties `PromiseSettles` is.  What
is only model-checked, and therefore covers no size beyond the instance of its run:

* `TransferEnds`, `StreamRecovers` and `CallEnds`, in their last inference.  The prover has no
  induction over time: a temporal formula can be neither a predicate of an induction
  theorem nor the filter of a set.  That their measures go down, and that somebody can
  always act or time go on, is proved or assumed as sections 6 to 8 say.
* `StormEnds` and `LinkSettles`.  They need the same induction, several times over: over the
  tasks that compete for the lock, over the retries of each, and over the attempts that
  a delay outlasts.
* `Intact` and `FastPathSound`: induction over values.
* That the conditions of `Justice` imply `ENABLED` of their steps, which the prover cannot
  expand.

`CHECK_DEADLOCK FALSE` is set in every run: a client that has nothing to do stops.
