-------------------------- MODULE WebSocketConnection --------------------------
(***************************************************************************)
(* WebsocketRPCConnection of hypha_rpc/websocket_client.py from the moment  *)
(* its first open() has returned: the listen task, the reconnect tasks with *)
(* their backoff, emit_message, which may wait for a reconnection or open   *)
(* the connection itself, and disconnect().                                 *)
(*                                                                         *)
(* A step is the code between two awaits.  Delays are not modelled: a sleep *)
(* or a timeout may end at any time, but see Prompt and Lasts.              *)
(***************************************************************************)
EXTENDS Integers, FiniteSets

CONSTANTS Sockets,      \* identities of websocket objects, used again when free
          Reconnects,   \* identities of reconnect tasks, used again when free
          Emitters,     \* tasks that call emit_message
          NoSocket,     \* self._websocket is None
          NoTask,       \* nobody holds the lock
          MaxRetry,     \* MAX_RETRY
          MaxFlaps,     \* bounds _reconnect_flap_count
          Faults,       \* what may go wrong besides connections that fail
          MayDisconnect \* whether the user calls disconnect()

\* "stall": the server accepts a websocket but does not answer in time.
\* "refuse": it answers with an error.  "register": services are not registered.
\* "slow": open() may take longer than RECONNECT_FLAP_WINDOW even when all is well.
ASSUME FaultsAssumption == Faults \subseteq {"stall", "refuse", "register", "slow"}
ASSUME IdsAssumption == /\ NoSocket \notin Sockets
                        /\ NoTask \notin Reconnects \cup Emitters
                        /\ Reconnects \cap Emitters = {}
ASSUME RetryAssumption == MaxRetry \in Nat \ {0, 1} /\ MaxFlaps \in Nat \ {0, 1} /\ MayDisconnect \in BOOLEAN

VARIABLES sock,         \* self._websocket
          open,         \* the sockets whose state is OPEN
          listener,     \* listener[s]: the _listen task made for socket s
          closed,       \* self._closed
          event,        \* self._reconnected_event is not None
          lock,         \* the holder of _connecting_lock
          pc,           \* where each task is
          retry,        \* retry of each reconnect task
          flaps,        \* _reconnect_flap_count, up to MaxFlaps
          lasting,      \* the connection is older than RECONNECT_FLAP_WINDOW
          outlasts,     \* how many attempts in a row, from the present one on, are
                        \* certain to end before the sleep of a reconnect task does
          tracked,      \* the reconnect tasks in _reconnect_tasks
          reg_ok,       \* _services_registered_ok
          user,         \* progress of the user's disconnect()
          healthy       \* from now on the network and the server work

linkVars == <<sock, open, listener>>
flapVars == <<flaps, lasting, outlasts>>
envVars == <<user, healthy>>
vars == <<sock, open, listener, closed, event, lock, pc, retry, flaps, lasting, outlasts,
          tracked, reg_ok, user, healthy>>

Tasks == Reconnects \cup Emitters

\* A reconnect task has "start" and its sleeps "delay", "backoff" and "settle".  An
\* emitter is "waiting" for the current event, "orphaned" when that has been
\* replaced, "woken" when it has been set.  Both take the "lock" and open.
Places == {"idle", "start", "delay", "backoff", "settle", "waiting", "orphaned", "woken",
           "lock", "closing", "connecting", "handshake", "registering"}

TypeOK == /\ sock \in Sockets \cup {NoSocket}
          /\ open \subseteq Sockets
          /\ listener \in [Sockets -> {"none", "created", "recv"}]
          /\ closed \in BOOLEAN
          /\ event \in BOOLEAN
          /\ lock \in Tasks \cup {NoTask}
          /\ pc \in [Tasks -> Places]
          /\ retry \in [Reconnects -> 0..(MaxRetry - 1)]
          /\ flaps \in 0..MaxFlaps
          /\ lasting \in BOOLEAN
          /\ outlasts \in [Reconnects -> Nat]
          /\ tracked \subseteq Reconnects
          /\ reg_ok \in BOOLEAN
          /\ user \in {"active", "closing", "done"}
          /\ healthy \in BOOLEAN

\* open() has just returned: the listen task is scheduled and has not begun.
Init == /\ sock \in Sockets
        /\ open = {sock}
        /\ listener = [s \in Sockets |-> IF s = sock THEN "created" ELSE "none"]
        /\ closed = FALSE
        /\ event = FALSE
        /\ lock = NoTask
        /\ pc = [t \in Tasks |-> "idle"]
        /\ retry = [r \in Reconnects |-> 0]
        /\ flaps = 0
        /\ lasting = FALSE
        /\ outlasts = [r \in Reconnects |-> 0]
        /\ tracked = {}
        /\ reg_ok = TRUE
        /\ user = "active"
        /\ healthy = FALSE

-----------------------------------------------------------------------------
(* Helpers *)

Linked == sock \in open

\* The program counters p after every waiting emitter has become w.
Waiters(p, w) == [t \in Tasks |-> IF p[t] = "waiting" THEN w ELSE p[t]]

\* if self._reconnected_event: set it and forget it.
Notified(p) == event' = FALSE /\ pc' = Waiters(p, "woken")

Sleeping(r) == pc[r] \in {"delay", "backoff"}

\* What _cleanup cancels besides the caller t: the tracked reconnect tasks, and
\* those in a sleep, which is tracked by itself.
Cancellable(t) == {r \in Reconnects \ {t} : Sleeping(r) \/ r \in tracked}

\* A task whose sleep is cancelled notifies.
Cancelled(S, p) ==
  LET q == [t \in Tasks |-> IF t \in S THEN "idle" ELSE p[t]]
  IN IF \E r \in S : Sleeping(r) THEN Notified(q) ELSE pc' = q /\ UNCHANGED event

\* Reconnect tasks that are done are not tracked and have no local variables.
Bookkeeping(S, k) ==
  /\ tracked' = {r \in S : pc'[r] # "idle"}
  /\ retry' = [r \in Reconnects |-> IF pc'[r] = "idle" THEN 0 ELSE k[r]]

\* Bound on the reconnect tasks at work: what makes more of them needs a spare one.
Spare == Cardinality({r \in Reconnects : pc[r] = "idle"}) >= 2

\* open() may take longer than the sleeps of the reconnect tasks.
SlowOpen == (~healthy \/ "slow" \in Faults) /\ Spare

\* A plausible error: the delay does not grow.
FallsAsleepBriefly(r, k) == outlasts' = [outlasts EXCEPT ![r] = IF lock = NoTask THEN 0 ELSE 1]

\* Otherwise an attempt takes less than the shortest delay, a second, and the k-th
\* delay of the exponential backoff outlasts k attempts in a row.  r falls asleep for
\* the k-th delay, perhaps during an attempt.
FallsAsleep(r, k) == outlasts' = [outlasts EXCEPT ![r] = IF lock = NoTask THEN 0 ELSE k]

Awake == [r \in Reconnects |-> 0]

\* outlasts when task t has ended its attempt, and perhaps another one follows at once.
AttemptOver(t) ==
  [r \in Reconnects |-> IF outlasts[r] > 0 /\ \E x \in Tasks \ {t} : pc[x] = "lock"
                        THEN outlasts[r] - 1 ELSE 0]

MayWake(r) == outlasts[r] = 0 \/ lock = NoTask \/ SlowOpen

\* No task is ready.  The event loop runs those that are before a round trip over
\* the network or a sleep of half a second or more is over.
Prompt == /\ \A s \in Sockets : listener[s] # "none" => listener[s] = "recv" /\ s \in open
          /\ \A t \in Tasks : pc[t] \notin {"start", "woken"} /\ (pc[t] = "lock" => lock # NoTask)
          /\ user # "closing"

-----------------------------------------------------------------------------
(* The listen task *)

\* The finally clause when the connection is lost: a new event and a reconnect
\* task.  on_connection_lost only logs, as the RPC layer counts on reconnection.
StartReconnect ==
  \E r \in Reconnects :
    /\ pc[r] = "idle"
    /\ event' = TRUE
    /\ pc' = [Waiters(pc, "orphaned") EXCEPT ![r] = "start"]
    /\ Bookkeeping(tracked \cup {r}, retry)

\* The finally clause of _listen, for _closed = c.  While a task is opening the
\* connection, self._websocket is None and the test ends in AttributeError.
ListenEnds(c) ==
  IF sock # NoSocket /\ ~Linked /\ ~c
    THEN StartReconnect
    ELSE UNCHANGED <<event, pc, tracked, retry>>

\* _listen begins: _closed = False, whoever has set it.
ListenBegins(s) ==
  /\ listener[s] = "created"
  /\ closed' = FALSE
  /\ IF Linked
       THEN /\ listener' = [listener EXCEPT ![s] = "recv"]
            /\ UNCHANGED <<event, pc, tracked, retry>>
       ELSE /\ listener' = [listener EXCEPT ![s] = "none"]
            /\ ListenEnds(FALSE)
  /\ UNCHANGED <<sock, open, lock, flapVars, reg_ok, envVars>>

\* recv() raises because the socket is closed.
ListenLoses(s) ==
  /\ listener[s] = "recv"
  /\ s \notin open
  /\ listener' = [listener EXCEPT ![s] = "none"]
  /\ ListenEnds(closed)
  /\ UNCHANGED <<sock, open, closed, lock, flapVars, reg_ok, envVars>>

-----------------------------------------------------------------------------
(* open(), run by a reconnect task or by emit_message *)

\* A plausible error: the previous websocket is dropped and not closed.
OpenBeginsLeaking(t) ==
  /\ pc[t] = "lock"
  /\ lock = NoTask
  /\ lock' = t
  /\ pc' = [pc EXCEPT ![t] = IF sock = NoSocket THEN "connecting" ELSE "closing"]
  /\ UNCHANGED <<linkVars, closed, event, tracked, retry, flapVars, reg_ok, envVars>>

\* The lock is taken and the previous websocket, if any, is closed.
OpenBegins(t) ==
  /\ pc[t] = "lock"
  /\ lock = NoTask
  /\ lock' = t
  /\ pc' = [pc EXCEPT ![t] = IF sock = NoSocket THEN "connecting" ELSE "closing"]
  /\ open' = open \ {sock}
  /\ UNCHANGED <<sock, listener, closed, event, tracked, retry, flapVars, reg_ok, envVars>>

\* The close is over: self._websocket = None.
OpenCloses(t) ==
  /\ pc[t] = "closing"
  /\ sock' = NoSocket
  /\ pc' = [pc EXCEPT ![t] = "connecting"]
  /\ UNCHANGED <<open, listener, closed, event, lock, tracked, retry, flapVars, reg_ok, envVars>>

OpenConnects(t) ==
  /\ pc[t] = "connecting"
  /\ Prompt
  /\ \E s \in Sockets : /\ s \notin open /\ listener[s] = "none"
                        /\ sock' = s
                        /\ open' = open \cup {s}
  /\ pc' = [pc EXCEPT ![t] = "handshake"]
  /\ UNCHANGED <<listener, closed, event, lock, tracked, retry, flapVars, reg_ok, envVars>>

\* A plausible error: the listen task is only made when none was made before.
OpenAnsweredDeaf(t) ==
  /\ pc[t] = "handshake"
  /\ Linked
  /\ Prompt
  /\ lasting' = FALSE
  /\ pc' = [pc EXCEPT ![t] = "registering"]
  /\ UNCHANGED <<linkVars, closed, event, lock, tracked, retry, flaps, outlasts, reg_ok, envVars>>

\* connection_info has come: a listen task, and the on_connected callback.
OpenAnswered(t) ==
  /\ pc[t] = "handshake"
  /\ Linked
  /\ Prompt
  /\ listener' = [listener EXCEPT ![sock] = "created"]
  /\ lasting' = FALSE
  /\ pc' = [pc EXCEPT ![t] = "registering"]
  /\ UNCHANGED <<sock, open, closed, event, lock, tracked, retry, flaps, outlasts, reg_ok, envVars>>

\* on_connected is over, and with it open().
OpenEnds(t) ==
  /\ pc[t] = "registering"
  /\ Prompt
  /\ reg_ok' \in BOOLEAN
  /\ reg_ok' => Linked
  /\ Linked => reg_ok' \/ ("register" \in Faults /\ ~healthy)
  /\ lock' = NoTask
  /\ pc' = [pc EXCEPT ![t] = IF t \in Reconnects THEN "settle" ELSE "idle"]
  /\ outlasts' = AttemptOver(t)
  /\ UNCHANGED <<linkVars, closed, event, tracked, retry, flaps, lasting, envVars>>

\* A plausible error: the task that cleans up cancels itself.
OpenFailsCancelled(t, p) ==
  /\ Cancelled(Cancellable(NoTask), [pc EXCEPT ![t] = p])
  /\ Bookkeeping({}, retry)
  /\ lock' = NoTask
  /\ outlasts' = Awake

\* A plausible error: the lock is not released when open() raises.
OpenFailsHolding(t, p) ==
  /\ Cancelled(Cancellable(t), [pc EXCEPT ![t] = p])
  /\ Bookkeeping({}, retry)
  /\ UNCHANGED lock
  /\ outlasts' = Awake

\* open() raises and task t goes on at p.  _cleanup cancels all reconnect tasks;
\* the caller's own cancellation is swallowed by the except clause around its
\* wait_for, but it is no longer tracked.  The socket stays as it is.
OpenFails(t, p) ==
  /\ Cancelled(Cancellable(t), [pc EXCEPT ![t] = p])
  /\ Bookkeeping({}, retry)
  /\ lock' = NoTask
  /\ outlasts' = Awake

\* No connection, a connection lost during the handshake, or no answer in time.
OpenBreaks(t) ==
  /\ Prompt
  /\ \/ pc[t] = "connecting" /\ ~healthy
     \/ pc[t] = "handshake" /\ (~Linked \/ ("stall" \in Faults /\ ~healthy))
  /\ OpenFails(t, IF t \in Reconnects THEN "backoff" ELSE "idle")
  /\ UNCHANGED <<linkVars, closed, flaps, lasting, reg_ok, envVars>>

\* ConnectionAbortedError: a reconnect task gives up for good, an emit fails.
OpenRefused(t) ==
  /\ pc[t] = "handshake"
  /\ Linked
  /\ Prompt
  /\ "refuse" \in Faults /\ ~healthy
  /\ IF t \in Emitters
       THEN OpenFails(t, "idle") /\ UNCHANGED closed
       ELSE /\ closed' = TRUE
            /\ Notified([x \in Tasks |-> IF x \in Cancellable(t) \cup {t} THEN "idle" ELSE pc[x]])
            /\ Bookkeeping({}, retry)
            /\ lock' = NoTask
            /\ outlasts' = Awake
  /\ UNCHANGED <<linkVars, flaps, lasting, reg_ok, envVars>>

-----------------------------------------------------------------------------
(* reconnect_with_retry *)

\* The head of its loop, with retry = k.
NextAttempt(r, k) ==
  /\ IF k < MaxRetry \/ closed
       THEN /\ pc' = [pc EXCEPT ![r] = IF closed THEN "idle" ELSE "lock"]
            /\ UNCHANGED <<closed, event>>
       ELSE closed' = TRUE /\ Notified([pc EXCEPT ![r] = "idle"])
  /\ Bookkeeping(tracked, [retry EXCEPT ![r] = k])

\* The first attempt is immediate unless connections have been short-lived.  Their
\* number alone does not use up the retries.
ReconnectBegins(r) ==
  /\ pc[r] = "start"
  /\ flaps' = IF lasting THEN 0 ELSE IF flaps < MaxFlaps THEN flaps + 1 ELSE MaxFlaps
  /\ IF flaps' > 1 /\ ~closed
       THEN /\ pc' = [pc EXCEPT ![r] = "delay"]
            /\ FallsAsleep(r, flaps' - 1)
            /\ Bookkeeping(tracked, [retry EXCEPT ![r] = IF flaps' < MaxRetry THEN flaps' - 1 ELSE MaxRetry - 1])
            /\ UNCHANGED <<closed, event>>
       ELSE NextAttempt(r, 0) /\ UNCHANGED outlasts
  /\ UNCHANGED <<linkVars, lasting, reg_ok, lock, envVars>>

DelayEnds(r) ==
  /\ pc[r] = "delay" /\ MayWake(r)
  /\ Prompt
  /\ outlasts' = [outlasts EXCEPT ![r] = 0]
  /\ \/ /\ closed
        /\ pc' = [pc EXCEPT ![r] = "idle"]
        /\ Bookkeeping(tracked, retry)
        /\ UNCHANGED <<closed, event>>
     \/ /\ ~closed /\ Linked
        /\ Notified([pc EXCEPT ![r] = "idle"])
        /\ Bookkeeping(tracked, retry)
        /\ UNCHANGED closed
     \/ ~closed /\ ~Linked /\ NextAttempt(r, retry[r])
  /\ UNCHANGED <<linkVars, reg_ok, lock, flaps, lasting, envVars>>

\* A plausible error: success is not announced.
SettlesSilently(r) ==
  /\ pc[r] = "settle"
  /\ Prompt
  /\ pc' = [pc EXCEPT ![r] = IF Linked /\ reg_ok THEN "idle" ELSE "backoff"]
  /\ IF Linked /\ reg_ok THEN UNCHANGED outlasts ELSE FallsAsleep(r, retry[r] + 1)
  /\ Bookkeeping(tracked, retry)
  /\ UNCHANGED <<linkVars, closed, event, reg_ok, lock, flaps, lasting, envVars>>

\* Half a second after open(): success, or an exception and a backoff.
Settles(r) ==
  /\ pc[r] = "settle"
  /\ Prompt
  /\ IF Linked /\ reg_ok
       THEN Notified([pc EXCEPT ![r] = "idle"]) /\ UNCHANGED outlasts
       ELSE pc' = [pc EXCEPT ![r] = "backoff"] /\ FallsAsleep(r, retry[r] + 1) /\ UNCHANGED event
  /\ Bookkeeping(tracked, retry)
  /\ UNCHANGED <<linkVars, closed, reg_ok, lock, flaps, lasting, envVars>>

\* A plausible error: no further attempt.
BackoffEndsLoop(r) ==
  /\ pc[r] = "backoff" /\ MayWake(r)
  /\ Prompt
  /\ outlasts' = [outlasts EXCEPT ![r] = 0]
  /\ pc' = [pc EXCEPT ![r] = "idle"]
  /\ Bookkeeping(tracked, retry)
  /\ UNCHANGED <<linkVars, closed, event, reg_ok, lock, flaps, lasting, envVars>>

\* After the backoff a connection that is open ends the loop, as does disconnect().
BackoffEnds(r) ==
  /\ pc[r] = "backoff" /\ MayWake(r)
  /\ Prompt
  /\ outlasts' = [outlasts EXCEPT ![r] = 0]
  /\ IF Linked \/ closed
       THEN /\ pc' = [pc EXCEPT ![r] = "idle"]
            /\ Bookkeeping(tracked, retry)
            /\ UNCHANGED <<closed, event>>
       ELSE NextAttempt(r, retry[r] + 1)
  /\ UNCHANGED <<linkVars, reg_ok, lock, flaps, lasting, envVars>>

-----------------------------------------------------------------------------
(* emit_message; one that finds the link open sends and is not modelled further *)

\* The link is down: wait for the event if there is one, else open.
Emit(e) ==
  /\ pc[e] = "idle"
  /\ ~closed /\ ~Linked
  /\ pc' = [pc EXCEPT ![e] = IF event THEN "waiting" ELSE "lock"]
  /\ UNCHANGED <<linkVars, closed, event, lock, tracked, retry, flapVars, reg_ok, envVars>>

EmitWakes(e) ==
  /\ pc[e] = "woken"
  /\ pc' = [pc EXCEPT ![e] = IF closed \/ Linked THEN "idle" ELSE "lock"]
  /\ UNCHANGED <<linkVars, closed, event, lock, tracked, retry, flapVars, reg_ok, envVars>>

EmitTimesOut(e) ==
  /\ pc[e] \in {"waiting", "orphaned"}
  /\ pc' = [pc EXCEPT ![e] = "idle"]
  /\ UNCHANGED <<linkVars, closed, event, lock, tracked, retry, flapVars, reg_ok, envVars>>

-----------------------------------------------------------------------------
(* disconnect() *)

DisconnectBegins ==
  /\ MayDisconnect
  /\ user = "active"
  /\ user' = "closing"
  /\ closed' = TRUE
  /\ open' = open \ {sock}
  /\ UNCHANGED <<sock, listener, event, lock, pc, tracked, retry, flapVars, reg_ok, healthy>>

\* _cleanup: the listen task is cancelled, before it has begun or in recv, and
\* so are the reconnect tasks.
DisconnectEnds ==
  LET S == Cancellable(NoTask)
  IN /\ user = "closing"
     /\ user' = "done"
     /\ listener' = [s \in Sockets |-> "none"]
     /\ Cancelled(S, pc)
     /\ Bookkeeping({}, retry)
     /\ lock' = IF lock \in S THEN NoTask ELSE lock
     /\ outlasts' = Awake
     /\ UNCHANGED <<sock, open, closed, flaps, lasting, reg_ok, healthy>>

-----------------------------------------------------------------------------
(* The network, the server and time *)

\* Bound: only while some task identity is left.
SocketDrops ==
  /\ ~healthy
  /\ Linked
  /\ Spare
  /\ open' = open \ {sock}
  /\ UNCHANGED <<sock, listener, closed, event, lock, pc, tracked, retry, flapVars, reg_ok, envVars>>

Heals ==
  /\ ~healthy
  /\ healthy' = TRUE
  /\ UNCHANGED <<linkVars, closed, event, lock, pc, tracked, retry, flapVars, reg_ok, user>>

\* RECONNECT_FLAP_WINDOW passes, and with it what takes less than a second.
Lasts ==
  /\ ~lasting
  /\ Linked /\ Prompt
  /\ \A t \in Tasks : pc[t] # "settle"
  /\ SlowOpen \/ lock = NoTask
  /\ lasting' = TRUE
  /\ UNCHANGED <<linkVars, closed, event, lock, pc, tracked, retry, flaps, outlasts, reg_ok, envVars>>

-----------------------------------------------------------------------------
ListenStep == \E s \in Sockets : ListenBegins(s) \/ ListenLoses(s)

OpenStep(t) == \/ OpenBegins(t) \/ OpenCloses(t) \/ OpenConnects(t)
               \/ OpenAnswered(t) \/ OpenEnds(t) \/ OpenBreaks(t) \/ OpenRefused(t)

ReconnectStep(r) == ReconnectBegins(r) \/ DelayEnds(r) \/ Settles(r) \/ BackoffEnds(r)

EmitStep(e) == Emit(e) \/ EmitWakes(e) \/ EmitTimesOut(e)

Next == \/ ListenStep
        \/ \E t \in Tasks : OpenStep(t)
        \/ \E r \in Reconnects : ReconnectStep(r)
        \/ \E e \in Emitters : EmitStep(e)
        \/ DisconnectBegins \/ DisconnectEnds
        \/ SocketDrops \/ Heals \/ Lasts

Spec == Init /\ [][Next]_vars

\* The event loop runs every task that can go on; every sleep, connection
\* attempt and wait for an answer ends, the last two because of their timeouts.
Fairness == /\ WF_vars(ListenStep)
            /\ \A t \in Tasks : WF_vars(OpenStep(t))
            /\ \A r \in Reconnects : WF_vars(ReconnectStep(r))
            /\ \A e \in Emitters : WF_vars(EmitWakes(e) \/ EmitTimesOut(e))
            /\ WF_vars(DisconnectEnds)

FairSpec == Spec /\ Fairness

-----------------------------------------------------------------------------
(* Properties *)

Working == \E r \in Reconnects : pc[r] # "idle"

Opening(t) == pc[t] \in {"closing", "connecting", "handshake", "registering"}

\* No socket is left open behind the connection's back: what _open_impl replaces
\* it has closed, whichever tasks open, fail or are cancelled.
SocketHeld == open \subseteq {sock}

\* _connecting_lock is held exactly by the task that is opening the connection,
\* and is free again when that task has failed or was cancelled.
LockHeld == \A t \in Tasks : Opening(t) <=> lock = t

\* An open link has a listen task, or the handshake that will make one is going
\* on: messages from the server are read.
LinkHeard == Linked /\ ~closed => listener[sock] # "none" \/ \E t \in Tasks : pc[t] = "handshake"

\* The loss of the link is about to be noticed by its listen task, or a task is
\* working on it: no loss is forgotten.
LossNoticed == ~closed /\ ~Linked => \/ \E s \in Sockets : listener[s] # "none"
                                     \/ \E t \in Tasks : pc[t] \notin {"idle", "waiting", "orphaned"}

\* While emit_message would wait for _reconnected_event, there is a reconnect
\* task, which will set it.
EventHasTask == event => Working

\* When the reconnect tasks are done and the link is open, the services are
\* registered: a failed registration is tried again, as reconnect_with_retry says of
\* itself.  The code does not keep this: the backoff after a failed registration ends
\* the loop when it finds the link open (BackoffEnds).
RegistrationRetried == Linked /\ ~closed /\ ~Working /\ lock = NoTask => reg_ok

\* After disconnect() the client is not back online.
DisconnectFinal == user = "done" /\ Linked => listener[sock] # "recv"

\* Once the network is healthy the client stops opening connections: the reconnect
\* tasks do not go on superseding each other's connections.
StormEnds == <>healthy => <>[](lock = NoTask)

\* Once the network is healthy the link comes back and stays, unless the server
\* refused it or the retries were used up.
LinkSettles == <>healthy => <>[](closed \/ (Linked /\ listener[sock] = "recv"))

=============================================================================
