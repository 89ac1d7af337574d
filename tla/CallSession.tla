---------------------------- MODULE CallSession ----------------------------
(***************************************************************************)
(* The caller's side of a remote call in hypha_rpc/rpc.py: the future that *)
(* RemoteFunction.__call__ returns, the session it opens in _object_store, *)
(* the entry of that session in _target_id_index, its Timer, the task that *)
(* emits the message, and every path that ends a call: the peer's answer,  *)
(* the timeout, a failed emission, peer_not_found, client_disconnected, a  *)
(* connection lost for good, the session GC and close().                   *)
(*                                                                         *)
(* The sessions here are top-level ones; NestedReply models the nested     *)
(* ones.  Peers, server and network are external: they are modelled by     *)
(* what the callers of rpc.py can observe of them.                         *)
(***************************************************************************)
EXTENDS Integers, FiniteSets

CONSTANTS Calls,        \* one value per invocation, also its session id
          Peers,        \* client ids a call can target ("_rtarget")
          NoPeer        \* the target of a call that has not been made

ASSUME PeersAssumption == NoPeer \notin Peers

VARIABLES kind,         \* kind[c]: what sort of call c is, "none" before it is made
          target,       \* target[c]: session["target_id"]
          fut,          \* fut[c]: the future returned to the user
          store,        \* the sessions in _object_store
          index,        \* _target_id_index, a missing key is {}
          timer,        \* timer[c]: "off", "armed", or "due" when its sleep has elapsed
          emit_task,    \* emit_task[c]: progress of the task that emits the message
          stale,        \* sessions without activity for longer than _session_ttl
          closed,       \* close() has run: _emit_message is None
          reached,      \* calls whose request their peer has received
          bounced,      \* calls whose peer_not_found is on its way
          answers       \* every answer a peer has sent

rpcVars == <<kind, target, fut, store, index, timer, emit_task, stale, closed>>
envVars == <<reached, bounced, answers>>
vars == <<kind, target, fut, store, index, timer, emit_task, stale, closed,
          reached, bounced, answers>>

-----------------------------------------------------------------------------
(* Types *)

\* "promise": _rpromise is True or "*".  "oneway": no promise, only data in
\* the session.  "stream": no promise, and the session holds callables (the
\* next and close methods of a generator, or callbacks) the peer may call.
Kinds == {"promise", "oneway", "stream"}
Outcomes == {"resolved", "rejected", "cancelled"}

Answer == [type : {"resolve", "reject"}, call : Calls]

Reply(r, c) == [type |-> r, call |-> c]

TypeOK == /\ kind \in [Calls -> Kinds \cup {"none"}]
          /\ target \in [Calls -> Peers \cup {NoPeer}]
          /\ fut \in [Calls -> Outcomes \cup {"none", "pending"}]
          /\ store \subseteq Calls
          /\ index \in [Peers -> SUBSET Calls]
          /\ timer \in [Calls -> {"off", "armed", "due"}]
          /\ emit_task \in [Calls -> {"none", "sending", "sent", "done", "cancelled"}]
          /\ stale \subseteq store
          /\ closed \in BOOLEAN
          /\ reached \subseteq Calls
          /\ bounced \subseteq Calls
          /\ answers \subseteq Answer

Init == /\ kind = [c \in Calls |-> "none"]
        /\ target = [c \in Calls |-> NoPeer]
        /\ fut = [c \in Calls |-> "none"]
        /\ store = {}
        /\ index = [p \in Peers |-> {}]
        /\ timer = [c \in Calls |-> "off"]
        /\ emit_task = [c \in Calls |-> "none"]
        /\ stale = {}
        /\ closed = FALSE
        /\ reached = {}
        /\ bounced = {}
        /\ answers = {}

-----------------------------------------------------------------------------
(* Helpers *)

HasPromise(c) == kind[c] = "promise"

\* A plausible error: fut.done() is not looked at.
SettledAgain(f, S, outcome) ==
  [c \in Calls |-> IF c \in S /\ f[c] # "none" THEN outcome ELSE f[c]]

\* resolve and reject of __call__: both return early if fut.done().
Settled(f, S, outcome) ==
  [c \in Calls |-> IF c \in S /\ f[c] = "pending" THEN outcome ELSE f[c]]

\* Timer.clear, wherever the timer is started.
Cleared(tm, S) == [c \in Calls |-> IF c \in S THEN "off" ELSE tm[c]]

\* A plausible error: a timer that has been cleared is not started.
StartedIfRunning(tm, c) == IF tm[c] = "off" THEN tm ELSE [tm EXCEPT ![c] = "armed"]

\* Timer.start and Timer.reset: cancel the task, if any, and begin to sleep again.
Started(tm, c) == [tm EXCEPT ![c] = "armed"]

\* Delete the sessions S from _object_store.
Forget(S) == /\ store' = store \ S
             /\ stale' = stale \ S

\* A plausible error: the sessions have been deleted already.
UnindexedTooLate(ix, S) ==
  [p \in Peers |-> ix[p] \ {c \in S \cap (store \ S) : target[c] = p}]

\* _remove_from_target_id_index of each session of S that is in the store.
\* It looks the target up in the store, so it must precede the deletion.
Unindexed(ix, S) ==
  [p \in Peers |-> ix[p] \ {c \in S \cap store : target[c] = p}]

\* A plausible error: the timer is stopped, but the future not rejected.
StopEntries(S) == timer' = Cleared(timer, S) /\ UNCHANGED fut

\* _cleanup_session_entry with a reason: the session's own reject, which is
\* the wrapped_callback of _encode_callback, settles the future, clears the
\* timer and deletes the session.  A session without a promise has no reject.
RejectEntries(S) ==
  LET R == {c \in S : HasPromise(c)}
  IN /\ fut' = Settled(fut, R, "rejected")
     /\ timer' = Cleared(timer, S)

\* A plausible error: sessions without a promise are passed over.
PromisesOf(p) == {c \in index[p] \cap store : target[c] = p /\ HasPromise(c)}

\* _cleanup_sessions_for_client: the sessions listed for p, if still there.
SessionsOf(p) == {c \in index[p] \cap store : target[c] = p}

CleanupSessionsForClient(p) ==
  /\ RejectEntries(SessionsOf(p))
  /\ Forget(SessionsOf(p))
  /\ index' = [index EXCEPT ![p] = {}]

-----------------------------------------------------------------------------
(* RemoteFunction.__call__ and the task that emits the message *)

\* A call while the RPC is open: session, index entry, encoded promise, and a
\* task for the emission.  The timer exists but only starts once emitted.
Invoke(c, k, p) ==
  /\ ~closed
  /\ kind[c] = "none"
  /\ kind' = [kind EXCEPT ![c] = k]
  /\ target' = [target EXCEPT ![c] = p]
  /\ fut' = [fut EXCEPT ![c] = "pending"]
  /\ store' = store \cup {c}
  /\ index' = [index EXCEPT ![p] = @ \cup {c}]
  /\ emit_task' = [emit_task EXCEPT ![c] = "sending"]
  /\ UNCHANGED <<timer, stale, closed, envVars>>

\* A call after close(): _emit_message is None, so the message is dropped, the
\* future settled and the session it had just opened removed again.
InvokeClosed(c, k, p) ==
  /\ closed
  /\ kind[c] = "none"
  /\ kind' = [kind EXCEPT ![c] = k]
  /\ target' = [target EXCEPT ![c] = p]
  /\ fut' = [fut EXCEPT ![c] = IF k = "promise" THEN "rejected" ELSE "resolved"]
  /\ UNCHANGED <<store, index, timer, emit_task, stale, closed, envVars>>

\* The connection hands the message to the server, which passes it to the peer,
\* reports that the peer is not connected, or fails to do either.  The emit
\* task's callback runs later: answers may come first (a chunked message waits
\* for the reply to message_cache.process, sent after the method has run).
Transmit(c) ==
  /\ emit_task[c] = "sending"
  /\ emit_task' = [emit_task EXCEPT ![c] = "sent"]
  /\ \/ reached' = reached \cup {c} /\ UNCHANGED bounced
     \/ bounced' = bounced \cup {c} /\ UNCHANGED reached
     \/ UNCHANGED <<reached, bounced>>
  /\ UNCHANGED <<kind, target, fut, store, index, timer, stale, closed, answers>>

\* handle_result, no exception.  The timer starts whatever became of the call
\* meanwhile.  A call without promise resolves now, and its session goes
\* unless it holds live entries.
EmitSucceeded(c) ==
  /\ emit_task[c] = "sent"
  /\ emit_task' = [emit_task EXCEPT ![c] = "done"]
  /\ IF HasPromise(c)
       THEN timer' = Started(timer, c) /\ UNCHANGED fut
       ELSE fut' = Settled(fut, {c}, "resolved") /\ UNCHANGED timer
  /\ IF kind[c] = "oneway"
       THEN Forget({c}) /\ index' = Unindexed(index, {c})
       ELSE UNCHANGED <<store, stale, index>>
  /\ UNCHANGED <<kind, target, closed, envVars>>

\* handle_result with an exception: the raw reject, not the session's wrapped
\* one, so the session stays; a timer a heartbeat has started is cleared.
EmitFailed(c) ==
  /\ emit_task[c] \in {"sending", "sent"}
  /\ emit_task' = [emit_task EXCEPT ![c] = "done"]
  /\ fut' = Settled(fut, {c}, "rejected")
  /\ timer' = Cleared(timer, {c})
  /\ UNCHANGED <<kind, target, store, index, stale, closed, envVars>>

\* The user gives up the future: asyncio.wait_for around a call cancels it
\* when its own timeout is over (ping, on_connected).  Session and timer stay.
UserCancels(c) ==
  /\ fut[c] = "pending"
  /\ fut' = [fut EXCEPT ![c] = "cancelled"]
  /\ UNCHANGED <<kind, target, store, index, timer, emit_task, stale, closed, envVars>>

-----------------------------------------------------------------------------
(* Timer *)

\* The sleep of Timer._job ends without a reset.
TimerElapses(c) ==
  /\ timer[c] = "armed"
  /\ timer' = [timer EXCEPT ![c] = "due"]
  /\ UNCHANGED <<kind, target, fut, store, index, emit_task, stale, closed, envVars>>

\* timeout_callback: reject, then remove the session if it is still there.
\* Whatever it finds, the timer's task is over.
Timeout(c) ==
  /\ timer[c] = "due"
  /\ fut' = Settled(fut, {c}, "rejected")
  /\ timer' = Cleared(timer, {c})
  /\ index' = Unindexed(index, {c})
  /\ Forget({c})
  /\ UNCHANGED <<kind, target, emit_task, closed, envVars>>

-----------------------------------------------------------------------------
(* Calls the peer makes on the session: _handle_method with a session method *)

\* session.resolve and session.reject, the wrapped_callbacks of the promise.
\* An answer may be lost, late, or come twice (the HTTP client posts again when
\* it sees no reply).  If the session is gone it is ignored.
ReceiveAnswer(c) ==
  /\ ~closed
  /\ c \in store
  /\ \E a \in answers :
       /\ a.call = c
       /\ fut' = Settled(fut, {c}, IF a.type = "resolve" THEN "resolved" ELSE "rejected")
  /\ timer' = Cleared(timer, {c})
  /\ index' = Unindexed(index, {c})
  /\ Forget({c})
  /\ UNCHANGED <<kind, target, emit_task, closed, envVars>>

\* session.heartbeat is timer.reset: it also starts a timer that is not running.
\* The peer sends heartbeats while the method runs; they may come late.
ReceiveHeartbeat(c) ==
  /\ ~closed
  /\ c \in reached \cap store
  /\ HasPromise(c)
  /\ timer' = Started(timer, c)
  /\ stale' = stale \ {c}
  /\ UNCHANGED <<kind, target, fut, store, index, emit_task, closed, envVars>>

\* A call of a callable that lives in a stream session marks it as active.
ReceiveCallback(c) ==
  /\ ~closed
  /\ c \in reached \cap store
  /\ kind[c] = "stream"
  /\ stale' = stale \ {c}
  /\ UNCHANGED <<kind, target, fut, store, index, timer, emit_task, closed, envVars>>

-----------------------------------------------------------------------------
(* Events of the connection and of the server.  A peer may leave at any    *)
(* time and come back under the same id before its event is delivered, so  *)
(* client_disconnected may come at any time, and so may a new manager.     *)

\* _handle_peer_not_found for the request of c: the session it names, when the
\* request carried one, then every session of that peer.
ReceivePeerNotFound(c) ==
  /\ ~closed
  /\ c \in bounced
  /\ bounced' = bounced \ {c}
  /\ LET p == target[c]
         S == SessionsOf(p) \cup ({c} \cap {d \in store : HasPromise(d)})
     IN /\ RejectEntries(S)
        /\ Forget(S)
        /\ index' = [Unindexed(index, S) EXCEPT ![p] = {}]
  /\ UNCHANGED <<kind, target, emit_task, closed, reached, answers>>

\* _handle_client_disconnected, on the server's client_disconnected event.
ReceiveClientDisconnected(p) ==
  /\ ~closed
  /\ CleanupSessionsForClient(p)
  /\ UNCHANGED <<kind, target, emit_task, closed, envVars>>

\* on_connected after a reconnection that brought a new manager id: the calls
\* to the old manager p are rejected as those of a disconnected client are.
ManagerReplaced(p) ==
  /\ ~closed
  /\ CleanupSessionsForClient(p)
  /\ UNCHANGED <<kind, target, emit_task, closed, envVars>>

\* on_connection_lost when the connection will not come back: the calls with a
\* reject are rejected, which also removes their sessions.  (While it
\* reconnects, on_connection_lost leaves everything to the timers.)
ConnectionLost ==
  /\ ~closed
  /\ LET R == {c \in store : HasPromise(c)}
     IN /\ RejectEntries(store)
        /\ Forget(R)
        /\ index' = Unindexed(index, R)
  /\ UNCHANGED <<kind, target, emit_task, closed, envVars>>

\* One pass of _session_gc_loop.
Swept == {c \in stale : timer[c] = "off" /\ ~HasPromise(c)}

SessionGC ==
  /\ ~closed
  /\ Swept # {}
  /\ Forget(Swept)
  /\ index' = Unindexed(index, Swept)
  /\ UNCHANGED <<kind, target, fut, timer, emit_task, closed, envVars>>

\* _session_ttl passes without activity on the session of c.
SessionAges(c) ==
  /\ ~closed
  /\ c \in store \ stale
  /\ stale' = stale \cup {c}
  /\ UNCHANGED <<kind, target, fut, store, index, timer, emit_task, closed, envVars>>

\* close(): the emit tasks that are not done are cancelled (handle_result then
\* raises CancelledError and settles nothing), _cleanup_on_disconnect rejects
\* what has a reject and empties the store and the index.  An emit task that
\* is done, but whose callback has not run yet, is not cancelled.
Close ==
  /\ ~closed
  /\ closed' = TRUE
  /\ \E done \in SUBSET {c \in Calls : emit_task[c] = "sent"} :
       emit_task' = [c \in Calls |->
                       IF emit_task[c] \in {"sending", "sent"} /\ c \notin done
                         THEN "cancelled" ELSE emit_task[c]]
  /\ RejectEntries(store)
  /\ Forget(store)
  /\ index' = [p \in Peers |-> {}]
  /\ UNCHANGED <<kind, target, envVars>>

-----------------------------------------------------------------------------
(* The peers, as far as the caller sees them *)

\* The method returns or raises at the peer; run twice, it may do both.
PeerAnswers(c) ==
  /\ c \in reached
  /\ HasPromise(c)
  /\ \E r \in {"resolve", "reject"} : answers' = answers \cup {Reply(r, c)}
  /\ UNCHANGED <<rpcVars, reached, bounced>>

-----------------------------------------------------------------------------
EmitTaskEnds(c) == EmitSucceeded(c) \/ EmitFailed(c)

UserStep == \/ \E c \in Calls, k \in Kinds, p \in Peers : Invoke(c, k, p) \/ InvokeClosed(c, k, p)
            \/ \E c \in Calls : UserCancels(c)
            \/ Close

CallStep(c) == \/ Transmit(c) \/ EmitSucceeded(c) \/ EmitFailed(c)
               \/ TimerElapses(c) \/ Timeout(c) \/ SessionAges(c)
               \/ ReceiveAnswer(c) \/ ReceiveHeartbeat(c) \/ ReceiveCallback(c)
               \/ ReceivePeerNotFound(c)

EventStep == \/ \E p \in Peers : ReceiveClientDisconnected(p) \/ ManagerReplaced(p)
             \/ ConnectionLost
             \/ SessionGC

Next == UserStep \/ (\E c \in Calls : CallStep(c) \/ PeerAnswers(c)) \/ EventStep

Spec == Init /\ [][Next]_vars

\* The event loop runs the callback of every emit task (the connection sends
\* or raises) and every timer task.  Nothing is promised of peers or network.
Fairness == \A c \in Calls : /\ WF_vars(Transmit(c) \/ EmitTaskEnds(c))
                             /\ WF_vars(TimerElapses(c))
                             /\ WF_vars(Timeout(c))

FairSpec == Spec /\ Fairness

-----------------------------------------------------------------------------
(* Safety *)

\* The index lists exactly the sessions of the store, under their target:
\* no stale entry, and no session a disconnection of its peer would miss
\* (_remove_from_target_id_index and every path that deletes a session).
IndexMatchesStore == \A p \in Peers : index[p] = {c \in store : target[c] = p}

\* A pending call made with a promise can always end without its peer: its
\* session, through which events reject it, is there, and either its emit
\* task still has to report or its timer is running.
PendingCanSettle ==
  \A c \in Calls : HasPromise(c) /\ fut[c] = "pending" =>
     /\ c \in store
     /\ emit_task[c] \in {"sending", "sent"} \/ timer[c] # "off"

\* After close() nothing that was in flight brings a session back, and no
\* call with a promise is left waiting.
ClosedHoldsNothing ==
  closed => /\ store = {}
            /\ \A p \in Peers : index[p] = {}
            /\ \A c \in Calls : ~(HasPromise(c) /\ fut[c] = "pending")

\* Once the disconnection of a peer is handled, no session for it is left and
\* no call to it is pending, whatever had been done to the index before.
DisconnectEndsCalls ==
  [][\A p \in Peers :
       ReceiveClientDisconnected(p) =>
         \A c \in Calls : target[c] = p =>
            c \notin store' /\ ~(HasPromise(c) /\ fut'[c] = "pending")]_vars

\* The caller's side implements the contract of a call.
Contract == INSTANCE CallContract WITH promised <- {c \in Calls : HasPromise(c)},
                                     answered <- {c \in Calls : Reply("resolve", c) \in answers}
ImplementsContract == Contract!Spec

-----------------------------------------------------------------------------
(* Liveness *)

\* A call with a promise settles, unless its peer heartbeats forever, which
\* is how a method may run for as long as it likes.
PromiseSettles ==
  \A c \in Calls :
    \/ []<><<ReceiveHeartbeat(c)>>_vars
    \/ (HasPromise(c) /\ fut[c] = "pending") ~> (fut[c] # "pending")

-----------------------------------------------------------------------------
(* What comments in the source say, and the code does not do *)

\* __call__ settles the future of a message it cannot send: no call hangs.
OnewaySettles ==
  \A c \in Calls : (fut[c] = "pending" /\ ~HasPromise(c)) ~> (fut[c] # "pending")

\* _session_gc_loop spares "sessions with unsettled promises": what it leaves
\* behind of the idle sessions is in use.
SweepSparesOnlyUnsettled ==
  \A c \in stale \ Swept :
     fut[c] = "pending" \/ timer[c] # "off" \/ emit_task[c] \in {"sending", "sent"}

=============================================================================
