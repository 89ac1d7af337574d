---------------------- MODULE WebSocketConnection_proofs ----------------------
(***************************************************************************)
(* Proofs about WebSocketConnection, for any number of sockets, reconnect   *)
(* tasks, emitters and retries: its type invariant, that no socket is left  *)
(* open behind the connection's back, that the lock is never lost; and, as  *)
(* long as nobody interferes whom the theorems name, that an open link is   *)
(* heard and registered, its loss noticed and the event set.                *)
(***************************************************************************)
EXTENDS WebSocketConnection, TLAPS

\* A task at the head of open() has closed the previous websocket, so that the new
\* one replaces no open one.
NothingOpen == \A t \in Tasks : pc[t] \in {"closing", "connecting"} => open = {}

\* The inductive invariant.
IInv == TypeOK /\ LockHeld /\ SocketHeld /\ NothingOpen

OpeningPlaces == {"closing", "connecting", "handshake", "registering"}

-----------------------------------------------------------------------------
(* Lemmas about the helpers *)

\* Waking or orphaning the emitters that wait moves nobody else (the waiters of
\* _reconnected_event).
LEMMA WaitersFacts ==
  ASSUME NEW p \in [Tasks -> Places], NEW w \in {"woken", "orphaned"}
  PROVE  /\ Waiters(p, w) \in [Tasks -> Places]
         /\ \A t \in Tasks : Waiters(p, w)[t] = p[t] \/ (p[t] = "waiting" /\ Waiters(p, w)[t] = w)
BY DEF Waiters, Places

\* Cancelling tasks makes them idle and moves at most emitters besides.
LEMMA CancelledFacts ==
  ASSUME TypeOK, NEW S \in SUBSET Reconnects, NEW p \in [Tasks -> Places], Cancelled(S, p)
  PROVE  /\ pc' \in [Tasks -> Places]
         /\ event' \in BOOLEAN
         /\ \A t \in S : pc'[t] = "idle"
         /\ \A t \in Tasks \ S : pc'[t] = p[t] \/ (p[t] = "waiting" /\ pc'[t] = "woken")
<1> DEFINE q == [t \in Tasks |-> IF t \in S THEN "idle" ELSE p[t]]
<1>1. q \in [Tasks -> Places]
  BY DEF Places
<1>2. "idle" # "waiting"
  OBVIOUS
<1>3. (event' = FALSE /\ pc' = Waiters(q, "woken")) \/ (pc' = q /\ event' = event)
  BY DEF Cancelled, Notified
<1>4. CASE event' = FALSE /\ pc' = Waiters(q, "woken")
  <2>1. pc' \in [Tasks -> Places]
    BY <1>1, <1>4, WaitersFacts
  <2>2. \A t \in Tasks : pc'[t] = q[t] \/ (q[t] = "waiting" /\ pc'[t] = "woken")
    BY <1>1, <1>4, WaitersFacts
  <2>3. \A t \in S : t \in Tasks /\ q[t] = "idle"
    BY DEF Tasks
  <2> QED
    BY <1>2, <1>4, <2>1, <2>2, <2>3
<1>5. CASE pc' = q /\ event' = event
  BY <1>1, <1>5 DEF TypeOK, Tasks
<1> QED
  BY <1>3, <1>4, <1>5

\* What Bookkeeping leaves is well typed when the counters of live tasks are.
LEMMA BookkeepingType ==
  ASSUME NEW S \in SUBSET Reconnects, NEW k, Bookkeeping(S, k), RetryAssumption,
         \A r \in Reconnects : pc'[r] = "idle" \/ k[r] \in 0..(MaxRetry - 1)
  PROVE  tracked' \in SUBSET Reconnects /\ retry' \in [Reconnects -> 0..(MaxRetry - 1)]
<1>1. tracked' \in SUBSET Reconnects
  BY DEF Bookkeeping
<1>2. 0 \in 0..(MaxRetry - 1)
  BY DEF RetryAssumption
<1>3. retry' = [r \in Reconnects |-> IF pc'[r] = "idle" THEN 0 ELSE k[r]]
  BY DEF Bookkeeping
<1> QED
  BY <1>1, <1>2, <1>3

-----------------------------------------------------------------------------
(* Type correctness *)

\* The loop head of reconnect_with_retry and the start of a reconnect task.
LEMMA NextAttemptType ==
  ASSUME TypeOK, RetryAssumption, NEW r \in Reconnects, NEW k \in Nat, NextAttempt(r, k)
  PROVE  /\ pc' \in [Tasks -> Places] /\ closed' \in BOOLEAN /\ event' \in BOOLEAN
         /\ tracked' \in SUBSET Reconnects /\ retry' \in [Reconnects -> 0..(MaxRetry - 1)]
<1> DEFINE q == [pc EXCEPT ![r] = "idle"]
<1>1. r \in Tasks /\ q \in [Tasks -> Places]
  BY DEF Tasks, TypeOK, Places
<1>2. /\ pc' \in [Tasks -> Places] /\ closed' \in BOOLEAN /\ event' \in BOOLEAN
      /\ pc'[r] = "idle" \/ k < MaxRetry
  <2>1. CASE k < MaxRetry \/ closed
    BY <1>1, <2>1 DEF NextAttempt, TypeOK, Places
  <2>2. CASE ~(k < MaxRetry \/ closed)
    <3>1. closed' = TRUE /\ event' = FALSE /\ pc' = Waiters(q, "woken")
      BY <2>2 DEF NextAttempt, Notified
    <3>2. pc' \in [Tasks -> Places] /\ (pc'[r] = q[r] \/ q[r] = "waiting")
      BY <1>1, <3>1, WaitersFacts
    <3>3. q[r] = "idle"
      BY <1>1 DEF TypeOK
    <3> QED
      BY <3>1, <3>2, <3>3
  <2> QED
    BY <2>1, <2>2
<1>3. \A x \in Reconnects : pc'[x] = "idle" \/ [retry EXCEPT ![r] = k][x] \in 0..(MaxRetry - 1)
  BY <1>2 DEF TypeOK, RetryAssumption
<1>4. Bookkeeping(tracked, [retry EXCEPT ![r] = k])
  BY DEF NextAttempt
<1>5. tracked \in SUBSET Reconnects
  BY DEF TypeOK
<1> QED
  BY <1>2, <1>3, <1>4, <1>5, BookkeepingType

\* The end of a listen task, with or without a new reconnect task.
LEMMA ListenEndsType ==
  ASSUME TypeOK, RetryAssumption, NEW c, ListenEnds(c)
  PROVE  /\ pc' \in [Tasks -> Places] /\ event' \in BOOLEAN
         /\ tracked' \in SUBSET Reconnects /\ retry' \in [Reconnects -> 0..(MaxRetry - 1)]
<1>1. CASE UNCHANGED <<event, pc, tracked, retry>>
  BY <1>1 DEF TypeOK
<1>2. CASE StartReconnect
  <2>1. PICK r \in Reconnects : /\ event' = TRUE
                                /\ pc' = [Waiters(pc, "orphaned") EXCEPT ![r] = "start"]
                                /\ Bookkeeping(tracked \cup {r}, retry)
    BY <1>2 DEF StartReconnect
  <2>2. pc \in [Tasks -> Places] /\ retry \in [Reconnects -> 0..(MaxRetry - 1)] /\ tracked \in SUBSET Reconnects
    BY DEF TypeOK
  <2>3. Waiters(pc, "orphaned") \in [Tasks -> Places]
    BY <2>2, WaitersFacts
  <2>4. pc' \in [Tasks -> Places]
    BY <2>1, <2>3 DEF Places
  <2>5. tracked' \in SUBSET Reconnects /\ retry' \in [Reconnects -> 0..(MaxRetry - 1)]
    BY <2>1, <2>2, BookkeepingType
  <2> QED
    BY <2>1, <2>4, <2>5
<1> QED
  BY <1>1, <1>2 DEF ListenEnds

\* Ending an attempt, or cancelling the tasks that sleep, keeps outlasts well typed.
LEMMA AttemptOverType ==
  ASSUME TypeOK, NEW t \in Tasks
  PROVE  AttemptOver(t) \in [Reconnects -> Nat]
<1>1. \A x \in Reconnects : outlasts[x] \in Nat
  BY DEF TypeOK
<1>2. \A x \in Reconnects : outlasts[x] > 0 => outlasts[x] - 1 \in Nat
  BY <1>1
<1> QED
  BY <1>2 DEF AttemptOver

LEMMA AwakeType == Awake \in [Reconnects -> Nat]
BY DEF Awake

\* A failed open() with the _cleanup it runs.
LEMMA OpenFailsType ==
  ASSUME TypeOK, RetryAssumption, NEW t \in Tasks, NEW p \in {"idle", "backoff"}, OpenFails(t, p)
  PROVE  /\ pc' \in [Tasks -> Places] /\ event' \in BOOLEAN /\ lock' = NoTask
         /\ outlasts' \in [Reconnects -> Nat]
         /\ tracked' \in SUBSET Reconnects /\ retry' \in [Reconnects -> 0..(MaxRetry - 1)]
<1>1. Cancellable(t) \in SUBSET Reconnects /\ [pc EXCEPT ![t] = p] \in [Tasks -> Places]
  BY DEF Cancellable, TypeOK, Places
<1>2. pc' \in [Tasks -> Places] /\ event' \in BOOLEAN
  BY <1>1, CancelledFacts DEF OpenFails
<1>3. retry \in [Reconnects -> 0..(MaxRetry - 1)] /\ Bookkeeping({}, retry) /\ lock' = NoTask
  BY DEF TypeOK, OpenFails
<1>4. tracked' \in SUBSET Reconnects /\ retry' \in [Reconnects -> 0..(MaxRetry - 1)]
  BY <1>3, BookkeepingType
<1>5. outlasts' \in [Reconnects -> Nat]
  BY AwakeType DEF OpenFails
<1> QED
  BY <1>2, <1>3, <1>4, <1>5

\* Every step preserves the types.
LEMMA TypeStep == TypeOK /\ [Next]_vars => TypeOK'
<1> SUFFICES ASSUME TypeOK, [Next]_vars PROVE TypeOK'
  OBVIOUS
<1> USE RetryAssumption
<1>t. \A r \in Reconnects : r \in Tasks
  BY DEF Tasks
<1>e. \A e \in Emitters : e \in Tasks
  BY DEF Tasks
<1>b. ASSUME NEW S \in SUBSET Reconnects, Bookkeeping(S, retry)
      PROVE  tracked' \in SUBSET Reconnects /\ retry' \in [Reconnects -> 0..(MaxRetry - 1)]
  <2>1. \A r \in Reconnects : retry[r] \in 0..(MaxRetry - 1)
    BY DEF TypeOK
  <2> QED
    BY <1>b, <2>1, BookkeepingType
<1>n. ASSUME NEW p \in [Tasks -> Places], Notified(p)
      PROVE  pc' \in [Tasks -> Places] /\ event' \in BOOLEAN
  BY <1>n, WaitersFacts DEF Notified
<1>1. ASSUME NEW s \in Sockets, ListenBegins(s) PROVE TypeOK'
  <2>1. CASE Linked
    BY <1>1, <2>1 DEF ListenBegins, TypeOK, flapVars, envVars
  <2>2. CASE ~Linked
    <3>1. ListenEnds(FALSE)
      BY <1>1, <2>2 DEF ListenBegins
    <3> QED
      BY <1>1, <2>2, <3>1, ListenEndsType DEF ListenBegins, TypeOK, flapVars, envVars
  <2> QED
    BY <2>1, <2>2
<1>2. ASSUME NEW s \in Sockets, ListenLoses(s) PROVE TypeOK'
  <2>1. ListenEnds(closed)
    BY <1>2 DEF ListenLoses
  <2> QED
    BY <1>2, <2>1, ListenEndsType DEF ListenLoses, TypeOK, flapVars, envVars
<1>3. ASSUME NEW t \in Tasks, OpenBegins(t) PROVE TypeOK'
  BY <1>3 DEF OpenBegins, TypeOK, Places, flapVars, envVars
<1>4. ASSUME NEW t \in Tasks, OpenCloses(t) PROVE TypeOK'
  BY <1>4 DEF OpenCloses, TypeOK, Places, flapVars, envVars
<1>5. ASSUME NEW t \in Tasks, OpenConnects(t) PROVE TypeOK'
  BY <1>5 DEF OpenConnects, TypeOK, Places, flapVars, envVars
<1>6. ASSUME NEW t \in Tasks, OpenAnswered(t) PROVE TypeOK'
  BY <1>6 DEF OpenAnswered, TypeOK, Places, flapVars, envVars
<1>7. ASSUME NEW t \in Tasks, OpenEnds(t) PROVE TypeOK'
  <2>1. outlasts' \in [Reconnects -> Nat]
    BY <1>7, AttemptOverType DEF OpenEnds
  <2> QED
    BY <1>7, <2>1 DEF OpenEnds, TypeOK, Places, linkVars, flapVars, envVars
<1>8. ASSUME NEW t \in Tasks, OpenBreaks(t) PROVE TypeOK'
  BY <1>8, OpenFailsType DEF OpenBreaks, TypeOK, linkVars, flapVars, envVars
<1>9. ASSUME NEW t \in Tasks, OpenRefused(t) PROVE TypeOK'
  <2>1. CASE t \in Emitters
    <3>1. OpenFails(t, "idle") /\ closed' = closed
      BY <1>9, <2>1 DEF OpenRefused
    <3> QED
      BY <1>9, <3>1, OpenFailsType DEF OpenRefused, TypeOK, linkVars, flapVars, envVars
  <2>2. CASE t \notin Emitters
    <3> DEFINE q == [x \in Tasks |-> IF x \in Cancellable(t) \cup {t} THEN "idle" ELSE pc[x]]
    <3>1. /\ closed' = TRUE /\ Notified(q) /\ Bookkeeping({}, retry) /\ lock' = NoTask
          /\ outlasts' \in [Reconnects -> Nat]
      BY <1>9, <2>2, AwakeType DEF OpenRefused
    <3>2. q \in [Tasks -> Places]
      BY DEF TypeOK, Places
    <3>3. pc' \in [Tasks -> Places] /\ event' \in BOOLEAN
      BY <1>n, <3>1, <3>2
    <3>4. tracked' \in SUBSET Reconnects /\ retry' \in [Reconnects -> 0..(MaxRetry - 1)]
      BY <1>b, <3>1
    <3> QED
      BY <1>9, <3>1, <3>3, <3>4 DEF OpenRefused, TypeOK, linkVars, flapVars, envVars
  <2> QED
    BY <2>1, <2>2
<1>10. ASSUME NEW r \in Reconnects, ReconnectBegins(r) PROVE TypeOK'
  <2>1. flaps' \in 0..MaxFlaps
    BY <1>10 DEF ReconnectBegins, TypeOK
  <2> DEFINE Seed(f) == IF f < MaxRetry THEN f - 1 ELSE MaxRetry - 1
  <2>2. CASE flaps' > 1 /\ ~closed
    <3>1. /\ pc' = [pc EXCEPT ![r] = "delay"]
          /\ FallsAsleep(r, flaps' - 1)
          /\ Bookkeeping(tracked, [retry EXCEPT ![r] = Seed(flaps')])
          /\ UNCHANGED <<closed, event>>
      BY <1>10, <2>2 DEF ReconnectBegins
    <3>2. \A x \in Reconnects : [retry EXCEPT ![r] = Seed(flaps')][x] \in 0..(MaxRetry - 1)
      <4>1. \A f \in 0..MaxFlaps : f > 1 => Seed(f) \in 0..(MaxRetry - 1)
        BY DEF RetryAssumption
      <4> QED
        BY <2>1, <2>2, <4>1 DEF TypeOK
    <3>3. tracked' \in SUBSET Reconnects /\ retry' \in [Reconnects -> 0..(MaxRetry - 1)]
      BY <3>1, <3>2, BookkeepingType DEF TypeOK
    <3>4. flaps' - 1 \in Nat
      <4>1. \A f \in 0..MaxFlaps : f > 1 => f - 1 \in Nat
        BY DEF RetryAssumption
      <4> QED
        BY <2>1, <2>2, <4>1
    <3>5. outlasts' \in [Reconnects -> Nat]
      BY <3>1, <3>4 DEF FallsAsleep, TypeOK
    <3> QED
      BY <1>10, <1>t, <2>1, <3>1, <3>3, <3>5 DEF ReconnectBegins, TypeOK, Places, linkVars, envVars
  <2>3. CASE ~(flaps' > 1 /\ ~closed)
    <3>1. NextAttempt(r, 0) /\ UNCHANGED outlasts
      BY <1>10, <2>3 DEF ReconnectBegins
    <3> QED
      BY <1>10, <2>1, <3>1, NextAttemptType DEF ReconnectBegins, TypeOK, linkVars, envVars
  <2> QED
    BY <2>2, <2>3
<1>11. ASSUME NEW r \in Reconnects, DelayEnds(r) PROVE TypeOK'
  <2> DEFINE q == [pc EXCEPT ![r] = "idle"]
  <2>1. q \in [Tasks -> Places] /\ retry[r] \in Nat
    BY <1>t DEF TypeOK, Places
  <2>2. CASE closed /\ pc' = q /\ Bookkeeping(tracked, retry) /\ UNCHANGED <<closed, event>>
    <3>1. tracked' \in SUBSET Reconnects /\ retry' \in [Reconnects -> 0..(MaxRetry - 1)]
      BY <1>b, <2>2 DEF TypeOK
    <3> QED
      BY <1>11, <2>1, <2>2, <3>1 DEF DelayEnds, TypeOK, linkVars, flapVars, envVars
  <2>3. CASE Notified(q) /\ Bookkeeping(tracked, retry) /\ UNCHANGED closed
    <3>1. tracked' \in SUBSET Reconnects /\ retry' \in [Reconnects -> 0..(MaxRetry - 1)]
      BY <1>b, <2>3 DEF TypeOK
    <3>2. pc' \in [Tasks -> Places] /\ event' \in BOOLEAN
      BY <1>n, <2>1, <2>3
    <3> QED
      BY <1>11, <2>3, <3>1, <3>2 DEF DelayEnds, TypeOK, linkVars, flapVars, envVars
  <2>4. CASE NextAttempt(r, retry[r])
    BY <1>11, <2>1, <2>4, NextAttemptType DEF DelayEnds, TypeOK, linkVars, flapVars, envVars
  <2> QED
    BY <1>11, <2>2, <2>3, <2>4 DEF DelayEnds
<1>12. ASSUME NEW r \in Reconnects, Settles(r) PROVE TypeOK'
  <2>1. [pc EXCEPT ![r] = "idle"] \in [Tasks -> Places] /\ [pc EXCEPT ![r] = "backoff"] \in [Tasks -> Places]
    BY <1>t DEF TypeOK, Places
  <2>2. pc' \in [Tasks -> Places] /\ event' \in BOOLEAN
    BY <1>n, <1>12, <2>1 DEF Settles, TypeOK
  <2>3. tracked' \in SUBSET Reconnects /\ retry' \in [Reconnects -> 0..(MaxRetry - 1)]
    BY <1>b, <1>12 DEF Settles, TypeOK
  <2>4. retry[r] + 1 \in Nat
    BY DEF TypeOK
  <2>5. outlasts' \in [Reconnects -> Nat]
    BY <1>12, <2>4 DEF Settles, FallsAsleep, TypeOK
  <2> QED
    BY <1>12, <2>2, <2>3, <2>5 DEF Settles, TypeOK, linkVars, flapVars, envVars
<1>13. ASSUME NEW r \in Reconnects, BackoffEnds(r) PROVE TypeOK'
  <2>1. CASE Linked \/ closed
    <3>1. pc' = [pc EXCEPT ![r] = "idle"] /\ Bookkeeping(tracked, retry) /\ UNCHANGED <<closed, event>>
      BY <1>13, <2>1 DEF BackoffEnds
    <3>2. tracked' \in SUBSET Reconnects /\ retry' \in [Reconnects -> 0..(MaxRetry - 1)]
      BY <1>b, <3>1 DEF TypeOK
    <3> QED
      BY <1>13, <1>t, <3>1, <3>2 DEF BackoffEnds, TypeOK, Places, linkVars, flapVars, envVars
  <2>2. CASE ~(Linked \/ closed)
    <3>1. NextAttempt(r, retry[r] + 1) /\ retry[r] + 1 \in Nat
      BY <1>13, <2>2 DEF BackoffEnds, TypeOK
    <3> QED
      BY <1>13, <3>1, NextAttemptType DEF BackoffEnds, TypeOK, linkVars, flapVars, envVars
  <2> QED
    BY <2>1, <2>2
<1>14. ASSUME NEW e \in Emitters, EmitStep(e) PROVE TypeOK'
  BY <1>14, <1>e DEF EmitStep, Emit, EmitWakes, EmitTimesOut, TypeOK, Places, linkVars, flapVars, envVars
<1>15. ASSUME DisconnectBegins PROVE TypeOK'
  BY <1>15 DEF DisconnectBegins, TypeOK, flapVars
<1>16. ASSUME DisconnectEnds PROVE TypeOK'
  <2> DEFINE S == Cancellable(NoTask)
  <2>1. S \in SUBSET Reconnects /\ pc \in [Tasks -> Places]
    BY DEF Cancellable, TypeOK
  <2>2. pc' \in [Tasks -> Places] /\ event' \in BOOLEAN
    BY <1>16, <2>1, CancelledFacts DEF DisconnectEnds
  <2>3. tracked' \in SUBSET Reconnects /\ retry' \in [Reconnects -> 0..(MaxRetry - 1)]
    BY <1>b, <1>16 DEF DisconnectEnds
  <2>4. outlasts' \in [Reconnects -> Nat]
    BY <1>16, AwakeType DEF DisconnectEnds
  <2> QED
    BY <1>16, <2>2, <2>3, <2>4 DEF DisconnectEnds, TypeOK
<1>17. ASSUME SocketDrops PROVE TypeOK'
  BY <1>17 DEF SocketDrops, TypeOK, flapVars, envVars
<1>18. ASSUME Heals \/ Lasts PROVE TypeOK'
  BY <1>18 DEF Heals, Lasts, TypeOK, linkVars, flapVars, envVars
<1>19. ASSUME UNCHANGED vars PROVE TypeOK'
  BY <1>19 DEF TypeOK, vars
<1> QED
  BY <1>1, <1>2, <1>3, <1>4, <1>5, <1>6, <1>7, <1>8, <1>9, <1>10, <1>11, <1>12, <1>13, <1>14, <1>15,
     <1>16, <1>17, <1>18, <1>19 DEF Next, ListenStep, OpenStep, ReconnectStep

-----------------------------------------------------------------------------
(* The lock *)

\* A step that leaves the lock alone and brings nobody into or out of open().
LEMMA QuietLock ==
  ASSUME LockHeld, lock' = lock, \A t \in Tasks : Opening(t)' <=> Opening(t)
  PROVE  LockHeld'
BY DEF LockHeld

\* Neither the end of a listen task nor the loop head opens the connection.
LEMMA ListenEndsQuiet ==
  ASSUME TypeOK, NEW c, ListenEnds(c)
  PROVE  \A t \in Tasks : Opening(t)' <=> Opening(t)
<1>1. CASE pc' = pc
  BY <1>1 DEF Opening
<1>2. CASE StartReconnect
  <2>1. PICK r \in Reconnects : pc[r] = "idle" /\ pc' = [Waiters(pc, "orphaned") EXCEPT ![r] = "start"]
    BY <1>2 DEF StartReconnect
  <2>2. /\ Waiters(pc, "orphaned") \in [Tasks -> Places]
        /\ \A t \in Tasks : \/ Waiters(pc, "orphaned")[t] = pc[t]
                            \/ pc[t] = "waiting" /\ Waiters(pc, "orphaned")[t] = "orphaned"
    BY WaitersFacts DEF TypeOK
  <2> QED
    BY <2>1, <2>2 DEF Opening
<1> QED
  BY <1>1, <1>2 DEF ListenEnds

LEMMA NextAttemptQuiet ==
  ASSUME TypeOK, NEW r \in Reconnects, NEW k, NextAttempt(r, k), ~Opening(r)
  PROVE  \A t \in Tasks : Opening(t)' <=> Opening(t)
<1> DEFINE q == [pc EXCEPT ![r] = "idle"]
<1>1. r \in Tasks /\ q \in [Tasks -> Places]
  BY DEF Tasks, TypeOK, Places
<1>2. CASE pc' = [pc EXCEPT ![r] = IF closed THEN "idle" ELSE "lock"]
  BY <1>1, <1>2 DEF Opening, TypeOK
<1>3. CASE Notified(q)
  <2>1. \A t \in Tasks : pc'[t] = q[t] \/ (q[t] = "waiting" /\ pc'[t] = "woken")
    BY <1>1, <1>3, WaitersFacts DEF Notified
  <2> QED
    BY <1>1, <2>1 DEF Opening, TypeOK
<1> QED
  BY <1>2, <1>3 DEF NextAttempt

\* A failed open() leaves nobody in open().
LEMMA OpenFailsLock ==
  ASSUME TypeOK, LockHeld, IdsAssumption, NEW t \in Tasks, Opening(t),
         NEW p \in {"idle", "backoff"}, OpenFails(t, p)
  PROVE  LockHeld'
<1> DEFINE S == Cancellable(t)
           q == [pc EXCEPT ![t] = p]
<1>1. S \in SUBSET Reconnects /\ q \in [Tasks -> Places]
  BY DEF Cancellable, TypeOK, Places
<1>c. Cancelled(S, q)
  BY DEF OpenFails
<1>2. /\ \A x \in S : pc'[x] = "idle"
      /\ \A x \in Tasks \ S : pc'[x] = q[x] \/ (q[x] = "waiting" /\ pc'[x] = "woken")
  <2> HIDE DEF S, q
  <2> QED
    BY <1>1, <1>c, CancelledFacts
<1>l. lock = t
  BY DEF LockHeld
<1>3. ASSUME NEW x \in Tasks, x # t PROVE ~Opening(x)
  BY <1>l, <1>3 DEF LockHeld
<1>4. \A x \in Tasks : q[x] = IF x = t THEN p ELSE pc[x]
  BY DEF TypeOK
<1>5. \A x \in Tasks : ~Opening(x)'
  BY <1>2, <1>3, <1>4 DEF Opening
<1>6. lock' = NoTask /\ NoTask \notin Tasks
  BY DEF OpenFails, IdsAssumption, Tasks
<1> QED
  BY <1>5, <1>6 DEF LockHeld

\* A step of the task that opens, to a place still in open(), or of one that does
\* not open, to a place outside it.
LEMMA MoveLock ==
  ASSUME TypeOK, LockHeld, NEW t \in Tasks, NEW p \in Places, lock' = lock,
         pc' = [pc EXCEPT ![t] = p], pc[t] \in OpeningPlaces <=> p \in OpeningPlaces
  PROVE  LockHeld'
<1>1. \A x \in Tasks : Opening(x)' <=> Opening(x)
  BY DEF TypeOK, Opening, OpeningPlaces
<1> QED
  BY <1>1, QuietLock

\* Every step keeps the lock with the task that opens the connection.
LEMMA LockStep == TypeOK /\ LockHeld /\ [Next]_vars => LockHeld'
<1> SUFFICES ASSUME TypeOK, LockHeld, [Next]_vars PROVE LockHeld'
  OBVIOUS
<1> USE IdsAssumption
<1>t. \A r \in Reconnects : r \in Tasks
  BY DEF Tasks
<1>e. \A e \in Emitters : e \in Tasks
  BY DEF Tasks
<1>q. ASSUME pc' = pc, lock' = lock PROVE LockHeld'
  BY <1>q, QuietLock DEF Opening
<1>n. ASSUME NEW t \in Tasks, ~Opening(t), Notified([pc EXCEPT ![t] = "idle"]), lock' = lock
      PROVE  LockHeld'
  <2> DEFINE q == [pc EXCEPT ![t] = "idle"]
  <2>1. q \in [Tasks -> Places]
    BY DEF TypeOK, Places
  <2>2. \A x \in Tasks : pc'[x] = q[x] \/ (q[x] = "waiting" /\ pc'[x] = "woken")
    BY <1>n, <2>1, WaitersFacts DEF Notified
  <2>3. \A x \in Tasks : Opening(x)' <=> Opening(x)
    BY <1>n, <2>2 DEF TypeOK, Opening
  <2> QED
    BY <1>n, <2>3, QuietLock
<1>1. ASSUME NEW s \in Sockets, ListenBegins(s) \/ ListenLoses(s) PROVE LockHeld'
  <2>1. lock' = lock
    BY <1>1 DEF ListenBegins, ListenLoses
  <2>2. pc' = pc \/ ListenEnds(FALSE) \/ ListenEnds(closed)
    BY <1>1 DEF ListenBegins, ListenLoses
  <2>3. CASE ListenEnds(FALSE)
    BY <2>1, <2>3, ListenEndsQuiet, QuietLock
  <2>4. CASE ListenEnds(closed)
    BY <2>1, <2>4, ListenEndsQuiet, QuietLock
  <2> QED
    BY <1>q, <2>1, <2>2, <2>3, <2>4
<1>3. ASSUME NEW t \in Tasks, OpenBegins(t) PROVE LockHeld'
  <2>1. NoTask \notin Tasks /\ lock = NoTask /\ lock' = t
    BY <1>3 DEF OpenBegins, Tasks
  <2>2. \A x \in Tasks : ~Opening(x)
    BY <2>1 DEF LockHeld
  <2>3. pc'[t] \in OpeningPlaces /\ \A x \in Tasks : x # t => pc'[x] = pc[x]
    BY <1>3 DEF OpenBegins, TypeOK, OpeningPlaces
  <2> QED
    BY <2>1, <2>2, <2>3 DEF LockHeld, Opening, OpeningPlaces
<1>4. ASSUME NEW t \in Tasks, OpenCloses(t) \/ OpenConnects(t) \/ OpenAnswered(t) PROVE LockHeld'
  <2>1. PICK p \in OpeningPlaces : pc' = [pc EXCEPT ![t] = p]
    BY <1>4 DEF OpenCloses, OpenConnects, OpenAnswered, OpeningPlaces
  <2>2. lock' = lock /\ pc[t] \in OpeningPlaces
    BY <1>4 DEF OpenCloses, OpenConnects, OpenAnswered, OpeningPlaces
  <2>3. p \in Places
    BY DEF OpeningPlaces, Places
  <2> QED
    BY <2>1, <2>2, <2>3, MoveLock
<1>7. ASSUME NEW t \in Tasks, OpenEnds(t) PROVE LockHeld'
  <2>1. pc[t] = "registering" /\ lock' = NoTask /\ NoTask \notin Tasks
    BY <1>7 DEF OpenEnds, Tasks
  <2>2. lock = t
    BY <2>1 DEF LockHeld, Opening
  <2>3. \A x \in Tasks : x # t => ~Opening(x)
    BY <2>2 DEF LockHeld
  <2>4. \A x \in Tasks : ~Opening(x)'
    BY <1>7, <2>3 DEF OpenEnds, TypeOK, Opening
  <2> QED
    BY <2>1, <2>4 DEF LockHeld
<1>8. ASSUME NEW t \in Tasks, OpenBreaks(t) PROVE LockHeld'
  <2>1. Opening(t)
    BY <1>8 DEF OpenBreaks, Opening
  <2>2. PICK p \in {"idle", "backoff"} : OpenFails(t, p)
    BY <1>8 DEF OpenBreaks
  <2> QED
    BY <2>1, <2>2, OpenFailsLock
<1>9. ASSUME NEW t \in Tasks, OpenRefused(t) PROVE LockHeld'
  <2>1. Opening(t)
    BY <1>9 DEF OpenRefused, Opening
  <2>2. CASE t \in Emitters
    <3>1. OpenFails(t, "idle")
      BY <1>9, <2>2 DEF OpenRefused
    <3> QED
      BY <2>1, <3>1, OpenFailsLock
  <2>3. CASE t \notin Emitters
    <3> DEFINE q == [x \in Tasks |-> IF x \in Cancellable(t) \cup {t} THEN "idle" ELSE pc[x]]
    <3>1. Notified(q) /\ lock' = NoTask /\ NoTask \notin Tasks
      BY <1>9, <2>3 DEF OpenRefused, Tasks
    <3>2. q \in [Tasks -> Places]
      BY DEF TypeOK, Places
    <3>3. \A x \in Tasks : pc'[x] = q[x] \/ pc'[x] = "woken"
      BY <3>1, <3>2, WaitersFacts DEF Notified
    <3>4. lock = t
      BY <2>1 DEF LockHeld
    <3>5. \A x \in Tasks : q[x] = "idle" \/ (x # t /\ q[x] = pc[x])
      OBVIOUS
    <3>6. \A x \in Tasks : ~Opening(x)'
      BY <3>3, <3>4, <3>5 DEF Opening, LockHeld
    <3> QED
      BY <3>1, <3>6 DEF LockHeld
  <2> QED
    BY <2>2, <2>3
<1>10. ASSUME NEW r \in Reconnects, ReconnectStep(r) PROVE LockHeld'
  <2>1. lock' = lock /\ ~Opening(r)
    BY <1>10 DEF ReconnectStep, ReconnectBegins, DelayEnds, Settles, BackoffEnds, Opening
  <2>2. ASSUME NEW k, NextAttempt(r, k) PROVE LockHeld'
    BY <2>1, <2>2, NextAttemptQuiet, QuietLock
  <2>3. ASSUME Notified([pc EXCEPT ![r] = "idle"]) PROVE LockHeld'
    BY <1>n, <1>t, <2>1, <2>3
  <2>4. ASSUME NEW p \in {"idle", "delay", "backoff"}, pc' = [pc EXCEPT ![r] = p] PROVE LockHeld'
    <3>1. pc[r] \notin OpeningPlaces /\ p \notin OpeningPlaces /\ p \in Places
      BY <2>1 DEF Opening, OpeningPlaces, Places
    <3> QED
      BY <1>t, <2>1, <2>4, <3>1, MoveLock
  <2>5. CASE ReconnectBegins(r)
    BY <2>2, <2>4, <2>5 DEF ReconnectBegins
  <2>6. CASE DelayEnds(r)
    BY <2>2, <2>3, <2>4, <2>6 DEF DelayEnds
  <2>7. CASE Settles(r)
    BY <2>3, <2>4, <2>7 DEF Settles
  <2>8. CASE BackoffEnds(r)
    BY <2>2, <2>4, <2>8 DEF BackoffEnds
  <2> QED
    BY <1>10, <2>5, <2>6, <2>7, <2>8 DEF ReconnectStep
<1>14. ASSUME NEW e \in Emitters, EmitStep(e) PROVE LockHeld'
  <2>1. PICK p \in {"idle", "waiting", "lock"} : pc' = [pc EXCEPT ![e] = p]
    BY <1>14 DEF EmitStep, Emit, EmitWakes, EmitTimesOut
  <2>2. lock' = lock /\ pc[e] \notin OpeningPlaces
    BY <1>14 DEF EmitStep, Emit, EmitWakes, EmitTimesOut, OpeningPlaces
  <2>3. p \in Places /\ p \notin OpeningPlaces
    BY DEF OpeningPlaces, Places
  <2> QED
    BY <1>e, <2>1, <2>2, <2>3, MoveLock
<1>16. ASSUME DisconnectEnds PROVE LockHeld'
  <2> DEFINE S == Cancellable(NoTask)
  <2>1. S \in SUBSET Reconnects /\ pc \in [Tasks -> Places]
    BY DEF Cancellable, TypeOK
  <2>2. /\ \A t \in S : pc'[t] = "idle"
        /\ \A t \in Tasks \ S : pc'[t] = pc[t] \/ (pc[t] = "waiting" /\ pc'[t] = "woken")
    BY <1>16, <2>1, CancelledFacts DEF DisconnectEnds
  <2>3. lock' = IF lock \in S THEN NoTask ELSE lock
    BY <1>16 DEF DisconnectEnds
  <2>4. NoTask \notin Tasks /\ S \subseteq Tasks
    BY <2>1 DEF Tasks
  <2>5. ASSUME NEW t \in S PROVE ~Opening(t)' /\ lock' # t
    BY <2>2, <2>3, <2>4 DEF Opening
  <2>6. ASSUME NEW t \in Tasks \ S PROVE Opening(t)' <=> lock' = t
    <3>1. Opening(t)' <=> Opening(t)
      BY <2>2 DEF Opening
    <3> QED
      BY <2>3, <2>4, <3>1 DEF LockHeld
  <2> QED
    BY <2>5, <2>6 DEF LockHeld
<1>17. ASSUME DisconnectBegins \/ SocketDrops \/ Heals \/ Lasts \/ UNCHANGED vars PROVE LockHeld'
  BY <1>17, <1>q DEF DisconnectBegins, SocketDrops, Heals, Lasts, vars
<1> QED
  BY <1>1, <1>3, <1>4, <1>7, <1>8, <1>9, <1>10, <1>14, <1>16, <1>17 DEF Next, ListenStep, OpenStep

-----------------------------------------------------------------------------
(* The sockets *)

\* A step that brings nobody to the head of open() and opens nothing.
LEMMA QuietSocket ==
  ASSUME SocketHeld, NothingOpen, sock' = sock, open' \subseteq open,
         \A t \in Tasks : pc'[t] \in {"closing", "connecting"} => pc[t] \in {"closing", "connecting"}
  PROVE  SocketHeld' /\ NothingOpen'
BY DEF SocketHeld, NothingOpen

\* Every step keeps all sockets closed but the connection's.
LEMMA SocketStep == IInv /\ [Next]_vars => SocketHeld' /\ NothingOpen'
<1> SUFFICES ASSUME IInv, [Next]_vars PROVE SocketHeld' /\ NothingOpen'
  OBVIOUS
<1>i. TypeOK /\ LockHeld /\ SocketHeld /\ NothingOpen
  BY DEF IInv
<1>s. LockHeld'
  BY <1>i, LockStep
<1>1. ASSUME NEW t \in Tasks, OpenBegins(t) PROVE SocketHeld' /\ NothingOpen'
  BY <1>1, <1>i DEF OpenBegins, SocketHeld, NothingOpen
<1>2. ASSUME NEW t \in Tasks, OpenCloses(t) PROVE SocketHeld' /\ NothingOpen'
  BY <1>2, <1>i DEF OpenCloses, NothingOpen, SocketHeld
<1>3. ASSUME NEW t \in Tasks, OpenConnects(t) PROVE SocketHeld' /\ NothingOpen'
  <2>1. pc[t] = "connecting" /\ lock' = lock
    BY <1>3 DEF OpenConnects
  <2>2. open = {} /\ lock = t
    BY <1>i, <2>1 DEF NothingOpen, LockHeld, Opening
  <2>3. PICK s \in Sockets : sock' = s /\ open' = open \cup {s}
    BY <1>3 DEF OpenConnects
  <2>4. pc'[t] = "handshake"
    BY <1>3, <1>i DEF OpenConnects, TypeOK
  <2>5. \A x \in Tasks : pc'[x] \notin {"closing", "connecting"}
    BY <1>s, <2>1, <2>2, <2>4 DEF LockHeld, Opening
  <2> QED
    BY <2>2, <2>3, <2>5 DEF SocketHeld, NothingOpen
<1> DEFINE Head == {"closing", "connecting"}
           Quiet == \A x \in Tasks : pc'[x] \in Head => pc[x] \in Head
<1>w. ASSUME NEW q \in [Tasks -> Places], NEW w \in {"woken", "orphaned"}, pc' = Waiters(q, w),
             \A x \in Tasks : q[x] \in Head => pc[x] \in Head
      PROVE  Quiet
  BY <1>w, WaitersFacts
<1>c. ASSUME NEW S \in SUBSET Reconnects, NEW q \in [Tasks -> Places], Cancelled(S, q),
             \A x \in Tasks : q[x] \in Head => pc[x] \in Head
      PROVE  Quiet
  BY <1>c, <1>i, CancelledFacts
<1>m. ASSUME NEW x \in Tasks, NEW p \in Places \ Head, pc' = [pc EXCEPT ![x] = p] PROVE Quiet
  BY <1>m, <1>i DEF TypeOK
<1>n. ASSUME NEW r \in Reconnects, Notified([pc EXCEPT ![r] = "idle"]) PROVE Quiet
  <2>1. [pc EXCEPT ![r] = "idle"] \in [Tasks -> Places]
    BY <1>i DEF TypeOK, Places
  <2> QED
    BY <1>n, <1>w, <1>i, <2>1 DEF Notified, TypeOK
<1>p. {"idle", "delay", "backoff", "lock", "waiting", "handshake", "registering"} \subseteq Places \ Head
  BY DEF Places
<1>4. ASSUME NEW s \in Sockets, ListenBegins(s) \/ ListenLoses(s) PROVE Quiet
  <2>1. pc' = pc \/ StartReconnect
    BY <1>4 DEF ListenBegins, ListenLoses, ListenEnds
  <2>2. CASE StartReconnect
    <3>1. PICK r \in Reconnects : pc' = [Waiters(pc, "orphaned") EXCEPT ![r] = "start"]
      BY <2>2 DEF StartReconnect
    <3>2. /\ Waiters(pc, "orphaned") \in [Tasks -> Places]
          /\ \A x \in Tasks : Waiters(pc, "orphaned")[x] \in Head => pc[x] \in Head
      BY <1>i, WaitersFacts DEF TypeOK
    <3> QED
      BY <3>1, <3>2
  <2> QED
    BY <2>1, <2>2
<1>5. ASSUME NEW t \in Tasks, OpenAnswered(t) \/ OpenEnds(t) PROVE Quiet
  BY <1>5, <1>m, <1>p, <1>i DEF OpenAnswered, OpenEnds, TypeOK
<1>6. ASSUME NEW t \in Tasks, NEW p \in {"idle", "backoff"}, OpenFails(t, p) PROVE Quiet
  <2>1. Cancellable(t) \in SUBSET Reconnects /\ [pc EXCEPT ![t] = p] \in [Tasks -> Places]
    BY <1>i DEF Cancellable, TypeOK, Places
  <2>2. \A x \in Tasks : [pc EXCEPT ![t] = p][x] \in Head => pc[x] \in Head
    BY <1>i DEF TypeOK
  <2>3. Cancelled(Cancellable(t), [pc EXCEPT ![t] = p])
    BY <1>6 DEF OpenFails
  <2> QED
    BY <1>c, <2>1, <2>2, <2>3
<1>7. ASSUME NEW t \in Tasks, OpenBreaks(t) PROVE Quiet
  BY <1>6, <1>7 DEF OpenBreaks
<1>8. ASSUME NEW t \in Tasks, OpenRefused(t) PROVE Quiet
  <2> DEFINE q == [x \in Tasks |-> IF x \in Cancellable(t) \cup {t} THEN "idle" ELSE pc[x]]
  <2>1. OpenFails(t, "idle") \/ Notified(q)
    BY <1>8 DEF OpenRefused
  <2>2. q \in [Tasks -> Places] /\ \A x \in Tasks : q[x] \in Head => pc[x] \in Head
    BY <1>i DEF TypeOK, Places
  <2>3. CASE Notified(q)
    <3>1. pc' = Waiters(q, "woken")
      BY <2>3 DEF Notified
    <3> HIDE DEF q, Quiet, Head
    <3> QED
      BY <1>w, <2>2, <3>1
  <2> QED
    BY <1>6, <2>1, <2>3
<1>9. ASSUME NEW r \in Reconnects, ReconnectStep(r) PROVE Quiet
  <2>1. r \in Tasks
    BY DEF Tasks
  <2>2. ASSUME NEW k, NextAttempt(r, k) PROVE Quiet
    BY <1>m, <1>n, <1>p, <2>1, <2>2 DEF NextAttempt
  <2>3. CASE ReconnectBegins(r)
    BY <1>m, <1>p, <2>1, <2>2, <2>3 DEF ReconnectBegins
  <2>4. CASE DelayEnds(r)
    BY <1>m, <1>n, <1>p, <2>1, <2>2, <2>4 DEF DelayEnds
  <2>5. CASE Settles(r)
    BY <1>m, <1>n, <1>p, <2>1, <2>5 DEF Settles
  <2>6. CASE BackoffEnds(r)
    BY <1>m, <1>p, <2>1, <2>2, <2>6 DEF BackoffEnds
  <2> QED
    BY <1>9, <2>3, <2>4, <2>5, <2>6 DEF ReconnectStep
<1>10. ASSUME NEW e \in Emitters, EmitStep(e) PROVE Quiet
  <2>1. e \in Tasks /\ \E p \in {"idle", "waiting", "lock"} : pc' = [pc EXCEPT ![e] = p]
    BY <1>10 DEF EmitStep, Emit, EmitWakes, EmitTimesOut, Tasks
  <2> QED
    BY <1>m, <1>p, <2>1
<1>11. ASSUME DisconnectEnds PROVE Quiet
  <2>1. Cancellable(NoTask) \in SUBSET Reconnects /\ pc \in [Tasks -> Places]
    BY <1>i DEF Cancellable, TypeOK
  <2>2. Cancelled(Cancellable(NoTask), pc)
    BY <1>11 DEF DisconnectEnds
  <2> QED
    BY <1>c, <2>1, <2>2
<1>12. ASSUME DisconnectBegins \/ SocketDrops \/ Heals \/ Lasts \/ UNCHANGED vars PROVE Quiet
  BY <1>12 DEF DisconnectBegins, SocketDrops, Heals, Lasts, vars
<1>13. ASSUME [Next]_vars,
              \A t \in Tasks : ~OpenBegins(t) /\ ~OpenCloses(t) /\ ~OpenConnects(t)
       PROVE  sock' = sock /\ open' \subseteq open /\ Quiet
  <2>1. sock' = sock /\ open' \subseteq open
    BY <1>13 DEF Next, ListenStep, OpenStep, ReconnectStep, EmitStep, ListenBegins, ListenLoses,
                 OpenAnswered, OpenEnds, OpenBreaks, OpenRefused, ReconnectBegins, DelayEnds,
                 Settles, BackoffEnds, Emit, EmitWakes, EmitTimesOut, DisconnectBegins,
                 DisconnectEnds, SocketDrops, Heals, Lasts, linkVars, vars
  <2>2. Quiet
    <3> HIDE DEF Quiet, Head
    <3> QED
      BY <1>13, <1>4, <1>5, <1>7, <1>8, <1>9, <1>10, <1>11, <1>12 DEF Next, ListenStep, OpenStep
  <2> QED
    BY <2>1, <2>2
<1> QED
  BY <1>1, <1>2, <1>3, <1>13, <1>i, QuietSocket

-----------------------------------------------------------------------------
(* The link is heard and its loss is noticed *)

\* What the theorems below need of the surroundings.  A server that does not answer,
\* or an emitter that is refused, leaves a link without a listen task.
Hears == "stall" \notin Faults /\ (Emitters = {} \/ "refuse" \notin Faults)

\* emit_message and disconnect() cancel the reconnect tasks, see _cleanup.
Undisturbed == Hears /\ Emitters = {} /\ ~MayDisconnect

\* No listen task is about to begin, and so none to reset _closed.
Unborn == \A s \in Sockets : listener[s] # "created"

\* While disconnect() closes the websocket no other is opened.
UserInv == user # "active" => MayDisconnect /\ (user = "closing" => ~Linked)

\* An open link that nobody listens to was refused, and stays closed.
HeardInv == Linked => \/ listener[sock] # "none"
                      \/ \E t \in Tasks : pc[t] = "handshake"
                      \/ closed /\ Unborn

\* Only a link that was refused is left without registration.
RegInv == Linked /\ ~reg_ok /\ lock = NoTask => closed /\ Unborn

\* A reconnect task does not wait for the event it is to set.
Waits == {"waiting", "orphaned", "woken"}
RoleInv == \A r \in Reconnects : pc[r] \notin Waits

\* A reconnect task that has not begun will not find _closed set, and end at once.
StartInv == closed => \A r \in Reconnects : pc[r] # "start"

\* A reconnect task works on it, or a listen task will start one: for that it needs a
\* websocket to find closed.
LossInv == /\ ~closed /\ ~Linked => Working \/ \E s \in Sockets : listener[s] # "none"
           /\ sock = NoSocket => Working \/ (closed /\ Unborn)

\* _closed is set after the event, and a task that finds the link open after its
\* backoff, which does not notify, leaves it to another one.
EventInv == event => /\ ~closed
                     /\ Working
                     /\ Linked => \E r \in Reconnects : pc[r] \notin {"idle", "backoff"}

\* Everyone outside S stays where it is, but for emitters whose wait ends.
Bystanders(S) == \A x \in Tasks \ S : \/ pc'[x] = pc[x]
                                      \/ pc[x] = "waiting" /\ pc'[x] \in {"woken", "orphaned"}

\* How a step of reconnect task r may end: it goes on, it ends because of _closed, or
\* because the link is open, or it gives up.
Outcome(r) == \/ /\ pc'[r] \in {"lock", "delay", "backoff"}
                 /\ pc'[r] = "backoff" => ~(Linked /\ reg_ok)
                 /\ UNCHANGED <<closed, event>>
              \/ /\ closed /\ pc'[r] = "idle"
                 /\ pc[r] # "start" => Prompt
                 /\ UNCHANGED <<closed, event>>
              \/ /\ Linked /\ pc'[r] = "idle"
                 /\ closed' = closed
                 /\ event' = FALSE \/ (event' = event /\ pc[r] = "backoff")
              \/ closed' /\ pc'[r] = "idle" /\ event' = FALSE /\ Prompt

\* A socket that is no longer open has no listen task in recv, when nobody is ready.
LEMMA PromptFacts ==
  ASSUME TypeOK, SocketHeld, Prompt
  PROVE  /\ Unborn
         /\ \A r \in Reconnects : pc[r] # "start"
         /\ \A s \in Sockets : listener[s] # "none" => s = sock
<1>1. \A r \in Reconnects : r \in Tasks
  BY DEF Tasks
<1> QED
  BY <1>1 DEF Prompt, Unborn, SocketHeld

LEMMA LinkedFacts ==
  ASSUME TypeOK
  PROVE  Linked => sock \in Sockets /\ sock # NoSocket
BY IdsAssumption DEF TypeOK, Linked, IdsAssumption

\* The listen task that starts a reconnect task (_listen's finally clause).
LEMMA StartMoves ==
  ASSUME TypeOK, StartReconnect
  PROVE  /\ event' = TRUE
         /\ \E r \in Reconnects : pc[r] = "idle" /\ pc'[r] = "start" /\ Bystanders({r})
<1>1. PICK r \in Reconnects : /\ pc[r] = "idle"
                              /\ event' = TRUE
                              /\ pc' = [Waiters(pc, "orphaned") EXCEPT ![r] = "start"]
  BY DEF StartReconnect
<1>2. /\ Waiters(pc, "orphaned") \in [Tasks -> Places]
      /\ \A x \in Tasks : \/ Waiters(pc, "orphaned")[x] = pc[x]
                          \/ pc[x] = "waiting" /\ Waiters(pc, "orphaned")[x] = "orphaned"
  BY WaitersFacts DEF TypeOK
<1>3. r \in Tasks
  BY DEF Tasks
<1>4. pc'[r] = "start" /\ \A x \in Tasks \ {r} : pc'[x] = Waiters(pc, "orphaned")[x]
  BY <1>1, <1>2, <1>3
<1>5. Bystanders({r})
  BY <1>2, <1>4 DEF Bystanders
<1> QED
  BY <1>1, <1>4, <1>5

\* The task that ends and notifies moves itself and the emitters that wait.
LEMMA NotifiedMoves ==
  ASSUME TypeOK, NEW r \in Reconnects, Notified([pc EXCEPT ![r] = "idle"])
  PROVE  event' = FALSE /\ pc'[r] = "idle" /\ Bystanders({r})
<1> DEFINE q == [pc EXCEPT ![r] = "idle"]
<1>1. r \in Tasks /\ q \in [Tasks -> Places]
  BY DEF Tasks, TypeOK, Places
<1>2. \A x \in Tasks : pc'[x] = q[x] \/ (q[x] = "waiting" /\ pc'[x] = "woken")
  BY <1>1, WaitersFacts DEF Notified
<1>3. q[r] = "idle" /\ \A x \in Tasks \ {r} : q[x] = pc[x]
  BY <1>1 DEF TypeOK
<1> QED
  BY <1>1, <1>2, <1>3 DEF Bystanders, Notified

\* A task that moves alone.
LEMMA MovesAlone ==
  ASSUME TypeOK, NEW t \in Tasks, NEW p, pc' = [pc EXCEPT ![t] = p]
  PROVE  pc'[t] = p /\ Bystanders({t})
BY DEF TypeOK, Bystanders

\* The loop head, with less than all retries used up or not.
LEMMA NextAttemptMoves ==
  ASSUME TypeOK, NEW r \in Reconnects, NEW k \in Nat, NextAttempt(r, k),
         pc[r] = "start" => k < MaxRetry, pc[r] # "start" => Prompt
  PROVE  Bystanders({r}) /\ Outcome(r)
<1>1. r \in Tasks
  BY DEF Tasks
<1>2. CASE k < MaxRetry \/ closed
  <2>1. pc' = [pc EXCEPT ![r] = IF closed THEN "idle" ELSE "lock"] /\ UNCHANGED <<closed, event>>
    BY <1>2 DEF NextAttempt
  <2>2. pc'[r] = (IF closed THEN "idle" ELSE "lock") /\ Bystanders({r})
    BY <1>1, <2>1, MovesAlone
  <2> QED
    BY <2>1, <2>2 DEF Outcome
<1>3. CASE ~(k < MaxRetry \/ closed)
  <2>1. closed' = TRUE /\ Notified([pc EXCEPT ![r] = "idle"])
    BY <1>3 DEF NextAttempt
  <2>2. event' = FALSE /\ pc'[r] = "idle" /\ Bystanders({r})
    BY <2>1, NotifiedMoves
  <2>3. Prompt
    BY <1>3
  <2> QED
    BY <2>1, <2>2, <2>3 DEF Outcome
<1> QED
  BY <1>2, <1>3

\* What a step of reconnect_with_retry outside open() does.
LEMMA ReconnectMoves ==
  ASSUME TypeOK, NEW r \in Reconnects, ReconnectStep(r)
  PROVE  /\ Bystanders({r}) /\ Outcome(r)
         /\ pc[r] \in {"start", "delay", "settle", "backoff"}
         /\ UNCHANGED <<sock, open, listener, lock, reg_ok, user>>
<1>1. /\ pc[r] \in {"start", "delay", "settle", "backoff"}
      /\ UNCHANGED <<sock, open, listener, lock, reg_ok, user>>
  BY DEF ReconnectStep, ReconnectBegins, DelayEnds, Settles, BackoffEnds, linkVars, envVars
<1>2. r \in Tasks /\ retry[r] \in Nat /\ 0 < MaxRetry
  BY RetryAssumption DEF Tasks, TypeOK, RetryAssumption
<1>3. ASSUME NEW p, pc' = [pc EXCEPT ![r] = p] PROVE pc'[r] = p /\ Bystanders({r})
  BY <1>2, <1>3, MovesAlone
<1>4. CASE ReconnectBegins(r)
  <2>1. pc[r] = "start"
    BY <1>4 DEF ReconnectBegins
  <2>2. CASE flaps' > 1 /\ ~closed
    <3>1. pc' = [pc EXCEPT ![r] = "delay"] /\ UNCHANGED <<closed, event>>
      BY <1>4, <2>2 DEF ReconnectBegins
    <3> QED
      BY <1>1, <1>3, <3>1 DEF Outcome
  <2>3. CASE ~(flaps' > 1 /\ ~closed)
    <3>1. NextAttempt(r, 0)
      BY <1>4, <2>3 DEF ReconnectBegins
    <3> QED
      BY <1>1, <1>2, <2>1, <3>1, NextAttemptMoves
  <2> QED
    BY <2>2, <2>3
<1>5. CASE DelayEnds(r)
  <2>1. pc[r] = "delay" /\ Prompt
    BY <1>5 DEF DelayEnds
  <2>2. CASE closed /\ pc' = [pc EXCEPT ![r] = "idle"] /\ UNCHANGED <<closed, event>>
    BY <1>1, <1>3, <2>1, <2>2 DEF Outcome
  <2>3. CASE Linked /\ Notified([pc EXCEPT ![r] = "idle"]) /\ UNCHANGED closed
    BY <1>1, <2>3, NotifiedMoves DEF Outcome
  <2>4. CASE NextAttempt(r, retry[r])
    BY <1>1, <1>2, <2>1, <2>4, NextAttemptMoves
  <2> QED
    BY <1>5, <2>2, <2>3, <2>4 DEF DelayEnds
<1>6. CASE Settles(r)
  <2>1. UNCHANGED closed
    BY <1>6 DEF Settles
  <2>2. CASE Linked /\ reg_ok
    <3>1. Notified([pc EXCEPT ![r] = "idle"])
      BY <1>6, <2>2 DEF Settles
    <3> QED
      BY <1>1, <2>1, <2>2, <3>1, NotifiedMoves DEF Outcome
  <2>3. CASE ~(Linked /\ reg_ok)
    <3>1. pc' = [pc EXCEPT ![r] = "backoff"] /\ UNCHANGED event
      BY <1>6, <2>3 DEF Settles
    <3> QED
      BY <1>1, <1>3, <2>1, <2>3, <3>1 DEF Outcome
  <2> QED
    BY <2>2, <2>3
<1>7. CASE BackoffEnds(r)
  <2>1. pc[r] = "backoff" /\ Prompt
    BY <1>7 DEF BackoffEnds
  <2>2. CASE Linked \/ closed
    <3>1. pc' = [pc EXCEPT ![r] = "idle"] /\ UNCHANGED <<closed, event>>
      BY <1>7, <2>2 DEF BackoffEnds
    <3> QED
      BY <1>1, <1>3, <2>1, <2>2, <3>1 DEF Outcome
  <2>3. CASE ~(Linked \/ closed)
    <3>1. NextAttempt(r, retry[r] + 1) /\ retry[r] + 1 \in Nat /\ pc[r] # "start"
      BY <1>2, <1>7, <2>1, <2>3 DEF BackoffEnds
    <3> QED
      BY <1>1, <2>1, <3>1, NextAttemptMoves
  <2> QED
    BY <2>2, <2>3
<1> QED
  BY <1>4, <1>5, <1>6, <1>7 DEF ReconnectStep

-----------------------------------------------------------------------------
(* The link is heard *)

\* A step that leaves the connection and the listen tasks alone, and no handshake.
LEMMA QuietLink ==
  ASSUME HeardInv, UNCHANGED <<sock, listener>>, open' \subseteq open, closed => closed',
         \A t \in Tasks : pc[t] = "handshake" => pc'[t] = "handshake"
  PROVE  HeardInv'
BY DEF HeardInv, Linked, Unborn

\* disconnect() has closed the websocket, and OpenConnects does not happen before it
\* is over.
LEMMA UserStep == IInv /\ UserInv /\ [Next]_vars => UserInv'
<1> SUFFICES ASSUME IInv, UserInv, [Next]_vars PROVE UserInv'
  OBVIOUS
<1>i. TypeOK /\ SocketHeld
  BY DEF IInv
<1>1. ASSUME NEW t \in Tasks, OpenConnects(t) PROVE UserInv'
  BY <1>1 DEF OpenConnects, Prompt, envVars, UserInv
<1>2. ASSUME NEW t \in Tasks, OpenCloses(t) PROVE UserInv'
  <2>1. user' = user /\ sock' = NoSocket /\ open' = open
    BY <1>2 DEF OpenCloses, envVars
  <2>2. ~Linked'
    BY <1>i, <2>1, IdsAssumption DEF TypeOK, Linked, IdsAssumption
  <2> QED
    BY <2>1, <2>2 DEF UserInv
<1>3. CASE DisconnectBegins
  BY <1>3 DEF DisconnectBegins, UserInv, Linked
<1>4. CASE DisconnectEnds
  BY <1>4 DEF DisconnectEnds, UserInv
<1>5. CASE UNCHANGED <<sock, user>> /\ open' \subseteq open
  BY <1>5 DEF UserInv, Linked
<1>6. ASSUME \A t \in Tasks : ~OpenConnects(t) /\ ~OpenCloses(t), ~DisconnectBegins, ~DisconnectEnds
      PROVE  UNCHANGED <<sock, user>> /\ open' \subseteq open
  BY <1>6 DEF Next, ListenStep, OpenStep, ReconnectStep, EmitStep, ListenBegins, ListenLoses, OpenBegins,
              OpenAnswered, OpenEnds, OpenBreaks, OpenRefused, ReconnectBegins, DelayEnds,
              Settles, BackoffEnds, Emit, EmitWakes, EmitTimesOut, SocketDrops, Heals, Lasts,
              linkVars, envVars, vars
<1> QED
  BY <1>1, <1>2, <1>3, <1>4, <1>5, <1>6

\* An attempt that fails leaves no open link, and one that is refused leaves the
\* connection closed.
LEMMA FailedAttempt ==
  ASSUME IInv, Hears, NEW t \in Tasks, OpenBreaks(t) \/ OpenRefused(t)
  PROVE  /\ UNCHANGED <<sock, open, listener, reg_ok, user>>
         /\ \/ OpenBreaks(t) /\ closed' = closed /\ ~Linked
            \/ OpenRefused(t) /\ t \in Reconnects /\ closed' = TRUE /\ Linked /\ Prompt
<1>1. UNCHANGED <<sock, open, listener, reg_ok, user>>
  BY DEF OpenBreaks, OpenRefused, linkVars, envVars
<1>2. CASE OpenBreaks(t)
  <2>1. closed' = closed /\ (pc[t] = "connecting" \/ ~Linked)
    BY <1>2 DEF OpenBreaks, Hears
  <2>2. pc[t] = "connecting" => ~Linked
    BY DEF IInv, NothingOpen, Linked
  <2> QED
    BY <1>1, <1>2, <2>1, <2>2
<1>3. CASE OpenRefused(t)
  <2>1. "refuse" \in Faults /\ Linked /\ Prompt
    BY <1>3 DEF OpenRefused
  <2>2. t \in Reconnects /\ t \notin Emitters
    BY <2>1 DEF Hears, Tasks
  <2>3. closed' = TRUE
    BY <1>3, <2>2 DEF OpenRefused
  <2> QED
    BY <1>1, <1>3, <2>1, <2>2, <2>3
<1> QED
  BY <1>2, <1>3

\* Every step keeps the link heard.
LEMMA HeardStep == Hears /\ IInv /\ UserInv /\ HeardInv /\ [Next]_vars => HeardInv'
<1> SUFFICES ASSUME Hears, IInv, UserInv, HeardInv, [Next]_vars PROVE HeardInv'
  OBVIOUS
<1>i. TypeOK /\ LockHeld /\ SocketHeld /\ NothingOpen
  BY DEF IInv
<1>r. \A r \in Reconnects : r \in Tasks
  BY DEF Tasks
<1>e. \A e \in Emitters : e \in Tasks
  BY DEF Tasks
<1>m. ASSUME NEW t \in Tasks, Bystanders({t}), pc[t] # "handshake"
      PROVE  \A x \in Tasks : pc[x] = "handshake" => pc'[x] = "handshake"
  BY <1>m DEF Bystanders
<1>l. ASSUME NEW c, ListenEnds(c) PROVE \A x \in Tasks : pc[x] = "handshake" => pc'[x] = "handshake"
  <2>1. CASE StartReconnect
    BY <1>i, <1>m, <1>r, <2>1, StartMoves
  <2>2. CASE pc' = pc
    BY <2>2
  <2> QED
    BY <1>l, <2>1, <2>2 DEF ListenEnds
<1>1. ASSUME NEW s \in Sockets, ListenBegins(s) PROVE HeardInv'
  <2>1. UNCHANGED <<sock, open>> /\ listener[s] = "created"
    BY <1>1 DEF ListenBegins
  <2>2. CASE Linked
    <3>1. pc' = pc /\ listener' = [listener EXCEPT ![s] = "recv"]
      BY <1>1, <2>2 DEF ListenBegins
    <3>2. listener[sock] # "none" => listener'[sock] # "none"
      BY <1>i, <2>2, <3>1, LinkedFacts DEF TypeOK
    <3>3. ~Unborn
      BY <2>1 DEF Unborn
    <3> QED
      BY <2>1, <2>2, <3>1, <3>2, <3>3 DEF HeardInv
  <2>3. CASE ~Linked
    BY <2>1, <2>3 DEF HeardInv, Linked
  <2> QED
    BY <2>2, <2>3
<1>2. ASSUME NEW s \in Sockets, ListenLoses(s) PROVE HeardInv'
  <2>1. /\ UNCHANGED <<sock, open, closed>> /\ s \notin open
        /\ listener' = [listener EXCEPT ![s] = "none"] /\ ListenEnds(closed)
    BY <1>2 DEF ListenLoses
  <2>2. Linked => listener'[sock] = listener[sock]
    BY <1>i, <2>1, LinkedFacts DEF TypeOK, Linked
  <2>3. Unborn => Unborn'
    BY <1>i, <2>1 DEF TypeOK, Unborn
  <2>4. \A x \in Tasks : pc[x] = "handshake" => pc'[x] = "handshake"
    BY <1>l, <2>1
  <2>5. Linked' = Linked
    BY <2>1 DEF Linked
  <2> QED
    BY <2>1, <2>2, <2>3, <2>4, <2>5 DEF HeardInv
<1>3. ASSUME NEW t \in Tasks, OpenBegins(t) PROVE HeardInv'
  BY <1>3 DEF OpenBegins, HeardInv, Linked
<1>4. ASSUME NEW t \in Tasks, OpenCloses(t) PROVE HeardInv'
  BY <1>4, <1>i DEF OpenCloses, NothingOpen, HeardInv, Linked
<1>5. ASSUME NEW t \in Tasks, OpenConnects(t) PROVE HeardInv'
  BY <1>5, <1>i DEF OpenConnects, TypeOK, HeardInv
<1>6. ASSUME NEW t \in Tasks, OpenAnswered(t) PROVE HeardInv'
  <2>1. /\ Linked /\ UNCHANGED <<sock, open>>
        /\ listener' = [listener EXCEPT ![sock] = "created"]
    BY <1>6 DEF OpenAnswered
  <2>2. listener'[sock] = "created"
    BY <1>i, <2>1, LinkedFacts DEF TypeOK
  <2> QED
    BY <2>1, <2>2 DEF HeardInv
<1>7. ASSUME NEW t \in Tasks, OpenEnds(t) PROVE HeardInv'
  <2>1. PICK p \in {"settle", "idle"} : pc' = [pc EXCEPT ![t] = p]
    BY <1>7 DEF OpenEnds
  <2>2. pc[t] # "handshake" /\ UNCHANGED <<sock, open, listener, closed>>
    BY <1>7 DEF OpenEnds, linkVars
  <2> QED
    BY <1>i, <1>m, <2>1, <2>2, MovesAlone, QuietLink
<1>8. ASSUME NEW t \in Tasks, OpenBreaks(t) \/ OpenRefused(t) PROVE HeardInv'
  <2>1. UNCHANGED <<sock, open, listener>>
    BY <1>8, FailedAttempt
  <2>f. ~Linked \/ (closed' = TRUE /\ Prompt)
    BY <1>8, FailedAttempt
  <2>2. CASE ~Linked
    BY <2>1, <2>2 DEF HeardInv, Linked
  <2>3. CASE closed' = TRUE /\ Prompt
    <3>1. Unborn
      BY <1>i, <2>3, PromptFacts
    <3> QED
      BY <2>1, <2>3, <3>1 DEF HeardInv, Unborn
  <2> QED
    BY <2>f, <2>2, <2>3
<1>9. ASSUME NEW r \in Reconnects, ReconnectStep(r) PROVE HeardInv'
  <2>1. /\ Bystanders({r}) /\ pc[r] # "handshake" /\ (closed => closed')
        /\ UNCHANGED <<sock, open, listener>>
    BY <1>9, <1>i, ReconnectMoves DEF Outcome
  <2> QED
    BY <1>m, <1>r, <2>1, QuietLink
<1>10. ASSUME NEW e \in Emitters, EmitStep(e) PROVE HeardInv'
  <2>1. PICK p \in {"idle", "waiting", "lock"} : pc' = [pc EXCEPT ![e] = p]
    BY <1>10 DEF EmitStep, Emit, EmitWakes, EmitTimesOut
  <2>2. pc[e] # "handshake" /\ UNCHANGED <<sock, open, listener, closed>>
    BY <1>10 DEF EmitStep, Emit, EmitWakes, EmitTimesOut, linkVars
  <2> QED
    BY <1>e, <1>i, <1>m, <2>1, <2>2, MovesAlone, QuietLink
<1>11. CASE DisconnectEnds
  BY <1>11 DEF DisconnectEnds, UserInv, HeardInv, Linked
<1>12. CASE DisconnectBegins \/ SocketDrops \/ Heals \/ Lasts \/ UNCHANGED vars
  BY <1>12, QuietLink DEF DisconnectBegins, SocketDrops, Heals, Lasts, linkVars, vars
<1> QED
  BY <1>1, <1>2, <1>3, <1>4, <1>5, <1>6, <1>7, <1>8, <1>9, <1>10, <1>11, <1>12
     DEF Next, ListenStep, OpenStep

-----------------------------------------------------------------------------
(* The registration of the services *)

\* on_connected fails only without a link, which the settling task notices.
Registers == Hears /\ "register" \notin Faults

\* Every step leaves an open link registered, unless it was refused.
LEMMA RegStep == Registers /\ IInv /\ UserInv /\ RegInv /\ [Next]_vars => RegInv'
<1> SUFFICES ASSUME Registers, IInv, UserInv, RegInv, [Next]_vars PROVE RegInv'
  OBVIOUS
<1>i. TypeOK /\ LockHeld /\ SocketHeld /\ NothingOpen
  BY DEF IInv
<1>h. Hears /\ "register" \notin Faults
  BY DEF Registers
<1>q. ASSUME UNCHANGED <<sock, lock, reg_ok>>, open' \subseteq open, closed => closed', Unborn => Unborn'
      PROVE  RegInv'
  BY <1>q DEF RegInv, Linked
<1>u. ASSUME UNCHANGED listener PROVE Unborn => Unborn'
  BY <1>u DEF Unborn
<1>o. ASSUME NEW t \in Tasks, Opening(t), lock' = lock PROVE RegInv'
  <2>1. lock' # NoTask
    BY <1>i, <1>o, IdsAssumption DEF LockHeld, IdsAssumption, Tasks
  <2> QED
    BY <2>1 DEF RegInv
<1>1. ASSUME NEW s \in Sockets, ListenBegins(s) PROVE RegInv'
  <2>1. UNCHANGED <<sock, open, lock, reg_ok>> /\ ~Unborn
    BY <1>1 DEF ListenBegins, Unborn
  <2> QED
    BY <2>1 DEF RegInv, Linked
<1>2. ASSUME NEW s \in Sockets, ListenLoses(s) PROVE RegInv'
  <2>1. UNCHANGED <<sock, open, lock, reg_ok, closed>> /\ listener' = [listener EXCEPT ![s] = "none"]
    BY <1>2 DEF ListenLoses
  <2>2. Unborn => Unborn'
    BY <1>i, <2>1 DEF TypeOK, Unborn
  <2> QED
    BY <1>q, <2>1, <2>2
<1>3. ASSUME NEW t \in Tasks, OpenBegins(t) PROVE RegInv'
  BY <1>3 DEF OpenBegins, RegInv, Linked
<1>4. ASSUME NEW t \in Tasks, OpenCloses(t) \/ OpenConnects(t) \/ OpenAnswered(t) PROVE RegInv'
  BY <1>4, <1>o DEF OpenCloses, OpenConnects, OpenAnswered, Opening
<1>5. ASSUME NEW t \in Tasks, OpenEnds(t) PROVE RegInv'
  BY <1>5, <1>h DEF OpenEnds, RegInv, Linked, linkVars
<1>6. ASSUME NEW t \in Tasks, OpenBreaks(t) \/ OpenRefused(t) PROVE RegInv'
  <2>1. UNCHANGED <<sock, open, listener>>
    BY <1>6, <1>h, FailedAttempt
  <2>f. ~Linked \/ (closed' = TRUE /\ Prompt)
    BY <1>6, <1>h, FailedAttempt
  <2>2. CASE ~Linked
    BY <2>1, <2>2 DEF RegInv, Linked
  <2>3. CASE closed' = TRUE /\ Prompt
    <3>1. Unborn
      BY <1>i, <2>3, PromptFacts
    <3> QED
      BY <1>u, <2>1, <2>3, <3>1 DEF RegInv
  <2> QED
    BY <2>f, <2>2, <2>3
<1>7. ASSUME NEW r \in Reconnects, ReconnectStep(r) PROVE RegInv'
  <2>1. (closed => closed') /\ UNCHANGED <<sock, open, listener, lock, reg_ok>>
    BY <1>7, <1>i, ReconnectMoves DEF Outcome
  <2> QED
    BY <1>q, <1>u, <2>1
<1>8. ASSUME NEW e \in Emitters, EmitStep(e) PROVE RegInv'
  BY <1>8, <1>q, <1>u DEF EmitStep, Emit, EmitWakes, EmitTimesOut, linkVars
<1>9. CASE DisconnectEnds
  BY <1>9 DEF DisconnectEnds, UserInv, RegInv, Linked
<1>10. CASE DisconnectBegins \/ SocketDrops \/ Heals \/ Lasts \/ UNCHANGED vars
  BY <1>10, <1>q, <1>u DEF DisconnectBegins, SocketDrops, Heals, Lasts, linkVars, vars
<1> QED
  BY <1>1, <1>2, <1>3, <1>4, <1>5, <1>6, <1>7, <1>8, <1>9, <1>10 DEF Next, ListenStep, OpenStep

-----------------------------------------------------------------------------
(* No loss is forgotten *)

\* A reconnect task that is not done is at work.
LEMMA AtWork == ASSUME NEW r \in Reconnects, pc'[r] # "idle" PROVE Working'
BY DEF Working

\* While only reconnect tasks use the connection, what a step inside open() does.
LEMMA OpenMoves ==
  ASSUME IInv, Undisturbed, NEW t \in Tasks, OpenStep(t), ~OpenRefused(t)
  PROVE  /\ t \in Reconnects
         /\ UNCHANGED closed
         /\ pc'[t] \notin {"idle", "start"}
         /\ \A x \in Tasks : pc'[x] = "start" => pc[x] = "start"
         /\ event' => event
         /\ pc'[t] = "backoff" => ~Linked'
<1>i. TypeOK /\ t \in Reconnects
  BY DEF IInv, Undisturbed, Tasks
<1>1. CASE OpenBreaks(t)
  <2>1. OpenFails(t, "backoff") /\ UNCHANGED <<sock, open, closed>>
    BY <1>1, <1>i DEF OpenBreaks, linkVars
  <2>2. ~Linked'
    BY <1>1, <2>1, FailedAttempt DEF Undisturbed, Linked
  <2> DEFINE q == [pc EXCEPT ![t] = "backoff"]
             S == Cancellable(t)
  <2>3. S \in SUBSET Reconnects /\ q \in [Tasks -> Places] /\ t \notin S /\ Cancelled(S, q)
    BY <1>i, <2>1 DEF Cancellable, TypeOK, Places, OpenFails
  <2>4. \A x \in Tasks : q[x] = IF x = t THEN "backoff" ELSE pc[x]
    BY <1>i DEF TypeOK
  <2>5. event' => event
    BY <2>3 DEF Cancelled, Notified
  <2> HIDE DEF q, S
  <2>6. /\ \A x \in S : pc'[x] = "idle"
        /\ \A x \in Tasks \ S : pc'[x] = q[x] \/ (q[x] = "waiting" /\ pc'[x] = "woken")
    BY <1>i, <2>3, CancelledFacts
  <2>7. pc'[t] = "backoff" /\ \A x \in Tasks : pc'[x] = "start" => pc[x] = "start"
    BY <2>3, <2>4, <2>6
  <2> QED
    BY <1>i, <2>1, <2>2, <2>5, <2>7
<1>2. CASE ~OpenBreaks(t)
  <2>1. /\ UNCHANGED <<closed, event>>
        /\ \E p \in {"closing", "connecting", "handshake", "registering", "settle"} : pc' = [pc EXCEPT ![t] = p]
    BY <1>2, <1>i DEF OpenStep, OpenBegins, OpenCloses, OpenConnects, OpenAnswered, OpenEnds
  <2> QED
    BY <1>i, <2>1 DEF TypeOK
<1> QED
  BY <1>1, <1>2

\* Only emitters wait for the event.
LEMMA RoleStep == TypeOK /\ RoleInv /\ [Next]_vars => RoleInv'
<1> SUFFICES ASSUME TypeOK, RoleInv, [Next]_vars PROVE RoleInv'
  OBVIOUS
<1>r. \A r \in Reconnects : r \in Tasks
  BY DEF Tasks
<1>e. \A e \in Emitters : e \in Tasks /\ e \notin Reconnects
  BY IdsAssumption DEF Tasks, IdsAssumption
<1>m. ASSUME NEW t \in Tasks, Bystanders({t}), pc'[t] \notin Waits \/ t \notin Reconnects PROVE RoleInv'
  BY <1>m, <1>r DEF Bystanders, RoleInv, Waits
<1>a. ASSUME NEW t \in Tasks, NEW p, pc' = [pc EXCEPT ![t] = p], p \notin Waits \/ t \notin Reconnects
      PROVE  RoleInv'
  BY <1>a, <1>m, MovesAlone
<1>q. ASSUME NEW q \in [Tasks -> Places], \A r \in Reconnects : q[r] \notin Waits, Notified(q)
      PROVE  RoleInv'
  <2>1. pc' = Waiters(q, "woken")
    BY <1>q DEF Notified
  <2>2. \A x \in Tasks : pc'[x] = q[x] \/ q[x] = "waiting"
    BY <1>q, <2>1, WaitersFacts
  <2> QED
    BY <1>q, <1>r, <2>2 DEF RoleInv, Waits
<1>c. ASSUME NEW S \in SUBSET Reconnects, NEW q \in [Tasks -> Places], Cancelled(S, q),
             \A r \in Reconnects : q[r] \notin Waits
      PROVE  RoleInv'
  <2>1. /\ \A x \in S : pc'[x] = "idle"
        /\ \A x \in Tasks \ S : pc'[x] = q[x] \/ (q[x] = "waiting" /\ pc'[x] = "woken")
    BY <1>c, CancelledFacts
  <2> QED
    BY <1>c, <1>r, <2>1 DEF RoleInv, Waits
<1>f. ASSUME NEW t \in Tasks, NEW p \in {"idle", "backoff"}, OpenFails(t, p) PROVE RoleInv'
  <2> DEFINE q == [pc EXCEPT ![t] = p]
  <2>1. Cancellable(t) \in SUBSET Reconnects /\ q \in [Tasks -> Places] /\ Cancelled(Cancellable(t), q)
    BY <1>f DEF Cancellable, TypeOK, Places, OpenFails
  <2>2. \A r \in Reconnects : q[r] \notin Waits
    BY <1>r DEF TypeOK, RoleInv, Waits
  <2> QED
    BY <1>c, <2>1, <2>2
<1>1. ASSUME NEW s \in Sockets, ListenBegins(s) \/ ListenLoses(s) PROVE RoleInv'
  <2>1. pc' = pc \/ StartReconnect
    BY <1>1 DEF ListenBegins, ListenLoses, ListenEnds
  <2>2. CASE StartReconnect
    <3>1. PICK r \in Reconnects : pc'[r] = "start" /\ Bystanders({r})
      BY <2>2, StartMoves
    <3> QED
      BY <1>m, <1>r, <3>1 DEF Waits
  <2>3. CASE pc' = pc
    BY <2>3 DEF RoleInv
  <2> QED
    BY <2>1, <2>2, <2>3
<1>2. ASSUME NEW t \in Tasks, OpenStep(t), ~OpenBreaks(t), ~OpenRefused(t) PROVE RoleInv'
  <2>1. PICK p \in OpeningPlaces \cup {"settle", "idle"} : pc' = [pc EXCEPT ![t] = p]
    BY <1>2 DEF OpenStep, OpenBegins, OpenCloses, OpenConnects, OpenAnswered, OpenEnds, OpeningPlaces
  <2>2. p \notin Waits
    BY DEF OpeningPlaces, Waits
  <2> QED
    BY <1>a, <2>1, <2>2
<1>3. ASSUME NEW t \in Tasks, OpenBreaks(t) PROVE RoleInv'
  BY <1>3, <1>f DEF OpenBreaks
<1>4. ASSUME NEW t \in Tasks, OpenRefused(t) PROVE RoleInv'
  <2> DEFINE q == [x \in Tasks |-> IF x \in Cancellable(t) \cup {t} THEN "idle" ELSE pc[x]]
  <2>1. q \in [Tasks -> Places] /\ \A r \in Reconnects : q[r] \notin Waits
    BY <1>r DEF TypeOK, Places, RoleInv, Waits
  <2>2. OpenFails(t, "idle") \/ Notified(q)
    BY <1>4 DEF OpenRefused
  <2> HIDE DEF q
  <2> QED
    BY <1>f, <1>q, <2>1, <2>2
<1>5. ASSUME NEW r \in Reconnects, ReconnectStep(r) PROVE RoleInv'
  <2>1. Bystanders({r}) /\ pc'[r] \notin Waits
    BY <1>5, ReconnectMoves DEF Outcome, Waits
  <2> QED
    BY <1>m, <1>r, <2>1
<1>6. ASSUME NEW e \in Emitters, EmitStep(e) PROVE RoleInv'
  <2>1. \E p : pc' = [pc EXCEPT ![e] = p]
    BY <1>6 DEF EmitStep, Emit, EmitWakes, EmitTimesOut
  <2> QED
    BY <1>a, <1>e, <2>1
<1>7. CASE DisconnectEnds
  <2>1. Cancellable(NoTask) \in SUBSET Reconnects /\ pc \in [Tasks -> Places] /\ Cancelled(Cancellable(NoTask), pc)
    BY <1>7 DEF Cancellable, TypeOK, DisconnectEnds
  <2> QED
    BY <1>c, <2>1 DEF RoleInv
<1>8. CASE DisconnectBegins \/ SocketDrops \/ Heals \/ Lasts \/ UNCHANGED vars
  BY <1>8 DEF DisconnectBegins, SocketDrops, Heals, Lasts, vars, RoleInv
<1> QED
  BY <1>1, <1>2, <1>3, <1>4, <1>5, <1>6, <1>7, <1>8 DEF Next, ListenStep

\* Every step keeps reconnect tasks that have not begun from finding _closed set.
LEMMA StartStep == Undisturbed /\ IInv /\ UserInv /\ StartInv /\ [Next]_vars => StartInv'
<1> SUFFICES ASSUME Undisturbed, IInv, UserInv, StartInv, [Next]_vars PROVE StartInv'
  OBVIOUS
<1>i. TypeOK /\ SocketHeld
  BY DEF IInv
<1>u. user = "active" /\ ~MayDisconnect /\ Emitters = {}
  BY <1>i DEF Undisturbed, UserInv, TypeOK
<1>q. ASSUME closed' => closed, \A r \in Reconnects : pc'[r] = "start" => pc[r] = "start" PROVE StartInv'
  BY <1>q DEF StartInv
<1>1. ASSUME NEW s \in Sockets, ListenBegins(s) PROVE StartInv'
  BY <1>1 DEF ListenBegins, StartInv
<1>2. ASSUME NEW s \in Sockets, ListenLoses(s) PROVE StartInv'
  <2>1. closed' = closed /\ ListenEnds(closed)
    BY <1>2 DEF ListenLoses
  <2> QED
    BY <1>q, <2>1 DEF ListenEnds, StartInv
<1>3. ASSUME NEW t \in Tasks, OpenStep(t) PROVE StartInv'
  <2>1. CASE ~OpenRefused(t)
    BY <1>3, <1>q, <2>1, OpenMoves DEF Tasks
  <2>2. CASE OpenRefused(t)
    <3>1. t \in Reconnects /\ t \notin Emitters
      BY <1>u DEF Tasks
    <3> DEFINE q == [x \in Tasks |-> IF x \in Cancellable(t) \cup {t} THEN "idle" ELSE pc[x]]
    <3>2. Prompt /\ Notified(q)
      BY <2>2, <3>1 DEF OpenRefused
    <3>3. \A r \in Reconnects : pc[r] # "start"
      BY <1>i, <3>2, PromptFacts
    <3>4. q \in [Tasks -> Places]
      BY <1>i DEF TypeOK, Places
    <3>5. \A x \in Tasks : q[x] = "idle" \/ q[x] = pc[x]
      OBVIOUS
    <3>6. pc' = Waiters(q, "woken")
      BY <3>2 DEF Notified
    <3> HIDE DEF q
    <3>7. \A x \in Tasks : pc'[x] = q[x] \/ pc'[x] = "woken"
      BY <3>4, <3>6, WaitersFacts
    <3>8. \A r \in Reconnects : pc'[r] # "start"
      BY <3>3, <3>5, <3>7 DEF Tasks
    <3> QED
      BY <3>8 DEF StartInv
  <2> QED
    BY <2>1, <2>2
<1>4. ASSUME NEW r \in Reconnects, ReconnectStep(r) PROVE StartInv'
  <2>1. Bystanders({r}) /\ Outcome(r)
    BY <1>4, <1>i, ReconnectMoves
  <2>2. pc'[r] # "start"
    BY <2>1 DEF Outcome
  <2>3. \A x \in Reconnects : pc'[x] = "start" => pc[x] = "start"
    BY <2>1, <2>2 DEF Bystanders, Tasks
  <2>4. (closed' => closed) \/ Prompt
    BY <2>1 DEF Outcome
  <2>5. CASE Prompt
    BY <1>i, <2>3, <2>5, PromptFacts DEF StartInv
  <2> QED
    BY <1>q, <2>3, <2>4, <2>5
<1>5. CASE SocketDrops \/ Heals \/ Lasts \/ UNCHANGED vars
  BY <1>5, <1>q DEF SocketDrops, Heals, Lasts, vars
<1> QED
  BY <1>1, <1>2, <1>3, <1>4, <1>5, <1>u DEF Next, ListenStep, DisconnectBegins, DisconnectEnds

\* Every step leaves a loss with a listen task or a reconnect task.
LEMMA LossStep ==
  Undisturbed /\ IInv /\ UserInv /\ HeardInv /\ StartInv /\ LossInv /\ [Next]_vars => LossInv'
<1> SUFFICES ASSUME Undisturbed, IInv, UserInv, HeardInv, StartInv, LossInv, [Next]_vars PROVE LossInv'
  OBVIOUS
<1>i. TypeOK /\ SocketHeld
  BY DEF IInv
<1>u. user = "active" /\ ~MayDisconnect /\ Emitters = {}
  BY <1>i DEF Undisturbed, UserInv, TypeOK
<1>w. ASSUME Working' PROVE LossInv'
  BY <1>w DEF LossInv
<1>p. ASSUME pc' = pc PROVE Working' <=> Working
  BY <1>p DEF Working
<1>k. ASSUME Linked, UNCHANGED <<sock, open>> PROVE LossInv'
  <2>1. Linked' /\ sock' # NoSocket
    BY <1>i, <1>k, LinkedFacts DEF Linked
  <2> QED
    BY <2>1 DEF LossInv
<1>s. ASSUME StartReconnect PROVE LossInv'
  BY <1>i, <1>s, <1>w, StartMoves, AtWork
<1>1. ASSUME NEW s \in Sockets, ListenBegins(s) PROVE LossInv'
  <2>1. UNCHANGED <<sock, open>> /\ ~Unborn
    BY <1>1 DEF ListenBegins, Unborn
  <2>2. CASE ~Linked
    <3>1. ListenEnds(FALSE)
      BY <1>1, <2>2 DEF ListenBegins
    <3>2. CASE sock = NoSocket
      <4>1. Working /\ pc' = pc
        BY <2>1, <3>1, <3>2 DEF LossInv, ListenEnds
      <4> QED
        BY <1>p, <1>w, <4>1
    <3>3. CASE sock # NoSocket
      BY <1>s, <2>2, <3>1, <3>3 DEF ListenEnds
    <3> QED
      BY <3>2, <3>3
  <2> QED
    BY <1>k, <2>1, <2>2
<1>2. ASSUME NEW s \in Sockets, ListenLoses(s) PROVE LossInv'
  <2>1. /\ UNCHANGED <<sock, open, closed>> /\ ListenEnds(closed)
        /\ listener' = [listener EXCEPT ![s] = "none"]
    BY <1>2 DEF ListenLoses
  <2>2. CASE ~Linked /\ pc' = pc /\ (closed \/ sock = NoSocket)
    <3>1. Working' <=> Working
      BY <1>p, <2>2
    <3>2. Unborn => Unborn'
      BY <1>i, <2>1 DEF TypeOK, Unborn
    <3>3. ~closed => Working
      BY <2>2 DEF LossInv
    <3> QED
      BY <2>1, <3>1, <3>2, <3>3 DEF LossInv
  <2> QED
    BY <1>k, <1>s, <2>1, <2>2 DEF ListenEnds
<1>3. ASSUME NEW t \in Tasks, OpenStep(t) PROVE LossInv'
  <2>1. CASE ~OpenRefused(t)
    BY <1>3, <1>w, <2>1, OpenMoves, AtWork
  <2>2. CASE OpenRefused(t)
    <3>1. Linked /\ UNCHANGED <<sock, open>>
      BY <2>2 DEF OpenRefused, linkVars
    <3> QED
      BY <1>k, <3>1
  <2> QED
    BY <2>1, <2>2
<1>4. ASSUME NEW r \in Reconnects, ReconnectStep(r) PROVE LossInv'
  <2>1. Outcome(r) /\ UNCHANGED <<sock, open, listener>>
    BY <1>4, <1>i, ReconnectMoves
  <2>2. CASE closed' /\ Prompt
    <3>1. Unborn'
      BY <1>i, <2>1, <2>2, PromptFacts DEF Unborn
    <3> QED
      BY <2>2, <3>1 DEF LossInv
  <2>3. CASE pc'[r] # "idle"
    BY <1>w, <2>3, AtWork
  <2>4. pc'[r] # "idle" \/ Linked \/ (closed' /\ Prompt)
    BY <2>1 DEF Outcome, StartInv
  <2> QED
    BY <1>k, <2>1, <2>2, <2>3, <2>4
<1>5. CASE SocketDrops
  <2>1. Linked /\ UNCHANGED <<sock, listener, closed, pc>>
    BY <1>5 DEF SocketDrops
  <2>2. sock \in Sockets /\ sock # NoSocket
    BY <1>i, <2>1, LinkedFacts
  <2>3. CASE \E t \in Tasks : pc[t] = "handshake"
    <3>1. Working
      BY <1>u, <2>3 DEF Working, Tasks
    <3> QED
      BY <1>p, <1>w, <2>1, <3>1
  <2> QED
    BY <2>1, <2>2, <2>3 DEF HeardInv, LossInv
<1>6. CASE Heals \/ Lasts \/ UNCHANGED vars
  <2>1. UNCHANGED <<sock, open, listener, closed, pc>>
    BY <1>6 DEF Heals, Lasts, linkVars, vars
  <2> QED
    BY <2>1 DEF LossInv, Linked, Working, Unborn
<1> QED
  BY <1>1, <1>2, <1>3, <1>4, <1>5, <1>6, <1>u DEF Next, ListenStep, DisconnectBegins, DisconnectEnds

-----------------------------------------------------------------------------
(* Who sets the event *)

\* Every step leaves the event with a task that will set it.
LEMMA EventStep ==
  Undisturbed /\ IInv /\ UserInv /\ RegInv /\ EventInv /\ [Next]_vars => EventInv'
<1> SUFFICES ASSUME Undisturbed, IInv, UserInv, RegInv, EventInv, [Next]_vars PROVE EventInv'
  OBVIOUS
<1>i. TypeOK /\ LockHeld
  BY DEF IInv
<1>u. user = "active" /\ ~MayDisconnect /\ Emitters = {} /\ Tasks = Reconnects
  BY <1>i DEF Undisturbed, UserInv, TypeOK, Tasks
<1>0. ASSUME ~event' PROVE EventInv'
  BY <1>0 DEF EventInv
<1>w. ASSUME NEW r \in Reconnects, pc'[r] \notin {"idle", "backoff"}, ~closed' PROVE EventInv'
  BY <1>w DEF EventInv, Working
<1>q. ASSUME UNCHANGED <<event, pc>>, closed' => closed, Linked' => Linked PROVE EventInv'
  BY <1>q DEF EventInv, Working
<1>s. ASSUME StartReconnect, ~closed' PROVE EventInv'
  BY <1>i, <1>s, <1>w, StartMoves
<1>1. ASSUME NEW s \in Sockets, ListenBegins(s) PROVE EventInv'
  <2>1. closed' = FALSE /\ UNCHANGED <<sock, open>>
    BY <1>1 DEF ListenBegins
  <2>2. UNCHANGED <<event, pc>> \/ StartReconnect
    BY <1>1 DEF ListenBegins, ListenEnds
  <2> QED
    BY <1>q, <1>s, <2>1, <2>2 DEF Linked
<1>2. ASSUME NEW s \in Sockets, ListenLoses(s) PROVE EventInv'
  <2>1. UNCHANGED <<sock, open, closed>>
    BY <1>2 DEF ListenLoses
  <2>2. UNCHANGED <<event, pc>> \/ (StartReconnect /\ ~closed)
    BY <1>2 DEF ListenLoses, ListenEnds
  <2> QED
    BY <1>q, <1>s, <2>1, <2>2 DEF Linked
<1>3. ASSUME NEW t \in Tasks, OpenStep(t) PROVE EventInv'
  <2>1. CASE ~OpenRefused(t)
    <3>1. /\ t \in Reconnects /\ UNCHANGED closed /\ pc'[t] # "idle" /\ (event' => event)
          /\ pc'[t] = "backoff" => ~Linked'
      BY <1>3, <2>1, OpenMoves
    <3>2. Working'
      BY <3>1, AtWork
    <3>3. event' => ~closed'
      BY <3>1 DEF EventInv
    <3> QED
      BY <3>1, <3>2, <3>3 DEF EventInv
  <2>2. CASE OpenRefused(t)
    <3>1. ~event'
      BY <1>u, <2>2 DEF OpenRefused, Notified
    <3> QED
      BY <1>0, <3>1
  <2> QED
    BY <2>1, <2>2
<1>4. ASSUME NEW r \in Reconnects, ReconnectStep(r) PROVE EventInv'
  <2>1. /\ Bystanders({r}) /\ Outcome(r) /\ UNCHANGED <<sock, open, listener, lock, reg_ok>>
        /\ pc[r] \in {"start", "delay", "settle", "backoff"}
    BY <1>4, <1>i, ReconnectMoves
  <2>l. Linked' = Linked
    BY <2>1 DEF Linked
  <2> SUFFICES ASSUME event' PROVE EventInv'
    BY <1>0
  <2>2. event /\ closed' = closed
    BY <2>1 DEF Outcome, EventInv
  <2>3. ~closed /\ ~closed' /\ Working /\ (Linked => \E x \in Reconnects : pc[x] \notin {"idle", "backoff"})
    BY <2>2 DEF EventInv
  <2>x. ASSUME NEW x \in Reconnects, x # r, pc[x] \notin {"idle", "backoff"} PROVE EventInv'
    <3>1. pc'[x] = pc[x] \/ pc'[x] \in {"woken", "orphaned"}
      BY <1>u, <2>1, <2>x DEF Bystanders
    <3>2. pc'[x] \notin {"idle", "backoff"}
      BY <2>x, <3>1
    <3> QED
      BY <1>w, <2>3, <2>x, <3>2
  <2>4. CASE pc'[r] \in {"lock", "delay"}
    BY <1>w, <2>3, <2>4
  <2>5. CASE pc'[r] = "backoff" /\ ~(Linked /\ reg_ok)
    <3>1. CASE ~Linked
      <4>1. Working'
        BY <2>5, AtWork
      <4> QED
        BY <2>3, <2>l, <3>1, <4>1 DEF EventInv
    <3>2. CASE Linked
      <4>1. lock # NoTask
        BY <2>3, <2>5, <3>2 DEF RegInv
      <4>2. lock \in Reconnects /\ Opening(lock)
        BY <1>i, <1>u, <4>1 DEF TypeOK, LockHeld
      <4>3. lock # r /\ pc[lock] \notin {"idle", "backoff"}
        BY <2>1, <4>2 DEF Opening
      <4> QED
        BY <2>x, <4>2, <4>3
    <3> QED
      BY <3>1, <3>2
  <2>6. CASE Linked /\ pc[r] = "backoff"
    <3>1. PICK x \in Reconnects : pc[x] \notin {"idle", "backoff"}
      BY <2>3, <2>6
    <3>2. x # r
      BY <2>6, <3>1
    <3> QED
      BY <2>x, <3>1, <3>2
  <2> QED
    BY <2>1, <2>3, <2>4, <2>5, <2>6 DEF Outcome
<1>5. CASE SocketDrops \/ Heals \/ Lasts \/ UNCHANGED vars
  <2>1. UNCHANGED <<sock, event, pc, closed>> /\ open' \subseteq open
    BY <1>5 DEF SocketDrops, Heals, Lasts, linkVars, vars
  <2>2. Linked' => Linked
    BY <2>1 DEF Linked
  <2> QED
    BY <1>q, <2>1, <2>2
<1> QED
  BY <1>1, <1>2, <1>3, <1>4, <1>5, <1>u DEF Next, ListenStep, DisconnectBegins, DisconnectEnds

-----------------------------------------------------------------------------
(* The theorems *)

LEMMA InitIInv == Init => IInv
<1> SUFFICES ASSUME Init PROVE IInv
  OBVIOUS
<1> USE IdsAssumption, RetryAssumption
<1>1. \A t \in Tasks : pc[t] = "idle" /\ t # NoTask
  BY DEF Init, Tasks
<1>2. TypeOK
  <2>1. listener \in [Sockets -> {"none", "created", "recv"}]
    BY DEF Init
  <2>2. pc \in [Tasks -> Places]
    BY DEF Init, Places
  <2>3. 0 \in 0..(MaxRetry - 1) /\ retry \in [Reconnects -> 0..(MaxRetry - 1)]
    BY DEF Init
  <2>4. flaps \in 0..MaxFlaps
    BY DEF Init
  <2> QED
    BY <2>1, <2>2, <2>3, <2>4 DEF Init, TypeOK
<1> QED
  BY <1>1, <1>2 DEF Init, IInv, LockHeld, Opening, SocketHeld, NothingOpen

LEMMA IInvInvariant == Spec => []IInv
<1>1. IInv /\ [Next]_vars => IInv'
  <2> SUFFICES ASSUME IInv, [Next]_vars PROVE IInv'
    OBVIOUS
  <2>1. TypeOK'
    BY TypeStep DEF IInv
  <2>2. LockHeld'
    BY LockStep DEF IInv
  <2>3. SocketHeld' /\ NothingOpen'
    BY SocketStep
  <2> QED
    BY <2>1, <2>2, <2>3 DEF IInv
<1> QED
  BY InitIInv, <1>1, PTL DEF Spec

\* The type invariant: whatever the listen task, the reconnect tasks, emit_message
\* and disconnect() do, and however often they retry, self._websocket, the lock,
\* the event, the retry counters and the task registry stay of their types.
THEOREM ConnectionTypeCorrect == Spec => []TypeOK
BY IInvInvariant, PTL DEF IInv

\* _connecting_lock is held by the task in open() and by no other, also after
\* open() has raised and after _cleanup has cancelled tasks that held it.
THEOREM LockNeverLost == Spec => []LockHeld
BY IInvInvariant, PTL DEF IInv

\* No websocket but self._websocket is open: open() replaces none that it has not
\* closed, however the attempts of several tasks follow one another.
THEOREM NoSocketLeaked == Spec => []SocketHeld
BY IInvInvariant, PTL DEF IInv

LEMMA InitRecovery == Init => UserInv /\ HeardInv /\ RegInv /\ RoleInv /\ StartInv /\ LossInv /\ EventInv
<1> SUFFICES ASSUME Init PROVE UserInv /\ HeardInv /\ RegInv /\ RoleInv /\ StartInv /\ LossInv /\ EventInv
  OBVIOUS
<1>1. /\ sock \in Sockets /\ sock # NoSocket /\ Linked /\ listener[sock] = "created"
      /\ ~closed /\ ~event /\ reg_ok /\ user = "active"
  BY IdsAssumption DEF Init, Linked, IdsAssumption
<1>2. \A r \in Reconnects : pc[r] = "idle"
  BY DEF Init, Tasks
<1> QED
  BY <1>1, <1>2 DEF UserInv, HeardInv, RegInv, RoleInv, Waits, StartInv, LossInv, EventInv

\* What holds as long as the server answers in time and no emitter is refused,
\* whatever disconnect() does.
LEMMA HeardInvariant == ASSUME Hears PROVE Spec => [](IInv /\ UserInv /\ HeardInv)
<1>1. IInv /\ UserInv /\ HeardInv /\ [Next]_vars => UserInv' /\ HeardInv'
  BY UserStep, HeardStep
<1> QED
  BY InitRecovery, IInvInvariant, <1>1, PTL DEF Spec

\* Once open() has returned, and however often the link is lost and several tasks
\* open it again, _listen reads what the server sends over an open websocket: a
\* handshake that is on its way ends with a listen task or with a socket that is
\* closed.  Emitters and disconnect() may interfere.
THEOREM LinkIsHeard ==
  ASSUME "stall" \notin Faults, Emitters = {} \/ "refuse" \notin Faults
  PROVE  Spec => []LinkHeard
<1>1. Hears
  BY DEF Hears
<1>2. IInv /\ UserInv /\ HeardInv => LinkHeard
  BY DEF HeardInv, LinkHeard
<1> QED
  BY <1>1, <1>2, HeardInvariant, PTL

\* As long as only reconnect tasks use the connection, no loss of the link is
\* forgotten: _listen's finally clause finds it, although _closed may be set and a
\* listen task that has not begun resets it, or a reconnect task works on it.
THEOREM LossIsNoticed ==
  ASSUME "stall" \notin Faults, Emitters = {}, ~MayDisconnect
  PROVE  Spec => []LossNoticed
<1>1. Hears /\ Undisturbed
  BY DEF Hears, Undisturbed
<1>2. (IInv /\ UserInv /\ HeardInv) /\ RoleInv /\ StartInv /\ LossInv /\ [Next]_vars
        => RoleInv' /\ StartInv' /\ LossInv'
  BY <1>1, RoleStep, StartStep, LossStep DEF IInv
<1>3. RoleInv /\ LossInv => LossNoticed
  BY DEF RoleInv, Waits, LossInv, LossNoticed, Working, Tasks
<1> QED
  BY <1>1, <1>2, <1>3, InitRecovery, HeardInvariant, PTL DEF Spec

\* _reconnected_event is set by some reconnect task: the one that opens the link
\* notifies those that wait, although others end without a word after their backoff.
THEOREM EventIsSet ==
  ASSUME "stall" \notin Faults, "register" \notin Faults, Emitters = {}, ~MayDisconnect
  PROVE  Spec => []EventHasTask
<1>1. Hears /\ Registers /\ Undisturbed
  BY DEF Hears, Registers, Undisturbed
<1>2. (IInv /\ UserInv /\ HeardInv) /\ RegInv /\ EventInv /\ [Next]_vars => RegInv' /\ EventInv'
  BY <1>1, RegStep, EventStep
<1>3. EventInv => EventHasTask
  BY DEF EventInv, EventHasTask
<1> QED
  BY <1>1, <1>2, <1>3, InitRecovery, HeardInvariant, PTL DEF Spec

=============================================================================
