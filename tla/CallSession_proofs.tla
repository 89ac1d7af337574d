------------------------- MODULE CallSession_proofs -------------------------
(***************************************************************************)
(* Proofs about CallSession, for any sets of calls and peers: its type     *)
(* invariant, the three safety invariants the runs check, the action       *)
(* property of a peer's disconnection, the contract of a call, and that    *)
(* every promise settles if the tasks run.                                 *)
(***************************************************************************)
EXTENDS CallSession, TLAPS

\* What the invariants need of the life of a call: before it is made it has
\* no session, and a session belongs to a call whose target is a peer.
CallsMade ==
  \A c \in Calls : /\ kind[c] = "none" => fut[c] = "none" /\ emit_task[c] = "none"
                   /\ c \in store => kind[c] # "none" /\ target[c] \in Peers

\* The inductive invariant.
IInv == TypeOK /\ CallsMade /\ IndexMatchesStore /\ PendingCanSettle /\ ClosedHoldsNothing

-----------------------------------------------------------------------------
(* Lemmas about the helpers *)

\* Settling a set of calls leaves the other futures alone and no future of
\* the set pending (resolve and reject of __call__).
LEMMA SettledFacts ==
  ASSUME NEW f \in [Calls -> Outcomes \cup {"none", "pending"}],
         NEW S, NEW outcome \in Outcomes
  PROVE  /\ Settled(f, S, outcome) \in [Calls -> Outcomes \cup {"none", "pending"}]
         /\ \A c \in Calls : Settled(f, S, outcome)[c] = "pending" => f[c] = "pending" /\ c \notin S
         /\ \A c \in Calls : Settled(f, S, outcome)[c] = "none" <=> f[c] = "none"
BY DEF Settled, Outcomes

\* Removing sessions from the store and, beforehand, from the index keeps the
\* two in step (_remove_from_target_id_index before every deletion).
LEMMA UnindexedFacts ==
  ASSUME TypeOK, IndexMatchesStore, NEW S
  PROVE  /\ Unindexed(index, S) \in [Peers -> SUBSET Calls]
         /\ \A p \in Peers : Unindexed(index, S)[p] = {c \in store \ S : target[c] = p}
BY DEF TypeOK, IndexMatchesStore, Unindexed

\* The sessions found through the index are those of the store.
LEMMA SessionsOfFacts ==
  ASSUME TypeOK, IndexMatchesStore, NEW p \in Peers
  PROVE  SessionsOf(p) = {c \in store : target[c] = p}
BY DEF TypeOK, IndexMatchesStore, SessionsOf

-----------------------------------------------------------------------------
(* Type correctness *)

LEMMA InitIInv == Init => IInv
<1> SUFFICES ASSUME Init PROVE IInv
  OBVIOUS
<1>1. TypeOK
  BY DEF Init, TypeOK, Kinds, Outcomes
<1>2. CallsMade /\ PendingCanSettle
  BY DEF Init, CallsMade, PendingCanSettle, HasPromise
<1>3. IndexMatchesStore /\ ClosedHoldsNothing
  BY DEF Init, IndexMatchesStore, ClosedHoldsNothing
<1> QED
  BY <1>1, <1>2, <1>3 DEF IInv

LEMMA TypeInductive == TypeOK /\ [Next]_vars => TypeOK'
<1> SUFFICES ASSUME TypeOK, [Next]_vars PROVE TypeOK'
  OBVIOUS
<1> USE DEF TypeOK, Settled, Cleared, Started, Forget, Unindexed, RejectEntries, Outcomes, envVars, rpcVars
<1>1. ASSUME NEW c \in Calls, NEW k \in Kinds, NEW p \in Peers, Invoke(c, k, p) PROVE TypeOK'
  BY <1>1 DEF Invoke
<1>2. ASSUME NEW c \in Calls, NEW k \in Kinds, NEW p \in Peers, InvokeClosed(c, k, p) PROVE TypeOK'
  BY <1>2 DEF InvokeClosed
<1>3. ASSUME NEW c \in Calls, UserCancels(c) PROVE TypeOK'
  BY <1>3 DEF UserCancels
<1>4. CASE Close
  BY <1>4 DEF Close
<1>5. ASSUME NEW c \in Calls, Transmit(c) PROVE TypeOK'
  BY <1>5 DEF Transmit
<1>6. ASSUME NEW c \in Calls, EmitSucceeded(c) PROVE TypeOK'
  BY <1>6 DEF EmitSucceeded
<1>7. ASSUME NEW c \in Calls, EmitFailed(c) PROVE TypeOK'
  BY <1>7 DEF EmitFailed
<1>8. ASSUME NEW c \in Calls, TimerElapses(c) PROVE TypeOK'
  BY <1>8 DEF TimerElapses
<1>9. ASSUME NEW c \in Calls, Timeout(c) PROVE TypeOK'
  BY <1>9 DEF Timeout
<1>10. ASSUME NEW c \in Calls, SessionAges(c) PROVE TypeOK'
  BY <1>10 DEF SessionAges
<1>11. ASSUME NEW c \in Calls, ReceiveAnswer(c) PROVE TypeOK'
  BY <1>11 DEF ReceiveAnswer
<1>12. ASSUME NEW c \in Calls, ReceiveHeartbeat(c) PROVE TypeOK'
  BY <1>12 DEF ReceiveHeartbeat
<1>13. ASSUME NEW c \in Calls, ReceiveCallback(c) PROVE TypeOK'
  BY <1>13 DEF ReceiveCallback
<1>14. ASSUME NEW c \in Calls, ReceivePeerNotFound(c) PROVE TypeOK'
  BY <1>14 DEF ReceivePeerNotFound
<1>15. ASSUME NEW p \in Peers, ReceiveClientDisconnected(p) PROVE TypeOK'
  BY <1>15 DEF ReceiveClientDisconnected, CleanupSessionsForClient
<1>16. ASSUME NEW p \in Peers, ManagerReplaced(p) PROVE TypeOK'
  BY <1>16 DEF ManagerReplaced, CleanupSessionsForClient
<1>17. CASE ConnectionLost
  BY <1>17 DEF ConnectionLost
<1>18. CASE SessionGC
  BY <1>18 DEF SessionGC
<1>19. ASSUME NEW c \in Calls, PeerAnswers(c) PROVE TypeOK'
  BY <1>19 DEF PeerAnswers, Reply, Answer
<1>20. CASE UNCHANGED vars
  BY <1>20 DEF vars
<1> QED
  BY <1>1, <1>2, <1>3, <1>4, <1>5, <1>6, <1>7, <1>8, <1>9, <1>10, <1>11, <1>12, <1>13, <1>14,
     <1>15, <1>16, <1>17, <1>18, <1>19, <1>20
     DEF Next, UserStep, CallStep, EventStep

THEOREM TypeCorrect == Spec => []TypeOK
<1>1. Init => TypeOK
  BY InitIInv DEF IInv
<1> QED
  BY <1>1, TypeInductive, PTL DEF Spec

-----------------------------------------------------------------------------
(* The effect of each step on what the invariants speak of.  Most steps     *)
(* either create one session, or settle and forget a set of them, or touch  *)
(* neither the store nor a pending call.                                    *)

\* A step that leaves calls, store, index, futures and the closed flag alone
\* and stops no timer keeps the invariants.
LEMMA QuietStep ==
  ASSUME IInv, TypeOK',
         UNCHANGED <<kind, target, fut, store, index, closed>>,
         \A c \in Calls : timer'[c] = "off" => timer[c] = "off",
         \A c \in Calls : emit_task'[c] = emit_task[c] \/ (emit_task[c] = "sending" /\ emit_task'[c] = "sent")
  PROVE  IInv'
BY DEF IInv, CallsMade, IndexMatchesStore, PendingCanSettle, ClosedHoldsNothing, HasPromise

\* A step that forgets the sessions S, with their index entries, and leaves no
\* call of S with a promise pending, keeps the invariants.
LEMMA ForgettingStep ==
  ASSUME IInv, TypeOK', NEW S,
         UNCHANGED <<kind, target, closed>>,
         store' = store \ S,
         \A p \in Peers : index'[p] = {c \in store \ S : target[c] = p},
         \A c \in Calls : fut'[c] = "pending" => fut[c] = "pending" /\ (c \in S => ~HasPromise(c)),
         \A c \in Calls : kind[c] = "none" => fut'[c] = "none" /\ emit_task'[c] = "none",
         \A c \in Calls : fut'[c] = "pending" /\ HasPromise(c) =>
            \/ emit_task'[c] \in {"sending", "sent"} /\ emit_task[c] \in {"sending", "sent"}
            \/ timer'[c] # "off"
  PROVE  IInv'
<1>1. CallsMade'
  BY DEF IInv, CallsMade
<1>2. IndexMatchesStore'
  BY DEF IInv, IndexMatchesStore
<1>3. PendingCanSettle'
  BY DEF IInv, PendingCanSettle, HasPromise
<1>4. ClosedHoldsNothing'
  BY <1>2 DEF IInv, ClosedHoldsNothing, IndexMatchesStore, HasPromise
<1> QED
  BY <1>1, <1>2, <1>3, <1>4 DEF IInv

LEMMA StepIInv == IInv /\ [Next]_vars => IInv'
<1> SUFFICES ASSUME IInv, [Next]_vars PROVE IInv'
  OBVIOUS
<1>t. TypeOK /\ TypeOK'
  BY TypeInductive DEF IInv
<1>i. IndexMatchesStore /\ CallsMade /\ PendingCanSettle
  BY DEF IInv
<1>u. ASSUME NEW S PROVE \A p \in Peers : Unindexed(index, S)[p] = {c \in store \ S : target[c] = p}
  BY <1>t, <1>i, UnindexedFacts
<1>1. ASSUME NEW c \in Calls, NEW k \in Kinds, NEW p \in Peers, Invoke(c, k, p) PROVE IInv'
  <2> USE <1>1, <1>t, <1>i DEF Invoke, TypeOK, Kinds
  <2>1. CallsMade'
    BY DEF CallsMade
  <2>2. IndexMatchesStore'
    BY DEF IndexMatchesStore, CallsMade
  <2>3. PendingCanSettle'
    BY DEF PendingCanSettle, HasPromise
  <2>4. ClosedHoldsNothing'
    BY DEF ClosedHoldsNothing
  <2> QED
    BY <2>1, <2>2, <2>3, <2>4 DEF IInv
<1>2. ASSUME NEW c \in Calls, NEW k \in Kinds, NEW p \in Peers, InvokeClosed(c, k, p) PROVE IInv'
  <2> USE <1>2, <1>t, <1>i DEF InvokeClosed, TypeOK, Kinds
  <2>0. ClosedHoldsNothing
    BY DEF IInv
  <2>1. CallsMade'
    BY DEF CallsMade
  <2>2. IndexMatchesStore'
    BY <2>0 DEF IndexMatchesStore, ClosedHoldsNothing
  <2>3. PendingCanSettle'
    BY DEF PendingCanSettle, HasPromise
  <2>4. ClosedHoldsNothing'
    BY <2>0 DEF ClosedHoldsNothing, HasPromise
  <2> QED
    BY <2>1, <2>2, <2>3, <2>4 DEF IInv
<1>3. ASSUME NEW c \in Calls, UserCancels(c) PROVE IInv'
  <2> DEFINE None == {}
  <2>1. store' = store \ None /\ \A p \in Peers : index'[p] = {d \in store \ None : target[d] = p}
    BY <1>3, <1>i DEF UserCancels, IndexMatchesStore
  <2>2. \A d \in Calls : /\ fut'[d] = "pending" => fut[d] = "pending" /\ (d \in None => ~HasPromise(d))
                         /\ fut'[d] = "none" <=> fut[d] = "none"
    BY <1>3, <1>t DEF UserCancels, TypeOK
  <2>3. UNCHANGED <<kind, target, closed, emit_task, timer>>
    BY <1>3 DEF UserCancels
  <2>4. \A d \in Calls : kind[d] = "none" => fut'[d] = "none" /\ emit_task'[d] = "none"
    BY <1>i, <2>2, <2>3 DEF CallsMade
  <2>5. \A d \in Calls : fut'[d] = "pending" /\ HasPromise(d) =>
           \/ emit_task'[d] \in {"sending", "sent"} /\ emit_task[d] \in {"sending", "sent"}
           \/ timer'[d] # "off"
    BY <1>i, <2>2, <2>3 DEF PendingCanSettle
  <2> HIDE DEF None
  <2> QED
    BY <1>t, <2>1, <2>2, <2>3, <2>4, <2>5, ForgettingStep
<1>4. CASE Close
  <2>1. /\ \A d \in Calls : fut'[d] = "pending" => fut[d] = "pending" /\ (d \in store => ~HasPromise(d))
        /\ \A d \in Calls : fut'[d] = "none" <=> fut[d] = "none"
    BY <1>4, <1>t DEF Close, RejectEntries, Settled, TypeOK
  <2>2. CallsMade'
    BY <1>4, <1>t, <1>i, <2>1 DEF Close, Forget, CallsMade, TypeOK
  <2>3. IndexMatchesStore'
    BY <1>4 DEF Close, Forget, IndexMatchesStore
  <2>4. \A d \in Calls : ~(HasPromise(d)' /\ fut'[d] = "pending")
    BY <1>4, <1>i, <2>1 DEF Close, PendingCanSettle, HasPromise
  <2>5. PendingCanSettle' /\ ClosedHoldsNothing'
    BY <1>4, <2>4 DEF Close, Forget, PendingCanSettle, ClosedHoldsNothing
  <2> QED
    BY <1>t, <2>2, <2>3, <2>5 DEF IInv
<1>5. ASSUME NEW c \in Calls, Transmit(c) PROVE IInv'
  BY <1>5, <1>t, QuietStep DEF Transmit, TypeOK
<1>6. ASSUME NEW c \in Calls, EmitSucceeded(c) PROVE IInv'
  <2>1. CASE HasPromise(c)
    <3>1. UNCHANGED <<kind, target, fut, store, index, closed>>
      BY <1>6, <2>1 DEF EmitSucceeded, HasPromise
    <3>2. timer' = [timer EXCEPT ![c] = "armed"] /\ emit_task' = [emit_task EXCEPT ![c] = "done"]
      BY <1>6, <2>1 DEF EmitSucceeded, Started
    <3>3. CallsMade' /\ PendingCanSettle'
      BY <1>6, <1>t, <1>i, <3>1, <3>2 DEF CallsMade, PendingCanSettle, TypeOK, HasPromise, EmitSucceeded
    <3>4. IndexMatchesStore' /\ ClosedHoldsNothing'
      BY <3>1 DEF IInv, IndexMatchesStore, ClosedHoldsNothing, HasPromise
    <3> QED
      BY <1>t, <3>3, <3>4 DEF IInv
  <2>2. CASE ~HasPromise(c)
    <3> DEFINE S == IF kind[c] = "oneway" THEN {c} ELSE {}
    <3>1. store' = store \ S /\ \A p \in Peers : index'[p] = {d \in store \ S : target[d] = p}
      <4>1. CASE kind[c] = "oneway"
        BY <1>6, <1>u, <4>1 DEF EmitSucceeded, Forget
      <4>2. CASE kind[c] # "oneway"
        BY <1>6, <1>i, <4>2 DEF EmitSucceeded, IndexMatchesStore
      <4> QED
        BY <4>1, <4>2
    <3>2. /\ UNCHANGED <<kind, target, closed, timer>>
          /\ fut' = Settled(fut, {c}, "resolved")
          /\ emit_task' = [emit_task EXCEPT ![c] = "done"]
          /\ emit_task[c] = "sent"
      BY <1>6, <2>2 DEF EmitSucceeded
    <3>3. \A d \in Calls : /\ fut'[d] = "pending" => fut[d] = "pending"
                           /\ fut'[d] = "none" <=> fut[d] = "none"
      BY <3>2, <1>t DEF Settled, TypeOK
    <3>4. \A d \in Calls : d \in S => ~HasPromise(d)
      BY DEF HasPromise
    <3>5. \A d \in Calls : kind[d] = "none" => fut'[d] = "none" /\ emit_task'[d] = "none"
      <4>1. \A d \in Calls : kind[d] = "none" => d # c
        BY <3>2, <1>i DEF CallsMade
      <4>2. \A d \in Calls : d # c => emit_task'[d] = emit_task[d]
        BY <3>2, <1>t DEF TypeOK
      <4> QED
        BY <3>3, <4>1, <4>2, <1>i DEF CallsMade
    <3>6. \A d \in Calls : fut'[d] = "pending" /\ HasPromise(d) =>
             \/ emit_task'[d] \in {"sending", "sent"} /\ emit_task[d] \in {"sending", "sent"}
             \/ timer'[d] # "off"
      <4> SUFFICES ASSUME NEW d \in Calls, fut'[d] = "pending", HasPromise(d)
                   PROVE  \/ emit_task'[d] \in {"sending", "sent"} /\ emit_task[d] \in {"sending", "sent"}
                          \/ timer'[d] # "off"
        OBVIOUS
      <4>1. emit_task[d] \in {"sending", "sent"} \/ timer[d] # "off"
        BY <3>3, <1>i DEF PendingCanSettle
      <4>2. d # c
        BY <2>2
      <4>3. emit_task'[d] = emit_task[d] /\ timer'[d] = timer[d]
        BY <3>2, <4>2, <1>t DEF TypeOK
      <4> QED
        BY <4>1, <4>3
    <3> HIDE DEF S
    <3> QED
      BY <1>t, <3>1, <3>2, <3>3, <3>4, <3>5, <3>6, ForgettingStep
  <2> QED
    BY <2>1, <2>2
<1>7. ASSUME NEW c \in Calls, EmitFailed(c) PROVE IInv'
  <2> DEFINE None == {}
  <2>1. store' = store \ None /\ \A p \in Peers : index'[p] = {d \in store \ None : target[d] = p}
    BY <1>7, <1>i DEF EmitFailed, IndexMatchesStore
  <2>2. /\ fut'[c] # "pending"
        /\ \A d \in Calls : fut'[d] = "pending" => fut[d] = "pending" /\ (d \in None => ~HasPromise(d))
        /\ \A d \in Calls : fut'[d] = "none" <=> fut[d] = "none"
    BY <1>7, <1>t DEF EmitFailed, Settled, TypeOK
  <2>3. \A d \in Calls : d # c => timer'[d] = timer[d] /\ emit_task'[d] = emit_task[d]
    BY <1>7, <1>t DEF EmitFailed, Cleared, TypeOK
  <2>4. \A d \in Calls : kind[d] = "none" => fut'[d] = "none" /\ emit_task'[d] = "none"
    BY <1>7, <1>i, <2>2, <2>3 DEF EmitFailed, CallsMade
  <2>5. \A d \in Calls : fut'[d] = "pending" /\ HasPromise(d) =>
           \/ emit_task'[d] \in {"sending", "sent"} /\ emit_task[d] \in {"sending", "sent"}
           \/ timer'[d] # "off"
    BY <1>i, <2>2, <2>3 DEF PendingCanSettle
  <2> QED
    <3>1. UNCHANGED <<kind, target, closed>>
      BY <1>7 DEF EmitFailed
    <3> HIDE DEF None
    <3> QED
      BY <1>t, <2>1, <2>2, <2>4, <2>5, <3>1, ForgettingStep
<1>8. ASSUME NEW c \in Calls, TimerElapses(c) PROVE IInv'
  BY <1>8, <1>t, QuietStep DEF TimerElapses, TypeOK
<1>10. ASSUME NEW c \in Calls, SessionAges(c) PROVE IInv'
  BY <1>10, <1>t, QuietStep DEF SessionAges
<1>12. ASSUME NEW c \in Calls, ReceiveHeartbeat(c) PROVE IInv'
  BY <1>12, <1>t, QuietStep DEF ReceiveHeartbeat, Started, TypeOK
<1>13. ASSUME NEW c \in Calls, ReceiveCallback(c) PROVE IInv'
  BY <1>13, <1>t, QuietStep DEF ReceiveCallback
\* The steps that settle and forget a set of sessions, emit tasks untouched.
<1>f. ASSUME NEW S, NEW R, NEW outcome \in Outcomes,
             UNCHANGED <<kind, target, closed, emit_task>>,
             store' = store \ S,
             \A p \in Peers : index'[p] = {d \in store \ S : target[d] = p},
             fut' = Settled(fut, R, outcome),
             \A d \in Calls : d \in S /\ HasPromise(d) => d \in R,
             \A d \in Calls : d \notin R => timer'[d] = timer[d] \/ ~HasPromise(d)
      PROVE  IInv'
  <2>1. /\ \A d \in Calls : fut'[d] = "pending" => fut[d] = "pending" /\ d \notin R
        /\ \A d \in Calls : fut'[d] = "none" <=> fut[d] = "none"
    BY <1>f, <1>t DEF Settled, TypeOK, Outcomes
  <2>2. \A d \in Calls : kind[d] = "none" => fut'[d] = "none" /\ emit_task'[d] = "none"
    BY <1>f, <1>i, <2>1 DEF CallsMade
  <2>3. \A d \in Calls : fut'[d] = "pending" /\ HasPromise(d) =>
           \/ emit_task'[d] \in {"sending", "sent"} /\ emit_task[d] \in {"sending", "sent"}
           \/ timer'[d] # "off"
    BY <1>f, <1>i, <2>1 DEF PendingCanSettle
  <2>4. \A d \in Calls : fut'[d] = "pending" => fut[d] = "pending" /\ (d \in S => ~HasPromise(d))
    BY <1>f, <2>1
  <2> QED
    BY <1>f, <1>t, <2>2, <2>3, <2>4, ForgettingStep
<1>9. ASSUME NEW c \in Calls, Timeout(c) PROVE IInv'
  BY <1>9, <1>u, <1>f DEF Timeout, Forget, Cleared, Outcomes
<1>11. ASSUME NEW c \in Calls, ReceiveAnswer(c) PROVE IInv'
  <2>1. PICK o \in Outcomes : fut' = Settled(fut, {c}, o)
    BY <1>11 DEF ReceiveAnswer, Outcomes
  <2>2. /\ UNCHANGED <<kind, target, closed, emit_task>>
        /\ store' = store \ {c}
        /\ \A d \in Calls : d \notin {c} => timer'[d] = timer[d] \/ ~HasPromise(d)
    BY <1>11, <1>t DEF ReceiveAnswer, Forget, Cleared, TypeOK
  <2>3. \A p \in Peers : index'[p] = {d \in store \ {c} : target[d] = p}
    BY <1>11, <1>u DEF ReceiveAnswer
  <2> QED
    BY <1>f, <2>1, <2>2, <2>3
<1>14. ASSUME NEW c \in Calls, ReceivePeerNotFound(c) PROVE IInv'
  <2> DEFINE p == target[c]
             S == SessionsOf(p) \cup ({c} \cap {d \in store : HasPromise(d)})
             R == {d \in S : HasPromise(d)}
  <2>1. \A q \in Peers : index'[q] = {d \in store \ S : target[d] = q}
    <3>1. index' = [Unindexed(index, S) EXCEPT ![p] = {}]
      BY <1>14 DEF ReceivePeerNotFound
    <3>2. \A q \in Peers : q = p => {d \in store \ S : target[d] = q} = {}
      BY <1>t, <1>i, SessionsOfFacts
    <3>3. Unindexed(index, S) \in [Peers -> SUBSET Calls]
      BY <1>t, <1>i, UnindexedFacts
    <3> HIDE DEF S, p
    <3> QED
      BY <3>1, <3>2, <3>3, <1>u
  <2>2. /\ UNCHANGED <<kind, target, closed, emit_task>>
        /\ store' = store \ S
        /\ fut' = Settled(fut, R, "rejected")
        /\ \A d \in Calls : d \notin R => timer'[d] = timer[d] \/ ~HasPromise(d)
    BY <1>14, <1>t DEF ReceivePeerNotFound, RejectEntries, Forget, Cleared, TypeOK
  <2> HIDE DEF S
  <2> QED
    BY <2>1, <2>2, <1>f DEF Outcomes
<1>c. ASSUME NEW p \in Peers, CleanupSessionsForClient(p),
             UNCHANGED <<kind, target, closed, emit_task>>
      PROVE  IInv'
  <2> DEFINE S == SessionsOf(p)
             R == {d \in S : HasPromise(d)}
  <2>1. \A q \in Peers : index'[q] = {d \in store \ S : target[d] = q}
    BY <1>c, <1>t, <1>i, SessionsOfFacts DEF CleanupSessionsForClient, IndexMatchesStore, TypeOK
  <2>2. /\ store' = store \ S
        /\ fut' = Settled(fut, R, "rejected")
        /\ \A d \in Calls : d \notin R => timer'[d] = timer[d] \/ ~HasPromise(d)
    BY <1>c, <1>t DEF CleanupSessionsForClient, RejectEntries, Forget, Cleared, TypeOK
  <2> HIDE DEF S
  <2> QED
    BY <1>c, <2>1, <2>2, <1>f DEF Outcomes
<1>15. ASSUME NEW p \in Peers, ReceiveClientDisconnected(p) PROVE IInv'
  BY <1>15, <1>c DEF ReceiveClientDisconnected
<1>16. ASSUME NEW p \in Peers, ManagerReplaced(p) PROVE IInv'
  BY <1>16, <1>c DEF ManagerReplaced
<1>17. CASE ConnectionLost
  <2> DEFINE R == {d \in store : HasPromise(d)}
  <2>1. /\ UNCHANGED <<kind, target, closed, emit_task>>
        /\ store' = store \ R
        /\ fut' = Settled(fut, R, "rejected")
        /\ \A d \in Calls : d \notin R => timer'[d] = timer[d] \/ ~HasPromise(d)
    BY <1>17, <1>t DEF ConnectionLost, RejectEntries, Forget, Cleared, TypeOK
  <2>2. index' = Unindexed(index, R)
    BY <1>17 DEF ConnectionLost
  <2> HIDE DEF R
  <2> QED
    BY <2>1, <2>2, <1>u, <1>f DEF Outcomes
<1>18. CASE SessionGC
  <2>1. /\ store' = store \ Swept
        /\ \A p \in Peers : index'[p] = {d \in store \ Swept : target[d] = p}
        /\ UNCHANGED <<kind, target, fut, timer, emit_task, closed>>
    BY <1>18, <1>u DEF SessionGC, Forget
  <2>2. fut' = Settled(fut, {}, "rejected")
    BY <2>1, <1>t DEF Settled, TypeOK
  <2>3. \A d \in Calls : d \in Swept => ~HasPromise(d)
    BY DEF Swept
  <2> QED
    BY <2>1, <2>2, <2>3, <1>f DEF Outcomes
<1>19. ASSUME NEW c \in Calls, PeerAnswers(c) PROVE IInv'
  BY <1>19, <1>t, QuietStep DEF PeerAnswers, rpcVars
<1>20. CASE UNCHANGED vars
  BY <1>20, <1>t, QuietStep DEF vars
<1> QED
  BY <1>1, <1>2, <1>3, <1>4, <1>5, <1>6, <1>7, <1>8, <1>9, <1>10, <1>11, <1>12, <1>13, <1>14,
     <1>15, <1>16, <1>17, <1>18, <1>19, <1>20
     DEF Next, UserStep, CallStep, EventStep

LEMMA InvariantHolds == Spec => []IInv
<1> QED
  BY InitIInv, StepIInv, PTL DEF Spec

-----------------------------------------------------------------------------
(* Safety *)

\* _target_id_index and _object_store agree at every moment, whichever of the
\* paths that delete sessions has run.
THEOREM IndexCorrect == Spec => []IndexMatchesStore
<1>1. IInv => IndexMatchesStore
  BY DEF IInv
<1> QED
  BY <1>1, InvariantHolds, PTL

\* A pending call with a promise always has its session, and an emit task or a
\* running timer that will end it.
THEOREM NoCallOrphaned == Spec => []PendingCanSettle
<1>1. IInv => PendingCanSettle
  BY DEF IInv
<1> QED
  BY <1>1, InvariantHolds, PTL

\* close() is final.
THEOREM CloseFinal == Spec => []ClosedHoldsNothing
<1>1. IInv => ClosedHoldsNothing
  BY DEF IInv
<1> QED
  BY <1>1, InvariantHolds, PTL

\* Handling a peer's disconnection ends every call to it.
THEOREM DisconnectCorrect == Spec => DisconnectEndsCalls
<1>1. ASSUME IInv, IInv', NEW p \in Peers, ReceiveClientDisconnected(p),
             NEW c \in Calls, target[c] = p
      PROVE  c \notin store' /\ ~(HasPromise(c) /\ fut'[c] = "pending")
  <2>1. SessionsOf(p) = {d \in store : target[d] = p}
    BY <1>1, SessionsOfFacts DEF IInv
  <2>2. c \notin store'
    BY <1>1, <2>1 DEF ReceiveClientDisconnected, CleanupSessionsForClient, Forget
  <2>3. UNCHANGED kind
    BY <1>1 DEF ReceiveClientDisconnected
  <2> QED
    BY <1>1, <2>2, <2>3 DEF IInv, PendingCanSettle, HasPromise
<1>2. IInv /\ IInv' /\ [Next]_vars =>
        [\A p \in Peers :
           ReceiveClientDisconnected(p) =>
             \A c \in Calls : target[c] = p =>
                c \notin store' /\ ~(HasPromise(c) /\ fut'[c] = "pending")]_vars
  BY <1>1
<1> QED
  BY <1>2, InvariantHolds, PTL DEF Spec, DisconnectEndsCalls

-----------------------------------------------------------------------------
(* Refinement: the caller's side implements CallContract *)

LEMMA InitContract == Init => Contract!Init
BY DEF Init, Contract!Init, HasPromise, Reply

\* An event that rejects a set of calls is a Reject of those still pending.
LEMMA RejectionIsContract ==
  ASSUME TypeOK, NEW R, fut' = Settled(fut, R, "rejected"), UNCHANGED <<kind, answers>>
  PROVE  [Contract!Next]_(Contract!vars)
<1> DEFINE S == {c \in Calls : c \in R /\ fut[c] = "pending"}
<1>1. UNCHANGED <<{c \in Calls : HasPromise(c)}, {c \in Calls : Reply("resolve", c) \in answers}>>
  BY DEF HasPromise
<1>2. CASE S = {}
  <2>1. fut' = fut
    BY <1>2 DEF Settled, TypeOK
  <2> QED
    BY <1>1, <2>1 DEF Contract!vars
<1>3. CASE S # {}
  <2>1. fut' = [c \in Calls |-> IF c \in S THEN "rejected" ELSE fut[c]]
    BY DEF Settled
  <2>2. S \in SUBSET Calls /\ \A c \in S : fut[c] = "pending"
    OBVIOUS
  <2> HIDE DEF S
  <2>3. Contract!Reject(S)
    BY <1>1, <1>3, <2>1, <2>2 DEF Contract!Reject
  <2> QED
    BY <2>2, <2>3 DEF Contract!Next
<1> QED
  BY <1>2, <1>3

\* A single call that resolves is a Resolve, or nothing if it was settled.
LEMMA ResolutionIsContract ==
  ASSUME TypeOK, NEW c \in Calls, fut' = Settled(fut, {c}, "resolved"), UNCHANGED <<kind, answers>>,
         HasPromise(c) => Reply("resolve", c) \in answers
  PROVE  [Contract!Next]_(Contract!vars)
<1>1. UNCHANGED <<{d \in Calls : HasPromise(d)}, {d \in Calls : Reply("resolve", d) \in answers}>>
  BY DEF HasPromise
<1>2. CASE fut[c] = "pending"
  <2>1. fut' = [fut EXCEPT ![c] = "resolved"]
    BY <1>2 DEF Settled, TypeOK
  <2>2. Contract!Resolve(c)
    BY <1>1, <1>2, <2>1 DEF Contract!Resolve
  <2> QED
    BY <2>2 DEF Contract!Next
<1>3. CASE fut[c] # "pending"
  <2>1. fut' = fut
    BY <1>3 DEF Settled, TypeOK
  <2> QED
    BY <1>1, <2>1 DEF Contract!vars
<1> QED
  BY <1>2, <1>3

\* Making a call: the set of promised calls grows by it if it has a promise.
LEMMA PromisedGrows ==
  ASSUME TypeOK, NEW c \in Calls, NEW k \in Kinds, kind[c] = "none", kind' = [kind EXCEPT ![c] = k]
  PROVE  {d \in Calls : HasPromise(d)}' =
           IF k = "promise" THEN {d \in Calls : HasPromise(d)} \cup {c} ELSE {d \in Calls : HasPromise(d)}
BY DEF TypeOK, HasPromise, Kinds

LEMMA StepContract == IInv /\ [Next]_vars => [Contract!Next]_(Contract!vars)
<1> SUFFICES ASSUME IInv, [Next]_vars PROVE [Contract!Next]_(Contract!vars)
  OBVIOUS
<1>t. TypeOK /\ CallsMade
  BY DEF IInv
<1>q. ASSUME UNCHANGED <<kind, fut, answers>> PROVE [Contract!Next]_(Contract!vars)
  BY <1>q DEF Contract!vars, HasPromise
<1>1. ASSUME NEW c \in Calls, NEW k \in Kinds, NEW p \in Peers, Invoke(c, k, p)
      PROVE  [Contract!Next]_(Contract!vars)
  <2>1. Contract!Issue(c, k = "promise")
    BY <1>1, <1>t, PromisedGrows DEF Invoke, envVars, CallsMade, Contract!Issue
  <2> QED
    BY <2>1 DEF Contract!Next
<1>2. ASSUME NEW c \in Calls, NEW k \in Kinds, NEW p \in Peers, InvokeClosed(c, k, p)
      PROVE  [Contract!Next]_(Contract!vars)
  <2>1. Contract!Drop(c, k = "promise")
    BY <1>2, <1>t, PromisedGrows DEF InvokeClosed, envVars, CallsMade, Contract!Drop
  <2> QED
    BY <2>1 DEF Contract!Next
<1>3. ASSUME NEW c \in Calls, UserCancels(c) PROVE [Contract!Next]_(Contract!vars)
  <2>1. Contract!Cancel(c)
    BY <1>3 DEF UserCancels, envVars, Contract!Cancel, HasPromise
  <2> QED
    BY <2>1 DEF Contract!Next
<1>4. CASE Close
  BY <1>4, <1>t, RejectionIsContract DEF Close, RejectEntries, envVars
<1>5. ASSUME NEW c \in Calls, Transmit(c) PROVE [Contract!Next]_(Contract!vars)
  BY <1>5, <1>q DEF Transmit
<1>6. ASSUME NEW c \in Calls, EmitSucceeded(c) PROVE [Contract!Next]_(Contract!vars)
  <2>1. CASE HasPromise(c)
    BY <1>6, <1>q, <2>1 DEF EmitSucceeded, envVars
  <2>2. CASE ~HasPromise(c)
    BY <1>6, <1>t, <2>2, ResolutionIsContract DEF EmitSucceeded, envVars
  <2> QED
    BY <2>1, <2>2
<1>7. ASSUME NEW c \in Calls, EmitFailed(c) PROVE [Contract!Next]_(Contract!vars)
  BY <1>7, <1>t, RejectionIsContract DEF EmitFailed, envVars
<1>8. ASSUME NEW c \in Calls, TimerElapses(c) PROVE [Contract!Next]_(Contract!vars)
  BY <1>8, <1>q DEF TimerElapses, envVars
<1>9. ASSUME NEW c \in Calls, Timeout(c) PROVE [Contract!Next]_(Contract!vars)
  BY <1>9, <1>t, RejectionIsContract DEF Timeout, envVars
<1>10. ASSUME NEW c \in Calls, SessionAges(c) PROVE [Contract!Next]_(Contract!vars)
  BY <1>10, <1>q DEF SessionAges, envVars
<1>11. ASSUME NEW c \in Calls, ReceiveAnswer(c) PROVE [Contract!Next]_(Contract!vars)
  <2>1. PICK a \in answers :
          /\ a.call = c
          /\ fut' = Settled(fut, {c}, IF a.type = "resolve" THEN "resolved" ELSE "rejected")
    BY <1>11 DEF ReceiveAnswer
  <2>2. UNCHANGED <<kind, answers>>
    BY <1>11 DEF ReceiveAnswer, envVars
  <2>3. CASE a.type = "resolve"
    <3>1. a = Reply("resolve", c)
      BY <1>t, <2>1, <2>3 DEF TypeOK, Answer, Reply
    <3> QED
      BY <1>t, <2>1, <2>2, <2>3, <3>1, ResolutionIsContract
  <2>4. CASE a.type # "resolve"
    BY <1>t, <2>1, <2>2, <2>4, RejectionIsContract
  <2> QED
    BY <2>3, <2>4
<1>12. ASSUME NEW c \in Calls, ReceiveHeartbeat(c) PROVE [Contract!Next]_(Contract!vars)
  BY <1>12, <1>q DEF ReceiveHeartbeat, envVars
<1>13. ASSUME NEW c \in Calls, ReceiveCallback(c) PROVE [Contract!Next]_(Contract!vars)
  BY <1>13, <1>q DEF ReceiveCallback, envVars
<1>14. ASSUME NEW c \in Calls, ReceivePeerNotFound(c) PROVE [Contract!Next]_(Contract!vars)
  BY <1>14, <1>t, RejectionIsContract DEF ReceivePeerNotFound, RejectEntries
<1>15. ASSUME NEW p \in Peers, ReceiveClientDisconnected(p) PROVE [Contract!Next]_(Contract!vars)
  BY <1>15, <1>t, RejectionIsContract DEF ReceiveClientDisconnected, CleanupSessionsForClient, RejectEntries, envVars
<1>16. ASSUME NEW p \in Peers, ManagerReplaced(p) PROVE [Contract!Next]_(Contract!vars)
  BY <1>16, <1>t, RejectionIsContract DEF ManagerReplaced, CleanupSessionsForClient, RejectEntries, envVars
<1>17. CASE ConnectionLost
  BY <1>17, <1>t, RejectionIsContract DEF ConnectionLost, RejectEntries, envVars
<1>18. CASE SessionGC
  BY <1>18, <1>q DEF SessionGC, envVars
<1>19. ASSUME NEW c \in Calls, PeerAnswers(c) PROVE [Contract!Next]_(Contract!vars)
  <2>1. UNCHANGED <<kind, fut>> /\ HasPromise(c)
    BY <1>19 DEF PeerAnswers, rpcVars
  <2>2. PICK r \in {"resolve", "reject"} : answers' = answers \cup {Reply(r, c)}
    BY <1>19 DEF PeerAnswers
  <2>3. {d \in Calls : Reply("resolve", d) \in answers}' =
          IF r = "resolve" THEN {d \in Calls : Reply("resolve", d) \in answers} \cup {c}
                           ELSE {d \in Calls : Reply("resolve", d) \in answers}
    BY <2>2 DEF Reply
  <2>4. CASE r = "resolve"
    <3>1. Contract!Answer(c)
      BY <2>1, <2>3, <2>4 DEF Contract!Answer, HasPromise
    <3> QED
      BY <3>1 DEF Contract!Next
  <2>5. CASE r # "resolve"
    BY <2>1, <2>3, <2>5 DEF Contract!vars, HasPromise
  <2> QED
    BY <2>4, <2>5
<1>20. CASE UNCHANGED vars
  BY <1>20, <1>q DEF vars
<1> QED
  BY <1>1, <1>2, <1>3, <1>4, <1>5, <1>6, <1>7, <1>8, <1>9, <1>10, <1>11, <1>12, <1>13, <1>14,
     <1>15, <1>16, <1>17, <1>18, <1>19, <1>20
     DEF Next, UserStep, CallStep, EventStep

\* The caller's future is settled at most once, and with a result only if the
\* peer sent one, whatever else happens to the call.
THEOREM ContractImplemented == Spec => ImplementsContract
<1> QED
  BY InitContract, StepContract, InvariantHolds, PTL DEF Spec, ImplementsContract, Contract!Spec

-----------------------------------------------------------------------------
(* Every promise settles, if the tasks of the calls run *)

\* What Fairness says of the call c, with the condition under which a task is ready in
\* place of ENABLED: the task takes a step again and again, or is again and again not
\* ready.  Each condition implies that the step is enabled, and so Fairness implies this.
Emitting(c) == emit_task[c] \in {"sending", "sent"}
Armed(c) == timer[c] = "armed"
Due(c) == timer[c] = "due"
Done(c) == fut[c] # "pending"

TasksRun(c) ==
  /\ []<>~Emitting(c) \/ []<><<Transmit(c) \/ EmitTaskEnds(c)>>_vars
  /\ []<>~Armed(c) \/ []<><<TimerElapses(c)>>_vars
  /\ []<>~Due(c) \/ []<><<Timeout(c)>>_vars

Justice == \A c \in Calls : TasksRun(c)

Pending(c) == HasPromise(c) /\ fut[c] = "pending"

\* The stages of a call that nobody answers.
Unsent(c) == Pending(c) /\ emit_task[c] = "sending"
Unreported(c) == Pending(c) /\ emit_task[c] = "sent"
Sleeping(c) == Pending(c) /\ emit_task[c] \notin {"sending", "sent"} /\ timer[c] = "armed"
Expired(c) == Pending(c) /\ emit_task[c] \notin {"sending", "sent"} /\ timer[c] = "due"

\* A pending call is in one of them.
LEMMA PendingHasStage ==
  ASSUME IInv, NEW c \in Calls, Pending(c)
  PROVE  Unsent(c) \/ Unreported(c) \/ Sleeping(c) \/ Expired(c)
BY DEF IInv, TypeOK, PendingCanSettle, Pending, Unsent, Unreported, Sleeping, Expired

\* Without a heartbeat, a step takes a pending call to no earlier stage.
StagesKept(c) ==
  Pending(c) /\ Pending(c)' =>
    /\ Unreported(c) => ~Unsent(c)'
    /\ Sleeping(c) => Sleeping(c)' \/ Expired(c)'
    /\ Expired(c) => Expired(c)'

LEMMA StagesGoOn ==
  ASSUME IInv, [Next]_vars, IInv', NEW c \in Calls, ~<<ReceiveHeartbeat(c)>>_vars
  PROVE  StagesKept(c)
<1> USE DEF StagesKept, IInv, TypeOK, Pending, Unsent, Unreported, Sleeping, Expired, HasPromise, Settled, Cleared, Started, RejectEntries, StopEntries, Outcomes, envVars, rpcVars
<1>1. ASSUME NEW d \in Calls, NEW k \in Kinds, NEW p \in Peers, Invoke(d, k, p) \/ InvokeClosed(d, k, p) PROVE StagesKept(c)
  BY <1>1 DEF Invoke, InvokeClosed, CallsMade
<1>2. ASSUME NEW d \in Calls, UserCancels(d) PROVE StagesKept(c)
  BY <1>2 DEF UserCancels
<1>3. CASE Close
  <2>1. ~Pending(c)'
    BY <1>3 DEF Close, ClosedHoldsNothing
  <2> QED
    BY <2>1
<1>4. ASSUME NEW d \in Calls, Transmit(d) PROVE StagesKept(c)
  BY <1>4 DEF Transmit
<1>5. ASSUME NEW d \in Calls, EmitSucceeded(d) PROVE StagesKept(c)
  BY <1>5 DEF EmitSucceeded
<1>6. ASSUME NEW d \in Calls, EmitFailed(d) PROVE StagesKept(c)
  BY <1>6 DEF EmitFailed
<1>7. ASSUME NEW d \in Calls, TimerElapses(d) PROVE StagesKept(c)
  BY <1>7 DEF TimerElapses
<1>8. ASSUME NEW d \in Calls, Timeout(d) PROVE StagesKept(c)
  BY <1>8 DEF Timeout
<1>9. ASSUME NEW d \in Calls, SessionAges(d) \/ ReceiveCallback(d) PROVE StagesKept(c)
  BY <1>9 DEF SessionAges, ReceiveCallback
<1>10. ASSUME NEW d \in Calls, ReceiveAnswer(d) PROVE StagesKept(c)
  BY <1>10 DEF ReceiveAnswer
<1>11. ASSUME NEW d \in Calls, ReceiveHeartbeat(d) PROVE StagesKept(c)
  <2>1. CASE d = c
    BY <1>11, <2>1 DEF vars
  <2>2. CASE d # c
    BY <1>11, <2>2 DEF ReceiveHeartbeat
  <2> QED
    BY <2>1, <2>2
<1>12. ASSUME NEW d \in Calls, ReceivePeerNotFound(d) PROVE StagesKept(c)
  BY <1>12 DEF ReceivePeerNotFound
<1>13. ASSUME NEW p \in Peers, ReceiveClientDisconnected(p) \/ ManagerReplaced(p) PROVE StagesKept(c)
  BY <1>13 DEF ReceiveClientDisconnected, ManagerReplaced, CleanupSessionsForClient
<1>14. CASE ConnectionLost
  BY <1>14 DEF ConnectionLost
<1>15. CASE SessionGC
  BY <1>15 DEF SessionGC
<1>16. ASSUME NEW d \in Calls, PeerAnswers(d) PROVE StagesKept(c)
  BY <1>16 DEF PeerAnswers
<1>17. CASE UNCHANGED vars
  BY <1>17 DEF vars
<1> QED
  <2> HIDE DEF StagesKept
  <2> QED
  BY <1>1, <1>2, <1>3, <1>4, <1>5, <1>6, <1>7, <1>8, <1>9, <1>10, <1>11, <1>12, <1>13, <1>14,
     <1>15, <1>16, <1>17 DEF Next, UserStep, CallStep, EventStep

\* What the task of each stage does to its call.
StagesLeft(c) ==
  /\ <<Transmit(c) \/ EmitTaskEnds(c)>>_vars => ~Unsent(c)' /\ ~(Unreported(c) /\ Unreported(c)')
  /\ <<TimerElapses(c)>>_vars => ~(Sleeping(c) /\ Sleeping(c)')
  /\ <<Timeout(c)>>_vars => ~Expired(c)'

LEMMA TasksLeaveStages ==
  ASSUME IInv, NEW c \in Calls
  PROVE  StagesLeft(c)
<1> USE DEF IInv, TypeOK
<1>1. ASSUME Transmit(c) \/ EmitTaskEnds(c)
      PROVE  ~Unsent(c)' /\ ~(Unreported(c) /\ Unreported(c)')
  BY <1>1 DEF Transmit, EmitTaskEnds, EmitSucceeded, EmitFailed, Unsent, Unreported
<1>2. ASSUME TimerElapses(c)
      PROVE  ~Sleeping(c)'
  BY <1>2 DEF TimerElapses, Sleeping
<1>3. ASSUME Timeout(c)
      PROVE  ~Expired(c)'
  BY <1>3 DEF Timeout, Cleared, Expired
<1> QED
  BY <1>1, <1>2, <1>3 DEF StagesLeft

\* A call keeps its promise.
LEMMA PromiseKept ==
  ASSUME IInv, [Next]_vars, NEW c \in Calls, HasPromise(c)
  PROVE  HasPromise(c)'
<1> USE DEF IInv, TypeOK, HasPromise, envVars, rpcVars
<1>1. ASSUME NEW d \in Calls, NEW k \in Kinds, NEW p \in Peers, Invoke(d, k, p) \/ InvokeClosed(d, k, p)
      PROVE  kind'[c] = kind[c]
  BY <1>1 DEF Invoke, InvokeClosed
<1>2. ASSUME ~\E d \in Calls, k \in Kinds, p \in Peers : Invoke(d, k, p) \/ InvokeClosed(d, k, p)
      PROVE  kind' = kind
  BY <1>2 DEF Next, UserStep, CallStep, EventStep, vars, UserCancels, Close, Transmit, EmitSucceeded, EmitFailed, TimerElapses,
         Timeout, SessionAges, ReceiveAnswer, ReceiveHeartbeat, ReceiveCallback, ReceivePeerNotFound,
         ReceiveClientDisconnected, ManagerReplaced, ConnectionLost, SessionGC, PeerAnswers
<1> QED
  BY <1>1, <1>2

\* Stage after stage, unless heartbeats keep it waiting.
LEMMA PendingSettles ==
  ASSUME NEW c \in Calls
  PROVE  Spec /\ TasksRun(c) => []<><<ReceiveHeartbeat(c)>>_vars \/ (Pending(c) ~> Done(c))
<1>1. IInv /\ Pending(c) => Unsent(c) \/ Unreported(c) \/ Sleeping(c) \/ Expired(c)
  BY PendingHasStage
<1>2. IInv /\ IInv' /\ [Next]_vars /\ ~<<ReceiveHeartbeat(c)>>_vars
        => (Pending(c) /\ Pending(c)' => (Unreported(c) => ~Unsent(c)'))
  BY StagesGoOn DEF StagesKept
<1>3. IInv /\ IInv' /\ [Next]_vars /\ ~<<ReceiveHeartbeat(c)>>_vars
        => (Pending(c) /\ Pending(c)' => (Sleeping(c) => Sleeping(c)' \/ Expired(c)'))
  BY StagesGoOn DEF StagesKept
<1>4. IInv /\ IInv' /\ [Next]_vars /\ ~<<ReceiveHeartbeat(c)>>_vars
        => (Pending(c) /\ Pending(c)' => (Expired(c) => Expired(c)'))
  BY StagesGoOn DEF StagesKept
<1>5. IInv => (<<Transmit(c) \/ EmitTaskEnds(c)>>_vars => ~Unsent(c)' /\ ~(Unreported(c) /\ Unreported(c)'))
  BY TasksLeaveStages DEF StagesLeft
<1>6. IInv => (<<TimerElapses(c)>>_vars => ~(Sleeping(c) /\ Sleeping(c)'))
  BY TasksLeaveStages DEF StagesLeft
<1>7. IInv => (<<Timeout(c)>>_vars => ~Expired(c)')
  BY TasksLeaveStages DEF StagesLeft
<1>8. /\ Unsent(c) => Pending(c) /\ Emitting(c)
      /\ Unreported(c) => Pending(c) /\ Emitting(c)
      /\ Sleeping(c) => Pending(c) /\ Armed(c)
      /\ Expired(c) => Pending(c) /\ Due(c)
  BY DEF Unsent, Unreported, Sleeping, Expired, Emitting, Armed, Due
<1>9. IInv /\ [Next]_vars /\ Pending(c) => Pending(c)' \/ Done(c)'
  BY PromiseKept DEF Pending, Done
<1>10. Spec => []IInv
  BY InvariantHolds
<1> QED
  BY <1>1, <1>2, <1>3, <1>4, <1>5, <1>6, <1>7, <1>8, <1>9, <1>10, PTL DEF Spec, TasksRun

\* If the emit tasks and the timers run, a promise is settled at last, unless its peer
\* sends heartbeats forever: no call waits forever for a peer that is gone.
THEOREM EveryPromiseSettles == Spec /\ Justice => PromiseSettles
<1>1. ASSUME NEW c \in Calls
      PROVE  Spec /\ TasksRun(c) =>
               []<><<ReceiveHeartbeat(c)>>_vars \/ ((HasPromise(c) /\ fut[c] = "pending") ~> (fut[c] # "pending"))
  BY PendingSettles, <1>1 DEF Pending, Done
<1>2. ASSUME NEW c \in Calls
      PROVE  Justice => TasksRun(c)
  BY <1>2 DEF Justice
<1>3. ASSUME NEW c \in Calls
      PROVE  Spec /\ Justice =>
               []<><<ReceiveHeartbeat(c)>>_vars \/ ((HasPromise(c) /\ fut[c] = "pending") ~> (fut[c] # "pending"))
  BY <1>1, <1>2
<1> QED
  BY <1>3 DEF PromiseSettles
=============================================================================
