--------------------------- MODULE MethodDispatch ---------------------------
(***************************************************************************)
(* A call with a promise, seen from both sides and in time: the caller's     *)
(* timer, the callee's _handle_method, its method task and its heartbeat     *)
(* task, and the session in which a callback lives.  A callback is a call    *)
(* back to the caller while the call it was passed to, its parent, lasts.    *)
(*                                                                         *)
(* Time is discrete.  A message is delivered within MaxDelay ticks or lost,  *)
(* emission takes at most MaxSend ticks, and what the event loop can do is   *)
(* done before the next tick.                                              *)
(***************************************************************************)
EXTENDS Integers

CONSTANTS Calls,
          NoCall,
          Parent,       \* Parent[c]: the call c is a callback of, or NoCall
          Timeout,      \* _method_timeout, in ticks
          MaxDelay,
          MaxSend

\* The callee is told to send a heartbeat every half of the timeout.
Interval == Timeout \div 2

ASSUME CallsAssumption == NoCall \notin Calls /\ Parent \in [Calls -> Calls \cup {NoCall}]
ASSUME TimeAssumption == Timeout \in Nat /\ MaxDelay \in Nat /\ MaxSend \in Nat
\* The network is so much faster than the timeout that a heartbeat comes in time.
ASSUME FastAssumption == Interval + MaxSend + MaxDelay < Timeout /\ 2 * MaxDelay + MaxSend < Timeout

VARIABLES caller,       \* the caller's future
          timer,        \* the ticks until its timer fires
          net,          \* messages on their way, with their age
          task,         \* the callee's method task
          beat,         \* the callee's heartbeat task
          left,         \* the ticks until it must have sent or slept
          missing,      \* calls whose method was not found
          replies,      \* how many answers have been sent
          returned,     \* calls of which a result has been sent
          lost,         \* calls of which a message was lost or could not be sent
          closed,       \* calls whose callee has been closed
          zombies       \* sessions that a reply has created again

vars == <<caller, timer, net, task, beat, left, missing, replies, returned, lost, closed, zombies>>
calleeVars == <<task, beat, left, missing, replies, returned, closed, zombies>>

Messages == [type : {"request", "heartbeat", "resolve", "reject"}, call : Calls, age : 0..MaxDelay]

TypeOK ==
  /\ caller \in [Calls -> {"idle", "waiting", "resolved", "rejected", "timed_out"}]
  /\ timer \in [Calls -> 0..Timeout]
  /\ net \subseteq Messages
  /\ task \in [Calls -> {"none", "running", "ended", "cancelled"}]
  /\ beat \in [Calls -> {"none", "new", "sending", "sleeping", "done"}]
  /\ left \in [Calls -> 0..Timeout]
  /\ missing \subseteq Calls
  /\ replies \in [Calls -> 0..2]
  /\ returned \subseteq Calls /\ lost \subseteq Calls /\ closed \subseteq Calls /\ zombies \subseteq Calls

Init == /\ caller = [c \in Calls |-> "idle"]
        /\ timer = [c \in Calls |-> Timeout]
        /\ net = {}
        /\ task = [c \in Calls |-> "none"]
        /\ beat = [c \in Calls |-> "none"]
        /\ left = [c \in Calls |-> 0]
        /\ missing = {}
        /\ replies = [c \in Calls |-> 0]
        /\ returned = {} /\ lost = {} /\ closed = {} /\ zombies = {}

-----------------------------------------------------------------------------
(* Helpers *)

Message(type, c) == [type |-> type, call |-> c, age |-> 0]

Waiting(c) == caller[c] = "waiting"

\* The session in which a callback lives, that of its parent, is still there.
ParentOpen(c) == Parent[c] # NoCall => Waiting(Parent[c])

\* A reply to a callback gets a session in that of the parent, which
\* _get_session_store creates again if it is gone.
Revived(c) == IF ParentOpen(c) THEN zombies ELSE zombies \cup {Parent[c]}

\* A plausible error: a heartbeat does not reset the timer.
KeepsTimer(c) == timer

\* Timer.reset.
ResetsTimer(c) == [timer EXCEPT ![c] = Timeout]

Stopped(c) == [timer EXCEPT ![c] = Timeout]

-----------------------------------------------------------------------------
(* The caller *)

\* A callback may be called as long as the callee of its parent has it.
Call(c) ==
  /\ caller[c] = "idle"
  /\ Parent[c] # NoCall => (task[Parent[c]] # "none" /\ Parent[c] \notin closed)
  /\ caller' = [caller EXCEPT ![c] = "waiting"]
  /\ net' = net \cup {Message("request", c)}
  /\ UNCHANGED <<timer, calleeVars, lost>>

\* A heartbeat of a call that has ended finds no session and is ignored.
HeartbeatComes(m) ==
  /\ m \in net /\ m.type = "heartbeat"
  /\ net' = net \ {m}
  /\ timer' = IF Waiting(m.call) THEN ResetsTimer(m.call) ELSE timer
  /\ UNCHANGED <<caller, calleeVars, lost>>

\* A plausible error: an answer is accepted after the call has ended.
SettlesAgain(m) ==
  /\ caller' = [caller EXCEPT ![m.call] = IF m.type = "resolve" THEN "resolved" ELSE "rejected"]
  /\ timer' = Stopped(m.call)

\* An answer ends the call and deletes its session; a late one finds none.
Settles(m) ==
  IF Waiting(m.call)
  THEN /\ caller' = [caller EXCEPT ![m.call] = IF m.type = "resolve" THEN "resolved" ELSE "rejected"]
       /\ timer' = Stopped(m.call)
  ELSE UNCHANGED <<caller, timer>>

AnswerComes(m) ==
  /\ m \in net /\ m.type \in {"resolve", "reject"}
  /\ net' = net \ {m}
  /\ Settles(m)
  /\ UNCHANGED <<calleeVars, lost>>

TimesOut(c) ==
  /\ Waiting(c) /\ timer[c] = 0
  /\ caller' = [caller EXCEPT ![c] = "timed_out"]
  /\ timer' = Stopped(c)
  /\ UNCHANGED <<net, calleeVars, lost>>

-----------------------------------------------------------------------------
(* The callee *)

\* net after the request of c was taken and the messages S sent.
Exchanged(c, S) ==
  /\ c \notin closed
  /\ \E m \in net : m.type = "request" /\ m.call = c /\ net' = (net \ {m}) \cup S

\* resolve or reject, remote methods without a promise of their own, is called.
Answers(c, type) ==
  /\ replies' = [replies EXCEPT ![c] = @ + 1]
  /\ returned' = IF type = "resolve" THEN returned \cup {c} ELSE returned
  /\ zombies' = Revived(c)

Quiet == UNCHANGED <<replies, returned, zombies>>

\* The method is found, permitted and asynchronous: a task runs it, and another
\* one, made while the promise was decoded, sends heartbeats.
HandleStarts(c) ==
  /\ Exchanged(c, {})
  /\ ParentOpen(c)
  /\ task' = [task EXCEPT ![c] = "running"]
  /\ beat' = [beat EXCEPT ![c] = "new"]
  /\ Quiet
  /\ UNCHANGED <<caller, timer, left, missing, lost, closed>>

\* A synchronous method returns or raises; or the call is not permitted, its
\* arguments cannot be decoded, or its result cannot be encoded.
HandleAnswers(c, type) ==
  /\ Exchanged(c, {Message(type, c)})
  /\ ParentOpen(c)
  /\ Answers(c, type)
  /\ task' = [task EXCEPT ![c] = "ended"]
  /\ beat' = [beat EXCEPT ![c] = "done"]
  /\ UNCHANGED <<caller, timer, left, missing, lost, closed>>

\* A plausible error: the handler goes on after it has rejected the call, and answers again.
HandleMissingOn(c) ==
  /\ Exchanged(c, {Message("reject", c)})
  /\ Parent[c] # NoCall => ~ParentOpen(c)
  /\ replies' = [replies EXCEPT ![c] = @ + 2]
  /\ zombies' = Revived(c)
  /\ beat' = [beat EXCEPT ![c] = "new"]
  /\ missing' = missing \cup {c}
  /\ UNCHANGED <<caller, timer, task, left, returned, lost, closed>>

\* The service or the session is gone.  The call is rejected, but the heartbeat
\* task is there already, and this way out does not cancel it.
HandleMissing(c) ==
  /\ Exchanged(c, {Message("reject", c)})
  /\ Parent[c] # NoCall => ~ParentOpen(c)
  /\ Answers(c, "reject")
  /\ beat' = [beat EXCEPT ![c] = "new"]
  /\ missing' = missing \cup {c}
  /\ UNCHANGED <<caller, timer, task, left, lost, closed>>

\* The entry of an exhausted generator is asked for in a session that waits for its
\* own answer: taken for a late answer and ignored.
HandleExhausted(c) ==
  /\ Exchanged(c, {})
  /\ Parent[c] # NoCall /\ ParentOpen(c)
  /\ beat' = [beat EXCEPT ![c] = "new"]
  /\ missing' = missing \cup {c}
  /\ Quiet
  /\ UNCHANGED <<caller, timer, task, left, lost, closed>>

\* A plausible error: the heartbeat goes on after the method.
MethodEndsBeating(c, type) ==
  /\ task[c] = "running"
  /\ task' = [task EXCEPT ![c] = "ended"]
  /\ Answers(c, type)
  /\ net' = net \cup (IF c \in closed THEN {} ELSE {Message(type, c)})
  /\ UNCHANGED <<caller, timer, beat, left, missing, lost, closed>>

\* The awaitable is done: _wait cancels the heartbeat and answers.
MethodEnds(c, type) ==
  /\ task[c] = "running"
  /\ task' = [task EXCEPT ![c] = "ended"]
  /\ beat' = [beat EXCEPT ![c] = "done"]
  /\ Answers(c, type)
  /\ net' = net \cup (IF c \in closed THEN {} ELSE {Message(type, c)})
  /\ UNCHANGED <<caller, timer, left, missing, lost, closed>>

\* promise["heartbeat"]() is called ...
BeatBegins(c) ==
  /\ beat[c] = "new" \/ (beat[c] = "sleeping" /\ left[c] = 0)
  /\ beat' = [beat EXCEPT ![c] = "sending"]
  /\ left' = [left EXCEPT ![c] = MaxSend]
  /\ zombies' = Revived(c)
  /\ UNCHANGED <<caller, timer, net, task, missing, replies, returned, lost, closed>>

\* ... and is done when the message has been emitted.
BeatSent(c) ==
  /\ beat[c] = "sending"
  /\ beat' = [beat EXCEPT ![c] = "sleeping"]
  /\ left' = [left EXCEPT ![c] = Interval]
  /\ net' = net \cup {Message("heartbeat", c)}
  /\ UNCHANGED <<caller, timer, task, missing, replies, returned, lost, closed, zombies>>

\* task after its heartbeat has ended in an exception.
Cancelled(c) == IF task[c] = "running" THEN [task EXCEPT ![c] = "cancelled"] ELSE task

\* A plausible error: the heartbeat goes on when it could not be sent.
BeatRetried(c) ==
  /\ beat[c] = "sending"
  /\ beat' = [beat EXCEPT ![c] = "sleeping"]
  /\ left' = [left EXCEPT ![c] = Interval]
  /\ task' = Cancelled(c)
  /\ lost' = lost \cup {c}
  /\ UNCHANGED <<caller, timer, net, missing, replies, returned, closed, zombies>>

\* The connection is gone: the heartbeat ends and cancels the method, which then
\* does not answer.
BeatFails(c) ==
  /\ beat[c] = "sending"
  /\ beat' = [beat EXCEPT ![c] = "done"]
  /\ task' = Cancelled(c)
  /\ lost' = lost \cup {c}
  /\ UNCHANGED <<caller, timer, net, left, missing, replies, returned, closed, zombies>>

\* The callee of c closes its RPC object: heartbeats are cancelled, and calls it
\* has made itself are rejected.
CalleeCloses(c) ==
  /\ Parent[c] = NoCall /\ c \notin closed
  /\ closed' = closed \cup {c}
  /\ beat' = [beat EXCEPT ![c] = IF @ = "none" THEN @ ELSE "done"]
  /\ task' = IF beat[c] = "sending" THEN Cancelled(c) ELSE task
  /\ caller' = [d \in Calls |-> IF Parent[d] = c /\ Waiting(d) THEN "rejected" ELSE caller[d]]
  /\ timer' = [d \in Calls |-> IF Parent[d] = c THEN Timeout ELSE timer[d]]
  /\ UNCHANGED <<net, left, missing, lost>>
  /\ Quiet

-----------------------------------------------------------------------------
(* The network and time *)

Loses(m) ==
  /\ m \in net
  /\ net' = net \ {m}
  /\ lost' = lost \cup {m.call}
  /\ UNCHANGED <<caller, timer, calleeVars>>

\* Nothing is due now.
Idle == /\ \A m \in net : m.age < MaxDelay
        /\ \A c \in Calls : /\ Waiting(c) => timer[c] > 0
                            /\ beat[c] # "new"
                            /\ beat[c] \in {"sending", "sleeping"} => left[c] > 0

Tick ==
  /\ Idle
  /\ net' = {[m EXCEPT !.age = @ + 1] : m \in net}
  /\ timer' = [c \in Calls |-> IF Waiting(c) THEN timer[c] - 1 ELSE timer[c]]
  /\ left' = [c \in Calls |-> IF beat[c] \in {"sending", "sleeping"} THEN left[c] - 1 ELSE left[c]]
  /\ UNCHANGED <<caller, task, beat, missing, replies, returned, lost, closed, zombies>>

Handle(c) == \/ HandleStarts(c) \/ HandleMissing(c) \/ HandleExhausted(c)
             \/ \E type \in {"resolve", "reject"} : HandleAnswers(c, type)

\* What happens before the next tick.
Prompt == \/ \E m \in net : HeartbeatComes(m) \/ AnswerComes(m) \/ Loses(m)
          \/ \E c \in Calls : Handle(c) \/ TimesOut(c) \/ BeatBegins(c) \/ BeatSent(c) \/ BeatFails(c)

Next == \/ Prompt \/ Tick
        \/ \E c \in Calls : Call(c) \/ CalleeCloses(c)
        \/ \E c \in Calls, type \in {"resolve", "reject"} : MethodEnds(c, type)

Spec == Init /\ [][Next]_vars

\* The event loops and the clock run; a method may run forever.
FairSpec == Spec /\ WF_vars(Prompt) /\ WF_vars(Tick)

-----------------------------------------------------------------------------
(* Properties *)

\* A call that takes any time is kept alive by its heartbeats: it times out only if
\* a message was lost or the callee closed.
NoFalseTimeout == \A c \in Calls : caller[c] = "timed_out" => c \in lost \cup closed

\* A method that runs sends heartbeats, and one that has ended, in whatever way, sends
\* none any more.
BeatMatchesTask ==
  \A c \in Calls : /\ task[c] = "running" => c \in closed \/ beat[c] \in {"new", "sending", "sleeping"}
                   /\ task[c] \in {"ended", "cancelled"} => beat[c] = "done"

\* Every call is answered at most once, and exactly once when its method has ended.
AnsweredOnce ==
  \A c \in Calls : replies[c] <= 1 /\ (task[c] = "ended" => replies[c] = 1)

\* Only a call whose method runs forever, or was not found, stays pending forever.
CallEnds ==
  \A c \in Calls : <>[]Waiting(c) => <>[](c \in missing \/ task[c] = "running")

\* Caller and callee together keep what CallContract promises.
Contract == INSTANCE CallContract
  WITH fut <- [c \in Calls |-> CASE caller[c] = "idle" -> "none"
                                 [] Waiting(c) -> "pending"
                                 [] caller[c] = "resolved" -> "resolved"
                                 [] OTHER -> "rejected"],
       promised <- {c \in Calls : caller[c] # "idle"},
       answered <- returned
ImplementsContract == Contract!Spec

\* No session is created again by a late reply.  This does not hold.
NoZombie == zombies = {}
=============================================================================
