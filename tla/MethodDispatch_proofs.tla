------------------------ MODULE MethodDispatch_proofs ------------------------
(***************************************************************************)
(* For any nesting of calls and any timing that meets FastAssumption: what *)
(* a call waits for comes before its timer fires, its method is answered   *)
(* once, and its heartbeats end with it.                                   *)
(*                                                                         *)
(* What CallEnds rests on is at the end: when the heartbeats have ended a  *)
(* call can wait for no longer than those on their way and its timer let   *)
(* it.                                                                     *)
(***************************************************************************)
EXTENDS MethodDispatch, FiniteSetTheorems, FunctionTheorems, TLAPS

Untouched(c) == task[c] = "none" /\ beat[c] = "none" /\ replies[c] = 0

\* The callee knows nothing of a call that has not been made or whose only request is
\* on its way.
FreshInv ==
  /\ \A c \in Calls : caller[c] = "idle" => timer[c] = Timeout /\ Untouched(c)
  /\ \A m \in net : caller[m.call] # "idle"
  /\ \A m \in net : m.type = "request" => Untouched(m.call)
  /\ \A m, n \in net : m.type = "request" /\ n.type = "request" /\ m.call = n.call => m = n

\* A running method has not answered, an answer is sent once.
ReplyInv ==
  \A c \in Calls : /\ task[c] = "running" => replies[c] = 0
                   /\ replies[c] <= 1
                   /\ task[c] = "ended" => replies[c] = 1

\* A heartbeat is sent in time and slept for no longer than the interval.
LeftInv ==
  \A c \in Calls : /\ beat[c] = "sending" => left[c] <= MaxSend
                   /\ beat[c] = "sleeping" => left[c] <= Interval

Healthy(c) == Waiting(c) /\ c \notin lost \cup closed

\* Unless something is lost, a caller that waits t more ticks is told something before:
\* there is a request, a heartbeat task or an answer, and it is not too late.
Hears(c, t) ==
  \/ \E m \in net : m.call = c /\ m.type = "request" /\ t > 2 * MaxDelay - m.age + MaxSend
  \/ \E m \in net : m.call = c /\ m.type \in {"resolve", "reject"} /\ t > MaxDelay - m.age
  \/ beat[c] = "new" /\ t > MaxSend + MaxDelay
  \/ beat[c] = "sending" /\ t > left[c] + MaxDelay
  \/ beat[c] = "sleeping" /\ t > left[c] + MaxSend + MaxDelay

\* A heartbeat is on its way and comes before the timer fires.
BeatDue(c) == \E m \in net : m.call = c /\ m.type = "heartbeat" /\ timer[c] > MaxDelay - m.age

TimeInv == \A c \in Calls : Healthy(c) => Hears(c, Timeout) /\ (Hears(c, timer[c]) \/ BeatDue(c))

CalleeInv == ReplyInv /\ BeatMatchesTask /\ LeftInv

\* A result on its way has been sent by the method.
ReturnedInv == \A m \in net : m.type = "resolve" => m.call \in returned

IInv == TypeOK /\ FreshInv /\ CalleeInv /\ TimeInv /\ ReturnedInv /\ NoFalseTimeout

-----------------------------------------------------------------------------
LEMMA IntervalFacts == Interval \in Nat /\ Interval <= Timeout
BY TimeAssumption DEF Interval

LEMMA MessagesOf ==
  ASSUME NEW S, S \subseteq Messages, NEW m \in S
  PROVE  m.call \in Calls /\ m.age \in Nat /\ m.age <= MaxDelay
         /\ m.type \in {"request", "heartbeat", "resolve", "reject"}
BY TimeAssumption DEF Messages

LEMMA MessageTyped ==
  ASSUME NEW c \in Calls, NEW type \in {"request", "heartbeat", "resolve", "reject"}
  PROVE  /\ Message(type, c) \in Messages
         /\ Message(type, c).call = c /\ Message(type, c).type = type /\ Message(type, c).age = 0
BY TimeAssumption DEF Messages, Message

LEMMA RevivedTyped == ASSUME NEW c \in Calls, zombies \subseteq Calls PROVE Revived(c) \subseteq Calls
BY CallsAssumption DEF Revived, ParentOpen

LEMMA CancelledTyped ==
  ASSUME TypeOK, NEW c \in Calls
  PROVE  /\ Cancelled(c) \in [Calls -> {"none", "running", "ended", "cancelled"}]
         /\ \A d \in Calls : Cancelled(c)[d] = IF d = c /\ task[c] = "running" THEN "cancelled" ELSE task[d]
BY DEF TypeOK, Cancelled

LEMMA RequestTaken ==
  ASSUME TypeOK, FreshInv, NEW c \in Calls, NEW S, Exchanged(c, S)
  PROVE  \E m \in net : /\ m.type = "request" /\ m.call = c /\ net' = (net \ {m}) \cup S
                        /\ task[c] = "none" /\ beat[c] = "none" /\ replies[c] = 0
                        /\ c \notin closed
                        /\ caller[c] # "idle"
                        /\ \A n \in net \ {m} : ~(n.type = "request" /\ n.call = c)
BY MessagesOf DEF Exchanged, FreshInv, Untouched, TypeOK

LEMMA OlderTyped ==
  ASSUME NEW m \in Messages
  PROVE  /\ [m EXCEPT !.age = @ + 1].type = m.type /\ [m EXCEPT !.age = @ + 1].call = m.call
         /\ [m EXCEPT !.age = @ + 1].age = m.age + 1
BY DEF Messages

LEMMA TypeStep == TypeOK /\ ReplyInv /\ FreshInv /\ [Next]_vars => TypeOK'
<1> SUFFICES ASSUME TypeOK, ReplyInv, FreshInv, [Next]_vars PROVE TypeOK'
  OBVIOUS
<1> USE TimeAssumption, IntervalFacts DEF TypeOK
<1>1. ASSUME NEW m \in net, HeartbeatComes(m) PROVE TypeOK'
  BY <1>1, MessagesOf DEF HeartbeatComes, ResetsTimer, calleeVars
<1>2. ASSUME NEW m \in net, AnswerComes(m) PROVE TypeOK'
  BY <1>2, MessagesOf DEF AnswerComes, Settles, Stopped, calleeVars
<1>3. ASSUME NEW m \in net, Loses(m) PROVE TypeOK'
  BY <1>3, MessagesOf DEF Loses, calleeVars
<1>4. ASSUME NEW c \in Calls, Call(c) PROVE TypeOK'
  BY <1>4, MessageTyped DEF Call, calleeVars
<1>5. ASSUME NEW c \in Calls, TimesOut(c) PROVE TypeOK'
  BY <1>5 DEF TimesOut, Stopped, calleeVars
<1>6. ASSUME NEW c \in Calls, HandleStarts(c) PROVE TypeOK'
  BY <1>6 DEF HandleStarts, Exchanged, Quiet
<1>7. ASSUME NEW c \in Calls, NEW type \in {"resolve", "reject"}, HandleAnswers(c, type) PROVE TypeOK'
  BY <1>7, RequestTaken, MessageTyped, RevivedTyped DEF HandleAnswers, Answers
<1>8. ASSUME NEW c \in Calls, HandleMissing(c) PROVE TypeOK'
  BY <1>8, RequestTaken, MessageTyped, RevivedTyped DEF HandleMissing, Answers
<1>9. ASSUME NEW c \in Calls, HandleExhausted(c) PROVE TypeOK'
  BY <1>9 DEF HandleExhausted, Exchanged, Quiet
<1>10. ASSUME NEW c \in Calls, NEW type \in {"resolve", "reject"}, MethodEnds(c, type) PROVE TypeOK'
  BY <1>10, MessageTyped, RevivedTyped DEF MethodEnds, Answers, ReplyInv
<1>11. ASSUME NEW c \in Calls, BeatBegins(c) PROVE TypeOK'
  BY <1>11, RevivedTyped, FastAssumption DEF BeatBegins
<1>12. ASSUME NEW c \in Calls, BeatSent(c) PROVE TypeOK'
  BY <1>12, MessageTyped DEF BeatSent
<1>13. ASSUME NEW c \in Calls, BeatFails(c) PROVE TypeOK'
  BY <1>13, CancelledTyped DEF BeatFails
<1>14. ASSUME NEW c \in Calls, CalleeCloses(c) PROVE TypeOK'
  BY <1>14, CancelledTyped DEF CalleeCloses, Quiet
<1>15. ASSUME Tick PROVE TypeOK'
  <2>1. net' \subseteq Messages
    BY <1>15, MessagesOf DEF Tick, Idle, Messages
  <2>2. timer' \in [Calls -> 0..Timeout]
    BY <1>15 DEF Tick, Idle
  <2>3. left' \in [Calls -> 0..Timeout]
    BY <1>15 DEF Tick, Idle
  <2> QED BY <1>15, <2>1, <2>2, <2>3 DEF Tick
<1>16. CASE UNCHANGED vars
  BY <1>16 DEF vars
<1> QED BY <1>1, <1>2, <1>3, <1>4, <1>5, <1>6, <1>7, <1>8, <1>9, <1>10, <1>11, <1>12, <1>13, <1>14, <1>15, <1>16
        DEF Next, Prompt, Handle

LEMMA FreshStep == TypeOK /\ FreshInv /\ [Next]_vars => FreshInv'
<1> SUFFICES ASSUME TypeOK, FreshInv, [Next]_vars PROVE FreshInv'
  OBVIOUS
<1> USE TimeAssumption DEF TypeOK, FreshInv, Untouched
<1>1. ASSUME NEW m \in net, HeartbeatComes(m) PROVE FreshInv'
  BY <1>1, MessagesOf DEF HeartbeatComes, ResetsTimer, calleeVars, Waiting
<1>2. ASSUME NEW m \in net, AnswerComes(m) PROVE FreshInv'
  BY <1>2, MessagesOf DEF AnswerComes, Settles, Stopped, calleeVars
<1>3. ASSUME NEW m \in net, Loses(m) PROVE FreshInv'
  BY <1>3, MessagesOf DEF Loses, calleeVars
<1>4. ASSUME NEW c \in Calls, Call(c) PROVE FreshInv'
  BY <1>4, MessagesOf, MessageTyped DEF Call, calleeVars
<1>5. ASSUME NEW c \in Calls, TimesOut(c) PROVE FreshInv'
  BY <1>5, MessagesOf DEF TimesOut, Stopped, calleeVars, Waiting
<1>6. ASSUME NEW c \in Calls, HandleStarts(c) PROVE FreshInv'
  BY <1>6, RequestTaken, MessagesOf DEF HandleStarts, Quiet
<1>7. ASSUME NEW c \in Calls, NEW type \in {"resolve", "reject"}, HandleAnswers(c, type) PROVE FreshInv'
  <2>1. PICK m \in net : /\ m.type = "request" /\ m.call = c /\ net' = (net \ {m}) \cup {Message(type, c)}
                        /\ caller[c] # "idle"
                        /\ \A n \in net \ {m} : ~(n.type = "request" /\ n.call = c)
    BY <1>7, RequestTaken DEF HandleAnswers
  <2> QED BY <1>7, <2>1, MessagesOf, MessageTyped DEF HandleAnswers, Answers
<1>8. ASSUME NEW c \in Calls, HandleMissing(c) PROVE FreshInv'
  BY <1>8, RequestTaken, MessagesOf, MessageTyped DEF HandleMissing, Answers
<1>9. ASSUME NEW c \in Calls, HandleExhausted(c) PROVE FreshInv'
  BY <1>9, RequestTaken, MessagesOf DEF HandleExhausted, Quiet
<1>10. ASSUME NEW c \in Calls, NEW type \in {"resolve", "reject"}, MethodEnds(c, type) PROVE FreshInv'
  BY <1>10, MessagesOf, MessageTyped DEF MethodEnds, Answers
<1>11. ASSUME NEW c \in Calls, BeatBegins(c) PROVE FreshInv'
  BY <1>11, MessagesOf DEF BeatBegins
<1>12. ASSUME NEW c \in Calls, BeatSent(c) PROVE FreshInv'
  BY <1>12, MessagesOf, MessageTyped DEF BeatSent
<1>13. ASSUME NEW c \in Calls, BeatFails(c) PROVE FreshInv'
  BY <1>13, MessagesOf, CancelledTyped DEF BeatFails
<1>14. ASSUME NEW c \in Calls, CalleeCloses(c) PROVE FreshInv'
  BY <1>14, MessagesOf, CancelledTyped DEF CalleeCloses, Quiet, Waiting
<1>15. ASSUME Tick PROVE FreshInv'
  <2>1. \A m \in net' : \E n \in net : m = [n EXCEPT !.age = @ + 1] /\ m.type = n.type /\ m.call = n.call
    BY <1>15 DEF Tick, Messages
  <2> QED BY <1>15, <2>1, MessagesOf DEF Tick, Waiting
<1>16. CASE UNCHANGED vars
  BY <1>16 DEF vars
<1> QED BY <1>1, <1>2, <1>3, <1>4, <1>5, <1>6, <1>7, <1>8, <1>9, <1>10, <1>11, <1>12, <1>13, <1>14, <1>15, <1>16
        DEF Next, Prompt, Handle

LEMMA CalleeStep == TypeOK /\ FreshInv /\ CalleeInv /\ [Next]_vars => CalleeInv'
<1> SUFFICES ASSUME TypeOK, FreshInv, CalleeInv, [Next]_vars PROVE CalleeInv'
  OBVIOUS
<1> USE TimeAssumption, IntervalFacts DEF TypeOK, CalleeInv, ReplyInv, BeatMatchesTask, LeftInv
<1>1. ASSUME NEW m \in net, HeartbeatComes(m) PROVE CalleeInv'
  BY <1>1 DEF HeartbeatComes, ResetsTimer, calleeVars
<1>2. ASSUME NEW m \in net, AnswerComes(m) PROVE CalleeInv'
  BY <1>2 DEF AnswerComes, Settles, Stopped, calleeVars
<1>3. ASSUME NEW m \in net, Loses(m) PROVE CalleeInv'
  BY <1>3 DEF Loses, calleeVars
<1>4. ASSUME NEW c \in Calls, Call(c) PROVE CalleeInv'
  BY <1>4, MessageTyped DEF Call, calleeVars
<1>5. ASSUME NEW c \in Calls, TimesOut(c) PROVE CalleeInv'
  BY <1>5 DEF TimesOut, Stopped, calleeVars
<1>6. ASSUME NEW c \in Calls, HandleStarts(c) PROVE CalleeInv'
  BY <1>6, RequestTaken DEF HandleStarts, Quiet
<1>7. ASSUME NEW c \in Calls, NEW type \in {"resolve", "reject"}, HandleAnswers(c, type) PROVE CalleeInv'
  BY <1>7, RequestTaken, MessageTyped DEF HandleAnswers, Answers
<1>8. ASSUME NEW c \in Calls, HandleMissing(c) PROVE CalleeInv'
  BY <1>8, RequestTaken, MessageTyped DEF HandleMissing, Answers
<1>9. ASSUME NEW c \in Calls, HandleExhausted(c) PROVE CalleeInv'
  BY <1>9, RequestTaken DEF HandleExhausted, Quiet
<1>10. ASSUME NEW c \in Calls, NEW type \in {"resolve", "reject"}, MethodEnds(c, type) PROVE CalleeInv'
  BY <1>10, MessageTyped DEF MethodEnds, Answers
<1>11. ASSUME NEW c \in Calls, BeatBegins(c) PROVE CalleeInv'
  BY <1>11 DEF BeatBegins
<1>12. ASSUME NEW c \in Calls, BeatSent(c) PROVE CalleeInv'
  BY <1>12, MessageTyped DEF BeatSent
<1>13. ASSUME NEW c \in Calls, BeatFails(c) PROVE CalleeInv'
  BY <1>13, CancelledTyped DEF BeatFails
<1>14. ASSUME NEW c \in Calls, CalleeCloses(c) PROVE CalleeInv'
  BY <1>14, CancelledTyped DEF CalleeCloses, Quiet
<1>15. ASSUME Tick PROVE CalleeInv'
  BY <1>15 DEF Tick, Idle
<1>16. CASE UNCHANGED vars
  BY <1>16 DEF vars
<1> QED BY <1>1, <1>2, <1>3, <1>4, <1>5, <1>6, <1>7, <1>8, <1>9, <1>10, <1>11, <1>12, <1>13, <1>14, <1>15, <1>16
        DEF Next, Prompt, Handle

LEMMA TimeStep == TypeOK /\ FreshInv /\ CalleeInv /\ TimeInv /\ [Next]_vars => TimeInv'
<1> SUFFICES ASSUME TypeOK, FreshInv, CalleeInv, TimeInv, [Next]_vars PROVE TimeInv'
  OBVIOUS
<1> USE TimeAssumption, FastAssumption, IntervalFacts
    DEF TypeOK, CalleeInv, LeftInv, TimeInv, Healthy, Waiting, Hears, BeatDue
<1>1. ASSUME NEW m \in net, HeartbeatComes(m) PROVE TimeInv'
  BY <1>1, MessagesOf DEF HeartbeatComes, ResetsTimer, calleeVars
<1>2. ASSUME NEW m \in net, AnswerComes(m) PROVE TimeInv'
  BY <1>2, MessagesOf DEF AnswerComes, Settles, Stopped, calleeVars
<1>3. ASSUME NEW m \in net, Loses(m) PROVE TimeInv'
  BY <1>3, MessagesOf DEF Loses, calleeVars
<1>4. ASSUME NEW c \in Calls, Call(c) PROVE TimeInv'
  <2> SUFFICES ASSUME NEW d \in Calls, Healthy(d)' PROVE Hears(d, Timeout)' /\ (Hears(d, timer[d])' \/ BeatDue(d)')
    BY DEF TimeInv
  <2>1. CASE d = c
    <3>1. Message("request", c) \in net'
      BY <1>4 DEF Call
    <3>2. timer'[c] = Timeout
      BY <1>4 DEF Call, FreshInv
    <3> QED BY <2>1, <3>1, <3>2, MessageTyped
  <2>2. CASE d # c
    <3>1. Healthy(d) /\ timer'[d] = timer[d] /\ net \subseteq net'
      BY <1>4, <2>2 DEF Call, calleeVars
    <3>2. Hears(d, Timeout) /\ (Hears(d, timer[d]) \/ BeatDue(d))
      BY <3>1 DEF TimeInv
    <3> QED BY <1>4, <2>2, <3>1, <3>2 DEF Call, calleeVars
  <2> QED BY <2>1, <2>2
<1>5. ASSUME NEW c \in Calls, TimesOut(c) PROVE TimeInv'
  BY <1>5, MessagesOf DEF TimesOut, Stopped, calleeVars
<1>6. ASSUME NEW c \in Calls, HandleStarts(c) PROVE TimeInv'
  BY <1>6, MessagesOf, RequestTaken DEF HandleStarts, Quiet
<1>7. ASSUME NEW c \in Calls, NEW type \in {"resolve", "reject"}, HandleAnswers(c, type) PROVE TimeInv'
  <2>1. PICK m \in net : /\ m.type = "request" /\ m.call = c /\ net' = (net \ {m}) \cup {Message(type, c)}
                        /\ beat[c] = "none"
                        /\ \A n \in net \ {m} : ~(n.type = "request" /\ n.call = c)
    BY <1>7, RequestTaken DEF HandleAnswers
  <2>2. ASSUME NEW d \in Calls, Healthy(d), d # c PROVE Hears(d, Timeout)' /\ (Hears(d, timer[d])' \/ BeatDue(d)')
    <3>1. Hears(d, Timeout) /\ (Hears(d, timer[d]) \/ BeatDue(d))
      BY <2>2 DEF TimeInv
    <3> QED BY <1>7, <2>1, <2>2, <3>1 DEF HandleAnswers, Answers
  <2>3. ASSUME Healthy(c) PROVE Hears(c, Timeout)' /\ (Hears(c, timer[c])' \/ BeatDue(c)')
    <3>1. Message(type, c) \in net' /\ timer' = timer
      BY <1>7, <2>1 DEF HandleAnswers
    <3>2. Hears(c, timer[c]) => timer[c] > MaxDelay
               \/ \E n \in net : n.call = c /\ n.type \in {"resolve", "reject"} /\ timer[c] > MaxDelay - n.age
      BY <2>1, MessagesOf
    <3>3. Timeout > MaxDelay
      OBVIOUS
    <3>4. BeatDue(c) => BeatDue(c)'
      BY <2>1, <3>1
    <3>5. Hears(c, timer[c]) \/ BeatDue(c)
      BY <2>3 DEF TimeInv
    <3>6. \A n \in net : n.type # "request" => n \in net'
      BY <2>1
    <3> HIDE DEF BeatDue, TimeInv, LeftInv, CalleeInv
    <3> QED BY <3>1, <3>2, <3>3, <3>4, <3>5, <3>6, MessageTyped
  <2> QED BY <1>7, <2>2, <2>3 DEF HandleAnswers
<1>8. ASSUME NEW c \in Calls, HandleMissing(c) PROVE TimeInv'
  BY <1>8, MessagesOf, RequestTaken, MessageTyped DEF HandleMissing, Answers
<1>9. ASSUME NEW c \in Calls, HandleExhausted(c) PROVE TimeInv'
  BY <1>9, MessagesOf, RequestTaken DEF HandleExhausted, Quiet
<1>10. ASSUME NEW c \in Calls, NEW type \in {"resolve", "reject"}, MethodEnds(c, type) PROVE TimeInv'
  <2>1. net \subseteq net' /\ timer' = timer /\ (c \notin closed => Message(type, c) \in net')
    BY <1>10 DEF MethodEnds
  <2>2. ASSUME NEW d \in Calls, Healthy(d) PROVE Hears(d, Timeout) /\ (Hears(d, timer[d]) \/ BeatDue(d))
    BY <2>2 DEF TimeInv
  <2>3. ASSUME NEW d \in Calls, Healthy(d), d # c PROVE Hears(d, Timeout)' /\ (Hears(d, timer[d])' \/ BeatDue(d)')
    BY <1>10, <2>1, <2>2, <2>3 DEF MethodEnds
  <2>4. ASSUME Healthy(c) PROVE Hears(c, Timeout)' /\ (Hears(c, timer[c])' \/ BeatDue(c)')
    <3>1. BeatDue(c) => BeatDue(c)'
      BY <2>1
    <3>2. Hears(c, timer[c]) => timer[c] > MaxDelay
               \/ \E m \in net : m.call = c /\ m.type \in {"resolve", "reject"} /\ timer[c] > MaxDelay - m.age
      BY MessagesOf
    <3>3. Timeout > MaxDelay
      OBVIOUS
    <3>4. Message(type, c) \in net' /\ (Hears(c, timer[c]) \/ BeatDue(c))
      BY <2>1, <2>2, <2>4
    <3> HIDE DEF BeatDue, TimeInv, LeftInv, CalleeInv
    <3> QED BY <2>1, <3>1, <3>2, <3>3, <3>4, MessageTyped
  <2> QED BY <1>10, <2>3, <2>4 DEF MethodEnds
<1>11. ASSUME NEW c \in Calls, BeatBegins(c) PROVE TimeInv'
  BY <1>11, MessagesOf DEF BeatBegins
<1>12. ASSUME NEW c \in Calls, BeatSent(c) PROVE TimeInv'
  BY <1>12, MessagesOf, MessageTyped DEF BeatSent
<1>13. ASSUME NEW c \in Calls, BeatFails(c) PROVE TimeInv'
  BY <1>13, MessagesOf, CancelledTyped DEF BeatFails
<1>14. ASSUME NEW c \in Calls, CalleeCloses(c) PROVE TimeInv'
  BY <1>14, MessagesOf, CancelledTyped DEF CalleeCloses, Quiet
<1>15. ASSUME Tick PROVE TimeInv'
  <2> SUFFICES ASSUME NEW d \in Calls, Healthy(d)' PROVE Hears(d, Timeout)' /\ (Hears(d, timer[d])' \/ BeatDue(d)')
    BY DEF TimeInv
  <2> DEFINE older(m) == [m EXCEPT !.age = @ + 1]
  <2>1. Healthy(d) /\ timer'[d] = timer[d] - 1 /\ beat' = beat
    BY <1>15 DEF Tick
  <2>2. Hears(d, Timeout) /\ (Hears(d, timer[d]) \/ BeatDue(d))
    BY <2>1 DEF TimeInv
  <2>3. ASSUME NEW m \in net
        PROVE  older(m) \in net' /\ older(m).type = m.type /\ older(m).call = m.call /\ older(m).age = m.age + 1
    <3>1. m \in Messages
      OBVIOUS
    <3> QED BY <1>15, <3>1, OlderTyped DEF Tick
  <2> HIDE DEF older
  <2>4. beat[d] \in {"sending", "sleeping"} => left'[d] = left[d] - 1
    BY <1>15 DEF Tick
  <2>5. ASSUME NEW t \in Nat, NEW u \in Int, u >= t - 1, Hears(d, t) PROVE Hears(d, u)'
    <3>1. CASE \E m \in net : m.call = d /\ m.type = "request" /\ t > 2 * MaxDelay - m.age + MaxSend
      BY <2>3, <2>5, <3>1, MessagesOf
    <3>2. CASE \E m \in net : m.call = d /\ m.type \in {"resolve", "reject"} /\ t > MaxDelay - m.age
      BY <2>3, <2>5, <3>2, MessagesOf
    <3>3. beat[d] # "new"
      BY <1>15 DEF Tick, Idle
    <3> QED BY <2>1, <2>4, <2>5, <3>1, <3>2, <3>3
  <2>6. BeatDue(d) => BeatDue(d)'
    BY <2>1, <2>3, MessagesOf
  <2> HIDE DEF Hears, BeatDue
  <2> QED BY <2>1, <2>2, <2>5, <2>6
<1>16. CASE UNCHANGED vars
  BY <1>16 DEF vars
<1> QED BY <1>1, <1>2, <1>3, <1>4, <1>5, <1>6, <1>7, <1>8, <1>9, <1>10, <1>11, <1>12, <1>13, <1>14, <1>15, <1>16
        DEF Next, Prompt, Handle

LEMMA ReturnedStep == TypeOK /\ ReturnedInv /\ [Next]_vars => ReturnedInv'
<1> SUFFICES ASSUME TypeOK, ReturnedInv, [Next]_vars PROVE ReturnedInv'
  OBVIOUS
<1> USE DEF ReturnedInv, Message
<1>1. ASSUME NEW m \in net, HeartbeatComes(m) \/ AnswerComes(m) \/ Loses(m) PROVE ReturnedInv'
  BY <1>1 DEF HeartbeatComes, AnswerComes, Loses, calleeVars
<1>2. ASSUME NEW c \in Calls, Call(c) \/ TimesOut(c) \/ BeatBegins(c) \/ BeatSent(c) \/ BeatFails(c) \/ CalleeCloses(c)
      PROVE  ReturnedInv'
  BY <1>2 DEF Call, TimesOut, BeatBegins, BeatSent, BeatFails, CalleeCloses, Quiet, calleeVars
<1>3. ASSUME NEW c \in Calls, Handle(c) PROVE ReturnedInv'
  BY <1>3 DEF Handle, HandleStarts, HandleMissing, HandleExhausted, HandleAnswers, Exchanged, Answers, Quiet
<1>4. ASSUME NEW c \in Calls, NEW type \in {"resolve", "reject"}, MethodEnds(c, type) PROVE ReturnedInv'
  BY <1>4 DEF MethodEnds, Answers
<1>5. ASSUME Tick PROVE ReturnedInv'
  <2>1. net \subseteq Messages
    BY DEF TypeOK
  <2>2. \A m \in net' : \E n \in net : m.type = n.type /\ m.call = n.call
    <3> SUFFICES ASSUME NEW m \in net' PROVE \E n \in net : m.type = n.type /\ m.call = n.call
      OBVIOUS
    <3>1. PICK n \in net : m = [n EXCEPT !.age = @ + 1]
      BY <1>5 DEF Tick
    <3> QED BY <2>1, <3>1, OlderTyped
  <2> QED BY <1>5, <2>2 DEF Tick
<1>6. CASE UNCHANGED vars
  BY <1>6 DEF vars
<1> QED BY <1>1, <1>2, <1>3, <1>4, <1>5, <1>6 DEF Next, Prompt

LEMMA NoFalseTimeoutStep == TypeOK /\ TimeInv /\ NoFalseTimeout /\ [Next]_vars => NoFalseTimeout'
<1> SUFFICES ASSUME TypeOK, TimeInv, NoFalseTimeout, [Next]_vars,
                    NEW c \in Calls, caller'[c] = "timed_out", c \notin lost' \cup closed'
             PROVE  FALSE
  BY DEF NoFalseTimeout
<1>1. lost \subseteq lost' /\ closed \subseteq closed'
  BY DEF Next, Prompt, Handle, HeartbeatComes, AnswerComes, Loses, Call, TimesOut, HandleStarts, HandleAnswers,
         HandleMissing, HandleExhausted, MethodEnds, BeatBegins, BeatSent, BeatFails, CalleeCloses, Tick, calleeVars, vars
<1>2. caller[c] # "timed_out"
  BY <1>1 DEF NoFalseTimeout
\* Only one action writes "timed_out", and only when the timer has run down.
<1>3. TimesOut(c)
  <2>1. ASSUME NEW m \in net, HeartbeatComes(m) \/ AnswerComes(m) \/ Loses(m) PROVE FALSE
    BY <1>2, <2>1, MessagesOf DEF HeartbeatComes, AnswerComes, Settles, Loses, calleeVars, TypeOK
  <2>2. ASSUME NEW d \in Calls, Call(d) \/ CalleeCloses(d) \/ (TimesOut(d) /\ d # c) PROVE FALSE
    BY <1>2, <2>2 DEF Call, CalleeCloses, TimesOut, calleeVars, TypeOK
  <2>3. ASSUME UNCHANGED caller PROVE FALSE
    BY <1>2, <2>3
  <2>4. ASSUME NEW d \in Calls, Handle(d) PROVE FALSE
    BY <2>3, <2>4 DEF Handle, HandleStarts, HandleMissing, HandleExhausted, HandleAnswers
  <2>5. ASSUME NEW d \in Calls, BeatBegins(d) \/ BeatSent(d) \/ BeatFails(d) PROVE FALSE
    BY <2>3, <2>5 DEF BeatBegins, BeatSent, BeatFails
  <2>6. ASSUME NEW d \in Calls, NEW type \in {"resolve", "reject"}, MethodEnds(d, type) PROVE FALSE
    BY <2>3, <2>6 DEF MethodEnds
  <2> QED BY <2>1, <2>2, <2>3, <2>4, <2>5, <2>6 DEF Next, Prompt, Tick, vars
<1>4. Hears(c, 0) \/ BeatDue(c)
  BY <1>1, <1>3 DEF TimesOut, TimeInv, Healthy
<1> QED BY <1>3, <1>4, MessagesOf, TimeAssumption DEF TimesOut, Hears, BeatDue, TypeOK

LEMMA IInvInit == Init => IInv
BY TimeAssumption DEF Init, IInv, TypeOK, FreshInv, Untouched, CalleeInv, ReplyInv, BeatMatchesTask, LeftInv, TimeInv,
   Healthy, Waiting, ReturnedInv, NoFalseTimeout

LEMMA IInvStep == IInv /\ [Next]_vars => IInv'
BY TypeStep, FreshStep, CalleeStep, TimeStep, ReturnedStep, NoFalseTimeoutStep DEF IInv, CalleeInv

LEMMA Invariance == Spec => []IInv
BY IInvInit, IInvStep, PTL DEF Spec

\* The two sides, the messages between them and the timers always have the stated types.
THEOREM DispatchTypeCorrect == Spec => []TypeOK
<1>1. IInv => TypeOK
  BY DEF IInv
<1> QED BY <1>1, Invariance, PTL

\* As long as nothing is lost and the callee stays, the caller's timer does not fire,
\* however long the method runs (Timer, heartbeat in _handle_method).
THEOREM HeartbeatsInTime == Spec => []NoFalseTimeout
<1>1. IInv => NoFalseTimeout
  BY DEF IInv
<1> QED BY <1>1, Invariance, PTL

\* _handle_method and _call_method answer a call at most once, and have answered it once
\* when its method has ended.
THEOREM OneAnswer == Spec => []AnsweredOnce
<1>1. IInv => AnsweredOnce
  BY DEF IInv, CalleeInv, ReplyInv, AnsweredOnce
<1> QED BY <1>1, Invariance, PTL

\* While a method runs its heartbeat task does, and none is left when the method has
\* ended or was cancelled, whichever of the two ended first (_wait, heartbeat).
THEOREM HeartbeatsOfTasks == Spec => []BeatMatchesTask
<1>1. IInv => BeatMatchesTask
  BY DEF IInv, CalleeInv
<1> QED BY <1>1, Invariance, PTL

-----------------------------------------------------------------------------
(* Refinement: caller and callee together implement CallContract *)

Fut == [c \in Calls |-> CASE caller[c] = "idle" -> "none"
                          [] Waiting(c) -> "pending"
                          [] caller[c] = "resolved" -> "resolved"
                          [] OTHER -> "rejected"]

LEMMA Futures ==
  ASSUME TypeOK, NEW c \in Calls
  PROVE  /\ caller[c] = "idle" => Fut[c] = "none"
         /\ caller[c] = "waiting" => Fut[c] = "pending"
         /\ caller[c] = "resolved" => Fut[c] = "resolved"
         /\ caller[c] \in {"rejected", "timed_out"} => Fut[c] = "rejected"
BY DEF TypeOK, Fut, Waiting

Promised == {c \in Calls : caller[c] # "idle"}

Stays == UNCHANGED <<Fut, Promised, returned>>

LEMMA ContractStutters == Stays => [Contract!Next]_(Contract!vars)
BY DEF Stays, Fut, Promised, Contract!vars

\* Calls that are waited for are rejected.
LEMMA RejectionsAllowed ==
  ASSUME TypeOK, TypeOK', NEW S \in SUBSET Calls, NEW why \in {"rejected", "timed_out"},
         \A c \in S : Waiting(c),
         caller' = [c \in Calls |-> IF c \in S THEN why ELSE caller[c]],
         returned' = returned
  PROVE  [Contract!Next]_(Contract!vars)
<1>1. Promised' = Promised
  BY DEF Promised, Waiting
<1>2. CASE S = {}
  <2>1. caller' = caller
    BY <1>2 DEF TypeOK
  <2> QED BY <2>1, <1>1, ContractStutters DEF Stays, Fut, Waiting
<1>3. CASE S # {}
  <2>1. Fut' = [c \in Calls |-> IF c \in S THEN "rejected" ELSE Fut[c]]
    BY Futures DEF Fut, Waiting
  <2>2. \A c \in S : Fut[c] = "pending"
    BY Futures DEF Waiting
  <2>3. Contract!Reject(S)
    BY <1>1, <1>3, <2>1, <2>2 DEF Contract!Reject, Fut, Promised
  <2> QED BY <2>3 DEF Contract!Next
<1> QED BY <1>2, <1>3

\* The callee sends an answer.
LEMMA AnswersAllowed ==
  ASSUME NEW c \in Calls, NEW type, caller' = caller, caller[c] # "idle", Answers(c, type)
  PROVE  [Contract!Next]_(Contract!vars)
<1>1. Fut' = Fut /\ Promised' = Promised
  BY DEF Fut, Promised, Waiting
<1>2. CASE type = "resolve"
  <2>1. Contract!Answer(c)
    BY <1>1, <1>2 DEF Answers, Contract!Answer, Fut, Promised
  <2> QED BY <2>1 DEF Contract!Next
<1>3. CASE type # "resolve"
  BY <1>1, <1>3, ContractStutters DEF Answers, Stays
<1> QED BY <1>2, <1>3

LEMMA ContractStep == IInv /\ [Next]_vars => [Contract!Next]_(Contract!vars)
<1> SUFFICES ASSUME IInv, [Next]_vars PROVE [Contract!Next]_(Contract!vars)
  OBVIOUS
<1>t. TypeOK /\ TypeOK' /\ FreshInv
  BY IInvStep DEF IInv
<1>u. ASSUME UNCHANGED <<caller, returned>> PROVE [Contract!Next]_(Contract!vars)
  BY <1>u, ContractStutters DEF Stays, Fut, Promised, Waiting
<1>1. ASSUME NEW c \in Calls, Call(c) PROVE [Contract!Next]_(Contract!vars)
  <2>1. Fut[c] = "none" /\ Fut' = [Fut EXCEPT ![c] = "pending"]
    <3>1. caller[c] = "idle" /\ caller' = [caller EXCEPT ![c] = "waiting"]
      BY <1>1 DEF Call
    <3>2. Fut[c] = "none"
      BY <1>t, <3>1, Futures
    <3>3. caller'[c] = "waiting" /\ \A d \in Calls \ {c} : caller'[d] = caller[d]
      BY <1>t, <3>1 DEF TypeOK
    <3>4. ASSUME NEW d \in Calls PROVE Fut'[d] = [Fut EXCEPT ![c] = "pending"][d]
      <4>1. CASE d = c
        BY <3>3, <4>1 DEF Fut, Waiting
      <4>2. CASE d # c
        BY <3>3, <4>2 DEF Fut, Waiting
      <4> QED BY <4>1, <4>2
    <3>5. Fut' = [Fut EXCEPT ![c] = "pending"]
      BY <3>4 DEF Fut
    <3> QED BY <3>2, <3>5
  <2>2. Promised' = Promised \cup {c} /\ returned' = returned
    BY <1>1, <1>t DEF Call, Promised, TypeOK, calleeVars
  <2>3. Contract!Issue(c, TRUE)
    BY <2>1, <2>2 DEF Contract!Issue, Fut, Promised
  <2> QED BY <2>3 DEF Contract!Next
<1>2. ASSUME NEW m \in net, AnswerComes(m) PROVE [Contract!Next]_(Contract!vars)
  <2> DEFINE c == m.call
  <2>1. c \in Calls /\ returned' = returned
    BY <1>2, <1>t, MessagesOf DEF AnswerComes, TypeOK, calleeVars
  <2>2. CASE ~Waiting(c)
    BY <1>2, <1>u, <2>1, <2>2 DEF AnswerComes, Settles
  <2>3. CASE Waiting(c) /\ m.type = "resolve"
    <3>1. caller' = [caller EXCEPT ![c] = "resolved"]
      BY <1>2, <2>3 DEF AnswerComes, Settles
    <3>2. Fut[c] = "pending" /\ Fut' = [Fut EXCEPT ![c] = "resolved"] /\ Promised' = Promised
      BY <1>t, <2>1, <2>3, <3>1, Futures DEF Fut, Promised, Waiting, TypeOK
    <3>3. c \in returned
      BY <2>3 DEF IInv, ReturnedInv
    <3>4. Contract!Resolve(c)
      BY <2>1, <3>2, <3>3 DEF Contract!Resolve, Fut, Promised
    <3> QED BY <2>1, <3>4 DEF Contract!Next
  <2>4. CASE Waiting(c) /\ m.type # "resolve"
    <3>1. caller' = [d \in Calls |-> IF d \in {c} THEN "rejected" ELSE caller[d]]
      <4>1. caller' = [caller EXCEPT ![c] = "rejected"]
        BY <1>2, <2>4 DEF AnswerComes, Settles
      <4> HIDE DEF c
      <4> QED BY <1>t, <2>1, <4>1 DEF TypeOK
    <3> HIDE DEF c
    <3>2. {c} \in SUBSET Calls /\ \A d \in {c} : Waiting(d)
      BY <2>1, <2>4
    <3> QED BY <1>t, <2>1, <3>1, <3>2, RejectionsAllowed
  <2> QED BY <2>2, <2>3, <2>4
<1>3. ASSUME NEW c \in Calls, TimesOut(c) PROVE [Contract!Next]_(Contract!vars)
  <2>1. caller' = [d \in Calls |-> IF d \in {c} THEN "timed_out" ELSE caller[d]]
    BY <1>3, <1>t DEF TimesOut, TypeOK
  <2> QED BY <1>3, <1>t, <2>1, RejectionsAllowed DEF TimesOut, calleeVars
<1>4. ASSUME NEW c \in Calls, CalleeCloses(c) PROVE [Contract!Next]_(Contract!vars)
  <2> DEFINE S == {d \in Calls : Parent[d] = c /\ Waiting(d)}
  <2>1. caller' = [d \in Calls |-> IF d \in S THEN "rejected" ELSE caller[d]]
    BY <1>4 DEF CalleeCloses
  <2>2. \A d \in S : Waiting(d)
    OBVIOUS
  <2> HIDE DEF S
  <2>3. S \in SUBSET Calls
    BY DEF S
  <2> QED BY <1>4, <1>t, <2>1, <2>2, <2>3, RejectionsAllowed DEF CalleeCloses, Quiet
<1>5. ASSUME NEW c \in Calls, NEW type \in {"resolve", "reject"}, HandleAnswers(c, type) PROVE [Contract!Next]_(Contract!vars)
  BY <1>5, <1>t, RequestTaken, AnswersAllowed DEF HandleAnswers
<1>6. ASSUME NEW c \in Calls, HandleMissing(c) PROVE [Contract!Next]_(Contract!vars)
  BY <1>6, <1>t, RequestTaken, AnswersAllowed DEF HandleMissing
<1>7. ASSUME NEW c \in Calls, NEW type \in {"resolve", "reject"}, MethodEnds(c, type) PROVE [Contract!Next]_(Contract!vars)
  BY <1>7, <1>t, AnswersAllowed DEF MethodEnds, FreshInv, Untouched
<1>8. ASSUME NEW m \in net, HeartbeatComes(m) \/ Loses(m) PROVE [Contract!Next]_(Contract!vars)
  BY <1>8, <1>u DEF HeartbeatComes, Loses, calleeVars
<1>9. ASSUME NEW c \in Calls, HandleStarts(c) \/ HandleExhausted(c) \/ BeatBegins(c) \/ BeatSent(c) \/ BeatFails(c)
      PROVE  [Contract!Next]_(Contract!vars)
  BY <1>9, <1>u DEF HandleStarts, HandleExhausted, BeatBegins, BeatSent, BeatFails, Quiet
<1>10. ASSUME Tick \/ UNCHANGED vars PROVE [Contract!Next]_(Contract!vars)
  BY <1>10, <1>u DEF Tick, vars
<1> QED BY <1>1, <1>2, <1>3, <1>4, <1>5, <1>6, <1>7, <1>8, <1>9, <1>10 DEF Next, Prompt, Handle

\* Both sides together, with messages lost and sides closing, keep the promise CallSession
\* makes for the caller alone: a future settles once, with a result only if one was sent.
THEOREM ContractImplemented == Spec => ImplementsContract
<1>1. Init => Contract!Init
  BY DEF Init, Contract!Init, Waiting
<1> QED BY <1>1, ContractStep, Invariance, PTL DEF Spec, ImplementsContract, Contract!Spec
-----------------------------------------------------------------------------
(* The timer of a call that no heartbeat resets *)

Beating(c) == beat[c] \in {"new", "sending", "sleeping"}

\* What lets a call wait forever: its method runs, or it was not found, a way out of
\* _handle_method that leaves the heartbeat task behind.
Excused(c) == c \in missing \/ task[c] = "running"

\* The method has been found and has ended or was cancelled.
Over(c) == task[c] \in {"ended", "cancelled"} /\ c \notin missing

\* Nobody else sends heartbeats.
BeatingInv == \A c \in Calls : Beating(c) => Excused(c)

LEMMA BeatingStep == IInv /\ BeatingInv /\ [Next]_vars => BeatingInv'
<1> SUFFICES ASSUME IInv, BeatingInv, [Next]_vars PROVE BeatingInv'
  OBVIOUS
<1>t. TypeOK /\ FreshInv
  BY DEF IInv
<1> USE DEF BeatingInv, Beating, Excused
<1>1. ASSUME UNCHANGED <<task, beat, missing>> PROVE BeatingInv'
  BY <1>1
<1>2. ASSUME NEW m \in net, HeartbeatComes(m) \/ AnswerComes(m) \/ Loses(m) PROVE BeatingInv'
  BY <1>1, <1>2 DEF HeartbeatComes, AnswerComes, Loses, calleeVars
<1>3. ASSUME NEW c \in Calls, Call(c) \/ TimesOut(c) PROVE BeatingInv'
  BY <1>1, <1>3 DEF Call, TimesOut, calleeVars
<1>4. ASSUME NEW c \in Calls, Handle(c) PROVE BeatingInv'
  BY <1>t, <1>4, RequestTaken DEF Handle, HandleStarts, HandleMissing, HandleExhausted, HandleAnswers, TypeOK
<1>5. ASSUME NEW c \in Calls, NEW type \in {"resolve", "reject"}, MethodEnds(c, type) PROVE BeatingInv'
  BY <1>t, <1>5 DEF MethodEnds, TypeOK
<1>6. ASSUME NEW c \in Calls, BeatBegins(c) \/ BeatSent(c) PROVE BeatingInv'
  BY <1>t, <1>6 DEF BeatBegins, BeatSent, TypeOK
<1>7. ASSUME NEW c \in Calls, BeatFails(c) PROVE BeatingInv'
  BY <1>t, <1>7, CancelledTyped DEF BeatFails, TypeOK
<1>8. ASSUME NEW c \in Calls, CalleeCloses(c) PROVE BeatingInv'
  BY <1>t, <1>8, CancelledTyped DEF CalleeCloses, TypeOK
<1>9. CASE Tick \/ UNCHANGED vars
  BY <1>1, <1>9 DEF Tick, vars
<1> QED BY <1>2, <1>3, <1>4, <1>5, <1>6, <1>7, <1>8, <1>9 DEF Next, Prompt

LEMMA OnlyTheExcusedBeat == Spec => []BeatingInv
<1>1. Init => BeatingInv
  BY DEF Init, BeatingInv, Beating
<1> QED BY <1>1, Invariance, BeatingStep, PTL DEF Spec

\* A call whose method has ended is not handled again.
LEMMA ExcuseEndsOnce ==
  ASSUME IInv, [Next]_vars, NEW c \in Calls
  PROVE  (Excused(c) => Excused(c)' \/ Over(c)') /\ (Over(c) => Over(c)')
<1>t. TypeOK /\ FreshInv
  BY DEF IInv
<1> USE DEF Excused, Over
<1> DEFINE Goal == (Excused(c) => Excused(c)' \/ Over(c)') /\ (Over(c) => Over(c)')
<1>1. ASSUME UNCHANGED <<task, missing>> PROVE Goal
  BY <1>1
<1>2. ASSUME NEW m \in net, HeartbeatComes(m) \/ AnswerComes(m) \/ Loses(m) PROVE Goal
  BY <1>1, <1>2 DEF HeartbeatComes, AnswerComes, Loses, calleeVars
<1>3. ASSUME NEW d \in Calls, Call(d) \/ TimesOut(d) \/ BeatBegins(d) \/ BeatSent(d) PROVE Goal
  BY <1>1, <1>3 DEF Call, TimesOut, BeatBegins, BeatSent, calleeVars
<1>4. ASSUME NEW d \in Calls, Handle(d) PROVE Goal
  BY <1>t, <1>4, RequestTaken DEF Handle, HandleStarts, HandleMissing, HandleExhausted, HandleAnswers, TypeOK
<1>5. ASSUME NEW d \in Calls, NEW type \in {"resolve", "reject"}, MethodEnds(d, type) PROVE Goal
  BY <1>t, <1>5 DEF MethodEnds, TypeOK
<1>6. ASSUME NEW d \in Calls, BeatFails(d) \/ CalleeCloses(d) PROVE Goal
  BY <1>t, <1>6, CancelledTyped DEF BeatFails, CalleeCloses, TypeOK
<1>7. CASE Tick \/ UNCHANGED vars
  BY <1>1, <1>7 DEF Tick, vars
<1> QED BY <1>2, <1>3, <1>4, <1>5, <1>6, <1>7 DEF Next, Prompt

\* How long a call can wait that is not kept alive: the heartbeats that may still reset
\* its timer, and the timer.
Heartbeats(c) == {m \in net : m.type = "heartbeat" /\ m.call = c}
Count(c) == Cardinality(Heartbeats(c))

Sooner(c) == \/ Count(c)' < Count(c)
             \/ Count(c)' = Count(c) /\ timer'[c] < timer[c]
AsLong(c) == Count(c)' = Count(c) /\ timer'[c] = timer[c]

\* The heartbeats are finitely many, since no message grows older than MaxDelay.
LEMMA CountFinite == ASSUME TypeOK, NEW c \in Calls PROVE IsFiniteSet(Heartbeats(c)) /\ Count(c) \in Nat
<1> DEFINE f == [a \in 0..MaxDelay |-> [type |-> "heartbeat", call |-> c, age |-> a]]
           T == {f[a] : a \in 0..MaxDelay}
<1>1. IsFiniteSet(0..MaxDelay)
  BY FS_Interval, TimeAssumption
<1>2. f \in Surjection(0..MaxDelay, T)
  BY Fun_IsSurj
<1>3. IsFiniteSet(T)
  <2> HIDE DEF f, T
  <2> QED BY <1>1, <1>2, FS_Surjection
<1>4. Heartbeats(c) \subseteq T
  BY DEF Heartbeats, TypeOK, Messages
<1>5. IsFiniteSet(Heartbeats(c))
  <2> HIDE DEF T
  <2> QED BY <1>3, <1>4, FS_Subset
<1> QED BY <1>5, FS_CardinalityType DEF Count

LEMMA CountFiniteNext == TypeOK' => \A c \in Calls : Count(c)' \in Nat
<1> DEFINE N == \A c \in Calls : Count(c) \in Nat
<1>1. TypeOK => N
  BY CountFinite
<1> HIDE DEF N
<1>2. TypeOK' => N'
  BY <1>1, PTL
<1> QED BY <1>2 DEF N

\* A tick makes the heartbeats older and not more, and the timer run down.
LEMMA TickShrinks ==
  ASSUME TypeOK, TypeOK', Tick, NEW c \in Calls, Waiting(c)
  PROVE  Sooner(c)
<1> DEFINE S == Heartbeats(c)
           f == [m \in S |-> [m EXCEPT !.age = @ + 1]]
           T == Heartbeats(c)'
<1>1. IsFiniteSet(S) /\ Count(c) \in Nat /\ Count(c)' \in Nat
  BY CountFinite, CountFiniteNext
<1>2. net \subseteq Messages /\ net' = {[m EXCEPT !.age = @ + 1] : m \in net}
  BY DEF TypeOK, Tick
<1>3. \A m \in S : f[m] \in T
  BY <1>2, OlderTyped DEF Heartbeats
<1>4. \A n \in T : \E m \in S : f[m] = n
  <2> SUFFICES ASSUME NEW n \in T PROVE \E m \in S : f[m] = n
    OBVIOUS
  <2>1. PICK m \in net : n = [m EXCEPT !.age = @ + 1]
    BY <1>2 DEF Heartbeats
  <2>2. m.type = n.type /\ m.call = n.call
    BY <1>2, <2>1, OlderTyped
  <2> QED BY <2>1, <2>2 DEF Heartbeats
<1>5. f \in Surjection(S, T)
  BY <1>3, <1>4, Fun_IsSurj
<1>6. Count(c)' <= Count(c)
  <2> HIDE DEF f, S, T
  <2>1. Cardinality(T) <= Cardinality(S)
    BY <1>1, <1>5, FS_Surjection
  <2> QED BY <2>1 DEF Count, S, T
<1>7. timer'[c] < timer[c]
  BY TimeAssumption DEF Tick, TypeOK
<1> QED BY <1>1, <1>6, <1>7 DEF Sooner

\* Nothing else lets a call wait longer whose heartbeat task does not run.
LEMMA WaitShrinks ==
  ASSUME IInv, TypeOK', [Next]_vars, NEW c \in Calls, Waiting(c), Waiting(c)', ~Beating(c)
  PROVE  (Sooner(c) \/ AsLong(c)) /\ (Tick => Sooner(c))
<1>t. TypeOK /\ FreshInv
  BY DEF IInv
<1> DEFINE Goal == Sooner(c) \/ AsLong(c)
<1>0. CASE Tick
  BY <1>0, <1>t, TickShrinks
<1>1. ASSUME Heartbeats(c)' \subseteq Heartbeats(c), timer'[c] = timer[c] PROVE Goal
  <2>1. IsFiniteSet(Heartbeats(c)) /\ Count(c) \in Nat /\ Count(c)' \in Nat
    BY <1>t, CountFinite, CountFiniteNext
  <2>2. Count(c)' <= Count(c)
    BY <1>1, <2>1, FS_Subset DEF Count
  <2> QED BY <1>1, <2>1, <2>2 DEF Sooner, AsLong
<1>2. ASSUME NEW m \in net, HeartbeatComes(m), m.call = c PROVE Goal
  <2>1. IsFiniteSet(Heartbeats(c)) /\ Count(c) \in Nat
    BY <1>t, CountFinite
  <2>2. m \in Heartbeats(c) /\ Heartbeats(c)' = Heartbeats(c) \ {m}
    BY <1>2 DEF HeartbeatComes, Heartbeats
  <2>3. Count(c)' = Count(c) - 1
    BY <2>1, <2>2, FS_RemoveElement DEF Count
  <2> QED BY <2>1, <2>3 DEF Sooner
<1>3. ASSUME NEW m \in net, HeartbeatComes(m), m.call # c PROVE Goal
  BY <1>1, <1>3, <1>t, MessagesOf DEF HeartbeatComes, Heartbeats, ResetsTimer, TypeOK
<1>4. ASSUME NEW m \in net, AnswerComes(m) PROVE Goal
  <2>1. m.call # c
    BY <1>4, <1>t DEF AnswerComes, Settles, Waiting, TypeOK
  <2>2. timer'[c] = timer[c]
    BY <1>4, <1>t, <2>1, MessagesOf DEF AnswerComes, Settles, Stopped, TypeOK
  <2> QED BY <1>1, <1>4, <2>2 DEF AnswerComes, Heartbeats
<1>5. ASSUME NEW m \in net, Loses(m) PROVE Goal
  BY <1>1, <1>5 DEF Loses, Heartbeats
<1>6. ASSUME NEW d \in Calls, Call(d) PROVE Goal
  BY <1>1, <1>6 DEF Call, Heartbeats, Message
<1>7. ASSUME NEW d \in Calls, TimesOut(d) PROVE Goal
  <2>1. d # c
    BY <1>7, <1>t DEF TimesOut, Waiting, TypeOK
  <2> QED BY <1>1, <1>7, <1>t, <2>1 DEF TimesOut, Stopped, Heartbeats, TypeOK
<1>8. ASSUME NEW d \in Calls, Handle(d) PROVE Goal
  BY <1>1, <1>8 DEF Handle, HandleStarts, HandleMissing, HandleExhausted, HandleAnswers, Exchanged, Heartbeats, Message
<1>9. ASSUME NEW d \in Calls, NEW type \in {"resolve", "reject"}, MethodEnds(d, type) PROVE Goal
  BY <1>1, <1>9 DEF MethodEnds, Heartbeats, Message
<1>10. ASSUME NEW d \in Calls, BeatSent(d) PROVE Goal
  <2>1. d # c
    BY <1>10 DEF BeatSent, Beating
  <2> QED BY <1>1, <1>10, <2>1 DEF BeatSent, Heartbeats, Message
<1>11. ASSUME NEW d \in Calls, BeatBegins(d) \/ BeatFails(d) PROVE Goal
  BY <1>1, <1>11 DEF BeatBegins, BeatFails, Heartbeats
<1>12. ASSUME NEW d \in Calls, CalleeCloses(d) PROVE Goal
  <2>1. Parent[c] # d
    BY <1>12 DEF CalleeCloses, Waiting
  <2> QED BY <1>1, <1>12, <2>1 DEF CalleeCloses, Heartbeats
<1>13. ASSUME UNCHANGED vars PROVE Goal /\ (Tick => Sooner(c))
  BY <1>0, <1>1, <1>13 DEF vars, Heartbeats
<1> QED BY <1>0, <1>2, <1>3, <1>4, <1>5, <1>6, <1>7, <1>8, <1>9, <1>10, <1>11, <1>12, <1>13 DEF Next, Prompt

\* While a call waits whose method does not run and was found, each tick brings its end nearer
\* and nothing puts it off: no step adds a heartbeat or winds up its timer, but for one of
\* the heartbeats that are still on their way (Timer.reset, heartbeat in _handle_method).
SilenceRunsDown ==
  [][\A c \in Calls : Waiting(c) /\ Waiting(c)' /\ ~Excused(c) =>
       (Sooner(c) \/ AsLong(c)) /\ (Tick => Sooner(c))]_vars

\* No call waits any longer than its timer and the heartbeats on their way allow, unless
\* its method runs or was not found.
THEOREM SilenceIsShort == Spec => SilenceRunsDown
<1>1. IInv /\ IInv' /\ BeatingInv /\ [Next]_vars =>
        [\A c \in Calls : Waiting(c) /\ Waiting(c)' /\ ~Excused(c) =>
           (Sooner(c) \/ AsLong(c)) /\ (Tick => Sooner(c))]_vars
  BY WaitShrinks DEF IInv, BeatingInv
<1> QED BY <1>1, Invariance, OnlyTheExcusedBeat, PTL DEF Spec, SilenceRunsDown

\* The number of heartbeats and the timer run down forever, which natural numbers do not.
RunsDownForever(c) == <>[][Sooner(c) \/ AsLong(c)]_vars /\ []<><<Sooner(c)>>_vars

LEMMA CallEndsOrRunsDown ==
  ASSUME NEW c \in Calls
  PROVE  Spec /\ []<><<Tick>>_vars => (<>[]Waiting(c) => <>[]Excused(c)) \/ RunsDownForever(c)
<1> DEFINE E == Excused(c)
           O == Over(c)
           W == Waiting(c)
<1>1. IInv /\ [Next]_vars => (E => E' \/ O') /\ (O => O')
  BY ExcuseEndsOnce
<1>2. O => ~E
  BY DEF Over, Excused
<1>3. IInv /\ IInv' /\ BeatingInv /\ [Next]_vars /\ W /\ W' /\ ~E =>
        [Sooner(c) \/ AsLong(c)]_vars /\ (<<Tick>>_vars => <<Sooner(c)>>_vars)
  BY WaitShrinks DEF IInv, BeatingInv
<1> HIDE DEF E, O, W
<1>4. Spec /\ []<><<Tick>>_vars => (<>[]W => <>[]E) \/ (<>[][Sooner(c) \/ AsLong(c)]_vars /\ []<><<Sooner(c)>>_vars)
  BY <1>1, <1>2, <1>3, Invariance, OnlyTheExcusedBeat, PTL DEF Spec
<1> QED BY <1>4 DEF RunsDownForever, E, W

\* As long as time goes on no call waits forever whose method has been found and does not
\* run forever: it would have to run down forever.
THEOREM CallsEndOrRunDown == Spec /\ []<><<Tick>>_vars => CallEnds \/ \E c \in Calls : RunsDownForever(c)
<1>1. Spec /\ []<><<Tick>>_vars => \A c \in Calls : (<>[]Waiting(c) => <>[]Excused(c)) \/ RunsDownForever(c)
  BY CallEndsOrRunsDown
<1>2. (\A c \in Calls : <>[]Waiting(c) => <>[]Excused(c)) => CallEnds
  BY DEF CallEnds, Excused
<1> QED BY <1>1, <1>2
=============================================================================
