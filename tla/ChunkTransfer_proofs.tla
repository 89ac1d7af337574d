------------------------ MODULE ChunkTransfer_proofs ------------------------
(***************************************************************************)
(* For any messages, however many of them want the same entry, any number  *)
(* of chunks and any faults: only whole messages are processed, each at    *)
(* most once, and before their sender thinks so.                           *)
(*                                                                         *)
(* An entry belongs to the message it was made for until that message has  *)
(* it removed or processed, and all its chunks are taken before that.      *)
(*                                                                         *)
(* What TransferEnds rests on is at the end: every step leaves less to do, *)
(* a transfer that has not ended can always go on, and so it ends if the   *)
(* tasks run, unless steps that leave less to do go on forever.            *)
(***************************************************************************)
EXTENDS ChunkTransfer, FiniteSetTheorems, WellFoundedInduction, TLAPS

Owns(m) == maker[Key[m]] = m

\* create is the first call of a message, made once, and remove or process its last.
CallsInv ==
  /\ \A m \in Messages : phase[m] = "idle" =>
       (\A r \in wire : r.msg # m) /\ (\A a \in answers : a.msg # m)
  /\ \A r \in wire : r.op = "create" =>
       /\ phase[r.msg] \in {"creating", "failed"}
       /\ \A q \in wire : q.msg = r.msg => q = r
       /\ \A a \in answers : a.msg # r.msg
  /\ \A a \in answers : a.op = "create" =>
       /\ phase[a.msg] \in {"creating", "failed"}
       /\ \A q \in wire : q.msg # a.msg
       /\ \A b \in answers : b.msg = a.msg => b = a
  /\ \A m \in Messages : phase[m] = "creating" =>
       (\A r \in wire : r.msg = m => r.op = "create") /\ (\A a \in answers : a.msg = m => a.op = "create")
  /\ \A r \in wire : r.op = "remove" => phase[r.msg] \in {"removing", "failed"}
  /\ \A r \in wire : r.op = "process" => phase[r.msg] \in {"processing", "failed"} /\ AllStored(r.msg)
  /\ \A a \in answers : a.op = "process" =>
       phase[a.msg] \in {"processing", "done", "failed"} /\ \A r \in wire : r.msg = a.msg => r.op # "process"
  /\ \A r, q \in wire : r.msg = q.msg /\ r.op \in {"remove", "process"} /\ q.op \in {"remove", "process"} => r = q

\* Whoever is sending chunks, or has called for the entry, owns it.
OwnInv ==
  /\ \A m \in Messages : phase[m] = "sending" => Owns(m)
  /\ \A r \in wire : r.op # "create" => Owns(r.msg)
  /\ \A a \in answers : a.op = "create" /\ a.ok => Owns(a.msg)

\* No chunk is sent before the entry is there.
ChunkInv ==
  /\ \A m \in Messages, i \in Index : phase[m] \in {"idle", "creating"} => chunk[m][i] = "waiting"
  /\ \A r \in wire : r.op = "create" => \A i \in Index : chunk[r.msg][i] = "waiting"

\* An entry holds chunks of its owner only, and all that its sender knows are stored.
StoredInv ==
  /\ \A k \in Keys, i \in Index : cache[k][i] # NoMessage => cache[k][i] = maker[k]
  /\ \A m \in Messages, i \in Index : chunk[m][i] = "stored" /\ Owns(m) => cache[Key[m]][i] = m
  /\ \A a \in answers : a.op = "set" /\ a.ok /\ Owns(a.msg) => cache[Key[a.msg]][a.idx] = a.msg

FiredInv ==
  /\ \A m \in Messages : phase[m] \in {"idle", "creating", "sending", "removing"} => fired[m] = 0
  /\ \A r \in wire : r.op = "process" => fired[r.msg] = 0
  /\ \A a \in answers : a.op = "process" /\ a.ok => fired[a.msg] = 1
  /\ \A m \in Messages : phase[m] = "done" => fired[m] = 1

IInv == TypeOK /\ CallsInv /\ OwnInv /\ ChunkInv /\ StoredInv /\ FiredInv /\ WholeMessages


-----------------------------------------------------------------------------
LEMMA RequestFields ==
  ASSUME NEW r \in Requests
  PROVE  /\ r.msg \in Messages /\ r.op \in {"create", "set", "remove", "process"}
         /\ r.op = "set" => r.idx \in Index
         /\ r.op # "set" => r.idx = 0
BY DEF Requests

LEMMA RequestTyped ==
  ASSUME NEW m \in Messages
  PROVE  /\ \A i \in Index : Request("set", m, i) \in Requests
         /\ \A op \in {"create", "remove", "process"} : Request(op, m, 0) \in Requests
BY DEF Requests, Request

LEMMA AnswerFields ==
  ASSUME TypeOK, NEW a \in answers
  PROVE  /\ a.msg \in Messages /\ a.op \in {"create", "set", "remove", "process"} /\ a.ok \in BOOLEAN
         /\ a.op = "set" => a.idx \in Index
BY RequestFields DEF TypeOK, Answer

LEMMA WireFields ==
  ASSUME TypeOK, NEW r \in wire
  PROVE  /\ r \in Requests /\ r.msg \in Messages /\ r.op \in {"create", "set", "remove", "process"}
         /\ r.op = "set" => r.idx \in Index
BY RequestFields DEF TypeOK

\* A request is what its fields say.
LEMMA SameRequest ==
  ASSUME TypeOK, NEW r \in wire, NEW q \in wire, r.op = q.op, r.msg = q.msg, r.op # "set"
  PROVE  r = q
BY DEF TypeOK, Requests

LEMMA AskedFinite == ASSUME NEW m PROVE IsFiniteSet(Asked(m)) /\ Cardinality(Asked(m)) \in Nat
<1>1. IsFiniteSet(Index)
  BY FS_Interval, NumbersAssumption DEF Index
<1> QED BY <1>1, FS_Subset, FS_CardinalityType DEF Asked

LEMMA CreateHandled ==
  ASSUME TypeOK, NEW r \in wire, Handled(r), Accepts(r), r.op = "create"
  PROVE  /\ wire' = wire \ {r}
         /\ \E ans : answers' = answers \cup {ans} /\ ans.op = r.op /\ ans.msg = r.msg /\ ans.idx = r.idx
         /\ maker[Key[r.msg]] = NoMessage /\ maker' = [maker EXCEPT ![Key[r.msg]] = r.msg]
         /\ cache' = [cache EXCEPT ![Key[r.msg]] = Empty]
         /\ UNCHANGED <<phase, chunk, ended, hurt, fired, torn>>
<1> DEFINE ans == [op |-> r.op, msg |-> r.msg, idx |-> r.idx, ok |-> TRUE]
<1>1. answers' = answers \cup {ans}
  BY DEF Handled, Answer
<1>2. ans.op = r.op /\ ans.msg = r.msg /\ ans.idx = r.idx
  OBVIOUS
<1> HIDE DEF ans
<1> QED BY <1>1, <1>2 DEF Handled, Accepts, Present, Does, Create

LEMMA SetHandled ==
  ASSUME TypeOK, NEW r \in wire, Handled(r), Accepts(r), r.op = "set"
  PROVE  /\ wire' = wire \ {r}
         /\ \E ans : answers' = answers \cup {ans} /\ ans.op = r.op /\ ans.msg = r.msg /\ ans.idx = r.idx
         /\ cache' = [cache EXCEPT ![Key[r.msg]][r.idx] = r.msg]
         /\ UNCHANGED <<phase, chunk, maker, ended, hurt, fired, torn>>
<1> DEFINE ans == [op |-> r.op, msg |-> r.msg, idx |-> r.idx, ok |-> TRUE]
<1>1. answers' = answers \cup {ans}
  BY DEF Handled, Answer
<1>2. ans.op = r.op /\ ans.msg = r.msg /\ ans.idx = r.idx
  OBVIOUS
<1> HIDE DEF ans
<1> QED BY <1>1, <1>2 DEF Handled, Does, Set

LEMMA RemoveHandled ==
  ASSUME TypeOK, NEW r \in wire, Handled(r), Accepts(r), r.op \in {"remove", "process"}
  PROVE  /\ wire' = wire \ {r}
         /\ \E ans : answers' = answers \cup {ans} /\ ans.op = r.op /\ ans.msg = r.msg /\ ans.idx = r.idx
         /\ maker' = [maker EXCEPT ![Key[r.msg]] = NoMessage]
         /\ cache' = [cache EXCEPT ![Key[r.msg]] = Empty]
         /\ ~\E q \in wire : q.msg = r.msg /\ q.op = "set"
         /\ r.op = "remove" => UNCHANGED <<fired, torn>>
         /\ UNCHANGED <<phase, chunk, ended, hurt>>
<1> DEFINE ans == [op |-> r.op, msg |-> r.msg, idx |-> r.idx, ok |-> TRUE]
<1>1. answers' = answers \cup {ans}
  BY DEF Handled, Answer
<1>2. ans.op = r.op /\ ans.msg = r.msg /\ ans.idx = r.idx
  OBVIOUS
<1> HIDE DEF ans
<1> QED BY <1>1, <1>2 DEF Handled, InOrder, Does, Remove, Process

LEMMA CallsStep == TypeOK /\ CallsInv /\ [Next]_vars => CallsInv'
<1> SUFFICES ASSUME TypeOK, CallsInv, [Next]_vars PROVE CallsInv'
  OBVIOUS
<1> USE WireFields, AnswerFields DEF CallsInv, AllStored
<1>1. ASSUME NEW m \in Messages, Begins(m) PROVE CallsInv'
  BY <1>1 DEF Begins, GoesTo, Calls, Request, receiverVars, TypeOK
<1>2. ASSUME NEW m \in Messages, SendsChunk(m) PROVE CallsInv'
  BY <1>2 DEF SendsChunk, Calls, Request, receiverVars, TypeOK
<1>3. ASSUME NEW m \in Messages, AsksToProcess(m) PROVE CallsInv'
  BY <1>3 DEF AsksToProcess, GoesTo, Calls, Request, AllStored, receiverVars, TypeOK
<1>4. ASSUME NEW m \in Messages, Cancelled(m) PROVE CallsInv'
  BY <1>4 DEF Cancelled, GoesTo, receiverVars, TypeOK
<1>5. ASSUME NEW r \in wire, Handled(r), ~Accepts(r) PROVE CallsInv'
  BY <1>5 DEF Handled, Answer, receiverVars, TypeOK
<1>6. ASSUME NEW r \in wire, Handled(r), Accepts(r), r.op = "create" PROVE CallsInv'
  <2>1. PICK ans : /\ answers' = answers \cup {ans} /\ ans.op = r.op /\ ans.msg = r.msg /\ ans.idx = r.idx
        /\ wire' = wire \ {r} /\ UNCHANGED <<phase, chunk>>
    BY <1>6, CreateHandled
  <2>2. ans.op = "create" /\ ans.msg = r.msg
    BY <1>6, <2>1
  <2>3. /\ \A q \in wire' : q \in wire /\ q.msg # r.msg
        /\ phase[r.msg] \in {"creating", "failed"}
        /\ \A b \in answers : b.msg # r.msg
    BY <1>6, <2>1
  <2>4. \A b \in answers' : b \in answers \/ b = ans
    BY <2>1
  <2>5. \A m \in Messages : phase[m] = "idle" =>
          (\A q \in wire' : q.msg # m) /\ (\A b \in answers' : b.msg # m)
    BY <2>2, <2>3, <2>4
  <2>6. \A b \in answers' : b.op = "create" =>
          /\ phase[b.msg] \in {"creating", "failed"}
          /\ \A q \in wire' : q.msg # b.msg
          /\ \A d \in answers' : d.msg = b.msg => d = b
    BY <2>2, <2>3, <2>4
  <2>7. \A m \in Messages : phase[m] = "creating" =>
          (\A q \in wire' : q.msg = m => q.op = "create") /\ (\A b \in answers' : b.msg = m => b.op = "create")
    BY <2>2, <2>3, <2>4
  <2>8. \A q \in wire' : q.op = "create" =>
          (\A d \in wire' : d.msg = q.msg => d = q) /\ \A b \in answers' : b.msg # q.msg
    BY <2>2, <2>3, <2>4
  <2>9. \A b \in answers' : b.op = "process" =>
          phase[b.msg] \in {"processing", "done", "failed"} /\ \A q \in wire' : q.msg = b.msg => q.op # "process"
    BY <2>2, <2>3, <2>4
  <2> QED BY <2>1, <2>3, <2>5, <2>6, <2>7, <2>8, <2>9
<1>7. ASSUME NEW r \in wire, Handled(r), Accepts(r), r.op = "set" PROVE CallsInv'
  BY <1>7 DEF Handled, Accepts, Does, Set, Answer, Present, receiverVars, TypeOK
<1>8. ASSUME NEW r \in wire, Handled(r), Accepts(r), r.op = "remove" PROVE CallsInv'
  BY <1>8 DEF Handled, InOrder, Does, Remove, Answer, receiverVars, TypeOK
<1>9. ASSUME NEW r \in wire, Handled(r), Accepts(r), r.op = "process" PROVE CallsInv'
  BY <1>9 DEF Handled, InOrder, Does, Process, Remove, Answer, receiverVars, TypeOK
<1>10. ASSUME NEW r \in wire, LosesRequest(r) PROVE CallsInv'
  BY <1>10 DEF LosesRequest, receiverVars, TypeOK
<1>11. ASSUME NEW a \in answers, Answered(a), ~Awaited(a) PROVE CallsInv'
  BY <1>11 DEF Answered, receiverVars, TypeOK
<1>12. ASSUME NEW a \in answers, Answered(a), Awaited(a), a.ok PROVE CallsInv'
  <2>1. CASE a.op = "set"
    <3>1. /\ chunk' = [chunk EXCEPT ![a.msg][a.idx] = "stored"] /\ UNCHANGED <<phase, wire>> /\ answers' = answers \ {a}
          /\ phase[a.msg] = "sending" /\ UNCHANGED <<cache, maker, fired>>
      BY <1>12, <2>1 DEF Answered, Awaited, Succeeds, receiverVars
    <3> QED BY <1>12, <2>1, <3>1 DEF TypeOK
  <2>2. CASE a.op = "create"
    <3>1. /\ phase' = [phase EXCEPT ![a.msg] = "sending"] /\ UNCHANGED <<chunk, wire>> /\ answers' = answers \ {a}
          /\ phase[a.msg] = "creating" /\ UNCHANGED <<cache, maker, fired>>
      BY <1>12, <2>2 DEF Answered, Awaited, Succeeds, GoesTo, receiverVars
    <3> QED BY <1>12, <2>2, <3>1 DEF TypeOK
  <2>3. CASE a.op \notin {"set", "create"}
    <3>1. PICK p \in {"done", "failed"} :
            /\ phase' = [phase EXCEPT ![a.msg] = p] /\ UNCHANGED <<chunk, wire>> /\ answers' = answers \ {a}
            /\ phase[a.msg] \in {"removing", "processing"} /\ UNCHANGED <<cache, maker, fired>>
            /\ p = "done" => a.op = "process"
      BY <1>12, <2>3 DEF Answered, Awaited, Succeeds, GoesTo, receiverVars
    <3> QED BY <1>12, <2>3, <3>1 DEF TypeOK
  <2> QED BY <2>1, <2>2, <2>3
<1>13. ASSUME NEW a \in answers, Answered(a), Awaited(a), ~a.ok PROVE CallsInv'
  BY <1>13 DEF Answered, Awaited, Fails, GoesTo, Calls, Request, receiverVars, TypeOK
<1>14. ASSUME NEW a \in answers, LosesAnswer(a) PROVE CallsInv'
  BY <1>14 DEF LosesAnswer, receiverVars, TypeOK
<1>15. ASSUME NEW r \in Requests, GivesUp(r) PROVE CallsInv'
  <2>1. r.msg \in Messages
    BY <1>15, RequestFields
  <2>2. CASE r.op = "set"
    <3>1. /\ phase' = [phase EXCEPT ![r.msg] = "removing"] /\ wire' = wire \cup {Request("remove", r.msg, 0)}
          /\ phase[r.msg] = "sending" /\ UNCHANGED <<chunk, answers, cache, maker, fired>>
      BY <1>15, <2>2 DEF GivesUp, Awaited, Fails, GoesTo, Calls, receiverVars
    <3> QED BY <2>1, <3>1 DEF TypeOK, Request
  <2>3. CASE r.op # "set"
    <3>1. /\ phase' = [phase EXCEPT ![r.msg] = "failed"] /\ phase[r.msg] \in {"creating", "removing", "processing"}
          /\ UNCHANGED <<wire, chunk, answers, cache, maker, fired>>
      BY <1>15, <2>3 DEF GivesUp, Awaited, Fails, GoesTo, receiverVars
    <3> QED BY <2>1, <3>1 DEF TypeOK
  <2> QED BY <2>2, <2>3
<1>16. ASSUME NEW k \in Sessions, SessionEnds(k) PROVE CallsInv'
  BY <1>16 DEF SessionEnds, receiverVars, TypeOK
<1>17. CASE UNCHANGED vars
  BY <1>17 DEF vars
<1> QED BY <1>1, <1>2, <1>3, <1>4, <1>5, <1>6, <1>7, <1>8, <1>9, <1>10, <1>11, <1>12, <1>13, <1>14, <1>15, <1>16, <1>17
        DEF Next, Sends

LEMMA OwnStep == TypeOK /\ CallsInv /\ OwnInv /\ [Next]_vars => OwnInv'
<1> SUFFICES ASSUME TypeOK, CallsInv, OwnInv, [Next]_vars PROVE OwnInv'
  OBVIOUS
<1> USE WireFields, AnswerFields, KeysAssumption, MessagesAssumption DEF CallsInv, OwnInv, Owns
<1>1. ASSUME NEW m \in Messages, Begins(m) PROVE OwnInv'
  BY <1>1 DEF Begins, GoesTo, Calls, Request, receiverVars, TypeOK
<1>2. ASSUME NEW m \in Messages, SendsChunk(m) PROVE OwnInv'
  BY <1>2 DEF SendsChunk, Calls, Request, receiverVars, TypeOK
<1>3. ASSUME NEW m \in Messages, AsksToProcess(m) PROVE OwnInv'
  BY <1>3 DEF AsksToProcess, GoesTo, Calls, Request, AllStored, receiverVars, TypeOK
<1>4. ASSUME NEW m \in Messages, Cancelled(m) PROVE OwnInv'
  BY <1>4 DEF Cancelled, GoesTo, receiverVars, TypeOK
<1>5. ASSUME NEW r \in wire, Handled(r), ~Accepts(r) PROVE OwnInv'
  BY <1>5 DEF Handled, Answer, receiverVars, TypeOK
<1>6. ASSUME NEW r \in wire, Handled(r), Accepts(r), r.op = "create" PROVE OwnInv'
  BY <1>6 DEF Handled, Accepts, Does, Create, Answer, Present, receiverVars, TypeOK
<1>7. ASSUME NEW r \in wire, Handled(r), Accepts(r), r.op = "set" PROVE OwnInv'
  BY <1>7 DEF Handled, Accepts, Does, Set, Answer, Present, receiverVars, TypeOK
<1>8. ASSUME NEW r \in wire, Handled(r), Accepts(r), r.op = "remove" PROVE OwnInv'
  BY <1>8 DEF Handled, InOrder, Does, Remove, Answer, receiverVars, TypeOK
<1>9. ASSUME NEW r \in wire, Handled(r), Accepts(r), r.op = "process" PROVE OwnInv'
  <2>1. PICK ans : /\ answers' = answers \cup {ans} /\ ans.op = r.op /\ ans.msg = r.msg /\ ans.idx = r.idx
        /\ wire' = wire \ {r} /\ UNCHANGED <<phase, chunk>>
        /\ maker' = [maker EXCEPT ![Key[r.msg]] = NoMessage]
        /\ ~\E q \in wire : q.msg = r.msg /\ q.op = "set"
    BY <1>9, RemoveHandled
  <2>2. ans.op = "process" /\ ans.msg = r.msg
    BY <1>9, <2>1
  <2>3. r.msg \in Messages /\ Owns(r.msg) /\ phase[r.msg] # "sending" /\ \A q \in wire' : q.msg # r.msg
    BY <1>9, <2>1
  <2>4. \A m \in Messages \ {r.msg} : Owns(m) => Owns(m)'
    BY <2>1, <2>3 DEF TypeOK
  <2>5. \A b \in answers' : b.op = "create" => b \in answers /\ b.msg # r.msg
    BY <1>9, <2>1, <2>2
  <2> HIDE DEF Owns
  <2> QED BY <2>1, <2>3, <2>4, <2>5
<1>10. ASSUME NEW r \in wire, LosesRequest(r) PROVE OwnInv'
  BY <1>10 DEF LosesRequest, receiverVars, TypeOK
<1>11. ASSUME NEW a \in answers, Answered(a), ~Awaited(a) PROVE OwnInv'
  BY <1>11 DEF Answered, receiverVars, TypeOK
<1>12. ASSUME NEW a \in answers, Answered(a), Awaited(a), a.ok PROVE OwnInv'
  BY <1>12 DEF Answered, Awaited, Succeeds, GoesTo, receiverVars, TypeOK
<1>13. ASSUME NEW a \in answers, Answered(a), Awaited(a), ~a.ok PROVE OwnInv'
  BY <1>13 DEF Answered, Awaited, Fails, GoesTo, Calls, Request, receiverVars, TypeOK
<1>14. ASSUME NEW a \in answers, LosesAnswer(a) PROVE OwnInv'
  BY <1>14 DEF LosesAnswer, receiverVars, TypeOK
<1>15. ASSUME NEW r \in Requests, GivesUp(r) PROVE OwnInv'
  <2>1. r.msg \in Messages
    BY <1>15, RequestFields
  <2>2. CASE r.op = "set"
    <3>1. /\ phase' = [phase EXCEPT ![r.msg] = "removing"] /\ wire' = wire \cup {Request("remove", r.msg, 0)}
          /\ phase[r.msg] = "sending" /\ UNCHANGED <<chunk, answers, cache, maker, fired>>
      BY <1>15, <2>2 DEF GivesUp, Awaited, Fails, GoesTo, Calls, receiverVars
    <3> QED BY <2>1, <3>1 DEF TypeOK, Request
  <2>3. CASE r.op # "set"
    <3>1. /\ phase' = [phase EXCEPT ![r.msg] = "failed"] /\ phase[r.msg] \in {"creating", "removing", "processing"}
          /\ UNCHANGED <<wire, chunk, answers, cache, maker, fired>>
      BY <1>15, <2>3 DEF GivesUp, Awaited, Fails, GoesTo, receiverVars
    <3> QED BY <2>1, <3>1 DEF TypeOK
  <2> QED BY <2>2, <2>3
<1>16. ASSUME NEW k \in Sessions, SessionEnds(k) PROVE OwnInv'
  BY <1>16 DEF SessionEnds, receiverVars, TypeOK
<1>17. CASE UNCHANGED vars
  BY <1>17 DEF vars
<1> QED BY <1>1, <1>2, <1>3, <1>4, <1>5, <1>6, <1>7, <1>8, <1>9, <1>10, <1>11, <1>12, <1>13, <1>14, <1>15, <1>16, <1>17
        DEF Next, Sends

LEMMA ChunkStep == TypeOK /\ CallsInv /\ ChunkInv /\ [Next]_vars => ChunkInv'
<1> SUFFICES ASSUME TypeOK, CallsInv, ChunkInv, [Next]_vars PROVE ChunkInv'
  OBVIOUS
<1> USE WireFields, AnswerFields DEF CallsInv, ChunkInv
<1>1. ASSUME NEW m \in Messages, Begins(m) PROVE ChunkInv'
  BY <1>1 DEF Begins, GoesTo, Calls, Request, receiverVars, TypeOK
<1>2. ASSUME NEW m \in Messages, SendsChunk(m) PROVE ChunkInv'
  BY <1>2 DEF SendsChunk, Calls, Request, receiverVars, TypeOK
<1>3. ASSUME NEW m \in Messages, AsksToProcess(m) PROVE ChunkInv'
  BY <1>3 DEF AsksToProcess, GoesTo, Calls, Request, AllStored, receiverVars, TypeOK
<1>4. ASSUME NEW m \in Messages, Cancelled(m) PROVE ChunkInv'
  BY <1>4 DEF Cancelled, GoesTo, receiverVars, TypeOK
<1>5. ASSUME NEW r \in wire, Handled(r), ~Accepts(r) PROVE ChunkInv'
  BY <1>5 DEF Handled, Answer, receiverVars, TypeOK
<1>6. ASSUME NEW r \in wire, Handled(r), Accepts(r), r.op = "create" PROVE ChunkInv'
  BY <1>6 DEF Handled, Accepts, Does, Create, Answer, Present, receiverVars, TypeOK
<1>7. ASSUME NEW r \in wire, Handled(r), Accepts(r), r.op = "set" PROVE ChunkInv'
  BY <1>7 DEF Handled, Accepts, Does, Set, Answer, Present, receiverVars, TypeOK
<1>8. ASSUME NEW r \in wire, Handled(r), Accepts(r), r.op = "remove" PROVE ChunkInv'
  BY <1>8 DEF Handled, InOrder, Does, Remove, Answer, receiverVars, TypeOK
<1>9. ASSUME NEW r \in wire, Handled(r), Accepts(r), r.op = "process" PROVE ChunkInv'
  BY <1>9 DEF Handled, InOrder, Does, Process, Remove, Answer, receiverVars, TypeOK
<1>10. ASSUME NEW r \in wire, LosesRequest(r) PROVE ChunkInv'
  BY <1>10 DEF LosesRequest, receiverVars, TypeOK
<1>11. ASSUME NEW a \in answers, Answered(a), ~Awaited(a) PROVE ChunkInv'
  BY <1>11 DEF Answered, receiverVars, TypeOK
<1>12. ASSUME NEW a \in answers, Answered(a), Awaited(a), a.ok PROVE ChunkInv'
  BY <1>12 DEF Answered, Awaited, Succeeds, GoesTo, receiverVars, TypeOK
<1>13. ASSUME NEW a \in answers, Answered(a), Awaited(a), ~a.ok PROVE ChunkInv'
  BY <1>13 DEF Answered, Awaited, Fails, GoesTo, Calls, Request, receiverVars, TypeOK
<1>14. ASSUME NEW a \in answers, LosesAnswer(a) PROVE ChunkInv'
  BY <1>14 DEF LosesAnswer, receiverVars, TypeOK
<1>15. ASSUME NEW r \in Requests, GivesUp(r) PROVE ChunkInv'
  BY <1>15 DEF GivesUp, Awaited, Fails, GoesTo, Calls, Request, receiverVars, TypeOK
<1>16. ASSUME NEW k \in Sessions, SessionEnds(k) PROVE ChunkInv'
  BY <1>16 DEF SessionEnds, receiverVars, TypeOK
<1>17. CASE UNCHANGED vars
  BY <1>17 DEF vars
<1> QED BY <1>1, <1>2, <1>3, <1>4, <1>5, <1>6, <1>7, <1>8, <1>9, <1>10, <1>11, <1>12, <1>13, <1>14, <1>15, <1>16, <1>17
        DEF Next, Sends

LEMMA StoredStep == TypeOK /\ CallsInv /\ OwnInv /\ ChunkInv /\ StoredInv /\ [Next]_vars => StoredInv'
<1> SUFFICES ASSUME TypeOK, CallsInv, OwnInv, ChunkInv, StoredInv, [Next]_vars PROVE StoredInv'
  OBVIOUS
<1> USE WireFields, AnswerFields, KeysAssumption, MessagesAssumption DEF CallsInv, OwnInv, ChunkInv, Owns, StoredInv
<1>1. ASSUME NEW m \in Messages, Begins(m) PROVE StoredInv'
  BY <1>1 DEF Begins, GoesTo, Calls, Request, receiverVars, TypeOK, Empty
<1>2. ASSUME NEW m \in Messages, SendsChunk(m) PROVE StoredInv'
  BY <1>2 DEF SendsChunk, Calls, Request, receiverVars, TypeOK, Empty
<1>3. ASSUME NEW m \in Messages, AsksToProcess(m) PROVE StoredInv'
  BY <1>3 DEF AsksToProcess, GoesTo, Calls, Request, AllStored, receiverVars, TypeOK, Empty
<1>4. ASSUME NEW m \in Messages, Cancelled(m) PROVE StoredInv'
  BY <1>4 DEF Cancelled, GoesTo, receiverVars, TypeOK, Empty
<1>5. ASSUME NEW r \in wire, Handled(r), ~Accepts(r) PROVE StoredInv'
  BY <1>5 DEF Handled, Answer, receiverVars, TypeOK, Empty
<1>6. ASSUME NEW r \in wire, Handled(r), Accepts(r), r.op = "create" PROVE StoredInv'
  <2>1. PICK ans : /\ answers' = answers \cup {ans} /\ ans.op = r.op /\ ans.msg = r.msg /\ ans.idx = r.idx
        /\ wire' = wire \ {r} /\ UNCHANGED <<phase, chunk>>
        /\ maker' = [maker EXCEPT ![Key[r.msg]] = r.msg] /\ cache' = [cache EXCEPT ![Key[r.msg]] = Empty]
    BY <1>6, CreateHandled
  <2>2. ans.op = "create" /\ ans.msg = r.msg
    BY <1>6, <2>1
  <2>3. r.msg \in Messages /\ Key[r.msg] \in Keys
    OBVIOUS
  <2>4. \A k \in Keys \ {Key[r.msg]} : cache'[k] = cache[k] /\ maker'[k] = maker[k]
    BY <2>1, <2>3 DEF TypeOK
  <2>5. maker'[Key[r.msg]] = r.msg /\ \A i \in Index : cache'[Key[r.msg]][i] = NoMessage
    BY <2>1, <2>3 DEF TypeOK, Empty
  <2>6. \A m \in Messages : Owns(m)' => m = r.msg \/ (Owns(m) /\ Key[m] # Key[r.msg])
    BY <2>4, <2>5
  <2>7. \A b \in answers' : b.op = "set" => b \in answers /\ b.msg # r.msg
    BY <1>6, <2>1, <2>2
  <2>8. \A i \in Index : chunk[r.msg][i] = "waiting"
    BY <1>6
  <2> HIDE DEF Owns
  <2>9. \A k \in Keys, i \in Index : cache'[k][i] # NoMessage => cache'[k][i] = maker'[k]
    BY <2>4, <2>5
  <2>10. \A m \in Messages, i \in Index : chunk'[m][i] = "stored" /\ Owns(m)' => cache'[Key[m]][i] = m
    BY <2>1, <2>3, <2>4, <2>6, <2>8
  <2>11. \A a \in answers' : a.op = "set" /\ a.ok /\ Owns(a.msg)' => cache'[Key[a.msg]][a.idx] = a.msg
    BY <2>3, <2>4, <2>6, <2>7
  <2> QED BY <2>9, <2>10, <2>11
<1>7. ASSUME NEW r \in wire, Handled(r), Accepts(r), r.op = "set" PROVE StoredInv'
  <2>0. /\ wire' = wire \ {r} /\ UNCHANGED <<phase, chunk, maker>>
        /\ cache' = [cache EXCEPT ![Key[r.msg]][r.idx] = r.msg]
    BY <1>7, SetHandled
  <2>1. PICK ans : answers' = answers \cup {ans} /\ ans.op = r.op /\ ans.msg = r.msg /\ ans.idx = r.idx
    BY <1>7, SetHandled
  <2>2. ans.msg = r.msg /\ ans.idx = r.idx
    BY <2>1
  <2>3. r.msg \in Messages /\ Key[r.msg] \in Keys /\ r.idx \in Index /\ Owns(r.msg)
    BY <1>7
  <2>4. \A k \in Keys, i \in Index :
          cache'[k][i] = IF k = Key[r.msg] /\ i = r.idx THEN r.msg ELSE cache[k][i]
    BY <2>0, <2>3 DEF TypeOK
  <2>5. \A m \in Messages : Owns(m)' = Owns(m)
    BY <2>0
  <2>6. \A m \in Messages : Owns(m) /\ Key[m] = Key[r.msg] => m = r.msg
    BY <2>3
  <2>7. \A b \in answers' : b \in answers \/ (b.msg = r.msg /\ b.idx = r.idx)
    BY <2>1, <2>2
  <2>8. maker[Key[r.msg]] = r.msg
    BY <2>3
  <2> HIDE DEF Owns
  <2>9. \A k \in Keys, i \in Index : cache'[k][i] # NoMessage => cache'[k][i] = maker'[k]
    BY <2>0, <2>3, <2>4, <2>8
  <2>10. \A m \in Messages, i \in Index : chunk'[m][i] = "stored" /\ Owns(m)' => cache'[Key[m]][i] = m
    BY <2>0, <2>3, <2>4, <2>5, <2>6
  <2>11. \A a \in answers' : a.op = "set" /\ a.ok /\ Owns(a.msg)' => cache'[Key[a.msg]][a.idx] = a.msg
    BY <2>2, <2>3, <2>4, <2>5, <2>6, <2>7
  <2> QED BY <2>9, <2>10, <2>11
<1>8. ASSUME NEW r \in wire, Handled(r), Accepts(r), r.op = "remove" PROVE StoredInv'
  <2>1. PICK ans : /\ answers' = answers \cup {ans} /\ ans.op = r.op /\ ans.msg = r.msg /\ ans.idx = r.idx
        /\ wire' = wire \ {r} /\ UNCHANGED <<phase, chunk>>
        /\ maker' = [maker EXCEPT ![Key[r.msg]] = NoMessage] /\ cache' = [cache EXCEPT ![Key[r.msg]] = Empty]
    BY <1>8, RemoveHandled
  <2>2. ans.op = r.op /\ ans.msg = r.msg
    BY <2>1
  <2>3. r.msg \in Messages /\ Key[r.msg] \in Keys
    OBVIOUS
  <2>4. \A k \in Keys \ {Key[r.msg]} : cache'[k] = cache[k] /\ maker'[k] = maker[k]
    BY <2>1, <2>3 DEF TypeOK
  <2>5. maker'[Key[r.msg]] = NoMessage /\ \A i \in Index : cache'[Key[r.msg]][i] = NoMessage
    BY <2>1, <2>3 DEF TypeOK, Empty
  <2>6. \A m \in Messages : Owns(m)' => Owns(m) /\ Key[m] # Key[r.msg]
    BY <2>4, <2>5
  <2>7. \A b \in answers' : b.op = "set" => b \in answers
    BY <1>8, <2>1, <2>2
  <2> HIDE DEF Owns
  <2>8. \A k \in Keys, i \in Index : cache'[k][i] # NoMessage => cache'[k][i] = maker'[k]
    BY <2>4, <2>5
  <2>9. \A m \in Messages, i \in Index : chunk'[m][i] = "stored" /\ Owns(m)' => cache'[Key[m]][i] = m
    BY <2>1, <2>3, <2>4, <2>6
  <2>10. \A a \in answers' : a.op = "set" /\ a.ok /\ Owns(a.msg)' => cache'[Key[a.msg]][a.idx] = a.msg
    BY <2>3, <2>4, <2>6, <2>7
  <2> QED BY <2>8, <2>9, <2>10
<1>9. ASSUME NEW r \in wire, Handled(r), Accepts(r), r.op = "process" PROVE StoredInv'
  <2>1. PICK ans : /\ answers' = answers \cup {ans} /\ ans.op = r.op /\ ans.msg = r.msg /\ ans.idx = r.idx
        /\ wire' = wire \ {r} /\ UNCHANGED <<phase, chunk>>
        /\ maker' = [maker EXCEPT ![Key[r.msg]] = NoMessage] /\ cache' = [cache EXCEPT ![Key[r.msg]] = Empty]
    BY <1>9, RemoveHandled
  <2>2. ans.op = r.op /\ ans.msg = r.msg
    BY <2>1
  <2>3. r.msg \in Messages /\ Key[r.msg] \in Keys
    OBVIOUS
  <2>4. \A k \in Keys \ {Key[r.msg]} : cache'[k] = cache[k] /\ maker'[k] = maker[k]
    BY <2>1, <2>3 DEF TypeOK
  <2>5. maker'[Key[r.msg]] = NoMessage /\ \A i \in Index : cache'[Key[r.msg]][i] = NoMessage
    BY <2>1, <2>3 DEF TypeOK, Empty
  <2>6. \A m \in Messages : Owns(m)' => Owns(m) /\ Key[m] # Key[r.msg]
    BY <2>4, <2>5
  <2>7. \A b \in answers' : b.op = "set" => b \in answers
    BY <1>9, <2>1, <2>2
  <2> HIDE DEF Owns
  <2>8. \A k \in Keys, i \in Index : cache'[k][i] # NoMessage => cache'[k][i] = maker'[k]
    BY <2>4, <2>5
  <2>9. \A m \in Messages, i \in Index : chunk'[m][i] = "stored" /\ Owns(m)' => cache'[Key[m]][i] = m
    BY <2>1, <2>3, <2>4, <2>6
  <2>10. \A a \in answers' : a.op = "set" /\ a.ok /\ Owns(a.msg)' => cache'[Key[a.msg]][a.idx] = a.msg
    BY <2>3, <2>4, <2>6, <2>7
  <2> QED BY <2>8, <2>9, <2>10
<1>10. ASSUME NEW r \in wire, LosesRequest(r) PROVE StoredInv'
  BY <1>10 DEF LosesRequest, receiverVars, TypeOK, Empty
<1>11. ASSUME NEW a \in answers, Answered(a), ~Awaited(a) PROVE StoredInv'
  BY <1>11 DEF Answered, receiverVars, TypeOK, Empty
<1>12. ASSUME NEW a \in answers, Answered(a), Awaited(a), a.ok PROVE StoredInv'
  <2>1. CASE a.op = "set"
    <3>1. /\ chunk' = [chunk EXCEPT ![a.msg][a.idx] = "stored"] /\ UNCHANGED <<phase, wire>> /\ answers' = answers \ {a}
          /\ phase[a.msg] = "sending" /\ UNCHANGED <<cache, maker, fired>>
      BY <1>12, <2>1 DEF Answered, Awaited, Succeeds, receiverVars
    <3>2. a.msg \in Messages /\ a.idx \in Index
      BY <2>1
    <3>3. \A m \in Messages, i \in Index :
            chunk'[m][i] = "stored" => chunk[m][i] = "stored" \/ (m = a.msg /\ i = a.idx)
      BY <3>1, <3>2 DEF TypeOK
    <3> QED BY <1>12, <2>1, <3>1, <3>2, <3>3
  <2>2. CASE a.op = "create"
    <3>1. /\ phase' = [phase EXCEPT ![a.msg] = "sending"] /\ UNCHANGED <<chunk, wire>> /\ answers' = answers \ {a}
          /\ phase[a.msg] = "creating" /\ UNCHANGED <<cache, maker, fired>>
      BY <1>12, <2>2 DEF Answered, Awaited, Succeeds, GoesTo, receiverVars
    <3> QED BY <1>12, <2>2, <3>1 DEF TypeOK
  <2>3. CASE a.op \notin {"set", "create"}
    <3>1. PICK p \in {"done", "failed"} :
            /\ phase' = [phase EXCEPT ![a.msg] = p] /\ UNCHANGED <<chunk, wire>> /\ answers' = answers \ {a}
            /\ phase[a.msg] \in {"removing", "processing"} /\ UNCHANGED <<cache, maker, fired>>
            /\ p = "done" => a.op = "process"
      BY <1>12, <2>3 DEF Answered, Awaited, Succeeds, GoesTo, receiverVars
    <3> QED BY <1>12, <2>3, <3>1 DEF TypeOK
  <2> QED BY <2>1, <2>2, <2>3
<1>13. ASSUME NEW a \in answers, Answered(a), Awaited(a), ~a.ok PROVE StoredInv'
  BY <1>13 DEF Answered, Awaited, Fails, GoesTo, Calls, Request, receiverVars, TypeOK, Empty
<1>14. ASSUME NEW a \in answers, LosesAnswer(a) PROVE StoredInv'
  BY <1>14 DEF LosesAnswer, receiverVars, TypeOK, Empty
<1>15. ASSUME NEW r \in Requests, GivesUp(r) PROVE StoredInv'
  BY <1>15 DEF GivesUp, Awaited, Fails, GoesTo, Calls, Request, receiverVars, TypeOK, Empty
<1>16. ASSUME NEW k \in Sessions, SessionEnds(k) PROVE StoredInv'
  BY <1>16 DEF SessionEnds, receiverVars, TypeOK, Empty
<1>17. CASE UNCHANGED vars
  BY <1>17 DEF vars
<1> QED BY <1>1, <1>2, <1>3, <1>4, <1>5, <1>6, <1>7, <1>8, <1>9, <1>10, <1>11, <1>12, <1>13, <1>14, <1>15, <1>16, <1>17
        DEF Next, Sends

LEMMA FiredStep == TypeOK /\ CallsInv /\ OwnInv /\ StoredInv /\ FiredInv /\ [Next]_vars => FiredInv'
<1> SUFFICES ASSUME TypeOK, CallsInv, OwnInv, StoredInv, FiredInv, [Next]_vars PROVE FiredInv'
  OBVIOUS
<1> USE WireFields, AnswerFields, KeysAssumption, MessagesAssumption DEF CallsInv, FiredInv
<1>1. ASSUME NEW m \in Messages, Begins(m) PROVE FiredInv'
  BY <1>1 DEF Begins, GoesTo, Calls, Request, receiverVars, TypeOK
<1>2. ASSUME NEW m \in Messages, SendsChunk(m) PROVE FiredInv'
  BY <1>2 DEF SendsChunk, Calls, Request, receiverVars, TypeOK
<1>3. ASSUME NEW m \in Messages, AsksToProcess(m) PROVE FiredInv'
  BY <1>3 DEF AsksToProcess, GoesTo, Calls, Request, AllStored, receiverVars, TypeOK
<1>4. ASSUME NEW m \in Messages, Cancelled(m) PROVE FiredInv'
  BY <1>4 DEF Cancelled, GoesTo, receiverVars, TypeOK
<1>5. ASSUME NEW r \in wire, Handled(r), ~Accepts(r) PROVE FiredInv'
  BY <1>5 DEF Handled, Answer, receiverVars, TypeOK
<1>6. ASSUME NEW r \in wire, Handled(r), Accepts(r), r.op = "create" PROVE FiredInv'
  BY <1>6 DEF Handled, Accepts, Does, Create, Answer, Present, receiverVars, TypeOK
<1>7. ASSUME NEW r \in wire, Handled(r), Accepts(r), r.op = "set" PROVE FiredInv'
  BY <1>7 DEF Handled, Accepts, Does, Set, Answer, Present, receiverVars, TypeOK
<1>8. ASSUME NEW r \in wire, Handled(r), Accepts(r), r.op = "remove" PROVE FiredInv'
  BY <1>8 DEF Handled, InOrder, Does, Remove, Answer, receiverVars, TypeOK
<1>9. ASSUME NEW r \in wire, Handled(r), Accepts(r), r.op = "process" PROVE FiredInv'
  <2> DEFINE parts == cache[Key[r.msg]]
  <2>1. PICK ans : /\ answers' = answers \cup {ans} /\ ans.op = r.op /\ ans.msg = r.msg /\ ans.idx = r.idx
        /\ wire' = wire \ {r} /\ UNCHANGED <<phase, chunk>>
    BY <1>9, RemoveHandled
  <2>2. fired' = [fired EXCEPT ![parts[1]] = @ + 1]
    BY <1>9 DEF Handled, Does, Process
  <2>3. parts[1] = r.msg
    <3>1. 1 \in Index /\ chunk[r.msg][1] = "stored" /\ Owns(r.msg)
      BY <1>9, NumbersAssumption DEF AllStored, OwnInv, Index
    <3> QED BY <3>1 DEF StoredInv
  <2>4. fired[r.msg] = 0 /\ phase[r.msg] \in {"processing", "failed"}
    BY <1>9
  <2>5. \A m \in Messages : fired'[m] = IF m = r.msg THEN 1 ELSE fired[m]
    BY <2>2, <2>3, <2>4 DEF TypeOK
  <2>6. \A q \in wire' : q.op = "process" => q.msg # r.msg
    BY <1>9, <2>1
  <2>7. \A b \in answers' : b \in answers \/ b.msg = r.msg
    BY <2>1
  <2>8. \A m \in Messages : phase'[m] \in {"idle", "creating", "sending", "removing"} => fired'[m] = 0
    BY <2>1, <2>4, <2>5
  <2>9. \A q \in wire' : q.op = "process" => fired'[q.msg] = 0
    BY <2>1, <2>5, <2>6
  <2>10. \A b \in answers' : b.op = "process" /\ b.ok => fired'[b.msg] = 1
    <3> SUFFICES ASSUME NEW b \in answers', b.op = "process", b.ok PROVE fired'[b.msg] = 1
      OBVIOUS
    <3>1. CASE b.msg = r.msg
      BY <3>1, <2>5
    <3>2. CASE b.msg # r.msg
      <4>1. b \in answers /\ b.msg \in Messages
        BY <3>2, <2>7
      <4> QED BY <4>1, <3>2, <2>5
    <3> QED BY <3>1, <3>2
  <2>11. \A m \in Messages : phase'[m] = "done" => fired'[m] = 1
    BY <2>1, <2>5
  <2> QED BY <2>8, <2>9, <2>10, <2>11
<1>10. ASSUME NEW r \in wire, LosesRequest(r) PROVE FiredInv'
  BY <1>10 DEF LosesRequest, receiverVars, TypeOK
<1>11. ASSUME NEW a \in answers, Answered(a), ~Awaited(a) PROVE FiredInv'
  BY <1>11 DEF Answered, receiverVars, TypeOK
<1>12. ASSUME NEW a \in answers, Answered(a), Awaited(a), a.ok PROVE FiredInv'
  BY <1>12 DEF Answered, Awaited, Succeeds, GoesTo, receiverVars, TypeOK
<1>13. ASSUME NEW a \in answers, Answered(a), Awaited(a), ~a.ok PROVE FiredInv'
  BY <1>13 DEF Answered, Awaited, Fails, GoesTo, Calls, Request, receiverVars, TypeOK
<1>14. ASSUME NEW a \in answers, LosesAnswer(a) PROVE FiredInv'
  BY <1>14 DEF LosesAnswer, receiverVars, TypeOK
<1>15. ASSUME NEW r \in Requests, GivesUp(r) PROVE FiredInv'
  BY <1>15 DEF GivesUp, Awaited, Fails, GoesTo, Calls, Request, receiverVars, TypeOK
<1>16. ASSUME NEW k \in Sessions, SessionEnds(k) PROVE FiredInv'
  BY <1>16 DEF SessionEnds, receiverVars, TypeOK
<1>17. CASE UNCHANGED vars
  BY <1>17 DEF vars
<1> QED BY <1>1, <1>2, <1>3, <1>4, <1>5, <1>6, <1>7, <1>8, <1>9, <1>10, <1>11, <1>12, <1>13, <1>14, <1>15, <1>16, <1>17
        DEF Next, Sends

\* Whatever a step does to the chunks, what is asked for stays within the limit.
LEMMA AskedStep ==
  ASSUME TypeOK, NEW m \in Messages, chunk' \in [Messages -> [Index -> {"waiting", "asked", "stored"}]],
         Asked(m)' \subseteq Asked(m) \/ \E i \in Index : Asked(m)' = Asked(m) \cup {i} /\ Cardinality(Asked(m)) < Limit
  PROVE  Cardinality(Asked(m)') <= Limit
<1>1. IsFiniteSet(Asked(m)) /\ Cardinality(Asked(m)) \in Nat /\ Cardinality(Asked(m)) <= Limit
  BY AskedFinite DEF TypeOK
<1>2. CASE Asked(m)' \subseteq Asked(m)
  <2>1. Cardinality(Asked(m)') \in Nat /\ Cardinality(Asked(m)') <= Cardinality(Asked(m))
    BY <1>1, <1>2, FS_Subset, FS_CardinalityType
  <2> QED BY <1>1, <2>1, NumbersAssumption
<1>3. ASSUME NEW i \in Index, Asked(m)' = Asked(m) \cup {i}, Cardinality(Asked(m)) < Limit
      PROVE  Cardinality(Asked(m)') <= Limit
  <2>1. Cardinality(Asked(m) \cup {i}) = IF i \in Asked(m) THEN Cardinality(Asked(m)) ELSE Cardinality(Asked(m)) + 1
    BY <1>1, FS_AddElement
  <2> QED BY <1>1, <1>3, <2>1, NumbersAssumption
<1> QED BY <1>2, <1>3

\* The parts of the type invariant.
SenderType == /\ phase \in [Messages -> {"idle", "creating", "sending", "removing", "processing", "done", "failed"}]
              /\ chunk \in [Messages -> [Index -> {"waiting", "asked", "stored"}]]
              /\ hurt \subseteq Messages
NetType == wire \subseteq Requests /\ answers \subseteq {Answer(r, ok) : r \in Requests, ok \in BOOLEAN}
CacheType == /\ cache \in [Keys -> [Index -> Messages \cup {NoMessage}]]
             /\ maker \in [Keys -> Messages \cup {NoMessage}]
             /\ ended \subseteq Sessions
FiredType == fired \in [Messages -> 0..1] /\ torn \in BOOLEAN

LEMMA LimitStep == TypeOK /\ SenderType' /\ [Next]_vars => \A m \in Messages : Cardinality(Asked(m)') <= Limit
<1> SUFFICES ASSUME TypeOK, SenderType', [Next]_vars, NEW m \in Messages PROVE Cardinality(Asked(m)') <= Limit
  OBVIOUS
<1>1. ASSUME NEW n \in Messages, SendsChunk(n) PROVE Cardinality(Asked(m)') <= Limit
  <2>1. PICK i \in Index : chunk' = [chunk EXCEPT ![n][i] = "asked"]
    BY <1>1 DEF SendsChunk
  <2>2. CASE m = n
    <3>1. Asked(m)' = Asked(m) \cup {i} /\ Cardinality(Asked(m)) < Limit
      BY <1>1, <2>1, <2>2 DEF SendsChunk, Slots, Asked, TypeOK
    <3> QED BY <3>1, AskedStep DEF SenderType
  <2>3. CASE m # n
    <3>1. Asked(m)' \subseteq Asked(m)
      BY <2>1, <2>3 DEF Asked, TypeOK
    <3> QED BY <3>1, AskedStep DEF SenderType
  <2> QED BY <2>2, <2>3
<1>2. CASE Asked(m)' \subseteq Asked(m)
  BY <1>2, AskedStep DEF SenderType
<1>3. ASSUME NEW a \in answers, Answered(a) PROVE Asked(m)' \subseteq Asked(m)
  <2>1. \/ UNCHANGED chunk
        \/ a.op = "set" /\ chunk' = [chunk EXCEPT ![a.msg][a.idx] = "stored"]
    BY <1>3 DEF Answered, Succeeds
  <2> QED BY <2>1, AnswerFields DEF Asked, TypeOK
<1>4. ASSUME UNCHANGED chunk PROVE Asked(m)' \subseteq Asked(m)
  BY <1>4 DEF Asked
<1> QED BY <1>1, <1>2, <1>3, <1>4
        DEF Next, Sends, Begins, AsksToProcess, Cancelled, Handled, LosesRequest, LosesAnswer, GivesUp, SessionEnds, vars

LEMMA SenderStep == TypeOK /\ [Next]_vars => SenderType'
<1> SUFFICES ASSUME TypeOK, [Next]_vars PROVE SenderType'
  OBVIOUS
<1> USE RequestFields, AnswerFields, WireFields DEF SenderType, TypeOK
<1>1. ASSUME NEW m \in Messages, Begins(m) PROVE SenderType'
  BY <1>1 DEF Begins, GoesTo, Calls, Request, receiverVars, Hurts
<1>2. ASSUME NEW m \in Messages, SendsChunk(m) PROVE SenderType'
  BY <1>2 DEF SendsChunk, Calls, Request, receiverVars, Hurts
<1>3. ASSUME NEW m \in Messages, AsksToProcess(m) PROVE SenderType'
  BY <1>3 DEF AsksToProcess, GoesTo, Calls, Request, AllStored, receiverVars, Hurts
<1>4. ASSUME NEW m \in Messages, Cancelled(m) PROVE SenderType'
  BY <1>4 DEF Cancelled, GoesTo, receiverVars, Hurts
<1>5. ASSUME NEW r \in wire, Handled(r), ~Accepts(r) PROVE SenderType'
  BY <1>5 DEF Handled, Answer, receiverVars, Hurts
<1>6. ASSUME NEW r \in wire, Handled(r), Accepts(r), r.op = "create" PROVE SenderType'
  BY <1>6 DEF Handled, Accepts, Does, Create, Answer, Present, receiverVars, Hurts
<1>7. ASSUME NEW r \in wire, Handled(r), Accepts(r), r.op = "set" PROVE SenderType'
  BY <1>7 DEF Handled, Accepts, Does, Set, Answer, Present, receiverVars, Hurts
<1>8. ASSUME NEW r \in wire, Handled(r), Accepts(r), r.op = "remove" PROVE SenderType'
  BY <1>8 DEF Handled, InOrder, Does, Remove, Answer, receiverVars, Hurts
<1>9. ASSUME NEW r \in wire, Handled(r), Accepts(r), r.op = "process" PROVE SenderType'
  BY <1>9 DEF Handled, InOrder, Does, Process, Remove, Answer, receiverVars, Hurts
<1>10. ASSUME NEW r \in wire, LosesRequest(r) PROVE SenderType'
  BY <1>10 DEF LosesRequest, receiverVars, Hurts
<1>11. ASSUME NEW a \in answers, Answered(a), ~Awaited(a) PROVE SenderType'
  BY <1>11 DEF Answered, receiverVars, Hurts
<1>12. ASSUME NEW a \in answers, Answered(a), Awaited(a), a.ok PROVE SenderType'
  <2>1. a.msg \in Messages /\ (a.op = "set" => a.idx \in Index) /\ UNCHANGED hurt
    BY <1>12 DEF Answered
  <2>2. \/ UNCHANGED <<phase, chunk>>
        \/ UNCHANGED chunk /\ \E p \in {"sending", "failed", "done"} : phase' = [phase EXCEPT ![a.msg] = p]
        \/ UNCHANGED phase /\ a.op = "set" /\ chunk' = [chunk EXCEPT ![a.msg][a.idx] = "stored"]
    BY <1>12 DEF Answered, Succeeds, GoesTo
  <2>3. ASSUME UNCHANGED phase, a.op = "set", chunk' = [chunk EXCEPT ![a.msg][a.idx] = "stored"] PROVE SenderType'
    <3> DEFINE row == [chunk[a.msg] EXCEPT ![a.idx] = "stored"]
    <3>1. row \in [Index -> {"waiting", "asked", "stored"}]
      <4>1. chunk[a.msg] \in [Index -> {"waiting", "asked", "stored"}] /\ a.idx \in Index
        BY <2>1, <2>3
      <4> QED BY <4>1
    <3>2. chunk' = [chunk EXCEPT ![a.msg] = row]
      BY <2>3
    <3> HIDE DEF row
    <3> QED BY <2>1, <2>3, <3>1, <3>2
  <2> QED BY <2>1, <2>2, <2>3
<1>13. ASSUME NEW a \in answers, Answered(a), Awaited(a), ~a.ok PROVE SenderType'
  <2>1. a.msg \in Messages /\ UNCHANGED <<chunk, hurt>>
    BY <1>13 DEF Answered
  <2>2. \E p \in {"removing", "failed"} : phase' = [phase EXCEPT ![a.msg] = p]
    BY <1>13 DEF Answered, Fails, GoesTo
  <2> QED BY <2>1, <2>2
<1>14. ASSUME NEW a \in answers, LosesAnswer(a) PROVE SenderType'
  BY <1>14 DEF LosesAnswer, receiverVars, Hurts
<1>15. ASSUME NEW r \in Requests, GivesUp(r) PROVE SenderType'
  BY <1>15 DEF GivesUp, Awaited, Fails, GoesTo, Calls, Request, receiverVars, Hurts
<1>16. ASSUME NEW k \in Sessions, SessionEnds(k) PROVE SenderType'
  BY <1>16 DEF SessionEnds, receiverVars, Hurts
<1>17. CASE UNCHANGED vars
  BY <1>17 DEF vars
<1> HIDE DEF SenderType, TypeOK
<1> QED BY <1>1, <1>2, <1>3, <1>4, <1>5, <1>6, <1>7, <1>8, <1>9, <1>10, <1>11, <1>12, <1>13, <1>14, <1>15, <1>16, <1>17
        DEF Next, Sends

LEMMA NetStep == TypeOK /\ [Next]_vars => NetType'
<1> SUFFICES ASSUME TypeOK, [Next]_vars PROVE NetType'
  OBVIOUS
<1> DEFINE AllAnswers == {Answer(r, ok) : r \in Requests, ok \in BOOLEAN}
<1>1. wire \subseteq Requests /\ answers \subseteq AllAnswers
  BY DEF TypeOK
<1>2. CASE wire' \subseteq wire /\ answers' \subseteq answers
  BY <1>1, <1>2 DEF NetType
<1>3. ASSUME NEW q \in Requests, wire' = wire \cup {q}, answers' \subseteq answers PROVE NetType'
  BY <1>1, <1>3 DEF NetType
<1>4. ASSUME NEW r \in wire, Handled(r) PROVE NetType'
  <2>1. r \in Requests /\ wire' \subseteq wire
    BY <1>1, <1>4 DEF Handled
  <2>2. PICK ok \in BOOLEAN : answers' = answers \cup {Answer(r, ok)}
    <3>1. CASE Accepts(r)
      <4>1. answers' = answers \cup {Answer(r, TRUE)}
        BY <1>4, <3>1 DEF Handled, Answer
      <4> QED BY <4>1
    <3>2. CASE ~Accepts(r)
      <4>1. Accepts(r) = FALSE
        BY <3>2 DEF Accepts
      <4>2. answers' = answers \cup {Answer(r, FALSE)}
        BY <1>4, <4>1 DEF Handled
      <4> QED BY <4>2
    <3> QED BY <3>1, <3>2
  <2>3. Answer(r, ok) \in AllAnswers
    BY <2>1
  <2> HIDE DEF AllAnswers
  <2>4. wire' \subseteq Requests /\ answers' \subseteq AllAnswers
    BY <1>1, <2>1, <2>2, <2>3
  <2> QED BY <2>4 DEF NetType, AllAnswers
<1>5. ASSUME NEW m \in Messages, Begins(m) \/ SendsChunk(m) \/ AsksToProcess(m) PROVE NetType'
  <2>1. answers' = answers /\ \E q \in Requests : wire' = wire \cup {q}
    BY <1>5, RequestTyped DEF Begins, SendsChunk, AsksToProcess, Calls
  <2> QED BY <2>1, <1>3
<1>6. ASSUME NEW r, r.msg \in Messages, Fails(r), answers' \subseteq answers PROVE NetType'
  <2>1. wire' = wire \/ \E q \in Requests : wire' = wire \cup {q}
    BY <1>6, RequestTyped DEF Fails, Calls
  <2> QED BY <2>1, <1>6, <1>2, <1>3
<1>7. ASSUME NEW a \in answers, Answered(a) PROVE NetType'
  <2>1. a.msg \in Messages /\ answers' \subseteq answers /\ (wire' = wire \/ Fails(a))
    BY <1>7, AnswerFields DEF Answered, Succeeds
  <2> QED BY <2>1, <1>2, <1>6
<1>8. ASSUME NEW r \in Requests, GivesUp(r) PROVE NetType'
  BY <1>6, <1>8, RequestFields DEF GivesUp
<1> HIDE DEF AllAnswers
<1> QED BY <1>2, <1>4, <1>5, <1>7, <1>8
        DEF Next, Sends, Cancelled, LosesRequest, LosesAnswer, SessionEnds, vars

LEMMA CacheStep == TypeOK /\ [Next]_vars => CacheType'
<1> SUFFICES ASSUME TypeOK, [Next]_vars PROVE CacheType'
  OBVIOUS
<1>1. CASE UNCHANGED <<cache, maker, ended>>
  BY <1>1 DEF TypeOK, CacheType
<1>2. ASSUME NEW r \in wire, Handled(r) PROVE CacheType'
  <2>1. /\ r.msg \in Messages /\ Key[r.msg] \in Keys /\ (r.op = "set" => r.idx \in Index)
        /\ Empty \in [Index -> Messages \cup {NoMessage}] /\ r.op \in {"create", "set", "remove", "process"}
    BY WireFields, KeysAssumption DEF Empty
  <2>0. /\ cache \in [Keys -> [Index -> Messages \cup {NoMessage}]]
        /\ maker \in [Keys -> Messages \cup {NoMessage}] /\ ended \subseteq Sessions
    BY DEF TypeOK
  <2>2. CASE ~Accepts(r)
    <3>1. UNCHANGED <<cache, maker, ended>>
      BY <1>2, <2>2 DEF Handled
    <3> QED BY <3>1, <1>1
  <2>3. CASE Accepts(r) /\ r.op = "create"
    <3>1. /\ cache' = [cache EXCEPT ![Key[r.msg]] = Empty] /\ maker' = [maker EXCEPT ![Key[r.msg]] = r.msg]
          /\ UNCHANGED ended
      BY <1>2, <2>3, CreateHandled
    <3>2. cache' \in [Keys -> [Index -> Messages \cup {NoMessage}]]
      BY <2>0, <2>1, <3>1
    <3>3. maker' \in [Keys -> Messages \cup {NoMessage}]
      <4>1. maker' = [maker EXCEPT ![Key[r.msg]] = r.msg] /\ r.msg \in Messages \cup {NoMessage}
        BY <2>1, <3>1
      <4> QED BY <2>0, <4>1
    <3> QED BY <2>0, <3>1, <3>2, <3>3 DEF CacheType
  <2>4. CASE Accepts(r) /\ r.op = "set"
    <3>1. cache' = [cache EXCEPT ![Key[r.msg]][r.idx] = r.msg] /\ UNCHANGED <<maker, ended>>
      BY <1>2, <2>4, SetHandled
    <3>2. cache' \in [Keys -> [Index -> Messages \cup {NoMessage}]]
      <4> DEFINE row == [cache[Key[r.msg]] EXCEPT ![r.idx] = r.msg]
      <4>1. row \in [Index -> Messages \cup {NoMessage}]
        <5>1. cache[Key[r.msg]] \in [Index -> Messages \cup {NoMessage}] /\ r.idx \in Index /\ r.msg \in Messages
          BY <2>0, <2>1, <2>4
        <5> QED BY <5>1
      <4>2. cache' = [cache EXCEPT ![Key[r.msg]] = row]
        BY <3>1
      <4> HIDE DEF row
      <4> QED BY <2>0, <4>1, <4>2
    <3> QED BY <2>0, <3>1, <3>2 DEF CacheType
  <2>5. CASE Accepts(r) /\ r.op \in {"remove", "process"}
    <3>1. /\ cache' = [cache EXCEPT ![Key[r.msg]] = Empty] /\ maker' = [maker EXCEPT ![Key[r.msg]] = NoMessage]
          /\ UNCHANGED ended
      BY <1>2, <2>5, RemoveHandled
    <3>2. cache' \in [Keys -> [Index -> Messages \cup {NoMessage}]]
      BY <2>0, <2>1, <3>1
    <3>3. maker' \in [Keys -> Messages \cup {NoMessage}]
      <4>1. maker' = [maker EXCEPT ![Key[r.msg]] = NoMessage]
        BY <3>1
      <4> QED BY <2>0, <4>1
    <3> QED BY <2>0, <3>1, <3>2, <3>3 DEF CacheType
  <2> QED BY <2>1, <2>2, <2>3, <2>4, <2>5
<1>3. ASSUME NEW k \in Sessions, SessionEnds(k) PROVE CacheType'
  BY <1>3 DEF SessionEnds, TypeOK, CacheType
<1> QED BY <1>1, <1>2, <1>3
        DEF Next, Sends, Begins, SendsChunk, AsksToProcess, Cancelled, LosesRequest, Answered, LosesAnswer, GivesUp,
            receiverVars, vars

\* What is processed is the whole message that asks for it.
LEMMA ProcessedWhole ==
  ASSUME TypeOK, CallsInv, OwnInv, StoredInv, NEW r \in wire, r.op = "process"
  PROVE  \A i \in Index : cache[Key[r.msg]][i] = r.msg
BY WireFields DEF CallsInv, OwnInv, StoredInv, AllStored, TypeOK

LEMMA WholeStep ==
  TypeOK /\ CallsInv /\ OwnInv /\ StoredInv /\ FiredInv /\ FiredType /\ WholeMessages /\ [Next]_vars => FiredType' /\ WholeMessages'
<1> SUFFICES ASSUME TypeOK, CallsInv, OwnInv, StoredInv, FiredInv, FiredType, WholeMessages, [Next]_vars
             PROVE  FiredType' /\ WholeMessages'
  OBVIOUS
<1> USE DEF FiredType, WholeMessages
<1>1. ASSUME NEW r \in wire, Handled(r), Accepts(r), r.op = "process" PROVE FiredType' /\ WholeMessages'
  <2> DEFINE parts == cache[Key[r.msg]]
  <2>1. 1 \in Index /\ r.msg \in Messages /\ fired[r.msg] = 0
    BY <1>1, WireFields, NumbersAssumption DEF FiredInv, Index
  <2>2. fired' = [fired EXCEPT ![parts[1]] = @ + 1] /\ torn' = (torn \/ \E i \in Index : parts[i] # parts[1])
    BY <1>1 DEF Handled, Does, Process
  <2>3. \A i \in Index : parts[i] = r.msg
    BY <1>1, ProcessedWhole
  <2> HIDE DEF parts
  <2> QED BY <2>1, <2>2, <2>3
<1>2. CASE UNCHANGED <<fired, torn>>
  BY <1>2
<1>3. ASSUME NEW r \in wire, Handled(r), ~(Accepts(r) /\ r.op = "process") PROVE UNCHANGED <<fired, torn>>
  BY <1>3 DEF Handled, Does
<1> QED BY <1>1, <1>2, <1>3
        DEF Next, Sends, Begins, SendsChunk, AsksToProcess, Cancelled, LosesRequest, Answered, LosesAnswer, GivesUp,
            SessionEnds, receiverVars, vars

LEMMA IInvInit == Init => IInv
<1> SUFFICES ASSUME Init PROVE IInv
  OBVIOUS
<1>1. \A m \in Messages : Asked(m) = {}
  BY DEF Init, Asked
<1>2. \A m \in Messages : Cardinality(Asked(m)) <= Limit
  BY <1>1, FS_EmptySet, NumbersAssumption
<1>5. TypeOK
  <2>1. cache \in [Keys -> [Index -> Messages \cup {NoMessage}]] /\ maker \in [Keys -> Messages \cup {NoMessage}]
    BY DEF Init, Empty
  <2>2. wire \subseteq Requests /\ answers \subseteq {Answer(r, ok) : r \in Requests, ok \in BOOLEAN}
    BY DEF Init
  <2>3. torn \in BOOLEAN /\ ended \subseteq Sessions /\ hurt \subseteq Messages
    BY DEF Init
  <2>6. fired \in [Messages -> 0..1]
    <3>1. 0 \in 0..1
      OBVIOUS
    <3> QED BY <3>1 DEF Init
  <2>4. phase \in [Messages -> {"idle", "creating", "sending", "removing", "processing", "done", "failed"}]
    BY DEF Init
  <2>5. chunk \in [Messages -> [Index -> {"waiting", "asked", "stored"}]]
    BY DEF Init
  <2> QED BY <1>2, <2>1, <2>2, <2>3, <2>4, <2>5, <2>6 DEF TypeOK
<1>3. CallsInv /\ OwnInv /\ ChunkInv /\ FiredInv /\ WholeMessages
  BY DEF Init, CallsInv, OwnInv, ChunkInv, FiredInv, WholeMessages, Empty
<1>4. StoredInv
  BY DEF Init, StoredInv, Empty
<1> QED BY <1>5, <1>3, <1>4 DEF IInv

LEMMA TypeParts == TypeOK <=> SenderType /\ NetType /\ CacheType /\ FiredType /\ \A m \in Messages : Cardinality(Asked(m)) <= Limit
BY DEF TypeOK, SenderType, NetType, CacheType, FiredType

LEMMA Invariance == Spec => []IInv
<1>1. ASSUME IInv, [Next]_vars PROVE IInv'
  <2>1. SenderType' /\ NetType' /\ CacheType' /\ (FiredType' /\ WholeMessages')
    BY <1>1, SenderStep, NetStep, CacheStep, WholeStep, TypeParts DEF IInv
  <2>2. \A m \in Messages : Cardinality(Asked(m)') <= Limit
    BY <1>1, <2>1, LimitStep DEF IInv
  <2>3. TypeOK'
    BY <2>1, <2>2 DEF TypeOK, SenderType, NetType, CacheType, FiredType
  <2>4. CallsInv' /\ OwnInv' /\ ChunkInv' /\ StoredInv' /\ FiredInv'
    BY <1>1, CallsStep, OwnStep, ChunkStep, StoredStep, FiredStep DEF IInv
  <2> QED BY <2>1, <2>3, <2>4 DEF IInv
<1> QED BY <1>1, IInvInit, PTL DEF Spec

\* The sender's and the receiver's state, the calls and the answers on their way and
\* the cache stay in their types, and no message holds more of the semaphore than there is.
THEOREM TransferTypeCorrect == Spec => []TypeOK
<1>1. IInv => TypeOK
  BY DEF IInv
<1> QED BY <1>1, Invariance, PTL

\* Only whole messages are processed, whatever is lost and whoever wants the same entry.
THEOREM OnlyWholeMessages == Spec => []WholeMessages
<1>1. IInv => WholeMessages
  BY DEF IInv
<1> QED BY <1>1, Invariance, PTL

\* A long message is delivered at most once, and has been if the sender thinks so:
\* caller, receiver and network implement MessageDelivery.
THEOREM DeliveryCorrect == Spec => DeliveryImplemented
<1> DEFINE view(p) == CASE p = "idle" -> "new" [] p = "done" -> "succeeded" [] p = "failed" -> "failed" [] OTHER -> "sent"
           state == [m \in Messages |-> view(phase[m])]
           gone == {m \in Messages : fired[m] > 0}
<1>1. Init => Delivery!Init
  BY DEF Init, Delivery!Init
<1>2. ASSUME IInv, IInv', [Next]_vars PROVE [Delivery!Next]_Delivery!vars
  <2>1. /\ TypeOK /\ TypeOK' /\ CallsInv /\ OwnInv /\ StoredInv /\ FiredInv
    BY <1>2 DEF IInv
  <2>2. \A m \in Messages : phase[m] \in {"idle", "creating", "sending", "removing", "processing", "done", "failed"}
    BY <2>1 DEF TypeOK
  <2>15. ASSUME NEW m \in Messages, NEW p \in {"creating", "sending", "removing", "processing", "done", "failed"},
                phase' = [phase EXCEPT ![m] = p]
         PROVE  state[m] = view(phase[m]) /\ state' = [state EXCEPT ![m] = view(p)]
    <3>1. \A n \in Messages : phase'[n] = IF n = m THEN p ELSE phase[n]
      BY <2>1, <2>15 DEF TypeOK
    <3> HIDE DEF view
    <3> QED BY <3>1
  <2>3. CASE UNCHANGED <<state, gone>>
    BY <2>3 DEF Delivery!vars
  <2>4. CASE UNCHANGED <<phase, fired>>
    BY <2>3, <2>4
  <2>5. ASSUME NEW m \in Messages, Begins(m) PROVE Delivery!Next
    <3>1. phase[m] = "idle" /\ phase' = [phase EXCEPT ![m] = "creating"] /\ fired' = fired
      BY <2>5 DEF Begins, GoesTo, receiverVars
    <3>2. state[m] = "new" /\ state' = [state EXCEPT ![m] = "sent"]
      <4>1. view("idle") = "new" /\ view("creating") = "sent"
        OBVIOUS
      <4> HIDE DEF view, state
      <4> QED BY <2>15, <3>1, <4>1
    <3>3. Delivery!Send(m)
      BY <3>1, <3>2 DEF Delivery!Send
    <3> QED BY <3>3 DEF Delivery!Next
  <2>6. ASSUME NEW m \in Messages, phase[m] \in {"idle", "creating", "removing", "processing", "sending"},
               phase' = [phase EXCEPT ![m] = "failed"], UNCHANGED fired
        PROVE  Delivery!Next
    <3>1. state[m] \in {"new", "sent"} /\ state' = [state EXCEPT ![m] = "failed"]
      <4>1. view("failed") = "failed" /\ view(phase[m]) \in {"new", "sent"}
        BY <2>6
      <4> HIDE DEF view, state
      <4> QED BY <2>15, <2>6, <4>1
    <3>2. Delivery!Fail(m)
      BY <2>6, <3>1 DEF Delivery!Fail
    <3> QED BY <3>2 DEF Delivery!Next
  <2>7. ASSUME NEW m \in Messages, NEW p \in {"sending", "removing", "processing"},
               phase[m] \in {"creating", "sending", "removing"}, phase' = [phase EXCEPT ![m] = p], UNCHANGED fired
        PROVE  UNCHANGED <<state, gone>>
    BY <2>1, <2>7 DEF TypeOK
  <2>8. ASSUME NEW r, r.msg \in Messages, r.op \in {"create", "set", "remove", "process"}, Awaited(r), Fails(r), UNCHANGED fired
        PROVE  Delivery!Next \/ UNCHANGED <<state, gone>>
    <3>1. CASE r.op = "set"
      <4>1. phase[r.msg] = "sending" /\ phase' = [phase EXCEPT ![r.msg] = "removing"]
        BY <2>8, <3>1 DEF Awaited, Fails, GoesTo
      <4> HIDE DEF state, gone
      <4> QED BY <2>7, <2>8, <4>1
    <3>2. CASE r.op # "set"
      <4>1. phase[r.msg] \in {"creating", "removing", "processing"} /\ phase' = [phase EXCEPT ![r.msg] = "failed"]
        BY <2>8, <3>2 DEF Awaited, Fails, GoesTo
      <4> HIDE DEF state, gone
      <4> QED BY <2>6, <2>8, <4>1
    <3> QED BY <3>1, <3>2
  <2>9. ASSUME NEW a \in answers, Answered(a) PROVE Delivery!Next \/ UNCHANGED <<state, gone>>
    <3>1. /\ a.msg \in Messages /\ a.op \in {"create", "set", "remove", "process"}
          /\ fired' = fired
      BY <2>1, <2>9, AnswerFields DEF Answered, receiverVars
    <3>2. CASE ~Awaited(a)
      BY <2>9, <3>1, <3>2 DEF Answered
    <3>3. CASE Awaited(a) /\ ~a.ok
      <4> HIDE DEF state, gone
      <4> QED BY <2>8, <2>9, <3>1, <3>3 DEF Answered
    <3>4. CASE Awaited(a) /\ a.ok /\ a.op = "set"
      BY <2>9, <3>1, <3>4 DEF Answered, Succeeds
    <3>5. CASE Awaited(a) /\ a.ok /\ a.op = "create"
      <4>1. phase[a.msg] = "creating" /\ phase' = [phase EXCEPT ![a.msg] = "sending"]
        BY <2>9, <3>5 DEF Answered, Awaited, Succeeds, GoesTo
      <4> HIDE DEF state, gone
      <4> QED BY <2>7, <3>1, <4>1
    <3>6. CASE Awaited(a) /\ a.ok /\ a.op = "remove"
      <4>1. phase[a.msg] = "removing" /\ phase' = [phase EXCEPT ![a.msg] = "failed"]
        BY <2>9, <3>6 DEF Answered, Awaited, Succeeds, GoesTo
      <4> HIDE DEF state, gone
      <4> QED BY <2>6, <3>1, <4>1
    <3>7. CASE Awaited(a) /\ a.ok /\ a.op = "process"
      <4>1. phase[a.msg] = "processing" /\ phase' = [phase EXCEPT ![a.msg] = "done"]
        BY <2>9, <3>7 DEF Answered, Awaited, Succeeds, GoesTo
      <4>2. fired[a.msg] = 1
        BY <2>1, <2>9, <3>7 DEF FiredInv
      <4>5. view("processing") = "sent" /\ view("done") = "succeeded"
        OBVIOUS
      <4>6. a.msg \in gone /\ gone' = gone
        BY <3>1, <4>2
      <4>3. state[a.msg] = "sent" /\ state' = [state EXCEPT ![a.msg] = "succeeded"]
        <5> HIDE DEF view, state
        <5> QED BY <2>15, <3>1, <4>1, <4>5
      <4>4. Delivery!Succeed(a.msg)
        BY <3>1, <4>3, <4>6 DEF Delivery!Succeed
      <4> QED BY <3>1, <4>4 DEF Delivery!Next
    <3> QED BY <3>1, <3>2, <3>3, <3>4, <3>5, <3>6, <3>7
  <2>10. ASSUME NEW r \in wire, Handled(r) PROVE Delivery!Next \/ UNCHANGED <<state, gone>>
    <3>1. phase' = phase
      BY <2>10 DEF Handled
    <3>2. CASE ~(Accepts(r) /\ r.op = "process")
      BY <2>10, <3>1, <3>2 DEF Handled, Does
    <3>3. CASE Accepts(r) /\ r.op = "process"
      <4>1. 1 \in Index /\ r.msg \in Messages /\ fired[r.msg] = 0 /\ phase[r.msg] \in {"processing", "failed"}
        BY <2>1, <3>3, WireFields, NumbersAssumption DEF FiredInv, CallsInv, Index
      <4>2. fired' = [fired EXCEPT ![r.msg] = @ + 1]
        BY <2>1, <2>10, <3>3, <4>1, ProcessedWhole DEF Handled, Does, Process
      <4>3. state[r.msg] # "new" /\ r.msg \notin gone /\ gone' = gone \cup {r.msg} /\ state' = state
        BY <2>1, <3>1, <4>1, <4>2 DEF TypeOK
      <4>4. Delivery!Deliver(r.msg)
        BY <4>3 DEF Delivery!Deliver
      <4> QED BY <4>1, <4>4 DEF Delivery!Next
    <3> QED BY <3>2, <3>3
  <2>11. ASSUME NEW m \in Messages, AsksToProcess(m) PROVE UNCHANGED <<state, gone>>
    <3>1. phase[m] = "sending" /\ phase' = [phase EXCEPT ![m] = "processing"] /\ fired' = fired
      BY <2>11 DEF AsksToProcess, GoesTo, receiverVars
    <3> HIDE DEF state, gone
    <3> QED BY <2>7, <3>1
  <2>12. ASSUME NEW m \in Messages, Cancelled(m) PROVE Delivery!Next
    <3>1. /\ phase[m] \in {"idle", "creating", "removing", "processing", "sending"}
          /\ phase' = [phase EXCEPT ![m] = "failed"] /\ fired' = fired
      BY <2>2, <2>12 DEF Cancelled, GoesTo, receiverVars
    <3> HIDE DEF state, gone
    <3> QED BY <2>6, <3>1
  <2>13. ASSUME NEW r \in Requests, GivesUp(r) PROVE Delivery!Next \/ UNCHANGED <<state, gone>>
    <3>1. r.msg \in Messages /\ r.op \in {"create", "set", "remove", "process"} /\ fired' = fired
      BY <2>13, RequestFields DEF GivesUp, receiverVars
    <3> HIDE DEF state, gone
    <3> QED BY <2>8, <2>13, <3>1 DEF GivesUp
  <2>14. \/ UNCHANGED <<phase, fired>>
         \/ \E m \in Messages : Begins(m) \/ AsksToProcess(m) \/ Cancelled(m)
         \/ \E r \in wire : Handled(r)
         \/ \E a \in answers : Answered(a)
         \/ \E r \in Requests : GivesUp(r)
    BY <1>2 DEF Next, Sends, SendsChunk, LosesRequest, LosesAnswer, SessionEnds, receiverVars, vars
  <2> HIDE DEF state, gone
  <2> QED BY <2>3, <2>4, <2>5, <2>9, <2>10, <2>11, <2>12, <2>13, <2>14
<1> QED BY <1>1, <1>2, Invariance, PTL DEF Spec, Delivery!Spec, DeliveryImplemented
-----------------------------------------------------------------------------
(* Why a transfer fails, and what it leaves behind *)

\* What FailsForAReason accepts as a reason; once there, it stays.
Reason(m) ==
  \/ m \in hurt \/ Key[m] \in ended
  \/ \E n \in Messages \ {m} : Key[n] = Key[m] /\ phase[n] # "idle"

\* An entry was made for a message that is being sent; who asks for it to be created
\* does not own it; and a refusal has its reason.
ReasonInv ==
  /\ \A k \in Keys : maker[k] # NoMessage => Key[maker[k]] = k /\ phase[maker[k]] # "idle"
  /\ \A r \in wire : r.op = "create" => ~Owns(r.msg)
  /\ \A a \in answers : ~a.ok => Reason(a.msg)

\* Who has been answered that the entry is gone, or could not be created, does not own it;
\* a refusal to process comes from the end of the session, when all chunks were there.
LeakInv ==
  /\ \A r \in wire : r.op = "create" /\ phase[r.msg] = "failed" => r.msg \in hurt
  /\ \A a \in answers : a.op = "remove" \/ (a.op = "create" /\ ~a.ok) \/ (a.op = "process" /\ a.ok) => ~Owns(a.msg)
  /\ \A a \in answers : a.op = "process" /\ ~a.ok => AllStored(a.msg) /\ Key[a.msg] \in ended
  /\ \A m \in Messages : Owns(m) => phase[m] # "done"
  /\ \A m \in Messages : Owns(m) /\ phase[m] = "failed" => m \in hurt \/ (AllStored(m) /\ Key[m] \in ended)

\* A message that has begun has begun, a session that has ended has ended, and a
\* fault is not forgotten.
LEMMA Onward ==
  ASSUME TypeOK, [Next]_vars
  PROVE  /\ \A m \in Messages : phase[m] # "idle" => phase'[m] # "idle"
         /\ ended \subseteq ended' /\ hurt \subseteq hurt'
         /\ \A m \in Messages : AllStored(m) => AllStored(m)'
<1>1. ASSUME NEW m \in Messages, Sends(m) \/ Cancelled(m)
      PROVE  /\ \A n \in Messages : phase[n] # "idle" => phase'[n] # "idle"
             /\ UNCHANGED ended /\ hurt \subseteq hurt'
             /\ \A n \in Messages : AllStored(n) => AllStored(n)'
  BY <1>1 DEF Sends, Begins, SendsChunk, AsksToProcess, Cancelled, GoesTo, Hurts, AllStored, receiverVars, TypeOK
<1>2. ASSUME NEW r \in wire, Handled(r) \/ LosesRequest(r)
      PROVE  UNCHANGED <<phase, chunk, ended>> /\ hurt \subseteq hurt'
  BY <1>2 DEF Handled, LosesRequest, Hurts, receiverVars
<1>3. ASSUME NEW a \in answers, LosesAnswer(a)
      PROVE  UNCHANGED <<phase, chunk, ended>> /\ hurt \subseteq hurt'
  BY <1>3 DEF LosesAnswer, Hurts, receiverVars
<1>4. ASSUME NEW a \in answers, Answered(a)
      PROVE  /\ \A n \in Messages : phase[n] # "idle" => phase'[n] # "idle"
             /\ UNCHANGED <<ended, hurt>>
             /\ \A n \in Messages : AllStored(n) => AllStored(n)'
  <2>1. a.msg \in Messages /\ (a.op = "set" => a.idx \in Index) /\ UNCHANGED <<ended, hurt>>
    BY <1>4, AnswerFields DEF Answered, receiverVars
  <2>2. UNCHANGED phase \/ \E p \in {"sending", "removing", "done", "failed"} : phase' = [phase EXCEPT ![a.msg] = p]
    BY <1>4 DEF Answered, Succeeds, Fails, GoesTo
  <2>3. UNCHANGED chunk \/ (a.op = "set" /\ chunk' = [chunk EXCEPT ![a.msg][a.idx] = "stored"])
    BY <1>4 DEF Answered, Succeeds
  <2>4. \A n \in Messages : phase[n] # "idle" => phase'[n] # "idle"
    BY <2>1, <2>2 DEF TypeOK
  <2>5. \A n \in Messages : AllStored(n) => AllStored(n)'
    BY <2>1, <2>3 DEF AllStored, TypeOK
  <2> QED BY <2>1, <2>4, <2>5
<1>5. ASSUME NEW r \in Requests, GivesUp(r)
      PROVE  /\ \A n \in Messages : phase[n] # "idle" => phase'[n] # "idle"
             /\ UNCHANGED <<chunk, ended>> /\ hurt \subseteq hurt'
  BY <1>5, RequestFields DEF GivesUp, Fails, GoesTo, Hurts, receiverVars, TypeOK
<1>6. ASSUME NEW k \in Sessions, SessionEnds(k)
      PROVE  UNCHANGED <<phase, chunk, hurt>> /\ ended \subseteq ended'
  BY <1>6 DEF SessionEnds
<1>7. CASE UNCHANGED vars
  BY <1>7 DEF vars, AllStored
<1> QED BY <1>1, <1>2, <1>3, <1>4, <1>5, <1>6, <1>7 DEF Next, AllStored

LEMMA ReasonStays ==
  ASSUME TypeOK, [Next]_vars, NEW m, Reason(m)
  PROVE  Reason(m)'
BY Onward DEF Reason

\* The answer to a request says what was asked and whether it was accepted.
LEMMA AnswerGiven ==
  ASSUME NEW r \in wire, Handled(r)
  PROVE  \E ans : /\ answers' = answers \cup {ans}
                  /\ ans.op = r.op /\ ans.msg = r.msg /\ ans.idx = r.idx /\ ans.ok = Accepts(r)
<1> DEFINE ans == [op |-> r.op, msg |-> r.msg, idx |-> r.idx, ok |-> Accepts(r)]
<1>1. answers' = answers \cup {ans}
  BY DEF Handled, Answer
<1>2. ans.op = r.op /\ ans.msg = r.msg /\ ans.idx = r.idx /\ ans.ok = Accepts(r)
  OBVIOUS
<1> HIDE DEF ans
<1> QED BY <1>1, <1>2

\* What can be refused, and why: an entry is not created because it is another
\* message's, nothing else is refused but for a session that has ended.
LEMMA Refused ==
  ASSUME TypeOK, CallsInv, OwnInv, StoredInv, ReasonInv, NEW r \in wire, ~Accepts(r)
  PROVE  /\ Reason(r.msg) /\ r.op # "remove"
         /\ r.op = "create" => ~Owns(r.msg)
         /\ r.op = "process" => AllStored(r.msg) /\ Key[r.msg] \in ended
<1> DEFINE m == r.msg
<1>1. m \in Messages /\ Key[m] \in Keys /\ r.op \in {"create", "set", "remove", "process"}
  BY WireFields, KeysAssumption
<1>2. CASE r.op = "create"
  <2>1. ~Owns(m)
    BY <1>2 DEF ReasonInv
  <2>2. Key[m] \in ended \/ maker[Key[m]] # NoMessage
    BY <1>2 DEF Accepts, Present, SessionThere
  <2>3. CASE maker[Key[m]] # NoMessage
    <3>1. PICK n \in Messages : n = maker[Key[m]]
      BY <1>1, <2>3 DEF TypeOK
    <3>2. n # m /\ Key[n] = Key[m] /\ phase[n] # "idle"
      BY <1>1, <2>1, <2>3, <3>1 DEF ReasonInv, Owns
    <3> QED BY <1>2, <2>1, <3>1, <3>2 DEF Reason
  <2> QED BY <1>2, <2>1, <2>2, <2>3 DEF Reason
<1>3. CASE r.op # "create"
  <2>1. Present(Key[m])
    BY <1>1, <1>3, MessagesAssumption DEF OwnInv, Owns, Present
  <2>2. r.op = "process" => AllStored(m) /\ \A i \in Index : cache[Key[m]][i] = m
    BY ProcessedWhole DEF CallsInv
  <2>3. r.op = "process" => Joinable(cache[Key[m]])
    <3>1. 1 \in Index /\ m # NoMessage
      BY <1>1, NumbersAssumption, MessagesAssumption DEF Index
    <3>2. \A i \in Index : \A j \in 1..i : j \in Index
      BY NumbersAssumption DEF Index
    <3> QED BY <2>2, <3>1, <3>2 DEF Joinable
  <2>4. r.op # "remove" /\ ~SessionThere(Key[m])
    BY <1>3, <2>1, <2>3 DEF Accepts
  <2> QED BY <1>3, <2>2, <2>4 DEF SessionThere, Reason
<1> QED BY <1>2, <1>3

LEMMA ReasonStep ==
  TypeOK /\ CallsInv /\ OwnInv /\ StoredInv /\ ReasonInv /\ FailsForAReason /\ [Next]_vars => ReasonInv' /\ FailsForAReason'
<1> SUFFICES ASSUME TypeOK, CallsInv, OwnInv, StoredInv, ReasonInv, FailsForAReason, [Next]_vars
             PROVE  ReasonInv' /\ FailsForAReason'
  OBVIOUS
<1> DEFINE Made == \A k \in Keys : maker[k] # NoMessage => Key[maker[k]] = k /\ phase[maker[k]] # "idle"
           Creating == \A r \in wire : r.op = "create" => ~Owns(r.msg)
           Refusals == \A a \in answers : ~a.ok => Reason(a.msg)
           Failures == \A m \in Messages : phase[m] \in {"removing", "failed"} => Reason(m)
<1>1. Made /\ Creating /\ Refusals /\ Failures
  BY DEF ReasonInv, FailsForAReason, Reason
<1>2. \A m \in Messages : Reason(m) => Reason(m)'
  BY ReasonStays
<1>3. \A a \in answers : a.msg \in Messages
  BY AnswerFields
<1>4. \A m \in Messages : phase[m] # "idle" => phase'[m] # "idle"
  BY Onward
<1>5. maker \in [Keys -> Messages \cup {NoMessage}] /\ Key \in [Messages -> Keys] /\ NoMessage \notin Messages
  BY KeysAssumption, MessagesAssumption DEF TypeOK
<1>6. Made' /\ Creating' /\ Refusals' /\ Failures' => ReasonInv' /\ FailsForAReason'
  BY DEF ReasonInv, FailsForAReason, Reason
<1> HIDE DEF Made, Creating, Refusals, Failures
<1>7. ASSUME UNCHANGED maker PROVE Made'
  BY <1>1, <1>4, <1>5, <1>7 DEF Made
<1>8. ASSUME UNCHANGED maker, \A r \in wire' : r.op = "create" => r \in wire PROVE Creating'
  BY <1>1, <1>8 DEF Creating, Owns
<1>9. ASSUME answers' \subseteq answers PROVE Refusals'
  BY <1>1, <1>2, <1>3, <1>9 DEF Refusals
<1>10. ASSUME NEW m \in Messages, Begins(m) PROVE Made' /\ Creating' /\ Refusals' /\ Failures'
  <2>1. UNCHANGED <<maker, answers>> /\ wire' = wire \cup {Request("create", m, 0)}
        /\ phase[m] = "idle" /\ phase' = [phase EXCEPT ![m] = "creating"]
    BY <1>10 DEF Begins, Calls, GoesTo, receiverVars
  <2>2. ~Owns(m)'
    BY <1>1, <1>5, <2>1 DEF Made, Owns
  <2>3. Creating'
    BY <1>1, <2>1, <2>2 DEF Creating, Owns, Request
  <2>4. Failures'
    BY <1>1, <1>2, <2>1 DEF Failures, TypeOK
  <2> QED BY <1>7, <1>9, <2>1, <2>3, <2>4
<1>11. ASSUME NEW m \in Messages, SendsChunk(m) \/ AsksToProcess(m) PROVE Made' /\ Creating' /\ Refusals' /\ Failures'
  <2>1. UNCHANGED <<maker, answers>> /\ \E op \in {"set", "process"} : \E i : wire' = wire \cup {Request(op, m, i)}
    BY <1>11 DEF SendsChunk, AsksToProcess, Calls, receiverVars
  <2>2. \A r \in wire' : r.op = "create" => r \in wire
    BY <2>1 DEF Request
  <2>3. Failures'
    BY <1>1, <1>2, <1>11 DEF Failures, SendsChunk, AsksToProcess, GoesTo, TypeOK
  <2> QED BY <1>7, <1>8, <1>9, <2>1, <2>2, <2>3
<1>12. ASSUME NEW m \in Messages, Cancelled(m) PROVE Made' /\ Creating' /\ Refusals' /\ Failures'
  <2>1. UNCHANGED <<maker, answers, wire>> /\ Reason(m)' /\ phase' = [phase EXCEPT ![m] = "failed"]
    BY <1>12 DEF Cancelled, Hurts, Reason, GoesTo, receiverVars
  <2>2. Failures'
    BY <1>1, <1>2, <2>1 DEF Failures, TypeOK
  <2> QED BY <1>7, <1>8, <1>9, <2>1, <2>2
<1>13. ASSUME NEW r \in wire, Handled(r) PROVE Made' /\ Creating' /\ Refusals' /\ Failures'
  <2>1. PICK ans : /\ answers' = answers \cup {ans}
                   /\ ans.op = r.op /\ ans.msg = r.msg /\ ans.idx = r.idx /\ ans.ok = Accepts(r)
    BY <1>13, AnswerGiven
  <2>2. wire' = wire \ {r} /\ UNCHANGED phase
    BY <1>13 DEF Handled
  <2>3. r.msg \in Messages /\ Key[r.msg] \in Keys /\ r.op \in {"create", "set", "remove", "process"}
    BY <1>5, WireFields
  <2>4. ~ans.ok => Reason(ans.msg)
    BY <2>1, Refused
  <2>5. Refusals'
    BY <1>1, <1>2, <1>3, <2>1, <2>3, <2>4 DEF Refusals
  <2>6. Failures'
    BY <1>1, <1>2, <2>2 DEF Failures
  <2>7. CASE ~(Accepts(r) /\ r.op # "set")
    <3>1. UNCHANGED maker
      BY <1>13, <2>7 DEF Handled, Does, Set
    <3> QED BY <1>7, <1>8, <2>2, <2>5, <2>6, <3>1
  <2>8. CASE Accepts(r) /\ r.op = "create"
    <3>1. maker' = [maker EXCEPT ![Key[r.msg]] = r.msg] /\ maker[Key[r.msg]] = NoMessage
      BY <1>13, <2>8, CreateHandled
    <3>2. phase[r.msg] # "idle" /\ \A q \in wire' : q.msg # r.msg
      BY <2>2, <2>8 DEF CallsInv
    <3>3. \A k \in Keys : maker'[k] = IF k = Key[r.msg] THEN r.msg ELSE maker[k]
      BY <1>5, <2>3, <3>1
    <3>4. Made'
      BY <1>1, <2>2, <2>3, <3>2, <3>3 DEF Made
    <3>5. Creating'
      <4> SUFFICES ASSUME NEW q \in wire', q.op = "create" PROVE ~Owns(q.msg)'
        BY DEF Creating
      <4>1. q \in wire /\ q.msg # r.msg /\ q.msg \in Messages /\ ~Owns(q.msg) /\ Key[q.msg] \in Keys
        BY <1>1, <1>5, <2>2, <3>2, WireFields DEF Creating
      <4> QED BY <3>3, <4>1 DEF Owns
    <3> QED BY <2>5, <2>6, <3>4, <3>5
  <2>9. CASE Accepts(r) /\ r.op \in {"remove", "process"}
    <3>1. maker' = [maker EXCEPT ![Key[r.msg]] = NoMessage]
      BY <1>13, <2>9, RemoveHandled
    <3>3. \A k \in Keys : maker'[k] = IF k = Key[r.msg] THEN NoMessage ELSE maker[k]
      BY <1>5, <2>3, <3>1
    <3>4. Made'
      BY <1>1, <2>2, <3>3 DEF Made
    <3>5. Creating'
      <4> SUFFICES ASSUME NEW q \in wire', q.op = "create" PROVE ~Owns(q.msg)'
        BY DEF Creating
      <4>1. q \in wire /\ q.msg \in Messages /\ ~Owns(q.msg) /\ Key[q.msg] \in Keys
        BY <1>1, <1>5, <2>2, WireFields DEF Creating
      <4> QED BY <1>5, <3>3, <4>1 DEF Owns
    <3> QED BY <2>5, <2>6, <3>4, <3>5
  <2> QED BY <2>3, <2>7, <2>8, <2>9
<1>14. ASSUME NEW r \in wire, LosesRequest(r) PROVE Made' /\ Creating' /\ Refusals' /\ Failures'
  <2>1. UNCHANGED <<maker, answers, phase>> /\ wire' = wire \ {r}
    BY <1>14 DEF LosesRequest, receiverVars
  <2>2. Failures'
    BY <1>1, <1>2, <2>1 DEF Failures
  <2> QED BY <1>7, <1>8, <1>9, <2>1, <2>2
<1>15. ASSUME NEW a \in answers, LosesAnswer(a) PROVE Made' /\ Creating' /\ Refusals' /\ Failures'
  <2>1. UNCHANGED <<maker, wire, phase>> /\ answers' = answers \ {a}
    BY <1>15 DEF LosesAnswer, receiverVars
  <2>2. Failures'
    BY <1>1, <1>2, <2>1 DEF Failures
  <2> QED BY <1>7, <1>8, <1>9, <2>1, <2>2
<1>16. ASSUME NEW r, r.msg \in Messages, Fails(r), Reason(r.msg)'
       PROVE  Failures' /\ \A q \in wire' : q.op = "create" => q \in wire
  <2>1. PICK p : phase' = [phase EXCEPT ![r.msg] = p]
    BY <1>16 DEF Fails, GoesTo
  <2>2. Failures'
    BY <1>1, <1>2, <1>16, <2>1 DEF Failures, TypeOK
  <2>3. \A q \in wire' : q.op = "create" => q \in wire
    BY <1>16 DEF Fails, Calls, Request
  <2> QED BY <2>2, <2>3
<1>17. ASSUME NEW a \in answers, Answered(a) PROVE Made' /\ Creating' /\ Refusals' /\ Failures'
  <2>1. UNCHANGED maker /\ answers' = answers \ {a}
    BY <1>17 DEF Answered, receiverVars
  <2>2. Made' /\ Refusals'
    BY <1>7, <1>9, <2>1
  <2>3. CASE ~Awaited(a)
    <3>1. UNCHANGED <<phase, wire>>
      BY <1>17, <2>3 DEF Answered
    <3>2. Failures'
      BY <1>1, <1>2, <3>1 DEF Failures
    <3> QED BY <1>8, <2>1, <2>2, <3>1, <3>2
  <2>4. CASE Awaited(a) /\ ~a.ok
    <3>1. Fails(a) /\ Reason(a.msg)' /\ a.msg \in Messages
      BY <1>1, <1>2, <1>3, <1>17, <2>4 DEF Answered, Refusals
    <3> QED BY <1>8, <1>16, <2>1, <2>2, <3>1
  <2>5. CASE Awaited(a) /\ a.ok
    <3>1. UNCHANGED wire /\ Succeeds(a)
      BY <1>17, <2>5 DEF Answered, Succeeds
    <3>2. CASE a.op = "remove"
      <4>1. phase[a.msg] = "removing" /\ phase' = [phase EXCEPT ![a.msg] = "failed"]
        BY <2>5, <3>1, <3>2 DEF Awaited, Succeeds, GoesTo
      <4>2. Failures'
        BY <1>1, <1>2, <1>3, <4>1 DEF Failures, TypeOK
      <4> QED BY <1>8, <2>1, <2>2, <3>1, <4>2
    <3>3. CASE a.op # "remove"
      <4>1. UNCHANGED phase \/ \E p \in {"sending", "done"} : phase' = [phase EXCEPT ![a.msg] = p]
        BY <3>1, <3>3 DEF Succeeds, GoesTo
      <4>2. Failures'
        BY <1>1, <1>2, <1>3, <4>1 DEF Failures, TypeOK
      <4> QED BY <1>8, <2>1, <2>2, <3>1, <4>2
    <3> QED BY <3>2, <3>3
  <2> QED BY <2>3, <2>4, <2>5
<1>18. ASSUME NEW r \in Requests, GivesUp(r) PROVE Made' /\ Creating' /\ Refusals' /\ Failures'
  <2>1. UNCHANGED <<maker, answers>> /\ Fails(r) /\ Reason(r.msg)' /\ r.msg \in Messages
    BY <1>18, RequestFields DEF GivesUp, Hurts, Reason, receiverVars
  <2> QED BY <1>7, <1>8, <1>9, <1>16, <2>1
<1>19. ASSUME UNCHANGED <<maker, answers, wire, phase>> PROVE Made' /\ Creating' /\ Refusals' /\ Failures'
  <2>1. Failures'
    BY <1>1, <1>2, <1>19 DEF Failures
  <2> QED BY <1>7, <1>8, <1>9, <1>19, <2>1
<1> QED BY <1>6, <1>10, <1>11, <1>12, <1>13, <1>14, <1>15, <1>17, <1>18, <1>19 DEF Next, Sends, SessionEnds, vars

LEMMA LeakStep ==
  TypeOK /\ CallsInv /\ OwnInv /\ StoredInv /\ ReasonInv /\ LeakInv /\ [Next]_vars => LeakInv'
<1> SUFFICES ASSUME TypeOK, CallsInv, OwnInv, StoredInv, ReasonInv, LeakInv, [Next]_vars PROVE LeakInv'
  OBVIOUS
<1> DEFINE Late == \A r \in wire : r.op = "create" /\ phase[r.msg] = "failed" => r.msg \in hurt
           Gone(a) == a.op = "remove" \/ (a.op = "create" /\ ~a.ok) \/ (a.op = "process" /\ a.ok)
           Freed == \A a \in answers : Gone(a) => ~Owns(a.msg)
           Unread == \A a \in answers : a.op = "process" /\ ~a.ok => AllStored(a.msg) /\ Key[a.msg] \in ended
           Done == \A m \in Messages : Owns(m) => phase[m] # "done"
           Excused(m) == m \in hurt \/ (AllStored(m) /\ Key[m] \in ended)
           Left == \A m \in Messages : Owns(m) /\ phase[m] = "failed" => Excused(m)
<1>1. Late /\ Freed /\ Unread /\ Done /\ Left
  BY DEF LeakInv
<1>2. \A m \in Messages : AllStored(m) => AllStored(m)'
  BY Onward
<1>3. ended \subseteq ended' /\ hurt \subseteq hurt'
  BY Onward
<1>4. \A m \in Messages : Excused(m) => Excused(m)'
  BY <1>2, <1>3
<1>5. \A a \in answers : a.msg \in Messages /\ a.op \in {"create", "set", "remove", "process"} /\ a.ok \in BOOLEAN
  BY AnswerFields
<1>6. \A r \in wire : r.msg \in Messages
  BY WireFields
<1>7. maker \in [Keys -> Messages \cup {NoMessage}] /\ Key \in [Messages -> Keys] /\ NoMessage \notin Messages
  BY KeysAssumption, MessagesAssumption DEF TypeOK
<1>8. Late' /\ Freed' /\ Unread' /\ Done' /\ Left' => LeakInv'
  BY DEF LeakInv
<1> HIDE DEF Late, Freed, Unread, Done, Left, Excused
\* A step that gives no answer and makes no entry.
<1>9. ASSUME answers' \subseteq answers, UNCHANGED maker PROVE Freed' /\ Unread'
  <2>1. Freed'
    BY <1>1, <1>9 DEF Freed, Owns
  <2>2. Unread'
    BY <1>1, <1>2, <1>3, <1>5, <1>9 DEF Unread
  <2> QED BY <2>1, <2>2
\* The phase of m changes, which says all about the others.
<1>10. ASSUME NEW m \in Messages, NEW p, phase' = [phase EXCEPT ![m] = p], UNCHANGED maker,
              p = "done" => ~Owns(m), p = "failed" => (Owns(m) => Excused(m)')
       PROVE  Done' /\ Left'
  <2>1. \A n \in Messages : Owns(n)' <=> Owns(n)
    BY <1>10 DEF Owns
  <2>2. \A n \in Messages : phase'[n] = IF n = m THEN p ELSE phase[n]
    BY <1>10 DEF TypeOK
  <2>3. Done'
    BY <1>1, <1>10, <2>1, <2>2 DEF Done
  <2>4. Left'
    BY <1>1, <1>4, <1>10, <2>1, <2>2 DEF Left
  <2> QED BY <2>3, <2>4
<1>11. ASSUME UNCHANGED <<phase, maker>> PROVE Done' /\ Left'
  <2>1. \A n \in Messages : Owns(n)' <=> Owns(n)
    BY <1>11 DEF Owns
  <2> QED BY <1>1, <1>4, <1>11, <2>1 DEF Done, Left
<1>12. ASSUME UNCHANGED phase, wire' \subseteq wire PROVE Late'
  BY <1>1, <1>3, <1>12 DEF Late
<1>13. ASSUME NEW m \in Messages, Begins(m) PROVE Late' /\ Freed' /\ Unread' /\ Done' /\ Left'
  <2>1. UNCHANGED <<maker, answers>> /\ wire' = wire \cup {Request("create", m, 0)} /\ phase' = [phase EXCEPT ![m] = "creating"]
    BY <1>13 DEF Begins, Calls, GoesTo, receiverVars
  <2>2. Late'
    BY <1>1, <1>3, <1>6, <2>1 DEF Late, Request, TypeOK
  <2> QED BY <1>9, <1>10, <2>1, <2>2
<1>14. ASSUME NEW m \in Messages, SendsChunk(m) PROVE Late' /\ Freed' /\ Unread' /\ Done' /\ Left'
  <2>1. UNCHANGED <<phase, maker, answers>> /\ \E i : wire' = wire \cup {Request("set", m, i)}
    BY <1>14 DEF SendsChunk, Calls, receiverVars
  <2>2. Late'
    BY <1>1, <1>3, <1>6, <2>1 DEF Late, Request
  <2> QED BY <1>9, <1>11, <2>1, <2>2
<1>15. ASSUME NEW m \in Messages, AsksToProcess(m) PROVE Late' /\ Freed' /\ Unread' /\ Done' /\ Left'
  <2>1. /\ UNCHANGED <<maker, answers>> /\ wire' = wire \cup {Request("process", m, 0)}
        /\ phase' = [phase EXCEPT ![m] = "processing"]
    BY <1>15 DEF AsksToProcess, GoesTo, Calls, receiverVars
  <2>2. Late'
    BY <1>1, <1>3, <1>6, <2>1 DEF Late, Request, TypeOK
  <2> QED BY <1>9, <1>10, <2>1, <2>2
<1>16. ASSUME NEW m \in Messages, Cancelled(m) PROVE Late' /\ Freed' /\ Unread' /\ Done' /\ Left'
  <2>1. UNCHANGED <<maker, answers, wire>> /\ m \in hurt' /\ phase' = [phase EXCEPT ![m] = "failed"]
    BY <1>16 DEF Cancelled, Hurts, GoesTo, receiverVars
  <2>2. Late'
    BY <1>1, <1>3, <1>6, <2>1 DEF Late, TypeOK
  <2>3. Excused(m)'
    BY <2>1 DEF Excused
  <2> QED BY <1>9, <1>10, <2>1, <2>2, <2>3
<1>17. ASSUME NEW r \in wire, LosesRequest(r) PROVE Late' /\ Freed' /\ Unread' /\ Done' /\ Left'
  <2>1. UNCHANGED <<maker, answers, phase>> /\ wire' = wire \ {r}
    BY <1>17 DEF LosesRequest, receiverVars
  <2> QED BY <1>9, <1>11, <1>12, <2>1
<1>18. ASSUME NEW a \in answers, LosesAnswer(a) PROVE Late' /\ Freed' /\ Unread' /\ Done' /\ Left'
  <2>1. UNCHANGED <<maker, wire, phase>> /\ answers' = answers \ {a}
    BY <1>18 DEF LosesAnswer, receiverVars
  <2> QED BY <1>9, <1>11, <1>12, <2>1
<1>19. ASSUME NEW r, r.msg \in Messages, r.op \in {"create", "set", "remove", "process"}, Fails(r), UNCHANGED <<maker, answers>>,
              r.op # "set" => (Owns(r.msg) => Excused(r.msg)'),
              r.op = "create" => r.msg \in hurt' \/ \A q \in wire : q.msg # r.msg,
              r.op # "create" => \A q \in wire : q.op = "create" => q.msg # r.msg
       PROVE  Late' /\ Done' /\ Left'
  <2>1. CASE r.op = "set"
    <3>1. phase' = [phase EXCEPT ![r.msg] = "removing"] /\ wire' = wire \cup {Request("remove", r.msg, 0)}
      BY <1>19, <2>1 DEF Fails, GoesTo, Calls
    <3>2. Late'
      BY <1>1, <1>3, <1>6, <1>19, <3>1 DEF Late, Request, TypeOK
    <3> QED BY <1>10, <1>19, <3>1, <3>2
  <2>2. CASE r.op # "set"
    <3>1. phase' = [phase EXCEPT ![r.msg] = "failed"] /\ wire' = wire
      BY <1>19, <2>2 DEF Fails, GoesTo
    <3>2. Late'
      BY <1>1, <1>3, <1>6, <1>19, <3>1 DEF Late, TypeOK
    <3> QED BY <1>10, <1>19, <2>2, <3>1, <3>2
  <2> QED BY <2>1, <2>2

<1>20. ASSUME NEW r \in Requests, GivesUp(r) PROVE Late' /\ Freed' /\ Unread' /\ Done' /\ Left'
  <2>1. /\ UNCHANGED <<maker, answers>> /\ Fails(r) /\ r.msg \in hurt' /\ r.msg \in Messages
        /\ r.op \in {"create", "set", "remove", "process"} /\ Awaited(r)
    BY <1>20, RequestFields DEF GivesUp, Hurts, receiverVars
  <2>2. Excused(r.msg)'
    BY <2>1 DEF Excused
  <2>3. r.op # "create" => phase[r.msg] \in {"sending", "removing", "processing"}
    BY <2>1 DEF Awaited
  <2>4. r.op # "create" => \A q \in wire : q.op = "create" => q.msg # r.msg
    BY <2>3 DEF CallsInv
  <2>5. Late' /\ Done' /\ Left'
    BY <1>19, <2>1, <2>2, <2>4
  <2> QED BY <1>9, <2>1, <2>5
<1>21. ASSUME NEW a \in answers, Answered(a) PROVE Late' /\ Freed' /\ Unread' /\ Done' /\ Left'
  <2>1. UNCHANGED maker /\ answers' = answers \ {a} /\ a.msg \in Messages
        /\ a.op \in {"create", "set", "remove", "process"}
    BY <1>5, <1>21 DEF Answered, receiverVars
  <2>2. Freed' /\ Unread'
    BY <1>9, <2>1
  <2>3. CASE ~Awaited(a)
    <3>1. UNCHANGED <<phase, wire>>
      BY <1>21, <2>3 DEF Answered
    <3> QED BY <1>11, <1>12, <2>1, <2>2, <3>1
  <2>4. CASE Awaited(a) /\ ~a.ok
    <3>1. /\ a.op = "set" => phase' = [phase EXCEPT ![a.msg] = "removing"]
                            /\ wire' = wire \cup {Request("remove", a.msg, 0)}
          /\ a.op # "set" => phase' = [phase EXCEPT ![a.msg] = "failed"] /\ wire' = wire
      BY <1>21, <2>4 DEF Answered, Fails, GoesTo, Calls
    <3>2. Gone(a) => ~Owns(a.msg)
      BY <1>1 DEF Freed
    <3>3. a.op = "process" => Excused(a.msg)'
      BY <1>1, <1>4, <2>1, <2>4 DEF Unread, Excused
    <3>4. a.op # "set" => (Owns(a.msg) => Excused(a.msg)')
      BY <2>1, <2>4, <3>2, <3>3
    <3>5. phase[a.msg] \in {"creating", "sending", "removing", "processing"}
          /\ (a.op = "create" => phase[a.msg] = "creating") /\ (phase[a.msg] = "creating" => a.op = "create")
      BY <2>1, <2>4 DEF Awaited
    <3>6. \A q \in wire : q.op = "create" => q.msg # a.msg
      BY <2>1, <3>5 DEF CallsInv
    <3>7. Late'
      BY <1>1, <1>3, <1>6, <2>1, <3>1, <3>6 DEF Late, Request, TypeOK
    <3>8. Done' /\ Left'
      <4>1. CASE a.op = "set"
        BY <1>10, <2>1, <3>1, <4>1
      <4>2. CASE a.op # "set"
        BY <1>10, <2>1, <3>1, <3>4, <4>2
      <4> QED BY <4>1, <4>2
    <3> QED BY <2>2, <3>7, <3>8
  <2>5. CASE Awaited(a) /\ a.ok
    <3>1. UNCHANGED wire /\ Succeeds(a)
      BY <1>21, <2>5 DEF Answered, Succeeds
    <3>2. CASE a.op = "set"
      <4>1. UNCHANGED phase
        BY <3>1, <3>2 DEF Succeeds
      <4> QED BY <1>11, <1>12, <2>1, <2>2, <3>1, <4>1
    <3>3. CASE a.op # "set"
      <4>1. PICK p \in {"sending", "failed", "done"} :
              /\ phase' = [phase EXCEPT ![a.msg] = p]
              /\ p = "failed" => a.op = "remove"
              /\ p = "done" => a.op = "process"
              /\ p = "sending" <=> a.op = "create"
        BY <2>1, <3>1, <3>3 DEF Succeeds, GoesTo
      <4>2. p # "sending" => ~Owns(a.msg)
        BY <1>1, <2>1, <2>5, <3>3, <4>1 DEF Freed
      <4>3. Done' /\ Left'
        BY <1>10, <2>1, <4>1, <4>2
      <4>4. phase[a.msg] \in {"creating", "removing", "processing"} /\ (a.op # "create" => phase[a.msg] # "creating")
        BY <2>1, <2>5, <3>3 DEF Awaited
      <4>5. p = "failed" => \A q \in wire : q.op = "create" => q.msg # a.msg
        BY <4>1, <4>4 DEF CallsInv
      <4>6. Late'
        BY <1>1, <1>3, <1>6, <2>1, <3>1, <4>1, <4>5 DEF Late, TypeOK
      <4> QED BY <2>2, <4>3, <4>6
    <3> QED BY <3>2, <3>3
  <2> QED BY <2>3, <2>4, <2>5
<1>22. ASSUME NEW r \in wire, Handled(r) PROVE Late' /\ Freed' /\ Unread' /\ Done' /\ Left'
  <2>1. PICK ans : /\ answers' = answers \cup {ans}
                   /\ ans.op = r.op /\ ans.msg = r.msg /\ ans.idx = r.idx /\ ans.ok = Accepts(r)
    BY <1>22, AnswerGiven
  <2>2. wire' = wire \ {r} /\ UNCHANGED <<phase, chunk, ended, hurt>>
    BY <1>22 DEF Handled
  <2>3. r.msg \in Messages /\ Key[r.msg] \in Keys /\ r.op \in {"create", "set", "remove", "process"}
    BY <1>7, WireFields
  <2>4. Late'
    BY <1>12, <2>2
  <2>5. ~Accepts(r) => r.op # "remove" /\ (r.op = "create" => ~Owns(r.msg))
                       /\ (r.op = "process" => AllStored(r.msg) /\ Key[r.msg] \in ended)
    BY Refused
  <2>6. Unread'
    BY <1>1, <1>2, <1>3, <1>5, <2>1, <2>3, <2>5 DEF Unread
  <2>7. CASE ~(Accepts(r) /\ r.op # "set")
    <3>1. UNCHANGED maker
      BY <1>22, <2>7 DEF Handled, Does, Set
    <3>2. \A m \in Messages : Owns(m)' <=> Owns(m)
      BY <3>1 DEF Owns
    <3>3. Gone(ans) => ~Owns(ans.msg)
      BY <2>1, <2>5, <2>7
    <3>4. Freed'
      BY <1>1, <1>5, <2>1, <2>3, <3>2, <3>3 DEF Freed
    <3> QED BY <1>11, <2>2, <2>4, <2>6, <3>1, <3>4
  <2>8. CASE Accepts(r) /\ r.op = "create"
    <3>1. maker' = [maker EXCEPT ![Key[r.msg]] = r.msg] /\ maker[Key[r.msg]] = NoMessage
      BY <1>22, <2>8, CreateHandled
    <3>2. \A m \in Messages : Owns(m)' => m = r.msg \/ Owns(m)
      BY <1>7, <2>3, <3>1 DEF Owns
    <3>3. phase[r.msg] \in {"creating", "failed"} /\ \A a \in answers : a.msg # r.msg
      BY <2>8 DEF CallsInv
    <3>4. ~Gone(ans)
      BY <2>1, <2>8
    <3>5. Freed'
      BY <1>1, <1>5, <2>1, <3>2, <3>3, <3>4 DEF Freed
    <3>6. phase[r.msg] = "failed" => r.msg \in hurt
      BY <1>1, <2>8 DEF Late
    <3>7. Done'
      BY <1>1, <2>2, <3>2, <3>3 DEF Done
    <3>8. Left'
      BY <1>1, <1>4, <2>2, <3>2, <3>6 DEF Left, Excused
    <3> QED BY <2>4, <2>6, <3>5, <3>7, <3>8
  <2>9. CASE Accepts(r) /\ r.op \in {"remove", "process"}
    <3>1. maker' = [maker EXCEPT ![Key[r.msg]] = NoMessage]
      BY <1>22, <2>9, RemoveHandled
    <3>2. \A m \in Messages : Owns(m)' => m # r.msg /\ Owns(m)
      BY <1>7, <2>3, <3>1 DEF Owns
    <3>3. Freed'
      BY <1>1, <1>5, <2>1, <2>3, <3>2 DEF Freed
    <3>4. Done' /\ Left'
      BY <1>1, <1>4, <2>2, <3>2 DEF Done, Left
    <3> QED BY <2>4, <2>6, <3>3, <3>4
  <2> QED BY <2>3, <2>7, <2>8, <2>9
<1>23. ASSUME UNCHANGED <<maker, answers, wire, phase>> PROVE Late' /\ Freed' /\ Unread' /\ Done' /\ Left'
  BY <1>9, <1>11, <1>12, <1>23
<1> QED BY <1>8, <1>13, <1>14, <1>15, <1>16, <1>17, <1>18, <1>20, <1>21, <1>22, <1>23 DEF Next, Sends, SessionEnds, vars

LEMMA ReasonsInvariance == Spec => [](ReasonInv /\ FailsForAReason /\ LeakInv)
<1>1. Init => ReasonInv /\ FailsForAReason /\ LeakInv
  BY MessagesAssumption, KeysAssumption DEF Init, ReasonInv, FailsForAReason, LeakInv, Owns
<1>2. ASSUME IInv, ReasonInv, FailsForAReason, LeakInv, [Next]_vars PROVE ReasonInv' /\ FailsForAReason' /\ LeakInv'
  BY <1>2, ReasonStep, LeakStep DEF IInv
<1> QED BY <1>1, <1>2, Invariance, PTL DEF Spec

\* No transfer fails without a reason: a fault, a session that has ended, or another
\* message that has begun and wants the same entry.
THEOREM FailureJustified == Spec => []FailsForAReason
BY ReasonsInvariance, PTL

\* What a transfer that has ended leaves in the cache is due to a fault, or to a
\* session that ended when all chunks were there.
THEOREM LeaksExplained == Spec => []OnlyFaultsLeak
<1>1. LeakInv => OnlyFaultsLeak
  BY DEF LeakInv, OnlyFaultsLeak, Quiet, Owns
<1> QED BY <1>1, ReasonsInvariance, PTL

-----------------------------------------------------------------------------
(* What remains to be done *)

\* The stages that a transfer in phase p may still go through.
Left(p) == CASE p = "idle" -> 4 [] p = "creating" -> 3 [] p = "sending" -> 2
             [] p \in {"removing", "processing"} -> 1 [] OTHER -> 0

Ahead == {e \in Messages \X (1..4) : e[2] <= Left(phase[e[1]])}
Unsent == {e \in Messages \X Index : chunk[e[1]][e[2]] = "waiting"}

\* A stage or a chunk may take a request and an answer.
Remaining == 3 * Cardinality(Ahead) + 3 * Cardinality(Unsent) + 2 * Cardinality(wire) + Cardinality(answers)

LessRemains == Remaining' \in Nat /\ Remaining' < Remaining

\* Every step, faults included, leaves less to do, but for the end of a session, which
\* has nothing to do with the transfers.
TransfersShrink == [][LessRemains \/ \E k \in Sessions : SessionEnds(k) /\ Remaining' = Remaining]_vars

FiniteNet == IsFiniteSet(wire) /\ IsFiniteSet(answers)

\* All of it is counted in natural numbers.
LEMMA FiniteCounts ==
  ASSUME TypeOK, FiniteNet
  PROVE  /\ IsFiniteSet(Ahead) /\ Cardinality(Ahead) \in Nat
         /\ IsFiniteSet(Unsent) /\ Cardinality(Unsent) \in Nat
         /\ Cardinality(wire) \in Nat /\ Cardinality(answers) \in Nat
<1>1. IsFiniteSet(1..4) /\ IsFiniteSet(Index)
  <2>1. 1 \in Int /\ 4 \in Int /\ Chunks \in Int
    BY NumbersAssumption DEF NumbersAssumption
  <2> QED BY <2>1, FS_Interval DEF Index
<1>2. IsFiniteSet(Messages \X (1..4)) /\ IsFiniteSet(Messages \X Index)
  BY <1>1, FS_Product, MessagesAssumption DEF MessagesAssumption
<1>3. Ahead \in SUBSET (Messages \X (1..4)) /\ Unsent \in SUBSET (Messages \X Index)
  BY DEF Ahead, Unsent
<1>4. IsFiniteSet(Ahead) /\ IsFiniteSet(Unsent)
  BY <1>2, <1>3, FS_Subset
<1> QED BY <1>4, FS_CardinalityType DEF FiniteNet

\* There are four stages at most.
LEMMA LeftCounts == \A p : Left(p) \in 0..4
BY DEF Left

\* A transfer that goes to a later stage leaves one behind.
LEMMA StageBehind ==
  ASSUME TypeOK, FiniteNet, NEW m \in Messages, NEW p, Left(p) < Left(phase[m]), phase' = [phase EXCEPT ![m] = p]
  PROVE  Cardinality(Ahead') \in Nat /\ Cardinality(Ahead') <= Cardinality(Ahead) - 1
<1> DEFINE e == <<m, Left(phase[m])>>
<1>1. Left(phase[m]) \in 1..4 /\ Left(p) \in 0..4
  BY LeftCounts
<1>2. e \in Ahead
  BY <1>1 DEF Ahead
<1>3. \A n \in Messages : phase'[n] = IF n = m THEN p ELSE phase[n]
  BY DEF TypeOK
<1>4. Ahead' \in SUBSET (Ahead \ {e})
  <2> SUFFICES ASSUME NEW d \in Messages \X (1..4), d[2] <= Left(phase'[d[1]]) PROVE d \in Ahead /\ d # e
    BY DEF Ahead
  <2>1. d[1] \in Messages /\ d[2] \in 1..4
    OBVIOUS
  <2>2. CASE d[1] = m
    BY <1>1, <1>3, <2>1, <2>2 DEF Ahead
  <2>3. CASE d[1] # m
    BY <1>3, <2>1, <2>3 DEF Ahead
  <2> QED BY <2>2, <2>3
<1>5. IsFiniteSet(Ahead \ {e}) /\ Cardinality(Ahead \ {e}) = Cardinality(Ahead) - 1
  BY <1>2, FiniteCounts, FS_RemoveElement
<1>6. IsFiniteSet(Ahead') /\ Cardinality(Ahead') <= Cardinality(Ahead \ {e})
  BY <1>4, <1>5, FS_Subset
<1> QED BY <1>5, <1>6, FS_CardinalityType, FiniteCounts

\* A chunk that is sent is not waiting any more.
LEMMA ChunkBehind ==
  ASSUME TypeOK, FiniteNet, NEW m \in Messages, NEW i \in Index, NEW s, s # "waiting",
         chunk' = [chunk EXCEPT ![m][i] = s]
  PROVE  /\ Cardinality(Unsent') \in Nat
         /\ Cardinality(Unsent') = IF chunk[m][i] = "waiting" THEN Cardinality(Unsent) - 1 ELSE Cardinality(Unsent)
<1>1. \A n \in Messages, j \in Index : chunk'[n][j] = IF n = m /\ j = i THEN s ELSE chunk[n][j]
  BY DEF TypeOK
<1>2. Unsent' = Unsent \ {<<m, i>>}
  BY <1>1 DEF Unsent
<1>3. <<m, i>> \in Unsent <=> chunk[m][i] = "waiting"
  BY DEF Unsent
<1>4. /\ IsFiniteSet(Unsent \ {<<m, i>>})
      /\ Cardinality(Unsent \ {<<m, i>>}) = IF <<m, i>> \in Unsent THEN Cardinality(Unsent) - 1 ELSE Cardinality(Unsent)
  BY FiniteCounts, FS_RemoveElement
<1> QED BY <1>2, <1>3, <1>4, FS_CardinalityType

\* A request is put on the wire, an answer taken from it.
LEMMA OneMore ==
  ASSUME NEW S, IsFiniteSet(S), NEW x
  PROVE  /\ IsFiniteSet(S \cup {x})
         /\ Cardinality(S) \in Nat /\ Cardinality(S \cup {x}) \in Nat
         /\ Cardinality(S \cup {x}) <= Cardinality(S) + 1
BY FS_AddElement, FS_CardinalityType

LEMMA OneLess ==
  ASSUME NEW S, IsFiniteSet(S), NEW x \in S
  PROVE  /\ IsFiniteSet(S \ {x})
         /\ Cardinality(S) \in Nat /\ Cardinality(S \ {x}) \in Nat
         /\ Cardinality(S \ {x}) = Cardinality(S) - 1
BY FS_RemoveElement, FS_CardinalityType

\* How a step changes the counts, and what that makes of the sum.
LEMMA Sums ==
  ASSUME NEW a \in Nat, NEW u \in Nat, NEW w \in Nat, NEW s \in Nat,
         NEW a2 \in Nat, NEW u2 \in Nat, NEW w2 \in Nat, NEW s2 \in Nat,
         \/ a2 <= a - 1 /\ u2 = u /\ w2 <= w + 1 /\ s2 <= s
         \/ a2 = a /\ u2 = u - 1 /\ w2 <= w + 1 /\ s2 = s
         \/ a2 = a /\ u2 = u /\ w2 = w - 1 /\ s2 <= s + 1
         \/ a2 = a /\ u2 <= u /\ w2 = w /\ s2 = s - 1
  PROVE  /\ 3 * a2 + 3 * u2 + 2 * w2 + s2 \in Nat
         /\ 3 * a2 + 3 * u2 + 2 * w2 + s2 < 3 * a + 3 * u + 2 * w + s
OBVIOUS

\* A step to a later stage may send one request.
LEMMA StageShrinks ==
  ASSUME TypeOK, FiniteNet, NEW m \in Messages, NEW p, Left(p) < Left(phase[m]), phase' = [phase EXCEPT ![m] = p],
         chunk' = chunk, answers' = answers \/ \E a \in answers : answers' = answers \ {a},
         wire' = wire \/ \E q : wire' = wire \cup {q}
  PROVE  LessRemains /\ FiniteNet'
<1>1. Cardinality(Ahead') \in Nat /\ Cardinality(Ahead') <= Cardinality(Ahead) - 1
  BY StageBehind
<1>2. Unsent' = Unsent
  BY DEF Unsent
<1>3. IsFiniteSet(wire') /\ Cardinality(wire') \in Nat /\ Cardinality(wire') <= Cardinality(wire) + 1
  BY OneMore, FiniteCounts DEF FiniteNet
<1>4. IsFiniteSet(answers') /\ Cardinality(answers') \in Nat /\ Cardinality(answers') <= Cardinality(answers)
  BY OneLess, FiniteCounts DEF FiniteNet
<1> QED BY <1>1, <1>2, <1>3, <1>4, FiniteCounts, Sums DEF LessRemains, Remaining, FiniteNet

\* No step but the end of a session leaves as much to do as before.
LEMMA ShrinkStep == TypeOK /\ CallsInv /\ FiniteNet /\ [Next]_vars =>
  /\ FiniteNet'
  /\ LessRemains \/ (\E k \in Sessions : SessionEnds(k) /\ Remaining' = Remaining) \/ UNCHANGED vars
<1> SUFFICES ASSUME TypeOK, CallsInv, FiniteNet, [Next]_vars
             PROVE  /\ FiniteNet'
                    /\ LessRemains \/ (\E k \in Sessions : SessionEnds(k) /\ Remaining' = Remaining) \/ UNCHANGED vars
  OBVIOUS
<1>1. ASSUME NEW m \in Messages, Begins(m) PROVE LessRemains /\ FiniteNet'
  <2>1. phase' = [phase EXCEPT ![m] = "creating"] /\ Left("creating") < Left(phase[m])
    BY <1>1 DEF Begins, GoesTo, Left
  <2> QED BY <1>1, <2>1, StageShrinks DEF Begins, Calls
<1>2. ASSUME NEW m \in Messages, SendsChunk(m) PROVE LessRemains /\ FiniteNet'
  <2>1. PICK i \in Index : chunk[m][i] = "waiting" /\ chunk' = [chunk EXCEPT ![m][i] = "asked"]
                           /\ wire' = wire \cup {Request("set", m, i)}
    BY <1>2 DEF SendsChunk, Calls
  <2>2. Cardinality(Unsent') \in Nat /\ Cardinality(Unsent') = Cardinality(Unsent) - 1
    BY <2>1, ChunkBehind
  <2>3. Ahead' = Ahead /\ answers' = answers
    BY <1>2 DEF SendsChunk, Ahead
  <2>4. IsFiniteSet(wire') /\ Cardinality(wire') \in Nat /\ Cardinality(wire') <= Cardinality(wire) + 1
    BY <2>1, OneMore DEF FiniteNet
  <2> QED BY <2>2, <2>3, <2>4, FiniteCounts, Sums DEF LessRemains, Remaining, FiniteNet
<1>3. ASSUME NEW m \in Messages, AsksToProcess(m) PROVE LessRemains /\ FiniteNet'
  <2>1. phase' = [phase EXCEPT ![m] = "processing"] /\ Left("processing") < Left(phase[m])
    BY <1>3 DEF AsksToProcess, GoesTo, Left
  <2> QED BY <1>3, <2>1, StageShrinks DEF AsksToProcess, Calls
<1>4. ASSUME NEW m \in Messages, Cancelled(m) PROVE LessRemains /\ FiniteNet'
  <2>1. phase' = [phase EXCEPT ![m] = "failed"] /\ Left("failed") < Left(phase[m])
    BY <1>4 DEF Cancelled, GoesTo, Left, TypeOK
  <2> QED BY <1>4, <2>1, StageShrinks DEF Cancelled
<1>5. ASSUME NEW r \in wire, Handled(r) PROVE LessRemains /\ FiniteNet'
  <2>1. wire' = wire \ {r} /\ answers' = answers \cup {Answer(r, Accepts(r))} /\ UNCHANGED <<phase, chunk>>
    BY <1>5 DEF Handled
  <2>2. Ahead' = Ahead /\ Unsent' = Unsent
    BY <2>1 DEF Ahead, Unsent
  <2>3. IsFiniteSet(wire') /\ Cardinality(wire') \in Nat /\ Cardinality(wire') = Cardinality(wire) - 1
    BY <2>1, OneLess DEF FiniteNet
  <2>4. IsFiniteSet(answers') /\ Cardinality(answers') \in Nat /\ Cardinality(answers') <= Cardinality(answers) + 1
    BY <2>1, OneMore DEF FiniteNet
  <2> QED BY <2>2, <2>3, <2>4, FiniteCounts, Sums DEF LessRemains, Remaining, FiniteNet
<1>6. ASSUME NEW r \in wire, LosesRequest(r) PROVE LessRemains /\ FiniteNet'
  <2>1. wire' = wire \ {r} /\ UNCHANGED <<answers, phase, chunk>>
    BY <1>6 DEF LosesRequest
  <2>2. Ahead' = Ahead /\ Unsent' = Unsent
    BY <2>1 DEF Ahead, Unsent
  <2>3. IsFiniteSet(wire') /\ Cardinality(wire') \in Nat /\ Cardinality(wire') = Cardinality(wire) - 1
    BY <2>1, OneLess DEF FiniteNet
  <2> QED BY <2>1, <2>2, <2>3, FiniteCounts, Sums DEF LessRemains, Remaining, FiniteNet
\* An answer that changes nothing but a chunk, if at all.
<1>7. ASSUME NEW a \in answers, answers' = answers \ {a}, UNCHANGED <<phase, wire>>,
             chunk' = chunk \/ \E m \in Messages, i \in Index : chunk' = [chunk EXCEPT ![m][i] = "stored"]
      PROVE  LessRemains /\ FiniteNet'
  <2>1. Ahead' = Ahead
    BY <1>7 DEF Ahead
  <2>2. Cardinality(Unsent') \in Nat /\ Cardinality(Unsent') <= Cardinality(Unsent)
    <3>1. CASE chunk' = chunk
      <4>1. Unsent' = Unsent
        BY <3>1 DEF Unsent
      <4> QED BY <4>1, FiniteCounts
    <3>2. ASSUME NEW m \in Messages, NEW i \in Index, chunk' = [chunk EXCEPT ![m][i] = "stored"]
          PROVE  Cardinality(Unsent') \in Nat /\ Cardinality(Unsent') <= Cardinality(Unsent)
      <4>1. /\ Cardinality(Unsent') \in Nat /\ Cardinality(Unsent) \in Nat
            /\ Cardinality(Unsent') = IF chunk[m][i] = "waiting" THEN Cardinality(Unsent) - 1 ELSE Cardinality(Unsent)
        BY <3>2, "stored" # "waiting", ChunkBehind, FiniteCounts
      <4>2. CASE chunk[m][i] = "waiting"
        BY <4>1, <4>2
      <4>3. CASE chunk[m][i] # "waiting"
        BY <4>1, <4>3
      <4> QED BY <4>2, <4>3
    <3> QED BY <1>7, <3>1, <3>2
  <2>3. IsFiniteSet(answers') /\ Cardinality(answers') \in Nat /\ Cardinality(answers') = Cardinality(answers) - 1
    BY <1>7, OneLess DEF FiniteNet
  <2>4. wire' = wire /\ FiniteNet'
    BY <1>7, <2>3 DEF FiniteNet
  <2> QED BY <2>1, <2>2, <2>3, <2>4, FiniteCounts, Sums DEF LessRemains, Remaining
<1>8. ASSUME NEW a \in answers, LosesAnswer(a) PROVE LessRemains /\ FiniteNet'
  BY <1>7, <1>8 DEF LosesAnswer
<1>9. ASSUME NEW a \in answers, Answered(a), ~Awaited(a) PROVE LessRemains /\ FiniteNet'
  BY <1>7, <1>9 DEF Answered
<1>10. ASSUME NEW a \in answers, Answered(a), Awaited(a), a.ok PROVE LessRemains /\ FiniteNet'
  <2>1. a.msg \in Messages /\ (a.op = "set" => a.idx \in Index)
    BY AnswerFields
  <2>2. CASE a.op = "set"
    BY <1>7, <1>10, <2>1, <2>2 DEF Answered, Succeeds
  <2>3. CASE a.op # "set"
    <3>1. PICK p : phase' = [phase EXCEPT ![a.msg] = p] /\ Left(p) < Left(phase[a.msg])
      BY <1>10, <2>3, AnswerFields DEF Answered, Awaited, Succeeds, GoesTo, Left
    <3>2. UNCHANGED <<chunk, wire>> /\ answers' = answers \ {a}
      BY <1>10, <2>3 DEF Answered, Succeeds
    <3> QED BY <2>1, <3>1, <3>2, StageShrinks
  <2> QED BY <2>2, <2>3
<1>11. ASSUME NEW r, r.msg \in Messages, r.op \in {"create", "set", "remove", "process"}, Awaited(r), Fails(r),
              chunk' = chunk, answers' = answers \/ \E a \in answers : answers' = answers \ {a}
       PROVE  LessRemains /\ FiniteNet'
  <2>1. PICK p : phase' = [phase EXCEPT ![r.msg] = p] /\ Left(p) < Left(phase[r.msg])
    BY <1>11 DEF Awaited, Fails, GoesTo, Left
  <2>2. wire' = wire \/ \E q : wire' = wire \cup {q}
    BY <1>11 DEF Fails, Calls
  <2> QED BY <1>11, <2>1, <2>2, StageShrinks
<1>12. ASSUME NEW a \in answers, Answered(a), Awaited(a), ~a.ok PROVE LessRemains /\ FiniteNet'
  BY <1>11, <1>12, AnswerFields DEF Answered
<1>13. ASSUME NEW r \in Requests, GivesUp(r) PROVE LessRemains /\ FiniteNet'
  BY <1>11, <1>13, RequestFields DEF GivesUp
<1>14. ASSUME NEW k \in Sessions, SessionEnds(k) PROVE FiniteNet' /\ Remaining' = Remaining
  BY <1>14 DEF SessionEnds, FiniteNet, Remaining, Ahead, Unsent
<1>15. CASE UNCHANGED vars
  BY <1>15 DEF vars, FiniteNet
<1> QED BY <1>1, <1>2, <1>3, <1>4, <1>5, <1>6, <1>8, <1>9, <1>10, <1>12, <1>13, <1>14, <1>15 DEF Next, Sends

LEMMA NetStaysFinite == Spec => []FiniteNet
<1>1. Init => FiniteNet
  BY FS_EmptySet DEF Init, FiniteNet
<1>2. IInv /\ FiniteNet /\ [Next]_vars => FiniteNet'
  BY ShrinkStep DEF IInv
<1> QED BY <1>1, <1>2, Invariance, PTL DEF Spec

\* Every step of a transfer, with the requests and answers on their way and whatever is lost,
\* leaves less to do than before it.
THEOREM TransfersFinite == Spec => TransfersShrink
<1>1. IInv /\ FiniteNet /\ [Next]_vars =>
        [LessRemains \/ \E k \in Sessions : SessionEnds(k) /\ Remaining' = Remaining]_vars
  BY ShrinkStep DEF IInv
<1> QED BY <1>1, Invariance, NetStaysFinite, PTL DEF Spec, TransfersShrink

-----------------------------------------------------------------------------
(* Who has not ended can go on *)

\* A call that is still awaited is under way, unless a fault has happened to its message.
Accounted == \A r \in Requests : Awaited(r) /\ Lost(r) => r.msg \in hurt
HurtBounded == IsFiniteSet(hurt) /\ Cardinality(hurt) <= MaxHurt

\* What a step that FairSpec is fair to waits for.
Takeable(m) == \E r \in wire : r.msg = m /\ InOrder(r)
Readable(m) == \E a \in answers : a.msg = m
TimesOut(m) == \E r \in Requests : r.msg = m /\ Awaited(r) /\ Lost(r) /\ Cardinality(hurt \cup {m}) <= MaxHurt
Sendable(m) ==
  /\ phase[m] = "sending" /\ Cardinality(Slots(m)) < Limit
  /\ \E i \in Index : chunk[m][i] = "waiting" /\ \A j \in 1..(i - 1) : chunk[m][j] # "waiting"
Complete(m) == phase[m] = "sending" /\ AllStored(m)

CanGoOn(m) == Takeable(m) \/ Readable(m) \/ TimesOut(m) \/ Sendable(m) \/ Complete(m)

\* A transfer that has begun and has not ended never waits for nothing: one of its
\* calls can be taken or answered, the sender can send the next or, if the call is
\* lost, give it up.
NeverStuck == \A m \in Messages : phase[m] \notin {"idle", "done", "failed"} => CanGoOn(m)

\* Who waits for a request waits for its answer.
LEMMA AnswerSame ==
  ASSUME TypeOK, NEW r \in Requests, NEW a \in answers, NEW ok \in BOOLEAN, a = Answer(r, ok)
  PROVE  a.op = r.op /\ a.msg = r.msg /\ a.idx = r.idx /\ (Awaited(a) <=> Awaited(r))
BY DEF Answer, Awaited

\* Who puts a request on the wire and awaits nothing else for its message accounts for it.
LEMMA AccountedStep == TypeOK /\ CallsInv /\ ChunkInv /\ Accounted /\ [Next]_vars => Accounted'
<1> SUFFICES ASSUME TypeOK, CallsInv, ChunkInv, Accounted, [Next]_vars, NEW r \in Requests, Awaited(r)', Lost(r)'
             PROVE  r.msg \in hurt'
  BY DEF Accounted
<1>0. /\ r.msg \in Messages /\ r.op \in {"create", "set", "remove", "process"}
      /\ r.op = "set" => r.idx \in Index
      /\ r.op # "set" => r.idx = 0
      /\ hurt \subseteq hurt'
  BY RequestFields, Onward
<1>1. SUFFICES ASSUME r.msg \notin hurt' PROVE FALSE
  OBVIOUS
<1>2. ~(Awaited(r) /\ Lost(r))
  BY <1>0, <1>1 DEF Accounted
\* Nothing was lost: so r was not awaited.
<1>3. ASSUME wire \subseteq wire', answers \subseteq answers' PROVE ~Awaited(r)
  BY <1>2, <1>3 DEF Lost
<1>4. ASSUME NEW m \in Messages, Begins(m) PROVE FALSE
  <2>1. ~Awaited(r) /\ Request("create", m, 0) \in wire'
    BY <1>3, <1>4 DEF Begins, Calls
  <2>2. r.msg = m /\ r.op = "create"
    BY <1>0, <1>4, <2>1 DEF Begins, GoesTo, Awaited, TypeOK
  <2>3. r = Request("create", m, 0)
    BY <1>0, <2>2 DEF Requests, Request
  <2> QED BY <2>1, <2>3 DEF Lost
<1>5. ASSUME NEW m \in Messages, AsksToProcess(m) PROVE FALSE
  <2>1. ~Awaited(r) /\ Request("process", m, 0) \in wire'
    BY <1>3, <1>5 DEF AsksToProcess, Calls
  <2>2. r.msg = m /\ r.op = "process"
    BY <1>0, <1>5, <2>1 DEF AsksToProcess, GoesTo, Awaited, TypeOK
  <2>3. r = Request("process", m, 0)
    BY <1>0, <2>2 DEF Requests, Request
  <2> QED BY <2>1, <2>3 DEF Lost
<1>6. ASSUME NEW m \in Messages, SendsChunk(m) PROVE FALSE
  <2>1. PICK i \in Index : chunk' = [chunk EXCEPT ![m][i] = "asked"] /\ Request("set", m, i) \in wire'
    BY <1>6 DEF SendsChunk, Calls
  <2>2. ~Awaited(r) /\ phase' = phase
    BY <1>3, <1>6 DEF SendsChunk, Calls
  <2>3. r.msg = m /\ r.op = "set" /\ r.idx = i
    BY <1>0, <2>1, <2>2 DEF Awaited, TypeOK
  <2>4. r = Request("set", m, i)
    BY <1>0, <2>3 DEF Requests, Request
  <2> QED BY <2>1, <2>4 DEF Lost
<1>7. ASSUME NEW m \in Messages, Cancelled(m) PROVE FALSE
  <2>1. ~Awaited(r) /\ m # r.msg
    BY <1>1, <1>3, <1>7 DEF Cancelled, Hurts
  <2> QED BY <1>0, <1>7, <2>1 DEF Cancelled, GoesTo, Awaited, TypeOK
<1>8. ASSUME NEW q \in wire, Handled(q) PROVE FALSE
  <2>1. wire' = wire \ {q} /\ answers' = answers \cup {Answer(q, Accepts(q))} /\ UNCHANGED <<phase, chunk>>
    BY <1>8 DEF Handled
  <2>2. Accepts(q) \in BOOLEAN
    BY DEF Accepts
  <2>3. r # q
    BY <2>1, <2>2 DEF Lost
  <2>4. Lost(r) /\ Awaited(r)
    BY <2>1, <2>3 DEF Lost, Awaited
  <2> QED BY <1>2, <2>4
<1>9. ASSUME NEW q \in wire, LosesRequest(q) PROVE FALSE
  <2>1. wire' = wire \ {q} /\ q.msg \in hurt' /\ UNCHANGED <<answers, phase, chunk>>
    BY <1>9 DEF LosesRequest, Hurts
  <2>2. Lost(r) /\ Awaited(r)
    BY <1>1, <2>1 DEF Lost, Awaited
  <2> QED BY <1>2, <2>2
<1>10. ASSUME NEW a \in answers, LosesAnswer(a) PROVE FALSE
  <2>1. answers' = answers \ {a} /\ a.msg \in hurt' /\ UNCHANGED <<wire, phase, chunk>>
    BY <1>10 DEF LosesAnswer, Hurts
  <2>2. \A ok \in BOOLEAN : a # Answer(r, ok)
    BY <1>1, <2>1, AnswerSame
  <2>3. Lost(r) /\ Awaited(r)
    BY <2>1, <2>2 DEF Lost, Awaited
  <2> QED BY <1>2, <2>3
\* An answer ends the wait for the request it is for, and starts none.
<1>11. ASSUME NEW a \in answers, Answered(a) PROVE FALSE
  <2>0. /\ a.msg \in Messages /\ a.op \in {"create", "set", "remove", "process"} /\ a.ok \in BOOLEAN
        /\ a.op = "set" => a.idx \in Index
        /\ answers' = answers \ {a}
    BY <1>11, AnswerFields DEF Answered
  <2>1. Awaited(r) /\ \A ok \in BOOLEAN : a # Answer(r, ok)
    <3>1. CASE ~Awaited(a)
      <4>1. UNCHANGED <<phase, chunk>>
        BY <1>11, <3>1 DEF Answered
      <4>2. Awaited(r)
        BY <4>1 DEF Awaited
      <4> QED BY <3>1, <4>2, AnswerSame
    <3>2. CASE Awaited(a) /\ a.ok
      <4>1. Succeeds(a)
        BY <1>11, <3>2 DEF Answered
      <4>2. CASE r.msg # a.msg
        <5>1. Awaited(r)
          BY <1>0, <2>0, <4>1, <4>2 DEF Succeeds, GoesTo, Awaited, TypeOK
        <5> QED BY <4>2, <5>1, AnswerSame
      <4>3. CASE r.msg = a.msg
        <5>1. CASE a.op = "create"
          BY <1>0, <2>0, <3>2, <4>1, <4>3, <5>1 DEF Succeeds, GoesTo, Awaited, TypeOK, ChunkInv
        <5>2. CASE a.op = "set"
          <6>1. phase' = phase /\ phase[a.msg] = "sending" /\ chunk' = [chunk EXCEPT ![a.msg][a.idx] = "stored"]
            BY <3>2, <4>1, <5>2 DEF Succeeds, Awaited
          <6>2. r.op = "set" /\ chunk'[a.msg][r.idx] = "asked"
            BY <1>0, <4>3, <6>1 DEF Awaited
          <6>3. r.idx # a.idx /\ chunk[a.msg][r.idx] = "asked"
            BY <1>0, <2>0, <5>2, <6>1, <6>2 DEF TypeOK
          <6>4. Awaited(r)
            BY <4>3, <6>1, <6>2, <6>3 DEF Awaited
          <6> QED BY <6>3, <6>4, AnswerSame
        <5>3. CASE a.op \in {"remove", "process"}
          BY <1>0, <2>0, <3>2, <4>1, <4>3, <5>3 DEF Succeeds, GoesTo, Awaited, TypeOK
        <5> QED BY <2>0, <5>1, <5>2, <5>3
      <4> QED BY <4>2, <4>3
    <3>3. CASE Awaited(a) /\ ~a.ok
      <4>1. Fails(a) /\ chunk' = chunk
        BY <1>11, <3>3 DEF Answered
      <4>2. CASE r.msg # a.msg
        <5>1. Awaited(r)
          BY <1>0, <2>0, <4>1, <4>2 DEF Fails, GoesTo, Awaited, TypeOK
        <5> QED BY <4>2, <5>1, AnswerSame
      <4>3. CASE r.msg = a.msg
        <5>1. a.op = "set" /\ r.op = "remove" /\ Request("remove", a.msg, 0) \in wire'
          BY <1>0, <2>0, <4>1, <4>3 DEF Fails, GoesTo, Calls, Awaited, TypeOK
        <5>2. r = Request("remove", a.msg, 0)
          BY <1>0, <4>3, <5>1 DEF Requests, Request
        <5> QED BY <5>1, <5>2 DEF Lost
      <4> QED BY <4>2, <4>3
    <3> QED BY <2>0, <3>1, <3>2, <3>3
  <2>2. wire \subseteq wire'
    BY <1>11 DEF Answered, Succeeds, Fails, Calls
  <2>3. Lost(r)
    BY <2>0, <2>1, <2>2 DEF Lost
  <2> QED BY <1>2, <2>1, <2>3
<1>12. ASSUME NEW q \in Requests, GivesUp(q) PROVE FALSE
  <2>1. q.msg \in hurt' /\ q.msg \in Messages /\ UNCHANGED <<chunk, answers>> /\ wire \subseteq wire'
    BY <1>12, RequestFields DEF GivesUp, Hurts, Fails, Calls
  <2>2. Awaited(r)
    BY <1>0, <1>1, <1>12, <2>1 DEF GivesUp, Fails, GoesTo, Awaited, TypeOK
  <2> QED BY <1>3, <2>1, <2>2
<1>13. ASSUME NEW k \in Sessions, SessionEnds(k) PROVE FALSE
  BY <1>2, <1>13 DEF SessionEnds, Awaited, Lost
<1>14. CASE UNCHANGED vars
  BY <1>2, <1>14 DEF vars, Awaited, Lost
<1> QED BY <1>4, <1>5, <1>6, <1>7, <1>8, <1>9, <1>10, <1>11, <1>12, <1>13, <1>14 DEF Next, Sends

\* Faults are bounded.
LEMMA HurtStep == TypeOK /\ HurtBounded /\ [Next]_vars => HurtBounded'
<1> SUFFICES ASSUME TypeOK, HurtBounded, [Next]_vars PROVE HurtBounded'
  OBVIOUS
<1>1. ASSUME NEW m, Hurts(m) PROVE HurtBounded'
  BY <1>1, FS_AddElement DEF Hurts, HurtBounded
<1>2. CASE UNCHANGED hurt
  BY <1>2 DEF HurtBounded
<1> QED BY <1>1, <1>2 DEF Next, Sends, Begins, SendsChunk, AsksToProcess, Cancelled, Handled, LosesRequest,
                         Answered, LosesAnswer, GivesUp, SessionEnds, vars

\* The tasks take their turn: the first chunk that waits.
LEMMA FirstWaiting ==
  ASSUME TypeOK, NEW m \in Messages, \E i \in Index : chunk[m][i] = "waiting"
  PROVE  \E i \in Index : chunk[m][i] = "waiting" /\ \A j \in 1..(i - 1) : chunk[m][j] # "waiting"
<1> DEFINE W == {i \in Index : chunk[m][i] = "waiting"}
<1>1. Index \subseteq Nat /\ Chunks \in Nat
  BY NumbersAssumption DEF NumbersAssumption, Index
<1>2. PICK i \in W : \A j \in W : <<j, i>> \notin OpToRel(<, Nat)
  <2>1. W \subseteq Nat /\ W # {}
    BY <1>1
  <2> HIDE DEF W
  <2> QED BY <2>1, NatLessThanWellFounded, WFMin
<1>3. \A j \in W : ~(j < i)
  BY <1>1, <1>2 DEF OpToRel
<1>4. \A j \in 1..(i - 1) : j \in Index /\ j < i
  BY <1>1, NumbersAssumption DEF Index, NumbersAssumption
<1> QED BY <1>3, <1>4

\* Among the requests of a message one is in order.
LEMMA SomeInOrder ==
  ASSUME TypeOK, NEW r \in wire
  PROVE  Takeable(r.msg)
<1>1. CASE \E q \in wire : q.msg = r.msg /\ q.op = "set"
  BY <1>1 DEF Takeable, InOrder
<1>2. CASE ~\E q \in wire : q.msg = r.msg /\ q.op = "set"
  BY <1>2 DEF Takeable, InOrder
<1> QED BY <1>1, <1>2

\* Its answer comes, or the sender gives it up.
LEMMA AwaitedGoesOn ==
  ASSUME TypeOK, Accounted, HurtBounded, NEW r \in Requests, Awaited(r)
  PROVE  CanGoOn(r.msg)
<1>1. CASE r \in wire
  BY <1>1, SomeInOrder DEF CanGoOn
<1>2. CASE \E ok \in BOOLEAN : Answer(r, ok) \in answers
  BY <1>2 DEF CanGoOn, Readable, Answer
<1>3. CASE Lost(r)
  <2>1. hurt \cup {r.msg} = hurt
    BY <1>3 DEF Accounted
  <2> QED BY <1>3, <2>1 DEF CanGoOn, TimesOut, HurtBounded
<1> QED BY <1>1, <1>2, <1>3 DEF Lost

LEMMA GoesOn == TypeOK /\ Accounted /\ HurtBounded => NeverStuck
<1> SUFFICES ASSUME TypeOK, Accounted, HurtBounded, NEW m \in Messages, phase[m] \notin {"idle", "done", "failed"}
             PROVE  CanGoOn(m)
  BY DEF NeverStuck
<1>1. \A r \in Requests : r.msg = m /\ Awaited(r) => CanGoOn(m)
  BY AwaitedGoesOn
<1>2. ASSUME NEW op \in {"create", "remove", "process"}
      PROVE  LET r == Request(op, m, 0) IN r \in Requests /\ r.msg = m /\ r.op = op
  BY RequestTyped DEF Request
<1>3. CASE phase[m] = "creating"
  BY <1>1, <1>2, <1>3 DEF Awaited
<1>4. CASE phase[m] = "removing"
  BY <1>1, <1>2, <1>4 DEF Awaited
<1>5. CASE phase[m] = "processing"
  BY <1>1, <1>2, <1>5 DEF Awaited
<1>6. CASE phase[m] = "sending"
  <2>1. CASE AllStored(m)
    BY <1>6, <2>1 DEF CanGoOn, Complete
  <2>2. ASSUME NEW i \in Index, chunk[m][i] = "asked" PROVE CanGoOn(m)
    <3>1. Request("set", m, i) \in Requests /\ Awaited(Request("set", m, i)) /\ Request("set", m, i).msg = m
      BY <1>6, <2>2, RequestTyped DEF Request, Awaited
    <3> QED BY <1>1, <3>1
  <2>3. CASE \A i \in Index : chunk[m][i] # "asked"
    <3>1. CASE \E i \in Index : chunk[m][i] = "waiting"
      <4>1. Slots(m) = {}
        BY <2>3 DEF Slots, Asked
      <4>2. Cardinality(Slots(m)) < Limit
        BY <4>1, FS_EmptySet, NumbersAssumption DEF NumbersAssumption
      <4> QED BY <1>6, <3>1, <4>2, FirstWaiting DEF CanGoOn, Sendable
    <3>2. CASE \A i \in Index : chunk[m][i] # "waiting"
      <4>1. AllStored(m)
        BY <2>3, <3>2 DEF AllStored, TypeOK
      <4> QED BY <2>1, <4>1
    <3> QED BY <3>1, <3>2
  <2> QED BY <2>2, <2>3
<1> QED BY <1>3, <1>4, <1>5, <1>6 DEF TypeOK

\* No transfer waits for something that cannot come any more: a call that is taken, refused,
\* answered or lost always leaves its sender, or the network, something to do.
THEOREM TransfersNeverStuck == Spec => []NeverStuck
<1>1. Init => Accounted /\ HurtBounded
  <2>1. Init => Accounted
    <3> SUFFICES ASSUME Init, NEW r \in Requests, Awaited(r) PROVE FALSE
      BY DEF Accounted
    <3> QED BY RequestFields DEF Init, Awaited
  <2>2. Init => HurtBounded
    BY FS_EmptySet, NumbersAssumption DEF Init, HurtBounded, NumbersAssumption
  <2> QED BY <2>1, <2>2
<1>2. IInv /\ Accounted /\ HurtBounded /\ [Next]_vars => Accounted' /\ HurtBounded'
  BY AccountedStep, HurtStep DEF IInv
<1>3. IInv /\ Accounted /\ HurtBounded => NeverStuck
  BY GoesOn DEF IInv
<1> QED BY <1>1, <1>2, <1>3, Invariance, PTL DEF Spec
-----------------------------------------------------------------------------
(* The end of a transfer *)

Taking == \E r \in wire : Handled(r)
Reading == \E a \in answers : Answered(a)
Expiring == \E r \in Requests : Lost(r) /\ GivesUp(r)
Sending == \E m \in Messages : SendsChunk(m) \/ AsksToProcess(m)

NoneTakeable == \A m \in Messages : ~Takeable(m)
NoneReadable == \A m \in Messages : ~Readable(m)
NoneTimesOut == \A m \in Messages : ~TimesOut(m)
NoneSendable == \A m \in Messages : ~Sendable(m) /\ ~Complete(m)

\* The fairness of FairSpec, with the conditions in place of ENABLED: each of them makes
\* its step possible.
Justice ==
  /\ []<>NoneTakeable \/ []<><<Taking>>_vars
  /\ []<>NoneReadable \/ []<><<Reading>>_vars
  /\ []<>NoneTimesOut \/ []<><<Expiring>>_vars
  /\ []<>NoneSendable \/ []<><<Sending>>_vars

Begun(m) == phase[m] # "idle"
Ended(m) == phase[m] \in {"done", "failed"}

\* A step that does not lessen what remains changes nothing that a transfer waits for.
LEMMA NothingMoves ==
  ASSUME TypeOK, CallsInv, FiniteNet, [Next]_vars, ~<<LessRemains>>_vars
  PROVE  UNCHANGED <<phase, chunk, wire, answers, hurt>>
<1>1. LessRemains => vars' # vars
  <2>1. vars' = vars => Remaining' = Remaining
    BY DEF vars, Remaining, Ahead, Unsent
  <2>2. Remaining \in Nat
    BY FiniteCounts DEF Remaining
  <2> QED BY <2>1, <2>2 DEF LessRemains
<1>2. ~LessRemains
  BY <1>1
<1>3. CASE UNCHANGED vars
  BY <1>3 DEF vars
<1>4. CASE \E k \in Sessions : SessionEnds(k)
  BY <1>4 DEF SessionEnds
<1> QED BY <1>2, <1>3, <1>4, ShrinkStep

\* So what made a step possible still does.
LEMMA GuardsStay ==
  ASSUME UNCHANGED <<phase, chunk, wire, answers, hurt>>, NEW m
  PROVE  /\ Takeable(m) => Takeable(m)'
         /\ Readable(m) => Readable(m)'
         /\ TimesOut(m) => TimesOut(m)'
         /\ Sendable(m) \/ Complete(m) => (Sendable(m) \/ Complete(m))'
<1>1. Takeable(m) => Takeable(m)'
  BY DEF Takeable, InOrder
<1>2. Readable(m) => Readable(m)'
  BY DEF Readable
<1>3. TimesOut(m) => TimesOut(m)'
  BY DEF TimesOut, Awaited, Lost
<1>4. Sendable(m) => Sendable(m)'
  BY DEF Sendable, Slots, Asked
<1>5. Complete(m) => Complete(m)'
  BY DEF Complete, AllStored
<1> QED BY <1>1, <1>2, <1>3, <1>4, <1>5

\* And a step that FairSpec is fair to is no such step.
LEMMA FairStepsMove ==
  ASSUME TypeOK, Taking \/ Reading \/ Expiring \/ Sending
  PROVE  ~UNCHANGED <<phase, chunk, wire, answers, hurt>>
<1>1. ASSUME NEW r \in wire, Handled(r) PROVE wire' # wire
  BY <1>1 DEF Handled
<1>2. ASSUME NEW a \in answers, Answered(a) PROVE answers' # answers
  BY <1>2 DEF Answered
<1>3. ASSUME NEW r \in Requests, GivesUp(r) PROVE phase' # phase
  BY <1>3, RequestFields DEF GivesUp, Awaited, Fails, GoesTo, TypeOK
<1>4. ASSUME NEW m \in Messages, SendsChunk(m) PROVE chunk' # chunk
  BY <1>4 DEF SendsChunk, TypeOK
<1>5. ASSUME NEW m \in Messages, AsksToProcess(m) PROVE phase' # phase
  BY <1>5 DEF AsksToProcess, GoesTo, TypeOK
<1> QED BY <1>1, <1>2, <1>3, <1>4, <1>5 DEF Taking, Reading, Expiring, Sending

\* If at last nothing is lessened, no transfer is left that waits.
LEMMA TransferEndsOrShrinks ==
  ASSUME NEW m \in Messages
  PROVE  Spec /\ Justice => []<><<LessRemains>>_vars \/ (Begun(m) ~> Ended(m))
<1> DEFINE Inv == IInv /\ FiniteNet /\ NeverStuck
           Ready == Sendable(m) \/ Complete(m)
<1>1. Inv /\ Begun(m) => Ended(m) \/ Takeable(m) \/ Readable(m) \/ TimesOut(m) \/ Ready
  BY DEF NeverStuck, CanGoOn, Begun, Ended
<1>2. Inv /\ [Next]_vars /\ ~<<LessRemains>>_vars =>
        /\ Takeable(m) => Takeable(m)'
        /\ Readable(m) => Readable(m)'
        /\ TimesOut(m) => TimesOut(m)'
        /\ Ready => Ready'
  BY NothingMoves, GuardsStay DEF IInv
<1>3. Inv /\ [Next]_vars /\ Begun(m) => Begun(m)'
  BY Onward DEF IInv, Begun
<1>4. /\ Takeable(m) => ~NoneTakeable
      /\ Readable(m) => ~NoneReadable
      /\ TimesOut(m) => ~NoneTimesOut
      /\ Ready => ~NoneSendable
  BY DEF NoneTakeable, NoneReadable, NoneTimesOut, NoneSendable
<1>5. Inv /\ [Next]_vars =>
        /\ <<Taking>>_vars => <<LessRemains>>_vars
        /\ <<Reading>>_vars => <<LessRemains>>_vars
        /\ <<Expiring>>_vars => <<LessRemains>>_vars
        /\ <<Sending>>_vars => <<LessRemains>>_vars
  BY NothingMoves, FairStepsMove DEF IInv
<1>6. Spec => []Inv
  BY Invariance, NetStaysFinite, TransfersNeverStuck, PTL
<1> HIDE DEF Inv, Ready
<1> QED BY <1>1, <1>2, <1>3, <1>4, <1>5, <1>6, PTL DEF Spec, Justice

\* If sender, receiver and timers run, every transfer ends, or what remains to be done is
\* lessened forever; and it is a natural number that no step adds to.
THEOREM TransfersEndOrShrink == Spec /\ Justice => TransferEnds \/ []<><<LessRemains>>_vars
<1>1. ASSUME NEW m \in Messages
      PROVE  Spec /\ Justice => []<><<LessRemains>>_vars \/ (Begun(m) ~> Ended(m))
  BY TransferEndsOrShrinks
<1>2. Spec /\ Justice => []<><<LessRemains>>_vars \/ \A m \in Messages : Begun(m) ~> Ended(m)
  BY <1>1
<1>3. (\A m \in Messages : Begun(m) ~> Ended(m)) => TransferEnds
  BY DEF Begun, Ended, TransferEnds
<1> QED BY <1>2, <1>3
=============================================================================
