--------------------------- MODULE ChunkTransfer ---------------------------
(***************************************************************************)
(* A message that is too long for one frame: _send_chunks stores its       *)
(* chunks in the receiver's message_cache by remote calls and has it       *)
(* processed there.  The entry is named after the session the message is a *)
(* reply to, so that several messages may want the same one.               *)
(*                                                                         *)
(* A remote call is its request, its execution by the receiver and its     *)
(* answer.  Requests of different messages, and those that set chunks, may *)
(* be taken in any order; a connection keeps that of the others.  Requests *)
(* and answers are lost, and a sender may give up before an answer comes.  *)
(***************************************************************************)
EXTENDS Naturals, FiniteSets

CONSTANTS Messages, NoMessage,
          Keys,         \* the names of entries in the cache
          Key,          \* Key[m]: the session that m is a reply to, or a new id
          Sessions,     \* the keys that are sessions of the receiver
          Chunks,       \* how many chunks a message has
          Limit,        \* CONCURRENCY_LIMIT
          MaxHurt       \* bounds the messages that faults happen to

ASSUME KeysAssumption == Key \in [Messages -> Keys] /\ Sessions \subseteq Keys
ASSUME NumbersAssumption == Chunks \in Nat \ {0} /\ Limit \in Nat \ {0} /\ MaxHurt \in Nat
ASSUME MessagesAssumption == IsFiniteSet(Messages) /\ NoMessage \notin Messages

VARIABLES phase,        \* phase[m]: where the sender of m is
          chunk,        \* chunk[m][i]: what the sender knows of a chunk
          wire,         \* requests on their way
          answers,      \* answers on their way
          cache,        \* message_cache[k]: whose chunk is at each index
          maker,        \* the message that the entry k was made for
          ended,        \* the sessions that are not there any more
          fired,        \* how often a message has been processed
          torn,         \* something else than a whole message was processed
          hurt          \* messages with a lost, late or cancelled call

vars == <<phase, chunk, wire, answers, cache, maker, ended, fired, torn, hurt>>
receiverVars == <<cache, maker, ended, fired, torn>>

Index == 1..Chunks
Empty == [i \in Index |-> NoMessage]
\* The index is 0 but for a chunk.
Requests == [op : {"set"}, msg : Messages, idx : Index]
            \cup [op : {"create", "remove", "process"}, msg : Messages, idx : {0}]
Answer(r, ok) == [op |-> r.op, msg |-> r.msg, idx |-> r.idx, ok |-> ok]

Asked(m) == {i \in Index : chunk[m][i] = "asked"}

TypeOK ==
  /\ phase \in [Messages -> {"idle", "creating", "sending", "removing", "processing", "done", "failed"}]
  /\ chunk \in [Messages -> [Index -> {"waiting", "asked", "stored"}]]
  /\ \A m \in Messages : Cardinality(Asked(m)) <= Limit
  /\ wire \subseteq Requests /\ answers \subseteq {Answer(r, ok) : r \in Requests, ok \in BOOLEAN}
  /\ cache \in [Keys -> [Index -> Messages \cup {NoMessage}]]
  /\ maker \in [Keys -> Messages \cup {NoMessage}]
  /\ ended \subseteq Sessions
  /\ fired \in [Messages -> 0..1] /\ torn \in BOOLEAN
  /\ hurt \subseteq Messages

Init == /\ phase = [m \in Messages |-> "idle"]
        /\ chunk = [m \in Messages |-> [i \in Index |-> "waiting"]]
        /\ wire = {} /\ answers = {}
        /\ cache = [k \in Keys |-> Empty] /\ maker = [k \in Keys |-> NoMessage]
        /\ ended = {}
        /\ fired = [m \in Messages |-> 0] /\ torn = FALSE
        /\ hurt = {}

-----------------------------------------------------------------------------
(* Helpers *)

Request(op, m, i) == [op |-> op, msg |-> m, idx |-> i]

Calls(m, op, i) == wire' = wire \cup {Request(op, m, i)}

GoesTo(m, p) == phase' = [phase EXCEPT ![m] = p]

\* The call of r has not been answered yet, as far as its sender knows.
Awaited(r) ==
  CASE r.op = "create" -> phase[r.msg] = "creating"
    [] r.op = "set" -> phase[r.msg] = "sending" /\ chunk[r.msg][r.idx] = "asked"
    [] r.op = "remove" -> phase[r.msg] = "removing"
    [] OTHER -> phase[r.msg] = "processing"

AllStored(m) == \A i \in Index : chunk[m][i] = "stored"

\* A plausible error: the semaphore is not released.
HeldSlots(m) == {i \in Index : chunk[m][i] # "waiting"}

\* The chunks that hold the semaphore.
Slots(m) == Asked(m)

-----------------------------------------------------------------------------
(* The sender *)

Begins(m) ==
  /\ phase[m] = "idle"
  /\ GoesTo(m, "creating")
  /\ Calls(m, "create", 0)
  /\ UNCHANGED <<chunk, answers, receiverVars, hurt>>

\* append_chunk, in the order in which the tasks wait for the semaphore.
SendsChunk(m) ==
  /\ phase[m] = "sending"
  /\ Cardinality(Slots(m)) < Limit
  /\ \E i \in Index :
       /\ chunk[m][i] = "waiting" /\ \A j \in 1..(i - 1) : chunk[m][j] # "waiting"
       /\ chunk' = [chunk EXCEPT ![m][i] = "asked"]
       /\ Calls(m, "set", i)
  /\ UNCHANGED <<phase, answers, receiverVars, hurt>>

\* A plausible error: the chunks are sent, but not all are stored.
AsksTooSoon(m) ==
  /\ phase[m] = "sending" /\ \A i \in Index : chunk[m][i] # "waiting"
  /\ GoesTo(m, "processing")
  /\ Calls(m, "process", 0)
  /\ UNCHANGED <<chunk, answers, receiverVars, hurt>>

AsksToProcess(m) ==
  /\ phase[m] = "sending" /\ AllStored(m)
  /\ GoesTo(m, "processing")
  /\ Calls(m, "process", 0)
  /\ UNCHANGED <<chunk, answers, receiverVars, hurt>>

\* A plausible error: the failure of the last call is ignored.
FailsQuietly(r) ==
  IF r.op = "set"
  THEN GoesTo(r.msg, "removing") /\ Calls(r.msg, "remove", 0)
  ELSE GoesTo(r.msg, IF r.op = "process" THEN "done" ELSE "failed") /\ UNCHANGED wire

\* A plausible error: the entry is not removed.
FailsOnly(r) == GoesTo(r.msg, "failed") /\ UNCHANGED wire

\* An exception of the call of r: a chunk's cancels the others and has the entry
\* removed, any other ends the transfer.
Fails(r) ==
  IF r.op = "set"
  THEN GoesTo(r.msg, "removing") /\ Calls(r.msg, "remove", 0)
  ELSE GoesTo(r.msg, "failed") /\ UNCHANGED wire

Succeeds(r) ==
  /\ CASE r.op = "create" -> GoesTo(r.msg, "sending") /\ UNCHANGED chunk
       [] r.op = "set" -> chunk' = [chunk EXCEPT ![r.msg][r.idx] = "stored"] /\ UNCHANGED phase
       [] r.op = "remove" -> GoesTo(r.msg, "failed") /\ UNCHANGED chunk
       [] OTHER -> GoesTo(r.msg, "done") /\ UNCHANGED chunk
  /\ UNCHANGED wire

\* An answer comes; nobody waits for a late one.
Answered(a) ==
  /\ a \in answers
  /\ answers' = answers \ {a}
  /\ IF ~Awaited(a) THEN UNCHANGED <<phase, chunk, wire>>
     ELSE IF a.ok THEN Succeeds(a)
     ELSE Fails(a) /\ UNCHANGED chunk
  /\ UNCHANGED <<receiverVars, hurt>>

-----------------------------------------------------------------------------
(* The receiver: the service message_cache *)

\* heartbeat is set for a message that is a reply to a session, which must exist.
SessionThere(k) == k \in Sessions => k \notin ended

\* A plausible error: an empty entry is taken for none.
PresentIfFilled(k) == cache[k] # Empty

\* There is an entry, if only an empty one.
Present(k) == maker[k] # NoMessage

\* The parts can be joined: there is one, and no gap before any.
Joinable(parts) ==
  parts[1] # NoMessage /\ \A i \in Index : parts[i] # NoMessage => \A j \in 1..i : parts[j] # NoMessage

\* The operation does not raise.
Accepts(r) ==
  LET k == Key[r.msg] IN
  /\ r.op # "remove" => SessionThere(k)
  /\ IF r.op = "create" THEN ~Present(k) ELSE Present(k)
  /\ r.op = "process" => Joinable(cache[k])

Create(r) == /\ cache' = [cache EXCEPT ![Key[r.msg]] = Empty]
             /\ maker' = [maker EXCEPT ![Key[r.msg]] = r.msg]

Set(r) == cache' = [cache EXCEPT ![Key[r.msg]][r.idx] = r.msg] /\ UNCHANGED maker

Remove(r) == /\ cache' = [cache EXCEPT ![Key[r.msg]] = Empty]
             /\ maker' = [maker EXCEPT ![Key[r.msg]] = NoMessage]

\* The first of the parts tells what message it is.
Process(r) ==
  LET parts == cache[Key[r.msg]] IN
  /\ fired' = [fired EXCEPT ![parts[1]] = @ + 1]
  /\ torn' = (torn \/ \E i \in Index : parts[i] # parts[1])
  /\ Remove(r)

Does(r) == /\ CASE r.op = "create" -> Create(r)
                [] r.op = "set" -> Set(r)
                [] r.op = "remove" -> Remove(r)
                [] OTHER -> Process(r)
           /\ r.op # "process" => UNCHANGED <<fired, torn>>

\* remove and process were sent after everything else of the message.
InOrder(r) == r.op \in {"remove", "process"} => ~\E q \in wire : q.msg = r.msg /\ q.op = "set"

Handled(r) ==
  /\ r \in wire /\ InOrder(r)
  /\ wire' = wire \ {r}
  /\ answers' = answers \cup {Answer(r, Accepts(r))}
  /\ IF Accepts(r) THEN Does(r) ELSE UNCHANGED <<cache, maker, fired, torn>>
  /\ UNCHANGED <<phase, chunk, ended, hurt>>

\* The call whose session it is ends.
SessionEnds(k) ==
  /\ k \in Sessions \ ended
  /\ ended' = ended \cup {k}
  /\ UNCHANGED <<phase, chunk, wire, answers, cache, maker, fired, torn, hurt>>

-----------------------------------------------------------------------------
(* Faults *)

Hurts(m) == hurt' = hurt \cup {m} /\ Cardinality(hurt') <= MaxHurt

LosesRequest(r) ==
  /\ r \in wire
  /\ Hurts(r.msg)
  /\ wire' = wire \ {r}
  /\ UNCHANGED <<phase, chunk, answers, receiverVars>>

LosesAnswer(a) ==
  /\ a \in answers
  /\ Hurts(a.msg)
  /\ answers' = answers \ {a}
  /\ UNCHANGED <<phase, chunk, wire, receiverVars>>

\* The call of r fails at the sender: it was lost, or it just takes too long.
GivesUp(r) ==
  /\ Awaited(r)
  /\ Hurts(r.msg)
  /\ Fails(r)
  /\ UNCHANGED <<chunk, answers, receiverVars>>

\* The receiver is not found, or the sender closes and cancels its tasks.
Cancelled(m) ==
  /\ phase[m] \notin {"done", "failed"}
  /\ Hurts(m)
  /\ GoesTo(m, "failed")
  /\ UNCHANGED <<chunk, wire, answers, receiverVars>>

Sends(m) == Begins(m) \/ SendsChunk(m) \/ AsksToProcess(m)

\* A call nobody will answer any more.
Lost(r) == r \notin wire /\ ~\E ok \in BOOLEAN : Answer(r, ok) \in answers

Next == \/ \E m \in Messages : Sends(m) \/ Cancelled(m)
        \/ \E r \in wire : Handled(r) \/ LosesRequest(r)
        \/ \E a \in answers : Answered(a) \/ LosesAnswer(a)
        \/ \E r \in Requests : GivesUp(r)
        \/ \E k \in Sessions : SessionEnds(k)

Spec == Init /\ [][Next]_vars

\* The tasks of the sender run, the receiver works, and timers end what was lost.
FairSpec == /\ Spec
            /\ WF_vars(\E m \in Messages : SendsChunk(m) \/ AsksToProcess(m))
            /\ WF_vars(\E r \in wire : Handled(r))
            /\ WF_vars(\E a \in answers : Answered(a))
            /\ WF_vars(\E r \in Requests : Lost(r) /\ GivesUp(r))

-----------------------------------------------------------------------------
(* Properties *)

\* Only whole messages are processed: no chunk is missing, late or of another message
\* that wants the same entry.
WholeMessages == ~torn

\* A transfer fails only for a fault, because the session it replies to has ended, or
\* because another long message uses the same entry.
FailsForAReason ==
  \A m \in Messages : phase[m] \in {"removing", "failed"} =>
    \/ m \in hurt \/ Key[m] \in ended
    \/ \E n \in Messages \ {m} : Key[n] = Key[m] /\ phase[n] # "idle"

Quiet(m) == phase[m] \in {"done", "failed"} /\ ~\E r \in wire : r.msg = m

\* What a transfer leaves in the cache when it has ended is due to a fault, or to a
\* session that ended when all chunks were there.
OnlyFaultsLeak ==
  \A m \in Messages : Quiet(m) /\ maker[Key[m]] = m => m \in hurt \/ (AllStored(m) /\ Key[m] \in ended)

\* Every transfer comes to an end.
TransferEnds == \A m \in Messages : phase[m] # "idle" ~> phase[m] \in {"done", "failed"}

\* A long message is delivered at most once, and has been if the sender thinks so.
Delivery == INSTANCE MessageDelivery
  WITH sending <- [m \in Messages |-> CASE phase[m] = "idle" -> "new"
                                        [] phase[m] = "done" -> "succeeded"
                                        [] phase[m] = "failed" -> "failed"
                                        [] OTHER -> "sent"],
       delivered <- {m \in Messages : fired[m] > 0}
DeliveryImplemented == Delivery!Spec

\* When everything has ended nothing is left in the cache.  This does not hold.
CacheFreed == (\A m \in Messages : Quiet(m)) => \A k \in Keys : ~Present(k)
=============================================================================
