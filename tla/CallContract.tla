---------------------------- MODULE CallContract ----------------------------
(***************************************************************************)
(* What a caller of a remote function may rely on, whatever happens to the *)
(* connection, the peer and the RPC object: the future is settled at most  *)
(* once, and the future of a call made with a promise carries a result     *)
(* only if the peer sent one.  CallSession implements this specification.  *)
(***************************************************************************)
CONSTANTS Calls

VARIABLES fut,          \* fut[c]: the future of call c
          promised,     \* the calls made with a promise: their peer answers
          answered      \* the calls whose peer has sent a result

vars == <<fut, promised, answered>>

Init == /\ fut = [c \in Calls |-> "none"]
        /\ promised = {}
        /\ answered = {}

\* The call is made.
Issue(c, p) ==
  /\ fut[c] = "none"
  /\ fut' = [fut EXCEPT ![c] = "pending"]
  /\ promised' = IF p THEN promised \cup {c} ELSE promised
  /\ UNCHANGED answered

\* The call is made on a closed RPC: settled before it returns.
Drop(c, p) ==
  /\ fut[c] = "none"
  /\ fut' = [fut EXCEPT ![c] = IF p THEN "rejected" ELSE "resolved"]
  /\ promised' = IF p THEN promised \cup {c} ELSE promised
  /\ UNCHANGED answered

\* A peer sends a result of a call that has been made.
Answer(c) ==
  /\ c \in promised
  /\ answered' = answered \cup {c}
  /\ UNCHANGED <<fut, promised>>

\* A result reaches the caller; a call without promise needs none.
Resolve(c) ==
  /\ fut[c] = "pending"
  /\ c \in promised => c \in answered
  /\ fut' = [fut EXCEPT ![c] = "resolved"]
  /\ UNCHANGED <<promised, answered>>

\* One event (a timeout, a disconnection, close) rejects a set of calls.
Reject(S) ==
  /\ S # {}
  /\ \A c \in S : fut[c] = "pending"
  /\ fut' = [c \in Calls |-> IF c \in S THEN "rejected" ELSE fut[c]]
  /\ UNCHANGED <<promised, answered>>

\* The user stops waiting.
Cancel(c) ==
  /\ fut[c] = "pending"
  /\ fut' = [fut EXCEPT ![c] = "cancelled"]
  /\ UNCHANGED <<promised, answered>>

Next == \/ \E c \in Calls, p \in BOOLEAN : Issue(c, p) \/ Drop(c, p)
        \/ \E c \in Calls : Answer(c) \/ Resolve(c) \/ Cancel(c)
        \/ \E S \in SUBSET Calls : Reject(S)

Spec == Init /\ [][Next]_vars
=============================================================================
