-------------------------- MODULE MessageDelivery --------------------------
(***************************************************************************)
(* What the sender of a message may rely on: it is delivered at most once, *)
(* and was delivered if sending it succeeded.  If it failed, nothing is    *)
(* known.  ChunkTransfer implements this specification.                    *)
(***************************************************************************)
CONSTANTS Messages

VARIABLES sending,      \* sending[m]: what the sender knows of m
          delivered     \* the messages the receiver has acted on

vars == <<sending, delivered>>

Init == /\ sending = [m \in Messages |-> "new"]
        /\ delivered = {}

Send(m) ==
  /\ sending[m] = "new"
  /\ sending' = [sending EXCEPT ![m] = "sent"]
  /\ UNCHANGED delivered

Deliver(m) ==
  /\ sending[m] # "new" /\ m \notin delivered
  /\ delivered' = delivered \cup {m}
  /\ UNCHANGED sending

Succeed(m) ==
  /\ sending[m] = "sent" /\ m \in delivered
  /\ sending' = [sending EXCEPT ![m] = "succeeded"]
  /\ UNCHANGED delivered

Fail(m) ==
  /\ sending[m] \in {"new", "sent"}
  /\ sending' = [sending EXCEPT ![m] = "failed"]
  /\ UNCHANGED delivered

Next == \E m \in Messages : Send(m) \/ Deliver(m) \/ Succeed(m) \/ Fail(m)

Spec == Init /\ [][Next]_vars
=============================================================================
