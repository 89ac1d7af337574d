------------------------- MODULE RepeatedDelivery --------------------------
(***************************************************************************)
(* What the sender of a message may rely on when it is repeated after      *)
(* errors: it is delivered at most Attempts times, and at least once if    *)
(* sending it succeeded.  HttpConnection implements this specification.    *)
(***************************************************************************)
EXTENDS Naturals

CONSTANTS Posts, Attempts

VARIABLES sending,      \* sending[p]: what the sender knows of p
          delivered     \* delivered[p]: how often p has been delivered

vars == <<sending, delivered>>

Init == /\ sending = [p \in Posts |-> "unsent"]
        /\ delivered = [p \in Posts |-> 0]

Deliver(p) ==
  /\ sending[p] = "unsent" /\ delivered[p] < Attempts
  /\ delivered' = [delivered EXCEPT ![p] = @ + 1]
  /\ UNCHANGED sending

Succeed(p) ==
  /\ sending[p] = "unsent" /\ delivered[p] > 0
  /\ sending' = [sending EXCEPT ![p] = "succeeded"]
  /\ UNCHANGED delivered

Fail(p) ==
  /\ sending[p] = "unsent"
  /\ sending' = [sending EXCEPT ![p] = "failed"]
  /\ UNCHANGED delivered

Next == \E p \in Posts : Deliver(p) \/ Succeed(p) \/ Fail(p)

Spec == Init /\ [][Next]_vars
=============================================================================
