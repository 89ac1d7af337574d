--------------------------- MODULE MCServiceStore ---------------------------
(* Instances of ServiceStore: one registered service in three versions and  *)
(* two _rintf services for two peers.                                       *)
EXTENDS ServiceStore, TLC

CONSTANTS a, x, y, f, g, h, p1, p2

OneService == {a}
TwoRintfs == {x, y}
Functions3 == {f, g, h}
TwoPeers == {p1, p2}

\* A service is offered again, with the same function under other settings and with
\* another function; the functions of _rintf objects are shared with it and with
\* each other.
Shared == (a :> {[methods |-> {f}, visibility |-> "protected"],
                 [methods |-> {f}, visibility |-> "public"],
                 [methods |-> {f, g}, visibility |-> "public"]})
       @@ (x :> {[methods |-> {g}, visibility |-> "protected"],
                 [methods |-> {g, h}, visibility |-> "protected"]})
       @@ (y :> {[methods |-> {f, h}, visibility |-> "protected"],
                 [methods |-> {h}, visibility |-> "protected"]})
=============================================================================
