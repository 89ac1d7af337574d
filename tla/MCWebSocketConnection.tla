------------------------ MODULE MCWebSocketConnection ------------------------
(***************************************************************************)
(* Instances of WebSocketConnection for TLC.  Sockets and reconnect tasks   *)
(* are interchangeable; Symmetry is used in runs without temporal           *)
(* properties only.                                                         *)
(***************************************************************************)
EXTENDS WebSocketConnection, TLC

CONSTANTS s1, s2, r1, r2, r3, r4, e1

OneSocket == {s1}
TwoSockets == {s1, s2}
ThreeTasks == {r1, r2, r3}
FourTasks == {r1, r2, r3, r4}
OneEmitter == {e1}
NoEmitter == {}

NoFaults == {}
AllFaults == {"stall", "refuse", "register", "slow"}
Stall == {"stall"}
Register == {"register"}
Slow == {"slow"}
Refuse == {"refuse"}
RefuseSlow == {"refuse", "slow"}

Symmetry == Permutations(Sockets) \cup Permutations(Reconnects)

=============================================================================
