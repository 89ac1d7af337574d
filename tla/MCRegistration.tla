--------------------------- MODULE MCRegistration ---------------------------
(* Instances of Registration: one service, offered in one version.          *)
EXTENDS Registration, TLC

CONSTANTS a, f, u1, u2, r1, r2, m1, m2

OneService == {a}
OneVersion == (a :> {[methods |-> {f}, visibility |-> "protected"]})
NoRintf == {}
OneFunction == {f}
NoPeers == {}
OneUser == {u1}
TwoUsers == {u1, u2}
TwoReporters == {r1, r2}
OneManager == {m1}
TwoManagers == {m1, m2}

Symmetry == Permutations(Users) \cup Permutations(Reporters) \cup Permutations(Managers)
=============================================================================
