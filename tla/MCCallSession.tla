--------------------------- MODULE MCCallSession ---------------------------
(* An instance of CallSession: two calls to a peer.  What is proved in      *)
(* CallSession_proofs holds for any number of peers; there is no symmetry,  *)
(* which would not be sound for the temporal properties.                    *)
EXTENDS CallSession

CONSTANTS c1, c2, p1

TwoCalls == {c1, c2}
OnePeer == {p1}
=============================================================================
