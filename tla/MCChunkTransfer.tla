-------------------------- MODULE MCChunkTransfer --------------------------
(* Two long messages that reply to one session.                             *)
EXTENDS ChunkTransfer, TLC

CONSTANTS m1, m2, session

TwoReplies == {m1, m2}
OneSession == {session}
Shared == (m1 :> session) @@ (m2 :> session)
=============================================================================
