-------------------------- MODULE MCMethodDispatch --------------------------
(* A call and a callback that is passed to it.                              *)
EXTENDS MethodDispatch, TLC

CONSTANTS outer, inner

CallAndCallback == {outer, inner}
Nesting == (outer :> NoCall) @@ (inner :> outer)
=============================================================================
