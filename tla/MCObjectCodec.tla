--------------------------- MODULE MCObjectCodec ---------------------------
(* Values of every type, nested in each other to a depth of three.          *)
EXTENDS ObjectCodec

Of(t, x) == [type |-> t, is |-> x]
TupleOf(s) == [type |-> "tuple", elems |-> s]

Stream == [type |-> "stream", items |-> "name" :> Prim("p") @@ "read" :> Function("r") @@ "__next__" :> Function("n")]

Simple == {Prim("p"), Function("f"), Function("public")}
Others == {Of("ndarray", "x"), Of("memoryview", "x"), Of("error", "x"), Of("generator", "g"), Of("unsupported", "u"),
           Stream, SetOf(<<Prim("p")>>), SetOf(<<Prim("p"), Function("f")>>), SetOf(<<TupleOf(<<Prim("p")>>)>>)}
Leaves1 == Simple \cup Others

Keyed(x) == {DictOf("a" :> x), [type |-> "ordered", items |-> "a" :> x], DictOf("a" :> x @@ "_rtype" :> Prim("other")),
             ProxyOf("a" :> x), Custom("a" :> x), DictOf("a" :> x @@ "_rintf" :> Prim("true")),
             DictOf("a" :> x @@ "_rintf" :> Prim("true") @@ "_rtype" :> Prim("other"))}
Listed(x) == {ListOf(<<x>>), TupleOf(<<x, Prim("p")>>)}
Nested(S) == UNION {Keyed(x) \cup Listed(x) : x \in S}
Pairs == {ListOf(<<x, y>>) : x, y \in Leaves1} \cup {DictOf("a" :> x @@ "b" :> y) : x, y \in Simple}

Two == Nested(Leaves1)
AllValues == Leaves1 \cup Two \cup Pairs \cup Nested(Two)

PublicOnes == {"public"}
=============================================================================
