---------------------------- MODULE ObjectCodec ----------------------------
(***************************************************************************)
(* RPC._encode and RPC._decode: what a value becomes on its way to a peer, *)
(* which sends what it has received back or on to a third client, of the   *)
(* same server or of another one that its process is connected to as well. *)
(*                                                                         *)
(* A value is a record with a type.  Whatever is made of primitives, lists *)
(* and dicts can be sent as it is; all else becomes a dict with a _rtype.  *)
(* A function stays where it is: it is stored under a name, in the session *)
(* of the message or as a method of a service, and the name is sent.  What *)
(* a session holds is only for the client that the message has gone to.    *)
(***************************************************************************)
EXTENDS Sequences, FiniteSets, TLC

CONSTANTS Values,       \* the values to be sent, see below
          Public        \* functions that are methods of a service of the sender

\* RPC objects; the agent is the peer's connection to another server.
Clients == {"sender", "peer", "neighbour", "agent", "third"}
Server(c) == IF c \in {"agent", "third"} THEN "away" ELSE "home"

VARIABLES coded,        \* who has registered the codec
          way,          \* who sends the value on, and to whom
          stage,        \* where the value is
          value, there, arrived,    \* at the sender, at the peer, and in the end
          wire,         \* the message on its way
          store         \* what the clients have stored: _object_store

vars == <<coded, way, stage, value, there, arrived, wire, store>>

-----------------------------------------------------------------------------
(* Values *)

Prim(x) == [type |-> "prim", is |-> x]
ListOf(s) == [type |-> "list", elems |-> s]
DictOf(f) == [type |-> "dict", items |-> f]
ProxyOf(f) == [type |-> "proxy", items |-> f]
Function(f) == [type |-> "function", is |-> f]
Remote(m, c) == [type |-> "remote", of |-> m, via |-> c]
Custom(f) == [type |-> "custom", items |-> f]
SetOf(s) == [type |-> "set", elems |-> s]
Failure == [type |-> "failure"]

\* The name under which something is stored, a string on the wire.  Sessions have the
\* client to which their message goes as their target_id.
SessionWith(c, id) == [id |-> id, target |-> c]
Services == SessionWith("anyone", "services")
Name(session, path) == [type |-> "name", session |-> session, path |-> path]

Primitive(v) == v.type \in {"prim", "name"}
Sequence(v) == v.type \in {"list", "tuple"}
Mapping(v) == v.type \in {"dict", "ordered", "proxy"}
Callable(v) == v.type \in {"function", "remote"}
Typed(v) == Mapping(v) /\ "_rtype" \in DOMAIN v.items

\* Keys that begin with an underscore.
Hidden == {"_rtype", "_rintf", "_rvalue", "_rserver", "_rtarget", "_rmethod", "_rclose_method", "_dispose",
           "_rintf_service_id", "__rpc_object__", "__next__"}

Interface(v) == /\ Mapping(v) /\ "_rintf" \in DOMAIN v.items /\ v.items["_rintf"] = Prim("true")
                /\ \E k \in DOMAIN v.items \ Hidden : Callable(v.items[k])

\* f with keys of g, which prevail, or without some of its keys.
With(f, g) == g @@ f
Without(f, K) == [k \in DOMAIN f \ K |-> f[k]]

PartsOf(v) == CASE Sequence(v) \/ v.type = "set" -> {v.elems[i] : i \in DOMAIN v.elems}
                [] Mapping(v) \/ v.type \in {"custom", "stream"} -> {v.items[k] : k \in DOMAIN v.items}
                [] OTHER -> {}

RECURSIVE Within(_)
Within(v) == {v} \cup UNION {Within(x) : x \in PartsOf(v)}

\* msgpack takes it.
Sendable(w) == \A x \in Within(w) : Primitive(x) \/ Sequence(x) \/ Mapping(x)

Readable(v) == Failure \notin Within(v)

-----------------------------------------------------------------------------
(* The fast paths *)

\* A plausible error: what is neither a list nor a dict is taken for a primitive.
\* A plausible error: whatever is no list, dict or proxy is a primitive.
RECURSIVE AllPrimitivesButUnknown(_)
AllPrimitivesButUnknown(v) ==
  \A x \in PartsOf(v) : \/ x.type \notin {"list", "dict", "proxy"}
                        \/ x.type = "list" /\ AllPrimitivesButUnknown(x)
                        \/ x.type = "dict" /\ ~Typed(x) /\ AllPrimitivesButUnknown(x)

\* _all_primitives_list and _all_primitives_dict: nothing in it needs to be encoded.
RECURSIVE AllPrimitives(_)
AllPrimitives(v) ==
  \A x \in PartsOf(v) : \/ Primitive(x)
                        \/ x.type = "list" /\ AllPrimitives(x)
                        \/ x.type = "dict" /\ ~Typed(x) /\ AllPrimitives(x)

\* _all_scalars_list: nothing in it needs to be decoded, and there is no dict.
RECURSIVE AllScalars(_)
AllScalars(v) == \A x \in PartsOf(v) : Primitive(x) \/ (x.type = "list" /\ AllScalars(x))

\* ObjectProxy.fromDict
RECURSIVE FromDict(_)
FromDict(v) == CASE Mapping(v) -> ProxyOf([k \in DOMAIN v.items |-> FromDict(v.items[k])])
                 [] v.type = "list" -> ListOf([i \in DOMAIN v.elems |-> FromDict(v.elems[i])])
                 [] OTHER -> v

-----------------------------------------------------------------------------
(* _encode.  The result is what to send and what to store.                 *)

Entry(c, name, v) == [client |-> c, name |-> name, holds |-> v]
Sent(w) == [wire |-> w, stored |-> {}]

Method(c, name) == DictOf("_rtype" :> Prim("method") @@ "_rserver" :> Prim(Server(c)) @@
                          "_rtarget" :> Prim(c) @@ "_rmethod" :> name)

\* A function of a service has a name already; another one is stored in the session.
EncodeCallable(v, c, session, path) ==
  LET name == IF v.type = "function" /\ v.is \in Public THEN Name(Services, <<v.is>>) ELSE Name(session, path)
  IN [wire |-> Method(c, name), stored |-> {Entry(c, name, v)}]

\* What the caller of next_item_method and close_generator_method will work on.
EncodeIterator(v, c, session, path) ==
  LET next == Name(session, path)
      close == Name(session, Append(path, "close"))
  IN [wire |-> DictOf(With(Method(c, next).items, "_rtype" :> Prim("generator") @@ "_rclose_method" :> close)),
      stored |-> {Entry(c, next, v), Entry(c, close, v)}]

ServerOf(v, c) == IF "_rserver" \in DOMAIN v.of.items THEN v.of.items["_rserver"].is ELSE Server(c)

\* A plausible error: whatever server it comes from.
ReusedAlways(v, c) == v.type = "remote"

\* What comes from the same server is sent as it has been received.
Reused(v, c) == v.type = "remote" /\ ServerOf(v, c) = Server(c)

\* add_service takes the methods of this client, and only those.
OwnMethods(v, c) ==
  \A k \in DOMAIN v.items : v.items[k].type = "remote" => v.items[k].of.items["_rtarget"] = Prim(c)

RECURSIVE Encode(_, _, _, _, _)

EncodeItems(f, c, session, path, fast) ==
  LET e == [k \in DOMAIN f |-> Encode(f[k], c, session, Append(path, k), fast)]
  IN [wire |-> DictOf([k \in DOMAIN f |-> e[k].wire]), stored |-> UNION {e[k].stored : k \in DOMAIN f}]

EncodeElements(s, c, session, path, fast) ==
  LET e == [i \in DOMAIN s |-> Encode(s[i], c, session, Append(path, ToString(i)), fast)]
  IN [wire |-> ListOf([i \in DOMAIN s |-> e[i].wire]), stored |-> UNION {e[i].stored : i \in DOMAIN s}]

\* The dict f, whose values need to be encoded, and the _rtype that it gets.
EncodeTyped(f, rtype, c, session, path, fast) ==
  LET e == Encode(DictOf(f), c, session, path, fast)
  IN IF Mapping(e.wire) THEN [e EXCEPT !.wire = DictOf(With(e.wire.items, "_rtype" :> rtype))] ELSE e

EncodeValue(rtype, e) == [e EXCEPT !.wire = DictOf("_rtype" :> Prim(rtype) @@ "_rvalue" :> e.wire)]

\* A service of the callables, and of _dispose; the other values are encoded as usual.
EncodeInterface(v, c, session, path, fast) ==
  IF ~OwnMethods(v, c) THEN Sent(Failure)
  ELSE LET methods == {k \in DOMAIN v.items \ Hidden : v.items[k].type = "function"}
           name(k) == Name(Services, Append(path, k))
           rest == EncodeItems(Without(v.items, methods), c, session, path, fast)
       IN [wire |-> DictOf(With(With(rest.wire.items, [k \in methods |-> Method(c, name(k))]),
                                "_dispose" :> Method(c, name("_dispose")) @@
                                "_rintf_service_id" :> Name(Services, path))),
           stored |-> rest.stored \cup {Entry(c, name(k), v.items[k]) : k \in methods}
                        \cup {Entry(c, name("_dispose"), Function("dispose"))}]

\* fast: whether there are fast paths.
Encode(v, c, session, path, fast) ==
  CASE Primitive(v) -> Sent(v)
    [] Reused(v, c) -> Sent(v.of)
    [] Typed(v) -> EncodeTyped(Without(v.items, {"_rtype"}), v.items["_rtype"], c, session, path, fast)
    [] Callable(v) /\ ~Reused(v, c) -> EncodeCallable(v, c, session, path)
    [] v.type = "custom" /\ coded[c] -> EncodeTyped(v.items, Prim("custom"), c, session, path, fast)
    [] v.type \in {"ndarray", "memoryview", "error"} -> EncodeValue(v.type, Sent(Prim(v.is)))
    [] v.type = "stream" -> EncodeTyped(v.items, Prim("iostream"), c, session, path, fast)
    [] v.type = "set" -> EncodeValue("set", Encode(ListOf(v.elems), c, session, Append(path, "set"), fast))
    [] v.type \in {"generator", "proxied generator"} -> EncodeIterator(v, c, session, path)
    [] Interface(v) /\ ~Typed(v) -> EncodeInterface(v, c, session, path, fast)
    [] Sequence(v) -> IF fast /\ AllPrimitives(v) THEN Sent(ListOf(v.elems))
                      ELSE EncodeElements(v.elems, c, session, path, fast)
    [] Mapping(v) /\ ~Typed(v) /\ ~Interface(v) ->
         IF fast /\ AllPrimitives(v) THEN Sent(DictOf(v.items))
         ELSE EncodeItems(v.items, c, session, path, fast)
    [] OTHER -> Sent(Failure)

-----------------------------------------------------------------------------
(* _decode *)

\* Python's sets hold no lists or dicts.
Hashable(v) == ~(v.type = "list" \/ Mapping(v))

RECURSIVE Decode(_, _, _)

DecodeItems(f, c, fast) == ProxyOf([k \in DOMAIN f |-> Decode(f[k], c, fast)])

\* By the _rtype, unless a codec has that name.
DecodeTyped(f, c, fast) ==
  LET rtype == f["_rtype"].is
      others == Without(f, {"_rtype"})
  IN CASE rtype = "custom" /\ coded[c] -> Custom(Decode(DictOf(others), c, fast).items)
       [] rtype = "method" -> Remote(DictOf(f), c)
       [] rtype \in {"ndarray", "memoryview", "error"} -> [type |-> rtype, is |-> f["_rvalue"].is]
       [] rtype = "iostream" -> ProxyOf(With(DecodeItems(Without(f, Hidden), c, fast).items, "__rpc_object__" :> DictOf(f)))
       [] rtype = "set" -> LET l == Decode(f["_rvalue"], c, fast)
                           IN IF \A x \in PartsOf(l) : Hashable(x) THEN SetOf(l.elems) ELSE Failure
       [] rtype = "generator" -> [type |-> "proxied generator", of |-> DictOf(f), via |-> c]
       [] OTHER -> ProxyOf(With(Decode(DictOf(others), c, fast).items, "_rtype" :> f["_rtype"]))

Decode(w, c, fast) ==
  CASE Primitive(w) -> w
    [] Typed(w) -> DecodeTyped(w.items, c, fast)
    [] Sequence(w) -> IF fast /\ AllScalars(w) THEN w
                      ELSE ListOf([i \in DOMAIN w.elems |-> Decode(w.elems[i], c, fast)])
    [] Mapping(w) /\ ~Typed(w) -> IF fast /\ AllPrimitives(w) THEN FromDict(w) ELSE DecodeItems(w.items, c, fast)

-----------------------------------------------------------------------------
(* There and on *)

Init ==
  /\ coded \in [Clients -> BOOLEAN]
  /\ way \in {[from |-> "peer", to |-> "sender"], [from |-> "peer", to |-> "neighbour"], [from |-> "agent", to |-> "third"]}
  /\ stage = "new" /\ value \in Values
  /\ there = Failure /\ arrived = Failure /\ wire = Failure
  /\ store = {}

\* c sends v, or an exception is raised.
Leaves(c, v, session, next) ==
  LET e == Encode(v, c, session, <<>>, TRUE)
  IN IF Sendable(e.wire) THEN stage' = next /\ wire' = e.wire /\ store' = store \cup e.stored
     ELSE stage' = "refused" /\ UNCHANGED <<wire, store>>

Sends ==
  /\ stage = "new"
  /\ Leaves("sender", value, SessionWith("peer", "call"), "sent")
  /\ UNCHANGED <<coded, way, value, there, arrived>>

Receives ==
  /\ stage = "sent"
  /\ there' = Decode(wire, "peer", TRUE)
  /\ stage' = IF Readable(there') THEN "received" ELSE "refused"
  /\ UNCHANGED <<coded, way, value, arrived, wire, store>>

SendsOn ==
  /\ stage = "received"
  /\ Leaves(way.from, there, SessionWith(way.to, "another call"), "sent on")
  /\ UNCHANGED <<coded, way, value, there, arrived>>

Arrives ==
  /\ stage = "sent on"
  /\ arrived' = Decode(wire, way.to, TRUE)
  /\ stage' = IF Readable(arrived') THEN "arrived" ELSE "refused"
  /\ UNCHANGED <<coded, way, value, there, wire, store>>

Next == Sends \/ Receives \/ SendsOn \/ Arrives

Spec == Init /\ [][Next]_vars

-----------------------------------------------------------------------------
(* Properties *)

\* _handle_method: methods of services are there for all clients of the workspace, and
\* what a session holds for its target.
Allowed(name, c) == name.session = Services \/ name.session.target = c

\* What v, a remote function or generator, finds under one of its names.  A call reaches
\* the clients of the server it is made through.
Held(v, key) ==
  {e.holds : e \in {x \in store : /\ Prim(x.client) = v.of.items["_rtarget"]
                                  /\ Server(x.client) = Server(v.via)
                                  /\ x.name = v.of.items[key] /\ Allowed(x.name, v.via)}}

\* The functions or generators that one reaches in the end.
RECURSIVE Reached(_)
Reached(v) ==
  CASE v.type = "remote" -> UNION {Reached(h) : h \in Held(v, "_rmethod")}
    [] v.type = "proxied generator" ->
         UNION {Reached(h) : h \in Held(v, "_rmethod") \cap Held(v, "_rclose_method")}
    [] OTHER -> {v}

Extra == {"_dispose", "_rintf_service_id", "__rpc_object__"}

\* What a user takes v for, wherever v has come from: a tuple is as good as a list, a dict
\* or the public part of a stream as good as a proxy, and a function or generator is what
\* one reaches: nothing if private, and v is a private function.
RECURSIVE View(_, _)
View(v, private) ==
  LET each(f) == [k \in DOMAIN f \ Extra |-> View(f[k], private)]
  IN CASE Sequence(v) -> ListOf([i \in DOMAIN v.elems |-> View(v.elems[i], private)])
       [] v.type = "set" -> SetOf([i \in DOMAIN v.elems |-> View(v.elems[i], private)])
       [] Mapping(v) -> DictOf(each(v.items))
       [] v.type = "stream" -> DictOf(each(Without(v.items, Hidden)))
       [] v.type = "custom" -> DictOf(With(each(v.items), "_rtype" :> Prim("custom")))
       [] v.type \in {"remote", "proxied generator"} -> [type |-> "reached", what |-> Reached(v)]
       [] v.type = "function" -> [type |-> "reached", what |-> IF private /\ v.is \notin Public THEN {} ELSE {v}]
       [] v.type = "generator" -> [type |-> "reached", what |-> {v}]
       [] OTHER -> v

\* The types of the table in README.md, and custom ones if there is a codec.  A set
\* of tuples cannot be decoded: they have become lists, which are not hashable.
Supported(v) ==
  \A x \in Within(v) : /\ x.type # "unsupported" /\ (x.type = "custom" => coded["sender"])
                       /\ x.type = "set" => \A y \in PartsOf(x) : y.type # "tuple"

\* An _rintf object cannot be sent on: add_service refuses the methods of others.  Nor
\* can what another client has a codec for, unless it is sent as the dict it came as.
Forwardable(v) ==
  \A x \in Within(v) : ~Interface(x) /\ (x.type = "custom" /\ coded["peer"] => coded[way.from])

\* A supported value is for the peer what it was for the sender, and the same for whom it
\* is sent on to: all functions and generators reach what they stood for.  But functions
\* that are no methods of a service are of no use to another client of the same server,
\* and not even to the sender, when it gets them back.
Intact ==
  /\ stage \in {"received", "sent on", "arrived"} /\ Supported(value) => View(there, FALSE) = View(value, FALSE)
  /\ stage = "arrived" /\ Supported(value) => View(arrived, FALSE) = View(value, Server(way.to) = "home")
  /\ stage = "refused" => ~Supported(value) \/ ~Forwardable(value)

\* The fast paths change nothing: a value is sent and read as without them.
FastPathSound ==
  /\ stage = "new" => LET s == SessionWith("peer", "call")
                     IN Encode(value, "sender", s, <<>>, FALSE) = Encode(value, "sender", s, <<>>, TRUE)
  /\ stage = "sent" => Decode(wire, "peer", FALSE) = Decode(wire, "peer", TRUE)
  /\ stage = "sent on" => Decode(wire, way.to, FALSE) = Decode(wire, way.to, TRUE)
=============================================================================
