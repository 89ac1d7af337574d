--------------------------- MODULE HttpConnection ---------------------------
(***************************************************************************)
(* The transport over HTTP (HTTPStreamingRPCConnection): messages come in  *)
(* length-prefixed frames of a streamed GET, which _stream_loop opens      *)
(* again whenever it ends, and go out by POST, which emit_message repeats. *)
(*                                                                         *)
(* The first frame of a stream tells the server it comes from.  open()     *)
(* waits for the first one; those of later streams are handled by tasks of *)
(* their own, which have the services reported to the new server.          *)
(***************************************************************************)
EXTENDS Integers, Sequences, FiniteSets

CONSTANTS Servers, NoServer,    \* what connection_info tells: the manager
          Elsewhere,            \* the servers that put the client into another workspace
          Asked,                \* the user asked for a workspace
          Messages,             \* what the server sends
          Posts,                \* calls of emit_message
          Base,                 \* of the digits of a frame's length
          MaxRetry,             \* MAX_RETRY
          Attempts,             \* max_retries
          MaxStreams            \* bounds the streams

ASSUME FramesAssumption == Servers \cup Messages \subseteq Nat /\ Servers \cap Messages = {} /\ NoServer \notin Servers
ASSUME ServersAssumption == Servers # {} /\ Elsewhere \subseteq Servers /\ Asked \in BOOLEAN
ASSUME NumbersAssumption ==
  /\ Base \in Nat \ {0, 1} /\ MaxRetry \in Nat \ {0} /\ Attempts \in Nat \ {0} /\ MaxStreams \in Nat \ {0}

VARIABLES
  opening,      \* open()
  loop, retry,  \* _stream_loop
  again,        \* _is_reconnection
  closed,       \* _closed
  client,       \* there is an _http_client
  refresher,    \* _refresh_token_task
  info,         \* connection_info
  manager, workspace,
  notices,      \* tasks of _handle_reconnection that have not begun
  attached,     \* the RPC object has been made and set the handlers
  reported,     \* the manager for which on_connected has last been called
  user,         \* disconnect()
  wire, buffer, \* bytes of the stream, on their way and in the client
  handled,      \* messages handed to the RPC object
  garbled,      \* something else than a frame has been read
  server, healthy, streams, sent,   \* the server and the network
  post, attempt, delivered          \* emit_message

openVars == <<opening, info, manager, workspace, notices, attached, reported>>
loopVars == <<loop, retry, again, wire, buffer, streams>>
inVars == <<handled, garbled>>
endVars == <<closed, client, refresher, user>>
serverVars == <<server, healthy, sent>>
postVars == <<post, attempt, delivered>>
vars == <<openVars, loopVars, inVars, endVars, serverVars, postVars>>

TypeOK ==
  /\ opening \in {"idle", "waiting", "open", "failed"}
  /\ loop \in {"none", "created", "trying", "streaming", "sleeping", "ended"}
  /\ retry \in 0..MaxRetry /\ streams \in 0..MaxStreams
  /\ again \in BOOLEAN /\ closed \in BOOLEAN /\ client \in BOOLEAN
  /\ refresher \in {"none", "running", "ended"}
  /\ info \in Servers \cup {NoServer} /\ manager \in Servers \cup {NoServer} /\ reported \in Servers \cup {NoServer}
  /\ workspace \in {"none", "asked", "other"}
  /\ notices \in Seq(Servers)
  /\ attached \in BOOLEAN
  /\ user \in {"there", "ends refresher", "ends loop", "gone"}
  /\ wire \in Seq(Nat) /\ buffer \in Seq(Nat)
  /\ handled \in Seq(Messages) /\ garbled \in BOOLEAN
  /\ server \in Servers /\ healthy \in BOOLEAN /\ sent \subseteq Messages
  /\ post \in [Posts -> {"idle", "posting", "taken", "pausing", "succeeded", "failed"}]
  /\ attempt \in [Posts -> 0..Attempts] /\ delivered \in [Posts -> 0..Attempts]

Init ==
  /\ opening = "idle" /\ loop = "none" /\ retry = 0 /\ again = FALSE
  /\ closed = FALSE /\ client = FALSE /\ refresher = "none"
  /\ info = NoServer /\ manager = NoServer /\ reported = NoServer
  /\ workspace = IF Asked THEN "asked" ELSE "none"
  /\ notices = <<>> /\ attached = FALSE /\ user = "there"
  /\ wire = <<>> /\ buffer = <<>> /\ handled = <<>> /\ garbled = FALSE
  /\ server \in Servers /\ healthy = FALSE /\ streams = 0 /\ sent = {}
  /\ post = [p \in Posts |-> "idle"]
  /\ attempt = [p \in Posts |-> 0] /\ delivered = [p \in Posts |-> 0]

-----------------------------------------------------------------------------
(* Frames: the length, in two digits, and the payload.                     *)

Payload(f) == [i \in 1..(IF f \in Servers THEN 1 ELSE 2) |-> f]
Framed(f) == <<Len(Payload(f)) \div Base, Len(Payload(f)) % Base>> \o Payload(f)

Length(b) == b[1] * Base + b[2]

\* The buffer begins with a frame that is there to its end.
Complete(b) == Len(b) >= 2 /\ Len(b) >= 2 + Length(b)

FirstPayload(b) == SubSeq(b, 3, 2 + Length(b))
AfterFirst(b) == SubSeq(b, 3 + Length(b), Len(b))

WorkspaceOf(s) == IF s \in Elsewhere THEN "other" ELSE "asked"

-----------------------------------------------------------------------------
(* open() and the RPC object *)

OpenBegins ==
  /\ opening = "idle" /\ user = "there"
  /\ opening' = "waiting" /\ client' = TRUE /\ loop' = "created"
  /\ UNCHANGED <<info, manager, workspace, notices, attached, reported, retry, again, wire, buffer, streams, closed,
                 refresher, user, inVars, serverVars, postVars>>

\* _cleanup, when open() has failed: there is no token refresher yet.
OpenFails ==
  /\ opening' = "failed"
  /\ loop' = "ended" /\ client' = FALSE
  /\ UNCHANGED <<info, manager, workspace, notices, attached, reported, retry, again, wire, buffer, streams, closed,
                 refresher, user, inVars, serverVars, postVars>>

RightWorkspace(s) == workspace = "none" \/ WorkspaceOf(s) = workspace

OpenTimesOut == opening = "waiting" /\ OpenFails

\* The connection info has come, or the connection was closed meanwhile.
OpenWakes ==
  /\ opening = "waiting"
  /\ closed \/ info # NoServer
  /\ IF closed \/ ~RightWorkspace(info) THEN OpenFails
     ELSE /\ opening' = "open"
          /\ manager' = info /\ workspace' = WorkspaceOf(info)
          /\ refresher' = "running"
          /\ UNCHANGED <<info, notices, attached, reported, loopVars, inVars, closed, client, user, serverVars, postVars>>

\* The RPC object is made; its on_connected reports the services.
Attaches ==
  /\ opening = "open" /\ ~attached
  /\ attached' = TRUE /\ reported' = manager
  /\ UNCHANGED <<opening, info, manager, workspace, notices, loopVars, inVars, endVars, serverVars, postVars>>

\* A plausible error: the new manager is not reported.
NoticedOnly ==
  /\ notices # <<>>
  /\ manager' = Head(notices) /\ workspace' = WorkspaceOf(Head(notices)) /\ notices' = Tail(notices)
  /\ UNCHANGED <<opening, info, attached, loopVars, inVars, endVars, serverVars, postVars>>
  /\ UNCHANGED reported

\* _handle_reconnection.
Noticed ==
  /\ notices # <<>>
  /\ manager' = Head(notices) /\ workspace' = WorkspaceOf(Head(notices)) /\ notices' = Tail(notices)
  /\ reported' = IF attached THEN Head(notices) ELSE reported
  /\ UNCHANGED <<opening, info, attached, loopVars, inVars, endVars, serverVars, postVars>>

-----------------------------------------------------------------------------
(* _stream_loop *)

LoopBegins ==
  /\ loop = "created"
  /\ loop' = "trying" /\ closed' = FALSE /\ retry' = 0 /\ again' = FALSE
  /\ UNCHANGED <<openVars, wire, buffer, streams, inVars, client, refresher, user, serverVars, postVars>>

\* A plausible error: the buffer of the previous stream is kept.
StreamBeginsAmid ==
  /\ loop = "trying" /\ streams < MaxStreams
  /\ loop' = "streaming" /\ retry' = 0 /\ streams' = streams + 1
  /\ wire' = Framed(server) /\ UNCHANGED buffer
  /\ UNCHANGED <<openVars, again, inVars, endVars, serverVars, postVars>>

\* The server answers 200, and will send its connection info first.
StreamBegins ==
  /\ loop = "trying" /\ streams < MaxStreams
  /\ loop' = "streaming" /\ retry' = 0 /\ streams' = streams + 1
  /\ wire' = Framed(server) /\ buffer' = <<>>
  /\ UNCHANGED <<openVars, again, inVars, endVars, serverVars, postVars>>

\* A plausible error: the loop ends with the first stream.
PausesForGood ==
  /\ again' = TRUE
  /\ loop' = "ended" /\ UNCHANGED retry
  /\ wire' = <<>>
  /\ UNCHANGED <<openVars, buffer, streams, inVars, endVars, serverVars, postVars>>

\* However an attempt or a stream has ended: wait and try again, unless closed.
Pauses ==
  /\ again' = TRUE
  /\ IF closed THEN loop' = "ended" /\ UNCHANGED retry
     ELSE loop' = "sleeping" /\ retry' = retry + 1
  /\ wire' = <<>>
  /\ UNCHANGED <<openVars, buffer, streams, inVars, endVars, serverVars, postVars>>

\* The server refuses, cannot be reached, or ends the stream.
StreamEnds ==
  /\ loop \in {"trying", "streaming"} /\ ~healthy
  /\ Pauses

\* The delay is longer than open() takes to notice the connection info.
Wakes ==
  /\ loop = "sleeping"
  /\ opening = "waiting" => info = NoServer
  /\ loop' = IF ~closed /\ retry < MaxRetry THEN "trying" ELSE "ended"
  /\ UNCHANGED <<openVars, retry, again, wire, buffer, streams, inVars, endVars, serverVars, postVars>>

\* Some bytes come, as many as the network likes.
Chunk ==
  /\ loop = "streaming" /\ ~Complete(buffer) /\ wire # <<>>
  /\ IF closed THEN Pauses
     ELSE \E n \in 1..Len(wire) :
            /\ buffer' = buffer \o SubSeq(wire, 1, n)
            /\ wire' = SubSeq(wire, n + 1, Len(wire))
            /\ UNCHANGED <<openVars, loop, retry, again, streams, inVars, endVars, serverVars, postVars>>

\* A frame is taken from the buffer.
Frame ==
  /\ loop = "streaming" /\ Complete(buffer)
  /\ buffer' = AfterFirst(buffer)
  /\ LET f == FirstPayload(buffer) IN
     CASE \E s \in Servers : f = Payload(s) ->
            /\ info' = f[1]
            /\ notices' = IF again THEN Append(notices, f[1]) ELSE notices
            /\ UNCHANGED inVars
       [] \E m \in Messages : f = Payload(m) ->
            /\ handled' = IF attached THEN Append(handled, f[1]) ELSE handled
            /\ UNCHANGED <<info, notices, garbled>>
       [] OTHER -> garbled' = TRUE /\ UNCHANGED <<info, notices, handled>>
  /\ UNCHANGED <<opening, manager, workspace, attached, reported, loop, retry, again, wire, streams, endVars, serverVars, postVars>>

-----------------------------------------------------------------------------
(* disconnect() *)

\* A plausible error: the stream task is not cancelled.
KeepsLoop == UNCHANGED loop

\* The stream task is cancelled, wherever it is; it need not have begun.
EndsLoop == loop' = (IF loop = "none" THEN "none" ELSE "ended")

DisconnectBegins ==
  /\ user = "there" /\ opening # "idle"
  /\ closed' = TRUE
  /\ IF refresher = "running"
     THEN user' = "ends refresher" /\ UNCHANGED loop
     ELSE user' = "ends loop" /\ EndsLoop
  /\ UNCHANGED <<openVars, retry, again, wire, buffer, streams, inVars, client, refresher, serverVars, postVars>>

DisconnectEndsLoop ==
  /\ user = "ends refresher"
  /\ user' = "ends loop" /\ refresher' = "ended" /\ EndsLoop
  /\ UNCHANGED <<openVars, retry, again, wire, buffer, streams, inVars, closed, client, serverVars, postVars>>

DisconnectEnds ==
  /\ user = "ends loop"
  /\ user' = "gone" /\ client' = FALSE
  /\ UNCHANGED <<openVars, loopVars, inVars, closed, refresher, serverVars, postVars>>

-----------------------------------------------------------------------------
(* emit_message *)

PostGoes(p, s) == post' = [post EXCEPT ![p] = s]
OnlyPosts == UNCHANGED <<openVars, loopVars, inVars, closed, refresher, user, serverVars>>

PostBegins(p) ==
  /\ post[p] = "idle" /\ attached
  /\ IF closed THEN PostGoes(p, "failed") /\ UNCHANGED <<client, attempt>>
     ELSE PostGoes(p, "posting") /\ client' = TRUE /\ attempt' = [attempt EXCEPT ![p] = 1]
  /\ OnlyPosts /\ UNCHANGED delivered

\* The server has taken the message, and may answer 200.
PostTaken(p) ==
  /\ post[p] = "posting"
  /\ PostGoes(p, "taken") /\ delivered' = [delivered EXCEPT ![p] = @ + 1]
  /\ OnlyPosts /\ UNCHANGED <<client, attempt>>

PostSucceeds(p) ==
  /\ post[p] = "taken"
  /\ PostGoes(p, "succeeded")
  /\ OnlyPosts /\ UNCHANGED <<client, attempt, delivered>>

\* An error that may go away.
PostPauses(p) == PostGoes(p, IF attempt[p] < Attempts THEN "pausing" ELSE "failed")

\* A transport error, or 400 from a server that does not know the stream.
PostBreaks(p) ==
  /\ post[p] \in {"posting", "taken"}
  /\ PostPauses(p)
  /\ OnlyPosts /\ UNCHANGED <<client, attempt, delivered>>

\* A plausible error: the caller is not told of the failure.
PostFailsQuietly(p) ==
  /\ post[p] \in {"posting", "taken"}
  /\ PostGoes(p, "succeeded")
  /\ OnlyPosts /\ UNCHANGED <<client, attempt, delivered>>

\* A timeout, or another status than 200 and 400.
PostFails(p) ==
  /\ post[p] \in {"posting", "taken"}
  /\ PostGoes(p, "failed")
  /\ OnlyPosts /\ UNCHANGED <<client, attempt, delivered>>

\* A plausible error: a new HTTP client is made for the retry.
PostAgainAnyway(p) ==
  /\ post[p] = "pausing"
  /\ attempt' = [attempt EXCEPT ![p] = @ + 1]
  /\ client' = TRUE /\ PostGoes(p, "posting")
  /\ OnlyPosts /\ UNCHANGED delivered

\* Without an HTTP client there is an AttributeError, which may go away.
PostAgain(p) ==
  /\ post[p] = "pausing"
  /\ attempt' = [attempt EXCEPT ![p] = @ + 1]
  /\ IF client THEN PostGoes(p, "posting")
     ELSE PostGoes(p, IF attempt'[p] < Attempts THEN "pausing" ELSE "failed")
  /\ OnlyPosts /\ UNCHANGED <<client, delivered>>

-----------------------------------------------------------------------------
(* The server and the network *)

\* Another server takes over; the stream of the last one has ended.
ServerRestarts ==
  /\ ~healthy /\ loop # "streaming"
  /\ server' \in Servers \ {server}
  /\ UNCHANGED <<openVars, loopVars, inVars, endVars, healthy, sent, postVars>>

ServerSends(m) ==
  /\ loop = "streaming" /\ m \notin sent
  /\ wire' = wire \o Framed(m) /\ sent' = sent \cup {m}
  /\ UNCHANGED <<openVars, loop, retry, again, buffer, streams, inVars, endVars, server, healthy, postVars>>

Heals ==
  /\ ~healthy /\ streams < MaxStreams
  /\ healthy' = TRUE
  /\ UNCHANGED <<openVars, loopVars, inVars, endVars, server, sent, postVars>>

Opens == OpenBegins \/ OpenWakes \/ Attaches \/ Noticed
Loops == LoopBegins \/ StreamBegins \/ Wakes \/ Chunk \/ Frame
Disconnects == DisconnectBegins \/ DisconnectEndsLoop \/ DisconnectEnds
PostsMessage(p) == PostBegins(p) \/ PostTaken(p) \/ PostSucceeds(p) \/ PostBreaks(p) \/ PostFails(p) \/ PostAgain(p)

Next == \/ Opens \/ OpenTimesOut \/ Loops \/ StreamEnds \/ Disconnects
        \/ \E p \in Posts : PostsMessage(p)
        \/ ServerRestarts \/ Heals \/ \E m \in Messages : ServerSends(m)

Spec == Init /\ [][Next]_vars

\* The tasks run, timeouts come, and what disconnect() waits for ends.
FairSpec == /\ Spec
            /\ WF_vars(OpenWakes) /\ WF_vars(OpenTimesOut) /\ WF_vars(Noticed)
            /\ WF_vars(Loops)
            /\ WF_vars(DisconnectEndsLoop) /\ WF_vars(DisconnectEnds)
            /\ \A p \in Posts : WF_vars(PostFails(p) \/ PostAgain(p))

-----------------------------------------------------------------------------
(* Properties *)

\* What is read from a stream is frames that the server has sent, however the bytes
\* come and wherever an earlier stream broke off.
FramesIntact == ~garbled

\* on_connected, which reports the services, is called for every server whose connection
\* info has come, and manager_id follows, in the order of the frames.
ReportedToManager == attached /\ notices = <<>> => reported = info /\ manager = info

\* After disconnect() the client is closed, and neither its HTTP client nor its stream or
\* refresh task is left or comes back.  A task of _handle_reconnection that is already
\* waiting may still run.
DisconnectFinal == user = "gone" => closed /\ ~client /\ loop \in {"none", "ended"} /\ refresher # "running"

\* No request is sent after disconnect().
SilentWhenGone ==
  [][user = "gone" => \A p \in Posts : post'[p] = "posting" => post[p] = "posting"]_vars

\* If the server stays, the stream comes back and the services are reported to it, unless
\* the client has given up, disconnected or failed to open.
StreamRecovers ==
  <>(healthy /\ loop # "none") =>
    \/ <>[](loop = "streaming" /\ (attached => reported = server))
    \/ <>(loop = "ended" /\ (retry = MaxRetry \/ user # "there" \/ opening = "failed"))

\* A message is delivered at most Attempts times, and at least once if emit_message
\* returned: more than once if a connection breaks after the server has taken it.
Contract == INSTANCE RepeatedDelivery
  WITH sending <- [p \in Posts |-> IF post[p] \in {"succeeded", "failed"} THEN post[p] ELSE "unsent"]
ImplementsContract == Contract!Spec

\* open() never ends in another workspace than the user has asked for.  This does not hold.
AskedWorkspace == opening = "open" /\ Asked => workspace = "asked"
=============================================================================
