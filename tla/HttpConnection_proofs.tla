------------------------ MODULE HttpConnection_proofs ------------------------
(***************************************************************************)
(* For any servers, messages, bounds and interleavings: the connection is  *)
(* type correct, disconnect() is final, emit_message delivers a message at *)
(* most Attempts times and, if it returns, at least once, what is read     *)
(* from a stream is frames, and every server is reported.                  *)
(*                                                                         *)
(* disconnect() and emit_message rest on invariants about different        *)
(* variables, which different actions change.  The frames rest on what the *)
(* buffer and the wire hold together, cut where one frame ends and the     *)
(* next begins, and the reports on the place the connection info has in    *)
(* that: it comes first, and once.                                         *)
(*                                                                         *)
(* At the end: if the server stays and the tasks of the client run, the    *)
(* stream comes back.  The loop goes through its stages in one direction.  *)
(***************************************************************************)
EXTENDS HttpConnection, SequenceTheorems, TLAPS

\* The stream task begins before anything comes from the server, the token refresher
\* after that, and what disconnect() has ended does not begin again.
EndInv ==
  /\ opening = "idle" => loop = "none" /\ info = NoServer /\ user = "there" /\ refresher = "none"
  /\ opening = "waiting" => refresher = "none"
  /\ loop = "created" => info = NoServer /\ opening = "waiting" /\ user = "there"
  /\ refresher = "running" \/ user = "ends refresher" => opening = "open"
  /\ user # "there" => closed = TRUE
  /\ user \in {"ends loop", "gone"} => loop \in {"none", "ended"} /\ refresher # "running"
  /\ user = "gone" => client = FALSE

\* A post has been delivered at most once in each of its attempts.
PostInv ==
  /\ post \in [Posts -> {"idle", "posting", "taken", "pausing", "succeeded", "failed"}]
  /\ attempt \in [Posts -> 0..Attempts] /\ delivered \in [Posts -> 0..Attempts]
  /\ \A p \in Posts :
       /\ delivered[p] <= attempt[p]
       /\ post[p] = "idle" => attempt[p] = 0
       /\ post[p] = "posting" => delivered[p] < attempt[p]
       /\ post[p] = "pausing" => attempt[p] < Attempts
       /\ post[p] \in {"taken", "succeeded"} => delivered[p] > 0

\* The type invariant in four parts; PostInv has the last one.  A stream is tried and
\* read with retries left.
TaskType ==
  /\ opening \in {"idle", "waiting", "open", "failed"}
  /\ loop \in {"none", "created", "trying", "streaming", "sleeping", "ended"}
  /\ retry \in 0..MaxRetry /\ streams \in 0..MaxStreams
  /\ refresher \in {"none", "running", "ended"}
  /\ user \in {"there", "ends refresher", "ends loop", "gone"}
  /\ loop \in {"trying", "streaming"} => retry < MaxRetry

FlagType ==
  /\ again \in BOOLEAN /\ closed \in BOOLEAN /\ client \in BOOLEAN
  /\ attached \in BOOLEAN /\ garbled \in BOOLEAN /\ healthy \in BOOLEAN

ServerType ==
  /\ info \in Servers \cup {NoServer} /\ manager \in Servers \cup {NoServer} /\ reported \in Servers \cup {NoServer}
  /\ workspace \in {"none", "asked", "other"}
  /\ notices \in Seq(Servers)
  /\ server \in Servers /\ sent \subseteq Messages

ByteType == wire \in Seq(Nat) /\ buffer \in Seq(Nat) /\ handled \in Seq(Messages)

-----------------------------------------------------------------------------
(* Types *)

\* The payload of a frame begins with what it stands for, so frames are told apart.
LEMMA PayloadType == ASSUME NEW f \in Servers \cup Messages PROVE Payload(f) \in Seq(Nat) /\ Payload(f)[1] = f
BY FramesAssumption DEF Payload

LEMMA PayloadsDiffer == ASSUME NEW s \in Servers, NEW m \in Messages PROVE Payload(s) # Payload(m)
BY PayloadType, FramesAssumption

LEMMA FramedType == ASSUME NEW f \in Servers \cup Messages PROVE Framed(f) \in Seq(Nat)
<1>1. Len(Payload(f)) \in {1, 2}
  BY DEF Payload
<1>2. Len(Payload(f)) \div Base \in Nat /\ Len(Payload(f)) % Base \in Nat
  BY <1>1, NumbersAssumption
<1> QED BY <1>2, PayloadType DEF Framed

\* A complete buffer without its first frame.
LEMMA AfterFirstType == ASSUME NEW b \in Seq(Nat), Complete(b) PROVE AfterFirst(b) \in Seq(Nat)
<1>1. Length(b) \in Nat
  BY NumbersAssumption DEF Complete, Length
<1>2. 3 + Length(b) \in 1..Len(b) + 1
  BY <1>1 DEF Complete
<1> QED BY <1>2 DEF AfterFirst

LEMMA OneMore == ASSUME NEW N \in Nat, NEW k \in 0..N, k < N PROVE k + 1 \in 0..N
OBVIOUS

\* The stages of the tasks.
LEMMA TaskTypeStep == TaskType /\ [Next]_vars => TaskType'
<1> SUFFICES ASSUME TaskType, [Next]_vars PROVE TaskType'
  OBVIOUS
<1>n. MaxRetry \in Nat /\ MaxRetry > 0 /\ MaxStreams \in Nat
  BY NumbersAssumption
<1>r. retry \in 0..MaxRetry /\ streams \in 0..MaxStreams
  BY DEF TaskType
<1>z. ASSUME NEW r \in {0} PROVE r \in 0..MaxRetry /\ r < MaxRetry
  BY <1>n
<1> USE DEF TaskType, openVars, loopVars, inVars, endVars, serverVars
<1>1. CASE OpenBegins
  BY <1>1 DEF OpenBegins
<1>2. CASE OpenTimesOut
  BY <1>2 DEF OpenTimesOut, OpenFails
<1>3. CASE OpenWakes
  BY <1>3 DEF OpenWakes, OpenFails
<1>4. CASE Attaches
  BY <1>4 DEF Attaches
<1>5. CASE Noticed
  BY <1>5 DEF Noticed
<1>6. CASE LoopBegins
  <2>1. loop' = "trying" /\ retry' = 0 /\ UNCHANGED <<opening, streams, refresher, user>>
    BY <1>6 DEF LoopBegins
  <2>2. retry' \in 0..MaxRetry /\ retry' < MaxRetry
    BY <1>z, <2>1
  <2> QED BY <2>1, <2>2
<1>7. CASE StreamBegins
  <2>1. loop' = "streaming" /\ retry' = 0 /\ UNCHANGED <<opening, refresher, user>>
    BY <1>7 DEF StreamBegins
  <2>2. streams < MaxStreams /\ streams' = streams + 1
    BY <1>7 DEF StreamBegins
  <2>3. retry' \in 0..MaxRetry /\ retry' < MaxRetry
    BY <1>z, <2>1
  <2>4. streams' \in 0..MaxStreams
    BY OneMore, <1>n, <1>r, <2>2, Zenon
  <2> QED BY <2>1, <2>3, <2>4
<1>8. CASE StreamEnds
  <2>1. /\ UNCHANGED <<opening, streams, refresher, user>> /\ retry < MaxRetry
        /\ \/ loop' = "ended" /\ retry' = retry
           \/ loop' = "sleeping" /\ retry' = retry + 1
    BY <1>8 DEF StreamEnds, Pauses
  <2>2. retry' \in 0..MaxRetry
    BY OneMore, <1>n, <1>r, <2>1, Zenon
  <2> QED BY <2>1, <2>2
<1>9. CASE Wakes
  BY <1>9 DEF Wakes
<1>10. CASE Chunk
  BY <1>10 DEF Chunk, Pauses
<1>11. CASE Frame
  BY <1>11 DEF Frame
<1>12. CASE DisconnectBegins
  BY <1>12 DEF DisconnectBegins, EndsLoop
<1>13. CASE DisconnectEndsLoop
  BY <1>13 DEF DisconnectEndsLoop, EndsLoop
<1>14. CASE DisconnectEnds
  BY <1>14 DEF DisconnectEnds
<1>15. CASE ServerRestarts
  BY <1>15 DEF ServerRestarts
<1>16. CASE Heals
  BY <1>16 DEF Heals
<1>17. ASSUME NEW m \in Messages, ServerSends(m) PROVE TaskType'
  BY <1>17 DEF ServerSends
<1>18. ASSUME NEW p \in Posts, PostsMessage(p) PROVE TaskType'
  BY <1>18 DEF PostsMessage, PostBegins, PostTaken, PostSucceeds, PostBreaks, PostFails, PostAgain, OnlyPosts
<1>19. CASE UNCHANGED vars
  BY <1>19 DEF vars
<1> QED BY <1>1, <1>2, <1>3, <1>4, <1>5, <1>6, <1>7, <1>8, <1>9, <1>10, <1>11, <1>12, <1>13, <1>14, <1>15, <1>16, <1>17, <1>18, <1>19
        DEF Next, Opens, Loops, Disconnects

\* The flags.
LEMMA FlagTypeStep == FlagType /\ [Next]_vars => FlagType'
<1> SUFFICES ASSUME FlagType, [Next]_vars PROVE FlagType'
  OBVIOUS
<1> USE FramesAssumption, ServersAssumption, NumbersAssumption DEF FlagType, openVars, loopVars, inVars, endVars, serverVars
<1>1. CASE OpenBegins
  BY <1>1 DEF OpenBegins
<1>2. CASE OpenTimesOut
  BY <1>2 DEF OpenTimesOut, OpenFails
<1>3. CASE OpenWakes
  BY <1>3 DEF OpenWakes, OpenFails
<1>4. CASE Attaches
  BY <1>4 DEF Attaches
<1>5. CASE Noticed
  BY <1>5 DEF Noticed
<1>6. CASE LoopBegins
  BY <1>6 DEF LoopBegins
<1>7. CASE StreamBegins
  BY <1>7 DEF StreamBegins
<1>8. CASE StreamEnds
  BY <1>8 DEF StreamEnds, Pauses
<1>9. CASE Wakes
  BY <1>9 DEF Wakes
<1>10. CASE Chunk
  BY <1>10 DEF Chunk, Pauses
<1>11. CASE Frame
  BY <1>11 DEF Frame
<1>12. CASE DisconnectBegins
  BY <1>12 DEF DisconnectBegins, EndsLoop
<1>13. CASE DisconnectEndsLoop
  BY <1>13 DEF DisconnectEndsLoop, EndsLoop
<1>14. CASE DisconnectEnds
  BY <1>14 DEF DisconnectEnds
<1>15. CASE ServerRestarts
  BY <1>15 DEF ServerRestarts
<1>16. CASE Heals
  BY <1>16 DEF Heals
<1>17. ASSUME NEW m \in Messages, ServerSends(m) PROVE FlagType'
  BY <1>17 DEF ServerSends
<1>18. ASSUME NEW p \in Posts, PostsMessage(p) PROVE FlagType'
  BY <1>18 DEF PostsMessage, PostBegins, PostTaken, PostSucceeds, PostBreaks, PostFails, PostAgain, OnlyPosts
<1>19. CASE UNCHANGED vars
  BY <1>19 DEF vars
<1> QED BY <1>1, <1>2, <1>3, <1>4, <1>5, <1>6, <1>7, <1>8, <1>9, <1>10, <1>11, <1>12, <1>13, <1>14, <1>15, <1>16, <1>17, <1>18, <1>19
        DEF Next, Opens, Loops, Disconnects

\* What is known of the servers.
LEMMA ServerTypeStep == ServerType /\ [Next]_vars => ServerType'
<1> SUFFICES ASSUME ServerType, [Next]_vars PROVE ServerType'
  OBVIOUS
<1> USE FramesAssumption, ServersAssumption, NumbersAssumption DEF ServerType, openVars, loopVars, inVars, endVars, serverVars
<1>1. CASE OpenBegins
  BY <1>1 DEF OpenBegins
<1>2. CASE OpenTimesOut
  BY <1>2 DEF OpenTimesOut, OpenFails
<1>3. CASE OpenWakes
  BY <1>3 DEF OpenWakes, OpenFails, WorkspaceOf
<1>4. CASE Attaches
  BY <1>4 DEF Attaches
<1>5. CASE Noticed
  <2>1. Head(notices) \in Servers /\ Tail(notices) \in Seq(Servers)
    BY <1>5 DEF Noticed
  <2> QED BY <1>5, <2>1 DEF Noticed, WorkspaceOf
<1>6. CASE LoopBegins
  BY <1>6 DEF LoopBegins
<1>7. CASE StreamBegins
  BY <1>7 DEF StreamBegins
<1>8. CASE StreamEnds
  BY <1>8 DEF StreamEnds, Pauses
<1>9. CASE Wakes
  BY <1>9 DEF Wakes
<1>10. CASE Chunk
  BY <1>10 DEF Chunk, Pauses
<1>11. CASE Frame
  <2>1. CASE \E s \in Servers : FirstPayload(buffer) = Payload(s)
    <3>1. FirstPayload(buffer)[1] \in Servers
      BY <2>1, PayloadType
    <3>2. info' = FirstPayload(buffer)[1] /\ notices' = IF again THEN Append(notices, info') ELSE notices
      BY <1>11, <2>1, PayloadsDiffer DEF Frame
    <3>3. UNCHANGED <<manager, reported, workspace, server, sent>>
      BY <1>11 DEF Frame
    <3> QED BY <3>1, <3>2, <3>3
  <2>2. CASE ~\E s \in Servers : FirstPayload(buffer) = Payload(s)
    BY <1>11, <2>2 DEF Frame
  <2> QED BY <2>1, <2>2
<1>12. CASE DisconnectBegins
  BY <1>12 DEF DisconnectBegins, EndsLoop
<1>13. CASE DisconnectEndsLoop
  BY <1>13 DEF DisconnectEndsLoop, EndsLoop
<1>14. CASE DisconnectEnds
  BY <1>14 DEF DisconnectEnds
<1>15. CASE ServerRestarts
  BY <1>15 DEF ServerRestarts
<1>16. CASE Heals
  BY <1>16 DEF Heals
<1>17. ASSUME NEW m \in Messages, ServerSends(m) PROVE ServerType'
  BY <1>17 DEF ServerSends
<1>18. ASSUME NEW p \in Posts, PostsMessage(p) PROVE ServerType'
  BY <1>18 DEF PostsMessage, PostBegins, PostTaken, PostSucceeds, PostBreaks, PostFails, PostAgain, OnlyPosts
<1>19. CASE UNCHANGED vars
  BY <1>19 DEF vars
<1> QED BY <1>1, <1>2, <1>3, <1>4, <1>5, <1>6, <1>7, <1>8, <1>9, <1>10, <1>11, <1>12, <1>13, <1>14, <1>15, <1>16, <1>17, <1>18, <1>19
        DEF Next, Opens, Loops, Disconnects

\* The bytes of the stream and the messages read from it.
LEMMA ByteTypeStep == ByteType /\ server \in Servers /\ [Next]_vars => ByteType'
<1> SUFFICES ASSUME ByteType, server \in Servers, [Next]_vars PROVE ByteType'
  OBVIOUS
<1> USE FramesAssumption, ServersAssumption, NumbersAssumption DEF ByteType, openVars, loopVars, inVars, endVars, serverVars
<1>1. CASE OpenBegins
  BY <1>1 DEF OpenBegins
<1>2. CASE OpenTimesOut
  BY <1>2 DEF OpenTimesOut, OpenFails
<1>3. CASE OpenWakes
  BY <1>3 DEF OpenWakes, OpenFails
<1>4. CASE Attaches
  BY <1>4 DEF Attaches
<1>5. CASE Noticed
  BY <1>5 DEF Noticed
<1>6. CASE LoopBegins
  BY <1>6 DEF LoopBegins
<1>7. CASE StreamBegins
  BY <1>7, server \in Servers, FramedType DEF StreamBegins
<1>8. CASE StreamEnds
  BY <1>8 DEF StreamEnds, Pauses
<1>9. CASE Wakes
  BY <1>9 DEF Wakes
<1>10. CASE Chunk
  <2>1. CASE closed
    BY <1>10, <2>1 DEF Chunk, Pauses
  <2>2. CASE ~closed
    <3>1. PICK n \in 1..Len(wire) : /\ buffer' = buffer \o SubSeq(wire, 1, n)
                                    /\ wire' = SubSeq(wire, n + 1, Len(wire))
      BY <1>10, <2>2 DEF Chunk
    <3>2. SubSeq(wire, 1, n) \in Seq(Nat)
      OBVIOUS
    <3>3. SubSeq(wire, n + 1, Len(wire)) \in Seq(Nat)
      OBVIOUS
    <3>4. UNCHANGED handled
      BY <1>10, <2>2 DEF Chunk
    <3> QED BY <3>1, <3>2, <3>3, <3>4
  <2> QED BY <2>1, <2>2
<1>11. CASE Frame
  <2>1. buffer' \in Seq(Nat)
    BY <1>11, AfterFirstType DEF Frame
  <2>2. CASE ~(\E s \in Servers : FirstPayload(buffer) = Payload(s)) /\ \E m \in Messages : FirstPayload(buffer) = Payload(m)
    <3>1. FirstPayload(buffer)[1] \in Messages
      BY <2>2, PayloadType
    <3>2. handled' = IF attached THEN Append(handled, FirstPayload(buffer)[1]) ELSE handled
      BY <1>11, <2>2 DEF Frame
    <3>3. UNCHANGED wire
      BY <1>11 DEF Frame
    <3> QED BY <2>1, <3>1, <3>2, <3>3
  <2>3. CASE ~(~(\E s \in Servers : FirstPayload(buffer) = Payload(s)) /\ \E m \in Messages : FirstPayload(buffer) = Payload(m))
    <3>1. UNCHANGED handled
      <4>1. CASE \E s \in Servers : FirstPayload(buffer) = Payload(s)
        BY <1>11, <4>1, PayloadsDiffer DEF Frame, inVars
      <4>2. CASE ~(\E s \in Servers : FirstPayload(buffer) = Payload(s)) /\ ~(\E m \in Messages : FirstPayload(buffer) = Payload(m))
        BY <1>11, <4>2 DEF Frame
      <4> QED BY <2>3, <4>1, <4>2
    <3> QED BY <1>11, <2>1, <3>1 DEF Frame
  <2> QED BY <2>2, <2>3
<1>12. CASE DisconnectBegins
  BY <1>12 DEF DisconnectBegins, EndsLoop
<1>13. CASE DisconnectEndsLoop
  BY <1>13 DEF DisconnectEndsLoop, EndsLoop
<1>14. CASE DisconnectEnds
  BY <1>14 DEF DisconnectEnds
<1>15. CASE ServerRestarts
  BY <1>15 DEF ServerRestarts
<1>16. CASE Heals
  BY <1>16 DEF Heals
<1>17. ASSUME NEW m \in Messages, ServerSends(m) PROVE ByteType'
  BY <1>17, FramedType DEF ServerSends
<1>18. ASSUME NEW p \in Posts, PostsMessage(p) PROVE ByteType'
  BY <1>18 DEF PostsMessage, PostBegins, PostTaken, PostSucceeds, PostBreaks, PostFails, PostAgain, OnlyPosts
<1>19. CASE UNCHANGED vars
  BY <1>19 DEF vars
<1> QED BY <1>1, <1>2, <1>3, <1>4, <1>5, <1>6, <1>7, <1>8, <1>9, <1>10, <1>11, <1>12, <1>13, <1>14, <1>15, <1>16, <1>17, <1>18, <1>19
        DEF Next, Opens, Loops, Disconnects

-----------------------------------------------------------------------------
(* disconnect() *)

endState == <<opening, info, loop, user, refresher, closed, client>>

\* The properties of disconnect() speak about these variables only.
LEMMA EndStutters == EndInv /\ UNCHANGED endState => EndInv'
BY DEF EndInv, endState

LEMMA EndInitially == Init => EndInv
BY DEF Init, EndInv

LEMMA EndStep == EndInv /\ [Next]_vars => EndInv'
<1> SUFFICES ASSUME EndInv, [Next]_vars PROVE EndInv'
  OBVIOUS
<1>1. CASE OpenBegins
  BY <1>1 DEF OpenBegins, EndInv, openVars, loopVars, endVars
<1>2. CASE OpenTimesOut
  BY <1>2 DEF OpenTimesOut, OpenFails, EndInv, openVars, loopVars, endVars
<1>3. CASE OpenWakes
  BY <1>3 DEF OpenWakes, OpenFails, EndInv, openVars, loopVars, endVars
<1>4. CASE LoopBegins
  BY <1>4 DEF LoopBegins, EndInv, openVars, loopVars, endVars
<1>5. CASE StreamBegins
  BY <1>5 DEF StreamBegins, EndInv, openVars, loopVars, endVars
<1>6. CASE Wakes
  BY <1>6 DEF Wakes, EndInv, openVars, loopVars, endVars
<1>7. CASE Chunk
  BY <1>7 DEF Chunk, Pauses, EndInv, openVars, loopVars, endVars
<1>8. CASE StreamEnds
  BY <1>8 DEF StreamEnds, Pauses, EndInv, openVars, loopVars, endVars
<1>9. CASE Frame
  BY <1>9 DEF Frame, EndInv, openVars, loopVars, endVars
<1>10. CASE DisconnectBegins
  BY <1>10 DEF DisconnectBegins, EndsLoop, EndInv, openVars, loopVars, endVars
<1>11. CASE DisconnectEndsLoop
  BY <1>11 DEF DisconnectEndsLoop, EndsLoop, EndInv, openVars, loopVars, endVars
<1>12. CASE DisconnectEnds
  BY <1>12 DEF DisconnectEnds, EndInv, openVars, loopVars, endVars
<1>13. ASSUME NEW p \in Posts, PostBegins(p) PROVE EndInv'
  BY <1>13 DEF PostBegins, PostGoes, OnlyPosts, EndInv, openVars, loopVars
<1>14. CASE Attaches
  BY <1>14, EndStutters DEF Attaches, endState, openVars, loopVars, endVars
<1>15. CASE Noticed
  BY <1>15, EndStutters DEF Noticed, endState, openVars, loopVars, endVars
<1>16. CASE Heals
  BY <1>16, EndStutters DEF Heals, endState, openVars, loopVars, endVars
<1>17. CASE ServerRestarts
  BY <1>17, EndStutters DEF ServerRestarts, endState, openVars, loopVars, endVars
<1>18. ASSUME NEW m \in Messages, ServerSends(m) PROVE EndInv'
  BY <1>18, EndStutters DEF ServerSends, endState, openVars, loopVars, endVars
<1>19. ASSUME NEW p \in Posts, PostTaken(p) PROVE EndInv'
  BY <1>19, EndStutters DEF PostTaken, PostGoes, endState, openVars, loopVars, endVars, OnlyPosts
<1>20. ASSUME NEW p \in Posts, PostSucceeds(p) PROVE EndInv'
  BY <1>20, EndStutters DEF PostSucceeds, PostGoes, endState, openVars, loopVars, endVars, OnlyPosts
<1>21. ASSUME NEW p \in Posts, PostBreaks(p) PROVE EndInv'
  BY <1>21, EndStutters DEF PostBreaks, PostPauses, PostGoes, endState, openVars, loopVars, endVars, OnlyPosts
<1>22. ASSUME NEW p \in Posts, PostFails(p) PROVE EndInv'
  BY <1>22, EndStutters DEF PostFails, PostGoes, endState, openVars, loopVars, endVars, OnlyPosts
<1>23. ASSUME NEW p \in Posts, PostAgain(p) PROVE EndInv'
  BY <1>23, EndStutters DEF PostAgain, PostGoes, endState, openVars, loopVars, endVars, OnlyPosts
<1>24. CASE UNCHANGED vars
  BY <1>24, EndStutters DEF vars, endState, openVars, loopVars, endVars
<1> QED BY <1>1, <1>2, <1>3, <1>4, <1>5, <1>6, <1>7, <1>8, <1>9, <1>10, <1>11, <1>12, <1>13, <1>14, <1>15, <1>16, <1>17, <1>18, <1>19, <1>20, <1>21, <1>22, <1>23, <1>24
        DEF Next, Opens, Loops, Disconnects, PostsMessage

LEMMA EndInvariant == Spec => []EndInv
BY EndInitially, EndStep, PTL DEF Spec

\* disconnect() leaves nothing running and nothing that could start again.
THEOREM DisconnectIsFinal == Spec => []DisconnectFinal
<1>1. EndInv => DisconnectFinal
  BY DEF EndInv, DisconnectFinal
<1> QED BY <1>1, EndInvariant, PTL

-----------------------------------------------------------------------------
(* emit_message *)

LEMMA PostStutters == PostInv /\ UNCHANGED postVars => PostInv'
BY DEF PostInv, postVars

LEMMA PostInitially == Init => PostInv
BY NumbersAssumption DEF Init, PostInv

\* Only the actions of emit_message change what is known of a post.
LEMMA OthersKeepPosts ==
  [Next]_vars => UNCHANGED postVars \/ \E p \in Posts : PostsMessage(p)
<1> SUFFICES ASSUME [Next]_vars PROVE UNCHANGED postVars \/ \E p \in Posts : PostsMessage(p)
  OBVIOUS
<1>1. CASE Opens \/ OpenTimesOut
  BY <1>1 DEF Opens, OpenBegins, OpenWakes, OpenTimesOut, OpenFails, Attaches, Noticed
<1>2. CASE Loops \/ StreamEnds
  BY <1>2 DEF Loops, StreamEnds, LoopBegins, StreamBegins, Wakes, Chunk, Frame, Pauses
<1>3. CASE Disconnects
  BY <1>3 DEF Disconnects, DisconnectBegins, DisconnectEndsLoop, DisconnectEnds
<1>4. CASE ServerRestarts \/ Heals \/ \E m \in Messages : ServerSends(m)
  BY <1>4 DEF ServerRestarts, Heals, ServerSends
<1>5. CASE UNCHANGED vars
  BY <1>5 DEF vars
<1> QED BY <1>1, <1>2, <1>3, <1>4, <1>5 DEF Next

LEMMA PostStep == PostInv /\ [Next]_vars => PostInv'
<1> SUFFICES ASSUME PostInv, NEW p \in Posts, PostsMessage(p) PROVE PostInv'
  BY OthersKeepPosts, PostStutters
<1> USE NumbersAssumption DEF PostInv, PostGoes
<1>1. CASE PostBegins(p)
  BY <1>1 DEF PostBegins
<1>2. CASE PostTaken(p)
  BY <1>2 DEF PostTaken
<1>3. CASE PostSucceeds(p)
  BY <1>3 DEF PostSucceeds
<1>4. CASE PostBreaks(p)
  BY <1>4 DEF PostBreaks, PostPauses
<1>5. CASE PostFails(p)
  BY <1>5 DEF PostFails
<1>6. CASE PostAgain(p)
  BY <1>6 DEF PostAgain
<1> QED BY <1>1, <1>2, <1>3, <1>4, <1>5, <1>6 DEF PostsMessage

LEMMA PostInvariant == Spec => []PostInv
BY PostInitially, PostStep, PTL DEF Spec

\* The connection is type correct: in particular, what is read as a message is one.
THEOREM HttpTypeCorrect == Spec => []TypeOK
<1>1. Init => TaskType /\ FlagType /\ ServerType /\ ByteType
  <2> SUFFICES ASSUME Init PROVE TaskType /\ FlagType /\ ServerType /\ ByteType
    OBVIOUS
  <2>1. TaskType
    BY NumbersAssumption DEF Init, TaskType
  <2>2. FlagType
    BY DEF Init, FlagType
  <2>3. ServerType
    BY DEF Init, ServerType
  <2>4. ByteType
    BY DEF Init, ByteType
  <2> QED BY <2>1, <2>2, <2>3, <2>4
<1>2. ServerType => server \in Servers
  BY DEF ServerType
<1>3. PostInv /\ TaskType /\ FlagType /\ ServerType /\ ByteType => TypeOK
  BY DEF PostInv, TaskType, FlagType, ServerType, ByteType, TypeOK
<1> QED BY <1>1, <1>2, <1>3, TaskTypeStep, FlagTypeStep, ServerTypeStep, ByteTypeStep, PostInvariant, PTL DEF Spec

\* After disconnect() no request is sent any more: every attempt needs the HTTP client.
THEOREM GoneIsSilent == Spec => SilentWhenGone
<1>1. ASSUME EndInv, PostInv, [Next]_vars, user = "gone", NEW q \in Posts, post'[q] = "posting"
      PROVE post[q] = "posting"
  <2>1. CASE UNCHANGED postVars
    BY <1>1, <2>1 DEF postVars
  <2>2. ASSUME NEW p \in Posts, PostsMessage(p) PROVE post[q] = "posting"
    <3>1. closed = TRUE /\ client = FALSE
      BY <1>1 DEF EndInv
    <3>2. PICK s : s # "posting" /\ post' = [post EXCEPT ![p] = s]
      BY <2>2, <3>1 DEF PostsMessage, PostBegins, PostTaken, PostSucceeds, PostBreaks, PostPauses, PostFails, PostAgain, PostGoes
    <3>3. post \in [Posts -> {"idle", "posting", "taken", "pausing", "succeeded", "failed"}]
      BY <1>1 DEF PostInv
    <3> QED BY <1>1, <3>2, <3>3
  <2> QED BY <1>1, <2>1, <2>2, OthersKeepPosts
<1>2. EndInv /\ PostInv /\ [Next]_vars
        => [user = "gone" => \A p \in Posts : post'[p] = "posting" => post[p] = "posting"]_vars
  BY <1>1
<1> QED BY <1>2, EndInvariant, PostInvariant, PTL DEF Spec, SilentWhenGone

-----------------------------------------------------------------------------
(* The abstract specification *)

\* emit_message delivers as RepeatedDelivery allows: as often as it has sent the message
\* at most, and at least once if it returns.
THEOREM PostsImplementContract == Spec => ImplementsContract
<1>1. Init => Contract!Init
  BY DEF Init, Contract!Init
<1>2. PostInv /\ [Next]_vars => [Contract!Next]_(Contract!vars)
  <2> DEFINE sending == [q \in Posts |-> IF post[q] \in {"succeeded", "failed"} THEN post[q] ELSE "unsent"]
  <2> SUFFICES ASSUME PostInv, [Next]_vars PROVE [Contract!Next]_(Contract!vars)
    OBVIOUS
  <2>1. CASE UNCHANGED postVars
    BY <2>1 DEF postVars, Contract!vars
  <2>2. ASSUME NEW p \in Posts, PostsMessage(p) PROVE [Contract!Next]_(Contract!vars)
    <3>1. CASE PostTaken(p)
      <4>1. UNCHANGED sending /\ sending[p] = "unsent"
        BY <2>2, <3>1 DEF PostTaken, PostGoes, PostInv
      <4>2. delivered[p] < Attempts
        BY <2>2, <3>1, NumbersAssumption DEF PostTaken, PostInv
      <4>3. Contract!Deliver(p)
        BY <3>1, <4>1, <4>2 DEF PostTaken, Contract!Deliver
      <4> QED BY <4>3 DEF Contract!Next
    <3>2. CASE PostSucceeds(p)
      <4>1. sending[p] = "unsent" /\ sending' = [sending EXCEPT ![p] = "succeeded"]
        BY <2>2, <3>2 DEF PostSucceeds, PostGoes, PostInv
      <4>2. delivered[p] > 0 /\ UNCHANGED delivered
        BY <2>2, <3>2 DEF PostSucceeds, PostInv
      <4>3. Contract!Succeed(p)
        BY <4>1, <4>2 DEF Contract!Succeed
      <4> QED BY <4>3 DEF Contract!Next
    <3>3. CASE ~PostTaken(p) /\ ~PostSucceeds(p)
      <4>1. UNCHANGED delivered
        BY <2>2, <3>3 DEF PostsMessage, PostBegins, PostBreaks, PostFails, PostAgain
      <4>2. post[p] \notin {"succeeded", "failed"}
        BY <2>2, <3>3 DEF PostsMessage, PostBegins, PostBreaks, PostFails, PostAgain
      <4>3. PICK s \in {"posting", "pausing", "failed"} : post' = [post EXCEPT ![p] = s]
        BY <2>2, <3>3 DEF PostsMessage, PostBegins, PostBreaks, PostPauses, PostFails, PostAgain, PostGoes
      <4>4. CASE s = "failed"
        <5>1. sending[p] = "unsent" /\ sending' = [sending EXCEPT ![p] = "failed"]
          BY <2>2, <4>2, <4>3, <4>4 DEF PostInv
        <5>2. Contract!Fail(p)
          BY <4>1, <5>1 DEF Contract!Fail
        <5> QED BY <2>2, <5>2 DEF Contract!Next
      <4>5. CASE s # "failed"
        <5>1. UNCHANGED sending
          BY <2>2, <4>2, <4>3, <4>5 DEF PostInv
        <5> QED BY <4>1, <5>1 DEF Contract!vars
      <4> QED BY <4>4, <4>5
    <3> QED BY <3>1, <3>2, <3>3
  <2> QED BY <2>1, <2>2, OthersKeepPosts
<1> QED BY <1>1, <1>2, PostInvariant, PTL DEF Spec, ImplementsContract, Contract!Spec
-----------------------------------------------------------------------------
(* What is read from a stream *)

\* The frame f begins in b after the byte k.
FrameAt(b, k, f) ==
  /\ k + Len(Framed(f)) <= Len(b)
  /\ \A j \in 1..Len(Framed(f)) : b[k + j] = Framed(f)[j]

\* b is a sequence of frames: it can be cut into them.  Only the first may be one of
\* first, the others are messages.
Frames(b, first) ==
  \E cuts \in SUBSET (0..Len(b)) :
    /\ 0 \in cuts
    /\ \A k \in cuts : k # Len(b) =>
         \E f \in Messages \cup (IF k = 0 THEN first ELSE {}) : FrameAt(b, k, f) /\ k + Len(Framed(f)) \in cuts

\* What has come of a stream and not been taken from it, with what is on its way, is
\* frames; the connection info has come with the first.
Expected == IF again \/ info = NoServer THEN Servers ELSE {}
StreamInv == loop = "streaming" => Frames(buffer \o wire, Expected)

\* The connection info that nobody is told of comes when open() waits for it; all others
\* are noticed in their order, and the last notice is of the present server.
NoticeInv ==
  /\ loop = "trying" /\ ~again => info = NoServer
  /\ loop = "sleeping" => again
  /\ notices # <<>> => notices[Len(notices)] = info
  /\ opening = "open" => info # NoServer /\ (notices = <<>> => manager = info)
  /\ attached => opening = "open" /\ reported = manager

LEMMA FramedIs ==
  ASSUME NEW f \in Servers \cup Messages
  PROVE  /\ Payload(f) \in Seq(Nat) /\ Len(Payload(f)) \in {1, 2} /\ Payload(f)[1] = f
         /\ Framed(f) \in Seq(Nat) /\ Len(Framed(f)) = 2 + Len(Payload(f))
         /\ (Framed(f)[1] * Base) + Framed(f)[2] = Len(Payload(f))
         /\ \A i \in 1..Len(Payload(f)) : Framed(f)[2 + i] = Payload(f)[i]
<1>1. Payload(f) \in Seq(Nat) /\ Len(Payload(f)) \in {1, 2} /\ Payload(f)[1] = f
  BY FramesAssumption DEF Payload
<1>2. PICK n \in {1, 2} : n = Len(Payload(f))
  BY <1>1
<1>3. Framed(f) = <<n \div Base, n % Base>> \o Payload(f)
  BY <1>2 DEF Framed
<1>4. n \div Base \in Nat /\ n % Base \in Nat /\ ((n \div Base) * Base) + (n % Base) = n
  <2>1. Base \in Nat /\ Base >= 2
    BY NumbersAssumption
  <2>2. CASE n < Base
    <3>1. n \div Base = 0 /\ n % Base = n
      BY <2>1, <2>2
    <3> QED BY <2>1, <3>1
  <2>3. CASE ~(n < Base)
    <3>1. n = 2 /\ Base = 2
      BY <2>1, <2>3
    <3>2. n \div Base = 1 /\ n % Base = 0
      BY <3>1
    <3> QED BY <3>1, <3>2
  <2> QED BY <2>2, <2>3
<1>5. Framed(f)[1] = n \div Base /\ Framed(f)[2] = n % Base
  BY <1>1, <1>3, <1>4
<1>6. Framed(f) \in Seq(Nat) /\ Len(Framed(f)) = 2 + Len(Payload(f))
  BY <1>1, <1>3, <1>4
<1>7. \A i \in 1..Len(Payload(f)) : Framed(f)[2 + i] = Payload(f)[i]
  BY <1>1, <1>3, <1>4
<1> QED BY <1>1, <1>2, <1>4, <1>5, <1>6, <1>7

\* One frame is a sequence of frames.
LEMMA OneFrame ==
  ASSUME NEW s \in Servers, NEW first, s \in first, first \subseteq Servers
  PROVE  Frames(Framed(s), first)
<1>1. Len(Framed(s)) \in Nat
  BY FramedIs
<1>2. FrameAt(Framed(s), 0, s) /\ 0 + Len(Framed(s)) = Len(Framed(s))
  BY <1>1, FramedIs DEF FrameAt
<1>3. {0, Len(Framed(s))} \in SUBSET (0..Len(Framed(s)))
  BY <1>1
<1> QED BY <1>2, <1>3 DEF Frames

\* A message may follow.
LEMMA FrameFollows ==
  ASSUME NEW b \in Seq(Nat), NEW first \in SUBSET Servers, NEW m \in Messages, Frames(b, first)
  PROVE  Frames(b \o Framed(m), first)
<1> DEFINE c == b \o Framed(m)
<1>1. PICK cuts \in SUBSET (0..Len(b)) :
        /\ 0 \in cuts
        /\ \A k \in cuts : k # Len(b) =>
             \E f \in Messages \cup (IF k = 0 THEN first ELSE {}) : FrameAt(b, k, f) /\ k + Len(Framed(f)) \in cuts
  BY DEF Frames
<1>2. Framed(m) \in Seq(Nat)
  BY FramedIs
<1>3. c \in Seq(Nat) /\ Len(c) = Len(b) + Len(Framed(m)) /\ Len(b) \in Nat /\ Len(Framed(m)) \in Nat
  BY <1>2
<1>4. \A i \in 1..Len(b) : c[i] = b[i]
  BY <1>2
<1>5. \A i \in 1..Len(Framed(m)) : c[Len(b) + i] = Framed(m)[i]
  BY <1>2
<1> HIDE DEF c
<1>6. FrameAt(c, Len(b), m)
  BY <1>3, <1>5 DEF FrameAt
<1>7. ASSUME NEW k \in cuts, NEW f \in Messages \cup first, FrameAt(b, k, f) PROVE FrameAt(c, k, f)
  <2>1. f \in Servers \cup Messages
    OBVIOUS
  <2>2. Len(Framed(f)) \in Nat
    BY <2>1, FramedIs
  <2>3. k \in Nat
    BY <1>1
  <2>4. \A j \in 1..Len(Framed(f)) : k + j \in 1..Len(b)
    BY <1>3, <1>7, <2>2, <2>3 DEF FrameAt
  <2>5. \A j \in 1..Len(Framed(f)) : c[k + j] = Framed(f)[j]
    BY <1>4, <1>7, <2>4 DEF FrameAt
  <2>6. k + Len(Framed(f)) <= Len(c)
    BY <1>3, <1>7, <2>2, <2>3 DEF FrameAt
  <2> QED BY <2>5, <2>6 DEF FrameAt
<1> DEFINE all == cuts \cup {Len(c)}
<1>8. all \in SUBSET (0..Len(c)) /\ 0 \in all
  <2>1. \A k \in 0..Len(b) : k \in 0..Len(c)
    BY <1>3
  <2>2. Len(c) \in 0..Len(c)
    BY <1>3
  <2> QED BY <1>1, <2>1, <2>2
<1>9. ASSUME NEW k \in all, k # Len(c)
      PROVE  \E f \in Messages \cup (IF k = 0 THEN first ELSE {}) : FrameAt(c, k, f) /\ k + Len(Framed(f)) \in all
  <2>1. CASE k = Len(b)
    BY <1>3, <1>6, <2>1
  <2>2. CASE k # Len(b)
    <3>1. k \in cuts
      BY <1>9
    <3>2. PICK f \in Messages \cup (IF k = 0 THEN first ELSE {}) : FrameAt(b, k, f) /\ k + Len(Framed(f)) \in cuts
      BY <1>1, <2>2, <3>1
    <3>3. f \in Messages \cup first
      BY <3>2
    <3> QED BY <1>7, <3>1, <3>2, <3>3
  <2> QED BY <2>1, <2>2
<1> HIDE DEF all
<1>10. Frames(c, first)
  BY <1>8, <1>9 DEF Frames
<1> QED BY <1>10 DEF c

\* Without its first frame, a sequence of frames is one of messages.
LEMMA FramesRest ==
  ASSUME NEW b \in Seq(Nat), NEW first \in SUBSET Servers, Frames(b, first), b # <<>>
  PROVE  \E f \in Messages \cup first :
           /\ FrameAt(b, 0, f)
           /\ Frames(SubSeq(b, Len(Framed(f)) + 1, Len(b)), {})
<1>1. PICK cuts \in SUBSET (0..Len(b)) :
        /\ 0 \in cuts
        /\ \A k \in cuts : k # Len(b) =>
             \E f \in Messages \cup (IF k = 0 THEN first ELSE {}) : FrameAt(b, k, f) /\ k + Len(Framed(f)) \in cuts
  BY DEF Frames
<1>2. Len(b) \in Nat /\ 0 # Len(b)
  OBVIOUS
<1>3. PICK f \in Messages \cup first : FrameAt(b, 0, f) /\ 0 + Len(Framed(f)) \in cuts
  BY <1>1, <1>2
<1>4. PICK L \in Nat : L = Len(Framed(f)) /\ L >= 3
  <2>1. Len(Payload(f)) \in {1, 2} /\ Len(Framed(f)) = 2 + Len(Payload(f))
    BY FramedIs
  <2>2. \E n \in {1, 2} : Len(Framed(f)) = 2 + n
    BY <2>1
  <2>3. Len(Framed(f)) \in {3, 4}
    BY <2>2
  <2>4. \A l \in {3, 4} : l \in Nat /\ l >= 3
    OBVIOUS
  <2> QED BY <2>3, <2>4, Zenon
<1>5. L <= Len(b) /\ L \in cuts
  BY <1>1, <1>3, <1>4
<1> DEFINE c == SubSeq(b, L + 1, Len(b))
<1>6. c \in Seq(Nat) /\ Len(c) = Len(b) - L /\ \A i \in 1..Len(c) : c[i] = b[L + i]
  BY <1>2, <1>4, <1>5
<1> HIDE DEF c
<1> DEFINE rest == {k \in 0..Len(c) : L + k \in cuts}
<1>7. rest \in SUBSET (0..Len(c)) /\ 0 \in rest
  BY <1>4, <1>5, <1>6
<1>8. ASSUME NEW k \in rest, k # Len(c)
      PROVE  \E g \in Messages \cup (IF k = 0 THEN {} ELSE {}) : FrameAt(c, k, g) /\ k + Len(Framed(g)) \in rest
  <2>1. k \in Nat /\ L + k \in cuts /\ L + k # Len(b) /\ L + k # 0
    BY <1>2, <1>4, <1>6, <1>8
  <2>2. PICK g \in Messages : FrameAt(b, L + k, g) /\ (L + k) + Len(Framed(g)) \in cuts
    BY <1>1, <2>1
  <2>3. PICK G \in Nat : G = Len(Framed(g))
    BY FramedIs
  <2>4. (L + k) + G <= Len(b) /\ L + (k + G) \in cuts
    BY <1>4, <2>1, <2>2, <2>3 DEF FrameAt
  <2>5. k + G <= Len(c)
    BY <1>2, <1>4, <1>6, <2>1, <2>3, <2>4
  <2>6. \A j \in 1..G : k + j \in 1..Len(c) /\ L + (k + j) = (L + k) + j
    BY <1>2, <1>4, <1>6, <2>1, <2>3, <2>5
  <2>7. \A j \in 1..G : c[k + j] = Framed(g)[j]
    BY <1>6, <2>2, <2>3, <2>6 DEF FrameAt
  <2>8. k + G \in 0..Len(c)
    BY <1>6, <2>1, <2>3, <2>5
  <2> QED BY <2>3, <2>4, <2>5, <2>7, <2>8 DEF FrameAt
<1> HIDE DEF rest
<1>9. Frames(c, {})
  BY <1>7, <1>8 DEF Frames
<1> QED BY <1>3, <1>4, <1>9 DEF c

\* Concatenation is associative, on sequences of bytes.
LEMMA Associative ==
  \A b, u, v \in Seq(Nat) : (b \o u) \o v = b \o (u \o v)
BY ConcatAssociative

\* A sequence is its first n elements and the others.
LEMMA Halves ==
  ASSUME NEW w \in Seq(Nat), NEW n \in 1..Len(w)
  PROVE  \E u, v \in Seq(Nat) : /\ u = SubSeq(w, 1, n) /\ v = SubSeq(w, n + 1, Len(w))
                                /\ u \o v = w
<1>1. SubSeq(w, 1, n) \in Seq(Nat) /\ SubSeq(w, n + 1, Len(w)) \in Seq(Nat)
  OBVIOUS
<1>2. 1 \in 1..Len(w) + 1 /\ n \in 1 - 1..Len(w) /\ Len(w) \in n..Len(w)
  OBVIOUS
<1>3. SubSeq(w, 1, n) \o SubSeq(w, n + 1, Len(w)) = SubSeq(w, 1, Len(w))
  BY <1>2, ConcatAdjacentSubSeq
<1>4. SubSeq(w, 1, Len(w)) = w
  BY SubSeqFull
<1> QED BY <1>1, <1>3, <1>4

\* The bytes that come are those that were on their way.
LEMMA BytesMove ==
  ASSUME NEW b \in Seq(Nat), NEW w \in Seq(Nat), NEW n \in 1..Len(w)
  PROVE  (b \o SubSeq(w, 1, n)) \o SubSeq(w, n + 1, Len(w)) = b \o w
<1>1. PICK u, v \in Seq(Nat) : u = SubSeq(w, 1, n) /\ v = SubSeq(w, n + 1, Len(w)) /\ u \o v = w
  BY Halves
<1>2. (b \o u) \o v = b \o (u \o v)
  BY Associative, Zenon
<1> QED BY <1>1, <1>2

\* Without its first n elements the concatenation of b and w is that of b without them and w.
LEMMA DropFirst ==
  ASSUME NEW b \in Seq(Nat), NEW w \in Seq(Nat), NEW n \in 1..Len(b)
  PROVE  SubSeq(b, n + 1, Len(b)) \o w = SubSeq(b \o w, n + 1, Len(b \o w))
<1> DEFINE c == b \o w
           u == SubSeq(b, n + 1, Len(b))
           r == SubSeq(c, n + 1, Len(c))
<1>1. PICK B \in Nat, W \in Nat : B = Len(b) /\ W = Len(w) /\ n \in Nat /\ 1 <= n /\ n <= B
  BY LenProperties
<1>2. /\ c \in Seq(Nat) /\ Len(c) = B + W
      /\ \A i \in 1..B + W : c[i] = IF i <= B THEN b[i] ELSE w[i - B]
  BY <1>1, ConcatProperties
<1> HIDE DEF c
<1>3. u \in Seq(Nat) /\ Len(u) = B - n /\ \A i \in 1..B - n : u[i] = b[n + i]
  <2>1. \A i \in n + 1..B : b[i] \in Nat
    <3> SUFFICES ASSUME NEW i \in n + 1..B PROVE b[i] \in Nat
      OBVIOUS
    <3>1. i \in 1..Len(b)
      BY <1>1
    <3> QED BY <3>1, ElementOfSeq
  <2>2. n + 1 \in Int /\ B \in Int
    BY <1>1
  <2>3. /\ u \in Seq(Nat) /\ Len(u) = IF n + 1 <= B THEN B - (n + 1) + 1 ELSE 0
        /\ \A i \in 1..B - (n + 1) + 1 : u[i] = b[n + 1 + i - 1]
    BY <1>1, <2>1, <2>2, SubSeqProperties
  <2> HIDE DEF u
  <2>4. B - (n + 1) + 1 = B - n /\ Len(u) = B - n
    BY <1>1, <2>3
  <2>5. ASSUME NEW i \in 1..B - n PROVE n + 1 + i - 1 = n + i
    BY <1>1
  <2> QED BY <2>3, <2>4, <2>5
<1>4. r \in Seq(Nat) /\ Len(r) = B + W - n /\ \A i \in 1..B + W - n : r[i] = c[n + i]
  <2>1. \A i \in n + 1..Len(c) : c[i] \in Nat
    <3> SUFFICES ASSUME NEW i \in n + 1..Len(c) PROVE c[i] \in Nat
      OBVIOUS
    <3>1. i \in 1..Len(c)
      BY <1>1, <1>2
    <3> QED BY <1>2, <3>1, ElementOfSeq
  <2>2. n + 1 \in Int /\ Len(c) \in Int
    BY <1>1, <1>2
  <2>3. /\ r \in Seq(Nat) /\ Len(r) = IF n + 1 <= Len(c) THEN Len(c) - (n + 1) + 1 ELSE 0
        /\ \A i \in 1..Len(c) - (n + 1) + 1 : r[i] = c[n + 1 + i - 1]
    BY <2>1, <2>2, SubSeqProperties
  <2> HIDE DEF r
  <2>4. Len(c) - (n + 1) + 1 = B + W - n /\ Len(r) = B + W - n
    BY <1>1, <1>2, <2>3
  <2>5. ASSUME NEW i \in 1..B + W - n PROVE n + 1 + i - 1 = n + i
    BY <1>1
  <2> QED BY <2>3, <2>4, <2>5
<1> HIDE DEF u, r
<1>5. /\ u \o w \in Seq(Nat) /\ Len(u \o w) = Len(u) + Len(w)
      /\ \A i \in 1..Len(u) + Len(w) : (u \o w)[i] = IF i <= Len(u) THEN u[i] ELSE w[i - Len(u)]
  BY <1>3, ConcatProperties
<1>6. Len(u) + Len(w) = B + W - n
  BY <1>1, <1>3
<1>7. ASSUME NEW i \in 1..B + W - n PROVE (u \o w)[i] = r[i]
  <2>1. r[i] = c[n + i] /\ n + i \in 1..B + W
    BY <1>1, <1>4
  <2>2. CASE i <= B - n
    <3>1. n + i <= B /\ i \in 1..B - n
      BY <1>1, <2>2
    <3> QED BY <1>2, <1>3, <1>5, <1>6, <2>1, <2>2, <3>1
  <2>3. CASE ~(i <= B - n)
    <3>1. ~(n + i <= B) /\ n + i - B = i - (B - n)
      BY <1>1, <2>3
    <3>2. (u \o w)[i] = w[i - (B - n)]
      BY <1>3, <1>5, <1>6, <2>3
    <3>3. c[n + i] = w[n + i - B]
      BY <1>2, <2>1, <3>1
    <3> QED BY <2>1, <3>1, <3>2, <3>3
  <2> QED BY <2>2, <2>3
<1>8. u \o w = r
  <2>1. Len(u \o w) = B + W - n
    BY <1>5, <1>6
  <2> QED BY <1>4, <1>5, <1>7, <2>1, SeqEqual
<1> QED BY <1>8 DEF u, r, c

\* What is taken from the buffer is a frame that was sent, and frames remain.
LEMMA FrameTaken ==
  ASSUME NEW b \in Seq(Nat), NEW w \in Seq(Nat), NEW first \in SUBSET Servers, Frames(b \o w, first), Complete(b)
  PROVE  \E f \in Messages \cup first :
            FirstPayload(b) = Payload(f) /\ FrameAt(b \o w, 0, f) /\ Frames(AfterFirst(b) \o w, {})
<1> DEFINE c == b \o w
<1>1. c \in Seq(Nat) /\ Len(c) = Len(b) + Len(w) /\ Len(b) \in Nat /\ Len(w) \in Nat /\ \A i \in 1..Len(b) : c[i] = b[i]
  OBVIOUS
<1>2. Len(b) >= 2 /\ Len(b) >= 2 + Length(b)
  BY DEF Complete
<1>3. c # <<>>
  BY <1>1, <1>2
<1> HIDE DEF c
<1>4. PICK f \in Messages \cup first : FrameAt(c, 0, f) /\ Frames(SubSeq(c, Len(Framed(f)) + 1, Len(c)), {})
  BY <1>1, <1>3, FramesRest DEF c
<1>5. PICK n \in {1, 2} : n = Len(Payload(f))
  BY FramedIs
<1>6. f \in Servers \cup Messages /\ Len(Framed(f)) = 2 + n /\ n \in Nat /\ Payload(f) \in Seq(Nat)
  BY <1>5, FramedIs
<1>7. \A j \in 1..2 + n : c[j] = Framed(f)[j]
  BY <1>4, <1>6 DEF FrameAt
<1>8. b[1] = Framed(f)[1] /\ b[2] = Framed(f)[2]
  <2>1. 1 \in 1..2 + n /\ 2 \in 1..2 + n /\ 1 \in 1..Len(b) /\ 2 \in 1..Len(b)
    BY <1>1, <1>2, <1>6
  <2> QED BY <1>1, <1>7, <2>1
<1>9. Length(b) = n
  BY <1>5, <1>6, <1>8, FramedIs DEF Length
<1>10. FirstPayload(b) = Payload(f)
  <2>1. FirstPayload(b) = SubSeq(b, 3, 2 + n)
    BY <1>9 DEF FirstPayload
  <2>2. SubSeq(b, 3, 2 + n) \in Seq(Nat) /\ Len(SubSeq(b, 3, 2 + n)) = n
        /\ \A i \in 1..n : SubSeq(b, 3, 2 + n)[i] = b[2 + i]
    <3>1. \A i \in 3..2 + n : b[i] \in Nat
      <4> SUFFICES ASSUME NEW i \in 3..2 + n PROVE b[i] \in Nat
        OBVIOUS
      <4>1. i \in 1..Len(b)
        BY <1>1, <1>2, <1>6, <1>9
      <4> QED BY <4>1, ElementOfSeq
    <3>2. /\ SubSeq(b, 3, 2 + n) \in Seq(Nat)
          /\ Len(SubSeq(b, 3, 2 + n)) = IF 3 <= 2 + n THEN 2 + n - 3 + 1 ELSE 0
          /\ \A i \in 1..2 + n - 3 + 1 : SubSeq(b, 3, 2 + n)[i] = b[3 + i - 1]
      <4>1. 3 \in Int /\ 2 + n \in Int
        BY <1>6
      <4> QED BY <3>1, <4>1, SubSeqProperties
    <3>3. 2 + n - 3 + 1 = n /\ 3 <= 2 + n /\ \A i \in 1..n : 3 + i - 1 = 2 + i
      <4>1. \A l \in {1, 2} : 2 + l - 3 + 1 = l /\ 3 <= 2 + l
        OBVIOUS
      <4>2. \A i \in 1..n : i \in Int
        BY <1>6
      <4>3. \A i \in Int : 3 + i - 1 = 2 + i
        OBVIOUS
      <4> QED BY <1>5, <4>1, <4>2, <4>3, Zenon
    <3> QED BY <3>2, <3>3
  <2>3. \A i \in 1..n : b[2 + i] = Payload(f)[i]
    <3> SUFFICES ASSUME NEW i \in 1..n PROVE b[2 + i] = Payload(f)[i]
      OBVIOUS
    <3>1. 2 + i \in 1..2 + n /\ 2 + i \in 1..Len(b)
      BY <1>1, <1>2, <1>6, <1>9
    <3>2. Framed(f)[2 + i] = Payload(f)[i]
      BY <1>5, <1>6, FramedIs
    <3> QED BY <1>1, <1>7, <3>1, <3>2
  <2> QED BY <1>5, <1>6, <2>1, <2>2, <2>3
<1>11. AfterFirst(b) \o w = SubSeq(c, Len(Framed(f)) + 1, Len(c))
  <2>1. PICK k \in 1..Len(b) : k = 2 + n
    BY <1>1, <1>2, <1>6, <1>9
  <2>2. AfterFirst(b) = SubSeq(b, k + 1, Len(b))
    <3>1. 3 + Length(b) = k + 1
      BY <1>6, <1>9, <2>1
    <3> QED BY <3>1 DEF AfterFirst
  <2>3. SubSeq(b, k + 1, Len(b)) \o w = SubSeq(b \o w, k + 1, Len(b \o w))
    BY DropFirst
  <2> QED BY <1>6, <2>1, <2>2, <2>3 DEF c
<1> QED BY <1>4, <1>10, <1>11 DEF c

streamState == <<loop, again, info, buffer, wire>>
noticeState == <<loop, again, info, notices, opening, manager, attached, reported>>

LEMMA StreamStutters == StreamInv /\ UNCHANGED streamState => StreamInv'
BY DEF StreamInv, streamState, Expected

LEMMA NoticeStutters == NoticeInv /\ UNCHANGED noticeState => NoticeInv'
BY DEF NoticeInv, noticeState

\* What is handed on is what was sent, and the stream goes on with messages.
LEMMA StreamStep ==
  ByteType /\ ServerType /\ NoticeInv /\ StreamInv /\ FramesIntact /\ [Next]_vars => StreamInv' /\ FramesIntact'
<1> SUFFICES ASSUME ByteType, ServerType, NoticeInv, StreamInv, FramesIntact, [Next]_vars
             PROVE  StreamInv' /\ FramesIntact'
  OBVIOUS
<1>b. buffer \in Seq(Nat) /\ wire \in Seq(Nat) /\ server \in Servers /\ info \in Servers \cup {NoServer}
  BY DEF ByteType, ServerType
<1>e. Expected \in SUBSET Servers
  BY DEF Expected
<1> USE DEF openVars, loopVars, inVars, endVars, serverVars, FramesIntact
<1>0. ASSUME loop' # "streaming", UNCHANGED garbled PROVE StreamInv' /\ FramesIntact'
  BY <1>0 DEF StreamInv
<1>k. ASSUME UNCHANGED <<loop, again, info, buffer, wire, garbled>> PROVE StreamInv' /\ FramesIntact'
  BY <1>k, StreamStutters DEF streamState
<1>1. CASE Opens \/ OpenTimesOut
  BY <1>1, <1>0, <1>k DEF Opens, OpenBegins, OpenWakes, OpenTimesOut, OpenFails, Attaches, Noticed
<1>2. CASE LoopBegins \/ Wakes \/ StreamEnds
  BY <1>2, <1>0 DEF LoopBegins, Wakes, StreamEnds, Pauses
<1>3. CASE StreamBegins
  <2>1. /\ wire' = Framed(server) /\ buffer' = <<>> /\ UNCHANGED <<again, info, garbled>> /\ loop = "trying"
    BY <1>3 DEF StreamBegins
  <2>2. Expected' = Servers
    BY <2>1 DEF NoticeInv, Expected
  <2>3. buffer' \o wire' = Framed(server)
    BY <1>b, <2>1, FramedIs, ConcatEmptySeq
  <2>4. Frames(Framed(server), Servers)
    BY <1>b, OneFrame
  <2> QED BY <2>1, <2>2, <2>3, <2>4 DEF StreamInv
<1>4. CASE Chunk
  <2>1. CASE closed
    BY <1>4, <2>1, <1>0 DEF Chunk, Pauses
  <2>2. CASE ~closed
    <3>1. PICK n \in 1..Len(wire) : /\ buffer' = buffer \o SubSeq(wire, 1, n) /\ wire' = SubSeq(wire, n + 1, Len(wire))
                                    /\ UNCHANGED <<loop, again, info, garbled>>
      BY <1>4, <2>2 DEF Chunk
    <3>2. buffer' \o wire' = buffer \o wire
      BY <1>b, <3>1, BytesMove
    <3> QED BY <3>1, <3>2 DEF StreamInv, Expected
  <2> QED BY <2>1, <2>2
<1>5. CASE Frame
  <2>1. Complete(buffer) /\ buffer' = AfterFirst(buffer) /\ UNCHANGED <<loop, again, wire>> /\ loop = "streaming"
    BY <1>5 DEF Frame
  <2>2. Frames(buffer \o wire, Expected)
    BY <2>1 DEF StreamInv
  <2>3. PICK f \in Messages \cup Expected :
          FirstPayload(buffer) = Payload(f) /\ Frames(AfterFirst(buffer) \o wire, {})
    BY <1>b, <1>e, <2>1, <2>2, FrameTaken
  <2>4. Frames(AfterFirst(buffer) \o wire, Servers)
    BY <2>3 DEF Frames
  <2>5. StreamInv'
    BY <2>1, <2>3, <2>4 DEF StreamInv, Expected
  <2>6. f \in Servers \/ f \in Messages
    BY <1>e
  <2>7. UNCHANGED garbled
    BY <1>5, <2>3, <2>6 DEF Frame
  <2> QED BY <2>5, <2>7
<1>6. CASE Disconnects
  BY <1>6, <1>0, <1>k DEF Disconnects, DisconnectBegins, DisconnectEndsLoop, DisconnectEnds, EndsLoop
<1>7. CASE ServerRestarts \/ Heals
  BY <1>7, <1>k DEF ServerRestarts, Heals
<1>8. ASSUME NEW m \in Messages, ServerSends(m) PROVE StreamInv' /\ FramesIntact'
  <2>1. wire' = wire \o Framed(m) /\ UNCHANGED <<loop, again, info, buffer, garbled>> /\ loop = "streaming"
    BY <1>8 DEF ServerSends
  <2>2. Framed(m) \in Seq(Nat)
    BY FramedIs
  <2>3. (buffer \o wire) \o Framed(m) = buffer \o (wire \o Framed(m))
    BY <1>b, <2>2, Associative
  <2>4. buffer \o wire \in Seq(Nat)
    BY <1>b, ConcatProperties
  <2>5. Frames((buffer \o wire) \o Framed(m), Expected)
    BY <1>e, <2>1, <2>4, FrameFollows DEF StreamInv
  <2> QED BY <2>1, <2>3, <2>5 DEF StreamInv, Expected
<1>9. ASSUME NEW p \in Posts, PostsMessage(p) PROVE StreamInv' /\ FramesIntact'
  BY <1>9, <1>k DEF PostsMessage, PostBegins, PostTaken, PostSucceeds, PostBreaks, PostFails, PostAgain, OnlyPosts
<1>10. CASE UNCHANGED vars
  BY <1>10, <1>k DEF vars
<1> QED BY <1>1, <1>2, <1>3, <1>4, <1>5, <1>6, <1>7, <1>8, <1>9, <1>10 DEF Next, Loops

LEMMA LastOfTail ==
  ASSUME NEW s \in Seq(Servers), s # <<>>
  PROVE  /\ Tail(s) = <<>> => Head(s) = s[Len(s)]
         /\ Tail(s) # <<>> => Tail(s)[Len(Tail(s))] = s[Len(s)]
<1>1. Tail(s) \in Seq(Servers) /\ Len(Tail(s)) = Len(s) - 1 /\ \A i \in 1..Len(Tail(s)) : Tail(s)[i] = s[i + 1]
  BY HeadTailProperties
<1>2. Len(s) \in Nat /\ Len(s) > 0 /\ Head(s) = s[1]
  OBVIOUS
<1>3. Tail(s) = <<>> => Len(Tail(s)) = 0
  BY EmptySeq
<1>4. Tail(s) # <<>> => Len(Tail(s)) \in Nat /\ Len(Tail(s)) > 0
  BY <1>1, EmptySeq
<1>5. Tail(s) = <<>> => Len(s) = 1
  BY <1>1, <1>2, <1>3
<1> QED BY <1>1, <1>2, <1>4, <1>5

\* Whoever is told of a server is told of the last one at last.
LEMMA NoticeStep ==
  ByteType /\ ServerType /\ EndInv /\ StreamInv /\ NoticeInv /\ [Next]_vars => NoticeInv'
<1> SUFFICES ASSUME ByteType, ServerType, EndInv, StreamInv, NoticeInv, [Next]_vars PROVE NoticeInv'
  OBVIOUS
<1>b. /\ buffer \in Seq(Nat) /\ wire \in Seq(Nat) /\ server \in Servers /\ info \in Servers \cup {NoServer}
      /\ notices \in Seq(Servers) /\ NoServer \notin Servers
  BY FramesAssumption DEF ByteType, ServerType
<1>e. Expected \in SUBSET Servers
  BY DEF Expected
<1> USE DEF openVars, loopVars, inVars, endVars, serverVars
<1>k. ASSUME UNCHANGED <<loop, again, info, notices, opening, manager, attached, reported>> PROVE NoticeInv'
  BY <1>k, NoticeStutters DEF noticeState
<1>l. ASSUME loop' \notin {"trying", "sleeping"}, UNCHANGED <<info, notices, opening, manager, attached, reported>>
      PROVE  NoticeInv'
  BY <1>l DEF NoticeInv
<1>1. CASE OpenBegins
  BY <1>1 DEF OpenBegins, NoticeInv
<1>2. CASE OpenTimesOut \/ OpenWakes
  <2>1. CASE OpenFails
    BY <1>2, <2>1 DEF OpenTimesOut, OpenWakes, OpenFails, NoticeInv
  <2>2. CASE ~OpenFails
    BY <1>2, <2>2 DEF OpenTimesOut, OpenWakes, NoticeInv
  <2> QED BY <2>1, <2>2
<1>3. CASE Attaches
  BY <1>3 DEF Attaches, NoticeInv
<1>4. CASE Noticed
  <2>1. /\ notices # <<>> /\ manager' = Head(notices) /\ notices' = Tail(notices)
        /\ reported' = IF attached THEN Head(notices) ELSE reported
        /\ UNCHANGED <<loop, again, info, opening, attached>>
    BY <1>4 DEF Noticed
  <2>2. /\ notices' = <<>> => manager' = info
        /\ notices' # <<>> => notices'[Len(notices')] = info
    BY <1>b, <2>1, LastOfTail DEF NoticeInv
  <2> QED BY <2>1, <2>2 DEF NoticeInv
<1>5. CASE LoopBegins
  <2>1. info = NoServer
    BY <1>5 DEF LoopBegins, EndInv
  <2> QED BY <1>5, <2>1 DEF LoopBegins, NoticeInv
<1>6. CASE StreamBegins
  BY <1>6, <1>l DEF StreamBegins
<1>7. CASE StreamEnds
  BY <1>7 DEF StreamEnds, Pauses, NoticeInv
<1>8. CASE Wakes
  BY <1>8 DEF Wakes, NoticeInv
<1>9. CASE Chunk
  <2>1. CASE closed
    BY <1>9, <2>1 DEF Chunk, Pauses, NoticeInv
  <2>2. CASE ~closed
    BY <1>9, <2>2, <1>k DEF Chunk
  <2> QED BY <2>1, <2>2
<1>10. CASE Frame
  <2>1. Complete(buffer) /\ UNCHANGED <<loop, again, opening, manager, attached, reported>> /\ loop = "streaming"
    BY <1>10 DEF Frame
  <2>2. PICK f \in Messages \cup Expected : FirstPayload(buffer) = Payload(f)
    BY <1>b, <1>e, <2>1, FrameTaken DEF StreamInv
  <2>3. CASE f \in Servers
    <3>1. f \in Expected /\ f \notin Messages
      BY <2>2, <2>3, FramesAssumption
    <3>2. again \/ info = NoServer
      BY <3>1 DEF Expected
    <3>3. Payload(f)[1] = f
      BY <2>3, PayloadType
    <3>4. info' = f /\ notices' = IF again THEN Append(notices, f) ELSE notices
      BY <1>10, <2>2, <2>3, <3>3, PayloadsDiffer DEF Frame
    <3>5. CASE again
      <4>1. notices' # <<>> /\ notices'[Len(notices')] = f
        BY <1>b, <2>3, <3>4, <3>5, AppendProperties
      <4> QED BY <1>b, <2>1, <2>3, <3>4, <3>5, <4>1 DEF NoticeInv
    <3>6. CASE ~again
      <4>1. info = NoServer /\ opening # "open" /\ ~attached
        BY <3>2, <3>6 DEF NoticeInv
      <4>2. notices = <<>>
        <5> SUFFICES ASSUME notices # <<>> PROVE FALSE
          OBVIOUS
        <5>1. Len(notices) \in 1..Len(notices)
          BY <1>b
        <5>2. notices[Len(notices)] \in Servers
          BY <1>b, <5>1, ElementOfSeq
        <5> QED BY <1>b, <4>1, <5>2 DEF NoticeInv
      <4> QED BY <2>1, <3>4, <3>6, <4>1, <4>2 DEF NoticeInv
    <3> QED BY <3>5, <3>6
  <2>4. CASE f \notin Servers
    <3>1. ~\E s \in Servers : FirstPayload(buffer) = Payload(s)
      BY <1>e, <2>2, <2>4, PayloadsDiffer
    <3>2. UNCHANGED <<info, notices>>
      BY <1>10, <2>2, <3>1 DEF Frame
    <3> QED BY <1>k, <2>1, <3>2
  <2> QED BY <2>3, <2>4
<1>11. CASE Disconnects
  BY <1>11, <1>k, <1>l DEF Disconnects, DisconnectBegins, DisconnectEndsLoop, DisconnectEnds, EndsLoop
<1>12. CASE ServerRestarts \/ Heals
  BY <1>12, <1>k DEF ServerRestarts, Heals
<1>13. ASSUME NEW m \in Messages, ServerSends(m) PROVE NoticeInv'
  BY <1>13, <1>k DEF ServerSends
<1>14. ASSUME NEW p \in Posts, PostsMessage(p) PROVE NoticeInv'
  BY <1>14, <1>k DEF PostsMessage, PostBegins, PostTaken, PostSucceeds, PostBreaks, PostFails, PostAgain, OnlyPosts
<1>15. CASE UNCHANGED vars
  BY <1>15, <1>k DEF vars
<1> QED BY <1>1, <1>2, <1>3, <1>4, <1>5, <1>6, <1>7, <1>8, <1>9, <1>10, <1>11, <1>12, <1>13, <1>14, <1>15
        DEF Next, Opens, Loops

LEMMA StreamInvariant == Spec => [](ByteType /\ ServerType /\ EndInv /\ StreamInv /\ NoticeInv /\ FramesIntact)
<1>1. Init => ByteType /\ ServerType /\ StreamInv /\ NoticeInv /\ FramesIntact
  BY DEF Init, ByteType, ServerType, StreamInv, NoticeInv, FramesIntact
<1>2. ServerType => server \in Servers
  BY DEF ServerType
<1> QED BY <1>1, <1>2, ByteTypeStep, ServerTypeStep, StreamStep, NoticeStep, EndInvariant, PTL DEF Spec

\* What is read from a stream is frames that the server has sent, however the bytes come
\* and wherever an earlier stream broke off.
THEOREM FramesReadWhole == Spec => []FramesIntact
BY StreamInvariant, PTL

\* on_connected is called for every server whose connection info has come, in the order
\* of the frames, and manager_id follows.
THEOREM EveryServerReported == Spec => []ReportedToManager
<1>1. NoticeInv => ReportedToManager
  BY DEF NoticeInv, ReportedToManager
<1> QED BY <1>1, StreamInvariant, PTL

-----------------------------------------------------------------------------
(* The stream comes back, if the tasks of the client run *)

\* What a task of the client waits for.
LoopReady ==
  \/ loop = "created"
  \/ loop = "trying" /\ streams < MaxStreams
  \/ loop = "sleeping" /\ (opening = "waiting" => info = NoServer)
  \/ loop = "streaming" /\ (Complete(buffer) \/ wire # <<>>)
OpenReady == opening = "waiting" /\ (closed \/ info # NoServer)
NoNotice == notices = <<>>

\* The fairness that StreamRecovers needs, with these conditions in place of ENABLED:
\* each of them makes the step possible.
Justice ==
  /\ []<>~LoopReady \/ []<><<Loops>>_vars
  /\ []<>~OpenReady \/ []<><<OpenWakes>>_vars
  /\ []<>NoNotice \/ []<><<Noticed>>_vars

\* The connection info of the present server is the next frame of the stream, or it has
\* been read and only messages follow.
Untold == FrameAt(buffer \o wire, 0, server) /\ Frames(buffer \o wire, {server})
Told == info = server /\ Frames(buffer \o wire, {})

\* A healthy server can be reached; closed comes from the user, and the loop ends for a
\* reason.
RoomInv == healthy /\ loop \notin {"streaming", "ended"} => streams < MaxStreams
ClosedInv == closed => user # "there"
GivenUp == loop = "ended" /\ (retry = MaxRetry \/ user # "there" \/ opening = "failed")
ReasonInv == loop = "ended" => GivenUp
TellInv == loop = "streaming" => Untold \/ Told
RecoverInv == RoomInv /\ ClosedInv /\ ReasonInv /\ TellInv

\* The frame of a connection info has three bytes.
LEMMA ServerFrame ==
  ASSUME NEW s \in Servers
  PROVE  /\ Framed(s) \in Seq(Nat) /\ Len(Framed(s)) = 3
         /\ Framed(s)[1] * Base + Framed(s)[2] = 1 /\ Framed(s)[3] = s
<1>1. Len(Payload(s)) = 1
  BY FramesAssumption DEF Payload
<1>2. 1 \in 1..Len(Payload(s))
  BY <1>1
<1>3. Framed(s)[2 + 1] = Payload(s)[1]
  BY <1>2, FramedIs
<1>4. Len(Framed(s)) = 2 + Len(Payload(s)) /\ Payload(s)[1] = s /\ Framed(s) \in Seq(Nat)
      /\ (Framed(s)[1] * Base) + Framed(s)[2] = Len(Payload(s))
  BY FramedIs
<1> QED BY <1>1, <1>3, <1>4

\* Bytes that follow do not change the frame that is there.
LEMMA FrameStays ==
  ASSUME NEW b \in Seq(Nat), NEW u \in Seq(Nat), NEW s \in Servers, FrameAt(b, 0, s)
  PROVE  FrameAt(b \o u, 0, s)
<1>1. Len(Framed(s)) = 3 /\ Len(b) \in Nat /\ Len(u) \in Nat /\ Len(b \o u) = Len(b) + Len(u)
  BY ServerFrame
<1>2. 3 <= Len(b) /\ \A j \in 1..3 : b[j] = Framed(s)[j]
  BY <1>1 DEF FrameAt
<1>3. \A j \in 1..3 : (b \o u)[j] = b[j]
  BY <1>1, <1>2
<1> QED BY <1>1, <1>2, <1>3 DEF FrameAt

\* A frame that begins like that of a server is that frame.
LEMMA SameFrame ==
  ASSUME NEW b, NEW s \in Servers, NEW f \in Servers \cup Messages, FrameAt(b, 0, s), FrameAt(b, 0, f)
  PROVE  f = s
<1>1. Len(Framed(s)) = 3 /\ Framed(s)[3] = s
  BY ServerFrame
<1>2. b[3] = s
  BY <1>1 DEF FrameAt
<1>3. Len(Payload(f)) \in {1, 2} /\ Len(Framed(f)) = 2 + Len(Payload(f)) /\ Payload(f)[1] = f
      /\ \A i \in 1..Len(Payload(f)) : Framed(f)[2 + i] = Payload(f)[i]
  BY FramedIs
<1>4. 1 \in 1..Len(Payload(f)) /\ 3 \in 1..Len(Framed(f))
  BY <1>3
<1>5. Framed(f)[3] = f
  BY <1>3, <1>4
<1>6. b[0 + 3] = Framed(f)[3]
  BY <1>4 DEF FrameAt
<1> QED BY <1>2, <1>5, <1>6

\* The connection info can be read when its three bytes have come.
LEMMA UntoldBytes ==
  ASSUME ByteType, server \in Servers, Untold
  PROVE  /\ Len(buffer) \in Nat
         /\ Len(buffer) >= 3 => Complete(buffer)
         /\ Len(buffer) < 3 => ~Complete(buffer) /\ wire # <<>>
<1> DEFINE c == buffer \o wire
<1>1. buffer \in Seq(Nat) /\ wire \in Seq(Nat) /\ Len(buffer) \in Nat /\ Len(wire) \in Nat
      /\ Len(c) = Len(buffer) + Len(wire) /\ \A i \in 1..Len(buffer) : c[i] = buffer[i]
  BY DEF ByteType
<1> HIDE DEF c
<1>2. FrameAt(c, 0, server)
  BY DEF Untold, c
<1>3. Len(c) >= 3 /\ c[1] = Framed(server)[1] /\ c[2] = Framed(server)[2]
  <2>1. 0 + Len(Framed(server)) <= Len(c) /\ \A j \in 1..Len(Framed(server)) : c[0 + j] = Framed(server)[j]
    BY <1>2 DEF FrameAt
  <2>2. Len(Framed(server)) = 3
    BY ServerFrame
  <2>3. 1 \in 1..3 /\ 2 \in 1..3 /\ 0 + 1 = 1 /\ 0 + 2 = 2 /\ 0 + 3 = 3
    OBVIOUS
  <2>4. Len(c) >= 3
    BY <1>1, <2>1, <2>2
  <2> QED BY <2>1, <2>2, <2>3, <2>4
<1>4. ASSUME Len(buffer) >= 2 PROVE Length(buffer) = 1
  <2>1. buffer[1] = c[1] /\ buffer[2] = c[2]
    BY <1>1, <1>4
  <2> QED BY <1>3, <2>1, ServerFrame DEF Length
<1>5. ASSUME Len(buffer) >= 3 PROVE Complete(buffer)
  BY <1>1, <1>4, <1>5 DEF Complete
<1>6. ASSUME Len(buffer) < 3 PROVE ~Complete(buffer) /\ wire # <<>>
  <2>1. Len(wire) # 0
    BY <1>1, <1>3, <1>6
  <2>2. ~Complete(buffer)
    <3>1. CASE Len(buffer) = 2
      BY <1>4, <3>1 DEF Complete
    <3>2. CASE Len(buffer) # 2
      <4>1. Complete(buffer) => Len(buffer) >= 2
        BY DEF Complete
      <4>2. PICK n \in Nat : n = Len(buffer)
        BY <1>1
      <4>3. ~(n >= 2)
        BY <1>6, <3>2, <4>2
      <4> QED BY <4>1, <4>2, <4>3
    <3> QED BY <3>1, <3>2
  <2> QED BY <2>1, <2>2
<1> QED BY <1>1, <1>5, <1>6

\* What a step does to a stream that goes on.
StreamGoesOn ==
  /\ Untold => \/ Untold' /\ UNCHANGED buffer /\ ~Loops
               \/ Untold' /\ Len(buffer') > Len(buffer) /\ Len(buffer) < 3
               \/ Told' /\ Len(buffer) >= 3
  /\ Told => Told' /\ (~Noticed => UNCHANGED notices)

LEMMA StreamMoves ==
  ASSUME ByteType, ServerType, [Next]_vars, loop = "streaming", loop' = "streaming"
  PROVE  StreamGoesOn
<1>b. /\ buffer \in Seq(Nat) /\ wire \in Seq(Nat) /\ server \in Servers /\ buffer \o wire \in Seq(Nat)
      /\ Len(buffer) \in Nat
  BY ConcatProperties DEF ByteType, ServerType
<1> USE DEF openVars, loopVars, inVars, endVars, serverVars
<1>l. Loops => Chunk \/ Frame
  BY DEF Loops, LoopBegins, StreamBegins, Wakes
<1>m. Chunk => Len(wire') < Len(wire)
  <2>1. ASSUME Chunk PROVE ~closed
    BY <2>1 DEF Chunk, Pauses
  <2>2. ASSUME Chunk PROVE \E n \in 1..Len(wire) : wire' = SubSeq(wire, n + 1, Len(wire))
    BY <2>1, <2>2 DEF Chunk
  <2> QED BY <1>b, <2>2
<1>n. Frame => wire' = wire /\ buffer' # buffer
  <2>1. ASSUME Frame, buffer' = buffer PROVE FALSE
    <3>1. buffer = AfterFirst(buffer) /\ Complete(buffer)
      BY <2>1 DEF Frame
    <3>2. buffer[1] \in Nat /\ buffer[2] \in Nat
      BY <1>b, <3>1 DEF Complete
    <3>3. Length(buffer) \in Nat
      BY <3>2, NumbersAssumption DEF Length
    <3>4. Len(AfterFirst(buffer)) < Len(buffer)
      BY <1>b, <3>1, <3>3 DEF AfterFirst, Complete
    <3> QED BY <3>1, <3>4
  <2> QED BY <2>1 DEF Frame
<1>1. CASE Chunk
  <2>1. PICK n \in 1..Len(wire) : /\ buffer' = buffer \o SubSeq(wire, 1, n) /\ wire' = SubSeq(wire, n + 1, Len(wire))
                                  /\ UNCHANGED <<info, notices, server>>
    BY <1>1 DEF Chunk, Pauses
  <2>2. buffer' \o wire' = buffer \o wire
    BY <1>b, <2>1, BytesMove
  <2>3. Len(buffer') > Len(buffer)
    BY <1>b, <2>1
  <2>4. Untold => Len(buffer) < 3
    BY <1>1, <1>b, UntoldBytes DEF Chunk
  <2> QED BY <2>1, <2>2, <2>3, <2>4 DEF StreamGoesOn, Untold, Told
<1>2. CASE Frame
  <2>1. Complete(buffer) /\ buffer' = AfterFirst(buffer) /\ UNCHANGED <<wire, server>>
    BY <1>2 DEF Frame
  <2>2. ASSUME Untold PROVE Told' /\ Len(buffer) >= 3
    <3>1. PICK f \in Messages \cup {server} :
            FirstPayload(buffer) = Payload(f) /\ FrameAt(buffer \o wire, 0, f) /\ Frames(AfterFirst(buffer) \o wire, {})
      BY <1>b, <2>1, <2>2, FrameTaken DEF Untold
    <3>2. f = server
      BY <1>b, <2>2, <3>1, SameFrame DEF Untold
    <3>3. info' = FirstPayload(buffer)[1] /\ Payload(server)[1] = server
      <4>1. \E s \in Servers : FirstPayload(buffer) = Payload(s)
        BY <1>b, <3>1, <3>2
      <4>2. ~\E m \in Messages : FirstPayload(buffer) = Payload(m)
        BY <1>b, <3>1, <3>2, PayloadsDiffer
      <4>3. info' = FirstPayload(buffer)[1]
        BY <1>2, <4>1, <4>2 DEF Frame
      <4> QED BY <1>b, <4>3, FramedIs
    <3>4. Len(buffer) >= 3
      BY <1>b, <2>1, <2>2, UntoldBytes
    <3> QED BY <2>1, <3>1, <3>2, <3>3, <3>4 DEF Told
  <2>3. ASSUME Told PROVE Told' /\ UNCHANGED notices
    <3>1. PICK f \in Messages : FirstPayload(buffer) = Payload(f) /\ Frames(AfterFirst(buffer) \o wire, {})
      BY <1>b, <2>1, <2>3, FrameTaken DEF Told
    <3>2. \A s \in Servers : FirstPayload(buffer) # Payload(s)
      BY <3>1, PayloadsDiffer
    <3>3. UNCHANGED <<info, notices>>
      BY <1>2, <3>1, <3>2 DEF Frame
    <3> QED BY <2>1, <2>3, <3>1, <3>3 DEF Told
  <2> QED BY <2>2, <2>3 DEF StreamGoesOn
<1>3. ASSUME NEW m \in Messages, ServerSends(m) PROVE StreamGoesOn
  <2>1. wire' = wire \o Framed(m) /\ UNCHANGED <<info, notices, buffer, server>> /\ Framed(m) \in Seq(Nat)
    BY <1>3, FramedIs DEF ServerSends
  <2>2. (buffer \o wire) \o Framed(m) = buffer \o (wire \o Framed(m))
    BY <1>b, <2>1, Associative
  <2>3. \A first \in SUBSET Servers : Frames(buffer \o wire, first) => Frames((buffer \o wire) \o Framed(m), first)
    BY <1>b, FrameFollows
  <2>4. FrameAt(buffer \o wire, 0, server) => FrameAt((buffer \o wire) \o Framed(m), 0, server)
    BY <1>b, <2>1, FrameStays
  <2>5. ~Loops
    <3>1. Len(wire') >= Len(wire) /\ Len(wire) \in Nat /\ Len(wire') \in Nat
      BY <1>b, <2>1, ConcatProperties
    <3> QED BY <1>l, <1>m, <1>n, <2>1, <3>1
  <2>6. Untold => Untold'
    BY <1>b, <2>1, <2>2, <2>3, <2>4 DEF Untold
  <2>7. Told => Told'
    BY <1>b, <2>1, <2>2, <2>3 DEF Told
  <2> QED BY <2>1, <2>5, <2>6, <2>7 DEF StreamGoesOn
<1>4. CASE UNCHANGED <<buffer, wire, server, info>> /\ (Noticed \/ UNCHANGED notices)
  <2>1. ~Loops
    BY <1>4, <1>b, <1>l, <1>m, <1>n
  <2> QED BY <1>4, <2>1 DEF StreamGoesOn, Untold, Told
<1>5. \/ Chunk \/ Frame \/ \E m \in Messages : ServerSends(m)
      \/ UNCHANGED <<buffer, wire, server, info>> /\ (Noticed \/ UNCHANGED notices)
  BY DEF Next, Opens, OpenBegins, OpenWakes, OpenFails, OpenTimesOut, Attaches, Noticed, Loops, LoopBegins, StreamBegins, Wakes,
         StreamEnds, Pauses, Disconnects, DisconnectBegins, DisconnectEndsLoop, DisconnectEnds, PostsMessage, PostBegins,
         PostTaken, PostSucceeds, PostBreaks, PostFails, PostAgain, OnlyPosts, ServerRestarts, Heals, vars
<1> QED BY <1>1, <1>2, <1>3, <1>4, <1>5

\* A new stream begins with the connection info.
LEMMA TellStep ==
  ASSUME ByteType, ServerType, RecoverInv, [Next]_vars
  PROVE  TellInv'
<1> SUFFICES ASSUME loop' = "streaming" PROVE (Untold \/ Told)'
  BY DEF TellInv
<1>1. CASE loop = "streaming"
  BY <1>1, StreamMoves DEF RecoverInv, TellInv, StreamGoesOn
<1>2. CASE loop # "streaming"
  <2>1. StreamBegins
    BY <1>2 DEF Next, Opens, OpenBegins, OpenWakes, OpenFails, OpenTimesOut, Attaches, Noticed, Loops, LoopBegins, Wakes, Chunk,
         Frame, StreamEnds, Pauses, Disconnects, DisconnectBegins, DisconnectEndsLoop, DisconnectEnds, EndsLoop, PostsMessage,
         PostBegins, PostTaken, PostSucceeds, PostBreaks, PostFails, PostAgain, OnlyPosts, ServerRestarts, ServerSends, Heals,
         vars, openVars, loopVars
  <2>2. wire' = Framed(server) /\ buffer' = <<>> /\ server' = server /\ server \in Servers
    BY <2>1 DEF StreamBegins, serverVars, ServerType
  <2>3. buffer' \o wire' = Framed(server) /\ Len(Framed(server)) = 3
    BY <2>2, ServerFrame, ConcatEmptySeq
  <2>4. FrameAt(Framed(server), 0, server)
    BY <2>3 DEF FrameAt
  <2>5. Frames(Framed(server), {server})
    BY <2>2, OneFrame
  <2> QED BY <2>2, <2>3, <2>4, <2>5 DEF Untold
<1> QED BY <1>1, <1>2

\* No step leaves the loop ended without a reason, or a healthy server out of reach.
LEMMA RecoverStep ==
  ASSUME TaskType, FlagType, EndInv, ByteType, ServerType, RecoverInv, [Next]_vars
  PROVE  RecoverInv'
<1> SUFFICES RoomInv' /\ ClosedInv' /\ ReasonInv'
  BY TellStep DEF RecoverInv
<1>0. ASSUME UNCHANGED <<healthy, loop, streams, closed, user, retry, opening>> PROVE RoomInv' /\ ClosedInv' /\ ReasonInv'
  BY <1>0 DEF RecoverInv, RoomInv, ClosedInv, ReasonInv, GivenUp
<1> USE DEF openVars, loopVars, inVars, endVars, serverVars
<1>1. CASE Opens \/ OpenTimesOut
  <2>1. CASE OpenBegins
    BY <2>1 DEF OpenBegins, RecoverInv, RoomInv, ClosedInv, ReasonInv, GivenUp, EndInv
  <2>2. CASE OpenFails
    BY <2>2 DEF OpenFails, RecoverInv, RoomInv, ClosedInv, ReasonInv, GivenUp
  <2>3. CASE OpenWakes /\ ~OpenFails
    BY <2>3 DEF OpenWakes, RecoverInv, RoomInv, ClosedInv, ReasonInv, GivenUp
  <2>4. CASE Attaches \/ Noticed
    BY <1>0, <2>4 DEF Attaches, Noticed
  <2> QED BY <1>1, <2>1, <2>2, <2>3, <2>4 DEF Opens, OpenTimesOut
<1>2. CASE LoopBegins \/ StreamBegins \/ Chunk \/ StreamEnds
  BY <1>2 DEF LoopBegins, StreamBegins, Chunk, StreamEnds, Pauses, RecoverInv, RoomInv, ClosedInv, ReasonInv, GivenUp
<1>3. CASE Wakes
  <2>1. retry \in 0..MaxRetry /\ MaxRetry \in Nat
    BY NumbersAssumption DEF TaskType
  <2>2. ~(retry < MaxRetry) => retry = MaxRetry
    BY <2>1
  <2> QED BY <1>3, <2>2 DEF Wakes, RecoverInv, RoomInv, ClosedInv, ReasonInv, GivenUp
<1>4. CASE Frame
  BY <1>0, <1>4 DEF Frame
<1>5. CASE Disconnects
  <2>1. user' # "there" /\ loop' \in {loop, "ended"} /\ UNCHANGED <<healthy, streams, retry, opening>>
    BY <1>5 DEF Disconnects, DisconnectBegins, DisconnectEndsLoop, DisconnectEnds, EndsLoop
  <2> QED BY <2>1 DEF RecoverInv, RoomInv, ClosedInv, ReasonInv, GivenUp
<1>6. CASE Heals
  BY <1>6 DEF Heals, RecoverInv, RoomInv, ClosedInv, ReasonInv, GivenUp
<1>7. CASE ServerRestarts \/ \E m \in Messages : ServerSends(m)
  BY <1>0, <1>7 DEF ServerRestarts, ServerSends
<1>8. ASSUME NEW p \in Posts, PostsMessage(p) PROVE RoomInv' /\ ClosedInv' /\ ReasonInv'
  BY <1>0, <1>8 DEF PostsMessage, PostBegins, PostTaken, PostSucceeds, PostBreaks, PostFails, PostAgain, OnlyPosts
<1>9. CASE UNCHANGED vars
  BY <1>0, <1>9 DEF vars
<1> QED BY <1>1, <1>2, <1>3, <1>4, <1>5, <1>6, <1>7, <1>8, <1>9 DEF Next, Loops

AllInv == TaskType /\ FlagType /\ EndInv /\ ByteType /\ ServerType /\ NoticeInv /\ RecoverInv

LEMMA RecoverInvariant == Spec => []AllInv
<1>1. Init => TaskType /\ FlagType /\ RecoverInv
  <2>1. 0 \in 0..MaxRetry /\ 0 \in 0..MaxStreams
    BY NumbersAssumption
  <2>2. Init => TaskType /\ FlagType
    BY <2>1 DEF Init, TaskType, FlagType
  <2>3. Init => RecoverInv
    BY DEF Init, RecoverInv, RoomInv, ClosedInv, ReasonInv, TellInv
  <2> QED BY <2>2, <2>3
<1>2. TaskType /\ FlagType /\ EndInv /\ ByteType /\ ServerType /\ RecoverInv /\ [Next]_vars => RecoverInv'
  BY RecoverStep
<1> QED BY <1>1, <1>2, TaskTypeStep, FlagTypeStep, StreamInvariant, PTL DEF Spec, AllInv

\* The stages of _stream_loop until the server is known: the connection info has not been
\* read, and n bytes of the stream have come.
Up == healthy /\ loop # "none"
Created == loop = "created"
Trying == loop = "trying"
Asleep == loop = "sleeping"
Streaming == loop = "streaming"
Waits(n) == loop = "streaming" /\ ~Told /\ Len(buffer) = n
Readable == loop = "streaming" /\ ~Told /\ Len(buffer) >= 3
Heard == loop = "streaming" /\ Told
Off == loop = "ended"

\* The loop is in one of them.
LEMMA StageThere ==
  ASSUME AllInv, Up
  PROVE  Created \/ Trying \/ Asleep \/ Waits(0) \/ Waits(1) \/ Waits(2) \/ Readable \/ Heard \/ Off
<1>1. ASSUME loop = "streaming", ~Told PROVE Waits(0) \/ Waits(1) \/ Waits(2) \/ Readable
  <2>1. Len(buffer) \in Nat
    BY DEF AllInv, ByteType
  <2>2. PICK n \in Nat : n = Len(buffer)
    BY <2>1
  <2>3. n = 0 \/ n = 1 \/ n = 2 \/ n >= 3
    OBVIOUS
  <2> QED BY <1>1, <2>2, <2>3 DEF Waits, Readable
<1> QED BY <1>1 DEF AllInv, TaskType, Up, Created, Trying, Asleep, Heard, Off

\* In every stage the loop can go on, if open() is not about to look at what has come.
LEMMA StageReady ==
  ASSUME AllInv, Up
  PROVE  /\ Created \/ Trying \/ Waits(0) \/ Waits(1) \/ Waits(2) \/ Readable => LoopReady
         /\ Asleep /\ ~OpenReady => LoopReady
<1>1. Created => LoopReady
  BY DEF Created, LoopReady
<1>2. Trying => LoopReady
  BY DEF Trying, LoopReady, Up, AllInv, RecoverInv, RoomInv
<1>3. ASSUME loop = "streaming", ~Told PROVE Complete(buffer) \/ wire # <<>>
  <2>1. Untold /\ server \in Servers
    BY <1>3 DEF AllInv, RecoverInv, TellInv, ServerType
  <2>2. Len(buffer) \in Nat /\ (Len(buffer) >= 3 => Complete(buffer)) /\ (Len(buffer) < 3 => wire # <<>>)
    BY <2>1, UntoldBytes DEF AllInv
  <2>3. PICK n \in Nat : n = Len(buffer)
    BY <2>2
  <2>4. n >= 3 \/ n < 3
    OBVIOUS
  <2> QED BY <2>2, <2>3, <2>4
<1>4. Waits(0) \/ Waits(1) \/ Waits(2) \/ Readable => LoopReady
  BY <1>3 DEF Waits, Readable, LoopReady
<1>5. Asleep /\ ~OpenReady => LoopReady
  BY DEF Asleep, OpenReady, LoopReady
<1> QED BY <1>1, <1>2, <1>4, <1>5

\* The loop goes through its stages in one direction, and out of each when it steps.
Onward ==
  /\ Up'
  /\ Created => Created' \/ Trying' \/ Off'
  /\ Asleep => Asleep' \/ Trying' \/ Off'
  /\ Trying => Trying' \/ loop' = "streaming" \/ Off'
  /\ loop = "streaming" => loop' = "streaming" \/ Off'
  /\ Off => Off'
  /\ Loops => (Created => ~Created') /\ (Asleep => ~Asleep') /\ (Trying => ~Trying')

\* Whatever happens besides can only end the loop.
LEMMA LoopGoesOn ==
  ASSUME AllInv, Up, [Next]_vars
  PROVE  Onward
<1>0. ASSUME UNCHANGED <<healthy, loop>>, ~Loops PROVE Onward
  BY <1>0 DEF Onward, Up, Created, Trying, Asleep, Off
<1> USE DEF openVars, loopVars, inVars, endVars, serverVars, Onward, Up, Created, Trying, Asleep, Off
<1>1. CASE Opens \/ OpenTimesOut
  <2>1. opening = "idle" => loop = "none"
    BY DEF AllInv, EndInv
  <2>2. healthy' = healthy /\ (loop' = loop \/ loop' = "ended")
    BY <1>1, <2>1 DEF Opens, OpenBegins, OpenWakes, OpenTimesOut, OpenFails, Attaches, Noticed
  <2>3. Loops => loop \in {"streaming", "created", "trying", "sleeping"}
    BY DEF Loops, LoopBegins, StreamBegins, Wakes, Chunk, Frame
  <2>4. CASE loop' = "ended"
    BY <2>2, <2>4
  <2>5. CASE loop' = loop
    <3>1. Loops => loop = "streaming"
      BY <2>5 DEF Loops, LoopBegins, StreamBegins, Wakes, Chunk, Frame
    <3> QED BY <2>2, <2>5, <3>1
  <2> QED BY <2>2, <2>4, <2>5
<1>2. CASE Loops
  BY <1>2 DEF Loops, LoopBegins, StreamBegins, Wakes, Chunk, Frame, Pauses
<1>3. CASE StreamEnds
  BY <1>3 DEF StreamEnds
<1>4. ASSUME healthy' = healthy, loop' = loop \/ loop' = "ended" PROVE Onward
  <2>1. CASE loop' = "ended"
    BY <1>4, <2>1
  <2>2. CASE loop' = loop
    <3>1. Loops => loop = "streaming"
      BY <2>2 DEF Loops, LoopBegins, StreamBegins, Wakes, Chunk, Frame
    <3> QED BY <1>4, <2>2, <3>1
  <2> QED BY <1>4, <2>1, <2>2
<1>5. CASE Disconnects
  BY <1>4, <1>5 DEF Disconnects, DisconnectBegins, DisconnectEndsLoop, DisconnectEnds, EndsLoop
<1>6. CASE ServerRestarts \/ Heals \/ \E m \in Messages : ServerSends(m)
  BY <1>4, <1>6 DEF ServerRestarts, Heals, ServerSends
<1>7. ASSUME NEW p \in Posts, PostsMessage(p) PROVE Onward
  BY <1>4, <1>7 DEF PostsMessage, PostBegins, PostTaken, PostSucceeds, PostBreaks, PostFails, PostAgain, OnlyPosts
<1>8. CASE UNCHANGED vars
  BY <1>4, <1>8 DEF vars
<1> HIDE DEF Onward
<1> QED BY <1>1, <1>2, <1>3, <1>5, <1>6, <1>7, <1>8 DEF Next

\* What comes of a stream is not unread, and once the server is known it stays so.
StageOrder ==
  /\ Waits(1) => ~Waits(0)'
  /\ Waits(2) => ~Waits(0)' /\ ~Waits(1)'
  /\ Readable => ~Waits(0)' /\ ~Waits(1)' /\ ~Waits(2)'
  /\ Heard => Heard' \/ ~Streaming'
  /\ Loops => (Waits(0) => ~Waits(0)') /\ (Waits(1) => ~Waits(1)') /\ (Waits(2) => ~Waits(2)') /\ (Readable => ~Readable')
  /\ Heard /\ ~Noticed => (NoNotice /\ Streaming' => NoNotice')

\* As StreamMoves says.
LEMMA StreamInOrder ==
  ASSUME AllInv, [Next]_vars
  PROVE  StageOrder
<1> USE DEF StageOrder, Waits, Readable, Heard, Streaming, NoNotice
<1>1. CASE loop # "streaming" \/ loop' # "streaming"
  BY <1>1
<1>2. CASE loop = "streaming" /\ loop' = "streaming"
  <2>1. StreamGoesOn
    BY <1>2, StreamMoves DEF AllInv
  <2>2. CASE Told
    BY <2>1, <2>2 DEF StreamGoesOn
  <2>3. CASE ~Told
    <3>1. Untold
      BY <1>2, <2>3 DEF AllInv, RecoverInv, TellInv
    <3>2. Len(buffer) \in Nat /\ Len(buffer') \in Nat
      <4>1. ByteType'
        BY ByteTypeStep DEF AllInv, ServerType
      <4> QED BY <4>1 DEF AllInv, ByteType
    <3>3. PICK n, k \in Nat : n = Len(buffer) /\ k = Len(buffer')
      BY <3>2
    <3>4. CASE UNCHANGED buffer /\ ~Loops
      BY <1>2, <2>3, <3>3, <3>4
    <3>5. CASE k > n /\ n < 3
      <4>1. k # n /\ k # 0 /\ (n = 2 => k # 1) /\ ~(n >= 3)
        BY <3>5
      <4>2. Waits(1) => ~Waits(0)'
        BY <3>3, <4>1
      <4>3. Waits(2) => ~Waits(0)' /\ ~Waits(1)'
        BY <3>3, <4>1
      <4>4. ~Readable /\ ~Heard
        BY <2>3, <3>3, <4>1
      <4>5. (Waits(0) => ~Waits(0)') /\ (Waits(1) => ~Waits(1)') /\ (Waits(2) => ~Waits(2)')
        BY <3>3, <4>1
      <4> QED BY <4>2, <4>3, <4>4, <4>5 DEF StageOrder
    <3>6. CASE Told'
      BY <2>3, <3>6
    <3> QED BY <2>1, <3>1, <3>3, <3>4, <3>5, <3>6 DEF StreamGoesOn
  <2> QED BY <2>2, <2>3
<1> HIDE DEF StageOrder
<1> QED BY <1>1, <1>2

\* open() looks at what has come once, and nothing more comes while the loop sleeps.
LEMMA OpenLooks ==
  ASSUME AllInv, [Next]_vars
  PROVE  /\ OpenWakes => ~OpenReady'
         /\ Asleep /\ Asleep' /\ ~OpenReady => ~OpenReady'
<1>1. OpenWakes => opening' # "waiting"
  BY DEF OpenWakes, OpenFails
<1>2. ASSUME loop = "sleeping", loop' = "sleeping" PROVE opening' = "waiting" => opening = "waiting" /\ UNCHANGED <<closed, info>>
  <2>1. opening = "idle" => loop = "none"
    BY DEF AllInv, EndInv
  <2>2. DisconnectBegins => refresher = "running"
    BY <1>2 DEF DisconnectBegins, EndsLoop
  <2>3. refresher = "running" => opening = "open"
    BY DEF AllInv, EndInv
  <2>4. DisconnectBegins => opening' = "open"
    BY <2>2, <2>3 DEF DisconnectBegins, openVars
  <2> QED BY <1>2, <2>1, <2>4 DEF Next, Opens, OpenBegins, OpenWakes, OpenFails, OpenTimesOut, Attaches, Noticed, Loops,
         LoopBegins, StreamBegins, Wakes, Chunk, Frame, StreamEnds, Pauses, Disconnects, DisconnectEndsLoop, DisconnectEnds,
         PostsMessage, PostBegins, PostTaken, PostSucceeds, PostBreaks, PostFails, PostAgain, OnlyPosts, ServerRestarts,
         ServerSends, Heals, vars, openVars, loopVars, endVars
<1> QED BY <1>1, <1>2 DEF OpenReady, Asleep

\* So the server is heard of, or the loop ends.
LEMMA HeardOrOff == Spec /\ Justice => (<>Up => <>[]Heard \/ <>Off)
<1>1. AllInv /\ Up => Created \/ Trying \/ Asleep \/ Waits(0) \/ Waits(1) \/ Waits(2) \/ Readable \/ Heard \/ Off
  BY StageThere
<1>2. AllInv /\ Up => /\ Created \/ Trying \/ Waits(0) \/ Waits(1) \/ Waits(2) \/ Readable => LoopReady
                      /\ Asleep /\ ~OpenReady => LoopReady
  BY StageReady
<1>3. /\ Waits(0) \/ Waits(1) \/ Waits(2) \/ Readable \/ Heard => Streaming
      /\ Created => ~Trying /\ ~Asleep /\ ~Streaming /\ ~Off
      /\ Trying => ~Asleep /\ ~Streaming /\ ~Off
      /\ Asleep => ~Streaming /\ ~Off
      /\ Streaming => ~Off
  BY DEF Waits, Readable, Heard, Streaming, Created, Trying, Asleep, Off
<1>4. AllInv /\ Up /\ [Next]_vars =>
        /\ Up'
        /\ Created => Created' \/ Trying' \/ Off'
        /\ Asleep => Asleep' \/ Trying' \/ Off'
        /\ Trying => Trying' \/ Streaming' \/ Off'
        /\ Streaming => Streaming' \/ Off'
  BY LoopGoesOn DEF Onward, Streaming
<1>5. AllInv /\ Up /\ [Next]_vars /\ <<Loops>>_vars =>
        (Created => ~Created') /\ (Asleep => ~Asleep') /\ (Trying => ~Trying')
  BY LoopGoesOn DEF Onward
<1>6. AllInv /\ [Next]_vars =>
        /\ Waits(1) => ~Waits(0)'
        /\ Waits(2) => ~Waits(0)' /\ ~Waits(1)'
        /\ Readable => ~Waits(0)' /\ ~Waits(1)' /\ ~Waits(2)'
        /\ Heard => Heard' \/ ~Streaming'
  BY StreamInOrder DEF StageOrder
<1>7. AllInv /\ [Next]_vars /\ <<Loops>>_vars =>
        (Waits(0) => ~Waits(0)') /\ (Waits(1) => ~Waits(1)') /\ (Waits(2) => ~Waits(2)') /\ (Readable => ~Readable')
  BY StreamInOrder DEF StageOrder
<1>8. AllInv /\ [Next]_vars => /\ <<OpenWakes>>_vars => ~OpenReady'
                               /\ Asleep /\ Asleep' /\ ~OpenReady => ~OpenReady'
  BY OpenLooks
<1>9. Spec => []AllInv
  BY RecoverInvariant
<1> QED BY <1>1, <1>2, <1>3, <1>4, <1>5, <1>6, <1>7, <1>8, <1>9, PTL DEF Spec, Justice

\* What StreamRecovers promises, but for the notices: the stream comes back for good,
\* and the client has read what server it comes from.
StreamComesBack ==
  <>(healthy /\ loop # "none") => <>[](loop = "streaming" /\ info = server) \/ <>GivenUp

\* If the tasks of the client run and the server stays, _stream_loop gets a stream that does not
\* end any more and reads its connection info, unless it has ended for one of its reasons.
THEOREM StreamAlwaysComesBack == Spec /\ Justice => StreamComesBack
<1>1. Heard => loop = "streaming" /\ info = server
  BY DEF Heard, Told
<1>2. AllInv => (Off => GivenUp)
  BY DEF AllInv, RecoverInv, ReasonInv, Off
<1>3. Up <=> healthy /\ loop # "none"
  BY DEF Up
<1> QED BY <1>1, <1>2, <1>3, HeardOrOff, RecoverInvariant, PTL DEF StreamComesBack

\* The services are then reported to that server, unless _handle_reconnection is run forever.
THEOREM StreamRecoversOrNotices == Spec /\ Justice => StreamRecovers \/ []<><<Noticed>>_vars
<1> DEFINE Settled == loop = "streaming" /\ (attached => reported = server)
           Given == loop = "ended" /\ (retry = MaxRetry \/ user # "there" \/ opening = "failed")
<1>1. AllInv => (Off => Given)
  BY DEF AllInv, RecoverInv, ReasonInv, Off, GivenUp
<1>2. Up <=> healthy /\ loop # "none"
  BY DEF Up
<1>3. AllInv => (Heard /\ NoNotice => Settled)
  BY DEF AllInv, NoticeInv, Heard, Told, NoNotice
<1>4. AllInv /\ [Next]_vars => (Heard /\ NoNotice /\ Heard' /\ ~<<Noticed>>_vars => NoNotice')
  <2>1. ASSUME vars' = vars PROVE NoNotice => NoNotice'
    BY <2>1 DEF vars, openVars, NoNotice
  <2>2. AllInv /\ [Next]_vars => (Heard /\ NoNotice /\ Heard' /\ ~Noticed => NoNotice')
    BY StreamInOrder DEF StageOrder, Heard, Streaming
  <2> QED BY <2>1, <2>2
<1>5. Spec => []AllInv
  BY RecoverInvariant
<1>6. Spec /\ Justice => (<>Up => <>[]Heard \/ <>Off)
  BY HeardOrOff
<1>7. Spec /\ Justice => (<>Up => <>[]Settled \/ <>Given) \/ []<><<Noticed>>_vars
  <2> HIDE DEF Settled, Given
  <2> QED BY <1>1, <1>3, <1>4, <1>5, <1>6, PTL DEF Spec, Justice
<1>8. <>Up <=> <>(healthy /\ loop # "none")
  BY <1>2, PTL
<1> QED BY <1>7, <1>8 DEF StreamRecovers

\* Once the client has heard of the present server no notice is added to those it has, and
\* so _handle_reconnection is run for each of them and no more.
NoticesDrain ==
  [][loop = "streaming" /\ Told /\ loop' = "streaming" =>
       Told' /\ (notices' = notices \/ (Noticed /\ notices' = Tail(notices)))]_vars

\* The tasks of _handle_reconnection that are left when the stream has come back are run one by
\* one and get no more of them.
THEOREM NoticesComeToAnEnd == Spec => NoticesDrain
<1>1. AllInv /\ [Next]_vars =>
        [loop = "streaming" /\ Told /\ loop' = "streaming" =>
           Told' /\ (notices' = notices \/ (Noticed /\ notices' = Tail(notices)))]_vars
  BY StreamMoves DEF AllInv, StreamGoesOn, Noticed
<1> QED BY <1>1, RecoverInvariant, PTL DEF Spec, NoticesDrain
=============================================================================
