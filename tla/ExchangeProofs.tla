--------------------------- MODULE ExchangeProofs ---------------------------
(***************************************************************************)
(* Proofs about the Java status exchange: about StatusExchange for any     *)
(* tokens, any deadlines and a foreign program that sends any number of    *)
(* packets, and about Codec for any base and width of its numbers, any     *)
(* limits, any jobs and any streams.                                       *)
(***************************************************************************)
EXTENDS StatusExchange, Codec, SequenceTheorems, WellFoundedInduction, TLAPS

-----------------------------------------------------------------------------
(* The status exchange *)

(* The inductive invariant, as a conjunction of named parts. *)

\* Who has ended has closed the connection, and nobody else has.
Closing ==
    /\ foreign # "client" => (clientClosed <=> client \in {"ok", "err"})
    /\ foreign # "server" => (serverClosed <=> server \in {"done", "err"})

Drawn ==
    /\ client \in {"ping", "pong", "ok"} => token \in Tokens
    /\ server \in {"pong", "done"} => echoed \in Tokens

\* What each side has read when it has come so far, against any peer.
ClientTrack ==
    /\ client \in {"handshake", "request", "status"} => clientRead = <<>>
    /\ client \in {"token", "ping", "pong"} =>
          \E p \in ForeignPackets :
              clientRead = <<p>> /\ (p = StatusPacket("object") \/ IsProbe)
    /\ client = "ok" =>
          \E p \in ForeignPackets :
              /\ clientRead = <<p, PongPacket(token)>>
              /\ p = StatusPacket("object") \/ IsProbe

Handshakes == {HandshakePacket, OtherHandshake}

ServerTrack ==
    /\ server = "handshake" => serverRead = <<>>
    /\ server = "request" => \E h \in Handshakes : serverRead = <<h>>
    /\ server \in {"status", "ping"} => \E h \in Handshakes : serverRead = <<h, RequestPacket>>
    /\ server \in {"pong", "done"} =>
          \E h \in Handshakes : serverRead = <<h, RequestPacket, PingPacket(echoed)>>

\* Where the other side can be, and what is under way, when both sides are the
\* repository's own and the client is at a given step.
AtHandshake == server = "handshake" /\ toServer = <<>> /\ toClient = <<>>
AtRequest ==
    /\ toClient = <<>>
    /\ \/ server = "handshake" /\ toServer = <<HandshakePacket>>
       \/ server = "request" /\ toServer = <<>>
AtStatus ==
    \/ server = "handshake" /\ toServer = <<HandshakePacket, RequestPacket>> /\ toClient = <<>>
    \/ server = "request" /\ toServer = <<RequestPacket>> /\ toClient = <<>>
    \/ server = "status" /\ toServer = <<>> /\ toClient = <<>>
    \/ server = "ping" /\ toServer = <<>> /\ toClient = <<StatusPacket(status)>>
AtToken == server = "ping" /\ toServer = <<>> /\ toClient = <<>>
AtPong ==
    \/ server = "ping" /\ toServer = <<PingPacket(token)>> /\ toClient = <<>>
    \/ server = "pong" /\ echoed = token /\ toServer = <<>> /\ toClient = <<>>
    \/ server = "done" /\ echoed = token /\ toServer = <<>> /\ toClient = <<PongPacket(token)>>
AtOk == server = "done" /\ echoed = token /\ toServer = <<>> /\ toClient = <<>>

Talk ==
    /\ client = "handshake" => AtHandshake
    /\ client = "request" => AtRequest
    /\ client = "status" => AtStatus
    /\ client \in {"token", "ping"} => AtToken
    /\ client = "pong" => AtPong
    /\ client = "ok" => AtOk

\* The server gave up before the client did: its deadline has passed, and at
\* most the status is still under way.
LeftAlone ==
    /\ now >= ServerDeadline
    /\ client # "ok"
    /\ \/ toClient = <<>>
       \/ client = "status" /\ toClient = <<StatusPacket(status)>>

Conversation ==
    foreign = "none" /\ client # "err" =>
        IF server = "err" THEN LeftAlone ELSE Talk

IInv ==
    /\ TypeOK
    /\ Closing /\ Drawn /\ ClientTrack /\ ServerTrack /\ Conversation
    /\ HealthyFailsOnlyByTime

-----------------------------------------------------------------------------
(* Packets *)

\* The two clients send the same packets, and a pong has the form of a ping.
LEMMA SamePackets ==
    /\ ProbeHandshakePacket = HandshakePacket
    /\ ProbeRequestPacket = RequestPacket
    /\ \A t : ProbePingPacket(t) = PingPacket(t) /\ PongPacket(t) = PingPacket(t)
BY DEF ProbeHandshakePacket, HandshakePacket, ProbeRequestPacket, RequestPacket,
       ProbePingPacket, PingPacket, PongPacket

\* The packets of the protocol are among those that can be met.
LEMMA KnownPackets ==
    /\ HandshakePacket \in ForeignPackets /\ RequestPacket \in ForeignPackets
    /\ StatusPacket("object") \in ForeignPackets /\ StatusPacket("array") \in ForeignPackets
    /\ \A t \in Tokens : PingPacket(t) \in ForeignPackets /\ PongPacket(t) \in ForeignPackets
<1>1. /\ HandshakePacket \in ForeignPackets /\ RequestPacket \in ForeignPackets
      /\ StatusPacket("object") \in ForeignPackets /\ StatusPacket("array") \in ForeignPackets
      BY Zenon DEF ForeignPackets
<1>2. \A t \in Tokens : PongPacket(t) \in ForeignPackets
      BY Zenon DEF ForeignPackets
<1>. QED  BY <1>1, <1>2, SamePackets

\* Each check accepts the packet that the other side sends.
LEMMA Accepted ==
    /\ IsHandshake(HandshakePacket)
    /\ IsRequest(RequestPacket)
    /\ \A t : IsPing(PingPacket(t)) /\ PingPacket(t)[2].value = t
    /\ IsStatus(StatusPacket("object"))
    /\ \A s : ProbeAcceptsStatus(StatusPacket(s))
    /\ \A t : IsPong(PongPacket(t), t) /\ ProbeAcceptsPong(PongPacket(t), t)
<1>1. IsHandshake(HandshakePacket)
      BY DEF IsHandshake, HandshakePacket, VarInt, Str, Port
<1>2. IsRequest(RequestPacket)
      BY DEF IsRequest, RequestPacket
<1>3. \A t : IsPing(PingPacket(t)) /\ PingPacket(t)[2].value = t
      BY DEF IsPing, PingPacket, VarInt, Token
<1>4. IsStatus(StatusPacket("object"))
      BY DEF IsStatus, StatusPacket
<1>5. \A s : ProbeAcceptsStatus(StatusPacket(s))
      BY DEF ProbeAcceptsStatus, StatusPacket, VarInt, Str
<1>6. \A t : IsPong(PongPacket(t), t) /\ ProbeAcceptsPong(PongPacket(t), t)
      BY DEF IsPong, ProbeAcceptsPong, PongPacket
<1>. QED  BY <1>1, <1>2, <1>3, <1>4, <1>5, <1>6

\* Each check accepts only that packet.
LEMMA Recognised ==
    ASSUME NEW p \in ForeignPackets
    PROVE  /\ IsHandshake(p) => p \in Handshakes
           /\ IsRequest(p) => p = RequestPacket
           /\ IsPing(p) => p[2].value \in Tokens /\ p = PingPacket(p[2].value)
           /\ IsStatus(p) => p = StatusPacket("object")
           /\ \A t : IsPong(p, t) \/ ProbeAcceptsPong(p, t) => p = PongPacket(t)
<1>. USE DEF VarInt, Str, Port, Token, Handshakes
<1>1. CASE p = <<>>
      BY <1>1 DEF IsHandshake, IsRequest, IsPing, IsStatus, IsPong, ProbeAcceptsPong
<1>2. CASE p = HandshakePacket
      BY <1>2 DEF HandshakePacket, IsHandshake, IsRequest, IsPing, IsStatus, IsPong, ProbeAcceptsPong
<1>11. CASE p = OtherHandshake
      BY <1>11 DEF OtherHandshake, IsHandshake, IsRequest, IsPing, IsStatus, IsPong, ProbeAcceptsPong
<1>3. CASE p = RequestPacket
      BY <1>3 DEF RequestPacket, IsHandshake, IsRequest, IsPing, IsStatus, IsPong, ProbeAcceptsPong
<1>4. CASE p = HandshakePacket \o <<VarInt(0)>>
      BY <1>4 DEF HandshakePacket, IsHandshake, IsRequest, IsPing, IsStatus, IsPong, ProbeAcceptsPong
<1>5. CASE p = <<VarInt(0), VarInt(-1), Str("host"), Port, VarInt(2)>>
      BY <1>5 DEF IsHandshake, IsRequest, IsPing, IsStatus, IsPong, ProbeAcceptsPong
<1>6. ASSUME NEW s \in {"object", "array", "broken"}, p = StatusPacket(s)
      PROVE  /\ ~ IsHandshake(p) /\ ~ IsRequest(p) /\ ~ IsPing(p)
             /\ IsStatus(p) => s = "object"
             /\ \A t : ~ IsPong(p, t) /\ ~ ProbeAcceptsPong(p, t)
      BY <1>6 DEF StatusPacket, IsHandshake, IsRequest, IsPing, IsStatus, IsPong, ProbeAcceptsPong
<1>7. CASE p = StatusPacket("object") \o <<VarInt(0)>>
      BY <1>7 DEF StatusPacket, IsHandshake, IsRequest, IsPing, IsStatus, IsPong, ProbeAcceptsPong
<1>8. CASE p = <<VarInt(1), Str("object")>>
      BY <1>8 DEF IsHandshake, IsRequest, IsPing, IsStatus, IsPong, ProbeAcceptsPong
<1>9. ASSUME NEW t \in Tokens, p = PongPacket(t)
      PROVE  /\ ~ IsHandshake(p) /\ ~ IsRequest(p) /\ ~ IsStatus(p)
             /\ p[2].value = t
             /\ \A u : IsPong(p, u) \/ ProbeAcceptsPong(p, u) => u = t
      BY <1>9 DEF PongPacket, IsHandshake, IsRequest, IsPing, IsStatus, IsPong, ProbeAcceptsPong
<1>10. ASSUME NEW t \in Tokens, p = <<VarInt(0), Token(t)>>
      PROVE  /\ ~ IsHandshake(p) /\ ~ IsRequest(p) /\ ~ IsStatus(p) /\ ~ IsPing(p)
             /\ \A u : ~ IsPong(p, u) /\ ~ ProbeAcceptsPong(p, u)
      BY <1>10 DEF IsHandshake, IsRequest, IsPing, IsStatus, IsPong, ProbeAcceptsPong
<1>. QED  BY <1>1, <1>2, <1>3, <1>4, <1>5, <1>6, <1>7, <1>8, <1>9, <1>10, <1>11, SamePackets
          DEF ForeignPackets

-----------------------------------------------------------------------------
(* Streams *)

\* A packet more, in streams of one and of two packets.
LEMMA AppendToOne ==
    ASSUME NEW a, NEW b
    PROVE  Append(<<a>>, b) = <<a, b>>
<1>. DEFINE S == {a, b}
<1>1. <<a, b>> \in Seq(S) /\ Append(<<a>>, b) \in Seq(S)
      OBVIOUS
<1>2. /\ Len(Append(<<a>>, b)) = 2
      /\ Append(<<a>>, b)[1] = a /\ Append(<<a>>, b)[2] = b
      OBVIOUS
<1>3. Len(<<a, b>>) = 2 /\ <<a, b>>[1] = a /\ <<a, b>>[2] = b
      OBVIOUS
<1>. HIDE DEF S
<1>4. \A i \in 1 .. 2 : Append(<<a>>, b)[i] = <<a, b>>[i]
      BY <1>2, <1>3
<1>. QED  BY <1>1, <1>2, <1>3, <1>4, SeqEqual

LEMMA AppendToTwo ==
    ASSUME NEW a, NEW b, NEW c
    PROVE  Append(<<a, b>>, c) = <<a, b, c>>
<1>. DEFINE S == {a, b, c}
<1>1. <<a, b, c>> \in Seq(S) /\ Append(<<a, b>>, c) \in Seq(S)
      OBVIOUS
<1>2. /\ Len(Append(<<a, b>>, c)) = 3
      /\ Append(<<a, b>>, c)[1] = a /\ Append(<<a, b>>, c)[2] = b
      /\ Append(<<a, b>>, c)[3] = c
      OBVIOUS
<1>3. /\ Len(<<a, b, c>>) = 3
      /\ <<a, b, c>>[1] = a /\ <<a, b, c>>[2] = b /\ <<a, b, c>>[3] = c
      OBVIOUS
<1>. HIDE DEF S
<1>4. \A i \in 1 .. 3 : Append(<<a, b>>, c)[i] = <<a, b, c>>[i]
      BY <1>2, <1>3
<1>. QED  BY <1>1, <1>2, <1>3, <1>4, SeqEqual

LEMMA ShortStreams ==
    /\ \A a : Append(<<>>, a) = <<a>> /\ Head(<<a>>) = a /\ Tail(<<a>>) = <<>> /\ <<a>> # <<>>
    /\ \A a, b : /\ Append(<<a>>, b) = <<a, b>> /\ Head(<<a, b>>) = a
                 /\ Tail(<<a, b>>) = <<b>> /\ <<a, b>> # <<>>
    /\ \A a, b, c : Append(<<a, b>>, c) = <<a, b, c>>
<1>1. \A a : Append(<<>>, a) = <<a>> /\ Head(<<a>>) = a /\ Tail(<<a>>) = <<>> /\ <<a>> # <<>>
      OBVIOUS
<1>2. \A a, b : Tail(<<a, b>>) = <<b>>
      OBVIOUS
<1>3. \A a, b : Head(<<a, b>>) = a /\ <<a, b>> # <<>>
      OBVIOUS
<1>. QED  BY <1>1, <1>2, <1>3, AppendToOne, AppendToTwo

LEMMA StreamTypes ==
    ASSUME NEW S, NEW s \in Seq(S)
    PROVE  /\ s # <<>> => Head(s) \in S /\ Tail(s) \in Seq(S)
           /\ \A a \in S : Append(s, a) \in Seq(S)
OBVIOUS

LEMMA Constants ==
    /\ Timeout \in Nat /\ ServerDeadline \in Nat /\ Horizon \in Nat /\ MaxForeign \in Nat
    /\ Timeout > 0 /\ ServerDeadline > 0 /\ ProbeToken \in Tokens
BY TimeAssumption, ForeignAssumption

LEMMA InitEstablishes == Init => IInv
<1>. SUFFICES ASSUME Init PROVE IInv
     OBVIOUS
<1>. USE DEF Init
<1>4. sent \in 0 .. MaxForeign /\ now \in 0 .. Horizon
      BY Constants
<1>5. <<>> \in Seq(ForeignPackets)
      OBVIOUS
<1>6. client \in ClientSteps /\ server \in ServerSteps
      BY DEF ClientSteps, ServerSteps
<1>1. TypeOK
      BY <1>4, <1>5, <1>6 DEF TypeOK
<1>2. Closing /\ Drawn /\ ClientTrack /\ ServerTrack /\ HealthyFailsOnlyByTime
      BY DEF Closing, Drawn, ClientTrack, ServerTrack, HealthyFailsOnlyByTime
<1>3. Conversation
      BY DEF Conversation, Talk, AtHandshake
<1>. QED  BY <1>1, <1>2, <1>3 DEF IInv

-----------------------------------------------------------------------------
(* Every step keeps the invariant *)

\* A client that is not yet at its end moves only by its own steps.
LEMMA TypePreserved ==
    ASSUME TypeOK, Drawn, [Next]_vars
    PROVE  TypeOK'
<1>. USE DEF TypeOK, ClientSteps, ServerSteps, clientSide, serverSide, world
<1>1. CASE SendHandshake
  <2>1. toServer' \in Seq(ForeignPackets)
        BY <1>1, StreamTypes, KnownPackets, SamePackets DEF SendHandshake, ClientSends
  <2>. QED  BY <1>1, <2>1 DEF SendHandshake, ClientSends
<1>2. CASE SendRequest
  <2>1. toServer' \in Seq(ForeignPackets)
        BY <1>2, StreamTypes, KnownPackets, SamePackets DEF SendRequest, ClientSends
  <2>. QED  BY <1>2, <2>1 DEF SendRequest, ClientSends
<1>3. CASE SendPing
  <2>1. toServer' \in Seq(ForeignPackets)
        BY <1>3, StreamTypes, KnownPackets, SamePackets DEF SendPing, ClientSends, Drawn
  <2>. QED  BY <1>3, <2>1 DEF SendPing, ClientSends
<1>4. CASE ReadStatus
  <2>1. toClient' \in Seq(ForeignPackets) /\ clientRead' \in Seq(ForeignPackets)
        BY <1>4, StreamTypes DEF ReadStatus
  <2>. QED  BY <1>4, <2>1, ZenonT(40) DEF ReadStatus, ClientEnds
<1>5. CASE DrawToken          BY <1>5, Constants DEF DrawToken
<1>6. CASE ReadPong
  <2>1. toClient' \in Seq(ForeignPackets) /\ clientRead' \in Seq(ForeignPackets)
        BY <1>6, StreamTypes DEF ReadPong
  <2>. QED  BY <1>6, <2>1 DEF ReadPong, ClientEnds
<1>7. CASE ClientSeesClose \/ ClientTimesOut \/ ClientFaults
      BY <1>7 DEF ClientSeesClose, ClientTimesOut, ClientFaults, ClientEnds
<1>8. CASE ExpectHandshake \/ ExpectRequest
  <2>2. toServer # <<>> /\ toServer' = Tail(toServer)
        /\ serverRead' = Append(serverRead, Head(toServer))
        BY <1>8 DEF ExpectHandshake, ExpectRequest, ServerReads
  <2>1. toServer' \in Seq(ForeignPackets) /\ serverRead' \in Seq(ForeignPackets)
        BY <2>2, StreamTypes
  <2>. QED  BY <1>8, <2>1, ZenonT(40) DEF ExpectHandshake, ExpectRequest, ServerReads, ServerEnds
<1>9. CASE ExpectPing
  <2>1. /\ toServer' \in Seq(ForeignPackets) /\ serverRead' \in Seq(ForeignPackets)
        /\ Head(toServer) \in ForeignPackets
        BY <1>9, StreamTypes DEF ExpectPing, ServerReads
  <2>2. echoed' \in Tokens \cup {NoToken}
        BY <1>9, <2>1, Recognised DEF ExpectPing
  <2>. QED  BY <1>9, <2>1, <2>2, ZenonT(40) DEF ExpectPing, ServerReads, ServerEnds
<1>10. CASE SendStatus
  <2>1. toClient' \in Seq(ForeignPackets)
        BY <1>10, StreamTypes, KnownPackets DEF SendStatus
  <2>. QED  BY <1>10, <2>1 DEF SendStatus
<1>11. CASE SendPong
  <2>1. toClient' \in Seq(ForeignPackets)
        BY <1>11, StreamTypes, KnownPackets DEF SendPong, Drawn
  <2>. QED  BY <1>11, <2>1 DEF SendPong, ServerEnds
<1>12. CASE ServerSeesClose \/ ServerTimesOut
      BY <1>12 DEF ServerSeesClose, ServerTimesOut, ServerEnds
<1>13. CASE ForeignServerSends
  <2>1. toClient' \in Seq(ForeignPackets)
        BY <1>13, StreamTypes DEF ForeignServerSends
  <2>. QED  BY <1>13, <2>1, Constants DEF ForeignServerSends
<1>14. CASE ForeignClientSends
  <2>1. toServer' \in Seq(ForeignPackets)
        BY <1>14, StreamTypes DEF ForeignClientSends
  <2>. QED  BY <1>14, <2>1, Constants DEF ForeignClientSends
<1>15. CASE ForeignHangsUp    BY <1>15 DEF ForeignHangsUp
<1>16. CASE Tick              BY <1>16, Constants DEF Tick
<1>17. CASE UNCHANGED vars    BY <1>17 DEF vars
<1>. QED  BY <1>1, <1>2, <1>3, <1>4, <1>5, <1>6, <1>7, <1>8, <1>9, <1>10, <1>11, <1>12,
             <1>13, <1>14, <1>15, <1>16, <1>17 DEF Next, Client, Server

LEMMA ClosingPreserved ==
    ASSUME TypeOK, Closing, [Next]_vars
    PROVE  Closing'
<1>. USE DEF Closing, clientSide, serverSide, world
<1>1. CASE SendHandshake \/ SendRequest \/ SendPing
      BY <1>1 DEF SendHandshake, SendRequest, SendPing, ClientSends, ClientRuns
<1>2. CASE ReadStatus
      BY <1>2 DEF ReadStatus, ClientEnds, ClientRuns
<1>3. CASE DrawToken
      BY <1>3 DEF DrawToken, ClientRuns
<1>4. CASE ReadPong \/ ClientSeesClose \/ ClientTimesOut \/ ClientFaults
      BY <1>4 DEF ReadPong, ClientSeesClose, ClientTimesOut, ClientFaults, ClientEnds
<1>5. CASE ExpectHandshake \/ ExpectRequest \/ ExpectPing
      BY <1>5 DEF ExpectHandshake, ExpectRequest, ExpectPing, ServerReads, ServerEnds, ServerRuns
<1>6. CASE SendStatus
      BY <1>6 DEF SendStatus, ServerRuns
<1>7. CASE SendPong \/ ServerSeesClose \/ ServerTimesOut
      BY <1>7 DEF SendPong, ServerSeesClose, ServerTimesOut, ServerEnds
<1>8. CASE ForeignServerSends \/ ForeignClientSends \/ ForeignHangsUp
      BY <1>8 DEF ForeignServerSends, ForeignClientSends, ForeignHangsUp
<1>9. CASE Tick \/ UNCHANGED vars
      BY <1>9 DEF Tick, vars
<1>. QED  BY <1>1, <1>2, <1>3, <1>4, <1>5, <1>6, <1>7, <1>8, <1>9 DEF Next, Client, Server

\* Neither side takes a step of the other: what one of them has read and where
\* it stands are its own.
LEMMA Apart ==
    ASSUME [Next]_vars
    PROVE  /\ ~ Client => UNCHANGED <<client, token, clientRead, fault>>
           /\ ~ Server => UNCHANGED <<server, echoed, serverRead>>
           /\ UNCHANGED <<foreign, kind, status>>
<1>. USE DEF clientSide, serverSide, world
<1>1. CASE SendHandshake \/ SendRequest \/ SendPing
      BY <1>1 DEF Client, SendHandshake, SendRequest, SendPing, ClientSends
<1>2. CASE ReadStatus \/ ReadPong
      BY <1>2 DEF Client, ReadStatus, ReadPong
<1>3. CASE DrawToken \/ ClientSeesClose \/ ClientTimesOut \/ ClientFaults
      BY <1>3 DEF Client, DrawToken, ClientSeesClose, ClientTimesOut, ClientFaults
<1>4. CASE ExpectHandshake \/ ExpectRequest \/ ExpectPing
      BY <1>4 DEF Server, ExpectHandshake, ExpectRequest, ExpectPing, ServerReads
<1>5. CASE SendStatus \/ SendPong \/ ServerSeesClose \/ ServerTimesOut
      BY <1>5 DEF Server, SendStatus, SendPong, ServerSeesClose, ServerTimesOut
<1>6. CASE ForeignServerSends \/ ForeignClientSends \/ ForeignHangsUp
      BY <1>6 DEF ForeignServerSends, ForeignClientSends, ForeignHangsUp
<1>7. CASE Tick \/ UNCHANGED vars
      BY <1>7 DEF Tick, vars
<1>. QED  BY <1>1, <1>2, <1>3, <1>4, <1>5, <1>6, <1>7 DEF Next, Client, Server

LEMMA ClientTrackPreserved ==
    ASSUME IInv, [Next]_vars
    PROVE  ClientTrack' /\ (client' \in {"ping", "pong", "ok"} => token' \in Tokens)
<1>. USE DEF IInv, ClientTrack, Drawn, IsProbe, clientSide, serverSide, world
<1>1. CASE SendHandshake \/ SendRequest
      BY <1>1 DEF SendHandshake, SendRequest, ClientSends
<1>2. CASE SendPing
      BY <1>2 DEF SendPing, ClientSends
<1>3. CASE ReadStatus
  <2>1. Head(toClient) \in ForeignPackets
        BY <1>3, StreamTypes DEF ReadStatus, TypeOK
  <2>2. clientRead' = <<Head(toClient)>> /\ kind' = kind
        BY <1>3, ShortStreams DEF ReadStatus
  <2>3. client' = "token" => Head(toClient) = StatusPacket("object") \/ kind = "probe"
        BY <1>3, <2>1, Recognised DEF ReadStatus, ClientEnds
  <2>4. client' \in {"token", "err"}
        BY <1>3 DEF ReadStatus, ClientEnds
  <2>. QED  BY <2>1, <2>2, <2>3, <2>4
<1>4. CASE DrawToken
      BY <1>4, Constants DEF DrawToken
<1>5. CASE ReadPong
  <2>1. Head(toClient) \in ForeignPackets
        BY <1>5, StreamTypes DEF ReadPong, TypeOK
  <2>2. PICK p \in ForeignPackets :
            clientRead = <<p>> /\ (p = StatusPacket("object") \/ kind = "probe")
        BY <1>5 DEF ReadPong
  <2>3. clientRead' = <<p, Head(toClient)>> /\ kind' = kind /\ token' = token
        BY <1>5, <2>2, ShortStreams DEF ReadPong
  <2>4. client' = "ok" => Head(toClient) = PongPacket(token)
        BY <1>5, <2>1, Recognised DEF ReadPong, ClientEnds
  <2>5. client' \in {"ok", "err"} /\ token \in Tokens
        BY <1>5 DEF ReadPong, ClientEnds
  <2>. QED  BY <2>2, <2>3, <2>4, <2>5
<1>6. CASE ClientSeesClose \/ ClientTimesOut \/ ClientFaults
      BY <1>6 DEF ClientSeesClose, ClientTimesOut, ClientFaults, ClientEnds
<1>7. CASE ~ Client
      BY <1>7, Apart
<1>. QED  BY <1>1, <1>2, <1>3, <1>4, <1>5, <1>6, <1>7 DEF Client

LEMMA ServerTrackPreserved ==
    ASSUME IInv, [Next]_vars
    PROVE  ServerTrack' /\ (server' \in {"pong", "done"} => echoed' \in Tokens)
<1>. USE DEF IInv, ServerTrack, Drawn, clientSide, serverSide, world
<1>1. CASE ExpectHandshake
  <2>1. Head(toServer) \in ForeignPackets
        BY <1>1, StreamTypes DEF ExpectHandshake, ServerReads, TypeOK
  <2>2. serverRead' = <<Head(toServer)>>
        BY <1>1, ShortStreams DEF ExpectHandshake, ServerReads
  <2>3. server' = "request" => Head(toServer) \in Handshakes
        BY <1>1, <2>1, Recognised DEF ExpectHandshake, ServerReads, ServerEnds
  <2>4. server' \in {"request", "err"}
        BY <1>1 DEF ExpectHandshake, ServerReads, ServerEnds
  <2>. QED  BY <2>2, <2>3, <2>4
<1>2. CASE ExpectRequest
  <2>1. Head(toServer) \in ForeignPackets
        BY <1>2, StreamTypes DEF ExpectRequest, ServerReads, TypeOK
  <2>2. PICK h \in Handshakes : serverRead' = <<h, Head(toServer)>>
    <3>1. server = "request" /\ serverRead' = Append(serverRead, Head(toServer))
          BY <1>2 DEF ExpectRequest, ServerReads
    <3>2. PICK h \in Handshakes : serverRead = <<h>>
          BY <3>1
    <3>. QED  BY <3>1, <3>2, AppendToOne
  <2>3. server' = "status" => Head(toServer) = RequestPacket
        BY <1>2, <2>1, Recognised DEF ExpectRequest, ServerReads, ServerEnds
  <2>4. server' \in {"status", "err"}
        BY <1>2 DEF ExpectRequest, ServerReads, ServerEnds
  <2>. QED  BY <2>2, <2>3, <2>4
<1>3. CASE ExpectPing
  <2>1. Head(toServer) \in ForeignPackets
        BY <1>3, StreamTypes DEF ExpectPing, ServerReads, TypeOK
  <2>2. PICK h \in Handshakes : serverRead' = <<h, RequestPacket, Head(toServer)>>
    <3>1. server = "ping" /\ serverRead' = Append(serverRead, Head(toServer))
          BY <1>3 DEF ExpectPing, ServerReads
    <3>2. PICK h \in Handshakes : serverRead = <<h, RequestPacket>>
          BY <3>1
    <3>. QED  BY <3>1, <3>2, AppendToTwo
  <2>3. server' = "pong" => echoed' \in Tokens /\ Head(toServer) = PingPacket(echoed')
        BY <1>3, <2>1, Recognised DEF ExpectPing, ServerReads, ServerEnds
  <2>4. server' \in {"pong", "err"}
        BY <1>3 DEF ExpectPing, ServerReads, ServerEnds
  <2>. QED  BY <2>2, <2>3, <2>4
<1>4. CASE SendStatus \/ SendPong
      BY <1>4 DEF SendStatus, SendPong, ServerEnds
<1>5. CASE ServerSeesClose \/ ServerTimesOut
      BY <1>5 DEF ServerSeesClose, ServerTimesOut, ServerEnds
<1>6. CASE ~ Server
      BY <1>6, Apart
<1>. QED  BY <1>1, <1>2, <1>3, <1>4, <1>5, <1>6 DEF Server

\* The client's steps, while the server is not the one that has failed.
LEMMA ClientTalks ==
    ASSUME TypeOK, Client, foreign = "none", server # "err", client # "err", Talk, client' # "err"
    PROVE  Talk'
<1>. USE ShortStreams DEF Talk, clientSide, serverSide, world
<1>1. CASE SendHandshake
  <2>1. /\ client = "handshake" /\ client' = "request"
        /\ toServer' = Append(toServer, HandshakePacket)
        /\ UNCHANGED <<server, toClient>>
        BY <1>1, SamePackets DEF SendHandshake, ClientSends
  <2>. QED  BY <2>1 DEF AtHandshake, AtRequest
<1>2. CASE SendRequest
  <2>1. /\ client = "request" /\ client' = "status"
        /\ toServer' = Append(toServer, RequestPacket)
        /\ UNCHANGED <<server, toClient>>
        BY <1>2, SamePackets DEF SendRequest, ClientSends
  <2>. QED  BY <2>1 DEF AtRequest, AtStatus
<1>3. CASE SendPing
  <2>1. /\ client = "ping" /\ client' = "pong"
        /\ toServer' = Append(toServer, PingPacket(token))
        /\ UNCHANGED <<server, toClient, token>>
        BY <1>3, SamePackets DEF SendPing, ClientSends
  <2>. QED  BY <2>1 DEF AtToken, AtPong
<1>4. CASE ReadStatus
  <2>1. /\ client = "status" /\ client' = "token" /\ toClient # <<>>
        /\ toClient' = Tail(toClient) /\ UNCHANGED <<server, toServer>>
        BY <1>4 DEF ReadStatus, ClientEnds
  <2>. QED  BY <2>1 DEF AtStatus, AtToken
<1>5. CASE DrawToken
      BY <1>5 DEF DrawToken, AtToken
<1>6. CASE ReadPong
  <2>1. /\ client = "pong" /\ client' = "ok" /\ toClient # <<>>
        /\ toClient' = Tail(toClient) /\ UNCHANGED <<server, toServer, echoed, token>>
        BY <1>6 DEF ReadPong, ClientEnds
  <2>. QED  BY <2>1 DEF AtPong, AtOk
<1>7. CASE ClientSeesClose \/ ClientTimesOut \/ ClientFaults
      BY <1>7 DEF ClientSeesClose, ClientTimesOut, ClientFaults, ClientEnds
<1>. QED  BY <1>1, <1>2, <1>3, <1>4, <1>5, <1>6, <1>7 DEF Client

\* The server's steps: what it meets is what it expects.
LEMMA ServerTalks ==
    ASSUME TypeOK, Closing, Server, foreign = "none", client # "err", Talk
    PROVE  IF server' = "err" THEN LeftAlone' ELSE Talk'
<1>. USE ShortStreams DEF Talk, clientSide, serverSide, world
<1>1. CASE ExpectHandshake
  <2>1. /\ server = "handshake" /\ toServer # <<>> /\ toServer' = Tail(toServer)
        /\ IsHandshake(Head(toServer)) => server' = "request"
        /\ UNCHANGED <<client, toClient, token, status>>
        BY <1>1 DEF ExpectHandshake, ServerReads
  <2>2. Head(toServer) = HandshakePacket /\ client \in {"request", "status"}
        BY <2>1 DEF TypeOK, ClientSteps, AtHandshake, AtRequest, AtStatus, AtToken, AtPong, AtOk
  <2>3. server' = "request"
        BY <2>1, <2>2, Accepted
  <2>4. CASE client = "request"
        BY <2>1, <2>3, <2>4 DEF AtRequest
  <2>5. CASE client = "status"
        BY <2>1, <2>3, <2>5, ZenonT(40) DEF AtStatus
  <2>. QED  BY <2>2, <2>4, <2>5
<1>2. CASE ExpectRequest
  <2>1. /\ server = "request" /\ toServer # <<>> /\ toServer' = Tail(toServer)
        /\ IsRequest(Head(toServer)) => server' = "status"
        /\ UNCHANGED <<client, toClient, token, status>>
        BY <1>2 DEF ExpectRequest, ServerReads
  <2>2. Head(toServer) = RequestPacket /\ client = "status"
        BY <2>1 DEF TypeOK, ClientSteps, AtHandshake, AtRequest, AtStatus, AtToken, AtPong, AtOk
  <2>3. server' = "status"
        BY <2>1, <2>2, Accepted
  <2>. QED  BY <2>1, <2>2, <2>3 DEF AtStatus
<1>3. CASE ExpectPing
  <2>1. /\ server = "ping" /\ toServer # <<>> /\ toServer' = Tail(toServer)
        /\ IsPing(Head(toServer)) => server' = "pong" /\ echoed' = Head(toServer)[2].value
        /\ UNCHANGED <<client, toClient, token, status>>
        BY <1>3 DEF ExpectPing, ServerReads
  <2>2. Head(toServer) = PingPacket(token) /\ client = "pong"
        BY <2>1 DEF TypeOK, ClientSteps, AtHandshake, AtRequest, AtStatus, AtToken, AtPong, AtOk
  <2>3. server' = "pong" /\ echoed' = token
        BY <2>1, <2>2, Accepted
  <2>. QED  BY <2>1, <2>2, <2>3 DEF AtPong
<1>4. CASE SendStatus
  <2>1. /\ server = "status" /\ server' = "ping"
        /\ toClient' = Append(toClient, StatusPacket(status))
        /\ UNCHANGED <<client, toServer, token, status>>
        BY <1>4 DEF SendStatus
  <2>2. client = "status"
        BY <2>1 DEF TypeOK, ClientSteps, AtHandshake, AtRequest, AtStatus, AtToken, AtPong, AtOk
  <2>. QED  BY <2>1, <2>2 DEF AtStatus
<1>5. CASE SendPong
  <2>1. /\ server = "pong" /\ server' = "done"
        /\ toClient' = Append(toClient, PongPacket(echoed))
        /\ UNCHANGED <<client, toServer, token, echoed>>
        BY <1>5 DEF SendPong, ServerEnds
  <2>2. client = "pong"
        BY <2>1 DEF TypeOK, ClientSteps, AtHandshake, AtRequest, AtStatus, AtToken, AtPong, AtOk
  <2>. QED  BY <2>1, <2>2 DEF AtPong
<1>6. CASE ServerSeesClose
  <2>1. client = "ok" /\ server # "done"
        BY <1>6 DEF ServerSeesClose, ServerRuns, Closing
  <2>. QED  BY <2>1 DEF AtOk
<1>7. CASE ServerTimesOut
  <2>1. /\ server' = "err" /\ now' >= ServerDeadline /\ server # "done"
        /\ UNCHANGED <<client, toClient, status>>
        BY <1>7 DEF ServerTimesOut, ServerRuns, ServerEnds
  <2>2. client # "ok" /\ (toClient = <<>> \/ (client = "status" /\ toClient = <<StatusPacket(status)>>))
        BY <2>1 DEF TypeOK, ClientSteps, AtHandshake, AtRequest, AtStatus, AtToken, AtPong, AtOk
  <2>. QED  BY <2>1, <2>2 DEF LeftAlone
<1>. QED  BY <1>1, <1>2, <1>3, <1>4, <1>5, <1>6, <1>7 DEF Server

\* The client's steps after the server has failed.
LEMMA ClientAlone ==
    ASSUME TypeOK, Client, foreign = "none", server = "err", LeftAlone, client' # "err"
    PROVE  LeftAlone' /\ server' = "err"
<1>. USE ShortStreams DEF LeftAlone, clientSide, serverSide, world
<1>1. CASE SendHandshake \/ SendRequest \/ SendPing
      BY <1>1 DEF SendHandshake, SendRequest, SendPing, ClientSends
<1>2. CASE ReadStatus
  <2>1. /\ client = "status" /\ client' = "token" /\ toClient # <<>>
        /\ toClient' = Tail(toClient) /\ UNCHANGED <<server, now>>
        BY <1>2 DEF ReadStatus, ClientEnds
  <2>. QED  BY <2>1
<1>3. CASE DrawToken
      BY <1>3 DEF DrawToken
<1>4. CASE ReadPong
      BY <1>4 DEF ReadPong
<1>5. CASE ClientSeesClose \/ ClientTimesOut \/ ClientFaults
      BY <1>5 DEF ClientSeesClose, ClientTimesOut, ClientFaults, ClientEnds
<1>. QED  BY <1>1, <1>2, <1>3, <1>4, <1>5 DEF Client

LEMMA ConversationPreserved ==
    ASSUME IInv, [Next]_vars
    PROVE  Conversation'
<1>. SUFFICES ASSUME foreign' = "none", client' # "err"
              PROVE  IF server' = "err" THEN LeftAlone' ELSE Talk'
     BY DEF Conversation
<1>1. foreign = "none"
      BY Apart
<1>2. client # "err"
  <2>1. CASE Client
        BY <2>1 DEF Client, SendHandshake, SendRequest, ReadStatus, DrawToken, SendPing,
              ReadPong, ClientSeesClose, ClientTimesOut, ClientFaults, ClientSends, ClientRuns
  <2>2. CASE ~ Client
        BY <2>2, Apart
  <2>. QED  BY <2>1, <2>2
<1>3. IF server = "err" THEN LeftAlone ELSE Talk
      BY <1>1, <1>2 DEF IInv, Conversation
<1>4. CASE Client
  <2>1. server' = server
        BY <1>4 DEF Client, SendHandshake, SendRequest, ReadStatus, DrawToken, SendPing,
              ReadPong, ClientSeesClose, ClientTimesOut, ClientFaults, ClientSends, serverSide
  <2>. QED  BY <1>1, <1>2, <1>3, <1>4, <2>1, ClientTalks, ClientAlone DEF IInv
<1>5. CASE Server
  <2>1. server # "err"
        BY <1>5 DEF Server, ExpectHandshake, ExpectRequest, ExpectPing, SendStatus, SendPong,
              ServerSeesClose, ServerTimesOut, ServerReads, ServerRuns
  <2>. QED  BY <1>1, <1>2, <1>3, <1>5, <2>1, ServerTalks DEF IInv
<1>6. CASE Tick
  <2>1. /\ now \in Nat /\ now' = now + 1 /\ ServerDeadline \in Nat
        /\ UNCHANGED <<client, server, status, token, echoed, toServer, toClient>>
        BY <1>6, Constants DEF Tick, IInv, TypeOK, clientSide, serverSide
  <2>2. now >= ServerDeadline => now' >= ServerDeadline
        BY <2>1
  <2>. QED  BY <1>3, <2>1, <2>2 DEF LeftAlone, Talk, AtHandshake, AtRequest, AtStatus, AtToken,
               AtPong, AtOk
<1>7. CASE UNCHANGED vars
      BY <1>3, <1>7 DEF vars, LeftAlone, Talk, AtHandshake, AtRequest, AtStatus, AtToken,
         AtPong, AtOk
<1>8. ~ (ForeignServerSends \/ ForeignClientSends \/ ForeignHangsUp)
      BY <1>1 DEF ForeignServerSends, ForeignClientSends, ForeignHangsUp
<1>. QED  BY <1>4, <1>5, <1>6, <1>7, <1>8 DEF Next

\* The client's own ends: what it reads is what it expects, and it sees the
\* server's close only after the server's deadline.
LEMMA HealthyPreserved ==
    ASSUME IInv, [Next]_vars
    PROVE  HealthyFailsOnlyByTime'
<1>. SUFFICES ASSUME client' = "err", foreign' = "none", status' = "object" \/ IsProbe'
              PROVE  now' >= Timeout \/ now' >= ServerDeadline \/ fault'
     BY DEF HealthyFailsOnlyByTime
<1>1. foreign = "none" /\ (status = "object" \/ IsProbe)
      BY Apart DEF IsProbe
<1>. USE DEF clientSide, serverSide, world
<1>2. CASE ReadStatus
  <2>1. /\ client = "status" /\ toClient # <<>>
        /\ ~ (IF IsProbe THEN ProbeAcceptsStatus(Head(toClient)) ELSE IsStatus(Head(toClient)))
        BY <1>2 DEF ReadStatus
  <2>2. IF server = "err" THEN LeftAlone ELSE AtStatus
        BY <1>1, <2>1 DEF IInv, Conversation, Talk
  <2>3. Head(toClient) = StatusPacket(status)
        BY <2>1, <2>2, ShortStreams DEF LeftAlone, AtStatus
  <2>. QED  BY <1>1, <2>1, <2>3, Accepted
<1>3. CASE ReadPong
  <2>1. /\ client = "pong" /\ toClient # <<>>
        /\ ~ (IF IsProbe THEN ProbeAcceptsPong(Head(toClient), token)
                          ELSE IsPong(Head(toClient), token))
        BY <1>3 DEF ReadPong, ClientEnds
  <2>2. IF server = "err" THEN LeftAlone ELSE AtPong
        BY <1>1, <2>1 DEF IInv, Conversation, Talk
  <2>3. Head(toClient) = PongPacket(token)
        BY <2>1, <2>2, ShortStreams DEF LeftAlone, AtPong
  <2>. QED  BY <2>1, <2>3, Accepted
<1>4. CASE ClientSeesClose
  <2>1. /\ serverClosed /\ client \notin {"ok", "err", "token"} /\ now' = now
        /\ client \in {"status", "pong"} => toClient = <<>>
        BY <1>4 DEF ClientSeesClose, ClientRuns
  <2>2. server \in {"done", "err"}
        BY <1>1, <2>1 DEF IInv, Closing
  <2>3. server # "done"
    <3>. SUFFICES ASSUME server = "done" PROVE FALSE
         OBVIOUS
    <3>1. Talk /\ client \in ClientSteps
          BY <1>1, <2>1 DEF IInv, Conversation, TypeOK
    <3>. QED  BY <2>1, <3>1, ShortStreams DEF Talk, ClientSteps, AtHandshake, AtRequest,
                 AtStatus, AtToken, AtPong
  <2>4. LeftAlone
        BY <1>1, <2>1, <2>2, <2>3 DEF IInv, Conversation
  <2>. QED  BY <2>1, <2>4 DEF LeftAlone
<1>5. CASE ClientTimesOut
      BY <1>5 DEF ClientTimesOut
<1>6. CASE ClientFaults
      BY <1>6 DEF ClientFaults
<1>7. CASE SendHandshake \/ SendRequest \/ SendPing \/ DrawToken
      BY <1>7 DEF SendHandshake, SendRequest, SendPing, DrawToken, ClientSends
<1>8. CASE ~ Client
  <2>1. client = "err" /\ fault' = fault
        BY <1>8, Apart
  <2>2. now >= Timeout \/ now >= ServerDeadline \/ fault
        BY <1>1, <2>1 DEF IInv, HealthyFailsOnlyByTime
  <2>3. now \in Nat /\ (now' = now \/ now' = now + 1)
    <3>1. CASE Server
          BY <3>1 DEF Server, ExpectHandshake, ExpectRequest, ExpectPing, SendStatus, SendPong,
                ServerSeesClose, ServerTimesOut, ServerReads, IInv, TypeOK
    <3>2. CASE ForeignServerSends \/ ForeignClientSends \/ ForeignHangsUp
          BY <3>2 DEF ForeignServerSends, ForeignClientSends, ForeignHangsUp, IInv, TypeOK
    <3>3. CASE Tick \/ UNCHANGED vars
          BY <3>3 DEF Tick, vars, IInv, TypeOK
    <3>. QED  BY <1>8, <3>1, <3>2, <3>3 DEF Next
  <2>. QED  BY <2>1, <2>2, <2>3, Constants
<1>. QED  BY <1>2, <1>3, <1>4, <1>5, <1>6, <1>7, <1>8 DEF Client

LEMMA Inductive == IInv /\ [Next]_vars => IInv'
<1>. SUFFICES ASSUME IInv, [Next]_vars PROVE IInv'
     OBVIOUS
<1>1. TypeOK' /\ Closing'
      BY TypePreserved, ClosingPreserved DEF IInv
<1>2. ClientTrack' /\ ServerTrack' /\ Drawn'
      BY ClientTrackPreserved, ServerTrackPreserved DEF Drawn
<1>. QED  BY <1>1, <1>2, ConversationPreserved, HealthyPreserved DEF IInv

-----------------------------------------------------------------------------
\* Both sides keep their types; in particular, whatever a foreign program sends,
\* the server never echoes anything but a token (server.go:224-323).
THEOREM TypeCorrect == Spec => []TypeOK
<1>1. IInv => TypeOK
      BY DEF IInv
<1>. QED  BY <1>1, InitEstablishes, Inductive, PTL DEF Spec

\* Against any peer, and however many packets it sends, each side ends well only
\* with the exact conversation (protocol.go:79-135; server.go:207-323, 509-553).
THEOREM ExactExchange == Spec => []OnlyTheExactExchangeCounts
<1>1. IInv => OnlyTheExactExchangeCounts
  <2>. SUFFICES ASSUME IInv PROVE OnlyTheExactExchangeCounts
       OBVIOUS
  <2>1. ASSUME client = "ok"
        PROVE  /\ Len(clientRead) = 2 /\ clientRead[2] = PongPacket(token)
               /\ clientRead[1] = StatusPacket("object") \/ IsProbe
        BY <2>1 DEF IInv, ClientTrack
  <2>2. server = "done" => \E h \in Handshakes : serverRead = <<h, RequestPacket, PingPacket(echoed)>>
        BY DEF IInv, ServerTrack
  <2>. QED  BY <2>1, <2>2 DEF OnlyTheExactExchangeCounts, Handshakes
<1>. QED  BY <1>1, InitEstablishes, Inductive, PTL DEF Spec

\* A probe of the staging server succeeds only after the server has served the
\* whole exchange, with the probe's own token and nothing left unread
\* (java.go:133-152; server.go:207-222).
THEOREM MutualSuccess == Spec => []SuccessIsMutual
<1>1. IInv => SuccessIsMutual
      BY DEF IInv, Conversation, LeftAlone, Talk, AtOk, SuccessIsMutual
<1>. QED  BY <1>1, InitEstablishes, Inductive, PTL DEF Spec

\* For all deadlines of the two sides, a probe of the staging server fails only
\* because one of them passed or the client itself broke (protocol.go:41-135;
\* server.go:224-323, 469-554).
THEOREM HealthyExchange == Spec => []HealthyFailsOnlyByTime
<1>1. IInv => HealthyFailsOnlyByTime
      BY DEF IInv
<1>. QED  BY <1>1, InitEstablishes, Inductive, PTL DEF Spec

-----------------------------------------------------------------------------
(* Arithmetic *)

\* A set of numbers that is not empty has a least one: what induction over the
\* digits and over the bytes is made of here.
LEMMA LeastNumber ==
    ASSUME NEW T \in SUBSET Nat, T # {}
    PROVE  \E n \in T : \A m \in T : n <= m
<1>. DEFINE R == {ss \in Nat \X Nat : ss[1] < ss[2]}
<1>1. IsWellFoundedOn(R, Nat)
      BY NatLessThanWellFounded DEF OpToRel
<1>2. \A m, n \in T : m < n => <<m, n>> \in R
      OBVIOUS
<1>. HIDE DEF R
<1>3. PICK n \in T : \A m \in T : ~ (<<m, n>> \in R)
      BY <1>1, WFMin
<1>4. \A m \in T : ~ (m < n)
      BY <1>2, <1>3
<1>. QED  BY <1>4

\* A number is its quotient times the base and its remainder.
LEMMA Quotient ==
    ASSUME NEW u \in Nat, NEW c \in Nat, c >= 1
    PROVE  /\ u % c \in Nat /\ u % c < c /\ u \div c \in Nat
           /\ u = c * (u \div c) + (u % c)
<1>1. u % c \in Nat /\ u % c < c
      OBVIOUS
<1>2. u \div c \in Nat
      OBVIOUS
<1>3. PICK q, r : q = u \div c /\ r = u % c
      OBVIOUS
<1>4. u = c * q + r
      BY <1>3
<1>. QED  BY <1>1, <1>2, <1>3, <1>4

LEMMA Remainder ==
    ASSUME NEW x \in Nat, NEW m \in Nat, m >= 1, NEW k \in Int, NEW r \in Int,
           x = m * k + r, 0 <= r, r < m
    PROVE  x % m = r
OBVIOUS

\* A number of n + 1 digits has a quotient of n.
LEMMA Smaller ==
    ASSUME NEW u \in Nat, NEW c \in Nat, c >= 2, NEW w \in Nat, u < c * w
    PROVE  u \div c < w
OBVIOUS

\* Cutting to the width before an addition or after it is the same.
LEMMA SumRemainder ==
    ASSUME NEW x \in Nat, NEW y \in Nat, NEW m \in Nat, m >= 1
    PROVE  ((x % m) + y) % m = (x + y) % m
<1>1. PICK p, w : p = x \div m /\ w = x % m
      OBVIOUS
<1>2. p \in Nat /\ w \in Nat /\ x = m * p + w
      BY <1>1, Quotient
<1>3. PICK z \in Nat : z = w + y
      BY <1>2
<1>4. PICK q, r : q = z \div m /\ r = z % m
      OBVIOUS
<1>5. q \in Nat /\ r \in Nat /\ r < m /\ z = m * q + r
      BY <1>3, <1>4, Quotient
<1>6. m * (p + q) = m * p + m * q /\ m * p \in Nat /\ m * q \in Nat
      BY <1>2, <1>5
<1>7. x + y = m * (p + q) + r
      BY <1>2, <1>3, <1>5, <1>6
<1>8. (x + y) % m = r
  <2>1. PICK k \in Nat, v \in Nat : k = p + q /\ v = x + y
        BY <1>2, <1>5
  <2>2. v = m * k + r /\ r \in Int /\ k \in Int /\ 0 <= r
        BY <1>5, <1>7, <2>1
  <2>3. v % m = r
        BY <1>5, <2>2, Remainder, Zenon
  <2>. QED  BY <2>1, <2>3
<1>. QED  BY <1>1, <1>3, <1>4, <1>8

\* A recursion that takes each number from the one before it has a solution.
Recursion(n, a, b, t, f) ==
    /\ f = [k \in 0 .. n |-> IF k = 0 THEN b ELSE a * f[k - 1] + t[k]]
    /\ \A k \in 0 .. n : f[k] \in Nat

LEMMA RecursionSolved ==
    ASSUME NEW n \in Nat, NEW a \in Nat, NEW b \in Nat, NEW t, \A k \in 1 .. n : t[k] \in Nat
    PROVE  \E f : Recursion(n, a, b, t, f)
<1>. DEFINE T == {m \in 0 .. n : ~ \E f : Recursion(m, a, b, t, f)}
<1>1. SUFFICES ASSUME T # {} PROVE FALSE
      OBVIOUS
<1>2. PICK m \in T : \A l \in T : m <= l
  <2>1. T \in SUBSET Nat
        OBVIOUS
  <2>. HIDE DEF T
  <2>. QED  BY <1>1, <2>1, LeastNumber
<1>3. m # 0
  <2>1. Recursion(0, a, b, t, [k \in 0 .. 0 |-> b])
        BY DEF Recursion
  <2>. QED  BY <2>1
<1>4. PICK f : Recursion(m - 1, a, b, t, f)
  <2>1. m - 1 \in 0 .. n /\ m - 1 \notin T
        BY <1>2, <1>3
  <2>. QED  BY <2>1
<1>5. PICK g : g = [k \in 0 .. m |-> IF k < m THEN f[k] ELSE a * f[k - 1] + t[k]]
      OBVIOUS
<1>6. m \in Nat /\ m >= 1 /\ m <= n
      BY <1>3
<1>7. ASSUME NEW k \in 0 .. m
      PROVE  g[k] = (IF k = 0 THEN b ELSE a * g[k - 1] + t[k]) /\ g[k] \in Nat
  <2>1. k # 0 => g[k - 1] = f[k - 1] /\ f[k - 1] \in Nat
    <3>1. k # 0 => k - 1 \in 0 .. m /\ k - 1 \in 0 .. m - 1 /\ k - 1 < m
          BY <1>6
    <3>. QED  BY <1>4, <1>5, <3>1 DEF Recursion
  <2>2. k < m => f[k] = (IF k = 0 THEN b ELSE a * f[k - 1] + t[k]) /\ f[k] \in Nat
    <3>1. k < m => k \in 0 .. m - 1
          BY <1>6
    <3>. QED  BY <1>4, <3>1 DEF Recursion
  <2>3. g[k] = IF k < m THEN f[k] ELSE a * f[k - 1] + t[k]
        BY <1>5
  <2>4. ~ (k < m) => k = m /\ k # 0 /\ k \in 1 .. n
        BY <1>6
  <2>5. k = m => a * f[k - 1] + t[k] \in Nat
        BY <1>6, <2>1, <2>4
  <2>. QED  BY <2>1, <2>2, <2>3, <2>4, <2>5
<1>8. Recursion(m, a, b, t, g)
      BY <1>5, <1>7 DEF Recursion
<1>. QED  BY <1>8

\* The equation of the recursive function Weight.
LEMMA Weights ==
    /\ Weight[0] = 1
    /\ \A n \in 0 .. MaxBytes : Weight[n] \in Nat /\ Weight[n] >= 1
    /\ \A n \in 1 .. MaxBytes : Weight[n] = Continue * Weight[n - 1]
<1>0. MaxBytes \in Nat /\ Continue \in Nat /\ Continue >= 2
      BY BytesAssumption
<1>. DEFINE P(f) == f = [k \in 0 .. MaxBytes |-> IF k = 0 THEN 1 ELSE Continue * f[k - 1]]
            zero == [k \in 1 .. MaxBytes |-> 0]
<1>1. PICK f : Recursion(MaxBytes, Continue, 1, zero, f)
      BY <1>0, RecursionSolved
<1>2. P(f)
  <2>1. /\ f = [k \in 0 .. MaxBytes |-> IF k = 0 THEN 1 ELSE Continue * f[k - 1] + zero[k]]
        /\ \A k \in 0 .. MaxBytes : f[k] \in Nat
        BY <1>1 DEF Recursion
  <2>2. \A k \in 0 .. MaxBytes : k # 0 => Continue * f[k - 1] + zero[k] = Continue * f[k - 1]
    <3>. SUFFICES ASSUME NEW k \in 0 .. MaxBytes, k # 0
                  PROVE  Continue * f[k - 1] + zero[k] = Continue * f[k - 1]
         OBVIOUS
    <3>1. k - 1 \in 0 .. MaxBytes /\ k \in 1 .. MaxBytes
          BY <1>0
    <3>2. f[k - 1] \in Nat /\ zero[k] = 0
          BY <2>1, <3>1
    <3>. QED  BY <1>0, <3>2
  <2>. QED  BY <2>1, <2>2
<1>3. Weight = CHOOSE g : P(g)
      BY DEF Weight
<1>. HIDE DEF P
<1>4. P(Weight)
      BY <1>2, <1>3, Zenon
<1>5. \A n \in 0 .. MaxBytes : Weight[n] = IF n = 0 THEN 1 ELSE Continue * Weight[n - 1]
      BY <1>4 DEF P
<1>6. Weight[0] = 1 /\ \A n \in 1 .. MaxBytes : Weight[n] = Continue * Weight[n - 1]
      BY <1>0, <1>5
<1>7. \A n \in 0 .. MaxBytes : Weight[n] \in Nat /\ Weight[n] >= 1
  <2>. DEFINE T == {n \in 0 .. MaxBytes : ~ (Weight[n] \in Nat /\ Weight[n] >= 1)}
  <2>1. SUFFICES ASSUME T # {} PROVE FALSE
        OBVIOUS
  <2>2. PICK n \in T : \A m \in T : n <= m
    <3>1. T \in SUBSET Nat
          BY <1>0
    <3>. HIDE DEF T
    <3>. QED  BY <2>1, <3>1, LeastNumber
  <2>3. n # 0
        BY <1>6
  <2>4. n \in 1 .. MaxBytes /\ n - 1 \in 0 .. MaxBytes /\ n - 1 \notin T
        BY <1>0, <2>2, <2>3
  <2>5. Weight[n - 1] \in Nat /\ Weight[n - 1] >= 1
        BY <2>4
  <2>6. Weight[n] = Continue * Weight[n - 1]
        BY <1>6, <2>4
  <2>7. Weight[n] \in Nat /\ Weight[n] >= 1
        BY <1>0, <2>5, <2>6
  <2>. QED  BY <2>7
<1>. QED  BY <1>6, <1>7

-----------------------------------------------------------------------------
(* What the writers write *)

\* The numbers without sign.
Unsigneds == 0 .. Modulus - 1

\* The assumptions about the constants, in the form the proofs use.
LEMMA Scales ==
    /\ Continue \in Nat /\ Continue >= 2 /\ Modulus \in Nat /\ Modulus >= 2
    /\ MaxBytes \in Nat /\ MaxBytes >= 1 /\ Modulus <= Weight[MaxBytes]
    /\ Unsigneds \subseteq Nat
<1>1. /\ Continue \in Nat /\ Continue >= 2 /\ Modulus \in Nat /\ MaxBytes \in Nat /\ MaxBytes >= 1
      /\ Modulus <= Weight[MaxBytes] /\ Weight[MaxBytes - 1] < Modulus
      BY BytesAssumption
<1>2. Weight[MaxBytes - 1] \in Nat /\ Weight[MaxBytes - 1] >= 1
  <2>1. MaxBytes - 1 \in 0 .. MaxBytes
        BY <1>1
  <2>. QED  BY <2>1, Weights
<1>. QED  BY <1>1, <1>2 DEF Unsigneds

\* What taking the last digit off a number leaves.
LEMMA Shifted ==
    ASSUME NEW u \in Unsigneds
    PROVE  /\ u \in Nat /\ u % Continue \in Nat /\ u % Continue < Continue
           /\ u \div Continue \in Unsigneds /\ u \div Continue \in Nat
           /\ u = Continue * (u \div Continue) + (u % Continue)
           /\ u < Continue => u \div Continue = 0 /\ u % Continue = u
           /\ u >= Continue => u \div Continue # 0 /\ u \div Continue < u
<1>1. /\ Continue \in Nat /\ Continue >= 2 /\ Modulus \in Nat /\ u \in Nat /\ u < Modulus
      BY Scales DEF Unsigneds
<1>2. /\ u % Continue \in Nat /\ u % Continue < Continue /\ u \div Continue \in Nat
      /\ u = Continue * (u \div Continue) + (u % Continue)
      BY <1>1, Quotient
<1>3. u < Continue => u \div Continue = 0 /\ u % Continue = u
      BY <1>1
<1>4. u >= Continue => u \div Continue # 0 /\ u \div Continue < u
      BY <1>1
<1>5. u \div Continue \in Unsigneds
      BY <1>1, <1>2, <1>3, <1>4 DEF Unsigneds
<1>. QED  BY <1>1, <1>2, <1>3, <1>4, <1>5

\* The client's digits of the numbers below n.
Written(n, f) ==
    f = [u \in 0 .. n - 1 |-> IF u < Continue THEN <<u>> ELSE More(u % Continue, f[u \div Continue])]

\* The equation of the recursive function ClientDigits.
LEMMA ClientEquation ==
    \A u \in Unsigneds : ClientDigits[u] =
        IF u < Continue THEN <<u>> ELSE More(u % Continue, ClientDigits[u \div Continue])
<1>0. Modulus \in Nat
      BY Scales
<1>. DEFINE T == {n \in 0 .. Modulus : ~ \E f : Written(n, f)}
<1>1. T = {}
  <2>1. SUFFICES ASSUME T # {} PROVE FALSE
        OBVIOUS
  <2>2. PICK n \in T : \A m \in T : n <= m
    <3>1. T \in SUBSET Nat
          BY <1>0
    <3>. HIDE DEF T
    <3>. QED  BY <2>1, <3>1, LeastNumber
  <2>3. n # 0
    <3>1. Written(0, [u \in 0 .. 0 - 1 |-> <<>>])
      <4>1. \A u : u \notin 0 .. 0 - 1
            OBVIOUS
      <4>. QED  BY <4>1 DEF Written
    <3>. QED  BY <3>1
  <2>4. n \in Nat /\ n >= 1 /\ n <= Modulus
        BY <1>0, <2>3
  <2>5. PICK f : Written(n - 1, f)
    <3>1. n - 1 \in 0 .. Modulus /\ n - 1 \notin T
          BY <1>0, <2>2, <2>4
    <3>. QED  BY <3>1
  <2>6. PICK g : g = [u \in 0 .. n - 1 |->
                         IF u < n - 1 THEN f[u]
                         ELSE IF u < Continue THEN <<u>> ELSE More(u % Continue, f[u \div Continue])]
        OBVIOUS
  <2>7. ASSUME NEW u \in 0 .. n - 1
        PROVE  g[u] = IF u < Continue THEN <<u>> ELSE More(u % Continue, g[u \div Continue])
    <3>1. u \in Unsigneds /\ u \in Nat
          BY <1>0, <2>4 DEF Unsigneds
    <3>2. ~ (u < Continue) => u \div Continue \in 0 .. n - 1 /\ u \div Continue < n - 1
          BY <2>4, <3>1, Shifted, Scales
    <3>3. ~ (u < Continue) => g[u \div Continue] = f[u \div Continue]
          BY <2>6, <3>2
    <3>4. u < n - 1 => f[u] = IF u < Continue THEN <<u>> ELSE More(u % Continue, f[u \div Continue])
      <4>1. u < n - 1 => u \in 0 .. (n - 1) - 1
            BY <2>4, <3>1
      <4>. QED  BY <2>5, <4>1 DEF Written
    <3>5. g[u] = IF u < n - 1 THEN f[u]
                 ELSE IF u < Continue THEN <<u>> ELSE More(u % Continue, f[u \div Continue])
          BY <2>6
    <3>. QED  BY <3>3, <3>4, <3>5
  <2>8. Written(n, g)
        BY <2>6, <2>7 DEF Written
  <2>. QED  BY <2>8
<1>2. \E f : Written(Modulus, f)
      BY <1>0, <1>1
<1>3. ClientDigits = CHOOSE f : Written(Modulus, f)
      BY DEF ClientDigits, Written
<1>4. Written(Modulus, ClientDigits)
      BY <1>2, <1>3, Zenon
<1>. QED  BY <1>4 DEF Written, Unsigneds

\* The same for the server's writer.
ServerWritten(f) ==
    f = [u \in 0 .. Modulus - 1 |-> IF u \div Continue # 0
                                    THEN More(u % Continue, f[u \div Continue]) ELSE <<u % Continue>>]

\* Both writers write the same.
LEMMA SameDigits == \A u \in Unsigneds : ServerDigits[u] = ClientDigits[u]
<1>1. PICK f : f = [u \in 0 .. Modulus - 1 |-> ClientDigits[u]]
      OBVIOUS
<1>2. ASSUME NEW u \in 0 .. Modulus - 1
      PROVE  f[u] = IF u \div Continue # 0
                    THEN More(u % Continue, f[u \div Continue]) ELSE <<u % Continue>>
  <2>1. u \in Unsigneds /\ u \div Continue \in Unsigneds
        BY Shifted DEF Unsigneds
  <2>2. f[u] = ClientDigits[u] /\ f[u \div Continue] = ClientDigits[u \div Continue]
        BY <1>1, <2>1 DEF Unsigneds
  <2>3. CASE u < Continue
        BY <2>1, <2>2, <2>3, ClientEquation, Shifted
  <2>4. CASE ~ (u < Continue)
    <3>1. u \div Continue # 0
          BY <2>1, <2>4, Shifted, Scales
    <3>. QED  BY <2>1, <2>2, <2>4, <3>1, ClientEquation
  <2>. QED  BY <2>3, <2>4
<1>3. ServerWritten(f)
      BY <1>1, <1>2 DEF ServerWritten
<1>4. ServerDigits = CHOOSE g : ServerWritten(g)
      BY DEF ServerDigits, ServerWritten
<1>5. ServerWritten(ServerDigits)
      BY <1>3, <1>4, Zenon
<1>6. \A u \in Unsigneds : ServerDigits[u] =
         IF u \div Continue # 0 THEN More(u % Continue, ServerDigits[u \div Continue])
         ELSE <<u % Continue>>
      BY <1>5 DEF ServerWritten, Unsigneds
<1>. DEFINE T == {u \in Unsigneds : ServerDigits[u] # ClientDigits[u]}
<1>7. SUFFICES ASSUME T # {} PROVE FALSE
      OBVIOUS
<1>8. PICK u \in T : \A m \in T : u <= m
  <2>1. T \in SUBSET Nat
        BY Scales
  <2>. HIDE DEF T
  <2>. QED  BY <1>7, <2>1, LeastNumber
<1>9. u \in Unsigneds
      OBVIOUS
<1>10. CASE u < Continue
      BY <1>6, <1>9, <1>10, ClientEquation, Shifted
<1>11. CASE ~ (u < Continue)
  <2>1. u \div Continue # 0 /\ u \div Continue \in Unsigneds /\ u \div Continue < u
        BY <1>9, <1>11, Shifted, Scales
  <2>2. u \div Continue \notin T
        BY <1>8, <1>9, <2>1, Shifted
  <2>3. ServerDigits[u \div Continue] = ClientDigits[u \div Continue]
        BY <2>1, <2>2
  <2>4. ServerDigits[u] = More(u % Continue, ServerDigits[u \div Continue])
        BY <1>6, <1>9, <2>1
  <2>5. ClientDigits[u] = More(u % Continue, ClientDigits[u \div Continue])
        BY <1>9, <1>11, ClientEquation
  <2>. QED  BY <2>3, <2>4, <2>5
<1>. QED  BY <1>10, <1>11

\* A digit before others, byte by byte.
LEMMA MoreProperties ==
    ASSUME NEW d \in Nat, d < Continue, NEW s \in Seq(Bytes)
    PROVE  /\ More(d, s) \in Seq(Bytes) /\ Len(More(d, s)) = Len(s) + 1
           /\ More(d, s)[1] = d + Continue
           /\ \A k \in 1 .. Len(s) : More(d, s)[k + 1] = s[k]
<1>1. d + Continue \in Bytes
      BY Scales DEF Bytes
<1>. QED  BY <1>1 DEF More

\* A number below the weight of j digits is written in at most j bytes.
LEMMA DigitsTyped ==
    \A u \in Unsigneds :
        /\ ClientDigits[u] \in Seq(Bytes) /\ Len(ClientDigits[u]) >= 1
        /\ \A j \in 1 .. MaxBytes : u < Weight[j] => Len(ClientDigits[u]) <= j
<1>. DEFINE Typed(u) == /\ ClientDigits[u] \in Seq(Bytes) /\ Len(ClientDigits[u]) >= 1
                        /\ \A j \in 1 .. MaxBytes : u < Weight[j] => Len(ClientDigits[u]) <= j
            T == {u \in Unsigneds : ~ Typed(u)}
<1>1. SUFFICES ASSUME T # {} PROVE FALSE
      OBVIOUS
<1>2. PICK u \in T : \A m \in T : u <= m
  <2>1. T \in SUBSET Nat
        BY Scales
  <2>. HIDE DEF T
  <2>. QED  BY <1>1, <2>1, LeastNumber
<1>3. u \in Unsigneds /\ ~ Typed(u)
      OBVIOUS
<1>4. CASE u < Continue
  <2>1. ClientDigits[u] = <<u>> /\ u \in Nat
        BY <1>3, <1>4, ClientEquation, Shifted
  <2>2. u \in Bytes
        BY <1>4, <2>1, Scales DEF Bytes
  <2>3. ClientDigits[u] \in Seq(Bytes) /\ Len(ClientDigits[u]) = 1
        BY <2>1, <2>2
  <2>4. \A j \in 1 .. MaxBytes : 1 <= j
        BY Scales
  <2>5. Typed(u)
        BY <2>3, <2>4
  <2>. QED  BY <1>3, <2>5
<1>5. CASE ~ (u < Continue)
  <2>. DEFINE q == u \div Continue
              d == u % Continue
  <2>1. q \in Unsigneds /\ q \in Nat /\ q < u /\ q # 0 /\ d \in Nat /\ d < Continue
        BY <1>3, <1>5, Shifted, Scales
  <2>2. Typed(q)
    <3>1. q \notin T
          BY <1>2, <1>3, <2>1, Shifted
    <3>. QED  BY <2>1, <3>1
  <2>3. ClientDigits[u] = More(d, ClientDigits[q])
        BY <1>3, <1>5, ClientEquation
  <2>4. ClientDigits[u] \in Seq(Bytes) /\ Len(ClientDigits[u]) = Len(ClientDigits[q]) + 1
    <3>. HIDE DEF q, d
    <3>. QED  BY <2>1, <2>2, <2>3, MoreProperties
  <2>5. ASSUME NEW j \in 1 .. MaxBytes, u < Weight[j]
        PROVE  Len(ClientDigits[u]) <= j
    <3>1. j # 1
      <4>1. Weight[1] = Continue * Weight[0] /\ Weight[0] = 1
            BY Scales, Weights
      <4>. QED  BY <1>5, <2>5, <4>1, Scales
    <3>2. j - 1 \in 1 .. MaxBytes /\ j - 1 \in 0 .. MaxBytes /\ j \in Nat
          BY <3>1, Scales
    <3>3. Weight[j] = Continue * Weight[j - 1] /\ Weight[j - 1] \in Nat
          BY <3>2, Weights
    <3>4. q < Weight[j - 1]
      <4>1. PICK w \in Nat, v \in Nat : w = Weight[j - 1] /\ v = u
            BY <1>3, <3>3, Shifted
      <4>2. v < Continue * w
            BY <2>5, <3>3, <4>1
      <4>3. v \div Continue < w
            BY <4>2, Scales, Smaller, Zenon
      <4>. QED  BY <4>1, <4>3
    <3>5. Len(ClientDigits[q]) <= j - 1
          BY <2>2, <3>2, <3>4
    <3>6. Len(ClientDigits[q]) \in Nat
          BY <2>2, LenProperties
    <3>. QED  BY <2>4, <3>2, <3>5, <3>6
  <2>6. Len(ClientDigits[u]) >= 1
    <3>1. Len(ClientDigits[q]) \in Nat
          BY <2>2, LenProperties
    <3>. QED  BY <2>4, <3>1
  <2>. QED  BY <1>3, <2>4, <2>5, <2>6
<1>. QED  BY <1>4, <1>5

\* The digits of a number: how many, and the first against the others.
LEMMA Digits ==
    ASSUME NEW u \in Unsigneds
    PROVE  /\ ClientDigits[u] \in Seq(Bytes)
           /\ Len(ClientDigits[u]) \in 1 .. MaxBytes
           /\ u < Continue => ClientDigits[u][1] = u /\ Len(ClientDigits[u]) = 1
           /\ u >= Continue =>
                 /\ u \div Continue \in Unsigneds
                 /\ ClientDigits[u][1] = (u % Continue) + Continue
                 /\ Len(ClientDigits[u]) = Len(ClientDigits[u \div Continue]) + 1
                 /\ \A k \in 1 .. Len(ClientDigits[u \div Continue]) :
                       ClientDigits[u][k + 1] = ClientDigits[u \div Continue][k]
<1>1. ClientDigits[u] \in Seq(Bytes) /\ Len(ClientDigits[u]) >= 1
      BY DigitsTyped
<1>2. Len(ClientDigits[u]) <= MaxBytes
  <2>1. MaxBytes \in 1 .. MaxBytes /\ MaxBytes \in 0 .. MaxBytes /\ u \in Nat /\ u < Modulus
        BY Scales DEF Unsigneds
  <2>2. u < Weight[MaxBytes]
        BY <2>1, Weights, Scales
  <2>. QED  BY <2>1, <2>2, DigitsTyped
<1>3. Len(ClientDigits[u]) \in 1 .. MaxBytes
      BY <1>1, <1>2, LenProperties, Scales
<1>4. u < Continue => ClientDigits[u][1] = u /\ Len(ClientDigits[u]) = 1
  <2>1. u < Continue => ClientDigits[u] = <<u>>
        BY ClientEquation
  <2>. QED  BY <2>1
<1>5. ASSUME u >= Continue
      PROVE  /\ u \div Continue \in Unsigneds
             /\ ClientDigits[u][1] = (u % Continue) + Continue
             /\ Len(ClientDigits[u]) = Len(ClientDigits[u \div Continue]) + 1
             /\ \A k \in 1 .. Len(ClientDigits[u \div Continue]) :
                   ClientDigits[u][k + 1] = ClientDigits[u \div Continue][k]
  <2>1. PICK q, d : q = u \div Continue /\ d = u % Continue
        OBVIOUS
  <2>2. q \in Unsigneds /\ d \in Nat /\ d < Continue
        BY <2>1, Shifted
  <2>3. ClientDigits[u] = More(d, ClientDigits[q])
    <3>1. ~ (u < Continue)
          BY <1>5, Shifted, Scales
    <3>. QED  BY <2>1, <3>1, ClientEquation
  <2>4. ClientDigits[q] \in Seq(Bytes)
        BY <2>2, DigitsTyped
  <2>5. /\ More(d, ClientDigits[q])[1] = d + Continue
        /\ Len(More(d, ClientDigits[q])) = Len(ClientDigits[q]) + 1
        /\ \A k \in 1 .. Len(ClientDigits[q]) : More(d, ClientDigits[q])[k + 1] = ClientDigits[q][k]
        BY <2>2, <2>4, MoreProperties
  <2>. QED  BY <2>1, <2>2, <2>3, <2>5
<1>. QED  BY <1>1, <1>3, <1>4, <1>5

\* Every number survives the conversion to bits and back.
LEMMA SignedUnsigned ==
    ASSUME NEW v \in -(Modulus \div 2) .. Modulus \div 2 - 1
    PROVE  /\ Unsigned(v) \in Unsigneds /\ Signed(Unsigned(v)) = v
           /\ v >= 0 => Unsigned(v) = v
<1>1. PICK h, m : h = Modulus \div 2 /\ m = Modulus
      OBVIOUS
<1>2. h \in Nat /\ m \in Nat /\ 2 * h <= m /\ m <= 2 * h + 1
      BY <1>1, Scales
<1>3. v \in Int /\ -h <= v /\ v < h
      BY <1>1, <1>2
<1>4. CASE v < 0
  <2>1. Unsigned(v) = v + m
        BY <1>1, <1>4 DEF Unsigned
  <2>2. v + m \in Unsigneds /\ ~ (v + m < h)
        BY <1>1, <1>2, <1>3, <1>4 DEF Unsigneds
  <2>3. Signed(v + m) = IF v + m < Modulus \div 2 THEN v + m ELSE (v + m) - Modulus
        BY DEF Signed
  <2>4. ~ (v + m < Modulus \div 2) /\ (v + m) - Modulus = v
        BY <1>1, <1>2, <1>3, <2>2
  <2>5. Signed(v + m) = v
        BY <2>3, <2>4, Zenon
  <2>. QED  BY <1>2, <1>3, <1>4, <2>1, <2>2, <2>5
<1>5. CASE ~ (v < 0)
  <2>1. Unsigned(v) = v
        BY <1>5 DEF Unsigned
  <2>2. v \in Unsigneds
        BY <1>1, <1>2, <1>3, <1>5 DEF Unsigneds
  <2>3. Signed(v) = v
        BY <1>1, <1>3 DEF Signed
  <2>. QED  BY <2>1, <2>2, <2>3
<1>. QED  BY <1>4, <1>5

-----------------------------------------------------------------------------
(* What the notation means *)

\* The first byte without the continuation bit ends the number.
LEMMA FirstEnd ==
    ASSUME NEW s \in Seq(Bytes), NEW n \in 1 .. Len(s), s[n] < Continue,
           \A k \in 1 .. n - 1 : s[k] >= Continue
    PROVE  EndOf(s) = n
<1>. DEFINE ends == {k \in DOMAIN s : s[k] < Continue}
<1>0. Len(s) \in Nat /\ DOMAIN s = 1 .. Len(s)
      BY LenProperties
<1>1. n \in ends
      BY <1>0
<1>2. \A j \in ends : n <= j
  <2>. SUFFICES ASSUME NEW j \in ends, ~ (n <= j) PROVE FALSE
       OBVIOUS
  <2>1. j \in 1 .. Len(s) /\ s[j] < Continue
        BY <1>0
  <2>2. j \in 1 .. n - 1 /\ s[j] \in Bytes
        BY <1>0, <2>1
  <2>3. s[j] >= Continue /\ s[j] \in Int
        BY <2>2, Scales DEF Bytes
  <2>. QED  BY <2>1, <2>3, Scales
<1>3. ends \subseteq Nat
      BY <1>0
<1>4. EndOf(s) = IF ends = {} THEN 0 ELSE CHOOSE k \in ends : \A j \in ends : k <= j
      BY DEF EndOf
<1>. HIDE DEF ends
<1>5. \A k \in ends : (\A j \in ends : k <= j) => k = n
      BY <1>1, <1>2, <1>3
<1>. QED  BY <1>1, <1>2, <1>4, <1>5

\* Bytes with the continuation bit do not end it.
LEMMA NoEnd ==
    ASSUME NEW s \in Seq(Bytes), NEW n \in 0 .. Len(s),
           \A k \in 1 .. n : s[k] >= Continue
    PROVE  EndOf(s) \notin 1 .. n
<1>. DEFINE ends == {k \in DOMAIN s : s[k] < Continue}
<1>0. Len(s) \in Nat /\ DOMAIN s = 1 .. Len(s)
      BY LenProperties
<1>1. \A j \in ends : j \notin 1 .. n
  <2>. SUFFICES ASSUME NEW j \in ends, j \in 1 .. n PROVE FALSE
       OBVIOUS
  <2>1. s[j] < Continue /\ s[j] >= Continue /\ s[j] \in Bytes
        BY <1>0
  <2>. QED  BY <2>1, Scales DEF Bytes
<1>2. ends # {} => \E k \in ends : \A j \in ends : k <= j
  <2>1. ends \in SUBSET Nat
        BY <1>0
  <2>. HIDE DEF ends
  <2>. QED  BY <2>1, LeastNumber
<1>3. EndOf(s) = IF ends = {} THEN 0 ELSE CHOOSE k \in ends : \A j \in ends : k <= j
      BY DEF EndOf
<1>. HIDE DEF ends
<1>4. CASE ends = {}
      BY <1>0, <1>3, <1>4
<1>5. CASE ends # {}
  <2>1. EndOf(s) \in ends
        BY <1>2, <1>3, <1>5
  <2>. QED  BY <1>1, <2>1
<1>. QED  BY <1>4, <1>5

\* How many digits of s count.
Reach(s) == IF Len(s) < MaxBytes THEN Len(s) ELSE MaxBytes

\* The equation of Value, the reference for what the bytes mean.
LEMMA Values ==
    ASSUME NEW s \in Seq(Bytes)
    PROVE  /\ Value(s)[0] = 0
           /\ \A k \in 0 .. Reach(s) : Value(s)[k] \in Nat
           /\ \A k \in 1 .. Reach(s) :
                 Value(s)[k] = Value(s)[k - 1] + (s[k] % Continue) * Weight[k - 1]
<1>0. Len(s) \in Nat /\ MaxBytes \in Nat /\ Reach(s) \in Nat /\ Reach(s) <= Len(s) /\ Reach(s) <= MaxBytes
      BY LenProperties, Scales DEF Reach
<1>. DEFINE n == Reach(s)
            P(f) == f = [k \in 0 .. n |-> IF k = 0 THEN 0
                                          ELSE f[k - 1] + (s[k] % Continue) * Weight[k - 1]]
            t == [k \in 1 .. n |-> (s[k] % Continue) * Weight[k - 1]]
<1>1. \A k \in 1 .. n : t[k] \in Nat
  <2>. SUFFICES ASSUME NEW k \in 1 .. n PROVE t[k] \in Nat
       OBVIOUS
  <2>1. k \in 1 .. Len(s) /\ k - 1 \in 0 .. MaxBytes
        BY <1>0
  <2>2. s[k] \in Nat /\ Weight[k - 1] \in Nat
        BY <2>1, Weights, Scales DEF Bytes
  <2>3. s[k] % Continue \in Nat
        BY <2>2, Scales
  <2>4. t[k] = (s[k] % Continue) * Weight[k - 1]
        OBVIOUS
  <2>. HIDE DEF t
  <2>. QED  BY <2>2, <2>3, <2>4
<1>2. PICK f : Recursion(n, 1, 0, t, f)
  <2>. HIDE DEF t, n
  <2>1. n \in Nat
        BY <1>0 DEF n
  <2>. QED  BY <1>1, <2>1, RecursionSolved
<1>3. P(f)
  <2>1. /\ f = [k \in 0 .. n |-> IF k = 0 THEN 0 ELSE 1 * f[k - 1] + t[k]]
        /\ \A k \in 0 .. n : f[k] \in Nat
        BY <1>2 DEF Recursion
  <2>2. \A k \in 0 .. n : k # 0 => 1 * f[k - 1] + t[k] = f[k - 1] + (s[k] % Continue) * Weight[k - 1]
    <3>. SUFFICES ASSUME NEW k \in 0 .. n, k # 0
                  PROVE  1 * f[k - 1] + t[k] = f[k - 1] + (s[k] % Continue) * Weight[k - 1]
         OBVIOUS
    <3>1. k - 1 \in 0 .. n /\ k \in 1 .. n
          BY <1>0
    <3>2. f[k - 1] \in Nat /\ t[k] = (s[k] % Continue) * Weight[k - 1]
          BY <2>1, <3>1
    <3>3. 1 * f[k - 1] = f[k - 1]
          BY <3>2
    <3>. QED  BY <3>2, <3>3
  <2>. HIDE DEF t, n
  <2>. QED  BY <2>1, <2>2
<1>4. Value(s) = CHOOSE g : P(g)
      BY DEF Value, Reach
<1>. HIDE DEF P
<1>5. P(Value(s))
      BY <1>3, <1>4, Zenon
<1>6. \A k \in 0 .. n : Value(s)[k] = IF k = 0 THEN 0
                                      ELSE Value(s)[k - 1] + (s[k] % Continue) * Weight[k - 1]
      BY <1>5 DEF P
<1>7. /\ Value(s)[0] = 0
      /\ \A k \in 1 .. n : Value(s)[k] = Value(s)[k - 1] + (s[k] % Continue) * Weight[k - 1]
      BY <1>0, <1>6
<1>8. \A k \in 0 .. n : Value(s)[k] \in Nat
  <2>. DEFINE T == {k \in 0 .. n : ~ (Value(s)[k] \in Nat)}
  <2>1. SUFFICES ASSUME T # {} PROVE FALSE
        OBVIOUS
  <2>2. PICK k \in T : \A m \in T : k <= m
    <3>1. T \in SUBSET Nat
          BY <1>0
    <3>. HIDE DEF T
    <3>. QED  BY <2>1, <3>1, LeastNumber
  <2>3. k # 0
        BY <1>7
  <2>4. k \in 1 .. n /\ k - 1 \in 0 .. n /\ k - 1 \notin T
        BY <1>0, <2>2, <2>3
  <2>5. Value(s)[k - 1] \in Nat
        BY <2>4
  <2>6. (s[k] % Continue) * Weight[k - 1] \in Nat
        BY <1>1, <2>4
  <2>7. Value(s)[k] = Value(s)[k - 1] + (s[k] % Continue) * Weight[k - 1]
        BY <1>7, <2>4
  <2>8. Value(s)[k] \in Nat
        BY <2>5, <2>6, <2>7
  <2>. QED  BY <2>8
<1>. QED  BY <1>7, <1>8

-----------------------------------------------------------------------------
(* What is sent *)

\* z is y behind x.
Joined(x, y, z) ==
    /\ z \in Seq(Bytes) /\ Len(z) = Len(x) + Len(y)
    /\ \A k \in 1 .. Len(x) : z[k] = x[k]
    /\ \A k \in 1 .. Len(y) : z[Len(x) + k] = y[k]

LEMMA Join ==
    ASSUME NEW x \in Seq(Bytes), NEW y \in Seq(Bytes), NEW z, z = x \o y
    PROVE  Joined(x, y, z)
<1>1. /\ z \in Seq(Bytes) /\ Len(z) = Len(x) + Len(y)
      /\ \A i \in 1 .. Len(x) + Len(y) : z[i] = IF i <= Len(x) THEN x[i] ELSE y[i - Len(x)]
      BY ConcatProperties
<1>2. Len(x) \in Nat /\ Len(y) \in Nat
      BY LenProperties
<1>. QED  BY <1>1, <1>2 DEF Joined

\* z is x without its last c bytes.
Shortened(x, c, z) ==
    /\ z \in Seq(Bytes)
    /\ Len(z) = IF c <= Len(x) THEN Len(x) - c ELSE 0
    /\ \A k \in 1 .. Len(z) : z[k] = x[k]

LEMMA Cut ==
    ASSUME NEW x \in Seq(Bytes), NEW c \in Nat, NEW z, z = SubSeq(x, 1, Len(x) - c)
    PROVE  Shortened(x, c, z)
<1>1. Len(x) \in Nat
      BY LenProperties
<1>2. \A i \in 1 .. Len(x) - c : x[i] \in Bytes
      BY <1>1
<1>3. PICK n : n = Len(x) - c
      OBVIOUS
<1>4. n \in Int
      BY <1>1, <1>3
<1>5. /\ z \in Seq(Bytes)
      /\ Len(z) = IF 1 <= n THEN n - 1 + 1 ELSE 0
      /\ \A i \in 1 .. n - 1 + 1 : z[i] = x[1 + i - 1]
      BY <1>2, <1>3, <1>4, SubSeqProperties
<1>6. Len(z) = IF c <= Len(x) THEN Len(x) - c ELSE 0
      BY <1>1, <1>3, <1>5
<1>7. \A k \in 1 .. Len(z) : k \in 1 .. n - 1 + 1 /\ 1 + k - 1 = k
      BY <1>1, <1>3, <1>5
<1>. QED  BY <1>5, <1>6, <1>7 DEF Shortened

\* z is the n bytes of x behind the first p.
Sliced(x, p, n, z) == z \in Seq(Bytes) /\ Len(z) = n /\ \A k \in 1 .. n : z[k] = x[p + k]

LEMMA Slice ==
    ASSUME NEW x \in Seq(Bytes), NEW p \in Nat, NEW n \in Nat, p + n <= Len(x),
           NEW z, z = SubSeq(x, p + 1, p + n)
    PROVE  Sliced(x, p, n, z)
<1>1. Len(x) \in Nat
      BY LenProperties
<1>2. \A i \in p + 1 .. p + n : x[i] \in Bytes
  <2>1. \A i \in p + 1 .. p + n : i \in 1 .. Len(x)
        BY <1>1
  <2>. QED  BY <2>1, ElementOfSeq
<1>3. PICK a \in Int, b \in Int : a = p + 1 /\ b = p + n
      OBVIOUS
<1>4. /\ z \in Seq(Bytes)
      /\ Len(z) = IF a <= b THEN b - a + 1 ELSE 0
      /\ \A i \in 1 .. b - a + 1 : z[i] = x[a + i - 1]
      BY <1>2, <1>3, SubSeqProperties
<1>5. Len(z) = n
      BY <1>3, <1>4
<1>6. \A k \in 1 .. n : k \in 1 .. b - a + 1 /\ a + k - 1 = p + k
      BY <1>3
<1>. QED  BY <1>4, <1>5, <1>6 DEF Sliced

\* Where in the payload the id and the size end, and how long the length is.
IdEnd(j)   == Len(ClientDigits[Unsigned(j.id)])
SizeEnd(j) == IdEnd(j) + Len(ClientDigits[Len(j.text)])
Sized(j)   == Len(ClientDigits[Len(Payload(j))])

\* Both sides write the same bytes for a number.
LEMMA WrittenNumber ==
    ASSUME NEW sender, NEW v \in -(Modulus \div 2) .. Modulus \div 2 - 1
    PROVE  WriteVarInt(sender, v) = ClientDigits[Unsigned(v)]
BY SignedUnsigned, SameDigits DEF WriteVarInt

\* A length within the limits is a number that both conversions keep.
LEMMA Limits ==
    /\ MaxPacket \in Nat /\ MaxString \in Nat /\ MaxString <= MaxPacket
    /\ \A n \in Nat : n <= MaxPacket =>
          /\ n \in -(Modulus \div 2) .. Modulus \div 2 - 1
          /\ n \in Unsigneds /\ Unsigned(n) = n /\ Signed(n) = n
<1>1. PICK h : h = Modulus \div 2
      OBVIOUS
<1>2. h \in Nat /\ h <= Modulus
      BY <1>1, Scales
<1>3. MaxPacket \in Nat /\ MaxString \in Nat /\ MaxString <= MaxPacket /\ MaxPacket < h
      BY <1>1, <1>2, LimitAssumption
<1>4. ASSUME NEW n \in Nat, n <= MaxPacket
      PROVE  n \in -(Modulus \div 2) .. Modulus \div 2 - 1
      BY <1>1, <1>2, <1>3, <1>4
<1>. QED  BY <1>3, <1>4, SignedUnsigned

\* Where in the payload the id, the size and the text are.
LEMMA PayloadBytes ==
    ASSUME NEW j \in Jobs, StringFits(j)
    PROVE  /\ Payload(j) \in Seq(Bytes)
           /\ j.text \in Seq(Bytes) /\ Len(j.text) \in Nat /\ Len(j.text) <= MaxString
           /\ Len(j.text) \in Unsigneds /\ Unsigned(j.id) \in Unsigneds
           /\ IdEnd(j) \in Nat /\ IdEnd(j) >= 1 /\ SizeEnd(j) \in Nat
           /\ Len(Payload(j)) = SizeEnd(j) + Len(j.text)
           /\ \A k \in 1 .. IdEnd(j) : Payload(j)[k] = ClientDigits[Unsigned(j.id)][k]
           /\ \A k \in 1 .. Len(ClientDigits[Len(j.text)]) :
                 Payload(j)[IdEnd(j) + k] = ClientDigits[Len(j.text)][k]
           /\ \A k \in 1 .. Len(j.text) : Payload(j)[SizeEnd(j) + k] = j.text[k]
<1>1. /\ j.text \in Seq(Bytes) /\ j.id \in -(Modulus \div 2) .. Modulus \div 2 - 1
      BY JobsAssumption
<1>2. Len(j.text) \in Nat /\ Len(j.text) <= MaxString /\ Len(j.text) <= MaxPacket
      BY <1>1, Limits, LenProperties DEF StringFits
<1>3. PICK n \in Nat : n = Len(j.text)
      BY <1>2
<1>4. /\ n \in -(Modulus \div 2) .. Modulus \div 2 - 1
      /\ n \in Unsigneds /\ Unsigned(n) = n /\ Unsigned(j.id) \in Unsigneds
      BY <1>1, <1>2, <1>3, Limits, SignedUnsigned
<1>5. PICK a, b : a = ClientDigits[Unsigned(j.id)] /\ b = ClientDigits[n]
      OBVIOUS
<1>6. WriteVarInt(j.sender, j.id) = a /\ WriteVarInt(j.sender, n) = b
      BY <1>1, <1>4, <1>5, WrittenNumber
<1>7. Payload(j) = (a \o b) \o j.text
      BY <1>3, <1>6 DEF Payload
<1>8. /\ a \in Seq(Bytes) /\ b \in Seq(Bytes) /\ Len(a) \in 1 .. MaxBytes /\ Len(b) \in 1 .. MaxBytes
      BY <1>4, <1>5, Digits
<1>9. PICK ab : ab = a \o b
      OBVIOUS
<1>10. /\ ab \in Seq(Bytes) /\ Len(ab) = Len(a) + Len(b)
       /\ \A k \in 1 .. Len(a) : ab[k] = a[k]
       /\ \A k \in 1 .. Len(b) : ab[Len(a) + k] = b[k]
       BY <1>8, <1>9, Join DEF Joined
<1>11. PICK p : p = Payload(j)
       OBVIOUS
<1>12. p = ab \o j.text
       BY <1>7, <1>9, <1>11
<1>13. /\ p \in Seq(Bytes) /\ Len(p) = Len(ab) + n
       /\ \A k \in 1 .. Len(ab) : p[k] = ab[k]
       /\ \A k \in 1 .. n : p[Len(ab) + k] = j.text[k]
  <2>1. Joined(ab, j.text, p)
        BY <1>1, <1>10, <1>12, Join, Zenon
  <2>. QED  BY <1>3, <2>1 DEF Joined
<1>14. IdEnd(j) = Len(a) /\ SizeEnd(j) = Len(ab)
       BY <1>3, <1>5, <1>10 DEF IdEnd, SizeEnd
<1>15. Len(a) \in Nat /\ Len(a) >= 1 /\ Len(b) \in Nat /\ Len(ab) \in Nat
       BY <1>8, <1>10, Scales
<1>16. \A k \in 1 .. Len(a) : p[k] = a[k]
  <2>1. \A k \in 1 .. Len(a) : k \in 1 .. Len(ab)
        BY <1>10, <1>15
  <2>. QED  BY <1>10, <1>13, <2>1
<1>17. \A k \in 1 .. Len(b) : p[Len(a) + k] = b[k]
  <2>1. \A k \in 1 .. Len(b) : Len(a) + k \in 1 .. Len(ab)
        BY <1>10, <1>15
  <2>. QED  BY <1>10, <1>13, <2>1
<1>. QED  BY <1>1, <1>2, <1>3, <1>4, <1>5, <1>11, <1>13, <1>14, <1>15, <1>16, <1>17

\* Where in the frame the length and the payload are.
LEMMA FrameBytes ==
    ASSUME NEW j \in Jobs, StringFits(j), PacketFits(j)
    PROVE  /\ Payload(j) \in Seq(Bytes) /\ Len(Payload(j)) \in 1 .. MaxPacket
           /\ Len(Payload(j)) \in Unsigneds /\ Signed(Len(Payload(j))) = Len(Payload(j))
           /\ Frame(j) \in Seq(Bytes) /\ Sized(j) \in Nat /\ Sized(j) >= 1
           /\ Len(Frame(j)) = Sized(j) + Len(Payload(j))
           /\ \A k \in 1 .. Sized(j) : Frame(j)[k] = ClientDigits[Len(Payload(j))][k]
           /\ \A k \in 1 .. Len(Payload(j)) : Frame(j)[Sized(j) + k] = Payload(j)[k]
<1>1. PICK p, n : p = Payload(j) /\ n = Len(p)
      OBVIOUS
<1>2. p \in Seq(Bytes) /\ n \in Nat /\ n >= 1 /\ n <= MaxPacket
  <2>1. /\ p \in Seq(Bytes) /\ n = SizeEnd(j) + Len(j.text)
        /\ SizeEnd(j) \in Nat /\ Len(j.text) \in Nat /\ IdEnd(j) \in Nat /\ IdEnd(j) >= 1
        /\ Len(j.text) \in Unsigneds
        BY <1>1, PayloadBytes
  <2>2. SizeEnd(j) >= 1
    <3>1. Len(ClientDigits[Len(j.text)]) \in 1 .. MaxBytes
          BY <2>1, Digits
    <3>. QED  BY <2>1, <3>1, Scales DEF SizeEnd
  <2>3. n <= MaxPacket
        BY <1>1 DEF PacketFits
  <2>. QED  BY <2>1, <2>2, <2>3
<1>3. /\ n \in -(Modulus \div 2) .. Modulus \div 2 - 1
      /\ n \in Unsigneds /\ Unsigned(n) = n /\ Signed(n) = n
      BY <1>2, Limits
<1>4. PICK a : a = ClientDigits[n]
      OBVIOUS
<1>5. WriteVarInt(j.sender, n) = a
      BY <1>3, <1>4, WrittenNumber
<1>6. PICK f : f = Frame(j)
      OBVIOUS
<1>7. f = a \o p
      BY <1>1, <1>5, <1>6 DEF Frame
<1>8. a \in Seq(Bytes) /\ Len(a) \in 1 .. MaxBytes
      BY <1>3, <1>4, Digits
<1>9. /\ f \in Seq(Bytes) /\ Len(f) = Len(a) + n
      /\ \A k \in 1 .. Len(a) : f[k] = a[k]
      /\ \A k \in 1 .. n : f[Len(a) + k] = p[k]
      BY <1>1, <1>2, <1>7, <1>8, Join DEF Joined
<1>10. Sized(j) = Len(a) /\ Len(a) \in Nat /\ Len(a) >= 1
      BY <1>1, <1>4, <1>8, Scales DEF Sized
<1>11. n \in 1 .. MaxPacket
      BY <1>2, Limits
<1>. QED  BY <1>1, <1>2, <1>3, <1>4, <1>6, <1>9, <1>10, <1>11

\* s is what arrives of what is sent for j.
Sent(j, s) ==
    /\ StringFits(j) /\ PacketFits(j)
    /\ s = LET all == Frame(j) \o j.tail IN SubSeq(all, 1, Len(all) - j.cut)

\* Nothing of the packet is missing.
Whole(j) == j.cut <= Len(j.tail)

\* What arrives agrees with the frame, and holds all of it unless it was cut.
LEMMA StreamBytes ==
    ASSUME NEW j \in Jobs, NEW s, Sent(j, s)
    PROVE  /\ s \in Seq(Bytes)
           /\ Whole(j) <=> Len(Frame(j)) <= Len(s)
           /\ \A k \in 1 .. Len(s) : k <= Len(Frame(j)) => s[k] = Frame(j)[k]
<1>1. PICK f, all : f = Frame(j) /\ all = f \o j.tail
      OBVIOUS
<1>2. s = SubSeq(all, 1, Len(all) - j.cut) /\ StringFits(j) /\ PacketFits(j)
      BY <1>1 DEF Sent
<1>3. /\ f \in Seq(Bytes) /\ Len(f) \in Nat /\ Len(f) >= 1
      /\ j.tail \in Seq(Bytes) /\ Len(j.tail) \in Nat /\ j.cut \in Nat
  <2>1. /\ f \in Seq(Bytes) /\ Sized(j) \in Nat /\ Sized(j) >= 1 /\ Len(Payload(j)) \in 1 .. MaxPacket
        /\ Len(f) = Sized(j) + Len(Payload(j))
        BY <1>1, <1>2, FrameBytes
  <2>2. j.tail \in Seq(Bytes) /\ j.cut \in Nat
        BY JobsAssumption
  <2>. QED  BY <2>1, <2>2, Limits, LenProperties
<1>4. /\ all \in Seq(Bytes) /\ Len(all) = Len(f) + Len(j.tail)
      /\ \A k \in 1 .. Len(f) : all[k] = f[k]
      BY <1>1, <1>3, Join DEF Joined
<1>5. /\ s \in Seq(Bytes)
      /\ Len(s) = IF j.cut <= Len(all) THEN Len(all) - j.cut ELSE 0
      /\ \A k \in 1 .. Len(s) : s[k] = all[k]
  <2>1. Shortened(all, j.cut, s)
        BY <1>2, <1>3, <1>4, Cut, Zenon
  <2>. QED  BY <2>1 DEF Shortened
<1>6. j.cut <= Len(j.tail) <=> Len(f) <= Len(s)
      BY <1>3, <1>4, <1>5
<1>7. \A k \in 1 .. Len(s) : k <= Len(f) => s[k] = f[k]
  <2>1. \A k \in 1 .. Len(s) : k <= Len(f) => k \in 1 .. Len(f)
        BY <1>3
  <2>. QED  BY <1>4, <1>5, <2>1
<1>. QED  BY <1>1, <1>5, <1>6, <1>7 DEF Whole

-----------------------------------------------------------------------------
(* What a byte adds *)

\* Accumulate, of values.
Sum(n, res, byte) == (res + (byte % Continue) * Weight[n]) % Modulus

\* What the loop computes is a number.
LEMMA Sums ==
    ASSUME NEW n \in 0 .. MaxBytes, NEW res \in Nat, NEW byte \in Bytes
    PROVE  /\ byte % Continue \in Nat /\ (byte % Continue) * Weight[n] \in Nat
           /\ Sum(n, res, byte) \in Unsigneds /\ Signed(Sum(n, res, byte)) \in Int
<1>1. PICK d, w : d = byte % Continue /\ w = Weight[n]
      OBVIOUS
<1>2. d \in Nat /\ w \in Nat
      BY <1>1, Weights, Scales DEF Bytes
<1>3. PICK x \in Nat : x = d * w
      BY <1>2
<1>4. PICK y \in Nat : y = (res + x) % Modulus
      BY <1>3, Scales
<1>5. y < Modulus
      BY <1>3, <1>4, Scales
<1>6. Sum(n, res, byte) = y
      BY <1>1, <1>3, <1>4 DEF Sum
<1>7. y \in Unsigneds
      BY <1>5, Scales DEF Unsigneds
<1>8. Signed(y) \in Int
      BY Scales DEF Signed
<1>. QED  BY <1>1, <1>2, <1>3, <1>6, <1>7, <1>8

\* The bytes of s up to o are the beginning of a number, res their value.
Scanning(n, res, s, o) ==
    /\ n = o
    /\ \A k \in 1 .. o : s[k] >= Continue
    /\ res = Value(s)[o] % Modulus

\* s begins with a number, and v is that number.
Scanned(s, v) == EndOf(s) \in 1 .. MaxBytes /\ v = Meaning(s)

\* A byte more, and the value so far is still that of the bytes read.
LEMMA ScanStep ==
    ASSUME NEW n \in 0 .. MaxBytes, n < MaxBytes, NEW res, NEW s \in Seq(Bytes),
           NEW o \in Nat, o < Len(s), Scanning(n, res, s, o)
    PROVE  /\ s[o + 1] >= Continue => Scanning(n + 1, Sum(n, res, s[o + 1]), s, o + 1)
           /\ s[o + 1] < Continue => Scanned(s, Signed(Sum(n, res, s[o + 1])))
<1>1. Len(s) \in Nat /\ n = o /\ o + 1 \in 1 .. Len(s) /\ o + 1 <= MaxBytes
      BY LenProperties, Scales DEF Scanning
<1>2. o + 1 \in 1 .. Reach(s) /\ o \in 0 .. Reach(s)
      BY <1>1, Scales DEF Reach
<1>3. PICK b, d, w : b = s[o + 1] /\ d = b % Continue /\ w = Weight[o]
      OBVIOUS
<1>4. b \in Bytes
      BY <1>1, <1>3, ElementOfSeq
<1>5. PICK y \in Nat : y = d * w
      BY <1>1, <1>3, <1>4, Sums, Scales, Zenon
<1>6. PICK x \in Nat : x = Value(s)[o]
      BY <1>2, Values
<1>7. Value(s)[o + 1] = x + y
  <2>1. Value(s)[o + 1] = Value(s)[(o + 1) - 1] + (s[o + 1] % Continue) * Weight[(o + 1) - 1]
        BY <1>2, Values
  <2>2. (o + 1) - 1 = o
        OBVIOUS
  <2>. QED  BY <1>3, <1>5, <1>6, <2>1, <2>2
<1>8. Sum(n, res, b) = Value(s)[o + 1] % Modulus
  <2>1. Sum(n, res, b) = ((x % Modulus) + y) % Modulus
        BY <1>1, <1>3, <1>5, <1>6 DEF Sum, Scanning
  <2>2. ((x % Modulus) + y) % Modulus = (x + y) % Modulus
    <3>1. Modulus \in Nat /\ Modulus >= 1
          BY Scales
    <3>. QED  BY <3>1, SumRemainder, Zenon
  <2>. QED  BY <1>7, <2>1, <2>2
<1>9. ASSUME b >= Continue
      PROVE  Scanning(n + 1, Sum(n, res, b), s, o + 1)
  <2>1. \A k \in 1 .. o + 1 : s[k] >= Continue
    <3>1. \A k \in 1 .. o + 1 : k \in 1 .. o \/ k = o + 1
          OBVIOUS
    <3>. QED  BY <1>3, <1>9, <3>1 DEF Scanning
  <2>. QED  BY <1>1, <1>8, <2>1 DEF Scanning
<1>10. ASSUME b < Continue
       PROVE  Scanned(s, Signed(Sum(n, res, b)))
  <2>1. EndOf(s) = o + 1
    <3>1. \A k \in 1 .. (o + 1) - 1 : s[k] >= Continue
      <4>1. (o + 1) - 1 = o
            OBVIOUS
      <4>. QED  BY <4>1 DEF Scanning
    <3>2. PICK m : m = o + 1
          OBVIOUS
    <3>3. m \in 1 .. Len(s) /\ s[m] < Continue /\ \A k \in 1 .. m - 1 : s[k] >= Continue
          BY <1>1, <1>3, <1>10, <3>1, <3>2
    <3>. QED  BY <3>2, <3>3, FirstEnd
  <2>2. EndOf(s) \in 1 .. MaxBytes
        BY <1>1, <2>1, Scales
  <2>. QED  BY <1>8, <2>1, <2>2 DEF Scanned, Meaning
<1>. QED  BY <1>3, <1>9, <1>10

\* MaxBytes bytes that all continue: no number is there.
LEMMA AllRead ==
    ASSUME NEW n \in 0 .. MaxBytes, n >= MaxBytes, NEW res, NEW s \in Seq(Bytes),
           NEW o \in 0 .. Len(s), Scanning(n, res, s, o)
    PROVE  Len(s) >= MaxBytes /\ EndOf(s) \notin 1 .. MaxBytes
<1>1. Len(s) \in Nat /\ n = MaxBytes /\ o = n
      BY LenProperties, Scales DEF Scanning
<1>2. \A k \in 1 .. o : s[k] >= Continue
      BY DEF Scanning
<1>. QED  BY <1>1, <1>2, NoEnd

\* n bytes of the number u are read and make res; the rest of its digits
\* follow in s from o on and end at e.
Left(n, res, s, o, e, u) ==
    \E r \in Unsigneds :
        /\ u = res + Weight[n] * r
        /\ e = o + Len(ClientDigits[r]) /\ n + Len(ClientDigits[r]) <= MaxBytes
        /\ \A k \in 1 .. Len(ClientDigits[r]) : o + k <= Len(s) => s[o + k] = ClientDigits[r][k]

\* Reading the next byte of a number that was written: it is the digit that
\* comes next, within MaxBytes, and with the last one the number is whole.
LEMMA DigitStep ==
    ASSUME NEW n \in 0 .. MaxBytes, NEW res \in Nat, NEW s \in Seq(Bytes),
           NEW o \in Nat, NEW e, NEW u \in Unsigneds, Left(n, res, s, o, e, u)
    PROVE  /\ n < MaxBytes /\ e \in Nat /\ o < e
           /\ o < Len(s) =>
                 /\ s[o + 1] >= Continue => Left(n + 1, Sum(n, res, s[o + 1]), s, o + 1, e, u)
                 /\ s[o + 1] < Continue => o + 1 = e /\ Sum(n, res, s[o + 1]) = u
<1>1. PICK r \in Unsigneds :
        /\ u = res + Weight[n] * r
        /\ e = o + Len(ClientDigits[r]) /\ n + Len(ClientDigits[r]) <= MaxBytes
        /\ \A k \in 1 .. Len(ClientDigits[r]) : o + k <= Len(s) => s[o + k] = ClientDigits[r][k]
      BY DEF Left
<1>2. PICK w \in Nat : w = Weight[n]
      BY Weights
<1>3. PICK l : l = Len(ClientDigits[r])
      OBVIOUS
<1>4. l \in Nat /\ l >= 1 /\ r \in Nat /\ u \in Nat /\ u < Modulus /\ n \in Nat
  <2>1. ClientDigits[r] \in Seq(Bytes) /\ l >= 1
        BY <1>3, DigitsTyped
  <2>2. l \in Nat
        BY <1>3, <2>1, LenProperties
  <2>3. r \in Nat /\ u \in Nat /\ u < Modulus /\ n \in Nat
        BY Scales DEF Unsigneds
  <2>. QED  BY <2>1, <2>2, <2>3
<1>5. n < MaxBytes /\ e \in Nat /\ o < e
      BY <1>1, <1>3, <1>4, Scales
<1>6. ASSUME o < Len(s) PROVE s[o + 1] = ClientDigits[r][1]
  <2>1. 1 \in 1 .. Len(ClientDigits[r]) /\ o + 1 <= Len(s)
        BY <1>3, <1>4, <1>6, LenProperties
  <2>. QED  BY <1>1, <2>1
<1>7. CASE r < Continue
  <2>1. ClientDigits[r][1] = r /\ Len(ClientDigits[r]) = 1
        BY <1>7, Digits
  <2>2. r % Continue = r
        BY <1>7, Shifted
  <2>3. ASSUME o < Len(s)
        PROVE  Sum(n, res, r) = u
    <3>1. Sum(n, res, r) = (res + r * w) % Modulus
          BY <1>2, <2>2 DEF Sum
    <3>2. res + r * w = u
          BY <1>1, <1>2, <1>4
    <3>3. u % Modulus = u
          BY <1>4, Scales
    <3>. QED  BY <3>1, <3>2, <3>3
  <2>. QED  BY <1>1, <1>4, <1>5, <1>6, <1>7, <2>1, <2>3, Scales
<1>8. CASE ~ (r < Continue)
  <2>1. PICK q, d : q = r \div Continue /\ d = r % Continue
        OBVIOUS
  <2>2. /\ q \in Unsigneds /\ q \in Nat /\ d \in Nat /\ d < Continue /\ r = Continue * q + d
        BY <2>1, Shifted
  <2>3. /\ ClientDigits[r][1] = d + Continue
        /\ Len(ClientDigits[r]) = Len(ClientDigits[q]) + 1
        /\ \A k \in 1 .. Len(ClientDigits[q]) : ClientDigits[r][k + 1] = ClientDigits[q][k]
    <3>1. r >= Continue
          BY <1>4, <1>8, Scales
    <3>. QED  BY <2>1, <3>1, Digits
  <2>4. Len(ClientDigits[q]) \in Nat /\ Len(ClientDigits[q]) >= 1
    <3>1. ClientDigits[q] \in Seq(Bytes) /\ Len(ClientDigits[q]) >= 1
          BY <2>2, DigitsTyped
    <3>. QED  BY <3>1, LenProperties
  <2>5. SUFFICES ASSUME o < Len(s)
                 PROVE  Left(n + 1, Sum(n, res, d + Continue), s, o + 1, e, u)
                        /\ ~ (d + Continue < Continue)
        BY <1>5, <1>6, <2>3
  <2>6. (d + Continue) % Continue = d
        BY <2>2, Scales
  <2>7. PICK v \in Nat : v = res + d * w
        BY <2>2
  <2>8. u = v + (Continue * w) * q
    <3>1. u = res + w * (Continue * q + d)
          BY <1>1, <1>2, <2>2
    <3>. QED  BY <2>2, <2>7, <3>1, Scales
  <2>9. v <= u
    <3>1. (Continue * w) * q \in Nat
          BY <2>2, Scales
    <3>. QED  BY <2>8, <3>1
  <2>10. Sum(n, res, d + Continue) = v
    <3>1. Sum(n, res, d + Continue) = v % Modulus
          BY <1>2, <2>6, <2>7 DEF Sum
    <3>2. v % Modulus = v
          BY <1>4, <2>9, Scales
    <3>. QED  BY <3>1, <3>2
  <2>11. Weight[n + 1] = Continue * w
    <3>1. n + 1 \in 1 .. MaxBytes /\ (n + 1) - 1 = n
          BY <1>4, <1>5, Scales
    <3>. QED  BY <1>2, <3>1, Weights
  <2>12. /\ e = (o + 1) + Len(ClientDigits[q])
         /\ (n + 1) + Len(ClientDigits[q]) <= MaxBytes
    <3>1. PICK m \in Nat : m = Len(ClientDigits[q])
          BY <2>4
    <3>2. e = o + l /\ n + l <= MaxBytes /\ l = m + 1
          BY <1>1, <1>3, <2>3, <3>1
    <3>3. e = (o + 1) + m /\ (n + 1) + m <= MaxBytes
          BY <1>4, <3>2, Scales
    <3>. QED  BY <3>1, <3>3
  <2>13. ASSUME NEW k \in 1 .. Len(ClientDigits[q]), (o + 1) + k <= Len(s)
         PROVE  s[(o + 1) + k] = ClientDigits[q][k]
    <3>1. k + 1 \in 1 .. Len(ClientDigits[r]) /\ o + (k + 1) <= Len(s) /\ (o + 1) + k = o + (k + 1)
          BY <2>3, <2>4, <2>13, LenProperties
    <3>2. s[o + (k + 1)] = ClientDigits[r][k + 1]
          BY <1>1, <3>1
    <3>. QED  BY <2>3, <3>1, <3>2
  <2>14. Left(n + 1, v, s, o + 1, e, u)
         BY <2>2, <2>8, <2>11, <2>12, <2>13 DEF Left
  <2>. QED  BY <2>2, <2>10, <2>14, Scales
<1>. QED  BY <1>7, <1>8

\* Where the digits of a number begin, all of it is left to read.
LEMMA DigitStart ==
    ASSUME NEW s \in Seq(Bytes), NEW o \in Nat, NEW u \in Unsigneds,
           \A k \in 1 .. Len(ClientDigits[u]) : o + k <= Len(s) => s[o + k] = ClientDigits[u][k]
    PROVE  Left(0, 0, s, o, o + Len(ClientDigits[u]), u)
<1>1. Weight[0] = 1 /\ u \in Nat /\ Len(ClientDigits[u]) \in 1 .. MaxBytes
      BY Weights, Digits, Shifted
<1>2. u = 0 + Weight[0] * u /\ 0 + Len(ClientDigits[u]) <= MaxBytes
      BY <1>1, Scales
<1>. QED  BY <1>2 DEF Left

-----------------------------------------------------------------------------
(* The reader on any stream *)

NumberNames == {"length", "id", "size"}

\* Before it reads, and between its numbers, the reader holds nothing.
Fresh ==
    /\ phase \in {"send", "refused"} => job \in Jobs
    /\ phase = "send" => pos = 0
    /\ phase \in {"send", "body"} => numRead = 0 /\ result = 0
    /\ phase \in {"send", "length", "body"} => packet = <<>> /\ at = 0
    /\ phase \in {"id", "size", "text"} => packet # <<>>

\* What has been read of the first number of the stream and of the packet.
Scans ==
    /\ phase = "length" => Scanning(numRead, result, stream, pos)
    /\ phase \in {"body", "id"} => Scanned(stream, number["length"])
    /\ phase = "id" => Scanning(numRead, result, packet, at)
    /\ phase \in {"size", "text"} => Scanned(packet, number["id"])

\* A length that was given up has no end within MaxBytes.
GivenUp ==
    phase = "too long" /\ pos <= MaxBytes /\ packet = <<>> =>
        Len(stream) >= MaxBytes /\ EndOf(stream) \notin 1 .. MaxBytes

\* The inductive invariant on any stream.
ScanIInv == CodecTypeOK /\ Fresh /\ Scans /\ GivenUp

\* A job has a sender.
LEMMA JobIsNotStray == \A j \in Jobs : j # Stray /\ j.sender \in {"client", "server"}
<1>. SUFFICES ASSUME NEW j \in Jobs
              PROVE  j # Stray /\ j.sender \in {"client", "server"}
     OBVIOUS
<1>1. j.sender \in {"client", "server"}
      BY JobsAssumption
<1>2. Stray.sender = "neither"
      BY DEF Stray
<1>. QED  BY <1>1, <1>2

\* Nothing has been read at the beginning.
LEMMA Start ==
    ASSUME NEW s \in Seq(Bytes)
    PROVE  Scanning(0, 0, s, 0)
<1>1. Value(s)[0] = 0
      BY Values
<1>2. 0 % Modulus = 0
      BY Scales
<1>. QED  BY <1>1, <1>2 DEF Scanning

LEMMA CodecInitial == CodecInit => ScanIInv
<1>. SUFFICES ASSUME CodecInit PROVE ScanIInv
     OBVIOUS
<1>1. CodecTypeOK
  <2>1. stream \in Seq(Bytes) /\ Len(stream) \in Nat
    <3>1. <<>> \in Seq(Bytes)
          OBVIOUS
    <3>2. stream = <<>> \/ stream \in Strays
          BY DEF CodecInit
    <3>3. stream \in Seq(Bytes)
          BY <3>1, <3>2, JobsAssumption
    <3>. QED  BY <3>3, LenProperties
  <2>. QED  BY <2>1, Scales DEF CodecInit, CodecTypeOK
<1>2. Fresh
      BY DEF CodecInit, Fresh
<1>3. Scans /\ GivenUp
  <2>1. phase \in {"send", "length"} /\ stream \in Seq(Bytes) /\ pos = 0 /\ numRead = 0 /\ result = 0
        BY <1>1 DEF CodecInit, CodecTypeOK
  <2>. QED  BY <2>1, Start DEF Scans, GivenUp
<1>. QED  BY <1>1, <1>2, <1>3 DEF ScanIInv

\* What reading a byte does to the number.
LEMMA NumberStep ==
    ASSUME CodecTypeOK, NEW byte \in Bytes, NEW last, phase \in NumberNames, ~ TooLong,
           Number(byte, last)
    PROVE  /\ numRead \in 0 .. MaxBytes /\ numRead < MaxBytes /\ result \in Nat
           /\ numRead' \in 0 .. MaxBytes /\ result' \in 0 .. Modulus - 1
           /\ number' \in [NumberNames -> Int]
           /\ byte >= Continue =>
                 /\ numRead' = numRead + 1 /\ result' = Sum(numRead, result, byte)
                 /\ phase' = phase /\ number' = number
           /\ ~ (byte >= Continue) =>
                 /\ numRead' = 0 /\ result' = 0 /\ phase' = last
                 /\ number'[phase] = Signed(Sum(numRead, result, byte))
                 /\ \A f \in NumberNames \ {phase} : number'[f] = number[f]
<1>1. numRead \in 0 .. MaxBytes /\ result \in Nat /\ number \in [NumberNames -> Int]
      BY Scales DEF CodecTypeOK, NumberNames
<1>2. numRead < MaxBytes
      BY <1>1, Scales DEF TooLong
<1>3. PICK x : x = Sum(numRead, result, byte)
      OBVIOUS
<1>4. Accumulate(byte) = x
      BY <1>3 DEF Accumulate, Sum
<1>5. x \in 0 .. Modulus - 1 /\ Signed(x) \in Int
      BY <1>1, <1>3, Sums DEF Unsigneds
<1>6. CASE byte >= Continue
  <2>1. numRead' = numRead + 1 /\ result' = x /\ phase' = phase /\ number' = number
        BY <1>4, <1>6 DEF Number
  <2>2. numRead' \in 0 .. MaxBytes
        BY <1>1, <1>2, <2>1, Scales
  <2>. QED  BY <1>1, <1>2, <1>3, <1>5, <1>6, <2>1, <2>2
<1>7. CASE ~ (byte >= Continue)
  <2>1. /\ numRead' = 0 /\ result' = 0 /\ phase' = last
        /\ number' = [number EXCEPT ![phase] = Signed(x)]
        BY <1>4, <1>7 DEF Number
  <2>2. numRead' \in 0 .. MaxBytes /\ result' \in 0 .. Modulus - 1
        BY <2>1, Scales
  <2>3. /\ number' \in [NumberNames -> Int] /\ number'[phase] = Signed(x)
        /\ \A f \in NumberNames \ {phase} : number'[f] = number[f]
        BY <1>1, <1>5, <2>1
  <2>. QED  BY <1>1, <1>2, <1>3, <1>7, <2>1, <2>2, <2>3
<1>. QED  BY <1>6, <1>7

\* The inductive step, action by action.
LEMMA ScanNext == ScanIInv /\ [CodecNext]_codecVars => ScanIInv'
<1>. SUFFICES ASSUME ScanIInv, [CodecNext]_codecVars PROVE ScanIInv'
     OBVIOUS
<1>0. CodecTypeOK /\ Fresh /\ Scans /\ GivenUp
      BY DEF ScanIInv
<1>t. /\ stream \in Seq(Bytes) /\ Len(stream) \in Nat /\ pos \in Nat /\ pos <= Len(stream)
      /\ packet \in Seq(Bytes) /\ Len(packet) \in Nat /\ at \in Nat /\ at <= Len(packet)
      BY <1>0, LenProperties DEF CodecTypeOK
<1>1. CASE Send
  <2>1. job \in Jobs /\ job' = job /\ phase = "send"
        BY <1>0, <1>1 DEF Send, Fresh
  <2>2. CASE StringFits(job) /\ PacketFits(job)
    <3>1. Sent(job, stream') /\ phase' = "length"
          BY <1>1, <2>2 DEF Send, Sent
    <3>2. stream' \in Seq(Bytes) /\ Len(stream') \in Nat
          BY <2>1, <3>1, StreamBytes, LenProperties
    <3>3. CodecTypeOK'
          BY <1>0, <1>1, <3>1, <3>2 DEF Send, CodecTypeOK, Fresh
    <3>4. Scanning(numRead', result', stream', pos')
          BY <1>0, <1>1, <3>2, Start DEF Send, Fresh
    <3>. QED  BY <1>0, <1>1, <3>1, <3>3, <3>4 DEF Send, ScanIInv, Fresh, Scans, GivenUp
  <2>3. CASE ~ (StringFits(job) /\ PacketFits(job))
    <3>1. phase' = "refused" /\ stream' = stream
          BY <1>1, <2>3 DEF Send
    <3>2. CodecTypeOK'
          BY <1>0, <1>1, <3>1 DEF Send, CodecTypeOK, Outcomes
    <3>. QED  BY <2>1, <3>1, <3>2 DEF ScanIInv, Fresh, Scans, GivenUp
  <2>. QED  BY <2>2, <2>3
<1>2. CASE ReadStreamByte
  <2>1. /\ phase = "length" /\ ~ TooLong /\ pos < Len(stream) /\ pos' = pos + 1
        /\ Number(stream[pos + 1], "body")
        /\ job' = job /\ stream' = stream /\ packet' = packet /\ at' = at /\ got' = got
        BY <1>2 DEF ReadStreamByte
  <2>2. PICK b \in Bytes : b = stream[pos + 1]
    <3>1. pos + 1 \in 1 .. Len(stream)
          BY <1>t, <2>1
    <3>. QED  BY <1>t, <3>1, ElementOfSeq
  <2>3. phase \in NumberNames /\ Number(b, "body")
        BY <2>1, <2>2 DEF NumberNames
  <2>4. /\ numRead \in 0 .. MaxBytes /\ numRead < MaxBytes /\ result \in Nat
        /\ numRead' \in 0 .. MaxBytes /\ result' \in 0 .. Modulus - 1
        /\ number' \in [NumberNames -> Int]
        /\ b >= Continue =>
              /\ numRead' = numRead + 1 /\ result' = Sum(numRead, result, b)
              /\ phase' = phase /\ number' = number
        /\ ~ (b >= Continue) =>
              /\ numRead' = 0 /\ result' = 0 /\ phase' = "body"
              /\ number'[phase] = Signed(Sum(numRead, result, b))
        BY <1>0, <2>1, <2>3, NumberStep
  <2>5. CodecTypeOK'
    <3>1. pos' \in 0 .. Len(stream')
          BY <1>t, <2>1
    <3>2. phase' \in {"length", "body"}
          BY <2>1, <2>4
    <3>. QED  BY <1>0, <2>1, <2>4, <3>1, <3>2 DEF CodecTypeOK, NumberNames
  <2>6. Scanning(numRead, result, stream, pos)
        BY <1>0, <2>1 DEF Scans
  <2>7. /\ b >= Continue => Scanning(numRead + 1, Sum(numRead, result, b), stream, pos + 1)
        /\ b < Continue => Scanned(stream, Signed(Sum(numRead, result, b)))
        BY <1>t, <2>1, <2>2, <2>4, <2>6, ScanStep
  <2>8. packet = <<>> /\ at = 0
        BY <1>0, <2>1 DEF Fresh
  <2>9. CASE b >= Continue
        BY <2>1, <2>4, <2>5, <2>7, <2>8, <2>9 DEF ScanIInv, Fresh, Scans, GivenUp
  <2>10. CASE ~ (b >= Continue)
    <3>1. b < Continue
          BY <2>10, Scales DEF Bytes
    <3>2. number'["length"] = Signed(Sum(numRead, result, b)) /\ phase' = "body"
          BY <2>1, <2>4, <2>10
    <3>3. Scanned(stream', number'["length"])
          BY <2>1, <2>7, <3>1, <3>2
    <3>. QED  BY <2>1, <2>4, <2>5, <2>8, <2>10, <3>2, <3>3 DEF ScanIInv, Fresh, Scans, GivenUp
  <2>. QED  BY <2>9, <2>10
<1>3. CASE ReadPacketByte
  <2>1. /\ phase \in {"id", "size"} /\ ~ TooLong /\ at < Len(packet) /\ at' = at + 1
        /\ Number(packet[at + 1], IF phase = "id" THEN "size" ELSE "text")
        /\ job' = job /\ stream' = stream /\ packet' = packet /\ pos' = pos /\ got' = got
        BY <1>3 DEF ReadPacketByte
  <2>2. PICK b \in Bytes : b = packet[at + 1]
    <3>1. at + 1 \in 1 .. Len(packet)
          BY <1>t, <2>1
    <3>. QED  BY <1>t, <3>1, ElementOfSeq
  <2>3. PICK last : last = IF phase = "id" THEN "size" ELSE "text"
        OBVIOUS
  <2>4. phase \in NumberNames /\ Number(b, last)
        BY <2>1, <2>2, <2>3 DEF NumberNames
  <2>5. /\ numRead \in 0 .. MaxBytes /\ numRead < MaxBytes /\ result \in Nat
        /\ numRead' \in 0 .. MaxBytes /\ result' \in 0 .. Modulus - 1
        /\ number' \in [NumberNames -> Int]
        /\ b >= Continue =>
              /\ numRead' = numRead + 1 /\ result' = Sum(numRead, result, b)
              /\ phase' = phase /\ number' = number
        /\ ~ (b >= Continue) =>
              /\ numRead' = 0 /\ result' = 0 /\ phase' = last
              /\ number'[phase] = Signed(Sum(numRead, result, b))
              /\ \A f \in NumberNames \ {phase} : number'[f] = number[f]
        BY <1>0, <2>1, <2>4, NumberStep
  <2>6. CodecTypeOK'
    <3>1. at' \in 0 .. Len(packet')
          BY <1>t, <2>1
    <3>2. phase' \in {"id", "size", "text"}
          BY <2>1, <2>3, <2>5
    <3>. QED  BY <1>0, <2>1, <2>5, <3>1, <3>2 DEF CodecTypeOK, NumberNames
  <2>7. packet # <<>>
        BY <1>0, <2>1 DEF Fresh
  <2>8. CASE phase = "id"
    <3>1. Scanning(numRead, result, packet, at) /\ Scanned(stream, number["length"])
          BY <1>0, <2>8 DEF Scans
    <3>2. /\ b >= Continue => Scanning(numRead + 1, Sum(numRead, result, b), packet, at + 1)
          /\ b < Continue => Scanned(packet, Signed(Sum(numRead, result, b)))
          BY <1>t, <2>1, <2>2, <2>5, <3>1, ScanStep
    <3>3. CASE b >= Continue
          BY <2>1, <2>5, <2>6, <2>7, <2>8, <3>1, <3>2, <3>3 DEF ScanIInv, Fresh, Scans, GivenUp
    <3>4. CASE ~ (b >= Continue)
      <4>1. b < Continue
            BY <3>4, Scales DEF Bytes
      <4>2. number'["id"] = Signed(Sum(numRead, result, b)) /\ phase' = "size"
            BY <2>3, <2>5, <2>8, <3>4
      <4>3. Scanned(packet', number'["id"])
            BY <2>1, <3>2, <4>1, <4>2
      <4>. QED  BY <2>1, <2>6, <2>7, <4>2, <4>3 DEF ScanIInv, Fresh, Scans, GivenUp
    <3>. QED  BY <3>3, <3>4
  <2>9. CASE phase = "size"
    <3>1. Scanned(packet, number["id"])
          BY <1>0, <2>9 DEF Scans
    <3>2. phase' \in {"size", "text"}
          BY <2>3, <2>5, <2>9
    <3>3. number'["id"] = number["id"]
      <4>1. "id" \in NumberNames \ {phase}
            BY <2>9 DEF NumberNames
      <4>. QED  BY <2>5, <4>1
    <3>. QED  BY <2>1, <2>6, <2>7, <3>1, <3>2, <3>3 DEF ScanIInv, Fresh, Scans, GivenUp
  <2>. QED  BY <2>1, <2>8, <2>9
<1>4. CASE NumberFails
  <2>1. PICK outcome \in {"too long", "EOF"} :
          /\ phase \in NumberNames
          /\ outcome = "too long" => TooLong
          /\ Stops(outcome)
        BY <1>4 DEF NumberFails, NumberNames
  <2>2. CodecTypeOK' /\ Fresh' /\ Scans'
        BY <1>0, <2>1 DEF Stops, CodecTypeOK, Outcomes, Fresh, Scans
  <2>3. GivenUp'
    <3>. SUFFICES ASSUME outcome = "too long", phase = "length"
                  PROVE  Len(stream) >= MaxBytes /\ EndOf(stream) \notin 1 .. MaxBytes
      <4>1. phase # "length" => packet # <<>>
            BY <1>0, <2>1 DEF Fresh, NumberNames
      <4>. QED  BY <2>1, <4>1 DEF Stops, GivenUp
    <3>1. Scanning(numRead, result, stream, pos) /\ TooLong
          BY <1>0, <2>1 DEF Scans
    <3>2. numRead \in 0 .. MaxBytes /\ numRead >= MaxBytes /\ pos \in 0 .. Len(stream)
          BY <1>0, <3>1 DEF TooLong, CodecTypeOK
    <3>. QED  BY <1>t, <3>1, <3>2, AllRead
  <2>. QED  BY <2>2, <2>3 DEF ScanIInv
<1>5. CASE ReadBody
  <2>1. PICK n \in Nat : n = number["length"]
        BY <1>5, Limits DEF ReadBody
  <2>2. /\ phase = "body" /\ n >= 1 /\ pos + n <= Len(stream)
        /\ packet' = SubSeq(stream, pos + 1, pos + n) /\ pos' = pos + n /\ phase' = "id"
        /\ UNCHANGED <<job, stream, numRead, result, at, number, got>>
        BY <1>5, <2>1, Limits DEF ReadBody
  <2>3. packet' \in Seq(Bytes) /\ Len(packet') = n
    <3>1. Sliced(stream, pos, n, packet')
          BY <1>t, <2>2, Slice, Zenon
    <3>. QED  BY <3>1 DEF Sliced
  <2>4. numRead = 0 /\ result = 0 /\ at = 0
        BY <1>0, <2>2 DEF Fresh
  <2>5. packet' # <<>>
    <3>1. Len(packet') # 0
          BY <2>2, <2>3
    <3>2. Len(<<>>) = 0
          OBVIOUS
    <3>. QED  BY <3>1, <3>2, Zenon
  <2>6. CodecTypeOK'
    <3>1. pos' \in 0 .. Len(stream') /\ at' \in 0 .. Len(packet')
          BY <1>t, <2>2, <2>3, <2>4
    <3>. QED  BY <1>0, <2>2, <2>3, <3>1 DEF CodecTypeOK
  <2>7. Scanning(numRead', result', packet', at')
        BY <2>2, <2>3, <2>4, Start
  <2>8. Scanned(stream', number'["length"])
        BY <1>0, <2>2 DEF Scans
  <2>. QED  BY <2>2, <2>4, <2>5, <2>6, <2>7, <2>8 DEF ScanIInv, Fresh, Scans, GivenUp
<1>6. CASE BodyFails
  <2>1. PICK outcome \in {"bad length", "too large", "EOF"} : Stops(outcome)
        BY <1>6 DEF BodyFails
  <2>. QED  BY <1>0, <2>1 DEF Stops, ScanIInv, CodecTypeOK, Outcomes, Fresh, Scans, GivenUp
<1>7. CASE ReadText
  <2>1. PICK n \in Nat : n = number["size"]
        BY <1>7, Limits DEF ReadText
  <2>2. /\ at + n <= Len(packet) /\ got' = SubSeq(packet, at + 1, at + n) /\ at' = at + n
        /\ phase' = "ok" /\ UNCHANGED <<job, stream, pos, numRead, result, packet, number>>
        BY <1>7, <2>1 DEF ReadText, Text
  <2>3. got' \in Seq(Bytes)
    <3>1. Sliced(packet, at, n, got')
          BY <1>t, <2>2, Slice, Zenon
    <3>. QED  BY <3>1 DEF Sliced
  <2>4. at' \in 0 .. Len(packet')
        BY <1>t, <2>2
  <2>5. CodecTypeOK'
        BY <1>0, <2>2, <2>3, <2>4 DEF CodecTypeOK, Outcomes
  <2>. QED  BY <2>2, <2>5 DEF ScanIInv, Fresh, Scans, GivenUp
<1>8. CASE TextFails
  <2>1. PICK outcome \in {"bad length", "too large", "EOF", "not UTF-8"} : Stops(outcome)
        BY <1>8 DEF TextFails
  <2>. QED  BY <1>0, <2>1 DEF Stops, ScanIInv, CodecTypeOK, Outcomes, Fresh, Scans, GivenUp
<1>9. CASE UNCHANGED codecVars
      BY <1>0, <1>9 DEF codecVars, ScanIInv, CodecTypeOK, Fresh, Scans, GivenUp
<1>. QED  BY <1>1, <1>2, <1>3, <1>4, <1>5, <1>6, <1>7, <1>8, <1>9 DEF CodecNext

\* The reader's state has its type whatever arrives (protocol.go:173-264,
\* server.go:360-467).
THEOREM CodecTypeCorrect == CodecSpec => []CodecTypeOK
<1>1. ScanIInv => CodecTypeOK
      BY DEF ScanIInv
<1>. QED  BY CodecInitial, ScanNext, <1>1, PTL DEF CodecSpec

\* On any stream a number is read as what its bytes mean, and given up only
\* when it does not end in time (protocol.go:173-197, server.go:360-409).
THEOREM NumbersHold == CodecSpec => []NumbersHaveTheirMeaning
<1>1. ScanIInv => NumbersHaveTheirMeaning
      BY DEF ScanIInv, Scans, Scanned, GivenUp, NumbersHaveTheirMeaning
<1>. QED  BY CodecInitial, ScanNext, <1>1, PTL DEF CodecSpec

-----------------------------------------------------------------------------
(* The reader on what was sent *)

\* A stream begins with the digits of the length,
LEMMA SentStart ==
    ASSUME NEW j \in Jobs, NEW s, Sent(j, s)
    PROVE  Left(0, 0, s, 0, Sized(j), Len(Payload(j)))
<1>1. StringFits(j) /\ PacketFits(j)
      BY DEF Sent
<1>2. PICK n : n = Len(Payload(j))
      OBVIOUS
<1>3. /\ n \in Unsigneds /\ n \in Nat /\ Sized(j) \in Nat /\ Len(Frame(j)) = Sized(j) + n
      /\ Sized(j) = Len(ClientDigits[n])
      /\ \A k \in 1 .. Sized(j) : Frame(j)[k] = ClientDigits[n][k]
      BY <1>1, <1>2, FrameBytes, Scales DEF Sized
<1>4. s \in Seq(Bytes) /\ \A k \in 1 .. Len(s) : k <= Len(Frame(j)) => s[k] = Frame(j)[k]
      BY StreamBytes
<1>5. ASSUME NEW k \in 1 .. Len(ClientDigits[n]), 0 + k <= Len(s)
      PROVE  s[0 + k] = ClientDigits[n][k]
  <2>1. 0 + k = k /\ k \in 1 .. Len(s) /\ k <= Len(Frame(j)) /\ k \in 1 .. Sized(j)
        BY <1>3, <1>4, <1>5, LenProperties
  <2>. QED  BY <1>3, <1>4, <2>1
<1>6. Left(0, 0, s, 0, 0 + Len(ClientDigits[n]), n)
      BY <1>3, <1>4, <1>5, DigitStart
<1>7. 0 + Len(ClientDigits[n]) = Sized(j)
      BY <1>3
<1>. QED  BY <1>2, <1>6, <1>7

\* the bytes behind them are the payload, and there only if nothing is missing,
LEMMA BodyTaken ==
    ASSUME NEW j \in Jobs, NEW s, Sent(j, s), NEW n, n = Len(Payload(j)),
           Sized(j) + n <= Len(s), NEW z, z = SubSeq(s, Sized(j) + 1, Sized(j) + n)
    PROVE  z = Payload(j) /\ Whole(j)
<1>1. StringFits(j) /\ PacketFits(j)
      BY DEF Sent
<1>2. PICK p, l : p = Payload(j) /\ l = Sized(j)
      OBVIOUS
<1>3. /\ p \in Seq(Bytes) /\ n \in Nat /\ l \in Nat /\ Len(Frame(j)) = l + n
      /\ \A k \in 1 .. n : Frame(j)[l + k] = p[k]
      BY <1>1, <1>2, FrameBytes, LenProperties
<1>4. /\ s \in Seq(Bytes) /\ (Whole(j) <=> Len(Frame(j)) <= Len(s))
      /\ \A k \in 1 .. Len(s) : k <= Len(Frame(j)) => s[k] = Frame(j)[k]
      BY StreamBytes
<1>5. z = SubSeq(s, l + 1, l + n) /\ l + n <= Len(s)
      BY <1>2
<1>6. z \in Seq(Bytes) /\ Len(z) = n /\ \A k \in 1 .. n : z[k] = s[l + k]
  <2>1. Sliced(s, l, n, z)
        BY <1>3, <1>4, <1>5, Slice, Zenon
  <2>. QED  BY <2>1 DEF Sliced
<1>7. \A k \in 1 .. n : z[k] = p[k]
  <2>. SUFFICES ASSUME NEW k \in 1 .. n PROVE z[k] = p[k]
       OBVIOUS
  <2>1. l + k \in 1 .. Len(s) /\ l + k <= Len(Frame(j))
        BY <1>3, <1>4, <1>5, LenProperties
  <2>2. s[l + k] = Frame(j)[l + k]
        BY <1>4, <2>1
  <2>. QED  BY <1>3, <1>6, <2>2
<1>8. z = p
      BY <1>2, <1>3, <1>6, <1>7, SeqEqual
<1>. QED  BY <1>2, <1>3, <1>4, <1>5, <1>8

\* the payload begins with the digits of the id,
LEMMA IdStart ==
    ASSUME NEW j \in Jobs, StringFits(j)
    PROVE  Left(0, 0, Payload(j), 0, IdEnd(j), Unsigned(j.id))
<1>1. PICK p, u : p = Payload(j) /\ u = Unsigned(j.id)
      OBVIOUS
<1>2. /\ p \in Seq(Bytes) /\ u \in Unsigneds /\ IdEnd(j) \in Nat /\ IdEnd(j) = Len(ClientDigits[u])
      /\ \A k \in 1 .. IdEnd(j) : p[k] = ClientDigits[u][k]
      BY <1>1, PayloadBytes DEF IdEnd
<1>3. \A k \in 1 .. Len(ClientDigits[u]) : 0 + k <= Len(p) => p[0 + k] = ClientDigits[u][k]
      BY <1>2
<1>4. Left(0, 0, p, 0, 0 + Len(ClientDigits[u]), u)
      BY <1>2, <1>3, DigitStart
<1>5. 0 + Len(ClientDigits[u]) = IdEnd(j)
      BY <1>2
<1>. QED  BY <1>1, <1>4, <1>5

\* those of the size follow,
LEMMA SizeStart ==
    ASSUME NEW j \in Jobs, StringFits(j)
    PROVE  Left(0, 0, Payload(j), IdEnd(j), SizeEnd(j), Len(j.text))
<1>1. PICK p, n : p = Payload(j) /\ n = Len(j.text)
      OBVIOUS
<1>2. /\ p \in Seq(Bytes) /\ n \in Unsigneds /\ IdEnd(j) \in Nat
      /\ SizeEnd(j) = IdEnd(j) + Len(ClientDigits[n])
      /\ \A k \in 1 .. Len(ClientDigits[n]) : p[IdEnd(j) + k] = ClientDigits[n][k]
      BY <1>1, PayloadBytes DEF SizeEnd
<1>3. Left(0, 0, p, IdEnd(j), IdEnd(j) + Len(ClientDigits[n]), n)
      BY <1>2, DigitStart
<1>. QED  BY <1>1, <1>2, <1>3

\* and the rest is the text.
LEMMA TextTaken ==
    ASSUME NEW j \in Jobs, StringFits(j), NEW n, n = Len(j.text),
           NEW z, z = SubSeq(Payload(j), SizeEnd(j) + 1, SizeEnd(j) + n)
    PROVE  z = j.text /\ SizeEnd(j) + n = Len(Payload(j)) /\ n \in 0 .. MaxString
<1>1. PICK p, l : p = Payload(j) /\ l = SizeEnd(j)
      OBVIOUS
<1>2. /\ p \in Seq(Bytes) /\ j.text \in Seq(Bytes) /\ n \in Nat /\ n <= MaxString /\ l \in Nat
      /\ Len(p) = l + n /\ \A k \in 1 .. n : p[l + k] = j.text[k]
      BY <1>1, PayloadBytes
<1>3. z = SubSeq(p, l + 1, l + n) /\ l + n <= Len(p)
      BY <1>1, <1>2
<1>4. z \in Seq(Bytes) /\ Len(z) = n /\ \A k \in 1 .. n : z[k] = p[l + k]
  <2>1. Sliced(p, l, n, z)
        BY <1>2, <1>3, Slice, Zenon
  <2>. QED  BY <2>1 DEF Sliced
<1>5. \A k \in 1 .. n : z[k] = j.text[k]
      BY <1>2, <1>4
<1>6. z = j.text
      BY <1>2, <1>4, <1>5, SeqEqual
<1>7. n \in 0 .. MaxString
      BY <1>2, Limits
<1>8. SizeEnd(j) + n = Len(Payload(j))
      BY <1>1, <1>2
<1>. QED  BY <1>6, <1>7, <1>8

\* What the reader has of the job's packet, phase by phase.
Reading ==
    job \in Jobs /\ phase \notin {"send", "refused"} =>
        /\ Sent(job, stream)
        /\ phase = "length" => Left(numRead, result, stream, pos, Sized(job), Len(Payload(job)))
        /\ phase = "body" => number["length"] = Len(Payload(job)) /\ pos = Sized(job)
        /\ phase \in {"id", "size", "text"} =>
              packet = Payload(job) /\ pos = Len(Frame(job)) /\ Whole(job)
        /\ phase = "id" => Left(numRead, result, packet, at, IdEnd(job), Unsigned(job.id))
        /\ phase \in {"size", "text"} => number["id"] = job.id
        /\ phase = "size" => Left(numRead, result, packet, at, SizeEnd(job), Len(job.text))
        /\ phase = "text" => number["size"] = Len(job.text) /\ at = SizeEnd(job)

\* The inductive invariant on what was sent.
ReadIInv == ScanIInv /\ Reading /\ WhatIsSentIsRead

LEMMA ReadInitial == CodecInit => ReadIInv
<1>. SUFFICES ASSUME CodecInit PROVE ReadIInv
     OBVIOUS
<1>1. ScanIInv
      BY CodecInitial
<1>2. job \in Jobs => phase = "send"
      BY JobIsNotStray DEF CodecInit
<1>3. phase \notin Outcomes
      BY DEF CodecInit, Outcomes
<1>. QED  BY <1>1, <1>2, <1>3 DEF ReadIInv, Reading, WhatIsSentIsRead

\* The inductive step, action by action.
LEMMA ReadNext == ReadIInv /\ [CodecNext]_codecVars => ReadIInv'
<1>. SUFFICES ASSUME ReadIInv, [CodecNext]_codecVars PROVE ReadIInv'
     OBVIOUS
<1>0. /\ ScanIInv /\ CodecTypeOK /\ Fresh /\ Reading /\ WhatIsSentIsRead /\ ScanIInv'
      BY ScanNext DEF ReadIInv, ScanIInv
<1>t. /\ stream \in Seq(Bytes) /\ Len(stream) \in Nat /\ pos \in Nat /\ pos <= Len(stream)
      /\ packet \in Seq(Bytes) /\ Len(packet) \in Nat /\ at \in Nat /\ at <= Len(packet)
      BY <1>0, LenProperties DEF CodecTypeOK
<1>s. SUFFICES Reading' /\ WhatIsSentIsRead'
      BY <1>0 DEF ReadIInv
<1>j. job' = job
      BY DEF CodecNext, codecVars, Send, ReadStreamByte, ReadPacketByte, NumberFails, ReadBody,
             BodyFails, ReadText, TextFails, Stops
<1>n. CASE job \notin Jobs
  <2>1. job = Stray /\ job.sender = "neither"
        BY <1>0, <1>n DEF CodecTypeOK, Stray
  <2>. QED  BY <1>j, <1>n, <2>1 DEF Reading, WhatIsSentIsRead
<1>. SUFFICES ASSUME job \in Jobs PROVE Reading' /\ WhatIsSentIsRead'
     BY <1>n
<1>1. CASE Send
  <2>1. phase = "send" /\ pos = 0 /\ numRead = 0 /\ result = 0
        BY <1>0, <1>1 DEF Send, Fresh
  <2>2. CASE StringFits(job) /\ PacketFits(job)
    <3>1. Sent(job, stream') /\ phase' = "length"
          BY <1>1, <2>2 DEF Send, Sent
    <3>2. Left(0, 0, stream', 0, Sized(job), Len(Payload(job)))
          BY <3>1, SentStart
    <3>3. numRead' = 0 /\ result' = 0 /\ pos' = 0
          BY <1>1, <2>1 DEF Send
    <3>. QED  BY <1>j, <3>1, <3>2, <3>3 DEF Reading, WhatIsSentIsRead, Outcomes
  <2>3. CASE ~ (StringFits(job) /\ PacketFits(job))
    <3>1. phase' = "refused"
          BY <1>1, <2>3 DEF Send
    <3>. QED  BY <3>1 DEF Reading, WhatIsSentIsRead
  <2>. QED  BY <2>2, <2>3
<1>2. CASE ReadStreamByte
  <2>1. /\ phase = "length" /\ ~ TooLong /\ pos < Len(stream) /\ pos' = pos + 1
        /\ Number(stream[pos + 1], "body")
        /\ stream' = stream /\ packet' = packet /\ at' = at /\ got' = got
        BY <1>2 DEF ReadStreamByte
  <2>2. PICK b \in Bytes : b = stream[pos + 1]
    <3>1. pos + 1 \in 1 .. Len(stream)
          BY <1>t, <2>1
    <3>. QED  BY <1>t, <3>1, ElementOfSeq
  <2>3. phase \in NumberNames /\ Number(b, "body")
        BY <2>1, <2>2 DEF NumberNames
  <2>4. /\ numRead \in 0 .. MaxBytes /\ result \in Nat
        /\ b >= Continue =>
              /\ numRead' = numRead + 1 /\ result' = Sum(numRead, result, b)
              /\ phase' = phase /\ number' = number
        /\ ~ (b >= Continue) =>
              /\ numRead' = 0 /\ result' = 0 /\ phase' = "body"
              /\ number'[phase] = Signed(Sum(numRead, result, b))
        BY <1>0, <2>1, <2>3, NumberStep
  <2>5. /\ Sent(job, stream)
        /\ Left(numRead, result, stream, pos, Sized(job), Len(Payload(job)))
        BY <1>0, <2>1 DEF Reading
  <2>6. Len(Payload(job)) \in Unsigneds /\ Signed(Len(Payload(job))) = Len(Payload(job))
        BY <2>5, FrameBytes DEF Sent
  <2>7. /\ b >= Continue =>
              Left(numRead + 1, Sum(numRead, result, b), stream, pos + 1, Sized(job), Len(Payload(job)))
        /\ b < Continue => pos + 1 = Sized(job) /\ Sum(numRead, result, b) = Len(Payload(job))
        BY <1>t, <2>1, <2>2, <2>4, <2>5, <2>6, DigitStep
  <2>8. CASE b >= Continue
        BY <1>j, <2>1, <2>4, <2>5, <2>7, <2>8 DEF Reading, WhatIsSentIsRead, Outcomes
  <2>9. CASE ~ (b >= Continue)
    <3>1. b < Continue
          BY <2>9, Scales DEF Bytes
    <3>2. number'["length"] = Len(Payload(job)) /\ phase' = "body" /\ pos' = Sized(job)
          BY <2>1, <2>4, <2>6, <2>7, <2>9, <3>1
    <3>. QED  BY <1>j, <2>1, <2>5, <3>2 DEF Reading, WhatIsSentIsRead, Outcomes
  <2>. QED  BY <2>8, <2>9
<1>3. CASE ReadPacketByte
  <2>1. /\ phase \in {"id", "size"} /\ ~ TooLong /\ at < Len(packet) /\ at' = at + 1
        /\ Number(packet[at + 1], IF phase = "id" THEN "size" ELSE "text")
        /\ stream' = stream /\ packet' = packet /\ pos' = pos /\ got' = got
        BY <1>3 DEF ReadPacketByte
  <2>2. PICK b \in Bytes : b = packet[at + 1]
    <3>1. at + 1 \in 1 .. Len(packet)
          BY <1>t, <2>1
    <3>. QED  BY <1>t, <3>1, ElementOfSeq
  <2>3. PICK last : last = IF phase = "id" THEN "size" ELSE "text"
        OBVIOUS
  <2>4. phase \in NumberNames /\ Number(b, last)
        BY <2>1, <2>2, <2>3 DEF NumberNames
  <2>5. /\ numRead \in 0 .. MaxBytes /\ result \in Nat
        /\ b >= Continue =>
              /\ numRead' = numRead + 1 /\ result' = Sum(numRead, result, b)
              /\ phase' = phase /\ number' = number
        /\ ~ (b >= Continue) =>
              /\ numRead' = 0 /\ result' = 0 /\ phase' = last
              /\ number'[phase] = Signed(Sum(numRead, result, b))
              /\ \A f \in NumberNames \ {phase} : number'[f] = number[f]
        BY <1>0, <2>1, <2>4, NumberStep
  <2>6. Sent(job, stream) /\ packet = Payload(job) /\ pos = Len(Frame(job)) /\ Whole(job)
        BY <1>0, <2>1 DEF Reading
  <2>7. StringFits(job)
        BY <2>6 DEF Sent
  <2>8. CASE phase = "id"
    <3>1. Left(numRead, result, packet, at, IdEnd(job), Unsigned(job.id))
          BY <1>0, <2>8 DEF Reading
    <3>2. Unsigned(job.id) \in Unsigneds /\ Signed(Unsigned(job.id)) = job.id
      <4>1. job.id \in -(Modulus \div 2) .. Modulus \div 2 - 1
            BY JobsAssumption
      <4>. QED  BY <4>1, SignedUnsigned
    <3>3. /\ b >= Continue =>
                Left(numRead + 1, Sum(numRead, result, b), packet, at + 1, IdEnd(job), Unsigned(job.id))
          /\ b < Continue => at + 1 = IdEnd(job) /\ Sum(numRead, result, b) = Unsigned(job.id)
          BY <1>t, <2>1, <2>2, <2>5, <3>1, <3>2, DigitStep
    <3>4. CASE b >= Continue
          BY <1>j, <2>1, <2>5, <2>6, <2>8, <3>3, <3>4 DEF Reading, WhatIsSentIsRead, Outcomes
    <3>5. CASE ~ (b >= Continue)
      <4>1. b < Continue
            BY <3>5, Scales DEF Bytes
      <4>2. /\ number'["id"] = job.id /\ phase' = "size" /\ at' = IdEnd(job)
            /\ numRead' = 0 /\ result' = 0
            BY <2>1, <2>3, <2>5, <2>8, <3>2, <3>3, <3>5, <4>1
      <4>3. Left(0, 0, packet, IdEnd(job), SizeEnd(job), Len(job.text))
            BY <2>6, <2>7, SizeStart
      <4>. QED  BY <1>j, <2>1, <2>6, <4>2, <4>3 DEF Reading, WhatIsSentIsRead, Outcomes
    <3>. QED  BY <3>4, <3>5
  <2>9. CASE phase = "size"
    <3>1. /\ Left(numRead, result, packet, at, SizeEnd(job), Len(job.text))
          /\ number["id"] = job.id
          BY <1>0, <2>9 DEF Reading
    <3>2. Len(job.text) \in Unsigneds /\ Signed(Len(job.text)) = Len(job.text)
      <4>1. Len(job.text) \in Nat /\ Len(job.text) <= MaxString
            BY <2>7, PayloadBytes
      <4>. QED  BY <4>1, Limits
    <3>3. /\ b >= Continue =>
                Left(numRead + 1, Sum(numRead, result, b), packet, at + 1, SizeEnd(job), Len(job.text))
          /\ b < Continue => at + 1 = SizeEnd(job) /\ Sum(numRead, result, b) = Len(job.text)
          BY <1>t, <2>1, <2>2, <2>5, <3>1, <3>2, DigitStep
    <3>4. number'["id"] = job.id
      <4>1. "id" \in NumberNames \ {phase}
            BY <2>9 DEF NumberNames
      <4>. QED  BY <2>5, <3>1, <4>1
    <3>5. CASE b >= Continue
          BY <1>j, <2>1, <2>5, <2>6, <2>9, <3>3, <3>4, <3>5 DEF Reading, WhatIsSentIsRead, Outcomes
    <3>6. CASE ~ (b >= Continue)
      <4>1. b < Continue
            BY <3>6, Scales DEF Bytes
      <4>2. number'["size"] = Len(job.text) /\ phase' = "text" /\ at' = SizeEnd(job)
            BY <2>1, <2>3, <2>5, <2>9, <3>2, <3>3, <3>6, <4>1
      <4>. QED  BY <1>j, <2>1, <2>6, <3>4, <4>2 DEF Reading, WhatIsSentIsRead, Outcomes
    <3>. QED  BY <3>5, <3>6
  <2>. QED  BY <2>1, <2>8, <2>9
<1>4. CASE NumberFails
  <2>1. phase \in NumberNames
        BY <1>4 DEF NumberFails, NumberNames
  <2>2. Sent(job, stream) /\ StringFits(job) /\ PacketFits(job)
        BY <1>0, <2>1 DEF Reading, NumberNames, Sent
  <2>3. numRead \in 0 .. MaxBytes /\ result \in Nat
        BY <1>0, Scales DEF CodecTypeOK
  <2>4. PICK s, o, e, u :
          /\ s \in Seq(Bytes) /\ o \in Nat /\ e \in Nat /\ u \in Unsigneds
          /\ Left(numRead, result, s, o, e, u)
          /\ phase = "length" => s = stream /\ o = pos /\ e = Sized(job)
          /\ phase # "length" => s = packet /\ o = at /\ e <= Len(packet)
    <3>1. /\ Sized(job) \in Nat /\ Len(Payload(job)) \in Unsigneds
          BY <2>2, FrameBytes
    <3>2. /\ IdEnd(job) \in Nat /\ SizeEnd(job) \in Nat /\ IdEnd(job) <= SizeEnd(job)
          /\ SizeEnd(job) <= Len(Payload(job))
          /\ Unsigned(job.id) \in Unsigneds /\ Len(job.text) \in Unsigneds
      <4>1. /\ IdEnd(job) \in Nat /\ SizeEnd(job) \in Nat /\ Len(job.text) \in Nat
            /\ Len(Payload(job)) = SizeEnd(job) + Len(job.text)
            /\ Unsigned(job.id) \in Unsigneds /\ Len(job.text) \in Unsigneds
            BY <2>2, PayloadBytes
      <4>2. Len(ClientDigits[Len(job.text)]) \in Nat
            BY <4>1, Digits, LenProperties
      <4>3. SizeEnd(job) = IdEnd(job) + Len(ClientDigits[Len(job.text)])
            BY DEF SizeEnd
      <4>4. IdEnd(job) <= SizeEnd(job)
            BY <4>1, <4>2, <4>3
      <4>. QED  BY <4>1, <4>4
    <3>3. CASE phase = "length"
      <4>1. Left(numRead, result, stream, pos, Sized(job), Len(Payload(job)))
            BY <1>0, <3>3 DEF Reading
      <4>. QED  BY <1>t, <3>1, <3>3, <4>1
    <3>4. CASE phase = "id"
      <4>1. /\ Left(numRead, result, packet, at, IdEnd(job), Unsigned(job.id))
            /\ packet = Payload(job)
            BY <1>0, <3>4 DEF Reading
      <4>2. IdEnd(job) <= Len(packet)
            BY <1>t, <3>2, <4>1
      <4>. QED  BY <1>t, <3>2, <3>4, <4>1, <4>2
    <3>5. CASE phase = "size"
      <4>1. /\ Left(numRead, result, packet, at, SizeEnd(job), Len(job.text))
            /\ packet = Payload(job)
            BY <1>0, <3>5 DEF Reading
      <4>. QED  BY <1>t, <3>2, <3>5, <4>1
    <3>. QED  BY <2>1, <3>3, <3>4, <3>5 DEF NumberNames
  <2>5. numRead < MaxBytes /\ o < e
        BY <2>3, <2>4, DigitStep
  <2>6. ~ TooLong
        BY <2>3, <2>5, Scales DEF TooLong
  <2>7. /\ IF phase = "length" THEN pos = Len(stream) ELSE at = Len(packet)
        /\ Stops("EOF")
        BY <1>4, <2>6 DEF NumberFails
  <2>8. phase = "length" /\ pos < Sized(job)
    <3>1. phase # "length" => FALSE
          BY <1>t, <2>4, <2>5, <2>7
    <3>. QED  BY <2>4, <2>5, <3>1
  <2>9. ~ Whole(job)
    <3>1. /\ Sized(job) \in Nat /\ Len(Payload(job)) \in Nat
          /\ Len(Frame(job)) = Sized(job) + Len(Payload(job))
          BY <2>2, FrameBytes, Scales
    <3>2. Whole(job) => Len(Frame(job)) <= Len(stream)
          BY <2>2, StreamBytes
    <3>. QED  BY <1>t, <2>7, <2>8, <3>1, <3>2
  <2>. QED  BY <1>j, <2>2, <2>7, <2>9 DEF Stops, Reading, WhatIsSentIsRead, Whole
<1>5. CASE ReadBody
  <2>1. phase = "body"
        BY <1>5 DEF ReadBody
  <2>2. PICK n : n = Len(Payload(job))
        OBVIOUS
  <2>3. Sent(job, stream) /\ number["length"] = n /\ pos = Sized(job)
        BY <1>0, <2>1, <2>2 DEF Reading
  <2>4. /\ pos + n <= Len(stream) /\ packet' = SubSeq(stream, pos + 1, pos + n)
        /\ pos' = pos + n /\ phase' = "id"
        /\ UNCHANGED <<job, stream, numRead, result, at, number, got>>
        BY <1>5, <2>3 DEF ReadBody
  <2>5. packet' = Payload(job) /\ Whole(job)
        BY <2>2, <2>3, <2>4, BodyTaken
  <2>6. StringFits(job) /\ PacketFits(job)
        BY <2>3 DEF Sent
  <2>7. pos' = Len(Frame(job))
        BY <2>2, <2>3, <2>4, <2>6, FrameBytes
  <2>8. numRead = 0 /\ result = 0 /\ at = 0
        BY <1>0, <2>1 DEF Fresh
  <2>9. Left(0, 0, packet', 0, IdEnd(job), Unsigned(job.id))
        BY <2>5, <2>6, IdStart
  <2>. QED  BY <2>3, <2>4, <2>5, <2>7, <2>8, <2>9 DEF Reading, WhatIsSentIsRead, Outcomes
<1>6. CASE BodyFails
  <2>1. phase = "body"
        BY <1>6 DEF BodyFails
  <2>2. PICK n : n = Len(Payload(job))
        OBVIOUS
  <2>3. Sent(job, stream) /\ number["length"] = n /\ pos = Sized(job)
        BY <1>0, <2>1, <2>2 DEF Reading
  <2>4. n \in 1 .. MaxPacket /\ Len(Frame(job)) = pos + n
        BY <2>2, <2>3, FrameBytes DEF Sent
  <2>5. pos + n > Len(stream) /\ Stops("EOF")
    <3>1. ~ (n <= 0) /\ ~ (n > MaxPacket)
          BY <2>4, Limits
    <3>. QED  BY <1>6, <2>3, <3>1 DEF BodyFails
  <2>6. ~ Whole(job)
    <3>1. Whole(job) => Len(Frame(job)) <= Len(stream)
          BY <2>3, StreamBytes
    <3>. QED  BY <1>t, <2>4, <2>5, <3>1, Limits
  <2>. QED  BY <1>j, <2>3, <2>5, <2>6 DEF Stops, Reading, WhatIsSentIsRead, Whole
<1>7. CASE ReadText
  <2>1. phase = "text"
        BY <1>7 DEF ReadText
  <2>2. PICK n : n = Len(job.text)
        OBVIOUS
  <2>3. /\ Sent(job, stream) /\ packet = Payload(job) /\ pos = Len(Frame(job)) /\ Whole(job)
        /\ number["id"] = job.id /\ number["size"] = n /\ at = SizeEnd(job)
        BY <1>0, <2>1, <2>2 DEF Reading
  <2>4. /\ ValidUTF8(Text) /\ got' = Text /\ at' = at + n /\ phase' = "ok"
        /\ UNCHANGED <<job, stream, pos, numRead, result, packet, number>>
        BY <1>7, <2>3 DEF ReadText
  <2>5. Text = job.text /\ at + n = Len(packet)
    <3>1. Text = SubSeq(Payload(job), SizeEnd(job) + 1, SizeEnd(job) + n)
          BY <2>3 DEF Text
    <3>. QED  BY <2>2, <2>3, <3>1, TextTaken DEF Sent
  <2>. QED  BY <2>3, <2>4, <2>5 DEF Reading, WhatIsSentIsRead, Whole
<1>8. CASE TextFails
  <2>1. phase = "text"
        BY <1>8 DEF TextFails
  <2>2. PICK n : n = Len(job.text)
        OBVIOUS
  <2>3. /\ Sent(job, stream) /\ packet = Payload(job) /\ pos = Len(Frame(job)) /\ Whole(job)
        /\ number["id"] = job.id /\ number["size"] = n /\ at = SizeEnd(job)
        BY <1>0, <2>1, <2>2 DEF Reading
  <2>4. Text = job.text /\ at + n = Len(packet) /\ n \in 0 .. MaxString
    <3>1. Text = SubSeq(Payload(job), SizeEnd(job) + 1, SizeEnd(job) + n)
          BY <2>3 DEF Text
    <3>. QED  BY <2>2, <2>3, <3>1, TextTaken DEF Sent
  <2>5. ~ ValidUTF8(job.text) /\ Stops("not UTF-8")
    <3>1. ~ (n < 0) /\ ~ (n > MaxString) /\ ~ (at + n > Len(packet))
          BY <1>t, <2>4, Limits
    <3>. QED  BY <1>8, <2>3, <2>4, <3>1 DEF TextFails
  <2>6. job.sender = "client"
        BY <2>3, <2>5, JobIsNotStray DEF Sent, StringFits
  <2>. QED  BY <1>j, <2>3, <2>5, <2>6 DEF Stops, Reading, WhatIsSentIsRead, Whole
<1>9. CASE UNCHANGED codecVars
      BY <1>0, <1>9 DEF codecVars, Reading, WhatIsSentIsRead
<1>. QED  BY <1>1, <1>2, <1>3, <1>4, <1>5, <1>6, <1>7, <1>8, <1>9 DEF CodecNext

\* What either writer sends the reader gives back, whatever follows it and
\* wherever the connection breaks (protocol.go:137-264, server.go:325-467).
THEOREM RoundTrip == CodecSpec => []WhatIsSentIsRead
<1>1. ReadIInv => WhatIsSentIsRead
      BY DEF ReadIInv
<1>. QED  BY ReadInitial, ReadNext, <1>1, PTL DEF CodecSpec

=============================================================================
