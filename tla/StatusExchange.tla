--------------------------- MODULE StatusExchange ---------------------------
(***************************************************************************)
(* The Java status exchange on one TCP connection: the client is either    *)
(* pingJavaPreparedContext after the dial, with protocol.go, or the        *)
(* staging server package's own readiness probe, probeConn; the server     *)
(* side is handleConn of the staging server.  The three are written        *)
(* independently of each other, check what they read with code of their    *)
(* own, and wait for each other under deadlines of their own.              *)
(*                                                                         *)
(* A packet is the sequence of its fields, so that a decoder can meet a    *)
(* wrong identifier, a wrong field and a field too many or too few; <<>>   *)
(* stands for a frame that readPacket refuses.  Either side may be played  *)
(* by a foreign program that sends any packet at any time, stays silent or *)
(* hangs up.                                                               *)
(***************************************************************************)
EXTENDS Integers, Sequences

CONSTANTS
    Tokens,          \* the ping tokens
    ProbeToken,      \* the token of probeConn, which is always the same
    Timeout,         \* the client's socket timeout
    ServerDeadline,  \* the server's ConnectionDeadline
    Horizon,         \* bound: the clock stops here; it is past both deadlines
    MaxForeign       \* bound: packets a foreign program sends

ASSUME TimeAssumption ==
    /\ Timeout \in Nat \ {0} /\ ServerDeadline \in Nat \ {0}
    /\ Horizon \in Nat /\ Horizon >= Timeout /\ Horizon >= ServerDeadline
ASSUME ForeignAssumption == MaxForeign \in Nat /\ ProbeToken \in Tokens

VARIABLES
    foreign,    \* which side is foreign: "none", "client" or "server"
    kind,       \* which client it is: "ping" or "probe"
    status,     \* the staging server's status: a JSON object or another JSON value
    client,     \* the client's next step
    token,      \* the client's ping token
    server,     \* the server's next step
    echoed,     \* the token the server has read
    toServer, toClient,         \* the two directions of the connection
    clientClosed, serverClosed, \* who has closed it
    clientRead, serverRead,     \* history: the packets each side has read
    sent,       \* packets sent by the foreign side
    now,        \* the clock, 0 when both sides set their deadlines
    fault       \* history: a local error (entropy, SetDeadline) struck the client

vars == <<foreign, kind, status, client, token, server, echoed, toServer, toClient,
          clientClosed, serverClosed, clientRead, serverRead, sent, now, fault>>

NoToken == "none"

ClientSteps == {"handshake", "request", "status", "token", "ping", "pong", "ok", "err"}
ServerSteps == {"handshake", "request", "status", "ping", "pong", "done", "err"}

-----------------------------------------------------------------------------
(* Packets *)

VarInt(n) == [type |-> "varint", value |-> n]
Str(s)    == [type |-> "string", value |-> s]
Port      == [type |-> "port",   value |-> 0]
Token(t)  == [type |-> "token",  value |-> t]

\* sendHandshakePacket, sendStatusRequestPacket, sendPingPacket
HandshakePacket == <<VarInt(0), VarInt(-1), Str("host"), Port, VarInt(1)>>
RequestPacket   == <<VarInt(0)>>
PingPacket(t)   == <<VarInt(1), Token(t)>>

\* A handshake of another version for another host, from a foreign client.
OtherHandshake == <<VarInt(0), VarInt(0), Str("other"), Port, VarInt(1)>>

\* probeConn has its own code for the same three.
ProbeHandshakePacket == <<VarInt(0), VarInt(-1), Str("host"), Port, VarInt(1)>>
ProbeRequestPacket   == <<VarInt(0)>>
ProbePingPacket(t)   == <<VarInt(1), Token(t)>>

\* sendStatusJSON, sendPong
StatusPacket(s) == <<VarInt(0), Str(s)>>
PongPacket(t)   == <<VarInt(1), Token(t)>>

\* Faulty variants: the login state is expected; any token will do.
IsLogin(p) ==
    /\ Len(p) = 5
    /\ p[1] = VarInt(0) /\ p[2].type = "varint" /\ p[3].type = "string"
    /\ p[4].type = "port" /\ p[5] = VarInt(2)
IsAnyPong(p, t) == Len(p) = 2 /\ p[1] = VarInt(1) /\ p[2].type = "token"

\* expectStatusHandshake: identifier, version, host, port, next state, no trailing
\* bytes; the version, the host and the port may be any.
IsHandshake(p) ==
    /\ Len(p) = 5
    /\ p[1] = VarInt(0) /\ p[2].type = "varint" /\ p[3].type = "string"
    /\ p[4].type = "port" /\ p[5] = VarInt(1)

IsRequest(p) == p = <<VarInt(0)>>

\* expectPingToken
IsPing(p) == Len(p) = 2 /\ p[1] = VarInt(1) /\ p[2].type = "token"

\* readStatusResponse: identifier, one string, no trailing bytes, a JSON object.
IsStatus(p) ==
    /\ Len(p) = 2
    /\ p[1] = VarInt(0) /\ p[2] = Str("object")

\* readPongPacket: identifier, eight bytes, the token that was sent.
IsPong(p, t) == Len(p) = 2 /\ p[1] = VarInt(1) /\ p[2] = Token(t)

\* probeConn wants a string behind the identifier and does not look further.
ProbeAcceptsStatus(p) ==
    /\ Len(p) >= 2
    /\ p[1] = VarInt(0) /\ p[2].type = "string"

ProbeAcceptsPong(p, t) == Len(p) = 2 /\ p[1] = VarInt(1) /\ p[2] = Token(t)

\* What a foreign program may send: every packet of the protocol, and near misses.
ForeignPackets ==
    {<<>>, HandshakePacket, OtherHandshake, RequestPacket, HandshakePacket \o <<VarInt(0)>>,
     <<VarInt(0), VarInt(-1), Str("host"), Port, VarInt(2)>>,
     StatusPacket("object"), StatusPacket("array"), StatusPacket("broken"),
     StatusPacket("object") \o <<VarInt(0)>>, <<VarInt(1), Str("object")>>}
    \cup {PongPacket(t) : t \in Tokens}
    \cup {<<VarInt(0), Token(t)>> : t \in Tokens}

-----------------------------------------------------------------------------

TypeOK ==
    /\ foreign \in {"none", "client", "server"}
    /\ kind \in {"ping", "probe"}
    /\ status \in {"object", "array"}
    /\ client \in ClientSteps
    /\ token \in Tokens \cup {NoToken}
    /\ server \in ServerSteps
    /\ echoed \in Tokens \cup {NoToken}
    /\ toServer \in Seq(ForeignPackets) /\ toClient \in Seq(ForeignPackets)
    /\ clientClosed \in BOOLEAN /\ serverClosed \in BOOLEAN
    /\ clientRead \in Seq(ForeignPackets) /\ serverRead \in Seq(ForeignPackets)
    /\ sent \in 0 .. MaxForeign
    /\ now \in 0 .. Horizon
    /\ fault \in BOOLEAN

Init ==
    /\ foreign \in {"none", "client", "server"}
    /\ kind \in {"ping", "probe"}
    /\ status \in {"object", "array"}
    /\ client = "handshake"
    /\ token = NoToken
    /\ server = "handshake"
    /\ echoed = NoToken
    /\ toServer = <<>> /\ toClient = <<>>
    /\ clientClosed = FALSE /\ serverClosed = FALSE
    /\ clientRead = <<>> /\ serverRead = <<>>
    /\ sent = 0
    /\ now = 0
    /\ fault = FALSE

-----------------------------------------------------------------------------
(* The client *)

ClientRuns == foreign # "client" /\ client \notin {"ok", "err"}
ClientInTime == now <= Timeout

clientSide == <<client, token, toServer, clientClosed, clientRead, fault>>
serverSide == <<server, echoed, toClient, serverClosed, serverRead>>
world == <<foreign, kind, status, sent, now>>
IsProbe == kind = "probe"

\* Every way out of pingJavaPreparedContext closes the connection.
ClientEnds(result) == client' = result /\ clientClosed' = TRUE

\* writePacket: the write succeeds while the deadline has not passed.
ClientSends(step, packet, next) ==
    /\ ClientRuns /\ client = step /\ ClientInTime
    /\ toServer' = Append(toServer, packet)
    /\ client' = next
    /\ UNCHANGED <<token, clientClosed, clientRead, fault, serverSide, world>>

SendHandshake ==
    ClientSends("handshake", IF IsProbe THEN ProbeHandshakePacket ELSE HandshakePacket, "request")
SendRequest ==
    ClientSends("request", IF IsProbe THEN ProbeRequestPacket ELSE RequestPacket, "status")
SendPing ==
    ClientSends("ping", IF IsProbe THEN ProbePingPacket(token) ELSE PingPacket(token), "pong")

\* readPacket and the checks of its contents.
ReadStatus ==
    /\ ClientRuns /\ client = "status" /\ ClientInTime
    /\ toClient # <<>>
    /\ toClient' = Tail(toClient)
    /\ clientRead' = Append(clientRead, Head(toClient))
    /\ IF (IF IsProbe THEN ProbeAcceptsStatus(Head(toClient)) ELSE IsStatus(Head(toClient)))
       THEN client' = "token" /\ UNCHANGED clientClosed
       ELSE ClientEnds("err")
    /\ UNCHANGED <<token, toServer, fault, server, echoed, serverClosed, serverRead, world>>

\* The token is drawn once the status has been read.
DrawToken ==
    /\ ClientRuns /\ client = "token"
    /\ token' \in (IF IsProbe THEN {ProbeToken} ELSE Tokens)
    /\ client' = "ping"
    /\ UNCHANGED <<toServer, clientClosed, clientRead, fault, serverSide, world>>

ReadPong ==
    /\ ClientRuns /\ client = "pong" /\ ClientInTime
    /\ toClient # <<>>
    /\ toClient' = Tail(toClient)
    /\ clientRead' = Append(clientRead, Head(toClient))
    /\ ClientEnds(IF (IF IsProbe THEN ProbeAcceptsPong(Head(toClient), token)
                      ELSE IsPong(Head(toClient), token))
                  THEN "ok" ELSE "err")
    /\ UNCHANGED <<token, toServer, fault, server, echoed, serverClosed, serverRead, world>>

\* A read meets the end of the stream, or a write a connection closed by the peer.
ClientSeesClose ==
    /\ ClientRuns /\ serverClosed
    /\ client \in {"status", "pong"} => toClient = <<>>
    /\ client # "token"
    /\ ClientEnds("err")
    /\ UNCHANGED <<token, toServer, clientRead, fault, serverSide, world>>

\* Faulty variant: the deadline covers only writes.
WriteTimesOut ==
    /\ ClientRuns /\ now >= Timeout /\ client \notin {"status", "token", "pong"}
    /\ ClientEnds("err")
    /\ UNCHANGED <<token, toServer, clientRead, fault, serverSide, world>>

\* The socket deadline ends the read or write in progress.
ClientTimesOut ==
    /\ ClientRuns /\ now >= Timeout /\ client # "token"
    /\ ClientEnds("err")
    /\ UNCHANGED <<token, toServer, clientRead, fault, serverSide, world>>

\* SetDeadline or the token source fails.
ClientFaults ==
    /\ ClientRuns /\ client \in (IF IsProbe THEN {"handshake"} ELSE {"handshake", "token"})
    /\ ClientEnds("err")
    /\ fault' = TRUE
    /\ UNCHANGED <<token, toServer, clientRead, serverSide, world>>

Client ==
    \/ SendHandshake \/ SendRequest \/ ReadStatus \/ DrawToken \/ SendPing \/ ReadPong
    \/ ClientSeesClose \/ ClientTimesOut \/ ClientFaults

-----------------------------------------------------------------------------
(* The server *)

ServerRuns == foreign # "server" /\ server \notin {"done", "err"}
ServerInTime == now <= ServerDeadline

\* handleConn returns and its goroutine closes the connection.
ServerEnds(result) == server' = result /\ serverClosed' = TRUE

\* One packet of expectStatusHandshake or expectPingToken; accepted says what
\* the code makes of the packet at the head.
ServerReads(step, accepted, next) ==
    /\ ServerRuns /\ server = step /\ ServerInTime
    /\ toServer # <<>>
    /\ toServer' = Tail(toServer)
    /\ serverRead' = Append(serverRead, Head(toServer))
    /\ IF accepted
       THEN server' = next /\ UNCHANGED serverClosed
       ELSE ServerEnds("err")
    /\ UNCHANGED <<client, token, toClient, clientClosed, clientRead, fault, world>>

ExpectHandshake ==
    ServerReads("handshake", IsHandshake(Head(toServer)), "request") /\ UNCHANGED echoed

ExpectRequest ==
    ServerReads("request", IsRequest(Head(toServer)), "status") /\ UNCHANGED echoed

ExpectPing ==
    /\ ServerReads("ping", IsPing(Head(toServer)), "pong")
    /\ echoed' = IF IsPing(Head(toServer)) THEN Head(toServer)[2].value ELSE echoed

SendStatus ==
    /\ ServerRuns /\ server = "status" /\ ServerInTime
    /\ toClient' = Append(toClient, StatusPacket(status))
    /\ server' = "ping"
    /\ UNCHANGED <<echoed, serverClosed, serverRead, clientSide, world>>

\* Faulty variant: the server waits for another ping.
SendPongAndStay ==
    /\ ServerRuns /\ server = "pong" /\ ServerInTime
    /\ toClient' = Append(toClient, PongPacket(echoed))
    /\ server' = "ping"
    /\ UNCHANGED <<echoed, serverClosed, serverRead, clientSide, world>>

SendPong ==
    /\ ServerRuns /\ server = "pong" /\ ServerInTime
    /\ toClient' = Append(toClient, PongPacket(echoed))
    /\ ServerEnds("done")
    /\ UNCHANGED <<echoed, serverRead, clientSide, world>>

ServerSeesClose ==
    /\ ServerRuns /\ clientClosed
    /\ server \in {"handshake", "request", "ping"} => toServer = <<>>
    /\ ServerEnds("err")
    /\ UNCHANGED <<echoed, toClient, serverRead, clientSide, world>>

ServerTimesOut ==
    /\ ServerRuns /\ now >= ServerDeadline
    /\ ServerEnds("err")
    /\ UNCHANGED <<echoed, toClient, serverRead, clientSide, world>>

Server ==
    \/ ExpectHandshake \/ ExpectRequest \/ SendStatus \/ ExpectPing \/ SendPong
    \/ ServerSeesClose \/ ServerTimesOut

-----------------------------------------------------------------------------
(* Foreign programs and time *)

\* The next packet is chosen when the previous one has been read: the reader
\* cannot tell it from one that was already waiting in the stream.
ForeignServerSends ==
    /\ foreign = "server" /\ ~ serverClosed /\ sent < MaxForeign
    /\ toClient = <<>> /\ ClientRuns
    /\ \E p \in ForeignPackets : toClient' = Append(toClient, p)
    /\ sent' = sent + 1
    /\ UNCHANGED <<foreign, kind, status, now, server, echoed, serverClosed, serverRead, clientSide>>

ForeignClientSends ==
    /\ foreign = "client" /\ ~ clientClosed /\ sent < MaxForeign
    /\ toServer = <<>> /\ ServerRuns
    /\ \E p \in ForeignPackets : toServer' = Append(toServer, p)
    /\ sent' = sent + 1
    /\ UNCHANGED <<foreign, kind, status, now, client, token, clientClosed, clientRead, fault, serverSide>>

ForeignHangsUp ==
    \/ /\ foreign = "server" /\ ~ serverClosed
       /\ serverClosed' = TRUE
       /\ UNCHANGED <<server, echoed, toClient, serverRead, clientSide, world>>
    \/ /\ foreign = "client" /\ ~ clientClosed
       /\ clientClosed' = TRUE
       /\ UNCHANGED <<client, token, toServer, clientRead, fault, serverSide, world>>

Tick ==
    /\ ClientRuns \/ ServerRuns
    /\ now < Horizon
    /\ now' = now + 1
    /\ UNCHANGED <<foreign, kind, status, sent, clientSide, serverSide>>

Next ==
    \/ Client \/ Server
    \/ ForeignServerSends \/ ForeignClientSends \/ ForeignHangsUp
    \/ Tick

Spec == Init /\ [][Next]_vars

\* Both programs run and time passes; a foreign program owes nothing.
Fairness == WF_vars(Client) /\ WF_vars(Server) /\ WF_vars(Tick)

FairSpec == Spec /\ Fairness

-----------------------------------------------------------------------------
(* Properties *)

\* A probe of the staging server succeeds only after the server has served the
\* whole exchange, and the token it echoed is the probe's own; nothing of the
\* conversation is left unread (java.go:133-152; server.go:207-222).
SuccessIsMutual ==
    client = "ok" /\ foreign = "none" =>
        server = "done" /\ echoed = token /\ toServer = <<>> /\ toClient = <<>>

\* Both clients and the staging server agree on every packet: a probe fails
\* only because a deadline passed or the client itself broke, except that the
\* ping, and not the readiness probe, insists on an object as status
\* (protocol.go:41-135; server.go:224-323, 469-554).
HealthyFailsOnlyByTime ==
    client = "err" /\ foreign = "none" /\ (status = "object" \/ IsProbe) =>
        now >= Timeout \/ now >= ServerDeadline \/ fault

\* Against any peer, each side ends well only with the exact conversation: the
\* client after a status and exactly the pong for its own token, the server
\* after handshake, request and ping in this order, whose token it echoed; the
\* handshake may name any version and host, which the server does not look at
\* (protocol.go:79-135; server.go:207-323, 509-553).
OnlyTheExactExchangeCounts ==
    /\ client = "ok" =>
          /\ Len(clientRead) = 2 /\ clientRead[2] = PongPacket(token)
          /\ clientRead[1] = StatusPacket("object") \/ IsProbe
    /\ server = "done" =>
          \E h \in {HandshakePacket, OtherHandshake} :
              serverRead = <<h, RequestPacket, PingPacket(echoed)>>

\* Neither side waits for ever, whatever the other one does: each ends by its own
\* deadline (java.go:125-131; server.go:208-210).
BothSidesEnd ==
    /\ foreign # "client" ~> clientClosed
    /\ foreign # "server" ~> serverClosed

=============================================================================
