------------------------------ MODULE TcpRelay ------------------------------
(***************************************************************************)
(* The IPv6 TCP relay of the release harness: ipv6Relay and proxyConns of  *)
(* cmd/release-integration/main.go.  An accept loop gives every client a   *)
(* goroutine that dials the IPv4 target and copies in both directions      *)
(* until both copies have ended; close shuts the listener and waits for    *)
(* the loop and for every such goroutine.                                  *)
(*                                                                         *)
(* A direction is named by its source.  A chunk is what one read returns.  *)
(* The sockets' buffers hold a whole exchange, so a write never waits for  *)
(* the peer to read.  Neither peer closes only its sending half: the       *)
(* harness's probes and the staging server close whole connections.        *)
(***************************************************************************)
EXTENDS Integers

CONSTANTS
    Conns,      \* the connections clients make
    MaxChunks   \* bound: chunks sent in one direction of a connection

ASSUME ChunkAssumption == MaxChunks \in Nat

Ends == {"client", "upstream"}
Other(e) == IF e = "client" THEN "upstream" ELSE "client"

VARIABLES
    listener,     \* "open" or "closed"
    acceptLoop,   \* serve: "accept" or "done"
    closing,      \* close: "idle", "waiting" for the group, "returned"
    handler,      \* per connection: "none", "dial", "copy", "done"
    copy,         \* per connection and source: "read", "write", "expire", "ended"
    pastDeadline, \* per connection: the ends whose deadline copyStream has moved
    sent,         \* per connection and end: chunks this end has sent
    taken,        \* per connection and source: chunks the relay has read
    given,        \* per connection and source: chunks the relay has written
    peerClosed,   \* per connection: the ends that have closed
    refused       \* history: the connections on which a peer had gone at a write

streams == <<copy, pastDeadline, sent, taken, given, peerClosed, refused>>
group   == <<listener, acceptLoop, closing>>
tcpVars == <<group, handler, streams>>

TcpTypeOK ==
    /\ listener \in {"open", "closed"}
    /\ acceptLoop \in {"accept", "done"}
    /\ closing \in {"idle", "waiting", "returned"}
    /\ handler \in [Conns -> {"none", "dial", "copy", "done"}]
    /\ copy \in [Conns -> [Ends -> {"read", "write", "expire", "ended"}]]
    /\ pastDeadline \in [Conns -> SUBSET Ends]
    /\ sent \in [Conns -> [Ends -> 0 .. MaxChunks]]
    /\ taken \in [Conns -> [Ends -> 0 .. MaxChunks]]
    /\ given \in [Conns -> [Ends -> 0 .. MaxChunks]]
    /\ peerClosed \in [Conns -> SUBSET Ends]
    /\ refused \in SUBSET Conns

\* newIPv6Relay has returned.
TcpInit ==
    /\ listener = "open" /\ acceptLoop = "accept" /\ closing = "idle"
    /\ handler = [c \in Conns |-> "none"]
    /\ copy = [c \in Conns |-> [e \in Ends |-> "read"]]
    /\ pastDeadline = [c \in Conns |-> {}]
    /\ sent = [c \in Conns |-> [e \in Ends |-> 0]]
    /\ taken = [c \in Conns |-> [e \in Ends |-> 0]]
    /\ given = [c \in Conns |-> [e \in Ends |-> 0]]
    /\ peerClosed = [c \in Conns |-> {}]
    /\ refused = {}

-----------------------------------------------------------------------------
(* serve and close *)

Accept(c) ==
    /\ acceptLoop = "accept" /\ listener = "open" /\ handler[c] = "none"
    /\ handler' = [handler EXCEPT ![c] = "dial"]
    /\ UNCHANGED <<group, streams>>

\* Accept fails once the listener is closed; any error ends the loop.
AcceptEnds ==
    /\ acceptLoop = "accept" /\ listener = "closed"
    /\ acceptLoop' = "done"
    /\ UNCHANGED <<listener, closing, handler, streams>>

AcceptFails ==
    /\ acceptLoop = "accept" /\ listener = "open"
    /\ acceptLoop' = "done"
    /\ UNCHANGED <<listener, closing, handler, streams>>

CloseListener ==
    /\ closing = "idle"
    /\ listener' = "closed"
    /\ closing' = "waiting"
    /\ UNCHANGED <<acceptLoop, handler, streams>>

\* wg.Wait
CloseDone ==
    /\ closing = "waiting" /\ acceptLoop = "done"
    /\ \A c \in Conns : handler[c] \in {"none", "done"}
    /\ closing' = "returned"
    /\ UNCHANGED <<listener, acceptLoop, handler, streams>>

-----------------------------------------------------------------------------
(* The goroutine of a connection, and proxyConns *)

DialUpstream(c) ==
    /\ handler[c] = "dial"
    /\ handler' = [handler EXCEPT ![c] = "copy"]
    /\ UNCHANGED <<group, streams>>

\* The deferred call closes the client.
DialFails(c) ==
    /\ handler[c] = "dial"
    /\ handler' = [handler EXCEPT ![c] = "done"]
    /\ UNCHANGED <<group, streams>>

Copying(c, src, step) == handler[c] = "copy" /\ copy[c][src] = step

Moves(c, src, step) ==
    /\ copy' = [copy EXCEPT ![c][src] = step]
    /\ UNCHANGED <<group, handler>>

\* A read returns data unless the socket's deadline is past, data or not.
Read(c, src) ==
    /\ Copying(c, src, "read")
    /\ src \notin pastDeadline[c] /\ taken[c][src] < sent[c][src]
    /\ taken' = [taken EXCEPT ![c][src] = @ + 1]
    /\ Moves(c, src, "write")
    /\ UNCHANGED <<pastDeadline, sent, given, peerClosed, refused>>

\* The end of the stream, behind all its data, or the deadline.
ReadEnds(c, src) ==
    /\ Copying(c, src, "read")
    /\ \/ src \in pastDeadline[c]
       \/ src \in peerClosed[c] /\ taken[c][src] = sent[c][src]
    /\ Moves(c, src, "expire")
    /\ UNCHANGED <<pastDeadline, sent, taken, given, peerClosed, refused>>

\* Faulty variant: only the first chunk is copied.
WriteOnce(c, src) ==
    /\ Copying(c, src, "write")
    /\ Other(src) \notin pastDeadline[c]
    /\ Moves(c, src, "expire")
    /\ given' = [given EXCEPT ![c][src] = @ + 1]
    /\ UNCHANGED <<pastDeadline, sent, taken, peerClosed, refused>>

Write(c, src) ==
    /\ Copying(c, src, "write")
    /\ Other(src) \notin pastDeadline[c]
    /\ Moves(c, src, "read")
    /\ given' = [given EXCEPT ![c][src] = @ + 1]
    /\ UNCHANGED <<pastDeadline, sent, taken, peerClosed, refused>>

\* The destination has gone, or its deadline is past.
WriteFails(c, src) ==
    /\ Copying(c, src, "write")
    /\ Other(src) \in pastDeadline[c] \cup peerClosed[c]
    /\ Moves(c, src, "expire")
    /\ refused' = IF Other(src) \in peerClosed[c] THEN refused \cup {c} ELSE refused
    /\ UNCHANGED <<pastDeadline, sent, taken, given, peerClosed>>

\* Faulty variant: the other copy is not woken.
EndsQuietly(c, src) ==
    /\ Copying(c, src, "expire")
    /\ Moves(c, src, "ended")
    /\ UNCHANGED <<pastDeadline, sent, taken, given, peerClosed, refused>>

\* SetDeadline on the destination, then on the source.
Expire(c, src) ==
    /\ Copying(c, src, "expire")
    /\ IF Other(src) \notin pastDeadline[c]
       THEN /\ pastDeadline' = [pastDeadline EXCEPT ![c] = @ \cup {Other(src)}]
            /\ UNCHANGED <<group, handler, copy>>
       ELSE /\ pastDeadline' = [pastDeadline EXCEPT ![c] = @ \cup {src}]
            /\ Moves(c, src, "ended")
    /\ UNCHANGED <<sent, taken, given, peerClosed, refused>>

\* proxyWG.Wait returns and both connections are closed.
HandlerEnds(c) ==
    /\ handler[c] = "copy"
    /\ \A e \in Ends : copy[c][e] = "ended"
    /\ handler' = [handler EXCEPT ![c] = "done"]
    /\ UNCHANGED <<group, streams>>

HandlerStep(c) ==
    \/ DialUpstream(c) \/ DialFails(c)
    \/ \E src \in Ends : \/ Read(c, src) \/ ReadEnds(c, src)
                         \/ Write(c, src) \/ WriteFails(c, src)
                         \/ Expire(c, src)
    \/ HandlerEnds(c)

-----------------------------------------------------------------------------
(* The peers: a client is connected once accepted, the target once dialed *)

Connected(c, e) ==
    /\ e \notin peerClosed[c]
    /\ handler[c] = "copy" \/ (handler[c] = "dial" /\ e = "client")

PeerSends(c, e) ==
    /\ Connected(c, e) /\ sent[c][e] < MaxChunks
    /\ sent' = [sent EXCEPT ![c][e] = @ + 1]
    /\ UNCHANGED <<group, handler, copy, pastDeadline, taken, given, peerClosed, refused>>

PeerCloses(c, e) ==
    /\ Connected(c, e)
    /\ peerClosed' = [peerClosed EXCEPT ![c] = @ \cup {e}]
    /\ UNCHANGED <<group, handler, copy, pastDeadline, sent, taken, given, refused>>

TcpNext ==
    \/ AcceptEnds \/ AcceptFails \/ CloseListener \/ CloseDone
    \/ \E c \in Conns : \/ Accept(c) \/ HandlerStep(c)
                        \/ \E e \in Ends : PeerSends(c, e) \/ PeerCloses(c, e)

TcpSpec == TcpInit /\ [][TcpNext]_tcpVars

\* The relay's goroutines run.  Of the peers only the staging server owes
\* something: its handler ends by its deadline (StatusExchange!BothSidesEnd).
TcpFairness ==
    /\ WF_tcpVars(AcceptEnds) /\ WF_tcpVars(CloseDone)
    /\ \A c \in Conns : /\ \A src \in Ends : WF_tcpVars(Read(c, src) \/ ReadEnds(c, src)
                                \/ Write(c, src) \/ WriteFails(c, src) \/ Expire(c, src))
                        /\ WF_tcpVars(DialUpstream(c) \/ DialFails(c) \/ HandlerEnds(c))
                        /\ WF_tcpVars(PeerCloses(c, "upstream"))

TcpFairSpec == TcpSpec /\ TcpFairness

-----------------------------------------------------------------------------
(* Properties *)

\* Once close has begun it returns, whatever a client that is still connected
\* does: the target's end of a connection wakes the copy that waits for the
\* client (main.go:649-668).
RelayCloses == closing = "waiting" ~> closing = "returned"

\* Waking the other copy costs no answer: when a connection ends and its client
\* is still there, everything the target sent has been handed to the client,
\* unless the client's own data met a target that had gone (main.go:649-660).
AnswersReachTheClient ==
    \A c \in Conns :
        handler[c] = "done" /\ "client" \notin peerClosed[c] /\ c \notin refused =>
            given[c]["upstream"] = sent[c]["upstream"]

=============================================================================
