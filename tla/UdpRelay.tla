------------------------------ MODULE UdpRelay ------------------------------
(***************************************************************************)
(* The IPv6 UDP relay of the release harness (udpIPv6Relay of              *)
(* cmd/release-integration/main.go) between the readiness prober           *)
(* (waitForListener with stagingserver.ProbeBedrock) and the target.       *)
(*                                                                         *)
(* The relay takes one datagram at a time, sends it from a socket of its   *)
(* own and waits for one answer under a deadline that is longer than the   *)
(* prober's patience, so that pings queue up behind one that was lost.     *)
(* Ping n is the one of the prober's n-th attempt; attempts are at least a *)
(* retry interval apart, so their ping times differ.  Each attempt has a   *)
(* socket of its own, but the relay answers to an address: the kernel may  *)
(* give the socket of a later attempt the port of an earlier, closed one,  *)
(* and the same goes for the relay's own upstream sockets.                 *)
(*                                                                         *)
(* Until it settles, the target may be away: it refuses, loses or delays   *)
(* what it is sent.  Once settled it answers before the clock moves.       *)
(***************************************************************************)
EXTENDS Integers, Sequences

CONSTANTS
    ClientPorts,    \* local ports of the prober's sockets
    Ports,          \* local ports of the relay's upstream sockets
    RelayTimeout,   \* udpRelayDeadlineTimeout
    ProbeTimeout,   \* listenerProbeTimeout
    RetryInterval,  \* listenerRetryInterval
    MaxAttempts,    \* the attempts that fit into listenerReadyTimeout
    QueueLimit      \* datagrams the relay's socket buffers

ASSUME PortAssumption == ClientPorts # {} /\ Ports # {}
ASSUME TimeAssumption ==
    /\ {RelayTimeout, ProbeTimeout, RetryInterval} \subseteq Nat \ {0}
    /\ {MaxAttempts, QueueLimit} \subseteq Nat \ {0}

VARIABLES
    conn,      \* the relay's socket: "open" or "closed"
    loop,      \* serve: "read", "forward", "await", "done"
    closer,    \* close: "idle", "waiting", "returned"
    queue,     \* the pings in the socket's buffer
    job,       \* the ping being forwarded
    port,      \* the port of its upstream socket
    patience,  \* what is left of the upstream socket's deadline
    net,       \* datagrams between relay and target
    client,    \* the port of the socket of each attempt made
    inbox,     \* the answers in the socket of the prober's attempt
    prober,    \* "ready to send", "wait", "pause", "ready", "timed out", "cancelled"
    attempt,   \* attempts made
    left,      \* what is left of the attempt's deadline, or of the pause
    settled,   \* the target is up and the network quiet
    settledAt, \* history: attempts made when it settled
    expired    \* history: pings whose forwarding ended without an answer

relay  == <<conn, loop, closer, queue, job, port, patience>>
wait   == <<prober, attempt, left, client>>
target == <<settled, settledAt>>
vars   == <<relay, net, inbox, wait, target, expired>>

Attempts == 1 .. MaxAttempts
Over == {"ready", "timed out", "cancelled"}

TypeOK ==
    /\ conn \in {"open", "closed"}
    /\ loop \in {"read", "forward", "await", "done"}
    /\ closer \in {"idle", "waiting", "returned"}
    /\ queue \in Seq(Attempts) /\ Len(queue) <= QueueLimit
    /\ job \in Attempts \cup {0} /\ port \in Ports
    /\ patience \in 0 .. RelayTimeout
    /\ net \in SUBSET [kind : {"ping", "pong"}, port : Ports, ping : Attempts]
    /\ client \in [Attempts -> ClientPorts]
    /\ inbox \in SUBSET Attempts
    /\ prober \in {"ready to send", "wait", "pause"} \cup Over
    /\ attempt \in 0 .. MaxAttempts
    /\ left \in 0 .. ProbeTimeout \cup 0 .. RetryInterval
    /\ settled \in BOOLEAN /\ settledAt \in 0 .. MaxAttempts
    /\ expired \in SUBSET Attempts

Init ==
    /\ conn = "open" /\ loop = "read" /\ closer = "idle"
    /\ queue = <<>> /\ job = 0 /\ port \in Ports /\ patience = 0
    /\ net = {} /\ inbox = {}
    /\ prober = "ready to send" /\ attempt = 0 /\ left = 0
    /\ client = [n \in Attempts |-> CHOOSE p \in ClientPorts : TRUE]
    /\ settled = FALSE /\ settledAt = MaxAttempts
    /\ expired = {}

-----------------------------------------------------------------------------
(* serve and forwardPacket *)

\* Faulty variant: the next datagram is taken while an answer is awaited.
ReceiveEarly ==
    /\ loop \in {"read", "await"} /\ conn = "open" /\ queue # <<>>
    /\ job' = Head(queue) /\ queue' = Tail(queue)
    /\ loop' = "forward"
    /\ UNCHANGED <<conn, closer, port, patience, net, inbox, wait, target, expired>>

Receive ==
    /\ loop = "read" /\ conn = "open" /\ queue # <<>>
    /\ job' = Head(queue) /\ queue' = Tail(queue)
    /\ loop' = "forward"
    /\ UNCHANGED <<conn, closer, port, patience, net, inbox, wait, target, expired>>

\* Faulty variant: the deadline is set anew after the write.
ForwardTwoDeadlines ==
    /\ loop = "forward"
    /\ port' \in Ports
    /\ patience' = RelayTimeout + RelayTimeout
    /\ net' = net \cup {[kind |-> "ping", port |-> port', ping |-> job]}
    /\ loop' = "await"
    /\ UNCHANGED <<conn, closer, queue, job, inbox, wait, target, expired>>

\* A fresh socket, its deadline, and the datagram.
Forward ==
    /\ loop = "forward"
    /\ port' \in Ports
    /\ patience' = RelayTimeout
    /\ net' = net \cup {[kind |-> "ping", port |-> port', ping |-> job]}
    /\ loop' = "await"
    /\ UNCHANGED <<conn, closer, queue, job, inbox, wait, target, expired>>

GivesUp ==
    /\ loop' = "read"
    /\ expired' = expired \cup {job}
    /\ UNCHANGED <<conn, closer, queue, job, port, patience, net, inbox, wait, target>>

\* The dial, SetDeadline or Write fails; the error is logged.
ForwardFails ==
    /\ loop = "forward" /\ ~ settled
    /\ GivesUp

\* The host of the target refuses the datagram.
AwaitRefused ==
    /\ loop = "await" /\ ~ settled
    /\ GivesUp

\* Faulty variant: the upstream socket has no deadline.
NeverExpires ==
    /\ FALSE
    /\ GivesUp

AwaitExpires ==
    /\ loop = "await" /\ patience = 0
    /\ GivesUp

\* A datagram to clientAddr reaches the socket that has that port now: the one
\* that sent the ping, or the one of a later attempt.
Reaches(n) == prober = "wait" /\ client[n] = client[attempt]

\* WriteTo sends the answer to whoever has the port of the ping's socket; it
\* fails once close has closed the relay's own.
Answered ==
    /\ loop = "await"
    /\ \E m \in net :
          /\ m.kind = "pong" /\ m.port = port
          /\ net' = net \ {m}
          /\ inbox' = IF conn = "open" /\ Reaches(job)
                      THEN inbox \cup {m.ping} ELSE inbox
    /\ loop' = "read"
    /\ UNCHANGED <<conn, closer, queue, job, port, patience, wait, target, expired>>

\* ReadFrom fails on a closed socket, whatever is buffered.
LoopEnds ==
    /\ loop = "read" /\ conn = "closed"
    /\ loop' = "done"
    /\ UNCHANGED <<conn, closer, queue, job, port, patience, net, inbox, wait,
                   target, expired>>

\* The harness closes the relay when it has no more use for it.
BeginClose ==
    /\ prober \in Over /\ closer = "idle"
    /\ conn' = "closed" /\ closer' = "waiting"
    /\ UNCHANGED <<loop, queue, job, port, patience, net, inbox, wait, target, expired>>

CloseReturns ==
    /\ closer = "waiting" /\ loop = "done"
    /\ closer' = "returned"
    /\ UNCHANGED <<conn, loop, queue, job, port, patience, net, inbox, wait,
                   target, expired>>

Relay == Receive \/ Forward \/ ForwardFails \/ AwaitExpires \/ Answered \/ LoopEnds

-----------------------------------------------------------------------------
(* waitForListener with ProbeBedrock *)

\* The head of the loop: another probe, or the end of the wait.  A full buffer
\* drops the ping.
Attempt ==
    /\ prober = "ready to send" /\ attempt < MaxAttempts
    /\ attempt' = attempt + 1
    /\ \E p \in ClientPorts : client' = [client EXCEPT ![attempt'] = p]
    /\ prober' = "wait" /\ left' = ProbeTimeout
    /\ queue' = IF Len(queue) < QueueLimit THEN Append(queue, attempt') ELSE queue
    /\ UNCHANGED <<conn, loop, closer, job, port, patience, net, inbox, target, expired>>

TimedOut ==
    /\ prober = "ready to send" /\ attempt = MaxAttempts
    /\ prober' = "timed out"
    /\ UNCHANGED <<relay, net, inbox, attempt, left, client, target, expired>>

\* Only the first datagram is read, and parseBedrockPong wants this ping's time.
ReadReply ==
    /\ prober = "wait"
    /\ \E ping \in inbox : IF ping = attempt
                           THEN prober' = "ready" /\ left' = 0
                           ELSE prober' = "pause" /\ left' = RetryInterval
    /\ inbox' = {}
    /\ UNCHANGED <<relay, net, attempt, client, target, expired>>

ReadTimesOut ==
    /\ prober = "wait" /\ left = 0
    /\ prober' = "pause" /\ left' = RetryInterval
    /\ inbox' = {}
    /\ UNCHANGED <<relay, net, attempt, client, target, expired>>

PauseEnds ==
    /\ prober = "pause" /\ left = 0
    /\ prober' = "ready to send"
    /\ UNCHANGED <<relay, net, inbox, attempt, left, client, target, expired>>

\* The select takes ctx.Done; a probe under way is not interrupted.
PauseCancelled ==
    /\ prober = "pause"
    /\ prober' = "cancelled" /\ left' = 0
    /\ UNCHANGED <<relay, net, inbox, attempt, client, target, expired>>

Prober == Attempt \/ TimedOut \/ ReadReply \/ ReadTimesOut \/ PauseEnds

-----------------------------------------------------------------------------
(* The target, the network and the clock *)

Answer ==
    /\ \E m \in net : /\ m.kind = "ping"
                      /\ net' = (net \ {m}) \cup {[m EXCEPT !.kind = "pong"]}
    /\ UNCHANGED <<relay, inbox, wait, target, expired>>

\* A datagram is lost, or reaches a port that no socket has.
Vanish ==
    /\ \E m \in net : /\ ~ settled \/ ~ (loop = "await" /\ m.port = port)
                      /\ net' = net \ {m}
    /\ UNCHANGED <<relay, inbox, wait, target, expired>>

Settle ==
    /\ ~ settled /\ net = {}
    /\ settled' = TRUE /\ settledAt' = attempt
    /\ UNCHANGED <<relay, net, inbox, wait, expired>>

Prompt ==
    /\ loop # "forward" /\ net = {} /\ inbox = {}
    /\ loop = "read" => queue = <<>> /\ conn = "open"
    /\ prober # "ready to send"

Less(n) == IF n > 0 THEN n - 1 ELSE 0

Tick ==
    /\ ~ (loop = "await" /\ patience = 0) /\ ~ (prober \in {"wait", "pause"} /\ left = 0)
    /\ closer # "returned"
    /\ settled => Prompt
    /\ patience' = Less(patience) /\ left' = Less(left)
    /\ UNCHANGED <<conn, loop, closer, queue, job, port, net, inbox, prober,
                   attempt, client, target, expired>>

Next ==
    \/ Receive \/ Forward \/ ForwardFails
    \/ AwaitRefused \/ AwaitExpires \/ Answered \/ LoopEnds
    \/ BeginClose \/ CloseReturns
    \/ Attempt \/ TimedOut \/ ReadReply \/ ReadTimesOut \/ PauseEnds \/ PauseCancelled
    \/ Answer \/ Vanish \/ Settle \/ Tick

Spec == Init /\ [][Next]_vars

\* The relay's goroutine, the harness and the clock go on.  Of the target and
\* the network only what being settled means is asked.
Fairness ==
    /\ WF_vars(Relay) /\ WF_vars(CloseReturns) /\ WF_vars(Prober) /\ WF_vars(Tick)
    /\ WF_vars(settled /\ (Answer \/ Vanish))

FairSpec == Spec /\ Fairness

-----------------------------------------------------------------------------
(* Properties *)

\* A client is handed the answer to another ping in two ways only, and it is
\* always the answer to an earlier ping: its socket has the port of the one that
\* sent that ping, whose prober gave up before the relay did; or the relay is
\* behind a forwarding that ended unanswered, whose late answer met a new
\* upstream socket on the old port and may shift the ones after it
\* (main.go:701-735).
StrayAnswerNeedsReuse ==
    \A ping \in inbox : ping # attempt =>
        /\ ping < attempt
        /\ \/ client[ping] = client[attempt]
           \/ \E lost \in expired : lost <= ping

\* Pings that wait behind a lost one do not cost the run: a target that settles
\* while the attempts of one relay deadline, plus the one under way, are still
\* to come is found ready, however many stale pings are queued before it
\* (main.go:532-547, 701-735).
SettledTargetIsFound ==
    prober = "timed out" =>
        (MaxAttempts - settledAt - 1) * (ProbeTimeout + RetryInterval) <= RelayTimeout

\* close waits for the ping that is being forwarded and for no other: the
\* deadline ends it although the target never answers (main.go:714-743).
CloseIsBounded == closer = "waiting" ~> closer = "returned"

=============================================================================
