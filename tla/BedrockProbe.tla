---------------------------- MODULE BedrockProbe ----------------------------
(***************************************************************************)
(* Bedrock probes, bedrock.go: pingBedrockCandidates tries the candidates  *)
(* in order; pingBedrockCandidate sends one RakNet ping from a new UDP     *)
(* socket and reads one datagram under a deadline of its own.  The session *)
(* runs one probe after another, their starts at least an interval apart   *)
(* (TextSession!StartsArePaced).                                           *)
(*                                                                         *)
(* The network loses, delays, duplicates and reorders datagrams: one that  *)
(* is in flight may be delivered never, once or again.  A socket receives  *)
(* what comes from its candidate to its local port, and the kernel may     *)
(* give a later socket the port of an earlier, closed one, so a late pong  *)
(* can meet a probe it does not answer.  A ping carries the clock cut to   *)
(* milliseconds; the clock itself is finer, and so are interval and        *)
(* timeout, which may be as short as one tick.  The wall clock is taken    *)
(* not to be set back while a session runs.                                *)
(***************************************************************************)
EXTENDS Integers

CONSTANTS
    N,          \* the number of candidates; preparing a probe fails without one
    Ports,      \* local ports the kernel hands out
    Timeout,    \* the longest timeout of a probe (the session may shorten it)
    Intervals,  \* the intervals a session can have
    Milli,      \* ticks of the clock in a millisecond
    MaxPings,   \* bound: pings sent in all probes
    Horizon     \* bound: from this time on the clock moves only in a read

ASSUME CandidateAssumption == N \in Nat \ {0}
ASSUME PortAssumption == Ports # {}
ASSUME TimeAssumption ==
    /\ Timeout \in Nat \ {0} /\ Intervals \subseteq Nat \ {0}
    /\ Milli \in Nat \ {0} /\ Horizon \in Nat
ASSUME PingAssumption == MaxPings \in Nat

Candidates == 1 .. N

VARIABLES
    interval,   \* the session's interval
    pc,         \* where the probe is
    cand,       \* the candidate being tried
    errs,       \* len(errs)
    port,       \* the local port of the current socket
    builtAt,    \* when the ping was built; expectedPingTime is its millisecond
    deadline,   \* the deadline of the current socket
    timeout,    \* the timeout of the current or last probe
    startedAt,  \* when that probe began
    result,     \* of that probe
    answer,     \* the datagram it accepted
    waited,     \* history: how long that probe has read from its sockets
    serial,     \* history: the number of pings sent, the identity of the last one
    atCancel,   \* history: serial when the context was cancelled
    net,        \* the datagrams in flight
    ctxDone,
    now         \* the clock

vars == <<interval, pc, cand, errs, port, builtAt, deadline, timeout, startedAt, result,
          answer, waited, serial, atCancel, net, ctxDone, now>>

socket  == <<port, builtAt, deadline>>
probe   == <<timeout, startedAt>>
outcome == <<result, answer>>
world   == <<interval, atCancel, net, ctxDone, now>>

\* A datagram of the exchange that ping `serial` began.  It carries the kind and
\* the time in milliseconds; `built` and `start` are history: when the ping was
\* built and when its probe began.
Datagrams == [kind : {"ping", "pong", "bad"}, candidate : Candidates, port : Ports,
              time : Nat, serial : Nat, built : Nat, start : Nat]

NoAnswer == [kind |-> "none"]

TypeOK ==
    /\ interval \in Intervals
    /\ pc \in {"idle", "next", "dial", "deadline", "build", "send", "read"}
    /\ cand \in 0 .. N + 1
    /\ errs \in 0 .. N
    /\ port \in Ports
    /\ builtAt \in Nat /\ deadline \in Nat
    /\ timeout \in 1 .. Timeout /\ startedAt \in Nat
    /\ result \in {"none", "sample", "error"}
    /\ answer \in Datagrams \cup {NoAnswer}
    /\ waited \in Nat
    /\ serial \in Nat /\ atCancel \in Nat
    /\ net \subseteq Datagrams
    /\ ctxDone \in BOOLEAN
    /\ now \in Nat

-----------------------------------------------------------------------------
(* pingBedrockCandidates *)

Init ==
    /\ interval \in Intervals
    /\ pc = "idle" /\ cand = 0 /\ errs = 0
    /\ port \in Ports
    /\ builtAt = 0 /\ deadline = 0
    /\ timeout = Timeout /\ startedAt = 0
    /\ result = "none" /\ answer = NoAnswer
    /\ waited = 0
    /\ serial = 0 /\ atCancel = 0
    /\ net = {}
    /\ ctxDone = FALSE
    /\ now = 0

\* The session calls probe, one interval after the start of the one before.
BeginProbe ==
    /\ pc = "idle" /\ serial + N <= MaxPings
    /\ result = "none" \/ now >= startedAt + interval
    /\ pc' = "next"
    /\ cand' = 1 /\ errs' = 0
    /\ timeout' \in 1 .. Timeout /\ startedAt' = now
    /\ result' = "none" /\ answer' = NoAnswer
    /\ waited' = 0
    /\ UNCHANGED <<socket, serial, world>>

\* Faulty variant: the context is not looked at.
TryUnaware ==
    /\ pc = "next" /\ cand <= N
    /\ pc' = "dial"
    /\ UNCHANGED <<cand, errs, socket, probe, outcome, waited, serial, world>>

\* The head of the loop looks at the context before each candidate.
TryCandidate ==
    /\ pc = "next" /\ cand <= N /\ ~ ctxDone
    /\ pc' = "dial"
    /\ UNCHANGED <<cand, errs, socket, probe, outcome, waited, serial, world>>

\* The context is done, or no candidate is left.
GiveUp ==
    /\ pc = "next" /\ (cand > N \/ ctxDone)
    /\ pc' = "idle"
    /\ result' = "error"
    /\ UNCHANGED <<cand, errs, socket, probe, answer, waited, serial, world>>

\* The candidate fails: its socket is closed and its error kept.
CandidateFails ==
    /\ pc' = "next"
    /\ cand' = cand + 1
    /\ errs' = errs + 1
    /\ UNCHANGED <<socket, probe, outcome, waited, serial, world>>

-----------------------------------------------------------------------------
(* pingBedrockCandidate *)

Dial ==
    /\ pc = "dial"
    /\ port' \in Ports
    /\ pc' = "deadline"
    /\ UNCHANGED <<cand, errs, builtAt, deadline, probe, outcome, waited, serial, world>>

\* Faulty variant: a candidate gets the time of all of them.
SetLongDeadline ==
    /\ pc = "deadline"
    /\ deadline' = now + N * timeout
    /\ pc' = "build"
    /\ UNCHANGED <<cand, errs, port, builtAt, probe, outcome, waited, serial, world>>

\* The program's contexts carry no deadline, so each candidate has the timeout
\* of the probe to itself.
SetDeadline ==
    /\ pc = "deadline"
    /\ deadline' = now + timeout
    /\ pc' = "build"
    /\ UNCHANGED <<cand, errs, port, builtAt, probe, outcome, waited, serial, world>>

\* UnixMilli: the millisecond a moment lies in.
UnixMilli(t) == t \div Milli

BuildRequest ==
    /\ pc = "build"
    /\ builtAt' = now
    /\ pc' = "send"
    /\ UNCHANGED <<cand, errs, port, deadline, probe, outcome, waited, serial, world>>

Send ==
    /\ pc = "send" /\ now <= deadline
    /\ serial' = serial + 1
    /\ net' = net \cup {[kind |-> "ping", candidate |-> cand, port |-> port,
                         time |-> UnixMilli(builtAt), serial |-> serial + 1,
                         built |-> builtAt, start |-> startedAt]}
    /\ pc' = "read"
    /\ UNCHANGED <<cand, errs, socket, probe, outcome, waited, interval, atCancel, ctxDone, now>>

\* Dialing, setting the deadline, drawing the GUID or writing fails.
LocalError ==
    /\ pc \in {"dial", "deadline", "build", "send"}
    /\ CandidateFails

\* What the connected socket can receive.
Arriving ==
    {d \in net : d.kind # "ping" /\ d.candidate = cand /\ d.port = port}

\* Faulty variant: any well-formed pong will do.
AnyPong(d) == d.kind = "pong"

\* parseBedrockStatusResponse: the time of the ping, in a well-formed pong.
Acceptable(d) ==
    /\ d.kind = "pong"
    /\ d.time = UnixMilli(builtAt)

\* One datagram is read, and it decides the candidate.
ReadAccepts ==
    /\ pc = "read" /\ now <= deadline
    /\ \E d \in Arriving : Acceptable(d) /\ answer' = d
    /\ result' = "sample"
    /\ pc' = "idle"
    /\ UNCHANGED <<cand, errs, socket, probe, waited, serial, world>>

ReadRejects ==
    /\ pc = "read" /\ now <= deadline
    /\ \E d \in Arriving : ~ Acceptable(d)
    /\ CandidateFails

\* Faulty variant: only the context ends a read.
ReadEndsWithContext ==
    /\ pc = "read" /\ ctxDone
    /\ CandidateFails

ReadTimesOut ==
    /\ pc = "read" /\ now >= deadline
    /\ CandidateFails

\* The host of the candidate reports that nobody listens.
ReadRefused ==
    /\ pc = "read"
    /\ CandidateFails

\* What the program does without a message from outside.
Step ==
    \/ TryCandidate \/ GiveUp \/ Dial \/ SetDeadline \/ BuildRequest \/ Send
    \/ LocalError \/ ReadAccepts \/ ReadRejects \/ ReadTimesOut

-----------------------------------------------------------------------------
(* Servers, context and clock *)

\* The server returns the time of the ping.  A pong is bad when the server is
\* broken, or its status does not fit the 2048 bytes that are read.
Answer(d) ==
    /\ d.kind = "ping"
    /\ \E kind \in {"pong", "bad"} :
          net' = (net \ {d}) \cup {[d EXCEPT !.kind = kind]}
    /\ UNCHANGED <<pc, cand, errs, socket, probe, outcome, waited, serial,
                   interval, atCancel, ctxDone, now>>

Cancel ==
    /\ ~ ctxDone
    /\ ctxDone' = TRUE
    /\ atCancel' = serial
    /\ UNCHANGED <<pc, cand, errs, socket, probe, outcome, waited, serial, interval, net, now>>

\* Time passes anywhere, but a read does not outlast its deadline.
Tick ==
    /\ IF pc = "read"
       THEN now < deadline /\ waited' = waited + 1
       ELSE now < Horizon /\ UNCHANGED waited
    /\ now' = now + 1
    /\ UNCHANGED <<pc, cand, errs, socket, probe, outcome, serial, interval, atCancel, net,
                   ctxDone>>

Next ==
    \/ BeginProbe
    \/ Step
    \/ ReadRefused
    \/ \E d \in net : Answer(d)
    \/ Cancel
    \/ Tick

Spec == Init /\ [][Next]_vars

\* A probe that was begun goes on, and time passes while it reads.
Fairness ==
    /\ WF_vars(Step)
    /\ WF_vars(pc = "read" /\ Tick)

FairSpec == Spec /\ Fairness

-----------------------------------------------------------------------------
(* Properties *)

\* A sample comes from the probe's own ping.  The one exception: the pong of an
\* earlier probe's ping that shares its millisecond with this one, and so was
\* built later than an interval, less one millisecond, after the start of its
\* probe.  Under an interval of seconds that takes a ping that went out almost
\* an interval late; under one of a millisecond or less any earlier ping will do.
\* The millisecond is all that ties a pong to its ping; the random client GUID
\* is not part of the answer (bedrock.go:205-222, 240-243, cli.go:387-408).
StalePongNeedsLatePing ==
    result = "sample" =>
        \/ answer.serial = serial
        \/ answer.serial < serial /\ answer.built + Milli > answer.start + interval

\* A probe spends at most one timeout per candidate in its sockets, and may
\* spend that much for each one; a probe that fails with the context still live
\* has tried them all (bedrock.go:138-155, 167-173).
SocketTimeBounded ==
    /\ waited <= errs * timeout + timeout
    /\ result = "error" => waited <= errs * timeout /\ (ctxDone \/ errs = N)

\* After a cancellation at most one more ping goes out, the one of a candidate
\* that was past the check, however many candidates and probes would follow
\* (bedrock.go:141-146, session.go:162).
OnePingAfterCancel ==
    ctxDone => serial <= atCancel + 1

\* Every probe that was begun returns to the session, whatever is lost.
ProbeEnds == pc # "idle" ~> pc = "idle"

=============================================================================
