# minecraft-ping: TLA+ models and proofs

This directory specifies `minecraft-ping` in TLA+, checks it with TLC on small
instances, and proves every safety property that a passing run checks with TLAPS,
for every value of the constants.
Definitions are taken from the Go source; `PROJECT.json` maps each of them to
the lines it models.

## 1. Inventory

`minecraft-ping` measures the latency of Minecraft servers. A run parses the
command line, *prepares* a probe (SRV and address lookup, done once), and then
either sends one probe (JSON mode) or runs a *text session*: a loop of probes
with an interval, an optional count and an optional deadline. A Java probe
dials TCP and performs the status exchange; a Bedrock probe sends a RakNet ping
over UDP. The repository also holds a staging server that plays both kinds of
server, and a harness that runs released binaries against it.

| Part | State | Operations | Hard because of |
|---|---|---|---|
| Dial race (`client.go`) | attempts, their connections, a result channel, a derived context | start staggered attempts, receive results, cancel | goroutines, timers and cancellation in any order; who closes what |
| Text session (`session.go`) | counters, clock readings, deadline | pace, clamp the timeout, probe, stop, exit status | the clock moves between readings; signals arrive anywhere |
| Java exchange (`java.go`, `protocol.go`, `stagingserver/server.go`) | protocol step of each side, token, stream contents | send and check handshake, status, ping, pong | two codecs, two deadlines, peers that misbehave |
| Staging server life (`stagingserver/*.go`) | listeners, loops, handlers, error channel | listen, accept, fail, close, wait | partial setup, shutdown order, error races |
| Bedrock probe (`bedrock.go`) | candidate index, socket, expected time | try candidates in turn, one datagram each | lost, late, duplicated and reordered datagrams; cancellation |
| Preparation (`java.go`, `bedrock.go`, `address.go`, `endpoint.go`, `editions.go`) | route, resolver answer, candidate list | SRV, lookup, filter, de-duplicate, alternate | many input forms meeting one policy |
| Command line (`cli.go`, `editions.go`) | position in the arguments, raw options, normalised configuration | scan, normalise, prepare, dispatch, exit | values that look like options, clusters, durations at the edge of an integer |
| Codec (`protocol.go`, `server.go`) | bytes read, number so far | write and read VarInts, strings and packets | 32-bit arithmetic, limits, streams cut anywhere |
| Staging server probes (`stagingserver/*.go`) | protocol step, socket, expected time | `Probe`, `ProbeBedrock` | a third implementation of the protocol |
| TCP relay (`cmd/release-integration`) | listener, handlers, two copies per connection | accept, dial, copy, wake the other copy, close | one copy ends the other without losing data |
| UDP relay (`cmd/release-integration`) | socket, the datagram in hand, its deadline | receive, forward, await, answer, close | a lost datagram holds up the ones behind it; ports are reused |
| Release harness (`cmd/release-integration`) | step, cleanup stack, processes, container, relays | validate, extract, start, await, probe, undo | a failure or a signal at every step, retries with a deadline |

Interaction: the command line calls preparation, whose candidate list is the
input of the dial race (Java) or of the sequential Bedrock probe; the session
calls either one through `preparedProbe.probe` with a timeout it has cut to the
time left; the exchange runs on the connection the race returned, possibly
against the staging server's handler. One context, cancelled by SIGINT or
SIGTERM, reaches all of them. The harness starts a staging server (as a process or
in a container), opens the relays that give it IPv6 addresses, awaits each listener
with the staging server's own probes, through the relays where there are any, and
then runs the binary under test against it; what it started it undoes in reverse.

What makes each part correct:

- dial race: the returned connection is usable; an error means that every
  attempt has failed; losers clean up after themselves; attempts are staggered;
  no goroutine stays blocked;
- session: counts add up, starts are paced, what goes past the deadline is accounted
  for, a signal takes effect after at most one more probe, the exit status is earned;
- exchange: the two sides understand each other, nothing but the exact answer
  counts, nobody waits for ever;
- server: it returns when told to or when a listener fails, leaves nothing
  open, and says truthfully why;
- Bedrock: errors are complete, time and pings are bounded, a sample belongs to
  its ping;
- preparation: only permitted addresses, each once, families in turn, and ports
  that agree;
- command line: it is understood as documented wherever the destination stands,
  its durations lie in the domain that the session assumes, and the exit status
  tells how far the program came;
- codec: the readers compute what the notation means, and what one side writes
  the other reads, to the byte;
- TCP relay: waking the other copy loses no answer, and `close` returns;
- UDP relay: an answer reaches the client that asked, or the exception is known;
  a target that comes up in time is found; `close` returns;
- harness: whatever fails, nothing is left behind, and things are undone in an
  order that is safe; waits are bounded; a signal stops the retries.

## 2. Modules

| Module | Models | Checked by | Proofs |
|---|---|---|---|
| `DialRace` | `dialCandidates`, `dialCandidateAfterDelay` | `MCDialRace` | `DialRaceProofs` |
| `Session` | what a text session promises (abstract) | through `TextSession` | through `TextSessionProofs` |
| `TextSession` | `runTextSession`, `sleep` | `MCTextSession` | `TextSessionProofs` |
| `StagingServer` | `Serve`, `waitForServeExit`, `serveListener`, `serveBedrockListener` | `MCStagingServer` | `StagingServerProofs` |
| `StatusExchange` | `pingJavaPreparedContext` after the dial, `protocol.go`, `handleConn`, `probeConn` | `MCStatusExchange` | `ExchangeProofs` |
| `BedrockProbe` | `pingBedrockCandidates`, `pingBedrockCandidate` | `MCBedrockProbe` | `BedrockProbeProofs` |
| `Prepare` | `prepareJavaProbe`, `prepareBedrockProbe`, candidate selection | `MCStartup`, `MCPrepare` | `PreparationProofs` |
| `CommandLine` | `scanArgv`, `normalizeCLIConfig`, `parseSecondsDuration`, `parseDestination`, `runWithRuntime` | `MCStartup`, `MCCommandLine` | `PreparationProofs` |
| `Codec` | the VarInt, string and packet readers and writers of both sides | `MCCodec` | `ExchangeProofs` |
| `TcpRelay` | `ipv6Relay`, `proxyConns`, `copyStream` | `MCTcpRelay` | `RelayProofs` |
| `UdpRelay` | `udpIPv6Relay`, with `waitForListener` and `ProbeBedrock` in front of it | `MCUdpRelay` | `RelayProofs` |
| `ReleaseHarness` | `runCLI`, `validateConfig`, `run`, both backends, `waitForListener`, `cleanupStack` | `MCReleaseHarness` | `ReleaseHarnessProofs` |

How state and actions correspond to the code:

**DialRace.** `n` is `len(candidates)`, fixed by `Init`. `caller` is the program
counter of `dialCandidates`; `pc[i]`, `conn[i]` and `due[i]` belong to the
goroutine of candidate i-1. `results` is the buffered channel. Every channel
operation, each case of the `select`, the dial and the look at `ctx.Err()` after
it are actions of their own, so all their interleavings occur. The race between
that look and the send (`CheckContext`, `Report`) is where a loser's connection
may end up, open, in a buffer that nobody reads again:
`OpenConnectionsAccounted` states that this is the only such place.

**TextSession.** Each reading of the clock is a separate step and `Tick` may come
between any two, also between the last one (`Clamp`, which cuts the timeout to the
time left) and the call of the probe (`Send`). Of the probe the module keeps its use
of time: setup, which nothing limits, then a socket whose deadline is one timeout
after the end of that setup (`Connected`). A Java probe has one socket; a Bedrock
probe may go on to another one, with a new deadline (`NextCandidate`, at most
`MaxSockets` in all). `sleep` returns at once for a duration of zero (`Pace`), which
is why a cancellation may be followed by one more probe. `sockets`, `delay` (the time
since `Clamp` that neither a socket's deadline nor the end of a sleep limits) and
`atCancel` are history variables.

**Session.** The promise without the loop: one probe at a time, none decided on once a
limit is reached (one that was decided on in time is sent, whatever the clock says by
then), at most one after a cancellation, an end for one of three reasons, and an
exit status that follows from the counts. `TextSession!ImplementsSession` maps the
loop to it. The only interesting part of the mapping is `grace`, the right to start
a probe: it is lost when a probe starts after the cancellation, that is when
`ctxDone` holds and `transmitted` is no longer `atCancel`.

**StagingServer.** `serve` is the program counter of `Serve`; `loop[l]` that of
each listener's loop; `closer[l]` the goroutine that closes the listener when the
context is done. A loop leaves silently when its socket was closed or the context
is done, and otherwise sends its error without blocking. Handlers are only
accepted and ended here; their content is `StatusExchange`.

**StatusExchange.** Packets are sequences of typed fields. `HandshakePacket`,
`StatusPacket` and the like are what the senders build; `IsHandshake`, `IsStatus`
and the like are the readers' checks, translated separately, as they are separate
code. `kind` says which client runs: the ping of `java.go` or the staging server's
own readiness probe, which builds and checks its packets with code of its own.
Framing, VarInt bytes and JSON text are reduced to "this field has this type
and value" and, for a frame that cannot be read, the empty packet. A side may be
replaced by a foreign program that sends any packet of `ForeignPackets`, among them a
handshake of another version and host: the server accepts it, so that on its side the
exact exchange is exact up to these two fields.

**BedrockProbe.** Probes follow one another as the session starts them. Datagrams
stay in `net`, so a pong may be read twice, late, or never. The kernel may reuse a
local port. The clock is finer than a ping's time (`Milli` ticks a millisecond,
`UnixMilli` cuts), and the session's interval may be shorter than a millisecond, as
the command line allows. A datagram carries its ping's serial number, when it was
built and its probe's start as history; the code sees none of them. `waited`, `serial`
and `atCancel` are history too. The wall clock, which `UnixMilli` reads, is assumed
not to be set back while a session runs.

**Prepare.** An address is a record of its form (IPv4, IPv4-mapped, IPv6), whether
a listed prefix holds it and whether it has a zone. `netip` operations are external
and modelled by their documented results: in particular `Prefix.Contains` is false
of a zoned address, and `Unmap` drops the zone of a mapped one. The two loops that choose candidates are steps: `SortAnswer` takes
one answer to its family (`next` is the loop's index, `primary` the family of the first
candidate), `interleaveDialCandidates` places the next of each family. Their result is
compared with an independent description (`CandidatesAlternate`), which speaks of
positions in the answer and not of loops.

**CommandLine.** A text is a record of what the parsers can tell about it (a number
as a fraction, a name, a host with a port, ...), an argument a record of its shape
and of the text it is when another option takes it for its value. Each case of the
scanner's loop is an action. What a command line means is stated without the scan:
`Roles` gives each argument its part (its own, the value of the one before, or an
operand) from its neighbour's, `WellFormed` and `Understood` say which lines have a
meaning, and the scan is compared with them. As in the code, an empty value of a short
option counts as not given (see the finding `empty_arguments`). Nanoseconds per
second, `MaxInt64` and the largest timeout are scaled, so that all the roundings and
limits of `parseSecondsDuration` are met by small fractions. Preparation and probes
appear only as succeeding or failing; `Prepare` and `TextSession` model them.

**Codec.** Bytes hold a digit smaller than `Continue` (0x80) and the continuation bit;
numbers are cut to `Modulus` (2^32), and `Weight[n]` is the shift by n digits. With
`MaxBytes` they are scaled so that, as in the code, the last byte has more bits than
are left. `Value` and `Meaning` say what a sequence of bytes means. The reader takes one byte per step, from a stream that
may end after any of them. The writers of client and server are separate
definitions, since the code computes them differently.

**TcpRelay.** A direction of copying is named by its source. `copyStream` reads,
writes and, when it ends, moves both connections' deadlines (`Expire`), which wakes
the other copy. Every read, write and deadline is an action, so that a copy may be
woken between any two. `refused` records that a write met a peer that had gone.

**UdpRelay.** The relay handles one datagram at a time, with a socket and a deadline
of its own; `waitForListener` with `ProbeBedrock` is the client. Ping n is that of
attempt n. Each attempt has a fresh socket (`client[n]` is its port), but the relay
answers to an address: an answer reaches the socket that has the port by then
(`Reaches`). Upstream ports are reused in the same way. Until `Settle` the target may refuse, lose or delay what it is sent;
after it, it answers before the clock moves. `expired` and `settledAt` are history.

**ReleaseHarness.** `pc` is the place in `run` and the functions it calls; `cleanup`
the registered undo functions. Every external program and file operation may fail.
A cancellation comes at any time, and a container command killed by it may still
have asked the daemon for a container (container state `"late"`). `blemish` records what an
external removal refused to remove or a killed command had asked for; the counter
`late` the probes of a listener begun after a cancellation.

Operators introduced by a comment "Faulty variant" are never used by a
specification. Each is a plausible bug of the definition below it, and shows that
a property notices it.

## 3. Runs

| Run | Distinct states | Shows |
|---|---|---|
| `dial_race` | 35,536 | 0 to 3 candidates, delay 2: results, connection ownership, staggering, termination of all goroutines |
| `text_session` | 1,253,472 | all combinations of count {0,2}, deadline {0,3}, interval {1,2}, timeout {1,4}, up to two sockets a probe: pacing, how far the deadline is passed, termination, and the abstract session is implemented |
| `staging_server` | 119,145 | two Java and one Bedrock listener, two connections: clean and truthful return, no lost error, termination |
| `status_exchange` | 19,534 | ping and readiness probe, two tokens, client timeout 1, server deadline 2: mutual success, failures of healthy peers only by time, exact exchanges, termination |
| `bedrock_probe` | 779,212 | two candidates, one reused port, timeout up to 2, intervals 1 and 3 with 2 ticks a millisecond, three pings: stale pongs, time and pings bounded, termination |
| `startup` | 810,526 | the two stages before the first probe, each with the other at rest (`stage`), since what the second needs of the first is a request and it starts from all of them. The command line: all lines of up to three arguments and some of four; the scan finds the meaning, configurations are in their domain, the exit status is truthful. The preparation: seven addresses, answers of up to four, all options, all SRV outcomes; policy, order, ports |
| `codec` | 125,570 | all packets within and just past the limits, cut short by up to three bytes or followed by more, and all strays of up to four bytes: meaning of numbers, round trip between both sides |
| `tcp_relay` | 8,213 | one connection, two chunks each way: answers reach the client, `close` returns |
| `udp_relay` | 1,043,106 | two client ports, one upstream port, four attempts, relay deadline longer than an attempt: stray answers, a settled target is found, `close` returns |
| `release_harness` | 31,731 | both backends, every step failing, a signal anywhere: nothing left behind, order of teardown, bounded waits, retries stop |
| `listed_prefixes` | violation expected | the documentation's list of rejected prefixes does not hold for zoned addresses |
| `empty_arguments` | violation expected | the documented rejection of empty arguments does not hold for an empty option value |

Why the bounds are enough:

- three candidates give a winner, a loser that passed the context check and a
  loser that is still waiting; a delay of 2 separates "due" from "about to be due";
- the deadline 3 is met from both sides with intervals 1 and 2; timeout 4 must be
  cut and timeout 1 need not be. `Horizon` stops the clock after the deadline, and
  `MaxProbes` bounds only sessions that nothing else bounds. Two sockets are the
  least with which a probe spends its timeout more than once;
- three listeners of both kinds allow two failures at once and a setup failure in
  each position; two connections allow one per Java listener or two on one;
- with client timeout 1 and server deadline 2 each side can be the one that times
  out, and `Horizon` lies past both. Three foreign packets fill a whole exchange
  from either side;
- three pings make a second probe possible after a first one that used one ping,
  which is the case of a stale pong. With two ticks a millisecond the interval 1 is
  shorter than a millisecond and 3 is longer. The exception in
  `StalePongNeedsLatePing` is reached with both: by a prompt ping under the first, by
  a late one under the second;
- four answers hold two addresses of each family, a duplicate in mapped form, a
  listed and a zoned address in any order;
- three arguments hold an option, the value it takes and a destination, or an
  option whose value looks like one of these; the lines of four add a second option
  or a second value. The numbers include fractions of a scaled nanosecond, the
  limits, and one past each;
- with 2 bits a byte (`Continue` 4) and width 5 (`Modulus` 32) the third byte has one bit of room for its two;
  strays of four bytes hold a number that is too long. Texts go up to one byte past
  `MaxString`, ids over the whole width;
- the relay's connections share no state but the wait group, so one connection with
  two chunks each way (one in flight, one written) meets every case of its copies;
- with a single upstream port every upstream socket reuses it, which is what a late
  answer needs; with two client ports a later attempt has the port of an earlier one or
  has not, and both exceptions of `StrayAnswerNeedsReuse` are reached, each without the
  other. The relay's deadline is longer than one attempt, as in the code, and four
  attempts let a lost ping hold up the next ones and the prober still recover. The
  bound of `SettledTargetIsFound` is tight: with one attempt less it is violated;
- a readiness timeout of 3 allows several attempts at a listener with probes of up to 2
  and pauses of 1, and `WaitIsBounded` is met at its last value. The options are two
  complete configurations, all that differ in one field, and archives of two
  entries.

Deadlock checking is off in all runs because every modelled activity ends: a probe
session, an exchange or a server that has returned takes no more steps. That they
do not stop earlier is what the liveness properties say.

### Fairness

All fairness is weak, on steps the program or the machine takes by itself: the Go
scheduler runs runnable goroutines and time passes. A dial, and a probe seen from
the session, is assumed to end, which the operating system's connect timeout and
the socket deadlines give. Nothing is assumed of peers, the network or signals: no
packet, connection, error or cancellation ever has to come. In `StagingServer` a
handler ends because `handleConn` sets a deadline first; `StatusExchange` shows
that step (`BothSidesEnd`). `TcpRelay` relies on the same fact: of its peers only the
staging server is assumed to close, by its handler's deadline, and never the client.
`UdpRelay` asks of the target only what being settled means. `startup`, `codec` and
`release_harness` check safety only.

### Findings

`listed_prefixes` (documentation and code disagree): `docs/LIMITATIONS.md:64` lists
IPv6 prefixes "the program rejects" by default, among them `fe80::/10`. The filter
uses `netip.Prefix.Contains`, which is false of an address with a zone, so such an
address passes without `--allow-private`. `CandidatesFollowPolicy` states what the
filter does guarantee.

`empty_arguments` (documentation and code disagree): `docs/FUNCTIONS.md:82` says that
`scanArgv` "rejects unknown options and empty arguments". It looks only at the
arguments that stand for themselves; `consumeShortFlags` takes the next one for the
value of `-c`, `-i`, `-w` or `-W` unseen, and `normalizeCLIConfig` treats an empty
value as an option that was not given. A line such as `-c "" host` runs, without a
count. `ScanFindsTheMeaning` describes the code's reading.

### Observations

Smaller things that came up while modelling and that no run is spent on:

- A session may end well after its deadline: by connection setup, by one timeout for
  every Bedrock candidate after the first, and, since the sleep between probes is not
  cut to the deadline, by up to one interval (`OverrunIsAccountedFor`).
- `docs/LIMITATIONS.md:156` says that the harness "waits at most 2 minutes" for a
  listener. The deadline is looked at between probes only; `WaitIsBounded` states
  the overshoot (one probe, which for TCP may take its timeout twice, and a pause).
- With an interval of a millisecond or less, a duplicated or late pong of the ping
  before counts for the next one if both share a millisecond
  (`StalePongNeedsLatePing`).
- `docs/LIMITATIONS.md:162` gives the image load 2 minutes; `loadImage`
  (`main.go:455-480`) sets no timeout.
- After a cancellation each remaining wait still begins with a probe
  (`CancelStopsRetries` bounds it to one per listener).
- The container is removed under a context without a timeout, and a killed
  `docker run` may leave a container that appears after the removal.
- A probe timeout below half a millisecond is formatted as "0" for the binary under
  test (`main.go:596-600`), which refuses it.
- The UDP relay may hand a client the answer to an earlier ping: when the client's
  socket has got the port of an earlier attempt that gave up before the relay did, and
  behind a forwarding that timed out, where it may repeat down a chain of reused
  upstream ports (`StrayAnswerNeedsReuse`). The prober takes such an answer for a
  failed attempt.
- The readiness probe accepts any valid JSON as status, the ping only an object
  (`HealthyFailsOnlyByTime`).

## 4. Proofs

TLAPS checks every theorem from the named assumptions on the constants alone; no
bound of the runs is used. Every invariant of a passing run, every action property and
the refinement is a theorem.

Two of the modules need facts about recursive functions and about sequences of any
length. The library's induction theorems cannot be instantiated by the provers used
here, so these proofs argue with a least counterexample: `LeastNumber`, from the
well-foundedness of the numbers (`WFMin`), gives every non-empty set of numbers a
least member, and the fact is proved by showing that the set of its counterexamples
has none. The same argument shows first that the equation of a recursive function has
a solution, so that the function satisfies it (`RolesDef`, `RecursionSolved`,
`ClientEquation`).

- `DialRaceProofs` (from `DelayAssumption`, `MaxCandidatesAssumption`): no
  property is inductive alone. `Phases` ties the caller's place to the goroutines
  that exist; `Counting` says that results buffered plus results received are the
  attempts that have reported; `Connections` says what an attempt's place and the
  buffer's contents imply for its connection. With them an error return means that
  all attempts were received as failures (`ErrorCorrect`), the returned connection is
  open (`ReturnCorrect`), and a sender always finds room (`ChannelSufficient`). `Staggered` uses an invariant of its own, that a
  timer is not due before its delay has passed since the call; `LateLosersClosed`
  is a stability argument about one attempt.
- `TextSessionProofs` (from `ConfigsAssumption`): to `TypeOK`, `Accounting` and `StopsForAReason` the invariant
  adds `ProbesLeft` (past the stop checks the count is not used up),
  `CancelBudget` (from which step on there may be one probe more than at the
  cancellation), `ExitAtReturn`, and `Pacing` (a sleep ends one interval after the
  probe's start, and so does an iteration that does not sleep).
  For `OverrunCorrect`, `Overrun` says in addition that what a socket's deadline or the
  end of a sleep still allows is within the bound already: a socket opened after setup
  has its timeout paid for by the count of sockets, and a sleep ends one interval after
  a probe start that lay before the deadline.
  `RefinesSession` proves that the loop implements `Session`: `PromiseInit` maps the
  initial states, `PromiseDecide`, `PromiseSend` and `PromiseFinish` the three steps that
  need the invariant (a probe is decided on only within the limits and sent within the
  grace; the status at the return is the one the counts give), `PromiseStep` every other
  step. `Accounting`,
  `OneProbeAfterCancel`, `StopsForAReason` and `ExitZeroIsEarned` are theorems of
  their own and have no run: what they say, the refinement checks too.
- `StagingServerProofs` (from `ListenerAssumption`, `OrderAssumption`): `Phases`
  says which sockets and loops exist at each step of `Serve`, `Owned` that an open
  connection belongs to a Java loop that has not ended. `ReturnIsHonest` is
  inductive together with them. `ErrorsKept` is a pigeonhole argument: `Reported`
  says that the errors in the channel come from different listeners and that a loop
  which has reported is over, so a loop about to report finds fewer errors than
  listeners (`CountUpTo`, `ListenerCount` and `RoomForOne` count them).
- `ExchangeProofs`, about `StatusExchange` (from `TimeAssumption`, `ForeignAssumption`):
  two arguments in one invariant. Against any peer, `ClientTrack` and `ServerTrack` say what a side has read
  when it has come so far; at the last step this is the exact conversation
  (`ExactExchange`), since each reader accepts one packet only, or for the
  handshake one form (`Recognised` and
  `Accepted`, by cases over all the packets a peer can send). Between the repository's
  own sides, `Conversation` says for each step of the client where the server is and
  what is under way (`Talk`), or that the server has been driven away by its deadline
  (`LeftAlone`). No reader then meets a packet it refuses (`HealthyExchange`), and a
  client that is done has left a server that is done (`MutualSuccess`).
- `ExchangeProofs`, about `Codec` (from `BytesAssumption`, `LimitAssumption`,
  `JobsAssumption`), for any base and width. The two writers agree on every number
  (`SameDigits`) and need at most `MaxBytes` bytes (`Digits`). On any stream, `Scans`
  says that the reader's `result` is the value of the bytes read so far, cut to the
  width, and that all of them continue; `ScanStep` adds one byte (cutting before or after
  the addition is the same, `SumRemainder`), and at the end this is `NumbersHold`. On
  what was sent, `Reading` says phase by phase what the reader has of the packet; within
  a number, `Left` says that there is a rest r whose digits come next in the stream, with
  number = `result` + `Weight[numRead]` * r, and `DigitStep` takes the first digit off r.
  `PayloadBytes`, `FrameBytes` and `StreamBytes` say where each part is, in the packet,
  in the frame and in what arrives of it (`RoundTrip`).
- `BedrockProbeProofs` (from `CandidateAssumption`, `PortAssumption`, `TimeAssumption`,
  `PingAssumption`): `Origin` says of every datagram, wherever it is, that it stems
  from an earlier probe, an earlier candidate of this one, or the last ping, and `Stamps`
  that its time is the millisecond its ping was built in. A sample with the expected time
  that is not from the own ping is then from an earlier probe, which started an interval
  before, so that its ping was built less than a millisecond short of an interval after
  that start (`SampleOrigin`).
  `Reading` adds up what was read and what the deadline leaves (`SocketTime`);
  `Budget` allows a ping after a cancellation only to a candidate that had passed the
  check (`OnePing`).
- `PreparationProofs`, about `CommandLine` (from `ArgsAssumption`, `ScaleAssumption`): the
  invariant says what the scan knows of the arguments behind its index:
  `BehindIsWellFormed`, `BehindHasDestination` (no operand, or one, which is the
  destination), `BehindGivesOptions` (the last value given for each option), and
  `ScanPosition` (the index stands at an argument with a part of its own until help has
  been asked for). When the index is past the end this is the meaning of the line
  (`ScanIsRight`). `PhaseOrder` and the conversions' bounds give `ConfigInDomain` and
  `ExitTellsThePhase`.
- `PreparationProofs`, about `Prepare` (from `AddressAssumption`, `NameAssumption`,
  `PortAssumption`): `AllFit` says that a candidate has passed the filter and has its
  port wherever it is kept (`PolicyHolds`), `RouteAgrees` which ports the route may have
  (`PortsHold`). For `AlternationHolds`, `Sorted` says that the families' lists hold the
  usable answers so far, each once and in the order of their first places, and
  `Ordered` where the candidates of the first t turns stand (`Placed`): the k-th of one
  family is behind k of the other, or behind all of them when they are fewer. From these
  places the order of any two candidates follows.
- `RelayProofs`, about `TcpRelay` (from `ChunkAssumption`): `Counted` ties chunks sent, read and
  written to the place of the copy, `EndedByTarget` says that as long as the client is
  there and nothing was refused, the first copy that ends is the target's, behind all
  its data. The other copy may be cut off anywhere: what it loses is not the answer
  (`AnswersReach`).
- `RelayProofs`, about `UdpRelay` (from `PortAssumption`, `TimeAssumption`): for `StrayAnswers`, `Queued` keeps the
  pings in order and `Wires` says that a ping has at most one datagram under way and
  that one the relay does not await is behind a lost one; a shifted answer passes this
  on to the next, and an awaited one reaches another attempt only by its port. For `TargetFound`, `Quiet` says that after the target has settled
  only the awaited datagram is under way and the clock stands still until it is
  answered, so that the relay can be stuck only on a ping lost before. `Timely` compares
  times: while the relay is stuck, the attempts made since, plus what is left of its
  deadline, fit into that deadline; when it is freed the attempt under way may still be
  missed (its ping may have met a full buffer, or its socket an earlier attempt's answer,
  `Missed`), but the next one meets an idle relay
  and is answered. This holds for every buffer size.
- `ReleaseHarnessProofs` (from `OptionsAssumption`, `TimesAssumption`): `Covered` says
  that whatever exists has its removal on the stack, or is known to be left (`blemish`);
  `Stages` how far the stack has grown at each place, and `Ordered` that its ranks
  increase, which also gives the order of the teardown (`TornDown`). `Waits` bounds the
  time of a wait at each place of the loop (`WaitBounded`, `RetriesStop`).

Each inductive invariant was an invariant of a TLC run before it was proved.

Only model-checked, and why:

- all liveness properties (`RaceEnds`, `SessionReturns`, `ServeEnds`, `BothSidesEnd`,
  `ProbeEnds`, `RelayCloses`, `CloseIsBounded`): fairness and ENABLED are outside the
  prover;
- `ListedPrefixesRejected` and `EmptyArgumentsRejected`, which the code does not satisfy (see the findings).

## 5. Not modelled, and the plan

Not modelled:

- formatting and printing of results, help, banners and JSON: no state follows from
  them;
- round-trip statistics (`mean`, `mdev`): Welford's method in floating point, which
  TLA+ cannot express;
- DNS and the operating system's sockets beyond what the code observes of them;
- archive formats, file reading limits and the exact arguments of external commands:
  they appear as outcomes in `ReleaseHarness`;
- the program entry and the version metadata, which keep no state, and the build and
  release scripts.

DNS and connection setup are not bounded by the probe timeout, so that no bound on a
whole probe can be stated; `TextSession` lets setup take any time and counts it.

Further work, in order:

1. an abstract probe (started, answered or failed, nothing held afterwards) that
   `BedrockProbe`, and `DialRace` with `StatusExchange`, implement, with the proofs in
   the modules that hold their invariants;
2. an abstract server (open, told to stop or failed, closed) for `StagingServer`, and
   the relays' `close` as an action property.
