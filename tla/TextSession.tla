----------------------------- MODULE TextSession -----------------------------
(***************************************************************************)
(* runTextSession of session.go: the loop that sends one probe after       *)
(* another until a count, a deadline or a cancelled context stops it, and  *)
(* turns what it counted into the exit status.                             *)
(*                                                                         *)
(* The clock moves between any two steps.  Every call of rt.now that the   *)
(* control depends on is a step of its own, so that time may pass between  *)
(* the deadline check, the reading of probeStart, the computation of the   *)
(* remaining time and the call of the probe.  Of the probe this module     *)
(* keeps its use of time: setup, which nothing limits, and then a socket   *)
(* whose deadline is one timeout after the end of that setup.  A Java      *)
(* probe opens one such socket, a Bedrock probe one for each candidate it  *)
(* has to try.  Whether it returns a sample or an error is left open here. *)
(***************************************************************************)
EXTENDS Integers, FiniteSets

CONSTANTS
    Configs,     \* the configurations normalizeCLIConfig can produce
    Addresses,   \* the remote addresses a sample can carry
    NoAddress,   \* the zero netip.AddrPort, which is not valid
    Horizon,     \* bound: after this time the clock moves only to end a sleep
    MaxProbes,   \* bound: probes of a session that has neither count nor deadline
    MaxSockets   \* sockets a probe opens at most: 1 for Java, one per candidate for Bedrock

\* normalizeCLIConfig (cli.go:344-371): count and deadline are unset (0) or
\* positive; parseSecondsDuration accepts only positive durations.
ASSUME ConfigsAssumption ==
    Configs \subseteq [count : Nat, deadline : Nat, interval : Nat \ {0},
                       timeout : Nat \ {0}]
ASSUME AddressAssumption == NoAddress \notin Addresses
ASSUME BoundsAssumption == Horizon \in Nat /\ MaxProbes \in Nat
ASSUME SocketsAssumption == MaxSockets \in Nat \ {0}

VARIABLES
    cfg,          \* the session's configuration
    pc,           \* where the loop is
    now,          \* the clock, 0 at the start of the session
    ctxDone,      \* the session's context is done
    transmitted,  \* stats.transmitted
    received,     \* stats.received
    seq,          \* the number the next reply line carries
    probeStart,   \* the clock when the current or last probe started
    timeout,      \* the timeout handed to the current or last probe
    wakeAt,       \* when the current or last sleep ends
    ioDeadline,   \* the deadline of the probe's current or last socket
    sockets,      \* history: sockets the current or last probe has opened
    delay,        \* history: time since the timeout was computed that neither
                  \* a socket's deadline nor the end of a sleep limits
    display,      \* displayTarget of the prepared probe
    exit,         \* the exit status, -1 until the session returns
    atCancel      \* history: stats.transmitted when the context became done

vars == <<cfg, pc, now, ctxDone, transmitted, received, seq, probeStart,
          timeout, wakeAt, ioDeadline, sockets, delay, display, exit, atCancel>>

stats == <<transmitted, received, seq, display>>
timing == <<probeStart, timeout, wakeAt>>
io == <<ioDeadline, sockets, delay>>

Running == -1

\* The inside of probe.probe.
Probing == {"setup", "io"}

Steps == {"top", "start", "clamp", "send", "after", "pace", "sleep",
          "summary", "returned"} \cup Probing

TypeOK ==
    /\ cfg \in Configs
    /\ pc \in Steps
    /\ now \in Nat
    /\ ctxDone \in BOOLEAN
    /\ transmitted \in Nat
    /\ received \in Nat
    /\ seq \in Nat
    /\ probeStart \in Nat
    /\ timeout \in Nat
    /\ wakeAt \in Nat
    /\ ioDeadline \in Nat
    /\ sockets \in Nat
    /\ delay \in Nat
    /\ display \in Addresses \cup {NoAddress}
    /\ exit \in {Running, 0, 1}
    /\ atCancel \in Nat

-----------------------------------------------------------------------------
(* What the code compares *)

HasCount == cfg.count > 0
HasDeadline == cfg.deadline > 0

\* deadlineAt = sessionStart.Add(cfg.Deadline), with the session starting at 0.
DeadlineAt == cfg.deadline

CountReached == HasCount /\ transmitted >= cfg.count
DeadlinePassed == HasDeadline /\ ~ (now < DeadlineAt)

\* The rules at the end of runTextSession.
ExitCode ==
    IF \/ HasCount /\ HasDeadline /\ received < cfg.count
       \/ received = 0
    THEN 1 ELSE 0

-----------------------------------------------------------------------------

Init ==
    /\ cfg \in Configs
    /\ pc = "top"
    /\ now = 0
    /\ ctxDone \in BOOLEAN
    /\ transmitted = 0 /\ received = 0
    /\ seq = 1
    /\ probeStart = 0 /\ timeout = 0 /\ wakeAt = 0
    /\ ioDeadline = 0 /\ sockets = 0 /\ delay = 0
    /\ display \in Addresses \cup {NoAddress}
    /\ exit = Running
    /\ atCancel = 0

\* The checks at the top of the loop.  The context is not one of them.
LoopTop ==
    /\ pc = "top"
    /\ pc' = IF CountReached \/ DeadlinePassed THEN "summary" ELSE "start"
    /\ UNCHANGED <<cfg, now, ctxDone, exit, atCancel, stats, timing, io>>

ReadStart ==
    /\ pc = "start"
    /\ probeStart' = now
    /\ pc' = "clamp"
    /\ UNCHANGED <<cfg, now, ctxDone, exit, atCancel, stats, timeout, wakeAt, io>>

\* remaining <= 0 leaves the loop without a probe.
ClampExpired ==
    /\ pc = "clamp"
    /\ DeadlinePassed
    /\ pc' = "summary"
    /\ UNCHANGED <<cfg, now, ctxDone, exit, atCancel, stats, timing, io>>

\* Faulty variant: the remaining time is measured from the earlier reading.
ClampStale ==
    /\ pc = "clamp"
    /\ ~ DeadlinePassed
    /\ ~ HasCount /\ ~ HasDeadline /\ ~ ctxDone => transmitted < MaxProbes
    /\ timeout' = IF HasDeadline /\ DeadlineAt - probeStart < cfg.timeout
                  THEN DeadlineAt - probeStart
                  ELSE cfg.timeout
    /\ sockets' = 0 /\ delay' = 0
    /\ pc' = "send"
    /\ UNCHANGED <<cfg, now, ctxDone, exit, atCancel, stats, probeStart, wakeAt,
                   ioDeadline>>

\* The timeout is cut to the remaining time.
Clamp ==
    /\ pc = "clamp"
    /\ ~ DeadlinePassed
    /\ ~ HasCount /\ ~ HasDeadline /\ ~ ctxDone => transmitted < MaxProbes
    /\ timeout' = IF HasDeadline /\ DeadlineAt - now < cfg.timeout
                  THEN DeadlineAt - now
                  ELSE cfg.timeout
    /\ sockets' = 0 /\ delay' = 0
    /\ pc' = "send"
    /\ UNCHANGED <<cfg, now, ctxDone, exit, atCancel, stats, probeStart, wakeAt,
                   ioDeadline>>

\* The probe is counted and called, however late it has become by now.
Send ==
    /\ pc = "send"
    /\ transmitted' = transmitted + 1
    /\ pc' = "setup"
    /\ UNCHANGED <<cfg, now, ctxDone, exit, atCancel, received, seq, display,
                   timing, io>>

-----------------------------------------------------------------------------
(* The probe, as far as its time goes *)

\* A connection is set up: its deadline is now + timeout, whatever came before.
Connected ==
    /\ pc = "setup" /\ sockets < MaxSockets
    /\ ioDeadline' = now + timeout
    /\ sockets' = sockets + 1
    /\ pc' = "io"
    /\ UNCHANGED <<cfg, now, ctxDone, exit, atCancel, stats, timing, delay>>

\* The socket fails and the probe has another candidate.
NextCandidate ==
    /\ pc = "io" /\ sockets < MaxSockets
    /\ pc' = "setup"
    /\ UNCHANGED <<cfg, now, ctxDone, exit, atCancel, stats, timing, io>>

\* probe.probe returns a sample: observeSample keeps its address when it is valid.
ProbeReplies ==
    /\ pc = "io"
    /\ \E remote \in Addresses \cup {NoAddress} :
          display' = IF remote \in Addresses THEN remote ELSE display
    /\ received' = received + 1
    /\ seq' = seq + 1
    /\ pc' = "after"
    /\ UNCHANGED <<cfg, now, ctxDone, exit, atCancel, transmitted, timing, io>>

\* probe.probe returns an error; nothing is printed.
ProbeFails ==
    /\ pc \in Probing
    /\ seq' = seq + 1
    /\ pc' = "after"
    /\ UNCHANGED <<cfg, now, ctxDone, exit, atCancel, transmitted, received,
                   display, timing, io>>

-----------------------------------------------------------------------------
(* The rest of an iteration *)

\* Faulty variant: the context is not looked at.
AfterProbeUnaware ==
    /\ pc = "after"
    /\ pc' = IF CountReached \/ DeadlinePassed THEN "summary" ELSE "pace"
    /\ UNCHANGED <<cfg, now, ctxDone, exit, atCancel, stats, timing, io>>

\* The checks after the probe: context, count, deadline.
AfterProbe ==
    /\ pc = "after"
    /\ pc' = IF ctxDone \/ CountReached \/ DeadlinePassed
             THEN "summary" ELSE "pace"
    /\ UNCHANGED <<cfg, now, ctxDone, exit, atCancel, stats, timing, io>>

\* Faulty variant: probes follow a fixed schedule and catch up after a slow one.
PaceBySchedule ==
    /\ pc = "pace"
    /\ LET sleepFor == transmitted * cfg.interval - now IN
          IF sleepFor > 0
          THEN wakeAt' = now + sleepFor /\ pc' = "sleep"
          ELSE UNCHANGED wakeAt /\ pc' = "top"
    /\ UNCHANGED <<cfg, now, ctxDone, exit, atCancel, stats, probeStart, timeout, io>>

\* sleepFor = max(Interval - elapsed, 0).  sleep returns at once for a duration
\* that is not positive, without a look at the context.
Pace ==
    /\ pc = "pace"
    /\ LET sleepFor == cfg.interval - (now - probeStart) IN
          IF sleepFor > 0
          THEN wakeAt' = now + sleepFor /\ pc' = "sleep"
          ELSE UNCHANGED wakeAt /\ pc' = "top"
    /\ UNCHANGED <<cfg, now, ctxDone, exit, atCancel, stats, probeStart, timeout, io>>

\* Faulty variant: both cases awaited, one after the other.
SleepNeedsBoth ==
    /\ pc = "sleep" /\ wakeAt <= now /\ ctxDone
    /\ pc' = "top"
    /\ UNCHANGED <<cfg, now, ctxDone, exit, atCancel, stats, timing, io>>

\* The two cases of the select in sleep; both may be ready.
SleepEnds ==
    /\ pc = "sleep" /\ wakeAt <= now
    /\ pc' = "top"
    /\ UNCHANGED <<cfg, now, ctxDone, exit, atCancel, stats, timing, io>>

SleepCancelled ==
    /\ pc = "sleep" /\ ctxDone
    /\ pc' = "summary"
    /\ UNCHANGED <<cfg, now, ctxDone, exit, atCancel, stats, timing, io>>

\* The summary is printed and the exit status returned.
Summary ==
    /\ pc = "summary"
    /\ pc' = "returned"
    /\ exit' = ExitCode
    /\ UNCHANGED <<cfg, now, ctxDone, atCancel, stats, timing, io>>

Loop ==
    \/ LoopTop \/ ReadStart \/ ClampExpired \/ Clamp \/ Send
    \/ Connected \/ NextCandidate \/ ProbeReplies \/ ProbeFails
    \/ AfterProbe \/ Pace \/ SleepEnds \/ SleepCancelled \/ Summary

-----------------------------------------------------------------------------
(* The environment *)

\* SIGINT or SIGTERM: signal.NotifyContext cancels the context.
Cancel ==
    /\ pc # "returned" /\ ~ ctxDone
    /\ ctxDone' = TRUE
    /\ atCancel' = transmitted
    /\ UNCHANGED <<cfg, pc, now, exit, stats, timing, io>>

\* A wait that has an end: a socket before its deadline, a sleep before its.
Limited ==
    \/ pc = "io" /\ now < ioDeadline
    \/ pc = "sleep" /\ now < wakeAt

Tick ==
    /\ pc # "returned"
    /\ now < Horizon \/ (pc = "sleep" /\ now < wakeAt)
    /\ now' = now + 1
    /\ delay' = IF Limited THEN delay ELSE delay + 1
    /\ UNCHANGED <<cfg, pc, ctxDone, exit, atCancel, stats, timing, ioDeadline,
                   sockets>>

Next == Loop \/ Cancel \/ Tick

Spec == Init /\ [][Next]_vars

\* The loop runs, every probe returns (socket deadlines and the operating
\* system's connect timeout bound it), and time passes while the loop sleeps.
Fairness ==
    /\ WF_vars(Loop)
    /\ WF_vars(Tick)

FairSpec == Spec /\ Fairness

-----------------------------------------------------------------------------
(* The promise *)

Promise == INSTANCE Session WITH
    clock     <- now,
    cancelled <- ctxDone,
    grace     <- (ctxDone => transmitted = atCancel),
    sent      <- transmitted,
    answered  <- received,
    due       <- (pc = "send"),
    open      <- (pc \in Probing),
    status    <- exit

\* Every step of the loop is a step the abstract session allows, or none: the
\* clock readings, the four checks and the sleep between them never add a probe
\* past a limit or a second one after a cancellation, never end the session
\* without a reason, and leave the exit status the counts call for
\* (session.go:105-211).
ImplementsSession == Promise!Spec

-----------------------------------------------------------------------------
(* Properties *)

\* The longest the sockets of a probe can have waited.
SocketTime == sockets * timeout

\* Probe numbers, replies and limits agree: a reply line carries the number of
\* the probe it answers, no probe is counted twice, and the count is never
\* exceeded (session.go:121-160).
Accounting ==
    /\ received <= transmitted
    /\ pc \in Probing => seq = transmitted /\ received < transmitted
    /\ pc \notin Probing => seq = transmitted + 1
    /\ HasCount => transmitted <= cfg.count

\* A cancelled session sends at most one more probe, whatever the interval and
\* however slow the probes are (session.go:45-47, 162-164).
OneProbeAfterCancel ==
    ctxDone => transmitted <= atCancel + 1

\* The session stops for one of the reasons the documentation lists and for no
\* other, so a session without a limit runs until it is cancelled
\* (session.go:123-139, 162-175).
StopsForAReason ==
    pc \in {"summary", "returned"} =>
        \/ ctxDone
        \/ HasCount /\ transmitted = cfg.count
        \/ HasDeadline /\ now >= DeadlineAt

\* Status 0 with both limits set means that every probe of the full count was
\* sent and answered; with at most one limit it means some reply
\* (session.go:204-210).
ExitZeroIsEarned ==
    exit = 0 =>
        /\ received > 0
        /\ HasCount /\ HasDeadline =>
              received = cfg.count /\ transmitted = cfg.count

\* Consecutive probes start at least one interval apart, whether the previous
\* one was faster or slower than that (session.go:130, 172-175).
StartsArePaced ==
    [][pc = "start" /\ pc' = "clamp" /\ transmitted > 0 =>
           probeStart' - probeStart >= cfg.interval]_vars

\* How far past its deadline a session can be.  The last clock reading decides
\* whether there is a probe and how long its sockets may wait; that probe goes
\* past the deadline by the time nothing limits (the call itself, connection
\* setup, a late wake-up) and by one timeout for every socket after the first,
\* and by nothing else.  A session whose probe is over goes past it by that or,
\* because a sleep is not cut to the deadline, by one interval
\* (session.go:126-143, 166-175, java.go:125-131, bedrock.go:140-173).
OverrunIsAccountedFor ==
    HasDeadline =>
        /\ pc \in Probing \cup {"send", "after", "pace"} =>
              now + timeout <= DeadlineAt + delay + SocketTime
        /\ \/ now + timeout <= DeadlineAt + delay + SocketTime
           \/ now <= DeadlineAt + delay + cfg.interval

\* A session with a count or a deadline returns, and so does one that is
\* cancelled, whether it is asleep or not (session.go:52-57, 122-176).
SessionReturns ==
    HasCount \/ HasDeadline \/ ctxDone ~> pc = "returned"

=============================================================================
