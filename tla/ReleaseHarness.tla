--------------------------- MODULE ReleaseHarness ---------------------------
(***************************************************************************)
(* The release integration harness, cmd/release-integration: runCLI, run,  *)
(* startBackend, waitForListener and the cleanup that undoes them.         *)
(*                                                                         *)
(* Every external program (the binary under test, the staging server, the  *)
(* container CLI) and every file system call may fail at any time.  The    *)
(* container daemon outlives its CLI: a run command that the cancelled     *)
(* context kills may leave a container that starts later.  The relays are  *)
(* here only open or closed; TcpRelay and UdpRelay model them.             *)
(***************************************************************************)
EXTENDS Integers, Sequences

CONSTANTS
    Options,        \* command lines, after flag.Parse
    ReadyTimeout,   \* listenerReadyTimeout
    ProbeTimeout,   \* listenerProbeTimeout
    RetryInterval   \* listenerRetryInterval

\* The listeners, in the order in which they are awaited and then probed.
Listeners == <<"java4", "java6", "bedrock4", "bedrock6">>

ASSUME OptionsAssumption ==
    Options \subseteq
        [binary : BOOLEAN, glob : {"none", "blank", "given"}, name : BOOLEAN,
         positive : BOOLEAN, ports : Seq(Int), backend : {"binary", "container", "other"},
         named : BOOLEAN, version : BOOLEAN, image : BOOLEAN,
         matches : Nat, format : {"zip", "tar.gz", "other"},
         entries : Seq([match : BOOLEAN, size : {"empty", "fits", "huge"}])]
ASSUME TimesAssumption ==
    {ReadyTimeout, ProbeTimeout, RetryInterval} \subseteq Nat \ {0}

VARIABLES
    opts,       \* the options
    pc,         \* where run is
    listener,   \* which of the Listeners is awaited or probed
    waited,     \* time since the wait for it began
    cleanup,    \* the registered cleanups, oldest first
    failed,     \* run returns an error
    exit,       \* -1 until the harness exits
    ctxDone,    \* a signal has cancelled the context
    tempDir,    \* the directory of the extracted binary exists
    process,    \* the staging server: "none", "up", "dead", "reaped"
    container,  \* "none", "old", "created", "up", "late": about to appear
    relays,     \* the open relays
    blemish,    \* history: a removal failed, or the CLI was killed in a run
    late        \* history: probes of this listener begun after a cancellation

vars == <<opts, pc, listener, waited, cleanup, failed, exit, ctxDone, tempDir,
          process, container, relays, blemish, late>>

waiting == <<listener, waited, late>>
world   == <<tempDir, process, container, relays, blemish>>
started == <<opts, exit, ctxDone>>

Running == -1

Places == {"validate", "archive", "version", "start", "load", "remove", "run", "relay",
           "udp relay", "head", "probing", "pause", "no pause", "probe", "unwind", "returned"}

\* What run makes and the cleanup takes away again.
Things == {"temp", "process", "container", "tcp", "udp"}

TypeOK ==
    /\ opts \in Options
    /\ pc \in Places
    /\ listener \in 1 .. Len(Listeners)
    /\ waited \in Nat
    /\ cleanup \in Seq(Things)
    /\ failed \in BOOLEAN /\ exit \in {Running, 0, 1, 2} /\ ctxDone \in BOOLEAN
    /\ tempDir \in BOOLEAN
    /\ process \in {"none", "up", "dead", "reaped"}
    /\ container \in {"none", "old", "created", "up", "late"}
    /\ relays \subseteq {"tcp", "udp"}
    /\ blemish \subseteq {"temp", "container"}
    /\ late \in Nat

\* A container of that name may be left from an earlier run.
Init ==
    /\ opts \in Options
    /\ pc = "validate"
    /\ listener = 1 /\ waited = 0 /\ late = 0
    /\ cleanup = <<>> /\ failed = FALSE /\ exit = Running
    /\ ctxDone = FALSE
    /\ tempDir = FALSE /\ process = "none" /\ relays = {}
    /\ container \in {"none", "old"}
    /\ blemish = {}

-----------------------------------------------------------------------------
(* validateConfig and the archive *)

ValidPort(port) == 1 <= port /\ port <= 65535

\* A blank glob counts as none here; named is -server-binary, or both of
\* -container-cli and -container-name.
Valid ==
    /\ IF opts.binary THEN opts.glob # "given" /\ ~ opts.name
                      ELSE opts.glob = "given" /\ opts.name
    /\ opts.positive
    /\ \A i \in DOMAIN opts.ports : ValidPort(opts.ports[i])
    /\ opts.backend # "other" /\ opts.named

Validate ==
    /\ pc = "validate"
    /\ IF Valid THEN pc' = "archive" /\ UNCHANGED exit ELSE pc' = "returned" /\ exit' = 2
    /\ UNCHANGED <<opts, ctxDone, waiting, cleanup, failed, world>>

\* The first entry of that name decides; its size must be positive and within
\* maxExtractedBinarySize.
Extractable ==
    /\ opts.format # "other"
    /\ \E i \in DOMAIN opts.entries :
          /\ opts.entries[i].match /\ opts.entries[i].size = "fits"
          /\ \A j \in 1 .. i - 1 : ~ opts.entries[j].match

\* run compares the glob with "", so a blank one is looked up after all.
NoArchive ==
    /\ pc = "archive" /\ opts.glob = "none"
    /\ pc' = "version"
    /\ UNCHANGED <<started, waiting, cleanup, failed, world>>

ExtractArchive ==
    /\ pc = "archive" /\ opts.glob = "given"
    /\ opts.matches = 1 /\ Extractable
    /\ tempDir' = TRUE
    /\ cleanup' = Append(cleanup, "temp")
    /\ pc' = "version"
    /\ UNCHANGED <<started, waiting, failed, process, container, relays, blemish>>

\* No single match, an archive name without a version, or a failed extraction,
\* which removes its directory itself.  The cleanup is not deferred yet.
ArchiveFails ==
    /\ pc = "archive" /\ opts.glob # "none"
    /\ pc' = "returned" /\ failed' = TRUE /\ exit' = 1
    /\ \E stuck \in SUBSET (IF opts.matches = 1 THEN {"temp"} ELSE {}) :
          tempDir' = (stuck # {}) /\ blemish' = blemish \cup stuck
    /\ UNCHANGED <<opts, ctxDone, waiting, cleanup, process, container, relays>>

-----------------------------------------------------------------------------
(* assertVersion and startBackend *)

\* An error makes run return through the deferred cleanup.
Fail ==
    /\ pc' = "unwind" /\ failed' = TRUE
    /\ UNCHANGED <<started, waiting>>

Proceed(from, to) ==
    /\ pc = from /\ pc' = to
    /\ UNCHANGED <<started, waiting, failed>>

\* The version to expect is given or comes from the archive's name.
ChecksVersion == opts.version \/ opts.glob = "given"

AssertVersion ==
    /\ ChecksVersion => ~ ctxDone
    /\ Proceed("version", "start")
    /\ UNCHANGED <<cleanup, world>>

VersionFails == pc = "version" /\ ChecksVersion /\ Fail /\ UNCHANGED <<cleanup, world>>

StartBinary ==
    /\ opts.backend = "binary" /\ ~ ctxDone
    /\ process' = "up"
    /\ cleanup' = Append(cleanup, "process")
    /\ Proceed("start", "head")
    /\ UNCHANGED <<tempDir, container, relays, blemish>>

StartBinaryFails ==
    /\ pc = "start" /\ opts.backend = "binary"
    /\ Fail /\ UNCHANGED <<cleanup, world>>

\* Faulty variant: the removal is not registered before there is a container.
RegisterNothing ==
    /\ opts.backend = "container"
    /\ Proceed("start", "load")
    /\ UNCHANGED <<cleanup, world>>

RegisterContainer ==
    /\ opts.backend = "container"
    /\ cleanup' = Append(cleanup, "container")
    /\ Proceed("start", "load")
    /\ UNCHANGED world

LoadImage ==
    /\ opts.image => ~ ctxDone
    /\ Proceed("load", "remove")
    /\ UNCHANGED <<cleanup, world>>

LoadImageFails == pc = "load" /\ opts.image /\ Fail /\ UNCHANGED <<cleanup, world>>

\* A container that is not there is as good as removed.
RemoveOld ==
    /\ ~ ctxDone
    /\ container' = "none"
    /\ Proceed("remove", "run")
    /\ UNCHANGED <<cleanup, tempDir, process, relays, blemish>>

RemoveOldFails == pc = "remove" /\ Fail /\ UNCHANGED <<cleanup, world>>

StartContainer ==
    /\ ~ ctxDone
    /\ container' = "up"
    /\ Proceed("run", "relay")
    /\ UNCHANGED <<cleanup, tempDir, process, relays, blemish>>

\* A failed run may leave a container behind; a killed one may yet do so.
StartContainerFails ==
    /\ pc = "run" /\ Fail
    /\ \/ container' \in {"none", "created"} /\ UNCHANGED blemish
       \/ ctxDone /\ container' = "late" /\ blemish' = blemish \cup {"container"}
    /\ UNCHANGED <<cleanup, tempDir, process, relays>>

\* The listeners of the relays are opened whether or not the context is done.
OpenRelay(name, from, to) ==
    /\ relays' = relays \cup {name}
    /\ cleanup' = Append(cleanup, name)
    /\ Proceed(from, to)
    /\ UNCHANGED <<tempDir, process, container, blemish>>

NewIPv6Relay == OpenRelay("tcp", "relay", "udp relay")
NewUDPIPv6Relay == OpenRelay("udp", "udp relay", "head")

RelayFails == pc \in {"relay", "udp relay"} /\ Fail /\ UNCHANGED <<cleanup, world>>

-----------------------------------------------------------------------------
(* waitForListener, once for each listener *)

\* In the container setup the IPv6 listeners are the relays.
Reachable ==
    \/ process = "up"
    \/ container = "up" /\ (listener = 2 => "tcp" \in relays)
                        /\ (listener = 4 => "udp" \in relays)

\* A probe dials and then exchanges, each under the timeout; a UDP dial takes
\* no time.
ProbeLimit == IF listener <= 2 THEN ProbeTimeout + ProbeTimeout ELSE ProbeTimeout

\* Faulty variant: the deadline is taken anew before every probe.
WaitHeadRenewed ==
    /\ pc = "head"
    /\ pc' = "probing" /\ late' = IF ctxDone THEN late + 1 ELSE late
    /\ UNCHANGED <<started, cleanup, failed, world, listener, waited>>

WaitHead ==
    /\ pc = "head" /\ waited < ReadyTimeout
    /\ pc' = "probing" /\ late' = IF ctxDone THEN late + 1 ELSE late
    /\ UNCHANGED <<started, cleanup, failed, world, listener, waited>>

WaitTimesOut ==
    /\ pc = "head" /\ waited >= ReadyTimeout
    /\ Fail /\ UNCHANGED <<cleanup, world>>

\* The wait is over; the next one begins, or the first probe of the binary.
ListenerReady ==
    /\ pc = "probing" /\ Reachable
    /\ IF listener < Len(Listeners)
       THEN listener' = listener + 1 /\ pc' = "head"
       ELSE listener' = 1 /\ pc' = "probe"
    /\ waited' = 0 /\ late' = 0
    /\ UNCHANGED <<started, cleanup, failed, world>>

\* A select that finds the context done does not wait for its timer.
ListenerNotReady ==
    /\ pc = "probing"
    /\ \E spent \in 0 .. ProbeLimit : waited' = waited + spent
    /\ pc' = IF ctxDone THEN "no pause" ELSE "pause"
    /\ UNCHANGED <<started, cleanup, failed, world, listener, late>>

\* The two cases of the select; a cancellation may come just before the timer.
PauseEnds ==
    /\ pc = "pause"
    /\ waited' = waited + RetryInterval
    /\ pc' = "head"
    /\ UNCHANGED <<started, cleanup, failed, world, listener, late>>

\* Faulty variant: the pause does not look at the context.
PauseUnaware ==
    /\ pc \in {"pause", "no pause"} /\ ctxDone
    /\ waited' = waited + RetryInterval
    /\ pc' = "head"
    /\ UNCHANGED <<started, cleanup, failed, world, listener, late>>

PauseCancelled ==
    /\ pc \in {"pause", "no pause"} /\ ctxDone
    /\ Fail /\ UNCHANGED <<cleanup, world>>

-----------------------------------------------------------------------------
(* The probes of the binary under test, the cleanup and the exit *)

RunProbe ==
    /\ pc = "probe" /\ Reachable /\ ~ ctxDone
    /\ IF listener < Len(Listeners)
       THEN listener' = listener + 1 /\ UNCHANGED pc
       ELSE pc' = "unwind" /\ UNCHANGED listener
    /\ UNCHANGED <<started, cleanup, failed, world, waited, late>>

RunProbeFails == pc = "probe" /\ Fail /\ UNCHANGED <<cleanup, world>>

\* What each cleanup does; only a removal can fail, and its error is dropped.
Undo(what) ==
    /\ process' = IF what = "process" THEN "reaped" ELSE process
    /\ relays' = relays \ {what}
    /\ \/ /\ tempDir' = IF what = "temp" THEN FALSE ELSE tempDir
          /\ container' = IF what = "container" /\ container # "late" THEN "none" ELSE container
          /\ UNCHANGED blemish
       \/ /\ what \in {"temp", "container"}
          /\ blemish' = blemish \cup {what}
          /\ UNCHANGED <<tempDir, container>>

\* Faulty variant: the cleanups run in the order of their registration.
CleanupForward ==
    /\ pc = "unwind" /\ cleanup # <<>>
    /\ Undo(Head(cleanup))
    /\ cleanup' = Tail(cleanup)
    /\ UNCHANGED <<started, pc, waiting, failed>>

RunCleanup ==
    /\ pc = "unwind" /\ cleanup # <<>>
    /\ Undo(cleanup[Len(cleanup)])
    /\ cleanup' = SubSeq(cleanup, 1, Len(cleanup) - 1)
    /\ UNCHANGED <<started, pc, waiting, failed>>

Return ==
    /\ pc = "unwind" /\ cleanup = <<>>
    /\ pc' = "returned"
    /\ exit' = IF failed THEN 1 ELSE 0
    /\ UNCHANGED <<opts, ctxDone, waiting, cleanup, failed, world>>

-----------------------------------------------------------------------------
(* The environment *)

Cancel ==
    /\ pc \notin {"validate", "returned"} /\ ~ ctxDone
    /\ ctxDone' = TRUE
    /\ UNCHANGED <<opts, pc, exit, waiting, cleanup, failed, world>>

\* The staging server ends by itself, or the context's watcher kills it.
ProcessDies ==
    /\ process = "up"
    /\ process' = "dead"
    /\ UNCHANGED <<started, pc, waiting, cleanup, failed, tempDir, container, relays,
                   blemish>>

ContainerAppears ==
    /\ container = "late"
    /\ container' \in {"none", "created", "up"}
    /\ UNCHANGED <<started, pc, waiting, cleanup, failed, tempDir, process, relays,
                   blemish>>

Next ==
    \/ Validate \/ NoArchive \/ ExtractArchive \/ ArchiveFails
    \/ AssertVersion \/ VersionFails \/ StartBinary \/ StartBinaryFails
    \/ RegisterContainer \/ LoadImage \/ LoadImageFails \/ RemoveOld \/ RemoveOldFails
    \/ StartContainer \/ StartContainerFails
    \/ NewIPv6Relay \/ NewUDPIPv6Relay \/ RelayFails
    \/ WaitHead \/ WaitTimesOut \/ ListenerReady \/ ListenerNotReady
    \/ PauseEnds \/ PauseCancelled \/ RunProbe \/ RunProbeFails
    \/ RunCleanup \/ Return
    \/ Cancel \/ ProcessDies \/ ContainerAppears

Spec == Init /\ [][Next]_vars

-----------------------------------------------------------------------------
(* Properties *)

\* Whatever step failed or was cancelled, a harness that has run leaves no
\* directory, process, relay or container, except what an external removal
\* refused to remove or a killed CLI had still asked for (main.go:132-178,
\* 229-309, 745-767).
NothingLeftBehind ==
    pc = "returned" =>
        /\ process \in {"none", "reaped"} /\ relays = {}
        /\ tempDir => "temp" \in blemish
        /\ container \in {"created", "up", "late"} => "container" \in blemish

\* Nothing is taken away from under what still uses it: the container goes
\* after the relays that forward to it, and the binary's directory last
\* (main.go:763-767).
TornDownInReverse ==
    [][/\ container = "up" /\ container' = "none" => relays = {}
       /\ tempDir /\ ~ tempDir' =>
              /\ relays = {} /\ process \in {"none", "reaped"}
              /\ container = "up" => "container" \in blemish]_vars

\* A listener that never comes up is given up: the deadline is checked only
\* between probes, so the wait may exceed it by one probe and one pause, and by
\* no more (main.go:532-547).
WaitIsBounded ==
    waited < ReadyTimeout + ProbeTimeout + ProbeTimeout + RetryInterval

\* The context is looked at only in the pause: after a cancellation a listener
\* is probed at most once more, although the waits that follow begin with a
\* probe all the same (main.go:532-547).
CancelStopsRetries == late <= 1

=============================================================================
