------------------------ MODULE ReleaseHarnessProofs ------------------------
(***************************************************************************)
(* Proofs about ReleaseHarness for any command lines and any timeouts.     *)
(***************************************************************************)
EXTENDS ReleaseHarness, SequenceTheorems, TLAPS

\* The order in which things come into being; the backends exclude each other.
Rank(thing) ==
    CASE thing = "temp" -> 1
      [] thing \in {"process", "container"} -> 2
      [] thing = "tcp" -> 3
      [] thing = "udp" -> 4

Registered(thing) == \E k \in 1 .. Len(cleanup) : cleanup[k] = thing

(* The inductive invariant, as a conjunction of named parts. *)

\* The stack holds each thing at most once, what was made last on top.
Ordered ==
    \A i, j \in 1 .. Len(cleanup) : i < j => Rank(cleanup[i]) < Rank(cleanup[j])

UpTo(rank) == \A k \in 1 .. Len(cleanup) : Rank(cleanup[k]) <= rank

\* How far the stack has grown at each place of run.
Stages ==
    /\ pc \in {"validate", "archive", "returned"} => cleanup = <<>>
    /\ pc \in {"validate", "archive"} => tempDir = FALSE
    /\ pc \in {"version", "start"} => UpTo(1)
    /\ pc \in {"load", "remove", "run", "relay"} => UpTo(2)
    /\ pc \in {"load", "remove", "run", "relay", "udp relay"} => Registered("container")
    /\ pc = "udp relay" => UpTo(3)

\* Whatever exists has its removal on the stack, or is known to be left.
Covered ==
    /\ process \in {"up", "dead"} => Registered("process")
    /\ \A r \in relays : Registered(r)
    /\ tempDir => Registered("temp") \/ "temp" \in blemish
    /\ container \in {"created", "up"} => Registered("container") \/ "container" \in blemish
    /\ container = "late" => "container" \in blemish

\* Before the first wait there is nothing to count.
BeforeWaits == {"validate", "archive", "version", "start", "load", "remove", "run",
                "relay", "udp relay"}

\* How much of a wait may be over at each place of it.
Waits ==
    /\ pc \in BeforeWaits => waited = 0 /\ late = 0
    /\ pc = "probing" => waited < ReadyTimeout
    /\ pc \in {"pause", "no pause"} => waited < ReadyTimeout + ProbeTimeout + ProbeTimeout
    /\ pc \in {"head", "pause"} => late = 0
    /\ late > 0 => ctxDone

IInv ==
    /\ TypeOK
    /\ Ordered /\ Stages /\ Covered
    /\ Waits /\ WaitIsBounded /\ CancelStopsRetries

-----------------------------------------------------------------------------
\* Facts that let the sets stay unexpanded.
LEMMA ThingNames ==
    /\ "temp" \in Things /\ "process" \in Things /\ "container" \in Things
    /\ "tcp" \in Things /\ "udp" \in Things
BY DEF Things

LEMMA TimeTypes ==
    /\ ReadyTimeout \in Nat /\ ProbeTimeout \in Nat /\ RetryInterval \in Nat
    /\ ReadyTimeout > 0 /\ ProbeTimeout > 0 /\ RetryInterval > 0
BY TimesAssumption

LEMMA FourListeners == Len(Listeners) = 4
BY DEF Listeners

-----------------------------------------------------------------------------
(* The stack *)

\* A sequence without its last element.
LEMMA Front ==
    ASSUME NEW S, NEW s \in Seq(S), s # <<>>
    PROVE  /\ Len(s) \in Nat \ {0}
           /\ SubSeq(s, 1, Len(s) - 1) \in Seq(S)
           /\ Len(SubSeq(s, 1, Len(s) - 1)) = Len(s) - 1
           /\ \A k \in 1 .. Len(s) - 1 : SubSeq(s, 1, Len(s) - 1)[k] = s[k]
<1>1. Len(s) \in Nat \ {0}
      OBVIOUS
<1>2. PICK n \in Int : n = Len(s) - 1
      BY <1>1
<1>3. \A k \in 1 .. n : s[k] \in S
      BY <1>1, <1>2
<1>4. /\ SubSeq(s, 1, n) \in Seq(S)
      /\ Len(SubSeq(s, 1, n)) = IF 1 <= n THEN n - 1 + 1 ELSE 0
      /\ \A k \in 1 .. n - 1 + 1 : SubSeq(s, 1, n)[k] = s[1 + k - 1]
      BY <1>3, SubSeqProperties
<1>. QED  BY <1>1, <1>2, <1>4

LEMMA StackType ==
    ASSUME TypeOK
    PROVE  /\ cleanup \in Seq(Things) /\ Len(cleanup) \in Nat
           /\ \A k \in 1 .. Len(cleanup) : cleanup[k] \in Things
BY DEF TypeOK

LEMMA RankType ==
    \A thing \in Things : Rank(thing) \in Nat
BY DEF Things, Rank

LEMMA Ranks ==
    /\ Rank("temp") = 1 /\ Rank("process") = 2 /\ Rank("container") = 2
    /\ Rank("tcp") = 3 /\ Rank("udp") = 4
BY DEF Rank

LEMMA Pushed ==
    ASSUME TypeOK, NEW thing \in Things, cleanup' = Append(cleanup, thing)
    PROVE  /\ cleanup' \in Seq(Things)
           /\ Len(cleanup') = Len(cleanup) + 1
           /\ cleanup'[Len(cleanup')] = thing
           /\ \A k \in 1 .. Len(cleanup) : cleanup'[k] = cleanup[k]
BY StackType

LEMMA Popped ==
    ASSUME TypeOK, cleanup # <<>>, cleanup' = SubSeq(cleanup, 1, Len(cleanup) - 1)
    PROVE  /\ cleanup' \in Seq(Things)
           /\ Len(cleanup') = Len(cleanup) - 1
           /\ Len(cleanup) \in Nat \ {0}
           /\ cleanup[Len(cleanup)] \in Things
           /\ \A k \in 1 .. Len(cleanup') : cleanup'[k] = cleanup[k]
BY StackType, Front

\* What is pushed ranks above the rest, so that the order is kept.
LEMMA PushOrdered ==
    ASSUME TypeOK, Ordered, NEW thing \in Things, NEW rank \in Nat,
           UpTo(rank), Rank(thing) = rank + 1, cleanup' = Append(cleanup, thing)
    PROVE  /\ Ordered'
           /\ Registered(thing)'
           /\ \A other \in Things : Registered(other) => Registered(other)'
           /\ \A higher \in Nat : rank < higher => UpTo(higher)'
<1>1. Rank(thing) \in Nat /\ \A k \in 1 .. Len(cleanup) : Rank(cleanup[k]) \in Nat
      BY RankType, StackType
<1>2. \A k \in 1 .. Len(cleanup) : Rank(cleanup[k]) < Rank(thing)
      BY <1>1 DEF UpTo
<1>3. Len(cleanup) \in Nat
      BY StackType
<1>. QED  BY <1>1, <1>2, <1>3, Pushed DEF Ordered, Registered, UpTo

\* What is popped is on the stack no more, and everything else still is.
LEMMA PopOrdered ==
    ASSUME TypeOK, Ordered, cleanup # <<>>,
           cleanup' = SubSeq(cleanup, 1, Len(cleanup) - 1)
    PROVE  /\ Ordered'
           /\ \A other \in Things \ {cleanup[Len(cleanup)]} :
                 Registered(other) => Registered(other)'
           /\ \A k \in 1 .. Len(cleanup) : Rank(cleanup[k]) <= Rank(cleanup[Len(cleanup)])
<1>1. \A k \in 1 .. Len(cleanup) : Rank(cleanup[k]) \in Nat
      BY RankType, StackType
<1>2. Ordered'
      BY Popped DEF Ordered
<1>3. \A other \in Things \ {cleanup[Len(cleanup)]} : Registered(other) => Registered(other)'
      BY Popped DEF Registered
<1>4. \A k \in 1 .. Len(cleanup) : Rank(cleanup[k]) <= Rank(cleanup[Len(cleanup)])
      BY <1>1, Popped DEF Ordered
<1>. QED  BY <1>2, <1>3, <1>4

-----------------------------------------------------------------------------

LEMMA InitEstablishes ==
    Init => IInv
<1>. SUFFICES ASSUME Init PROVE IInv
     OBVIOUS
<1>1. TypeOK
  <2>1. pc \in Places /\ cleanup \in Seq(Things) /\ listener \in 1 .. Len(Listeners)
        BY DEF Init, Places, Listeners
  <2>2. failed \in BOOLEAN /\ ctxDone \in BOOLEAN /\ tempDir \in BOOLEAN
        BY DEF Init
  <2>3. /\ opts \in Options /\ waited \in Nat /\ late \in Nat /\ exit \in {Running, 0, 1, 2}
        /\ relays \subseteq {"tcp", "udp"} /\ blemish \subseteq {"temp", "container"}
        /\ process \in {"none", "up", "dead", "reaped"}
        /\ container \in {"none", "old", "created", "up", "late"}
        BY DEF Init
  <2>. QED  BY <2>1, <2>2, <2>3 DEF TypeOK
<1>2. Ordered /\ Stages /\ Covered
      BY DEF Init, Ordered, Stages, Covered
<1>3. Waits /\ WaitIsBounded /\ CancelStopsRetries
      BY TimesAssumption DEF Init, Waits, WaitIsBounded, CancelStopsRetries
<1>. QED  BY <1>1, <1>2, <1>3 DEF IInv

LEMMA PlacePreserved ==
    ASSUME TypeOK, [Next]_vars
    PROVE  pc' \in Places
BY DEF TypeOK, Places, Next, vars, Validate, NoArchive, ExtractArchive, ArchiveFails,
       AssertVersion, VersionFails, StartBinary, StartBinaryFails, RegisterContainer,
       LoadImage, LoadImageFails, RemoveOld, RemoveOldFails, StartContainer,
       StartContainerFails, NewIPv6Relay, NewUDPIPv6Relay, OpenRelay, RelayFails,
       WaitHead, WaitTimesOut, ListenerReady, ListenerNotReady, PauseEnds, PauseCancelled,
       RunProbe, RunProbeFails, RunCleanup, Return, Cancel, ProcessDies, ContainerAppears,
       Fail, Proceed

\* A probe that fails takes at most its timeout twice.
LEMMA ProbeTime ==
    ASSUME TypeOK, ListenerNotReady
    PROVE  /\ waited' \in Nat
           /\ waited' <= waited + ProbeTimeout + ProbeTimeout
<1>1. waited \in Nat
      BY DEF TypeOK
<1>2. ProbeLimit \in Nat /\ ProbeLimit <= ProbeTimeout + ProbeTimeout
      BY TimeTypes DEF ProbeLimit
<1>3. PICK spent \in 0 .. ProbeLimit : waited' = waited + spent
      BY DEF ListenerNotReady
<1>. QED  BY <1>1, <1>2, <1>3, TimeTypes

LEMMA TypePreserved ==
    ASSUME TypeOK, [Next]_vars
    PROVE  TypeOK'
<1>0. pc' \in Places
      BY PlacePreserved
<1>. USE <1>0 DEF TypeOK, started, waiting, world, Fail, Proceed
<1>1. CASE Validate           BY <1>1 DEF Validate
<1>2. CASE NoArchive \/ AssertVersion \/ VersionFails \/ StartBinaryFails
      BY <1>2, ZenonT(40) DEF NoArchive, AssertVersion, VersionFails, StartBinaryFails
<1>3. CASE ExtractArchive     BY <1>3, ThingNames DEF ExtractArchive
<1>4. CASE ArchiveFails       BY <1>4 DEF ArchiveFails
<1>5. CASE StartBinary        BY <1>5, ThingNames DEF StartBinary
<1>6. CASE RegisterContainer  BY <1>6, ThingNames DEF RegisterContainer
<1>7. CASE LoadImage \/ LoadImageFails \/ RemoveOld \/ RemoveOldFails \/ StartContainer
      BY <1>7, ZenonT(40) DEF LoadImage, LoadImageFails, RemoveOld, RemoveOldFails, StartContainer
<1>8. CASE StartContainerFails BY <1>8 DEF StartContainerFails
<1>9. CASE NewIPv6Relay
  <2>1. cleanup' = Append(cleanup, "tcp")
        BY <1>9 DEF NewIPv6Relay, OpenRelay
  <2>2. cleanup' \in Seq(Things)
        BY <2>1, Pushed, ThingNames
  <2>. QED  BY <1>9, <2>2 DEF NewIPv6Relay, OpenRelay
<1>10. CASE NewUDPIPv6Relay
  <2>1. cleanup' = Append(cleanup, "udp")
        BY <1>10 DEF NewUDPIPv6Relay, OpenRelay
  <2>2. cleanup' \in Seq(Things)
        BY <2>1, Pushed, ThingNames
  <2>. QED  BY <1>10, <2>2 DEF NewUDPIPv6Relay, OpenRelay
<1>11. CASE RelayFails \/ WaitTimesOut \/ PauseCancelled \/ RunProbeFails
      BY <1>11, ZenonT(40) DEF RelayFails, WaitTimesOut, PauseCancelled, RunProbeFails
<1>12. CASE WaitHead          BY <1>12 DEF WaitHead
<1>13. CASE ListenerReady     BY <1>13, FourListeners DEF ListenerReady
<1>14. CASE ListenerNotReady
  <2>1. waited' \in Nat
        BY <1>14, ProbeTime
  <2>. QED  BY <1>14, <2>1 DEF ListenerNotReady
<1>15. CASE PauseEnds
  <2>1. waited' \in Nat
        BY <1>15, TimeTypes DEF PauseEnds
  <2>. QED  BY <1>15, <2>1 DEF PauseEnds
<1>16. CASE RunProbe          BY <1>16, FourListeners DEF RunProbe
<1>17. CASE RunCleanup
  <2>1. cleanup' \in Seq(Things)
        BY <1>17, Popped DEF RunCleanup
  <2>. QED  BY <1>17, <2>1 DEF RunCleanup, Undo
<1>18. CASE Return \/ Cancel \/ ProcessDies \/ ContainerAppears
      BY <1>18, ZenonT(40) DEF Return, Cancel, ProcessDies, ContainerAppears
<1>19. CASE UNCHANGED vars    BY <1>19 DEF vars
<1>. QED  BY <1>1, <1>2, <1>3, <1>4, <1>5, <1>6, <1>7, <1>8, <1>9, <1>10, <1>11, <1>12,
             <1>13, <1>14, <1>15, <1>16, <1>17, <1>18, <1>19 DEF Next

\* A step that leaves the stack alone leaves alone what is said of it.
LEMMA SameStack ==
    ASSUME cleanup' = cleanup
    PROVE  /\ Ordered => Ordered'
           /\ \A thing : Registered(thing)' <=> Registered(thing)
           /\ \A rank : UpTo(rank)' <=> UpTo(rank)
BY DEF Ordered, Registered, UpTo

LEMMA StackPreserved ==
    ASSUME IInv, TypeOK', [Next]_vars
    PROVE  Ordered' /\ Stages' /\ Covered'
<1>. USE DEF IInv, started, waiting, world, Fail, Proceed
<1>1. ASSUME cleanup' = cleanup, tempDir' = tempDir, process' = process,
             relays' = relays, blemish' = blemish, container' = container,
             Stages'
      PROVE  Ordered' /\ Stages' /\ Covered'
      BY <1>1, SameStack DEF Covered
<1>2. CASE Validate \/ NoArchive \/ AssertVersion \/ VersionFails \/ StartBinaryFails
           \/ LoadImage \/ LoadImageFails \/ RemoveOldFails \/ RelayFails
  <2>1. Stages'
    <3>1. CASE Validate        BY <3>1, SameStack DEF Validate, Stages
    <3>2. CASE NoArchive
      <4>1. UpTo(1)'
            BY <3>2 DEF NoArchive, Stages, UpTo
      <4>. QED  BY <3>2, <4>1 DEF NoArchive, Stages
    <3>3. CASE AssertVersion   BY <3>3, SameStack DEF AssertVersion, Stages
    <3>4. CASE LoadImage       BY <3>4, SameStack DEF LoadImage, Stages
    <3>5. CASE VersionFails \/ StartBinaryFails \/ LoadImageFails \/ RemoveOldFails
               \/ RelayFails
          BY <3>5 DEF VersionFails, StartBinaryFails, LoadImageFails, RemoveOldFails,
                RelayFails, Stages
    <3>. QED  BY <1>2, <3>1, <3>2, <3>3, <3>4, <3>5
  <2>. QED  BY <1>1, <1>2, <2>1 DEF Validate, NoArchive, AssertVersion, VersionFails,
              StartBinaryFails, LoadImage, LoadImageFails, RemoveOldFails, RelayFails
<1>3. CASE WaitHead \/ WaitTimesOut \/ ListenerReady \/ ListenerNotReady \/ PauseEnds
           \/ PauseCancelled \/ RunProbe \/ RunProbeFails \/ Return \/ Cancel
           \/ UNCHANGED vars
  <2>1. Stages'
        BY <1>3, SameStack DEF WaitHead, WaitTimesOut, ListenerReady, ListenerNotReady,
              PauseEnds, PauseCancelled, RunProbe, RunProbeFails, Return, Cancel, vars, Stages
  <2>. QED  BY <1>1, <1>3, <2>1 DEF WaitHead, WaitTimesOut, ListenerReady, ListenerNotReady,
              PauseEnds, PauseCancelled, RunProbe, RunProbeFails, Return, Cancel, vars
<1>4. CASE ExtractArchive
  <2>1. UpTo(0)
        BY <1>4 DEF ExtractArchive, Stages, UpTo
  <2>2. /\ Ordered' /\ Registered("temp")' /\ UpTo(1)'
        /\ \A other \in Things : Registered(other) => Registered(other)'
        BY <1>4, <2>1, PushOrdered, Ranks, ThingNames DEF ExtractArchive
  <2>. QED  BY <1>4, <2>2 DEF ExtractArchive, Stages, Covered, TypeOK, Things
<1>5. CASE ArchiveFails
  <2>1. Ordered' /\ Stages'
        BY <1>5, SameStack DEF ArchiveFails, Stages
  <2>2. tempDir' => "temp" \in blemish'
        BY <1>5 DEF ArchiveFails
  <2>3. blemish \subseteq blemish'
        BY <1>5 DEF ArchiveFails
  <2>. QED  BY <1>5, <2>1, <2>2, <2>3, SameStack DEF ArchiveFails, Covered
<1>6. CASE StartBinary
  <2>1. UpTo(1)
        BY <1>6 DEF StartBinary, Stages
  <2>2. /\ Ordered' /\ Registered("process")'
        /\ \A other \in Things : Registered(other) => Registered(other)'
        BY <1>6, <2>1, PushOrdered, Ranks, ThingNames DEF StartBinary
  <2>. QED  BY <1>6, <2>2 DEF StartBinary, Stages, Covered, TypeOK, Things
<1>7. CASE RegisterContainer
  <2>1. UpTo(1)
        BY <1>7 DEF RegisterContainer, Stages
  <2>2. /\ Ordered' /\ Registered("container")' /\ UpTo(2)'
        /\ \A other \in Things : Registered(other) => Registered(other)'
        BY <1>7, <2>1, PushOrdered, Ranks, ThingNames DEF RegisterContainer
  <2>. QED  BY <1>7, <2>2 DEF RegisterContainer, Stages, Covered, TypeOK, Things
<1>8. CASE RemoveOld \/ StartContainer \/ StartContainerFails
  <2>1. Registered("container")' /\ Ordered'
        BY <1>8, SameStack DEF RemoveOld, StartContainer, StartContainerFails, Stages
  <2>2. Stages'
        BY <1>8, SameStack DEF RemoveOld, StartContainer, StartContainerFails, Stages
  <2>. QED  BY <1>8, <2>1, <2>2, SameStack
            DEF RemoveOld, StartContainer, StartContainerFails, Covered
<1>9. CASE NewIPv6Relay
  <2>0. cleanup' = Append(cleanup, "tcp")
        BY <1>9 DEF NewIPv6Relay, OpenRelay
  <2>1. UpTo(2)
        BY <1>9 DEF NewIPv6Relay, OpenRelay, Stages
  <2>2. /\ Ordered' /\ Registered("tcp")' /\ UpTo(3)'
        /\ \A other \in Things : Registered(other) => Registered(other)'
        BY <2>0, <2>1, PushOrdered, Ranks, ThingNames
  <2>. QED  BY <1>9, <2>2 DEF NewIPv6Relay, OpenRelay, Stages, Covered, TypeOK, Things
<1>10. CASE NewUDPIPv6Relay
  <2>0. cleanup' = Append(cleanup, "udp")
        BY <1>10 DEF NewUDPIPv6Relay, OpenRelay
  <2>1. UpTo(3)
        BY <1>10 DEF NewUDPIPv6Relay, OpenRelay, Stages
  <2>2. /\ Ordered' /\ Registered("udp")'
        /\ \A other \in Things : Registered(other) => Registered(other)'
        BY <2>0, <2>1, PushOrdered, Ranks, ThingNames
  <2>. QED  BY <1>10, <2>2 DEF NewUDPIPv6Relay, OpenRelay, Stages, Covered, TypeOK, Things
<1>11. CASE RunCleanup
  <2>. DEFINE top == cleanup[Len(cleanup)]
  <2>1. /\ Ordered' /\ top \in Things
        /\ \A other \in Things \ {top} : Registered(other) => Registered(other)'
        BY <1>11, PopOrdered, Popped DEF RunCleanup
  <2>2. Stages'
        BY <1>11 DEF RunCleanup, Stages
  <2>3. Covered'
        BY <1>11, <2>1 DEF RunCleanup, Undo, Covered, TypeOK, Things
  <2>. QED  BY <2>1, <2>2, <2>3
<1>12. CASE ProcessDies \/ ContainerAppears
  <2>1. Ordered' /\ Stages'
        BY <1>12, SameStack DEF ProcessDies, ContainerAppears, Stages
  <2>. QED  BY <1>12, <2>1, SameStack DEF ProcessDies, ContainerAppears, Covered
<1>. QED  BY <1>2, <1>3, <1>4, <1>5, <1>6, <1>7, <1>8, <1>9, <1>10, <1>11, <1>12 DEF Next

\* A wait that has not begun satisfies all that is said of waits.
LEMMA FreshWait ==
    ASSUME waited' = 0, late' = 0
    PROVE  Waits' /\ WaitIsBounded' /\ CancelStopsRetries'
<1>1. ~ (late' > 0)
      OBVIOUS
<1>2. 0 < ReadyTimeout /\ 0 < ReadyTimeout + ProbeTimeout + ProbeTimeout
      /\ 0 < ReadyTimeout + ProbeTimeout + ProbeTimeout + RetryInterval
      BY TimeTypes
<1>3. WaitIsBounded'
      BY <1>2 DEF WaitIsBounded
<1>4. CancelStopsRetries'
      BY DEF CancelStopsRetries
<1>5. (late' > 0 => ctxDone') /\ waited' < ReadyTimeout
      /\ waited' < ReadyTimeout + ProbeTimeout + ProbeTimeout
      BY <1>1, <1>2
<1>6. Waits'
      BY <1>5 DEF Waits
<1>. QED  BY <1>3, <1>4, <1>6

LEMMA WaitsPreserved ==
    ASSUME IInv, TypeOK', [Next]_vars
    PROVE  Waits' /\ WaitIsBounded' /\ CancelStopsRetries'
<1>1. /\ waited \in Nat /\ late \in Nat
      /\ waited < ReadyTimeout + ProbeTimeout + ProbeTimeout + RetryInterval
      /\ late <= 1
      BY DEF IInv, TypeOK, WaitIsBounded, CancelStopsRetries
<1>. USE <1>1, TimeTypes DEF Waits, WaitIsBounded, CancelStopsRetries, started, waiting,
         Fail, Proceed
<1>2. CASE Validate \/ NoArchive \/ ExtractArchive \/ ArchiveFails \/ AssertVersion
           \/ VersionFails \/ StartBinary \/ StartBinaryFails \/ RegisterContainer
  <2>1. pc \in BeforeWaits /\ UNCHANGED <<waited, late>> /\ pc' \notin {"probing", "pause", "no pause"}
        BY <1>2 DEF Validate, NoArchive, ExtractArchive, ArchiveFails, AssertVersion,
              VersionFails, StartBinary, StartBinaryFails, RegisterContainer, BeforeWaits
  <2>2. waited' = 0 /\ late' = 0
        BY <2>1 DEF IInv
  <2>. QED  BY <2>2, FreshWait
<1>3. CASE LoadImage \/ LoadImageFails \/ RemoveOld \/ RemoveOldFails \/ StartContainer
           \/ StartContainerFails \/ NewIPv6Relay \/ NewUDPIPv6Relay \/ RelayFails
  <2>1. pc \in BeforeWaits /\ UNCHANGED <<waited, late>> /\ pc' \notin {"probing", "pause", "no pause"}
        BY <1>3 DEF LoadImage, LoadImageFails, RemoveOld, RemoveOldFails, StartContainer,
              StartContainerFails, NewIPv6Relay, NewUDPIPv6Relay, OpenRelay, RelayFails, BeforeWaits
  <2>2. waited' = 0 /\ late' = 0
        BY <2>1 DEF IInv
  <2>. QED  BY <2>2, FreshWait
<1>4. CASE WaitHead
  <2>1. pc' \notin BeforeWaits
        BY <1>4 DEF WaitHead, BeforeWaits
  <2>. QED  BY <1>4, <2>1 DEF IInv, WaitHead
<1>5. CASE ListenerReady
  <2>1. waited' = 0 /\ late' = 0
        BY <1>5 DEF ListenerReady
  <2>. QED  BY <2>1, FreshWait
<1>6. CASE ListenerNotReady
  <2>5. waited < ReadyTimeout /\ TypeOK
        BY <1>6 DEF IInv, ListenerNotReady
  <2>6. waited' \in Nat /\ waited' <= waited + ProbeTimeout + ProbeTimeout
        BY <1>6, <2>5, ProbeTime
  <2>1. waited' \in Nat /\ waited' < ReadyTimeout + ProbeTimeout + ProbeTimeout
        BY <2>5, <2>6
  <2>2. late' = late /\ ctxDone' = ctxDone /\ pc' \in {"pause", "no pause"}
        BY <1>6 DEF ListenerNotReady
  <2>3. pc' = "pause" => ~ ctxDone
        BY <1>6 DEF ListenerNotReady
  <2>4. pc' \notin BeforeWaits
        BY <2>2 DEF BeforeWaits
  <2>7. (late' > 0 => ctxDone') /\ (pc' = "pause" => late' = 0)
    <3>1. late > 0 => ctxDone
          BY DEF IInv
    <3>2. late = 0 \/ late > 0
          BY <1>1
    <3>. QED  BY <2>2, <2>3, <3>1, <3>2
  <2>8. Waits'
        BY <2>1, <2>2, <2>4, <2>7
  <2>9. WaitIsBounded'
        BY <2>1
  <2>10. CancelStopsRetries'
        BY <2>2
  <2>. QED  BY <2>8, <2>9, <2>10
<1>7. CASE PauseEnds
  <2>1. pc' \notin BeforeWaits
        BY <1>7 DEF PauseEnds, BeforeWaits
  <2>. QED  BY <1>7, <2>1 DEF IInv, PauseEnds
<1>8. CASE WaitTimesOut \/ PauseCancelled \/ RunProbe \/ RunProbeFails \/ RunCleanup \/ Return
  <2>1. /\ UNCHANGED <<waited, late, ctxDone>>
        /\ pc' \in {"probe", "unwind", "returned"}
        BY <1>8 DEF WaitTimesOut, PauseCancelled, RunProbe, RunProbeFails, RunCleanup, Return
  <2>2. pc' \notin BeforeWaits
        BY <2>1 DEF BeforeWaits
  <2>. QED  BY <2>1, <2>2 DEF IInv
<1>9. CASE Cancel \/ ProcessDies \/ ContainerAppears \/ UNCHANGED vars
  <2>1. UNCHANGED <<waited, late, pc>> /\ (ctxDone => ctxDone')
        BY <1>9 DEF Cancel, ProcessDies, ContainerAppears, vars
  <2>. QED  BY <2>1 DEF IInv
<1>. QED  BY <1>2, <1>3, <1>4, <1>5, <1>6, <1>7, <1>8, <1>9 DEF Next

LEMMA Inductive ==
    IInv /\ [Next]_vars => IInv'
BY TypePreserved, StackPreserved, WaitsPreserved DEF IInv

-----------------------------------------------------------------------------

\* The harness keeps its types (main.go:132-178).
THEOREM TypeCorrect == Spec => []TypeOK
<1>1. IInv => TypeOK
      BY DEF IInv
<1>. QED  BY <1>1, InitEstablishes, Inductive, PTL DEF Spec

\* Whichever step fails or is cancelled, in either backend, the harness returns
\* without a directory, process, relay or container of its own, but for what an
\* external removal refused or a killed command had asked for (main.go:132-178,
\* 229-309, 745-767).
THEOREM LeavesNothing == Spec => []NothingLeftBehind
<1>1. IInv => NothingLeftBehind
      BY DEF IInv, TypeOK, Stages, Covered, Registered, NothingLeftBehind
<1>. QED  BY <1>1, InitEstablishes, Inductive, PTL DEF Spec

\* For every timeout and interval a wait exceeds its deadline by less than one
\* probe and one pause (main.go:532-547).
THEOREM WaitBounded == Spec => []WaitIsBounded
<1>1. IInv => WaitIsBounded
      BY DEF IInv
<1>. QED  BY <1>1, InitEstablishes, Inductive, PTL DEF Spec

\* After a cancellation a listener is probed at most once more (main.go:532-547).
THEOREM RetriesStop == Spec => []CancelStopsRetries
<1>1. IInv => CancelStopsRetries
      BY DEF IInv
<1>. QED  BY <1>1, InitEstablishes, Inductive, PTL DEF Spec

\* The container is removed only after the relays are closed, and the binary's
\* directory only after everything else (main.go:763-767).
THEOREM TornDown == Spec => TornDownInReverse
<1>. DEFINE Safe == /\ container = "up" /\ container' = "none" => relays = {}
                    /\ tempDir /\ ~ tempDir' =>
                          /\ relays = {} /\ process \in {"none", "reaped"}
                          /\ container = "up" => "container" \in blemish
<1>1. IInv /\ [Next]_vars => [Safe]_vars
  <2>. SUFFICES ASSUME IInv, Next PROVE Safe
       OBVIOUS
  <2>. USE DEF started, waiting, world, Fail, Proceed
  <2>1. CASE RunCleanup
    <3>. DEFINE top == cleanup[Len(cleanup)]
    <3>1. /\ Len(cleanup) \in Nat \ {0} /\ top \in Things
          /\ \A k \in 1 .. Len(cleanup) : Rank(cleanup[k]) <= Rank(top)
          BY <2>1, Popped, PopOrdered DEF IInv, RunCleanup
    <3>2. container = "up" /\ container' = "none" => top = "container"
          BY <2>1 DEF RunCleanup, Undo
    <3>6. tempDir /\ ~ tempDir' => top = "temp"
          BY <2>1, Zenon DEF RunCleanup, Undo
    <3>3. \A thing \in Things : Registered(thing) => Rank(thing) <= Rank(top)
          BY <3>1 DEF Registered
    <3>4. top = "container" => ~ Registered("tcp") /\ ~ Registered("udp")
          BY <3>3 DEF Rank, Things
    <3>5. top = "temp" => \A thing \in Things \ {"temp"} : ~ Registered(thing)
          BY <3>3 DEF Rank, Things
    <3>. QED  BY <3>2, <3>4, <3>5, <3>6 DEF IInv, TypeOK, Covered, Things
  <2>2. CASE RemoveOld \/ StartContainerFails
    <3>2. UpTo(2)
          BY <2>2 DEF IInv, RemoveOld, StartContainerFails, Stages
    <3>1. ~ Registered("tcp") /\ ~ Registered("udp")
          BY <3>2, Ranks DEF UpTo, Registered
    <3>. QED  BY <2>2, <3>1 DEF IInv, TypeOK, Covered, RemoveOld, StartContainerFails
  <2>3. CASE ArchiveFails
        BY <2>3 DEF IInv, Stages, ArchiveFails
  <2>4. CASE ~ (RunCleanup \/ RemoveOld \/ StartContainerFails \/ ArchiveFails)
    <3>1. (container = "up" => container' = "up") /\ (tempDir => tempDir')
      <4>1. CASE Validate \/ NoArchive \/ ExtractArchive \/ AssertVersion \/ VersionFails
                 \/ StartBinary \/ StartBinaryFails \/ RegisterContainer \/ LoadImage
                 \/ LoadImageFails \/ RemoveOldFails \/ StartContainer
            BY <4>1 DEF Validate, NoArchive, ExtractArchive, AssertVersion, VersionFails,
                  StartBinary, StartBinaryFails, RegisterContainer, LoadImage,
                  LoadImageFails, RemoveOldFails, StartContainer
      <4>2. CASE NewIPv6Relay \/ NewUDPIPv6Relay \/ RelayFails \/ WaitHead \/ WaitTimesOut
        <5>1. UNCHANGED <<container, tempDir>>
            BY <4>2 DEF NewIPv6Relay, NewUDPIPv6Relay, OpenRelay, RelayFails, WaitHead,
                  WaitTimesOut
        <5>. QED  BY <5>1
      <4>3. CASE ListenerReady \/ ListenerNotReady \/ PauseEnds \/ PauseCancelled
                 \/ RunProbe \/ RunProbeFails \/ Return
        <5>1. UNCHANGED <<container, tempDir>>
            BY <4>3 DEF ListenerReady, ListenerNotReady, PauseEnds, PauseCancelled,
                  RunProbe, RunProbeFails, Return
        <5>. QED  BY <5>1
      <4>4. CASE Cancel \/ ProcessDies \/ ContainerAppears
            BY <4>4 DEF Cancel, ProcessDies, ContainerAppears
      <4>. QED  BY <2>4, <4>1, <4>2, <4>3, <4>4 DEF Next
    <3>. QED  BY <3>1
  <2>. QED  BY <2>1, <2>2, <2>3, <2>4
<1>. QED  BY <1>1, InitEstablishes, Inductive, PTL DEF Spec, TornDownInReverse

=============================================================================
