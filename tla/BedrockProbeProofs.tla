------------------------- MODULE BedrockProbeProofs -------------------------
(***************************************************************************)
(* Proofs about BedrockProbe for any number of candidates and ports, any   *)
(* timeout and interval, and runs of any length.                           *)
(***************************************************************************)
EXTENDS BedrockProbe, TLAPS

\* Past the check of the context: up to the ping, and with the read behind it.
BeforePing == {"dial", "deadline", "build", "send"}
Trying == BeforePing \cup {"read"}

(* The inductive invariant, as a conjunction of named parts. *)

\* Every candidate before the current one has left its error; a probe has no
\* result before it ends; and before the first probe nothing was sent.
Counting ==
    /\ pc # "idle" => cand = errs + 1 /\ result = "none"
    /\ pc \in Trying => cand <= N
    /\ pc = "idle" /\ result = "none" => net = {}
    /\ result = "error" => ctxDone \/ errs = N

\* What has been read and what the deadline still allows, together.
Reading ==
    /\ pc \in {"next"} \cup BeforePing => waited <= errs * timeout
    /\ pc \in {"build", "send"} => deadline <= now + timeout
    /\ pc = "read" => now <= deadline /\ waited + (deadline - now) <= errs * timeout + timeout
    /\ waited <= errs * timeout + timeout
    /\ result = "error" => waited <= errs * timeout

\* Only the candidate past the check may still send its ping.
Budget ==
    ctxDone => /\ serial <= atCancel + 1
               /\ pc \in BeforePing => serial <= atCancel

\* A datagram stems from an earlier probe, from an earlier candidate of this
\* one, or from the ping that was sent last.
Earlier(d) == d.start + interval <= startedAt
Own(d) ==
    /\ d.start = startedAt
    /\ \/ d.candidate < cand
       \/ d.candidate = cand /\ d.serial = serial /\ pc \in {"read", "idle"}
Origin == \A d \in net : d.serial <= serial /\ (Earlier(d) \/ Own(d))

\* The time of a datagram is the millisecond in which its ping was built.
Stamped(d) == d.time = UnixMilli(d.built)
Stamps == \A d \in net : Stamped(d)

Clock ==
    /\ startedAt <= now
    /\ pc \in {"send", "read"} => startedAt <= builtAt

IInv ==
    /\ TypeOK
    /\ Counting /\ Reading /\ Budget /\ Origin /\ Stamps /\ Clock
    /\ StalePongNeedsLatePing

-----------------------------------------------------------------------------
LEMMA ConstantTypes ==
    /\ N \in Nat /\ N > 0
    /\ Timeout \in Nat /\ Timeout > 0 /\ Intervals \subseteq Nat
    /\ Milli \in Nat /\ Milli > 0
BY CandidateAssumption, TimeAssumption

\* One more timeout for one more candidate.
LEMMA OneMore ==
    ASSUME NEW e \in Nat, NEW t \in Nat
    PROVE  /\ e * t \in Nat /\ (e + 1) * t = e * t + t
           /\ 0 * t = 0 /\ 0 <= 0 * t /\ 0 <= 0 * t + t
OBVIOUS

\* Two moments of one millisecond are less than a millisecond apart.
LEMMA SameMillisecond ==
    ASSUME NEW a \in Nat, NEW b \in Nat, UnixMilli(a) = UnixMilli(b)
    PROVE  UnixMilli(a) \in Nat /\ b < a + Milli
<1>1. /\ a = Milli * (a \div Milli) + (a % Milli) /\ a % Milli \in 0 .. Milli - 1
      /\ b = Milli * (b \div Milli) + (b % Milli) /\ b % Milli \in 0 .. Milli - 1
      /\ a \div Milli \in Nat
      BY ConstantTypes
<1>2. PICK q \in Nat, x \in 0 .. Milli - 1, y \in 0 .. Milli - 1 :
         a \div Milli = q /\ a = Milli * q + x /\ b = Milli * q + y
      BY <1>1 DEF UnixMilli
<1>3. PICK m \in Nat : a = m + x /\ b = m + y
      BY <1>2, ConstantTypes
<1>. QED  BY <1>2, <1>3, ConstantTypes DEF UnixMilli

\* The fields of a datagram.
LEMMA DatagramFields ==
    ASSUME NEW d \in Datagrams
    PROVE  /\ d.candidate \in Int /\ d.port \in Ports
           /\ d.time \in Nat /\ d.serial \in Nat /\ d.built \in Nat /\ d.start \in Nat
BY ConstantTypes DEF Datagrams, Candidates

\* An answer differs from its ping in its kind alone.
LEMMA Answered ==
    ASSUME NEW d \in Datagrams, NEW kind \in {"pong", "bad"}
    PROVE  LET a == [d EXCEPT !.kind = kind]
           IN  /\ a \in Datagrams
               /\ a.candidate = d.candidate /\ a.port = d.port /\ a.time = d.time
               /\ a.serial = d.serial /\ a.built = d.built /\ a.start = d.start
BY DEF Datagrams

LEMMA InitEstablishes == Init => IInv
<1>. SUFFICES ASSUME Init PROVE IInv
     OBVIOUS
<1>5. timeout \in 1 .. Timeout /\ cand \in 0 .. N + 1 /\ errs \in 0 .. N
      BY ConstantTypes DEF Init
<1>1. TypeOK
      BY <1>5 DEF Init, TypeOK
<1>2. 0 * timeout = 0
      BY <1>1 DEF TypeOK
<1>3. Counting /\ Budget /\ Origin /\ Stamps /\ Clock /\ StalePongNeedsLatePing
      BY DEF Init, Counting, Budget, Origin, Stamps, Clock, StalePongNeedsLatePing, Trying, BeforePing
<1>4. Reading
      BY <1>1, <1>2 DEF Init, Reading, TypeOK, BeforePing
<1>. QED  BY <1>1, <1>3, <1>4 DEF IInv

-----------------------------------------------------------------------------
\* All the ways in which a candidate fails.
LEMMA Failing ==
    LocalError \/ ReadRejects \/ ReadTimesOut \/ ReadRefused
        => CandidateFails /\ pc \in Trying
BY DEF LocalError, ReadRejects, ReadTimesOut, ReadRefused, Trying, BeforePing

LEMMA TypePreserved ==
    ASSUME TypeOK, Counting, [Next]_vars
    PROVE  TypeOK'
<1>. USE ConstantTypes DEF TypeOK, socket, probe, outcome, world
<1>1. CASE BeginProbe         BY <1>1 DEF BeginProbe
<1>2. CASE TryCandidate       BY <1>2 DEF TryCandidate
<1>3. CASE GiveUp             BY <1>3 DEF GiveUp
<1>4. CASE Dial               BY <1>4 DEF Dial
<1>5. CASE SetDeadline        BY <1>5 DEF SetDeadline
<1>6. CASE BuildRequest       BY <1>6 DEF BuildRequest
<1>7. CASE Send
  <2>1. cand \in Candidates
        BY <1>7 DEF Send, Counting, Trying, BeforePing, Candidates
  <2>3. UnixMilli(builtAt) \in Nat
        BY SameMillisecond
  <2>2. [kind |-> "ping", candidate |-> cand, port |-> port, time |-> UnixMilli(builtAt),
         serial |-> serial + 1, built |-> builtAt, start |-> startedAt] \in Datagrams
        BY <2>1, <2>3 DEF Datagrams
  <2>. QED  BY <1>7, <2>2 DEF Send
<1>8. CASE CandidateFails /\ pc \in Trying
      BY <1>8 DEF CandidateFails, Counting, Trying, BeforePing
<1>9. CASE ReadAccepts        BY <1>9 DEF ReadAccepts, Arriving
<1>10. CASE \E d \in net : Answer(d)
  <2>1. PICK d \in net : Answer(d)
        BY <1>10
  <2>2. net' \subseteq Datagrams
        BY <2>1, Answered DEF Answer
  <2>. QED  BY <2>1, <2>2 DEF Answer
<1>11. CASE Cancel            BY <1>11 DEF Cancel
<1>12. CASE Tick              BY <1>12 DEF Tick
<1>13. CASE UNCHANGED vars    BY <1>13 DEF vars
<1>. QED  BY <1>1, <1>2, <1>3, <1>4, <1>5, <1>6, <1>7, <1>8, <1>9, <1>10, <1>11, <1>12,
             <1>13, Failing DEF Next, Step

LEMMA CountingPreserved ==
    ASSUME TypeOK, Counting, [Next]_vars
    PROVE  Counting'
<1>. USE ConstantTypes DEF TypeOK, Counting, Trying, BeforePing, socket, probe, outcome, world
<1>1. CASE BeginProbe         BY <1>1 DEF BeginProbe
<1>2. CASE TryCandidate       BY <1>2 DEF TryCandidate
<1>3. CASE GiveUp             BY <1>3 DEF GiveUp
<1>4. CASE Dial               BY <1>4 DEF Dial
<1>5. CASE SetDeadline        BY <1>5 DEF SetDeadline
<1>6. CASE BuildRequest       BY <1>6 DEF BuildRequest
<1>7. CASE Send               BY <1>7 DEF Send
<1>8. CASE CandidateFails /\ pc \in Trying
      BY <1>8 DEF CandidateFails
<1>9. CASE ReadAccepts        BY <1>9 DEF ReadAccepts
<1>10. CASE \E d \in net : Answer(d)
  <2>1. PICK d \in net : Answer(d)
        BY <1>10
  <2>. QED  BY <2>1 DEF Answer
<1>11. CASE Cancel            BY <1>11 DEF Cancel
<1>12. CASE Tick              BY <1>12 DEF Tick
<1>13. CASE UNCHANGED vars    BY <1>13 DEF vars
<1>. QED  BY <1>1, <1>2, <1>3, <1>4, <1>5, <1>6, <1>7, <1>8, <1>9, <1>10, <1>11, <1>12,
             <1>13, Failing DEF Next, Step

LEMMA BudgetPreserved ==
    ASSUME TypeOK, Budget, [Next]_vars
    PROVE  Budget'
<1>. USE DEF TypeOK, Budget, Trying, BeforePing, socket, probe, outcome, world
<1>1. CASE BeginProbe         BY <1>1 DEF BeginProbe
<1>2. CASE TryCandidate       BY <1>2 DEF TryCandidate
<1>3. CASE GiveUp             BY <1>3 DEF GiveUp
<1>4. CASE Dial               BY <1>4 DEF Dial
<1>5. CASE SetDeadline        BY <1>5 DEF SetDeadline
<1>6. CASE BuildRequest       BY <1>6 DEF BuildRequest
<1>7. CASE Send               BY <1>7 DEF Send
<1>8. CASE CandidateFails /\ pc \in Trying
      BY <1>8 DEF CandidateFails
<1>9. CASE ReadAccepts        BY <1>9 DEF ReadAccepts
<1>10. CASE \E d \in net : Answer(d)
      BY <1>10 DEF Answer
<1>11. CASE Cancel            BY <1>11 DEF Cancel
<1>12. CASE Tick              BY <1>12 DEF Tick
<1>13. CASE UNCHANGED vars    BY <1>13 DEF vars
<1>. QED  BY <1>1, <1>2, <1>3, <1>4, <1>5, <1>6, <1>7, <1>8, <1>9, <1>10, <1>11, <1>12,
             <1>13, Failing DEF Next, Step

LEMMA ClockPreserved ==
    ASSUME TypeOK, Clock, [Next]_vars
    PROVE  Clock'
<1>. USE DEF TypeOK, Clock, Trying, BeforePing, socket, probe, outcome, world
<1>1. CASE BeginProbe         BY <1>1 DEF BeginProbe
<1>2. CASE TryCandidate       BY <1>2 DEF TryCandidate
<1>3. CASE GiveUp             BY <1>3 DEF GiveUp
<1>4. CASE Dial               BY <1>4 DEF Dial
<1>5. CASE SetDeadline        BY <1>5 DEF SetDeadline
<1>6. CASE BuildRequest       BY <1>6 DEF BuildRequest
<1>7. CASE Send               BY <1>7 DEF Send
<1>8. CASE CandidateFails /\ pc \in Trying
      BY <1>8 DEF CandidateFails
<1>9. CASE ReadAccepts        BY <1>9 DEF ReadAccepts
<1>10. CASE \E d \in net : Answer(d)
      BY <1>10 DEF Answer
<1>11. CASE Cancel            BY <1>11 DEF Cancel
<1>12. CASE Tick              BY <1>12 DEF Tick
<1>13. CASE UNCHANGED vars    BY <1>13 DEF vars
<1>. QED  BY <1>1, <1>2, <1>3, <1>4, <1>5, <1>6, <1>7, <1>8, <1>9, <1>10, <1>11, <1>12,
             <1>13, Failing DEF Next, Step

LEMMA ReadingPreserved ==
    ASSUME TypeOK, Counting, Reading, [Next]_vars
    PROVE  Reading'
<1>2. CASE BeginProbe
  <2>1. timeout' \in Nat /\ errs' = 0 /\ waited' = 0 /\ pc' = "next" /\ result' = "none"
        BY <1>2, ConstantTypes DEF BeginProbe
  <2>2. 0 <= 0 * timeout' /\ 0 <= 0 * timeout' + timeout'
        BY <2>1, OneMore
  <2>3. waited' <= errs' * timeout' /\ waited' <= errs' * timeout' + timeout'
        BY <2>1, <2>2
  <2>. QED  BY <2>1, <2>3 DEF Reading, BeforePing
<1>. DEFINE spent == errs * timeout
<1>1. /\ errs \in Nat /\ timeout \in Nat /\ spent \in Nat
      /\ (errs + 1) * timeout = spent + timeout
      /\ waited \in Nat /\ deadline \in Nat /\ now \in Nat
      BY OneMore, ConstantTypes DEF TypeOK
<1>. USE <1>1 DEF Reading, Trying, BeforePing, socket, probe, outcome, world
<1>3. CASE TryCandidate       BY <1>3 DEF TryCandidate
<1>4. CASE GiveUp             BY <1>4 DEF GiveUp
<1>5. CASE Dial               BY <1>5 DEF Dial
<1>6. CASE SetDeadline        BY <1>6 DEF SetDeadline
<1>7. CASE BuildRequest       BY <1>7 DEF BuildRequest
<1>8. CASE Send               BY <1>8 DEF Send
<1>9. CASE CandidateFails /\ pc \in Trying
  <2>1. errs' * timeout' = spent + timeout /\ timeout' = timeout /\ waited' = waited
        BY <1>9 DEF CandidateFails
  <2>2. pc' = "next" /\ result' = "none"
        BY <1>9 DEF CandidateFails, Counting
  <2>. QED  BY <2>1, <2>2
<1>10. CASE ReadAccepts       BY <1>10 DEF ReadAccepts
<1>11. CASE \E d \in net : Answer(d)
      BY <1>11 DEF Answer
<1>12. CASE Cancel            BY <1>12 DEF Cancel
<1>13. CASE Tick              BY <1>13 DEF Tick, Counting
<1>14. CASE UNCHANGED vars    BY <1>14 DEF vars
<1>. QED  BY <1>2, <1>3, <1>4, <1>5, <1>6, <1>7, <1>8, <1>9, <1>10, <1>11, <1>12,
             <1>13, <1>14, Failing DEF Next, Step

LEMMA OriginPreserved ==
    ASSUME IInv, [Next]_vars
    PROVE  Origin'
<1>1. /\ cand \in Nat /\ serial \in Nat /\ startedAt \in Nat /\ now \in Nat
      /\ interval \in Nat /\ net \subseteq Datagrams
      BY ConstantTypes DEF IInv, TypeOK
<1>2. \A d \in net : d.serial <= serial /\ (Earlier(d) \/ Own(d))
      BY DEF IInv, Origin
<1>3. \A d \in net : /\ d.candidate \in Int /\ d.time \in Nat
                     /\ d.serial \in Nat /\ d.start \in Nat
      BY <1>1, DatagramFields
<1>. USE <1>1, ConstantTypes DEF socket, probe, outcome, world
<1>4. CASE BeginProbe
  <2>1. CASE result = "none"
        BY <1>4, <2>1 DEF BeginProbe, IInv, Counting, Origin
  <2>2. CASE now >= startedAt + interval
    <3>1. \A d \in net : d.start <= startedAt
          BY <1>2, <1>3 DEF Earlier, Own
    <3>2. startedAt' = now /\ net' = net /\ serial' = serial /\ interval' = interval
          BY <1>4 DEF BeginProbe
    <3>3. \A d \in net : Earlier(d)'
          BY <1>3, <2>2, <3>1, <3>2 DEF Earlier
    <3>. QED  BY <1>2, <3>2, <3>3 DEF Origin
  <2>. QED  BY <1>4, <2>1, <2>2 DEF BeginProbe
<1>5. CASE Send
  <2>. PICK ping : ping = [kind |-> "ping", candidate |-> cand, port |-> port,
                          time |-> UnixMilli(builtAt), serial |-> serial + 1,
                          built |-> builtAt, start |-> startedAt]
       OBVIOUS
  <2>1. /\ net' = net \cup {ping} /\ serial' = serial + 1 /\ pc' = "read" /\ pc = "send"
        /\ startedAt' = startedAt /\ interval' = interval /\ cand' = cand
        BY <1>5 DEF Send
  <2>2. ping.serial <= serial' /\ Own(ping)'
        BY <2>1 DEF Own
  <2>3. ASSUME NEW d \in net
        PROVE  d.serial <= serial' /\ (Earlier(d) \/ Own(d))'
        BY <1>2, <1>3, <2>1 DEF Earlier, Own
  <2>. QED  BY <2>1, <2>2, <2>3 DEF Origin
<1>6. CASE CandidateFails /\ pc \in Trying
  <2>1. /\ net' = net /\ serial' = serial /\ pc' = "next"
        /\ startedAt' = startedAt /\ interval' = interval /\ cand' = cand + 1
        BY <1>6 DEF CandidateFails
  <2>2. ASSUME NEW d \in net
        PROVE  d.serial <= serial' /\ (Earlier(d) \/ Own(d))'
        BY <1>2, <1>3, <2>1 DEF Earlier, Own
  <2>. QED  BY <2>1, <2>2 DEF Origin
<1>7. CASE \E d \in net : Answer(d)
  <2>1. PICK d \in net : Answer(d)
        BY <1>7
  <2>2. PICK kind \in {"pong", "bad"} : net' = (net \ {d}) \cup {[d EXCEPT !.kind = kind]}
        BY <2>1 DEF Answer
  <2>3. UNCHANGED <<pc, cand, startedAt, interval, serial>>
        BY <2>1 DEF Answer
  <2>. DEFINE a == [d EXCEPT !.kind = kind]
  <2>4. a.candidate = d.candidate /\ a.serial = d.serial /\ a.start = d.start
        BY Answered
  <2>5. a.serial <= serial' /\ (Earlier(a) \/ Own(a))'
        BY <1>2, <2>3, <2>4 DEF Earlier, Own
  <2>6. ASSUME NEW e \in net
        PROVE  e.serial <= serial' /\ (Earlier(e) \/ Own(e))'
        BY <1>2, <2>3 DEF Earlier, Own
  <2>. QED  BY <2>2, <2>5, <2>6 DEF Origin
<1>8. CASE \/ TryCandidate \/ GiveUp \/ Dial \/ SetDeadline \/ BuildRequest
           \/ ReadAccepts \/ Cancel \/ Tick \/ UNCHANGED vars
  <2>1. /\ UNCHANGED <<net, cand, startedAt, interval, serial>>
        /\ pc \in {"read", "idle"} => pc' \in {"read", "idle"}
        BY <1>8 DEF TryCandidate, GiveUp, Dial, SetDeadline, BuildRequest, ReadAccepts,
              Cancel, Tick, vars
  <2>2. ASSUME NEW d \in net
        PROVE  d.serial <= serial' /\ (Earlier(d) \/ Own(d))'
        BY <1>2, <2>1 DEF Earlier, Own
  <2>. QED  BY <2>1, <2>2 DEF Origin
<1>. QED  BY <1>4, <1>5, <1>6, <1>7, <1>8, Failing DEF Next, Step

LEMMA StampsPreserved ==
    ASSUME TypeOK, Stamps, [Next]_vars
    PROVE  Stamps'
<1>. USE DEF socket, probe, outcome, world
<1>1. CASE Send
  <2>. PICK ping : ping = [kind |-> "ping", candidate |-> cand, port |-> port,
                          time |-> UnixMilli(builtAt), serial |-> serial + 1,
                          built |-> builtAt, start |-> startedAt]
       OBVIOUS
  <2>1. net' = net \cup {ping} /\ Stamped(ping)
        BY <1>1 DEF Send, Stamped
  <2>. QED  BY <2>1 DEF Stamps, Stamped
<1>2. CASE \E d \in net : Answer(d)
  <2>1. PICK d \in net, kind \in {"pong", "bad"} :
           net' = (net \ {d}) \cup {[d EXCEPT !.kind = kind]}
        BY <1>2 DEF Answer
  <2>. DEFINE a == [d EXCEPT !.kind = kind]
  <2>2. a.time = d.time /\ a.built = d.built
        BY Answered DEF TypeOK
  <2>. QED  BY <2>1, <2>2 DEF Stamps, Stamped
<1>3. CASE net' = net
      BY <1>3 DEF Stamps, Stamped
<1>4. Send \/ (\E d \in net : Answer(d)) \/ net' = net
      BY Failing DEF Next, Step, BeginProbe, TryCandidate, GiveUp, Dial, SetDeadline,
            BuildRequest, CandidateFails, ReadAccepts, Cancel, Tick, vars
<1>. QED  BY <1>1, <1>2, <1>3, <1>4

\* The datagram accepted has the candidate and the time of the last ping.
LEMMA StalePreserved ==
    ASSUME IInv, [Next]_vars
    PROVE  StalePongNeedsLatePing'
<1>. USE DEF StalePongNeedsLatePing, socket, probe, outcome, world
<1>1. CASE ReadAccepts
  <2>1. PICK d \in Arriving : Acceptable(d) /\ answer' = d
        BY <1>1 DEF ReadAccepts
  <2>2. /\ d \in net /\ d.candidate = cand /\ UnixMilli(d.built) = UnixMilli(builtAt)
        /\ d.serial <= serial /\ (Earlier(d) \/ Own(d))
        BY <2>1 DEF Arriving, Acceptable, IInv, Origin, Stamps, Stamped
  <2>3. /\ d.serial \in Nat /\ d.built \in Nat /\ d.start \in Nat /\ d.candidate \in Int
        /\ serial \in Nat /\ startedAt \in Nat /\ builtAt \in Nat /\ interval \in Nat
        BY <2>2, DatagramFields, ConstantTypes DEF IInv, TypeOK
  <2>4. startedAt <= builtAt /\ serial' = serial /\ interval' = interval
        BY <1>1 DEF IInv, Clock, ReadAccepts
  <2>7. builtAt < d.built + Milli
        BY <2>2, <2>3, SameMillisecond
  <2>5. CASE Own(d)
        BY <2>1, <2>2, <2>3, <2>4, <2>5 DEF Own
  <2>6. CASE Earlier(d)
    <3>1. d.start + interval <= startedAt
          BY <2>6 DEF Earlier
    <3>2. d.built + Milli > d.start + interval
          BY <2>3, <2>4, <2>7, <3>1, ConstantTypes
    <3>. QED  BY <2>1, <2>2, <2>3, <2>4, <3>2
  <2>. QED  BY <2>2, <2>5, <2>6
<1>2. CASE \/ BeginProbe \/ GiveUp \/ (CandidateFails /\ pc \in Trying) \/ Send
  <2>1. result' # "sample"
        BY <1>2 DEF BeginProbe, GiveUp, CandidateFails, Send, IInv, Counting, Trying, BeforePing
  <2>. QED  BY <2>1
<1>3. CASE \/ TryCandidate \/ Dial \/ SetDeadline \/ BuildRequest
           \/ Cancel \/ Tick \/ UNCHANGED vars \/ \E d \in net : Answer(d)
  <2>1. UNCHANGED <<result, answer, serial, interval>>
        BY <1>3 DEF TryCandidate, Dial, SetDeadline, BuildRequest, Cancel, Tick, Answer, vars
  <2>. QED  BY <2>1 DEF IInv
<1>. QED  BY <1>1, <1>2, <1>3, Failing DEF Next, Step

LEMMA Inductive == IInv /\ [Next]_vars => IInv'
BY TypePreserved, CountingPreserved, ReadingPreserved, BudgetPreserved, OriginPreserved,
   StampsPreserved, ClockPreserved, StalePreserved DEF IInv

-----------------------------------------------------------------------------
\* The probe keeps its types: in particular a probe never passes its last
\* candidate, and every datagram stems from one of them (bedrock.go:138-155).
THEOREM TypeCorrect == Spec => []TypeOK
<1>1. IInv => TypeOK
      BY DEF IInv
<1>. QED  BY <1>1, InitEstablishes, Inductive, PTL DEF Spec

\* Whatever the network loses, delays, repeats or reorders, whichever ports the
\* kernel reuses and however short the interval, a sample that is not from the
\* probe's own ping is from an earlier ping of the same millisecond, built later
\* than an interval less a millisecond after the start of its probe
\* (bedrock.go:205-222, 240-243).
THEOREM SampleOrigin == Spec => []StalePongNeedsLatePing
<1>1. IInv => StalePongNeedsLatePing
      BY DEF IInv
<1>. QED  BY <1>1, InitEstablishes, Inductive, PTL DEF Spec

\* A probe of any number of candidates reads for at most one timeout per
\* candidate (bedrock.go:138-155, 167-173).
THEOREM SocketTime == Spec => []SocketTimeBounded
<1>1. IInv => SocketTimeBounded
      BY DEF IInv, Counting, Reading, SocketTimeBounded
<1>. QED  BY <1>1, InitEstablishes, Inductive, PTL DEF Spec

\* After a cancellation at most one more ping goes out (bedrock.go:141-146).
THEOREM OnePing == Spec => []OnePingAfterCancel
<1>1. IInv => OnePingAfterCancel
      BY DEF IInv, Budget, OnePingAfterCancel
<1>. QED  BY <1>1, InitEstablishes, Inductive, PTL DEF Spec

=============================================================================
