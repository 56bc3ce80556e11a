--------------------------- MODULE DialRaceProofs ---------------------------
(***************************************************************************)
(* Proofs about DialRace for candidate lists of every length and every     *)
(* positive fallback delay.                                                *)
(***************************************************************************)
EXTENDS DialRace, FiniteSetTheorems, TLAPS

(* The inductive invariant, as a conjunction of named parts. *)

\* Where the caller is decides how many goroutines exist and what it has returned.
Phases ==
    /\ caller \in {"call", "single"} => spawned = 0 /\ ret = NoReturn
    /\ caller = "single" => n = 1
    /\ caller = "spawn" => n > 1 /\ spawned < n /\ ret = NoReturn
    /\ caller = "receive" => spawned = n /\ remaining > 0 /\ ret = NoReturn
    /\ spawned > 0 => n > 1
    /\ \A i \in Attempts : pc[i] # "idle" <=> i <= spawned

\* Every result ever sent is in the buffer or was received.
Counting ==
    /\ Len(results) <= Cardinality(Reported)
    /\ caller = "spawn" => Len(results) = Cardinality(Reported)
    /\ caller = "receive" => Len(results) + (n - remaining) = Cardinality(Reported)

\* What the state of an attempt and the contents of the buffer say of its connection.
Connections ==
    /\ \A i \in Attempts : spawned > 0 /\ Unconnected(i) => conn[i] = "none"
    /\ \A i \in Attempts : pc[i] = "connected" => conn[i] = "open"
    /\ caller = "single" => conn[1] = "none"
    /\ spawned = 0 /\ caller # "returned" => \A i \in Attempts : conn[i] = "none"
    /\ \A k \in DOMAIN results :
          /\ pc[results[k].candidate] = "done"
          /\ results[k].got = "conn" => conn[results[k].candidate] = "open"
    /\ ret \in Attempts /\ n > 1 => pc[ret] = "done"

\* A timer is armed for the attempt's own delay, counted from the call or later.
Timers ==
    \A i \in Attempts : pc[i] = "waiting" => due[i] >= StartDelay(i)

IInv ==
    /\ TypeOK
    /\ Phases
    /\ Counting
    /\ Connections
    /\ OpenConnectionsAccounted
    /\ WinnerStaysOpen
    /\ ErrorMeansNoneConnected

-----------------------------------------------------------------------------
(* Lemmas on the delays and on the set of attempts that have reported *)

LEMMA StartDelayNat ==
    ASSUME NEW i \in Attempts
    PROVE  StartDelay(i) \in Nat
<1>1. i - 1 \in Nat
      BY MaxCandidatesAssumption DEF Attempts
<1>2. \A a, b \in Nat : a * b \in Nat
      OBVIOUS
<1>. QED  BY <1>1, <1>2, DelayAssumption DEF StartDelay

LEMMA ReportedBounds ==
    ASSUME TypeOK, Phases
    PROVE  /\ Reported \subseteq 1 .. n
           /\ IsFiniteSet(Reported)
           /\ Cardinality(Reported) \in Nat
           /\ Cardinality(Reported) <= n
           /\ Cardinality(Reported) = n => Reported = 1 .. n
<1>1. /\ IsFiniteSet(1 .. n) 
      /\ Cardinality(1 .. n) = n
      BY FS_Interval DEF TypeOK
<1>2. Reported \subseteq 1 .. n
      BY MaxCandidatesAssumption DEF Reported, Phases, TypeOK, Attempts
<1>. QED  BY <1>1, <1>2, FS_Subset, FS_CardinalityType

\* An attempt that has not reported leaves at least one place in the buffer.
LEMMA RoomToReport ==
    ASSUME TypeOK, Phases, NEW i \in Attempts, pc[i] \notin {"idle", "done"}
    PROVE  Cardinality(Reported) < n
<1>1. i \in 1 .. n /\ i \notin Reported
      BY MaxCandidatesAssumption DEF Reported, Phases, TypeOK, Attempts
<1>2. Cardinality(Reported) # n
      BY <1>1, ReportedBounds
<1>. QED  BY <1>2, ReportedBounds DEF TypeOK

\* A step that leaves every attempt's "done" alone leaves the set alone; Report adds one.
LEMMA ReportedGrows ==
    ASSUME TypeOK, Phases, NEW i \in Attempts, pc[i] # "done",
           pc' = [pc EXCEPT ![i] = "done"]
    PROVE  Cardinality(Reported') = Cardinality(Reported) + 1
<1>1. Reported' = Reported \cup {i}
      BY DEF Reported, TypeOK
<1>2. i \notin Reported
      BY DEF Reported
<1>. QED  BY <1>1, <1>2, ReportedBounds, FS_AddElement

LEMMA ReportedSame ==
    ASSUME TypeOK, NEW i \in Attempts, NEW s \in AttemptStates,
           pc[i] # "done", s # "done", pc' = [pc EXCEPT ![i] = s]
    PROVE  Reported' = Reported
BY DEF Reported, TypeOK

\* The result the caller takes next comes from an attempt that has reported.
LEMMA HeadReported ==
    ASSUME TypeOK, Phases, Connections, results # <<>>
    PROVE  /\ 1 \in DOMAIN results
           /\ Head(results) = results[1]
           /\ results[1] \in Result
           /\ results[1].candidate \in 1 .. n
           /\ pc[results[1].candidate] = "done"
<1>1. results \in Seq(Result)
      BY DEF TypeOK
<1>2. 1 \in DOMAIN results /\ Head(results) = results[1] /\ results[1] \in Result
      BY <1>1
<1>3. results[1].candidate \in Attempts
      BY <1>2 DEF Result
<1>4. pc[results[1].candidate] = "done"
      BY <1>2 DEF Connections
<1>5. results[1].candidate <= spawned
      BY <1>3, <1>4 DEF Phases
<1>. QED  BY <1>2, <1>3, <1>4, <1>5, MaxCandidatesAssumption DEF Attempts, TypeOK

\* Before the first goroutine exists the buffer is empty.
LEMMA NoResultsYet ==
    ASSUME TypeOK, Phases, Counting, spawned = 0
    PROVE  results = <<>>
<1>1. Reported = {}
      BY MaxCandidatesAssumption DEF Reported, Phases, Attempts
<1>2. Len(results) <= 0 /\ Len(results) \in Nat
      BY <1>1, FS_EmptySet DEF Counting, TypeOK
<1>. QED  BY <1>2 DEF TypeOK

LEMMA ResultTypes ==
    ASSUME TypeOK
    PROVE  \A k \in DOMAIN results : results[k] \in Result /\ results[k].candidate \in Attempts
<1>1. \A k \in DOMAIN results : results[k] \in Result
      BY DEF TypeOK
<1>2. \A r \in Result : r.candidate \in Attempts
      BY DEF Result
<1>. QED  BY <1>1, <1>2

\* What the channel holds after an attempt has sent its result.
LEMMA ReportAppends ==
    ASSUME TypeOK, NEW i \in Attempts, results' = Append(results, ResultOf(i))
    PROVE  /\ \A k \in DOMAIN results : k \in DOMAIN results' /\ results'[k] = results[k]
           /\ Len(results) + 1 \in DOMAIN results'
           /\ results'[Len(results) + 1] = ResultOf(i)
           /\ \A k \in DOMAIN results' :
                  \/ k \in DOMAIN results /\ results'[k] = results[k]
                  \/ results'[k] = ResultOf(i)
<1>1. results \in Seq(Result) /\ ResultOf(i) \in Result
      BY DEF TypeOK, Result, ResultOf
<1>2. /\ DOMAIN results = 1 .. Len(results) /\ Len(results) \in Nat
      /\ DOMAIN results' = 1 .. Len(results) + 1
      /\ \A k \in 1 .. Len(results) : results'[k] = results[k]
      /\ results'[Len(results) + 1] = ResultOf(i)
      BY <1>1
<1>. QED  BY <1>2

LEMMA TailElements ==
    ASSUME NEW S, NEW s \in Seq(S), s # <<>>
    PROVE  /\ Tail(s) \in Seq(S)
           /\ Len(Tail(s)) = Len(s) - 1
           /\ \A k \in DOMAIN Tail(s) : k + 1 \in DOMAIN s /\ Tail(s)[k] = s[k + 1]
           /\ \A k \in DOMAIN s : k # 1 => k - 1 \in DOMAIN Tail(s) /\ Tail(s)[k - 1] = s[k]
OBVIOUS

-----------------------------------------------------------------------------

LEMMA InitEstablishes ==
    Init => IInv
<1>. SUFFICES ASSUME Init PROVE IInv
     OBVIOUS
<1>1. TypeOK
  <2>1. results \in Seq(Result)
        BY DEF Init
  <2>2. cancelled \in BOOLEAN /\ parentDone \in BOOLEAN
        BY Zenon DEF Init
  <2>. QED  BY <2>1, <2>2, MaxCandidatesAssumption
            DEF Init, TypeOK, CallerStates, AttemptStates, NoReturn, Failed
<1>2. Phases
      BY DEF Init, Phases, Attempts, NoReturn
<1>3. Counting
      BY <1>1, <1>2, ReportedBounds DEF Init, Counting
<1>4. Connections
      BY MaxCandidatesAssumption DEF Init, Connections, Attempts, NoReturn
<1>5. OpenConnectionsAccounted /\ WinnerStaysOpen /\ ErrorMeansNoneConnected
      BY MaxCandidatesAssumption DEF Init, OpenConnectionsAccounted, WinnerStaysOpen, ErrorMeansNoneConnected,
             Attempts, NoReturn, Failed
<1>. QED  BY <1>1, <1>2, <1>3, <1>4, <1>5 DEF IInv

\* Each action keeps the types.
LEMMA TypePreserved ==
    ASSUME IInv, [Next]_vars
    PROVE  TypeOK'
<1>. USE MaxCandidatesAssumption, DelayAssumption
     DEF IInv, TypeOK, CallerStates, AttemptStates, NoReturn, Failed, Attempts
<1>1. CASE CallEmpty    BY <1>1 DEF CallEmpty, attemptVars
<1>2. CASE CallSingle   BY <1>2 DEF CallSingle, attemptVars
<1>3. CASE CallMany     BY <1>3 DEF CallMany, attemptVars
<1>4. CASE SingleConnects
      BY <1>4 DEF SingleConnects, Phases
<1>5. CASE SingleFails  BY <1>5 DEF SingleFails, attemptVars
<1>6. CASE Spawn
      BY <1>6 DEF Spawn, Goto, Phases
<1>7. CASE ReceiveConn
  <2>1. results[1].candidate \in 1 .. n /\ Head(results) = results[1]
        BY <1>7, HeadReported DEF ReceiveConn
  <2>2. Tail(results) \in Seq(Result)
        BY <1>7 DEF ReceiveConn
  <2>3. ret' \in 1 .. n /\ results' \in Seq(Result)
        BY <1>7, <2>1, <2>2 DEF ReceiveConn
  <2>4. cancelled' \in BOOLEAN
        BY <1>7, Zenon DEF ReceiveConn
  <2>. QED  BY <1>7, <2>3, <2>4 DEF ReceiveConn, attemptVars
<1>8. CASE ReceiveErr
  <2>1. Tail(results) \in Seq(Result)
        BY <1>8 DEF ReceiveErr
  <2>2. cancelled' \in BOOLEAN
    <3>1. CASE remaining = 1
          BY <1>8, <3>1, Zenon DEF ReceiveErr
    <3>2. CASE remaining # 1
          BY <1>8, <3>2, Zenon DEF ReceiveErr
    <3>. QED  BY <3>1, <3>2
  <2>. QED  BY <1>8, <2>1, <2>2 DEF ReceiveErr, attemptVars, Phases
<1>9. ASSUME NEW i \in Attempts, Attempt(i) PROVE TypeOK'
  <2>1. CASE BeginWaiting(i)
        BY <2>1, StartDelayNat DEF BeginWaiting, Goto, callerVars
  <2>2. CASE BeginDialing(i)   BY <2>2 DEF BeginDialing, Goto, callerVars
  <2>3. CASE WaitCancelled(i)  BY <2>3 DEF WaitCancelled, Goto, callerVars
  <2>4. CASE TimerFires(i)     BY <2>4 DEF TimerFires, Goto, callerVars
  <2>5. CASE DialFails(i)      BY <2>5 DEF DialFails, Goto, callerVars
  <2>6. CASE DialConnects(i)   BY <2>6 DEF DialConnects, Goto, callerVars
  <2>7. CASE CheckContext(i)   BY <2>7 DEF CheckContext, Goto, callerVars
  <2>8. CASE Report(i)
    <3>1. ResultOf(i) \in Result
          BY DEF Result, ResultOf
    <3>2. results' \in Seq(Result)
          BY <2>8, <3>1 DEF Report
    <3>. QED  BY <2>8, <3>2 DEF Report, Goto, callerVars
  <2>. QED  BY <1>9, <2>1, <2>2, <2>3, <2>4, <2>5, <2>6, <2>7, <2>8 DEF Attempt
<1>10. CASE ParentCancel  BY <1>10 DEF ParentCancel, callerVars, attemptVars
<1>11. CASE Tick          BY <1>11 DEF Tick, callerVars, attemptVars
<1>12. CASE UNCHANGED vars  BY <1>12 DEF vars
<1>. QED  BY <1>1, <1>2, <1>3, <1>4, <1>5, <1>6, <1>7, <1>8, <1>9, <1>10, <1>11,
             <1>12 DEF Next, Caller

LEMMA PhasesPreserved ==
    ASSUME IInv, TypeOK', [Next]_vars
    PROVE  Phases'
<1>. USE MaxCandidatesAssumption DEF IInv, TypeOK, Phases, NoReturn, Failed, Attempts
<1>1. CASE CallEmpty    BY <1>1 DEF CallEmpty, attemptVars
<1>2. CASE CallSingle   BY <1>2 DEF CallSingle, attemptVars
<1>3. CASE CallMany     BY <1>3 DEF CallMany, attemptVars
<1>4. CASE SingleConnects  BY <1>4 DEF SingleConnects
<1>5. CASE SingleFails  BY <1>5 DEF SingleFails, attemptVars
<1>6. CASE Spawn        BY <1>6 DEF Spawn, Goto
<1>7. CASE ReceiveConn  BY <1>7 DEF ReceiveConn, attemptVars
<1>8. CASE ReceiveErr
  <2>1. /\ UNCHANGED <<n, spawned, pc>>
        /\ remaining = 1 => caller' = "returned"
        /\ remaining # 1 => UNCHANGED <<caller, ret>> /\ caller = "receive" /\ remaining' > 0
        BY <1>8 DEF ReceiveErr, attemptVars
  <2>. QED  BY <2>1
<1>9. ASSUME NEW i \in Attempts, Attempt(i) PROVE Phases'
  <2>1. /\ UNCHANGED callerVars
        /\ pc[i] # "idle"
        /\ \E s \in AttemptStates \ {"idle"} : pc' = [pc EXCEPT ![i] = s]
        BY <1>9 DEF Attempt, BeginWaiting, BeginDialing, WaitCancelled, TimerFires,
                    DialFails, DialConnects, CheckContext, Report, Goto, AttemptStates
  <2>. QED  BY <2>1 DEF callerVars
<1>10. CASE ParentCancel  BY <1>10 DEF ParentCancel, callerVars, attemptVars
<1>11. CASE Tick          BY <1>11 DEF Tick, callerVars, attemptVars
<1>12. CASE UNCHANGED vars  BY <1>12 DEF vars
<1>. QED  BY <1>1, <1>2, <1>3, <1>4, <1>5, <1>6, <1>7, <1>8, <1>9, <1>10, <1>11,
             <1>12 DEF Next, Caller

LEMMA CountingPreserved ==
    ASSUME IInv, TypeOK', [Next]_vars
    PROVE  Counting'
<1>. USE DEF IInv
<1>0. /\ n \in Nat /\ remaining \in Nat /\ Len(results) \in Nat
      /\ Cardinality(Reported) \in Nat
      BY ReportedBounds, MaxCandidatesAssumption DEF TypeOK
<1>1. ASSUME UNCHANGED <<results, pc, n, remaining>>, caller' \in {caller, "single", "returned"}
      PROVE  Counting'
      BY <1>0, <1>1 DEF Counting, Reported
<1>2. CASE CallEmpty \/ CallSingle \/ SingleConnects \/ SingleFails
      BY <1>1, <1>2 DEF CallEmpty, CallSingle, SingleConnects, SingleFails, attemptVars
<1>3. CASE CallMany
  <2>1. Reported = {}
        BY <1>3 DEF CallMany, Reported, Phases, Attempts
  <2>2. Cardinality(Reported) = 0
        BY <2>1, FS_EmptySet
  <2>. QED  BY <1>0, <1>3, <2>2 DEF CallMany, attemptVars, Counting, Reported
<1>4. CASE Spawn
  <2>1. spawned + 1 \in Attempts /\ pc[spawned + 1] = "idle"
        BY <1>4, MaxCandidatesAssumption DEF Spawn, Phases, TypeOK, Attempts
  <2>2. Reported' = Reported
        BY <1>4, <2>1, ReportedSame DEF Spawn, Goto, AttemptStates
  <2>. QED  BY <1>0, <1>4, <2>2 DEF Spawn, Counting
<1>5. CASE ReceiveConn
  <2>1. Len(results') = Len(results) - 1
        BY <1>5 DEF ReceiveConn, TypeOK
  <2>2. Reported' = Reported
        BY <1>5 DEF ReceiveConn, attemptVars, Reported
  <2>. QED  BY <1>0, <1>5, <2>1, <2>2 DEF ReceiveConn, Counting
<1>6. CASE ReceiveErr
  <2>1. Len(results') = Len(results) - 1
        BY <1>6 DEF ReceiveErr, TypeOK
  <2>2. Reported' = Reported
        BY <1>6 DEF ReceiveErr, attemptVars, Reported
  <2>. QED  BY <1>0, <1>6, <2>1, <2>2 DEF ReceiveErr, Counting
<1>7. ASSUME NEW i \in Attempts, Attempt(i), ~ Report(i) PROVE Counting'
  <2>1. /\ UNCHANGED callerVars /\ UNCHANGED results
        /\ pc[i] # "done"
        /\ \E s \in AttemptStates \ {"done"} : pc' = [pc EXCEPT ![i] = s]
        BY <1>7 DEF Attempt, BeginWaiting, BeginDialing, WaitCancelled, TimerFires,
                    DialFails, DialConnects, CheckContext, Goto, AttemptStates
  <2>2. Reported' = Reported
        BY <2>1, ReportedSame
  <2>. QED  BY <1>0, <2>1, <2>2 DEF Counting, callerVars
<1>8. ASSUME NEW i \in Attempts, Report(i) PROVE Counting'
  <2>1. Len(results') = Len(results) + 1
        BY <1>8 DEF Report, TypeOK
  <2>2. Cardinality(Reported') = Cardinality(Reported) + 1
        BY <1>8, ReportedGrows DEF Report, Goto
  <2>. QED  BY <1>0, <1>8, <2>1, <2>2 DEF Report, Counting, callerVars
<1>9. CASE ParentCancel  BY <1>1, <1>9 DEF ParentCancel, callerVars, attemptVars
<1>10. CASE Tick         BY <1>1, <1>10 DEF Tick, callerVars, attemptVars
<1>11. CASE UNCHANGED vars  BY <1>1, <1>11 DEF vars
<1>. QED  BY <1>2, <1>3, <1>4, <1>5, <1>6, <1>7, <1>8, <1>9, <1>10, <1>11
          DEF Next, Caller

LEMMA ConnectionsPreserved ==
    ASSUME IInv, TypeOK', [Next]_vars
    PROVE  Connections'
<1>. USE MaxCandidatesAssumption DEF IInv, Attempts
<1>1. CASE CallEmpty
      BY <1>1 DEF CallEmpty, attemptVars, Connections, Unconnected, TypeOK, Failed, Phases
<1>2. CASE CallSingle
      BY <1>2 DEF CallSingle, attemptVars, Connections, Unconnected, TypeOK, Phases
<1>3. CASE CallMany
      BY <1>3 DEF CallMany, attemptVars, Connections, Unconnected, TypeOK, Phases
<1>4. CASE SingleConnects
  <2>1. results = <<>>
        BY <1>4, NoResultsYet DEF SingleConnects, Phases
  <2>. QED  BY <1>4, <2>1 DEF SingleConnects, Connections, Unconnected, TypeOK, Phases
<1>5. CASE SingleFails
      BY <1>5 DEF SingleFails, attemptVars, Connections, Unconnected, TypeOK, Failed, Phases
<1>6. CASE Spawn
      BY <1>6 DEF Spawn, Goto, Connections, Unconnected, TypeOK, Phases, NoReturn, Result
<1>7. CASE ReceiveConn
  <2>1. ret' \in Attempts /\ pc[ret'] = "done"
        BY <1>7, HeadReported DEF ReceiveConn, TypeOK
  <2>2. \A k \in DOMAIN results' : k + 1 \in DOMAIN results /\ results'[k] = results[k + 1]
        BY <1>7, TailElements DEF ReceiveConn, TypeOK
  <2>. QED  BY <1>7, <2>1, <2>2 DEF ReceiveConn, attemptVars, Connections, Unconnected, Phases
<1>8. CASE ReceiveErr
  <2>1. \A k \in DOMAIN results' : k + 1 \in DOMAIN results /\ results'[k] = results[k + 1]
        BY <1>8, TailElements DEF ReceiveErr, TypeOK
  <2>. QED  BY <1>8, <2>1
            DEF ReceiveErr, attemptVars, Connections, Unconnected, Phases, NoReturn, Failed
<1>9. ASSUME NEW i \in Attempts, Attempt(i), ~ Report(i) PROVE Connections'
  <2>1. /\ UNCHANGED callerVars /\ UNCHANGED results
        /\ pc[i] \notin {"idle", "done"}
        /\ \E s \in AttemptStates \ {"idle", "spawned", "done"} :
              /\ pc' = [pc EXCEPT ![i] = s]
              /\ s = "connected" => conn'[i] = "open"
              /\ s \in {"waiting", "dialing"} => pc[i] \in {"spawned", "waiting"} /\ conn' = conn
        /\ \A j \in Attempts : j # i => conn'[j] = conn[j]
        BY <1>9 DEF Attempt, BeginWaiting, BeginDialing, WaitCancelled, TimerFires,
                    DialFails, DialConnects, CheckContext, Goto, AttemptStates, TypeOK
  <2>2. \A k \in DOMAIN results : results[k].candidate \in Attempts
        BY ResultTypes
  <2>3. spawned > 0
        BY <2>1 DEF Phases, TypeOK
  <2>4. \A j \in Attempts : j # i => pc'[j] = pc[j]
        BY <2>1 DEF TypeOK
  <2>5. \A k \in DOMAIN results' :
          /\ pc'[results'[k].candidate] = "done"
          /\ results'[k].got = "conn" => conn'[results'[k].candidate] = "open"
        BY <2>1, <2>2, <2>4 DEF Connections
  <2>6. \A j \in Attempts : spawned' > 0 /\ Unconnected(j)' => conn'[j] = "none"
        BY <2>1, <2>3, <2>4 DEF Connections, Unconnected, callerVars, TypeOK
  <2>7. \A j \in Attempts : pc'[j] = "connected" => conn'[j] = "open"
        BY <2>1, <2>4 DEF Connections, TypeOK
  <2>. QED  BY <2>1, <2>3, <2>4, <2>5, <2>6, <2>7, SMTT(30)
            DEF callerVars, Connections, Phases, TypeOK
<1>10. ASSUME NEW i \in Attempts, Report(i) PROVE Connections'
  <2>1. \A k \in DOMAIN results' :
           \/ k \in DOMAIN results /\ results'[k] = results[k]
           \/ results'[k] = ResultOf(i)
        BY <1>10, ReportAppends DEF Report
  <2>2. \A k \in DOMAIN results : results[k].candidate \in Attempts
        BY ResultTypes
  <2>3. ASSUME NEW k \in DOMAIN results'
        PROVE  /\ pc'[results'[k].candidate] = "done"
               /\ results'[k].got = "conn" => conn'[results'[k].candidate] = "open"
    <3>1. CASE k \in DOMAIN results /\ results'[k] = results[k]
          BY <1>10, <3>1, <2>2 DEF Report, Goto, Connections, TypeOK
    <3>2. CASE results'[k] = ResultOf(i)
      <4>1. results'[k].candidate = i
            BY <3>2 DEF ResultOf
      <4>2. results'[k].got = "conn" => conn[i] = "open"
            BY <3>2 DEF ResultOf
      <4>3. pc'[i] = "done" /\ conn' = conn
            BY <1>10 DEF Report, Goto, TypeOK
      <4>. QED  BY <4>1, <4>2, <4>3
    <3>. QED  BY <2>1, <3>1, <3>2
  <2>. QED  BY <1>10, <2>3 DEF Report, Goto, callerVars, Connections, Unconnected, TypeOK
<1>11. CASE ParentCancel
       BY <1>11 DEF ParentCancel, callerVars, attemptVars, Connections, Unconnected
<1>12. CASE Tick
       BY <1>12 DEF Tick, callerVars, attemptVars, Connections, Unconnected
<1>13. CASE UNCHANGED vars
       BY <1>13 DEF vars, Connections, Unconnected
<1>. QED  BY <1>1, <1>2, <1>3, <1>4, <1>5, <1>6, <1>7, <1>8, <1>9, <1>10, <1>11,
             <1>12, <1>13 DEF Next, Caller

LEMMA AccountedPreserved ==
    ASSUME IInv, TypeOK', [Next]_vars
    PROVE  OpenConnectionsAccounted'
<1>. USE MaxCandidatesAssumption DEF IInv, Attempts
<1>1. CASE CallEmpty \/ CallSingle \/ CallMany \/ SingleFails
      BY <1>1 DEF CallEmpty, CallSingle, CallMany, SingleFails, attemptVars, Phases,
                  OpenConnectionsAccounted, NoReturn, TypeOK
<1>2. CASE SingleConnects
      BY <1>2 DEF SingleConnects, OpenConnectionsAccounted, Phases, TypeOK
<1>3. CASE Spawn
      BY <1>3 DEF Spawn, Goto, OpenConnectionsAccounted, TypeOK
<1>4. CASE ReceiveConn
  <2>1. /\ ret = NoReturn /\ results # <<>> /\ results' = Tail(results)
        /\ ret' = results[1].candidate
        /\ UNCHANGED <<conn, pc>>
        BY <1>4, HeadReported DEF ReceiveConn, attemptVars, Phases
  <2>2. \A k \in DOMAIN results :
           k # 1 => k - 1 \in DOMAIN results' /\ results'[k - 1] = results[k]
        BY <2>1, TailElements DEF TypeOK
  <2>3. ASSUME NEW j \in Attempts, conn'[j] = "open", pc'[j] = "done", ret' # j
        PROVE  \E k \in DOMAIN results' : results'[k] = [candidate |-> j, got |-> "conn"]
    <3>1. PICK k \in DOMAIN results : results[k] = [candidate |-> j, got |-> "conn"]
          BY <2>1, <2>3 DEF OpenConnectionsAccounted, NoReturn
    <3>2. k # 1
          BY <2>1, <2>3, <3>1
    <3>. QED  BY <2>2, <3>1, <3>2
  <2>. QED  BY <2>3 DEF OpenConnectionsAccounted
<1>5. CASE ReceiveErr
  <2>1. /\ ret = NoReturn /\ results # <<>> /\ results' = Tail(results)
        /\ results[1].got = "err"
        /\ UNCHANGED <<conn, pc>>
        BY <1>5, HeadReported DEF ReceiveErr, attemptVars, Phases
  <2>2. \A k \in DOMAIN results :
           k # 1 => k - 1 \in DOMAIN results' /\ results'[k - 1] = results[k]
        BY <2>1, TailElements DEF TypeOK
  <2>3. ASSUME NEW j \in Attempts, conn'[j] = "open", pc'[j] = "done", ret' # j
        PROVE  \E k \in DOMAIN results' : results'[k] = [candidate |-> j, got |-> "conn"]
    <3>1. PICK k \in DOMAIN results : results[k] = [candidate |-> j, got |-> "conn"]
          BY <2>1, <2>3 DEF OpenConnectionsAccounted, NoReturn
    <3>2. k # 1
          BY <2>1, <2>3, <3>1
    <3>. QED  BY <2>2, <3>1, <3>2
  <2>. QED  BY <2>3 DEF OpenConnectionsAccounted
<1>6. ASSUME NEW i \in Attempts, Attempt(i), ~ Report(i) PROVE OpenConnectionsAccounted'
  <2>1. /\ UNCHANGED callerVars /\ UNCHANGED results
        /\ \E s \in AttemptStates \ {"done"} : pc' = [pc EXCEPT ![i] = s]
        /\ \A j \in Attempts : j # i => conn'[j] = conn[j]
        BY <1>6 DEF Attempt, BeginWaiting, BeginDialing, WaitCancelled, TimerFires,
                    DialFails, DialConnects, CheckContext, Goto, AttemptStates, TypeOK
  <2>. QED  BY <2>1 DEF callerVars, OpenConnectionsAccounted, TypeOK
<1>7. ASSUME NEW i \in Attempts, Report(i) PROVE OpenConnectionsAccounted'
  <2>1. /\ \A k \in DOMAIN results : k \in DOMAIN results' /\ results'[k] = results[k]
        /\ Len(results) + 1 \in DOMAIN results'
        /\ results'[Len(results) + 1] = ResultOf(i)
        BY <1>7, ReportAppends DEF Report
  <2>2. conn[i] = "open" => ResultOf(i) = [candidate |-> i, got |-> "conn"]
        BY DEF ResultOf
  <2>. QED  BY <1>7, <2>1, <2>2 DEF Report, Goto, callerVars, OpenConnectionsAccounted, TypeOK
<1>8. CASE ParentCancel \/ Tick \/ UNCHANGED vars
      BY <1>8 DEF ParentCancel, Tick, vars, callerVars, attemptVars, OpenConnectionsAccounted
<1>. QED  BY <1>1, <1>2, <1>3, <1>4, <1>5, <1>6, <1>7, <1>8 DEF Next, Caller

LEMMA WinnerPreserved ==
    ASSUME IInv, TypeOK', [Next]_vars
    PROVE  WinnerStaysOpen'
<1>. USE MaxCandidatesAssumption DEF IInv, Attempts
<1>1. CASE CallEmpty \/ CallSingle \/ CallMany \/ SingleFails
      BY <1>1 DEF CallEmpty, CallSingle, CallMany, SingleFails, attemptVars,
                  WinnerStaysOpen, Failed
<1>2. CASE SingleConnects
      BY <1>2 DEF SingleConnects, WinnerStaysOpen, TypeOK
<1>3. CASE Spawn
      BY <1>3 DEF Spawn, WinnerStaysOpen
<1>4. CASE ReceiveConn
      BY <1>4, HeadReported DEF ReceiveConn, attemptVars, WinnerStaysOpen, Connections
<1>5. CASE ReceiveErr
      BY <1>5 DEF ReceiveErr, attemptVars, WinnerStaysOpen, Failed
<1>6. ASSUME NEW i \in Attempts, Attempt(i) PROVE WinnerStaysOpen'
  <2>1. /\ ret' = ret /\ n > 1
        /\ pc[i] # "done"
        /\ \A j \in Attempts : j # i => conn'[j] = conn[j]
        BY <1>6, SMTT(30) DEF Attempt, BeginWaiting, BeginDialing, WaitCancelled, TimerFires,
                    DialFails, DialConnects, CheckContext, Report, Goto, TypeOK,
                    callerVars, Phases
  <2>. QED  BY <2>1 DEF WinnerStaysOpen, Connections
<1>7. CASE ParentCancel \/ Tick \/ UNCHANGED vars
      BY <1>7 DEF ParentCancel, Tick, vars, callerVars, attemptVars, WinnerStaysOpen
<1>. QED  BY <1>1, <1>2, <1>3, <1>4, <1>5, <1>6, <1>7 DEF Next, Caller

LEMMA ErrorPreserved ==
    ASSUME IInv, TypeOK', [Next]_vars
    PROVE  ErrorMeansNoneConnected'
<1>. USE MaxCandidatesAssumption DEF IInv, Attempts
<1>1. CASE CallEmpty \/ CallSingle \/ CallMany \/ SingleFails
      BY <1>1 DEF CallEmpty, CallSingle, CallMany, SingleFails, attemptVars,
                  ErrorMeansNoneConnected, Phases, Connections, TypeOK, NoReturn, Failed
<1>2. CASE SingleConnects \/ Spawn \/ ReceiveConn
  <2>1. ret' # Failed
        BY <1>2, HeadReported DEF SingleConnects, Spawn, ReceiveConn, Phases, NoReturn, Failed
  <2>. QED  BY <2>1 DEF ErrorMeansNoneConnected
<1>3. CASE ReceiveErr
  <2>1. CASE remaining # 1
        BY <1>3, <2>1 DEF ReceiveErr, Phases, ErrorMeansNoneConnected, NoReturn, Failed
  <2>2. CASE remaining = 1
    <3>1. Cardinality(Reported) = n /\ Len(results) = 1
      <4>1. Len(results) + (n - 1) = Cardinality(Reported) /\ Len(results) >= 1
        <5>1. 1 \in DOMAIN results /\ results \in Seq(Result)
              BY <1>3, HeadReported DEF ReceiveErr, TypeOK
        <5>2. Len(results) >= 1
              BY <5>1
        <5>. QED  BY <1>3, <2>2, <5>2 DEF ReceiveErr, Counting
      <4>2. n \in Nat /\ Len(results) \in Nat
            BY DEF TypeOK
      <4>3. Cardinality(Reported) \in Nat /\ Cardinality(Reported) <= n
            BY ReportedBounds
      <4>4. \A a, b, c \in Nat : a + (b - 1) = c /\ a >= 1 /\ c <= b => c = b /\ a = 1
            OBVIOUS
      <4>. QED  BY <4>1, <4>2, <4>3, <4>4, Zenon
    <3>2. \A i \in 1 .. n : pc[i] = "done"
          BY <3>1, ReportedBounds DEF Reported
    <3>3. ret = NoReturn /\ results[1].got = "err" /\ DOMAIN results = {1}
          BY <1>3, <3>1, HeadReported DEF ReceiveErr, Phases, TypeOK
    <3>4. \A i \in 1 .. n : conn[i] # "open"
      <4>1. \A i \in 1 .. n : [candidate |-> i, got |-> "conn"] # results[1]
            BY <3>3
      <4>2. ASSUME NEW i \in 1 .. n PROVE conn[i] # "open"
        <5>1. i \in Attempts /\ pc[i] = "done" /\ ret # i
              BY <3>2, <3>3 DEF TypeOK, NoReturn
        <5>. QED  BY <3>3, <4>1, <5>1 DEF OpenConnectionsAccounted
      <4>. QED  BY <4>2
    <3>. QED  BY <1>3, <3>2, <3>4 DEF ReceiveErr, attemptVars, ErrorMeansNoneConnected
  <2>. QED  BY <2>1, <2>2
<1>4. ASSUME NEW i \in Attempts, Attempt(i) PROVE ErrorMeansNoneConnected'
  <2>1. /\ UNCHANGED callerVars
        /\ n > 1 /\ i <= spawned
        /\ pc[i] # "done"
        BY <1>4, SMTT(30) DEF Attempt, BeginWaiting, BeginDialing, WaitCancelled, TimerFires,
                    DialFails, DialConnects, CheckContext, Report, callerVars, Phases, TypeOK
  <2>. QED  BY <2>1 DEF ErrorMeansNoneConnected, callerVars, TypeOK
<1>5. CASE ParentCancel \/ Tick \/ UNCHANGED vars
      BY <1>5 DEF ParentCancel, Tick, vars, callerVars, attemptVars, ErrorMeansNoneConnected
<1>. QED  BY <1>1, <1>2, <1>3, <1>4, <1>5 DEF Next, Caller

-----------------------------------------------------------------------------

LEMMA Inductive ==
    IInv /\ [Next]_vars => IInv'
BY TypePreserved, PhasesPreserved, CountingPreserved, ConnectionsPreserved,
   AccountedPreserved, WinnerPreserved, ErrorPreserved DEF IInv

\* The state of the caller, the attempts, the channel and the clock keeps its
\* type in every behaviour of dialCandidates (client.go:90-152).
THEOREM TypeCorrect == Spec => []TypeOK
<1>1. Init => IInv
      BY InitEstablishes
<1>2. IInv /\ [Next]_vars => IInv'
      BY Inductive
<1>3. IInv => TypeOK
      BY DEF IInv
<1>. QED  BY <1>1, <1>2, <1>3, PTL DEF Spec

\* However long the candidate list, the returned connection is open
\* (client.go:108-115).
THEOREM ReturnCorrect == Spec => []WinnerStaysOpen
<1>1. Init => IInv
      BY InitEstablishes
<1>2. IInv /\ [Next]_vars => IInv'
      BY Inductive
<1>3. IInv => WinnerStaysOpen
      BY DEF IInv
<1>. QED  BY <1>1, <1>2, <1>3, PTL DEF Spec

\* However long the candidate list and whatever the order in which the attempts
\* report, an error means that every one of them has ended without a connection
\* (client.go:108-123).
THEOREM ErrorCorrect == Spec => []ErrorMeansNoneConnected
<1>1. Init => IInv
      BY InitEstablishes
<1>2. IInv /\ [Next]_vars => IInv'
      BY Inductive
<1>3. IInv => ErrorMeansNoneConnected
      BY DEF IInv
<1>. QED  BY <1>1, <1>2, <1>3, PTL DEF Spec

\* A connection left behind by a goroutine that has ended is the returned one or
\* is held by the channel's buffer (client.go:145-151).
THEOREM ConnectionsAccounted == Spec => []OpenConnectionsAccounted
<1>1. Init => IInv
      BY InitEstablishes
<1>2. IInv /\ [Next]_vars => IInv'
      BY Inductive
<1>3. IInv => OpenConnectionsAccounted
      BY DEF IInv
<1>. QED  BY <1>1, <1>2, <1>3, PTL DEF Spec

\* The buffer of len(candidates) places is large enough for every interleaving:
\* no goroutine ever waits to report, with or without a receiver (client.go:102).
THEOREM ChannelSufficient == Spec => []SendNeverBlocks
<1>1. Init => IInv
      BY InitEstablishes
<1>2. IInv /\ [Next]_vars => IInv'
      BY Inductive
<1>3. IInv => SendNeverBlocks
  <2>. SUFFICES ASSUME IInv, NEW i \in Attempts, pc[i] = "report"
                PROVE  Len(results) < Capacity
       BY DEF SendNeverBlocks
  <2>1. Cardinality(Reported) < n
        BY RoomToReport DEF IInv
  <2>2. Len(results) <= Cardinality(Reported) /\ Len(results) \in Nat
        BY DEF IInv, Counting, TypeOK
  <2>. QED  BY <2>1, <2>2, ReportedBounds DEF IInv, Capacity, TypeOK
<1>. QED  BY <1>1, <1>2, <1>3, PTL DEF Spec

-----------------------------------------------------------------------------
(* Staggering *)

LEMMA TimersPreserved ==
    ASSUME TypeOK, Timers, [Next]_vars
    PROVE  Timers'
<1>1. CASE Spawn
      BY <1>1 DEF Spawn, Goto, Timers, TypeOK
<1>2. CASE Caller /\ ~ Spawn
      BY <1>2 DEF Caller, CallEmpty, CallSingle, CallMany, SingleConnects, SingleFails,
                  ReceiveConn, ReceiveErr, attemptVars, Timers
<1>3. ASSUME NEW i \in Attempts, Attempt(i) PROVE Timers'
  <2>1. CASE BeginWaiting(i)
        BY <2>1, StartDelayNat DEF BeginWaiting, Goto, Timers, TypeOK
  <2>2. CASE ~ BeginWaiting(i)
    <3>1. due' = due /\ \E s \in AttemptStates \ {"waiting"} : pc' = [pc EXCEPT ![i] = s]
          BY <1>3, <2>2 DEF Attempt, BeginDialing, WaitCancelled, TimerFires,
                    DialFails, DialConnects, CheckContext, Report, Goto, AttemptStates
    <3>. QED  BY <3>1 DEF Timers, TypeOK
  <2>. QED  BY <2>1, <2>2
<1>4. CASE ParentCancel \/ Tick \/ UNCHANGED vars
      BY <1>4 DEF ParentCancel, Tick, vars, attemptVars, Timers
<1>. QED  BY <1>1, <1>2, <1>3, <1>4 DEF Next

\* Attempt i starts at least i-1 fallback delays after the call, in every
\* schedule of the goroutines and for every delay (client.go:103-106, 127-137).
THEOREM Staggered == Spec => AttemptsAreStaggered
<1>1. Init => IInv /\ Timers
      BY InitEstablishes DEF Init, Timers
<1>2. IInv /\ Timers /\ [Next]_vars => IInv' /\ Timers'
      BY Inductive, TimersPreserved DEF IInv
<1>3. IInv /\ Timers /\ [Next]_vars =>
          [\A i \in Attempts :
              pc[i] # "dialing" /\ pc'[i] = "dialing" => now >= StartDelay(i)]_vars
  <2>. SUFFICES ASSUME IInv, Timers, Next, NEW i \in Attempts,
                       pc[i] # "dialing", pc'[i] = "dialing"
                PROVE  now >= StartDelay(i)
       OBVIOUS
  <2>1. BeginDialing(i) \/ TimerFires(i)
    <3>1. ~ Caller
      <4>1. ~ Spawn
            BY DEF Spawn, Goto, IInv, TypeOK
      <4>. QED  BY <4>1 DEF Caller, CallEmpty, CallSingle, CallMany, SingleConnects,
                  SingleFails, ReceiveConn, ReceiveErr, attemptVars
    <3>2. ~ ParentCancel /\ ~ Tick
          BY DEF ParentCancel, Tick, attemptVars
    <3>3. PICK j \in Attempts : Attempt(j)
          BY <3>1, <3>2 DEF Next
    <3>4. j = i
          BY <3>3 DEF Attempt, BeginWaiting, BeginDialing, WaitCancelled, TimerFires,
                  DialFails, DialConnects, CheckContext, Report, Goto, IInv, TypeOK
    <3>. QED  BY <3>3, <3>4 DEF Attempt, BeginWaiting, WaitCancelled,
                  DialFails, DialConnects, CheckContext, Report, Goto, IInv, TypeOK
  <2>2. StartDelay(i) \in Nat /\ now \in Nat /\ due[i] \in Nat
        BY StartDelayNat DEF IInv, TypeOK
  <2>. QED  BY <2>1, <2>2 DEF BeginDialing, TimerFires, Timers
<1>4. ASSUME IInv, Timers, [Next]_vars
      PROVE  [\A i \in Attempts :
                 pc[i] # "dialing" /\ pc'[i] = "dialing" => now >= (i - 1) * Delay]_vars
      BY <1>3, <1>4 DEF StartDelay
<1>. QED  BY <1>1, <1>2, <1>4, PTL DEF Spec, AttemptsAreStaggered

-----------------------------------------------------------------------------
(* Late successes *)

\* What a done context guarantees of attempt i from then on.
NeverKept(i) ==
    /\ n > 1
    /\ CtxDone
    /\ pc[i] \in {"report", "done"} => conn[i] # "open"

LEMMA NeverKeptStable ==
    ASSUME IInv, NEW i \in Attempts, NeverKept(i), [Next]_vars
    PROVE  NeverKept(i)'
<1>. USE DEF NeverKept, IInv
<1>1. n' = n
      BY DEF Next, Caller, CallEmpty, CallSingle, CallMany, SingleConnects, SingleFails,
             Spawn, ReceiveConn, ReceiveErr, Attempt, BeginWaiting, BeginDialing,
             WaitCancelled, TimerFires, DialFails, DialConnects, CheckContext, Report,
             ParentCancel, Tick, callerVars, vars
<1>2. CtxDone'
  <2>1. /\ cancelled' = cancelled \/ cancelled' = TRUE
        /\ parentDone' = parentDone \/ parentDone' = TRUE
    <3>1. CASE Caller
      <4>1. CASE ReceiveErr
            BY <4>1, Zenon DEF ReceiveErr
      <4>2. CASE ~ ReceiveErr
            BY <3>1, <4>2, Zenon DEF Caller, CallEmpty, CallSingle, CallMany, SingleConnects,
               SingleFails, Spawn, ReceiveConn
      <4>. QED  BY <4>1, <4>2
    <3>2. ASSUME NEW j \in Attempts, Attempt(j)
          PROVE  cancelled' = cancelled /\ parentDone' = parentDone
          BY <3>2, Zenon DEF Attempt, BeginWaiting, BeginDialing,
             WaitCancelled, TimerFires, DialFails, DialConnects, CheckContext, Report
    <3>3. CASE ParentCancel \/ Tick \/ UNCHANGED vars
          BY <3>3, Zenon DEF ParentCancel, Tick, vars
    <3>. QED  BY <3>1, <3>2, <3>3, Zenon DEF Next
  <2>2. cancelled => cancelled'
        BY <2>1
  <2>3. parentDone => parentDone'
        BY <2>1
  <2>. QED  BY <2>2, <2>3 DEF CtxDone
<1>3. pc'[i] \in {"report", "done"} => conn'[i] # "open"
  <2>1. CASE Caller
    <3>1. ~ SingleConnects
          BY DEF SingleConnects, Phases
    <3>2. conn' = conn /\ (pc' = pc \/ pc' = [pc EXCEPT ![spawned + 1] = "spawned"])
          BY <2>1, <3>1 DEF Caller, CallEmpty, CallSingle, CallMany, SingleFails, Spawn,
                ReceiveConn, ReceiveErr, Goto, attemptVars
    <3>. QED  BY <3>2 DEF TypeOK
  <2>2. ASSUME NEW j \in Attempts, Attempt(j)
        PROVE  pc'[i] \in {"report", "done"} => conn'[i] # "open"
    <3>1. CASE j # i
          BY <2>2, <3>1 DEF Attempt, BeginWaiting, BeginDialing, WaitCancelled, TimerFires,
                DialFails, DialConnects, CheckContext, Report, Goto, TypeOK
    <3>2. CASE j = i
      <4>1. spawned > 0
        <5>1. pc[j] # "idle"
              BY <2>2 DEF Attempt, BeginWaiting, BeginDialing, WaitCancelled, TimerFires,
                DialFails, DialConnects, CheckContext, Report
        <5>. QED  BY <5>1, MaxCandidatesAssumption DEF Phases, TypeOK, Attempts
      <4>2. CASE CheckContext(i)
            BY <4>2 DEF CheckContext, TypeOK
      <4>3. CASE ~ CheckContext(i)
            BY <2>2, <3>2, <4>1, <4>3 DEF Attempt, BeginWaiting, BeginDialing, WaitCancelled,
                TimerFires, DialFails, DialConnects, Report, Goto, TypeOK,
                Connections, Unconnected
      <4>. QED  BY <4>2, <4>3
    <3>. QED  BY <3>1, <3>2
  <2>3. CASE ParentCancel \/ Tick \/ UNCHANGED vars
        BY <2>3 DEF ParentCancel, Tick, vars, attemptVars
  <2>. QED  BY <2>1, <2>2, <2>3 DEF Next
<1>. QED  BY <1>1, <1>2, <1>3

\* A goroutine still waiting or dialing when the context is done never ends with
\* an open connection, so what can be left in the buffer was connected before
\* the winner was taken (client.go:145-149).
THEOREM LateLosersClosed == Spec => LateSuccessIsClosed
<1>. SUFFICES ASSUME NEW i \in Attempts
              PROVE  Spec => [](n > 1 /\ CtxDone /\ Unconnected(i) =>
                               [](pc[i] \in {"report", "done"} => conn[i] # "open"))
     BY DEF LateSuccessIsClosed
<1>1. Init => IInv
      BY InitEstablishes
<1>2. IInv /\ [Next]_vars => IInv'
      BY Inductive
<1>3. IInv /\ NeverKept(i) /\ [Next]_vars => NeverKept(i)'
      BY NeverKeptStable
<1>4. n > 1 /\ CtxDone /\ Unconnected(i) => NeverKept(i)
      BY DEF NeverKept, Unconnected
<1>5. NeverKept(i) => (pc[i] \in {"report", "done"} => conn[i] # "open")
      BY DEF NeverKept
<1>. QED  BY <1>1, <1>2, <1>3, <1>4, <1>5, PTL DEF Spec

=============================================================================
