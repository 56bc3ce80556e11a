-------------------------- MODULE TextSessionProofs --------------------------
(***************************************************************************)
(* Proofs about TextSession for every configuration: any count, deadline,  *)
(* interval and timeout, and any number of probes.                         *)
(***************************************************************************)
EXTENDS TextSession, TLAPS

(* The inductive invariant, as a conjunction of named parts. *)

\* Past the checks that stop the loop there is a probe left to send.
ProbesLeft ==
    HasCount /\ pc \in {"start", "clamp", "send", "pace", "sleep"} => transmitted < cfg.count

\* Only the steps from the sending of a probe on may have one probe more than
\* there was at the cancellation.
CancelBudget ==
    ctxDone =>
        IF pc \in Probing \cup {"after", "summary", "returned"}
        THEN transmitted <= atCancel + 1
        ELSE transmitted = atCancel

\* The exit status is set with the return.
ExitAtReturn ==
    /\ pc # "returned" => exit = Running
    /\ pc = "returned" => exit = ExitCode

\* A sleep lasts until one interval after the probe's start, so does the rest of
\* an iteration that does not sleep.
Pacing ==
    /\ probeStart <= now
    /\ pc = "sleep" => wakeAt >= probeStart + cfg.interval
    /\ pc \in {"top", "start"} /\ transmitted > 0 => now >= probeStart + cfg.interval

\* Where the time after the last clock reading went: what the current socket or
\* the current sleep may still take is within the bound already.
Overrun ==
    HasDeadline =>
        /\ pc \in Probing \cup {"send", "after", "pace"} =>
              /\ now + timeout <= DeadlineAt + delay + SocketTime
              /\ probeStart <= DeadlineAt
        /\ pc = "io" => ioDeadline + timeout <= DeadlineAt + delay + SocketTime
        /\ pc = "sleep" => /\ wakeAt <= DeadlineAt + delay + cfg.interval
                           /\ now <= DeadlineAt + delay + cfg.interval
        /\ \/ now + timeout <= DeadlineAt + delay + SocketTime
           \/ now <= DeadlineAt + delay + cfg.interval

IInv ==
    /\ TypeOK
    /\ Accounting
    /\ ProbesLeft
    /\ CancelBudget
    /\ StopsForAReason
    /\ ExitAtReturn
    /\ Pacing
    /\ Overrun

-----------------------------------------------------------------------------

LEMMA ConfigTypes ==
    ASSUME TypeOK
    PROVE  /\ cfg.count \in Nat
           /\ cfg.deadline \in Nat
           /\ cfg.interval \in Nat \ {0}
           /\ cfg.timeout \in Nat \ {0}
BY ConfigsAssumption DEF TypeOK

LEMMA InitEstablishes ==
    Init => IInv
<1>. SUFFICES ASSUME Init PROVE IInv
     OBVIOUS
<1>1. TypeOK
      BY DEF Init, TypeOK, Steps, Running
<1>2. cfg.count \in Nat /\ cfg.deadline \in Nat
      BY <1>1, ConfigTypes
<1>3. SocketTime = 0
      BY DEF Init, SocketTime
<1>4. Overrun
      BY <1>1, <1>2, <1>3 DEF Init, Overrun, HasDeadline, DeadlineAt, Probing
<1>. QED  BY <1>1, <1>2, <1>4 DEF Init, IInv, Accounting, ProbesLeft, CancelBudget,
             StopsForAReason, ExitAtReturn, Pacing, HasCount, Running, Probing

LEMMA TypePreserved ==
    ASSUME TypeOK, [Next]_vars
    PROVE  TypeOK'
<1>. USE ConfigTypes DEF TypeOK, Steps, Running, stats, timing, io, Probing
<1>1. CASE LoopTop         BY <1>1 DEF LoopTop
<1>2. CASE ReadStart       BY <1>2 DEF ReadStart
<1>3. CASE ClampExpired    BY <1>3 DEF ClampExpired
<1>4. CASE Clamp
      BY <1>4 DEF Clamp, DeadlinePassed, DeadlineAt, HasDeadline
<1>5. CASE ProbeReplies    BY <1>5 DEF ProbeReplies
<1>6. CASE ProbeFails      BY <1>6 DEF ProbeFails
<1>7. CASE AfterProbe      BY <1>7 DEF AfterProbe
<1>8. CASE Pace            BY <1>8 DEF Pace
<1>9. CASE SleepEnds       BY <1>9 DEF SleepEnds
<1>10. CASE SleepCancelled BY <1>10 DEF SleepCancelled
<1>11. CASE Summary        BY <1>11 DEF Summary, ExitCode
<1>12. CASE Cancel
  <2>1. ctxDone' \in BOOLEAN
        BY <1>12, Zenon DEF Cancel
  <2>. QED  BY <1>12, <2>1 DEF Cancel
<1>13. CASE Tick           BY <1>13 DEF Tick
<1>14. CASE UNCHANGED vars BY <1>14 DEF vars
<1>15. CASE Send           BY <1>15 DEF Send
<1>16. CASE Connected      BY <1>16 DEF Connected
<1>17. CASE NextCandidate  BY <1>17 DEF NextCandidate
<1>. QED  BY <1>1, <1>2, <1>3, <1>4, <1>5, <1>6, <1>7, <1>8, <1>9, <1>10, <1>11,
             <1>12, <1>13, <1>14, <1>15, <1>16, <1>17 DEF Next, Loop

LEMMA AccountingPreserved ==
    ASSUME IInv, TypeOK', [Next]_vars
    PROVE  Accounting' /\ ProbesLeft'
<1>. USE ConfigTypes DEF IInv, TypeOK, Accounting, ProbesLeft, HasCount, CountReached,
         stats, timing, io, Probing
<1>1. CASE LoopTop         BY <1>1 DEF LoopTop
<1>2. CASE ReadStart       BY <1>2 DEF ReadStart
<1>3. CASE ClampExpired    BY <1>3 DEF ClampExpired
<1>4. CASE Clamp           BY <1>4 DEF Clamp
<1>5. CASE ProbeReplies    BY <1>5 DEF ProbeReplies
<1>6. CASE ProbeFails      BY <1>6 DEF ProbeFails
<1>7. CASE AfterProbe      BY <1>7 DEF AfterProbe
<1>8. CASE Pace            BY <1>8 DEF Pace
<1>9. CASE SleepEnds       BY <1>9 DEF SleepEnds
<1>10. CASE SleepCancelled BY <1>10 DEF SleepCancelled
<1>11. CASE Summary        BY <1>11 DEF Summary
<1>12. CASE Cancel         BY <1>12 DEF Cancel
<1>13. CASE Tick           BY <1>13 DEF Tick
<1>14. CASE UNCHANGED vars BY <1>14 DEF vars
<1>15. CASE Send           BY <1>15 DEF Send
<1>16. CASE Connected      BY <1>16 DEF Connected
<1>17. CASE NextCandidate  BY <1>17 DEF NextCandidate
<1>. QED  BY <1>1, <1>2, <1>3, <1>4, <1>5, <1>6, <1>7, <1>8, <1>9, <1>10, <1>11,
             <1>12, <1>13, <1>14, <1>15, <1>16, <1>17 DEF Next, Loop

LEMMA CancelPreserved ==
    ASSUME IInv, TypeOK', [Next]_vars
    PROVE  CancelBudget'
<1>. USE DEF IInv, TypeOK, CancelBudget, stats, timing, io, Probing
<1>1. CASE LoopTop         BY <1>1 DEF LoopTop
<1>2. CASE ReadStart       BY <1>2 DEF ReadStart
<1>3. CASE ClampExpired    BY <1>3 DEF ClampExpired
<1>4. CASE Clamp           BY <1>4 DEF Clamp
<1>5. CASE ProbeReplies    BY <1>5 DEF ProbeReplies
<1>6. CASE ProbeFails      BY <1>6 DEF ProbeFails
<1>7. CASE AfterProbe      BY <1>7 DEF AfterProbe
<1>8. CASE Pace            BY <1>8 DEF Pace
<1>9. CASE SleepEnds       BY <1>9 DEF SleepEnds
<1>10. CASE SleepCancelled BY <1>10 DEF SleepCancelled
<1>11. CASE Summary        BY <1>11 DEF Summary
<1>12. CASE Cancel         BY <1>12 DEF Cancel
<1>13. CASE Tick           BY <1>13 DEF Tick
<1>14. CASE UNCHANGED vars BY <1>14 DEF vars
<1>15. CASE Send           BY <1>15 DEF Send
<1>16. CASE Connected      BY <1>16 DEF Connected
<1>17. CASE NextCandidate  BY <1>17 DEF NextCandidate
<1>. QED  BY <1>1, <1>2, <1>3, <1>4, <1>5, <1>6, <1>7, <1>8, <1>9, <1>10, <1>11,
             <1>12, <1>13, <1>14, <1>15, <1>16, <1>17 DEF Next, Loop

LEMMA ReasonPreserved ==
    ASSUME IInv, TypeOK', Accounting', [Next]_vars
    PROVE  StopsForAReason' /\ ExitAtReturn'
<1>. USE ConfigTypes DEF IInv, TypeOK, StopsForAReason, ExitAtReturn, ExitCode, HasCount,
         HasDeadline, DeadlineAt, CountReached, DeadlinePassed, stats, timing, io, Probing
<1>1. CASE LoopTop         BY <1>1 DEF LoopTop, Accounting
<1>2. CASE ReadStart       BY <1>2 DEF ReadStart
<1>3. CASE ClampExpired    BY <1>3 DEF ClampExpired
<1>4. CASE Clamp           BY <1>4 DEF Clamp
<1>5. CASE ProbeReplies    BY <1>5 DEF ProbeReplies
<1>6. CASE ProbeFails      BY <1>6 DEF ProbeFails
<1>7. CASE AfterProbe      BY <1>7 DEF AfterProbe, Accounting
<1>8. CASE Pace            BY <1>8 DEF Pace
<1>9. CASE SleepEnds       BY <1>9 DEF SleepEnds
<1>10. CASE SleepCancelled BY <1>10 DEF SleepCancelled
<1>11. CASE Summary        BY <1>11 DEF Summary
<1>12. CASE Cancel         BY <1>12 DEF Cancel
<1>13. CASE Tick           BY <1>13 DEF Tick
<1>14. CASE UNCHANGED vars BY <1>14 DEF vars
<1>15. CASE Send           BY <1>15 DEF Send
<1>16. CASE Connected      BY <1>16 DEF Connected
<1>17. CASE NextCandidate  BY <1>17 DEF NextCandidate
<1>. QED  BY <1>1, <1>2, <1>3, <1>4, <1>5, <1>6, <1>7, <1>8, <1>9, <1>10, <1>11,
             <1>12, <1>13, <1>14, <1>15, <1>16, <1>17 DEF Next, Loop

LEMMA PacingPreserved ==
    ASSUME IInv, TypeOK', [Next]_vars
    PROVE  Pacing'
<1>. USE ConfigTypes DEF IInv, TypeOK, Pacing, stats, timing, io, Probing
<1>1. CASE LoopTop         BY <1>1 DEF LoopTop
<1>2. CASE ReadStart       BY <1>2 DEF ReadStart
<1>3. CASE ClampExpired    BY <1>3 DEF ClampExpired
<1>4. CASE Clamp           BY <1>4 DEF Clamp
<1>5. CASE ProbeReplies    BY <1>5 DEF ProbeReplies
<1>6. CASE ProbeFails      BY <1>6 DEF ProbeFails
<1>7. CASE AfterProbe      BY <1>7 DEF AfterProbe
<1>8. CASE Pace            BY <1>8 DEF Pace
<1>9. CASE SleepEnds       BY <1>9 DEF SleepEnds
<1>10. CASE SleepCancelled BY <1>10 DEF SleepCancelled
<1>11. CASE Summary        BY <1>11 DEF Summary
<1>12. CASE Cancel         BY <1>12 DEF Cancel
<1>13. CASE Tick           BY <1>13 DEF Tick
<1>14. CASE UNCHANGED vars BY <1>14 DEF vars
<1>15. CASE Send           BY <1>15 DEF Send
<1>16. CASE Connected      BY <1>16 DEF Connected
<1>17. CASE NextCandidate  BY <1>17 DEF NextCandidate
<1>. QED  BY <1>1, <1>2, <1>3, <1>4, <1>5, <1>6, <1>7, <1>8, <1>9, <1>10, <1>11,
             <1>12, <1>13, <1>14, <1>15, <1>16, <1>17 DEF Next, Loop

\* One more socket has one more timeout.
LEMMA SocketTimes ==
    ASSUME NEW k \in Nat, NEW t \in Nat
    PROVE  k * t \in Nat /\ (k + 1) * t = k * t + t /\ 0 * t = 0
OBVIOUS

LEMMA OverrunPreserved ==
    ASSUME IInv, TypeOK', [Next]_vars
    PROVE  Overrun'
<1>0. /\ now \in Nat /\ timeout \in Nat /\ delay \in Nat /\ sockets \in Nat
      /\ probeStart \in Nat /\ wakeAt \in Nat /\ ioDeadline \in Nat /\ SocketTime \in Nat
      /\ cfg.deadline \in Nat /\ cfg.interval \in Nat /\ Overrun /\ Pacing
      BY ConfigTypes, SocketTimes DEF IInv, TypeOK, SocketTime
<1>. USE <1>0 DEF Overrun, HasDeadline, DeadlineAt, Probing
<1>1. CASE Clamp
  <2>1. /\ SocketTime' = 0 /\ delay' = 0 /\ now' = now /\ pc' = "send" /\ cfg' = cfg
        /\ probeStart' = probeStart
        BY <1>1, SocketTimes DEF Clamp, SocketTime, TypeOK
  <2>2. timeout' \in Nat /\ (cfg.deadline > 0 => now + timeout' <= cfg.deadline)
        BY <1>1, ConfigTypes DEF Clamp, DeadlinePassed, IInv, TypeOK
  <2>. QED  BY <2>1, <2>2 DEF Pacing
<1>2. CASE Connected
  <2>1. SocketTime' = SocketTime + timeout
        BY <1>2, SocketTimes DEF Connected, timing, SocketTime
  <2>. QED  BY <1>2, <2>1 DEF Connected, timing
<1>3. CASE Pace
  <2>1. SocketTime' = SocketTime
        BY <1>3 DEF Pace, io, SocketTime
  <2>. QED  BY <1>3, <2>1 DEF Pace, io
<1>4. CASE Tick
  <2>1. SocketTime' = SocketTime
        BY <1>4 DEF Tick, timing, SocketTime
  <2>. QED  BY <1>4, <2>1 DEF Tick, Limited, timing
<1>5. CASE \/ LoopTop \/ ReadStart \/ ClampExpired \/ Send \/ NextCandidate
           \/ ProbeReplies \/ ProbeFails \/ AfterProbe \/ SleepEnds \/ SleepCancelled
           \/ Summary \/ Cancel \/ UNCHANGED vars
  <2>1. /\ UNCHANGED <<sockets, timeout, delay, now, cfg, ioDeadline, wakeAt>>
        /\ pc' = "io" => pc = "io"
        /\ pc' = "sleep" => pc = "sleep"
        /\ pc' \in Probing \cup {"send", "after", "pace"} =>
              /\ pc \in Probing \cup {"send", "after", "pace"}
              /\ probeStart' = probeStart
        BY <1>5 DEF LoopTop, ReadStart, ClampExpired, Send, NextCandidate, ProbeReplies,
              ProbeFails, AfterProbe, SleepEnds, SleepCancelled, Summary, Cancel, vars,
              timing, io
  <2>2. SocketTime' = SocketTime
        BY <2>1 DEF SocketTime
  <2>. QED  BY <2>1, <2>2
<1>. QED  BY <1>1, <1>2, <1>3, <1>4, <1>5 DEF Next, Loop

LEMMA Inductive ==
    IInv /\ [Next]_vars => IInv'
BY TypePreserved, AccountingPreserved, CancelPreserved, ReasonPreserved,
   PacingPreserved, OverrunPreserved DEF IInv

-----------------------------------------------------------------------------

\* The loop's state keeps its type for every configuration (session.go:105-211).
THEOREM TypeCorrect == Spec => []TypeOK
<1>1. IInv => TypeOK
      BY DEF IInv
<1>. QED  BY <1>1, InitEstablishes, Inductive, PTL DEF Spec

\* Probe numbers, replies and the count agree in sessions of any length
\* (session.go:121-160).
THEOREM AccountingCorrect == Spec => []Accounting
<1>1. IInv => Accounting
      BY DEF IInv
<1>. QED  BY <1>1, InitEstablishes, Inductive, PTL DEF Spec

\* At most one probe follows a cancellation, for every interval and every
\* duration of the probes (session.go:45-47, 162-164).
THEOREM CancelCorrect == Spec => []OneProbeAfterCancel
<1>1. IInv => OneProbeAfterCancel
      BY DEF IInv, TypeOK, CancelBudget, OneProbeAfterCancel
<1>. QED  BY <1>1, InitEstablishes, Inductive, PTL DEF Spec

\* A session ends only by cancellation, by its count or by its deadline
\* (session.go:123-139, 162-175).
THEOREM ReasonCorrect == Spec => []StopsForAReason
<1>1. IInv => StopsForAReason
      BY DEF IInv
<1>. QED  BY <1>1, InitEstablishes, Inductive, PTL DEF Spec

\* What status 0 promises, for every count and deadline (session.go:204-210).
THEOREM ExitCorrect == Spec => []ExitZeroIsEarned
<1>1. IInv => ExitZeroIsEarned
  <2>. SUFFICES ASSUME IInv, exit = 0
                PROVE  /\ received > 0
                       /\ HasCount /\ HasDeadline =>
                             received = cfg.count /\ transmitted = cfg.count
       BY DEF ExitZeroIsEarned
  <2>1. ExitCode = 0
        BY DEF IInv, ExitAtReturn, Running
  <2>2. received > 0 /\ (HasCount /\ HasDeadline => ~ (received < cfg.count))
        BY <2>1 DEF ExitCode, IInv, TypeOK
  <2>. QED  BY <2>2, ConfigTypes DEF IInv, TypeOK, Accounting
<1>. QED  BY <1>1, InitEstablishes, Inductive, PTL DEF Spec

\* The interval is the minimum time between two probe starts, for every interval
\* and every delay of the scheduler between the clock readings
\* (session.go:130, 172-175).
THEOREM PacingCorrect == Spec => StartsArePaced
<1>1. IInv /\ [Next]_vars =>
         [pc = "start" /\ pc' = "clamp" /\ transmitted > 0 =>
             probeStart' - probeStart >= cfg.interval]_vars
  <2>. SUFFICES ASSUME IInv, Next, pc = "start", pc' = "clamp", transmitted > 0
                PROVE  probeStart' - probeStart >= cfg.interval
       OBVIOUS
  <2>1. probeStart' = now
        BY DEF Next, Loop, LoopTop, ReadStart, ClampExpired, Clamp, Send, Connected,
               NextCandidate, ProbeReplies, ProbeFails, AfterProbe, Pace, SleepEnds, SleepCancelled, Summary, Cancel, Tick
  <2>. QED  BY <2>1, ConfigTypes DEF IInv, TypeOK, Pacing
<1>. QED  BY <1>1, InitEstablishes, Inductive, PTL DEF Spec, StartsArePaced

\* The overrun of a deadline is the time nothing limits plus one timeout for
\* every socket after the first, or one interval, for every deadline, timeout,
\* interval and number of Bedrock candidates
\* (session.go:126-143, 166-175, java.go:125-131, bedrock.go:140-173).
THEOREM OverrunCorrect == Spec => []OverrunIsAccountedFor
<1>1. IInv => OverrunIsAccountedFor
      BY DEF IInv, Overrun, OverrunIsAccountedFor
<1>. QED  BY <1>1, InitEstablishes, Inductive, PTL DEF Spec

-----------------------------------------------------------------------------
(* Refinement: the loop implements the abstract session. *)

LEMMA PromiseInit ==
    Init => Promise!Init
BY DEF Init, Promise!Init, Running, Probing

\* The abstract session decides with the last clock reading.
LEMMA PromiseDecide ==
    ASSUME IInv, Clamp
    PROVE  Promise!Decide
<1>1. pc = "clamp" /\ pc' = "send" /\ exit = Running
      BY DEF Clamp, IInv, ExitAtReturn
<1>2. Promise!CountLeft /\ Promise!TimeLeft
      BY <1>1 DEF Clamp, IInv, ProbesLeft, HasCount, DeadlinePassed, HasDeadline,
                  DeadlineAt, Promise!CountLeft, Promise!TimeLeft
<1>3. ctxDone => transmitted = atCancel
      BY <1>1 DEF IInv, CancelBudget, Probing
<1>. QED  BY <1>1, <1>2, <1>3 DEF Clamp, stats, Probing, Promise!Decide

\* It has its grace until the probe is sent.
LEMMA PromiseSend ==
    ASSUME IInv, Send
    PROVE  Promise!Send
<1>1. transmitted' = transmitted + 1 /\ pc = "send" /\ pc' = "setup"
      BY DEF Send
<1>2. ctxDone => transmitted = atCancel
      BY <1>1 DEF IInv, CancelBudget, Probing
<1>3. (ctxDone => transmitted = atCancel)' = ~ ctxDone
      BY <1>1, <1>2 DEF Send, IInv, TypeOK
<1>. QED  BY <1>1, <1>3 DEF Send, Probing, Promise!Send

\* With a count and a deadline the replies are never more than the count, so the
\* code's comparison is the equality of the abstract session.
LEMMA PromiseFinish ==
    ASSUME IInv, Summary
    PROVE  Promise!Finish
<1>1. pc = "summary" /\ pc' = "returned" /\ exit = Running /\ exit' = ExitCode
      BY DEF Summary, IInv, ExitAtReturn
<1>2. ctxDone \/ ~ Promise!CountLeft \/ ~ Promise!TimeLeft
      BY <1>1, ConfigTypes DEF IInv, TypeOK, StopsForAReason, HasCount, HasDeadline,
                  DeadlineAt, Promise!CountLeft, Promise!TimeLeft
<1>3. ExitCode = IF /\ received > 0
                    /\ cfg.count > 0 /\ cfg.deadline > 0 => received = cfg.count
                 THEN 0 ELSE 1
      BY ConfigTypes DEF ExitCode, HasCount, HasDeadline, IInv, TypeOK, Accounting
<1>. QED  BY <1>1, <1>2, <1>3 DEF Summary, stats, timing, io, Probing, Promise!Finish

LEMMA PromiseStep ==
    ASSUME IInv, [Next]_vars
    PROVE  [Promise!Next]_(Promise!vars)
<1>. USE DEF Promise!vars, stats, timing, io, Probing
<1>1. CASE LoopTop         BY <1>1 DEF LoopTop
<1>2. CASE ReadStart       BY <1>2 DEF ReadStart
<1>3. CASE ClampExpired    BY <1>3 DEF ClampExpired
<1>4. CASE Clamp           BY <1>4, PromiseDecide DEF Promise!Next
<1>5. CASE ProbeReplies    BY <1>5 DEF ProbeReplies, Promise!Next, Promise!Complete
<1>6. CASE ProbeFails      BY <1>6 DEF ProbeFails, Promise!Next, Promise!Complete
<1>7. CASE AfterProbe      BY <1>7 DEF AfterProbe
<1>8. CASE Pace            BY <1>8 DEF Pace
<1>9. CASE SleepEnds       BY <1>9 DEF SleepEnds
<1>10. CASE SleepCancelled BY <1>10 DEF SleepCancelled
<1>11. CASE Summary        BY <1>11, PromiseFinish DEF Promise!Next
<1>12. CASE Cancel         BY <1>12 DEF Cancel, Promise!Next, Promise!Cancel
<1>13. CASE Tick           BY <1>13 DEF Tick, Promise!Next, Promise!Tick
<1>14. CASE UNCHANGED vars BY <1>14 DEF vars
<1>15. CASE Send           BY <1>15, PromiseSend DEF Promise!Next
<1>16. CASE Connected      BY <1>16 DEF Connected
<1>17. CASE NextCandidate  BY <1>17 DEF NextCandidate
<1>. QED  BY <1>1, <1>2, <1>3, <1>4, <1>5, <1>6, <1>7, <1>8, <1>9, <1>10, <1>11,
             <1>12, <1>13, <1>14, <1>15, <1>16, <1>17 DEF Next, Loop

\* The loop of runTextSession implements the abstract session, for every count,
\* deadline, interval and timeout and every sequence of clock readings
\* (session.go:105-211).
THEOREM RefinesSession == Spec => ImplementsSession
<1>. QED  BY InitEstablishes, Inductive, PromiseInit, PromiseStep, PTL
          DEF Spec, ImplementsSession, Promise!Spec

=============================================================================
