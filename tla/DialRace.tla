------------------------------ MODULE DialRace ------------------------------
(***************************************************************************)
(* The staggered TCP dial of client.go: pingClient.dialCandidates starts   *)
(* one goroutine per resolved address, each with its own start delay       *)
(* (dialCandidateAfterDelay), and returns the first connection reported on *)
(* a buffered channel, or an error when every attempt failed.              *)
(*                                                                         *)
(* The processes are the caller (the goroutine inside dialCandidates) and  *)
(* the attempts 1..n.  Attempt i is the code's candidate i-1.  An error is *)
(* an error whatever its text, and a result carries only its candidate and *)
(* whether it holds a connection.  The clock advances while some timer is  *)
(* armed and not yet due: at every other moment the passage of time has no *)
(* effect on the race.                                                     *)
(***************************************************************************)
EXTENDS Integers, Sequences, FiniteSets

CONSTANTS
    MaxCandidates,  \* bound: the longest candidate list considered
    Delay           \* dialFallbackDelay, in clock ticks

\* withDefaults (client.go:42) replaces a delay that is not positive.
ASSUME DelayAssumption == Delay \in Nat \ {0}
ASSUME MaxCandidatesAssumption == MaxCandidates \in Nat

Attempts == 1 .. MaxCandidates
NoReturn == 0        \* dialCandidates has not returned
Failed   == -1       \* dialCandidates has returned an error

VARIABLES
    n,          \* len(candidates), fixed by the call
    caller,     \* where dialCandidates is
    spawned,    \* goroutines started so far by its loop
    remaining,  \* the receive loop's counter
    ret,        \* NoReturn, Failed, or the candidate whose connection it returned
    parentDone, \* the context passed in is done
    cancelled,  \* cancel() has been called on the derived context
    results,    \* the buffered channel
    pc,         \* where each attempt is
    due,        \* when the timer of a waiting attempt fires
    conn,       \* the connection each attempt opened
    now         \* the clock, 0 when dialCandidates is called

vars == <<n, caller, spawned, remaining, ret, parentDone, cancelled, results,
          pc, due, conn, now>>

callerVars  == <<n, caller, spawned, remaining, ret>>
attemptVars == <<pc, due, conn>>

CallerStates  == {"call", "single", "spawn", "receive", "returned"}
AttemptStates == {"idle", "spawned", "waiting", "dialing", "connected",
                  "report", "done"}

\* dialAttemptResult: a connection or an error.
Result == [candidate : Attempts, got : {"conn", "err"}]

TypeOK ==
    /\ n \in 0 .. MaxCandidates
    /\ caller \in CallerStates
    /\ spawned \in 0 .. n
    /\ remaining \in 0 .. n
    /\ ret \in {NoReturn, Failed} \cup 1 .. n
    /\ parentDone \in BOOLEAN
    /\ cancelled \in BOOLEAN
    /\ results \in Seq(Result)
    /\ pc \in [Attempts -> AttemptStates]
    /\ due \in [Attempts -> Nat]
    /\ conn \in [Attempts -> {"none", "open", "closed"}]
    /\ now \in Nat

-----------------------------------------------------------------------------
(* Helpers *)

\* ctx.Err() # nil for the derived context: cancel() was called or the parent is done.
CtxDone == cancelled \/ parentDone

\* Faulty variant: every attempt but the first has the same delay.
SameDelay(i) == IF i = 1 THEN 0 ELSE Delay

\* The start delay of attempt i, time.Duration(i) * c.dialFallbackDelay from 0.
StartDelay(i) == (i - 1) * Delay

\* Faulty variant: a buffer for one result whatever the number of candidates.
CapacityOne == 1

\* make(chan dialAttemptResult, len(candidates))
Capacity == n

\* The attempts that have sent their result.
Reported == {i \in Attempts : pc[i] = "done"}

Goto(i, state) == pc' = [pc EXCEPT ![i] = state]

-----------------------------------------------------------------------------
(* The caller: dialCandidates *)

Init ==
    /\ n \in 0 .. MaxCandidates
    /\ caller = "call"
    /\ spawned = 0
    /\ remaining = 0
    /\ ret = NoReturn
    /\ parentDone \in BOOLEAN
    /\ cancelled = FALSE
    /\ results = <<>>
    /\ pc = [i \in Attempts |-> "idle"]
    /\ due = [i \in Attempts |-> 0]
    /\ conn = [i \in Attempts |-> "none"]
    /\ now = 0

\* An empty list is an error at once.
CallEmpty ==
    /\ caller = "call" /\ n = 0
    /\ caller' = "returned"
    /\ ret' = Failed
    /\ UNCHANGED <<n, spawned, remaining, parentDone, cancelled, results, now>>
    /\ UNCHANGED attemptVars

\* A single candidate is dialed by the caller itself with the caller's context.
CallSingle ==
    /\ caller = "call" /\ n = 1
    /\ caller' = "single"
    /\ UNCHANGED <<n, spawned, remaining, ret, parentDone, cancelled, results, now>>
    /\ UNCHANGED attemptVars

SingleConnects ==
    /\ caller = "single"
    /\ caller' = "returned"
    /\ conn' = [conn EXCEPT ![1] = "open"]
    /\ ret' = 1
    /\ UNCHANGED <<n, spawned, remaining, parentDone, cancelled, results, pc, due, now>>

SingleFails ==
    /\ caller = "single"
    /\ caller' = "returned"
    /\ ret' = Failed
    /\ UNCHANGED <<n, spawned, remaining, parentDone, cancelled, results, now>>
    /\ UNCHANGED attemptVars

CallMany ==
    /\ caller = "call" /\ n > 1
    /\ caller' = "spawn"
    /\ UNCHANGED <<n, spawned, remaining, ret, parentDone, cancelled, results, now>>
    /\ UNCHANGED attemptVars

\* One iteration of the spawning loop; the last one enters the receive loop.
Spawn ==
    /\ caller = "spawn"
    /\ spawned' = spawned + 1
    /\ Goto(spawned + 1, "spawned")
    /\ IF spawned + 1 = n
       THEN caller' = "receive" /\ remaining' = n
       ELSE UNCHANGED <<caller, remaining>>
    /\ UNCHANGED <<n, ret, parentDone, cancelled, results, due, conn, now>>

\* A result with a connection: cancel the others and return it.
ReceiveConn ==
    /\ caller = "receive" /\ results # <<>>
    /\ Head(results).got = "conn"
    /\ results' = Tail(results)
    /\ cancelled' = TRUE
    /\ caller' = "returned"
    /\ ret' = Head(results).candidate
    /\ UNCHANGED <<n, spawned, remaining, parentDone, now>>
    /\ UNCHANGED attemptVars

\* Faulty variant: the loop ends one result early.
ReceiveErrTooFew ==
    /\ caller = "receive" /\ results # <<>>
    /\ Head(results).got = "err"
    /\ results' = Tail(results)
    /\ remaining' = remaining - 1
    /\ IF remaining = 2
       THEN caller' = "returned" /\ ret' = Failed /\ cancelled' = TRUE
       ELSE UNCHANGED <<caller, ret, cancelled>>
    /\ UNCHANGED <<n, spawned, parentDone, now>>
    /\ UNCHANGED attemptVars

\* A result with an error: keep it, and after the last one return the joined
\* errors (the deferred cancel() runs on that return).
ReceiveErr ==
    /\ caller = "receive" /\ results # <<>>
    /\ Head(results).got = "err"
    /\ results' = Tail(results)
    /\ remaining' = remaining - 1
    /\ IF remaining = 1
       THEN caller' = "returned" /\ ret' = Failed /\ cancelled' = TRUE
       ELSE UNCHANGED <<caller, ret, cancelled>>
    /\ UNCHANGED <<n, spawned, parentDone, now>>
    /\ UNCHANGED attemptVars

Caller ==
    \/ CallEmpty \/ CallSingle \/ CallMany
    \/ SingleConnects \/ SingleFails
    \/ Spawn \/ ReceiveConn \/ ReceiveErr

-----------------------------------------------------------------------------
(* An attempt: dialCandidateAfterDelay *)

\* With a delay, arm the timer and enter the select.
BeginWaiting(i) ==
    /\ pc[i] = "spawned" /\ StartDelay(i) > 0
    /\ Goto(i, "waiting")
    /\ due' = [due EXCEPT ![i] = now + StartDelay(i)]
    /\ UNCHANGED <<parentDone, cancelled, results, conn, now>>
    /\ UNCHANGED callerVars

\* Without one, dial at once.
BeginDialing(i) ==
    /\ pc[i] = "spawned" /\ ~ (StartDelay(i) > 0)
    /\ Goto(i, "dialing")
    /\ UNCHANGED <<parentDone, cancelled, results, due, conn, now>>
    /\ UNCHANGED callerVars

\* The two cases of the select.  Both may be ready; Go then takes either one.
WaitCancelled(i) ==
    /\ pc[i] = "waiting" /\ CtxDone
    /\ Goto(i, "report")
    /\ UNCHANGED <<parentDone, cancelled, results, due, conn, now>>
    /\ UNCHANGED callerVars

TimerFires(i) ==
    /\ pc[i] = "waiting" /\ due[i] <= now
    /\ Goto(i, "dialing")
    /\ UNCHANGED <<parentDone, cancelled, results, due, conn, now>>
    /\ UNCHANGED callerVars

\* The dialer may fail at any time.  A done context makes it fail sooner, but
\* a connection established at that moment may still be handed back.
DialFails(i) ==
    /\ pc[i] = "dialing"
    /\ Goto(i, "report")
    /\ UNCHANGED <<parentDone, cancelled, results, due, conn, now>>
    /\ UNCHANGED callerVars

DialConnects(i) ==
    /\ pc[i] = "dialing"
    /\ Goto(i, "connected")
    /\ conn' = [conn EXCEPT ![i] = "open"]
    /\ UNCHANGED <<parentDone, cancelled, results, due, now>>
    /\ UNCHANGED callerVars

\* Faulty variant: no connection is closed after the dial.
CheckNothing(i) ==
    /\ pc[i] = "connected"
    /\ Goto(i, "report")
    /\ UNCHANGED <<parentDone, cancelled, results, due, conn, now>>
    /\ UNCHANGED callerVars

\* The look at ctx.Err() after the dial, which closes a connection that came too late.
CheckContext(i) ==
    /\ pc[i] = "connected"
    /\ Goto(i, "report")
    /\ conn' = [conn EXCEPT ![i] = IF CtxDone THEN "closed" ELSE @]
    /\ UNCHANGED <<parentDone, cancelled, results, due, now>>
    /\ UNCHANGED callerVars

\* Faulty variants: a connection that was closed reported as a success; the context
\* looked at again when the result is sent.
ResultClosed(i) ==
    [candidate |-> i, got |-> IF conn[i] # "none" THEN "conn" ELSE "err"]
ResultRechecked(i) ==
    [candidate |-> i, got |-> IF conn[i] = "open" /\ ~ CtxDone THEN "conn" ELSE "err"]

\* What an attempt reports: its connection, or an error.
ResultOf(i) ==
    [candidate |-> i, got |-> IF conn[i] = "open" THEN "conn" ELSE "err"]

\* results <- ..., possible while the buffer has room.
Report(i) ==
    /\ pc[i] = "report" /\ Len(results) < Capacity
    /\ Goto(i, "done")
    /\ results' = Append(results, ResultOf(i))
    /\ UNCHANGED <<parentDone, cancelled, due, conn, now>>
    /\ UNCHANGED callerVars

Attempt(i) ==
    \/ BeginWaiting(i) \/ BeginDialing(i)
    \/ WaitCancelled(i) \/ TimerFires(i)
    \/ DialFails(i) \/ DialConnects(i)
    \/ CheckContext(i) \/ Report(i)

-----------------------------------------------------------------------------
(* The environment *)

\* A signal, or the end of the program, cancels the caller's context.
ParentCancel ==
    /\ ~ parentDone
    /\ parentDone' = TRUE
    /\ UNCHANGED <<cancelled, results, now>>
    /\ UNCHANGED callerVars
    /\ UNCHANGED attemptVars

Tick ==
    /\ \E i \in Attempts : pc[i] = "waiting" /\ now < due[i]
    /\ now' = now + 1
    /\ UNCHANGED <<parentDone, cancelled, results>>
    /\ UNCHANGED callerVars
    /\ UNCHANGED attemptVars

Next ==
    \/ Caller
    \/ \E i \in Attempts : Attempt(i)
    \/ ParentCancel
    \/ Tick

Spec == Init /\ [][Next]_vars

\* The Go scheduler runs every runnable goroutine, time passes, and every
\* dial ends (the operating system's connect timeout bounds it).
Fairness ==
    /\ WF_vars(Caller)
    /\ \A i \in Attempts : WF_vars(Attempt(i))
    /\ WF_vars(Tick)

FairSpec == Spec /\ Fairness

-----------------------------------------------------------------------------
(* Properties *)

\* The connection dialCandidates returns is open: the goroutine that opened it
\* never closes it, however late the cancellation of the others reaches it
\* (client.go:112-113 against client.go:145-149).
WinnerStaysOpen ==
    ret \in Attempts => conn[ret] = "open"

\* An error comes back only when all attempts have ended and none of them holds
\* a connection: no success is lost and nothing leaks on the error path
\* (client.go:108-123).
ErrorMeansNoneConnected ==
    ret = Failed =>
        \A i \in 1 .. n :
            /\ conn[i] # "open"
            /\ n > 1 => pc[i] = "done"

\* A goroutine that has ended leaves no connection behind but the returned one
\* and those waiting in the buffer: between results the caller owes nothing, and
\* what stays in the buffer after the return is exactly what nobody will close
\* (client.go:102, 145-151).
OpenConnectionsAccounted ==
    \A i \in Attempts :
        conn[i] = "open" /\ pc[i] = "done" =>
            \/ ret = i
            \/ \E k \in DOMAIN results :
                  results[k] = [candidate |-> i, got |-> "conn"]

\* A goroutine about to report always finds room in the channel, with the
\* caller gone or not (client.go:102).
SendNeverBlocks ==
    \A i \in Attempts : pc[i] = "report" => Len(results) < Capacity

\* Candidate i-1 is never dialed earlier than i-1 delays after the call,
\* whenever its goroutine was scheduled (client.go:103-106, 127-137).
AttemptsAreStaggered ==
    [][\A i \in Attempts :
          pc[i] # "dialing" /\ pc'[i] = "dialing" => now >= (i - 1) * Delay]_vars

\* An attempt that has not connected yet when the context is done never ends
\* with an open connection: a loser's late success is closed (client.go:145-149).
Unconnected(i) == pc[i] \in {"idle", "spawned", "waiting", "dialing"}

LateSuccessIsClosed ==
    \A i \in Attempts :
        [](n > 1 /\ CtxDone /\ Unconnected(i) =>
               [](pc[i] \in {"report", "done"} => conn[i] # "open"))

\* dialCandidates returns, and every goroutine it started ends, the losers too
\* that nobody waits for any more (client.go:90-152).
RaceEnds ==
    /\ <>(caller = "returned")
    /\ \A i \in Attempts : (pc[i] = "spawned") ~> (pc[i] = "done")

=============================================================================
