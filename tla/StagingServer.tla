---------------------------- MODULE StagingServer ----------------------------
(***************************************************************************)
(* The life of internal/stagingserver: Serve opens the enabled listeners,  *)
(* starts one loop per listener (serveListener, serveBedrockListener),     *)
(* waits in waitForServeExit for a cancellation or for an error of a loop, *)
(* closes every listener and waits for the loops, which wait for their     *)
(* connections.                                                            *)
(*                                                                         *)
(* The processes are Serve, a loop and a closing goroutine per listener,   *)
(* and a handler per accepted connection.  What a handler exchanges with   *)
(* its peer is not part of this module: here it ends by itself, at the     *)
(* latest when the connection deadline set in handleConn passes.           *)
(***************************************************************************)
EXTENDS Integers, Sequences, FiniteSets

CONSTANTS
    Java,          \* Java listen addresses of the configuration
    Bedrock,       \* Bedrock listen addresses of the configuration
    SetupOrder,    \* the order in which Serve opens them
    Conns          \* bound: the TCP connections made during a run

Listeners == Java \cup Bedrock

ASSUME ListenerAssumption ==
    /\ Java \cap Bedrock = {}
    /\ IsFiniteSet(Java) /\ IsFiniteSet(Bedrock)

\* Serve opens the Java listeners before the Bedrock ones, each once.
ASSUME OrderAssumption ==
    /\ SetupOrder \in Seq(Listeners)
    /\ \A l \in Listeners : \E k \in DOMAIN SetupOrder : SetupOrder[k] = l
    /\ \A j, k \in DOMAIN SetupOrder : SetupOrder[j] = SetupOrder[k] => j = k
    /\ \A j, k \in DOMAIN SetupOrder :
          SetupOrder[j] \in Java /\ SetupOrder[k] \in Bedrock => j < k

VARIABLES
    serve,     \* where Serve is
    opened,    \* listeners opened so far by the setup
    ret,       \* what Serve returns: "none" before, then "nil" or "err"
    ctxDone,   \* the context is done
    socket,    \* the listener's socket
    loop,      \* where the listener's loop is
    closer,    \* the goroutine that closes the socket when the context is done
    errCh,     \* the buffered error channel, by listener
    failed,    \* history: loops stopped by an error other than their own closing
    owner,     \* the listener that accepted a connection
    conn       \* the connections

vars == <<serve, opened, ret, ctxDone, socket, loop, closer, errCh, failed, owner, conn>>

serveVars == <<serve, opened, ret>>
connVars == <<owner, conn>>

NoOwner == "none"

ServeStates == {"validate", "setup", "status", "wait", "close", "join", "returned"}
LoopStates == {"none", "accept", "read", "parse", "write", "drain", "done"}

TypeOK ==
    /\ serve \in ServeStates
    /\ opened \in 0 .. Len(SetupOrder)
    /\ ret \in {"none", "nil", "err"}
    /\ ctxDone \in BOOLEAN
    /\ socket \in [Listeners -> {"none", "open", "closed"}]
    /\ loop \in [Listeners -> LoopStates]
    /\ closer \in [Listeners -> {"none", "waiting", "done"}]
    /\ errCh \in Seq(Listeners)
    /\ failed \subseteq Listeners
    /\ owner \in [Conns -> Listeners \cup {NoOwner}]
    /\ conn \in [Conns -> {"none", "open", "closed"}]

-----------------------------------------------------------------------------
(* Serve *)

\* Faulty variant: the packet listeners are forgotten.
ClosedJava(s) ==
    [l \in Listeners |-> IF s[l] = "open" /\ l \in Java THEN "closed" ELSE s[l]]

\* closeAll: closes what has been opened.
Closed(s) == [l \in Listeners |-> IF s[l] = "open" THEN "closed" ELSE s[l]]

\* Faulty variant: room for one error.
ErrCapacityOne == 1

\* make(chan error, len(listeners)+len(packetListeners))
ErrCapacity == Len(SetupOrder)

Init ==
    /\ serve = "validate"
    /\ opened = 0
    /\ ret = "none"
    /\ ctxDone = FALSE
    /\ socket = [l \in Listeners |-> "none"]
    /\ loop = [l \in Listeners |-> "none"]
    /\ closer = [l \in Listeners |-> "none"]
    /\ errCh = <<>>
    /\ failed = {}
    /\ owner = [c \in Conns |-> NoOwner]
    /\ conn = [c \in Conns |-> "none"]

\* A Java status that is not valid JSON or too long, or no listen address at all.
Reject ==
    /\ serve = "validate"
    /\ Java # {} \/ Listeners = {}
    /\ serve' = "returned" /\ ret' = "err"
    /\ UNCHANGED <<opened, ctxDone, socket, loop, closer, errCh, failed, connVars>>

Accepted ==
    /\ serve = "validate"
    /\ Listeners # {}
    /\ serve' = "setup"
    /\ UNCHANGED <<opened, ret, ctxDone, socket, loop, closer, errCh, failed, connVars>>

Listen ==
    /\ serve = "setup" /\ opened < Len(SetupOrder)
    /\ socket' = [socket EXCEPT ![SetupOrder[opened + 1]] = "open"]
    /\ opened' = opened + 1
    /\ UNCHANGED <<serve, ret, ctxDone, loop, closer, errCh, failed, connVars>>

\* A listen error closes the listeners opened before it.
ListenFails ==
    /\ serve = "setup" /\ opened < Len(SetupOrder)
    /\ socket' = Closed(socket)
    /\ serve' = "returned" /\ ret' = "err"
    /\ UNCHANGED <<opened, ctxDone, loop, closer, errCh, failed, connVars>>

AllOpen ==
    /\ serve = "setup" /\ opened = Len(SetupOrder)
    /\ serve' = "status"
    /\ UNCHANGED <<opened, ret, ctxDone, socket, loop, closer, errCh, failed, connVars>>

\* The Bedrock status is validated with the listeners already open.
StatusInvalid ==
    /\ serve = "status" /\ Bedrock # {}
    /\ socket' = Closed(socket)
    /\ serve' = "returned" /\ ret' = "err"
    /\ UNCHANGED <<opened, ctxDone, loop, closer, errCh, failed, connVars>>

\* The loops and their closing goroutines are started; the starting code
\* neither waits nor looks at shared state.
StartLoops ==
    /\ serve = "status"
    /\ loop' = [l \in Listeners |-> IF l \in Java THEN "accept" ELSE "read"]
    /\ closer' = [l \in Listeners |-> "waiting"]
    /\ serve' = "wait"
    /\ UNCHANGED <<opened, ret, ctxDone, socket, errCh, failed, connVars>>

\* The two cases of the select in waitForServeExit; both may be ready.
WaitCancelled ==
    /\ serve = "wait" /\ ctxDone
    /\ serve' = "close" /\ ret' = "nil"
    /\ UNCHANGED <<opened, ctxDone, socket, loop, closer, errCh, failed, connVars>>

WaitError ==
    /\ serve = "wait" /\ errCh # <<>>
    /\ errCh' = Tail(errCh)
    /\ serve' = "close" /\ ret' = "err"
    /\ UNCHANGED <<opened, ctxDone, socket, loop, closer, failed, connVars>>

\* Faulty variant: waiting before closing.
JoinBeforeClose ==
    /\ serve = "close"
    /\ serve' = "join"
    /\ UNCHANGED <<opened, ret, ctxDone, socket, loop, closer, errCh, failed, connVars>>

\* The deferred calls run last in, first out: closeAll, then acceptWG.Wait.
CloseAll ==
    /\ serve = "close"
    /\ socket' = Closed(socket)
    /\ serve' = "join"
    /\ UNCHANGED <<opened, ret, ctxDone, loop, closer, errCh, failed, connVars>>

Join ==
    /\ serve = "join"
    /\ \A l \in Listeners : loop[l] = "done"
    /\ serve' = "returned"
    /\ UNCHANGED <<opened, ret, ctxDone, socket, loop, closer, errCh, failed, connVars>>

Serve ==
    \/ Reject \/ Accepted \/ Listen \/ ListenFails \/ AllOpen
    \/ StatusInvalid \/ StartLoops \/ WaitCancelled \/ WaitError
    \/ CloseAll \/ Join

-----------------------------------------------------------------------------
(* The loops *)

\* The loop of l ends.  A Java loop then waits for its connections.
Leave(l) == loop' = [loop EXCEPT ![l] = IF l \in Java THEN "drain" ELSE "done"]

\* The operation failed for a reason of its own, perhaps just before the socket
\* was closed.  With a done context the loop leaves silently, otherwise it offers
\* the error to the channel first.
LeaveFailed(l) ==
    /\ Leave(l)
    /\ IF ctxDone
       THEN UNCHANGED <<errCh, failed>>
       ELSE /\ errCh' = IF Len(errCh) < ErrCapacity THEN Append(errCh, l) ELSE errCh
            /\ failed' = failed \cup {l}
    /\ UNCHANGED <<ctxDone, socket, closer, serveVars, connVars>>

\* Faulty variant: net.ErrClosed is an error like any other.
LeaveReporting(l) ==
    /\ socket[l] = "closed"
    /\ Leave(l)
    /\ errCh' = IF Len(errCh) < ErrCapacity THEN Append(errCh, l) ELSE errCh
    /\ UNCHANGED <<ctxDone, socket, closer, failed, serveVars, connVars>>

\* The socket has been closed: net.ErrClosed ends the loop silently.
LeaveClosed(l) ==
    /\ socket[l] = "closed"
    /\ Leave(l)
    /\ UNCHANGED <<ctxDone, socket, closer, errCh, failed, serveVars, connVars>>

Accept(l, c) ==
    /\ loop[l] = "accept" /\ socket[l] = "open"
    /\ conn[c] = "none"
    /\ conn' = [conn EXCEPT ![c] = "open"]
    /\ owner' = [owner EXCEPT ![c] = l]
    /\ UNCHANGED <<ctxDone, socket, loop, closer, errCh, failed, serveVars>>

AcceptFails(l) == loop[l] = "accept" /\ (LeaveFailed(l) \/ LeaveClosed(l))

\* connWG.Wait
Drained(l) ==
    /\ loop[l] = "drain"
    /\ \A c \in Conns : owner[c] = l => conn[c] # "open"
    /\ loop' = [loop EXCEPT ![l] = "done"]
    /\ UNCHANGED <<ctxDone, socket, closer, errCh, failed, serveVars, connVars>>

ReadPacket(l) ==
    /\ loop[l] = "read" /\ socket[l] = "open"
    /\ loop' = [loop EXCEPT ![l] = "parse"]
    /\ UNCHANGED <<ctxDone, socket, closer, errCh, failed, serveVars, connVars>>

ReadFails(l) == loop[l] = "read" /\ (LeaveFailed(l) \/ LeaveClosed(l))

\* A packet that is not an unconnected ping is ignored.
IgnorePacket(l) ==
    /\ loop[l] = "parse"
    /\ loop' = [loop EXCEPT ![l] = "read"]
    /\ UNCHANGED <<ctxDone, socket, closer, errCh, failed, serveVars, connVars>>

BuildPong(l) ==
    /\ loop[l] = "parse"
    /\ loop' = [loop EXCEPT ![l] = "write"]
    /\ UNCHANGED <<ctxDone, socket, closer, errCh, failed, serveVars, connVars>>

WritePong(l) ==
    /\ loop[l] = "write" /\ socket[l] = "open"
    /\ loop' = [loop EXCEPT ![l] = "read"]
    /\ UNCHANGED <<ctxDone, socket, closer, errCh, failed, serveVars, connVars>>

WriteFails(l) == loop[l] = "write" /\ (LeaveFailed(l) \/ LeaveClosed(l))

\* The goroutine a loop starts: close the listener when the context is done.
CloseOnCancel(l) ==
    /\ closer[l] = "waiting" /\ ctxDone
    /\ closer' = [closer EXCEPT ![l] = "done"]
    /\ socket' = [socket EXCEPT ![l] = "closed"]
    /\ UNCHANGED <<ctxDone, loop, errCh, failed, serveVars, connVars>>

\* The steps a loop takes by itself; the others wait for a peer.
LoopStep(l) ==
    \/ loop[l] = "accept" /\ LeaveClosed(l)
    \/ loop[l] = "read" /\ LeaveClosed(l)
    \/ loop[l] = "write" /\ LeaveClosed(l)
    \/ IgnorePacket(l) \/ BuildPong(l) \/ WritePong(l) \/ Drained(l)

\* handleConn returns, on success, on an error or at its deadline, and the
\* connection is closed.
HandlerEnds(c) ==
    /\ conn[c] = "open"
    /\ conn' = [conn EXCEPT ![c] = "closed"]
    /\ UNCHANGED <<ctxDone, socket, loop, closer, errCh, failed, owner, serveVars>>

-----------------------------------------------------------------------------

\* SIGINT or SIGTERM
Cancel ==
    /\ ~ ctxDone
    /\ ctxDone' = TRUE
    /\ UNCHANGED <<socket, loop, closer, errCh, failed, serveVars, connVars>>

Next ==
    \/ Serve
    \/ \E l \in Java : \/ \E c \in Conns : Accept(l, c)
                       \/ AcceptFails(l)
                       \/ Drained(l)
    \/ \E l \in Bedrock : \/ ReadPacket(l) \/ ReadFails(l)
                          \/ IgnorePacket(l) \/ BuildPong(l)
                          \/ WritePong(l) \/ WriteFails(l)
    \/ \E l \in Listeners : CloseOnCancel(l)
    \/ \E c \in Conns : HandlerEnds(c)
    \/ Cancel

Spec == Init /\ [][Next]_vars

\* Every goroutine that can run does; handlers end because of their deadline.
\* Neither a connection nor a packet nor a failure is ever owed.
Fairness ==
    /\ WF_vars(Serve)
    /\ \A l \in Listeners : WF_vars(LoopStep(l)) /\ WF_vars(CloseOnCancel(l))
    /\ \A c \in Conns : WF_vars(HandlerEnds(c))

FairSpec == Spec /\ Fairness

-----------------------------------------------------------------------------
(* Properties *)

\* Whatever made Serve return, a refused configuration, a listen error after
\* some listeners were open, a failing loop or a cancellation, it leaves no open
\* socket, no running loop and no open connection (server.go:66-110, 164-174, 176-204).
ReturnLeavesNothing ==
    serve = "returned" =>
        /\ \A l \in Listeners : socket[l] # "open" /\ loop[l] \in {"none", "done"}
        /\ \A c \in Conns : conn[c] # "open"

\* Serve reports success only after a cancellation, and once it waits, an error
\* only when a loop failed for a reason of its own: the closing of the listeners
\* is never mistaken for a failure (server.go:168-173, 186-195; bedrock.go:99-108).
ReturnIsHonest ==
    /\ ret = "nil" => ctxDone
    /\ \A k \in DOMAIN errCh : errCh[k] \in failed
    /\ ret = "err" /\ serve \in {"close", "join"} => failed # {}

\* No loop finds the error channel full: the default branch never drops an
\* error (server.go:112, 191-194).
NoErrorDropped ==
    \A l \in failed : serve = "wait" => \E k \in DOMAIN errCh : errCh[k] = l

\* Serve ends in either way it can be asked to: after a cancellation it returns and
\* each closing goroutine ends too; and a failing loop makes it return although
\* the other loops are blocked in Accept and ReadFrom and their handlers may still be
\* busy, since closing comes before waiting (server.go:164-205; bedrock.go:90-94).
ServeEnds ==
    /\ ctxDone ~> (serve = "returned" /\ \A l \in Listeners : closer[l] # "waiting")
    /\ failed # {} ~> serve = "returned"

=============================================================================
