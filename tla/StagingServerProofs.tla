------------------------- MODULE StagingServerProofs -------------------------
(***************************************************************************)
(* Proofs about StagingServer for any set of listeners and any number of   *)
(* connections.                                                            *)
(***************************************************************************)
EXTENDS StagingServer, FiniteSetTheorems, TLAPS

(* The inductive invariant, as a conjunction of named parts. *)

BeforeLoops == {"validate", "setup", "status"}

\* What exists in each phase of Serve.
Phases ==
    /\ serve = "validate" => \A l \in Listeners : socket[l] = "none"
    /\ serve \in BeforeLoops =>
          /\ ret = "none"
          /\ \A l \in Listeners : loop[l] = "none" /\ closer[l] = "none"
    /\ serve = "wait" => ret = "none"
    /\ serve \in {"join", "returned"} => \A l \in Listeners : socket[l] # "open"
    /\ serve = "returned" => \A l \in Listeners : loop[l] \in {"none", "done"}

\* An open connection is held by a Java loop that has not ended.
Owned ==
    \A c \in Conns :
        conn[c] = "open" =>
            /\ owner[c] \in Java
            /\ loop[owner[c]] \in {"accept", "drain"}

\* A loop reports at most one error, because it then leaves; while Serve waits
\* nothing is taken from the channel.
Reported ==
    /\ \A l \in failed : loop[l] \in {"drain", "done"}
    /\ \A j, k \in 1 .. Len(errCh) : errCh[j] = errCh[k] => j = k

IInv ==
    /\ TypeOK
    /\ Phases
    /\ Owned
    /\ ReturnIsHonest
    /\ Reported
    /\ NoErrorDropped

\* The outcomes of a failing operation in a loop.
Leaves(l) == LeaveFailed(l) \/ LeaveClosed(l)

-----------------------------------------------------------------------------

LEMMA InitEstablishes ==
    Init => IInv
<1>. SUFFICES ASSUME Init PROVE IInv
     OBVIOUS
<1>1. TypeOK
  <2>1. errCh \in Seq(Listeners) /\ Len(SetupOrder) \in Nat
        BY OrderAssumption DEF Init
  <2>2. ctxDone \in BOOLEAN
        BY Zenon DEF Init
  <2>. QED  BY <2>1, <2>2 DEF Init, TypeOK, ServeStates, LoopStates
<1>2. Reported /\ NoErrorDropped
      BY DEF Init, Reported, NoErrorDropped
<1>. QED  BY <1>1, <1>2 DEF Init, IInv, Phases, BeforeLoops, Owned, ReturnIsHonest

\* The types of what SetupOrder and errCh yield.
LEMMA OrderTypes ==
    /\ Len(SetupOrder) \in Nat
    /\ \A k \in 1 .. Len(SetupOrder) : SetupOrder[k] \in Listeners
BY OrderAssumption

LEMMA TypePreserved ==
    ASSUME TypeOK, [Next]_vars
    PROVE  TypeOK'
<1>. USE DEF TypeOK, ServeStates, LoopStates, connVars, serveVars
<1>1. CASE Serve
  <2>1. CASE Reject        BY <2>1 DEF Reject
  <2>2. CASE Accepted      BY <2>2 DEF Accepted
  <2>3. CASE Listen        BY <2>3, OrderTypes DEF Listen
  <2>4. CASE ListenFails   BY <2>4 DEF ListenFails, Closed
  <2>5. CASE AllOpen       BY <2>5 DEF AllOpen
  <2>6. CASE StatusInvalid BY <2>6 DEF StatusInvalid, Closed
  <2>7. CASE StartLoops    BY <2>7 DEF StartLoops
  <2>8. CASE WaitCancelled BY <2>8 DEF WaitCancelled
  <2>9. CASE WaitError
    <3>1. Tail(errCh) \in Seq(Listeners)
          BY <2>9 DEF WaitError
    <3>. QED  BY <2>9, <3>1 DEF WaitError
  <2>10. CASE CloseAll     BY <2>10 DEF CloseAll, Closed
  <2>11. CASE Join         BY <2>11 DEF Join
  <2>. QED  BY <1>1, <2>1, <2>2, <2>3, <2>4, <2>5, <2>6, <2>7, <2>8, <2>9, <2>10, <2>11
            DEF Serve
<1>2. ASSUME NEW l \in Listeners, Leaves(l) PROVE TypeOK'
  <2>1. loop' \in [Listeners -> LoopStates]
        BY <1>2 DEF Leaves, LeaveFailed, LeaveClosed, Leave
  <2>2. Append(errCh, l) \in Seq(Listeners)
        OBVIOUS
  <2>3. errCh' \in Seq(Listeners) /\ failed' \subseteq Listeners
        BY <1>2, <2>2 DEF Leaves, LeaveFailed, LeaveClosed
  <2>. QED  BY <1>2, <2>1, <2>3 DEF Leaves, LeaveFailed, LeaveClosed
<1>3. ASSUME NEW l \in Java, NEW c \in Conns, Accept(l, c) PROVE TypeOK'
      BY <1>3 DEF Accept, Listeners
<1>4. ASSUME NEW l \in Listeners,
             Drained(l) \/ ReadPacket(l) \/ IgnorePacket(l) \/ BuildPong(l) \/ WritePong(l)
      PROVE  TypeOK'
      BY <1>4 DEF Drained, ReadPacket, IgnorePacket, BuildPong, WritePong
<1>5. ASSUME NEW l \in Listeners, CloseOnCancel(l) PROVE TypeOK'
      BY <1>5 DEF CloseOnCancel
<1>6. ASSUME NEW c \in Conns, HandlerEnds(c) PROVE TypeOK'
      BY <1>6 DEF HandlerEnds
<1>7. CASE Cancel
  <2>1. ctxDone' \in BOOLEAN
        BY <1>7, Zenon DEF Cancel
  <2>. QED  BY <1>7, <2>1 DEF Cancel
<1>8. CASE UNCHANGED vars
      BY <1>8 DEF vars
<1>. QED  BY <1>1, <1>2, <1>3, <1>4, <1>5, <1>6, <1>7, <1>8
          DEF Next, AcceptFails, ReadFails, WriteFails, Leaves, Listeners

LEMMA PhasesPreserved ==
    ASSUME IInv, TypeOK', [Next]_vars
    PROVE  Phases'
<1>. USE DEF IInv, TypeOK, Phases, BeforeLoops, ServeStates, connVars, serveVars
<1>1. CASE Serve
  <2>1. CASE Reject        BY <2>1 DEF Reject
  <2>2. CASE Accepted      BY <2>2 DEF Accepted
  <2>3. CASE Listen        BY <2>3 DEF Listen
  <2>4. CASE ListenFails   BY <2>4 DEF ListenFails, Closed
  <2>5. CASE AllOpen       BY <2>5 DEF AllOpen
  <2>6. CASE StatusInvalid BY <2>6 DEF StatusInvalid, Closed
  <2>7. CASE StartLoops    BY <2>7 DEF StartLoops
  <2>8. CASE WaitCancelled BY <2>8 DEF WaitCancelled
  <2>9. CASE WaitError     BY <2>9 DEF WaitError
  <2>10. CASE CloseAll     BY <2>10 DEF CloseAll, Closed
  <2>11. CASE Join         BY <2>11 DEF Join
  <2>. QED  BY <1>1, <2>1, <2>2, <2>3, <2>4, <2>5, <2>6, <2>7, <2>8, <2>9, <2>10, <2>11
            DEF Serve
<1>2. ASSUME NEW l \in Listeners, loop[l] \notin {"none", "done"}, Leaves(l)
      PROVE  Phases'
      BY <1>2 DEF Leaves, LeaveFailed, LeaveClosed, Leave
<1>3. ASSUME NEW l \in Java, NEW c \in Conns, Accept(l, c) PROVE Phases'
      BY <1>3 DEF Accept
<1>4. ASSUME NEW l \in Listeners,
             Drained(l) \/ ReadPacket(l) \/ IgnorePacket(l) \/ BuildPong(l) \/ WritePong(l)
      PROVE  Phases'
  <2>1. /\ loop[l] \notin {"none", "done"}
        /\ loop' = [loop EXCEPT ![l] = loop'[l]]
        /\ UNCHANGED <<serve, ret, socket, closer>>
        BY <1>4 DEF Drained, ReadPacket, IgnorePacket, BuildPong, WritePong
  <2>. QED  BY <2>1
<1>5. ASSUME NEW l \in Listeners, CloseOnCancel(l) PROVE Phases'
  <2>1. serve # "validate"
        BY <1>5 DEF CloseOnCancel
  <2>. QED  BY <1>5, <2>1 DEF CloseOnCancel
<1>6. ASSUME NEW c \in Conns, HandlerEnds(c) PROVE Phases'
      BY <1>6 DEF HandlerEnds
<1>7. CASE Cancel  BY <1>7 DEF Cancel
<1>8. CASE UNCHANGED vars  BY <1>8 DEF vars
<1>. QED  BY <1>1, <1>2, <1>3, <1>4, <1>5, <1>6, <1>7, <1>8
          DEF Next, AcceptFails, ReadFails, WriteFails, Leaves, Listeners

LEMMA OwnedPreserved ==
    ASSUME IInv, TypeOK', [Next]_vars
    PROVE  Owned'
<1>. USE DEF IInv, TypeOK, Owned, connVars, serveVars
<1>1. CASE Serve
  <2>1. CASE StartLoops
        BY <2>1 DEF StartLoops, Phases, BeforeLoops, Listeners
  <2>2. CASE ~ StartLoops
    <3>1. UNCHANGED <<loop, owner, conn>>
          BY <1>1, <2>2 DEF Serve, Reject, Accepted, Listen, ListenFails, AllOpen,
                StatusInvalid, WaitCancelled, WaitError, CloseAll, Join
    <3>. QED  BY <3>1
  <2>. QED  BY <2>1, <2>2
<1>2. ASSUME NEW l \in Listeners, Leaves(l) PROVE Owned'
  <2>1. /\ loop' = [loop EXCEPT ![l] = IF l \in Java THEN "drain" ELSE "done"]
        /\ UNCHANGED <<owner, conn>>
        BY <1>2 DEF Leaves, LeaveFailed, LeaveClosed, Leave
  <2>. QED  BY <2>1 DEF Listeners
<1>3. ASSUME NEW l \in Java, NEW c \in Conns, Accept(l, c) PROVE Owned'
      BY <1>3 DEF Accept, Listeners
<1>4. ASSUME NEW l \in Listeners, Drained(l) PROVE Owned'
      BY <1>4 DEF Drained
<1>5. ASSUME NEW l \in Listeners,
             ReadPacket(l) \/ IgnorePacket(l) \/ BuildPong(l) \/ WritePong(l)
      PROVE  Owned'
  <2>1. /\ loop[l] \in {"read", "parse", "write"}
        /\ loop' = [loop EXCEPT ![l] = loop'[l]]
        /\ UNCHANGED <<owner, conn>>
        BY <1>5 DEF ReadPacket, IgnorePacket, BuildPong, WritePong
  <2>. QED  BY <2>1 DEF Listeners
<1>6. ASSUME NEW l \in Listeners, CloseOnCancel(l) PROVE Owned'
      BY <1>6 DEF CloseOnCancel
<1>7. ASSUME NEW c \in Conns, HandlerEnds(c) PROVE Owned'
      BY <1>7 DEF HandlerEnds
<1>8. CASE Cancel  BY <1>8 DEF Cancel
<1>9. CASE UNCHANGED vars  BY <1>9 DEF vars
<1>. QED  BY <1>1, <1>2, <1>3, <1>4, <1>5, <1>6, <1>7, <1>8, <1>9
          DEF Next, AcceptFails, ReadFails, WriteFails, Leaves, Listeners

LEMMA HonestPreserved ==
    ASSUME IInv, TypeOK', [Next]_vars
    PROVE  ReturnIsHonest'
<1>. USE DEF IInv, TypeOK, ReturnIsHonest, connVars, serveVars
<1>1. CASE Serve
  <2>1. CASE WaitError
    <3>1. errCh[1] \in failed /\ \A k \in DOMAIN Tail(errCh) : Tail(errCh)[k] \in failed
          BY <2>1 DEF WaitError
    <3>. QED  BY <2>1, <3>1 DEF WaitError
  <2>2. CASE ~ WaitError
    <3>1. /\ UNCHANGED <<errCh, failed, ctxDone>>
          /\ ret' = "nil" => ret = "nil" \/ ctxDone
          /\ ret' = "err" /\ serve' \in {"close", "join"} =>
                ret = "err" /\ serve \in {"close", "join"}
          BY <1>1, <2>2 DEF Serve, Reject, Accepted, Listen, ListenFails, AllOpen,
                StatusInvalid, StartLoops, WaitCancelled, CloseAll, Join
    <3>. QED  BY <3>1
  <2>. QED  BY <2>1, <2>2
<1>2. ASSUME NEW l \in Listeners, Leaves(l) PROVE ReturnIsHonest'
  <2>1. /\ UNCHANGED <<serve, ret, ctxDone>>
        /\ failed \subseteq failed'
        /\ \/ errCh' = errCh
           \/ errCh' = Append(errCh, l) /\ l \in failed'
        BY <1>2 DEF Leaves, LeaveFailed, LeaveClosed
  <2>2. CASE errCh' = errCh
        BY <2>1, <2>2
  <2>3. CASE errCh' = Append(errCh, l) /\ l \in failed'
    <3>1. \A k \in DOMAIN errCh' : errCh'[k] = l \/ (k \in DOMAIN errCh /\ errCh'[k] = errCh[k])
          BY <2>3
    <3>. QED  BY <2>1, <2>3, <3>1
  <2>. QED  BY <2>1, <2>2, <2>3
<1>3. ASSUME UNCHANGED <<serve, ret, errCh, failed>>, ctxDone => ctxDone'
      PROVE  ReturnIsHonest'
      BY <1>3
<1>4. ASSUME NEW l \in Java, NEW c \in Conns, Accept(l, c) PROVE ReturnIsHonest'
      BY <1>3, <1>4 DEF Accept
<1>5. ASSUME NEW l \in Listeners,
             \/ Drained(l) \/ ReadPacket(l) \/ IgnorePacket(l) \/ BuildPong(l)
             \/ WritePong(l) \/ CloseOnCancel(l)
      PROVE  ReturnIsHonest'
      BY <1>3, <1>5 DEF Drained, ReadPacket, IgnorePacket, BuildPong, WritePong, CloseOnCancel
<1>6. ASSUME NEW c \in Conns, HandlerEnds(c) PROVE ReturnIsHonest'
      BY <1>3, <1>6 DEF HandlerEnds
<1>7. CASE Cancel  BY <1>3, <1>7 DEF Cancel
<1>8. CASE UNCHANGED vars  BY <1>3, <1>8 DEF vars
<1>. QED  BY <1>1, <1>2, <1>4, <1>5, <1>6, <1>7, <1>8
          DEF Next, AcceptFails, ReadFails, WriteFails, Leaves, Listeners

LEMMA CountUpTo ==
    ASSUME NEW n \in Nat
    PROVE  IsFiniteSet(1 .. n) /\ Cardinality(1 .. n) = n
<1>1. IsFiniteSet(1 .. n) /\ Cardinality(1 .. n) = IF 1 > n THEN 0 ELSE n - 1 + 1
      BY FS_Interval
<1>2. (IF 1 > n THEN 0 ELSE n - 1 + 1) = n
      OBVIOUS
<1>. QED  BY <1>1, <1>2

\* The capacity of the channel is at least the number of listeners.
LEMMA ListenerCount ==
    /\ IsFiniteSet(Listeners)
    /\ Cardinality(Listeners) \in Nat
    /\ Cardinality(Listeners) <= Len(SetupOrder)
<1>. DEFINE n == Len(SetupOrder)
            place == [l \in Listeners |-> CHOOSE k \in 1 .. n : SetupOrder[k] = l]
<1>1. IsFiniteSet(Listeners)
      BY ListenerAssumption, FS_Union DEF Listeners
<1>2. Cardinality(Listeners) \in Nat
      BY <1>1, FS_CardinalityType
<1>3. n \in Nat /\ \A l \in Listeners : \E k \in 1 .. n : SetupOrder[k] = l
      BY OrderAssumption
<1>4. IsFiniteSet(1 .. n) /\ Cardinality(1 .. n) = n
      BY <1>3, CountUpTo
<1>5. \A l \in Listeners : place[l] \in 1 .. n /\ SetupOrder[place[l]] = l
      BY <1>3
<1>. HIDE DEF n
<1>6. place \in [Listeners -> 1 .. n]
      BY <1>5
<1>. HIDE DEF place
<1>7. ~ (n < Cardinality(Listeners))
  <2>. SUFFICES ASSUME n < Cardinality(Listeners) PROVE FALSE
       OBVIOUS
  <2>1. \E x, y \in Listeners : x # y /\ place[x] = place[y]
        BY <1>1, <1>4, <1>6, FS_PigeonHole
  <2>. QED  BY <1>5, <2>1
<1>. QED  BY <1>1, <1>2, <1>3, <1>7 DEF n

\* While a loop has not reported, its error still fits in.
LEMMA RoomForOne ==
    ASSUME TypeOK, Reported, ReturnIsHonest, NEW l \in Listeners \ failed
    PROVE  Len(errCh) < ErrCapacity
<1>. DEFINE n == Len(errCh)
            Others == Listeners \ {l}
<1>1. n \in Nat /\ Len(SetupOrder) \in Nat
      BY OrderTypes DEF TypeOK
<1>2. IsFiniteSet(1 .. n) /\ Cardinality(1 .. n) = n
      BY <1>1, CountUpTo
<1>3. IsFiniteSet(Others) /\ Cardinality(Others) = Cardinality(Listeners) - 1
      BY ListenerCount, FS_RemoveElement
<1>4. errCh \in [1 .. n -> Others]
  <2>1. \A k \in 1 .. n : errCh[k] \in Others
        BY DEF TypeOK, ReturnIsHonest
  <2>2. errCh \in [1 .. n -> Listeners]
        BY DEF TypeOK
  <2>. QED  BY <2>1, <2>2
<1>. HIDE DEF n, Others
<1>5. ~ (Cardinality(Others) < n)
  <2>. SUFFICES ASSUME Cardinality(Others) < n PROVE FALSE
       OBVIOUS
  <2>1. \E x, y \in 1 .. n : x # y /\ errCh[x] = errCh[y]
        BY <1>2, <1>3, <1>4, FS_PigeonHole
  <2>. QED  BY <2>1 DEF Reported, n
<1>. QED  BY <1>1, <1>3, <1>5, ListenerCount DEF ErrCapacity, n

LEMMA ReportedPreserved ==
    ASSUME IInv, TypeOK', [Next]_vars
    PROVE  Reported' /\ NoErrorDropped'
<1>. USE DEF connVars, serveVars
<1>1. CASE Serve
  <2>1. CASE WaitError
    <3>1. /\ errCh \in Seq(Listeners) /\ errCh # <<>> /\ errCh' = Tail(errCh)
          /\ serve' = "close" /\ UNCHANGED <<failed, loop>>
          BY <2>1 DEF IInv, TypeOK, WaitError
    <3>2. /\ Len(errCh) \in Nat /\ Len(errCh') = Len(errCh) - 1
          /\ \A k \in 1 .. Len(errCh') : errCh'[k] = errCh[k + 1]
          BY <3>1
    <3>3. \A j, k \in 1 .. Len(errCh') : errCh'[j] = errCh'[k] => j = k
          BY <3>2 DEF IInv, Reported
    <3>. QED  BY <3>1, <3>3 DEF IInv, Reported, NoErrorDropped
  <2>2. CASE StartLoops
    <3>1. failed = {}
          BY <2>2 DEF StartLoops, IInv, TypeOK, Reported, Phases, BeforeLoops
    <3>. QED  BY <2>2, <3>1 DEF StartLoops, IInv, Reported, NoErrorDropped
  <2>3. CASE ~ WaitError /\ ~ StartLoops
    <3>1. UNCHANGED <<errCh, failed, loop>> /\ (serve' = "wait" => serve = "wait")
          BY <1>1, <2>3 DEF Serve, Reject, Accepted, Listen, ListenFails, AllOpen,
                StatusInvalid, WaitCancelled, CloseAll, Join
    <3>. QED  BY <3>1 DEF IInv, Reported, NoErrorDropped
  <2>. QED  BY <2>1, <2>2, <2>3
<1>2. ASSUME NEW l \in Listeners, loop[l] \in {"accept", "read", "write"}, Leaves(l)
      PROVE  Reported' /\ NoErrorDropped'
  <2>1. /\ loop' = [loop EXCEPT ![l] = IF l \in Java THEN "drain" ELSE "done"]
        /\ loop \in [Listeners -> LoopStates] /\ failed \subseteq Listeners
        /\ serve' = serve
        BY <1>2 DEF Leaves, LeaveFailed, LeaveClosed, Leave, IInv, TypeOK
  <2>2. l \notin failed
        BY <1>2 DEF IInv, Reported
  <2>3. CASE UNCHANGED <<errCh, failed>>
        BY <2>1, <2>3 DEF IInv, Reported, NoErrorDropped
  <2>4. CASE ~ UNCHANGED <<errCh, failed>>
    <3>1. failed' = failed \cup {l} /\ errCh' = Append(errCh, l)
          BY <1>2, <2>2, <2>4, RoomForOne DEF Leaves, LeaveFailed, LeaveClosed, IInv
    <3>2. /\ Len(errCh) \in Nat /\ Len(errCh') = Len(errCh) + 1
          /\ errCh'[Len(errCh')] = l
          /\ \A k \in 1 .. Len(errCh) : errCh'[k] = errCh[k] /\ errCh[k] # l
          BY <2>2, <3>1 DEF IInv, TypeOK, ReturnIsHonest
    <3>3. \A j, k \in 1 .. Len(errCh') : errCh'[j] = errCh'[k] => j = k
          BY <3>2 DEF IInv, Reported
    <3>4. \A m \in failed' : loop'[m] \in {"drain", "done"}
          BY <2>1, <3>1 DEF IInv, Reported
    <3>5. DOMAIN errCh' = 1 .. Len(errCh') /\ DOMAIN errCh = 1 .. Len(errCh)
          BY <3>1 DEF IInv, TypeOK
    <3>6. NoErrorDropped'
          BY <2>1, <3>1, <3>2, <3>5 DEF IInv, NoErrorDropped
    <3>. QED  BY <3>3, <3>4, <3>6 DEF Reported
  <2>. QED  BY <2>3, <2>4
<1>3. ASSUME NEW l \in Listeners,
             Drained(l) \/ ReadPacket(l) \/ IgnorePacket(l) \/ BuildPong(l) \/ WritePong(l)
      PROVE  Reported' /\ NoErrorDropped'
  <2>1. /\ UNCHANGED <<errCh, failed, serve>> /\ loop' = [loop EXCEPT ![l] = loop'[l]]
        /\ loop[l] \in {"drain", "done"} => loop'[l] \in {"drain", "done"}
        BY <1>3 DEF Drained, ReadPacket, IgnorePacket, BuildPong, WritePong, IInv, TypeOK
  <2>. QED  BY <2>1 DEF IInv, TypeOK, Reported, NoErrorDropped
<1>4. ASSUME UNCHANGED <<errCh, failed, serve, loop>>
      PROVE  Reported' /\ NoErrorDropped'
      BY <1>4 DEF IInv, Reported, NoErrorDropped
<1>5. ASSUME NEW l \in Java, NEW c \in Conns, Accept(l, c) PROVE Reported' /\ NoErrorDropped'
      BY <1>4, <1>5 DEF Accept
<1>6. ASSUME NEW l \in Listeners, CloseOnCancel(l) PROVE Reported' /\ NoErrorDropped'
      BY <1>4, <1>6 DEF CloseOnCancel
<1>7. ASSUME NEW c \in Conns, HandlerEnds(c) PROVE Reported' /\ NoErrorDropped'
      BY <1>4, <1>7 DEF HandlerEnds
<1>8. CASE Cancel  BY <1>4, <1>8 DEF Cancel
<1>9. CASE UNCHANGED vars  BY <1>4, <1>9 DEF vars
<1>. QED  BY <1>1, <1>2, <1>3, <1>5, <1>6, <1>7, <1>8, <1>9
          DEF Next, AcceptFails, ReadFails, WriteFails, Leaves, Listeners

LEMMA Inductive ==
    IInv /\ [Next]_vars => IInv'
BY TypePreserved, PhasesPreserved, OwnedPreserved, HonestPreserved, ReportedPreserved DEF IInv

-----------------------------------------------------------------------------

\* Serve, its loops, its channel and its connections keep their types
\* (server.go:50-205; bedrock.go:90-126).
THEOREM TypeCorrect == Spec => []TypeOK
<1>1. IInv => TypeOK
      BY DEF IInv
<1>. QED  BY <1>1, InitEstablishes, Inductive, PTL DEF Spec

\* For any listeners and any number of connections, Serve returns with every
\* socket closed, every loop ended and every connection closed
\* (server.go:66-110, 164-204).
THEOREM ReturnClean == Spec => []ReturnLeavesNothing
<1>1. IInv => ReturnLeavesNothing
      BY DEF IInv, TypeOK, Phases, Owned, ReturnLeavesNothing, Listeners
<1>. QED  BY <1>1, InitEstablishes, Inductive, PTL DEF Spec

\* Serve's result tells a cancellation from a failure in every interleaving
\* (server.go:168-173, 186-195).
THEOREM ReturnHonest == Spec => []ReturnIsHonest
<1>1. IInv => ReturnIsHonest
      BY DEF IInv
<1>. QED  BY <1>1, InitEstablishes, Inductive, PTL DEF Spec

\* For any number of listeners the channel has room for every error that is
\* reported while Serve waits: the default branch of the send is never taken
\* (server.go:112, 191-194).
THEOREM ErrorsKept == Spec => []NoErrorDropped
<1>1. IInv => NoErrorDropped
      BY DEF IInv
<1>. QED  BY <1>1, InitEstablishes, Inductive, PTL DEF Spec

=============================================================================
