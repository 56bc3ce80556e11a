----------------------------- MODULE RelayProofs -----------------------------
(***************************************************************************)
(* Proofs about the two relays of the release harness: TcpRelay for any    *)
(* number of connections and of chunks, and UdpRelay for any deadlines,    *)
(* any number of attempts, any ports and any size of the relay's buffer.   *)
(***************************************************************************)
EXTENDS TcpRelay, UdpRelay, SequenceTheorems, TLAPS

(* The inductive invariant of TcpRelay, as a conjunction of named parts. *)

\* A chunk is sent, then read, then written; between reading and writing the
\* copy holds one.
Counted ==
    \A c \in Conns, e \in Ends :
        /\ given[c][e] <= taken[c][e] /\ taken[c][e] <= sent[c][e]
        /\ copy[c][e] = "read" => given[c][e] = taken[c][e]
        /\ copy[c][e] = "write" => given[c][e] + 1 = taken[c][e]

\* The target is connected only after the dial.
Undialed == \A c \in Conns : handler[c] \in {"none", "dial"} => sent[c]["upstream"] = 0

\* One of the copies has met an end, or has moved a deadline because of it.
Ending(c) ==
    \/ pastDeadline[c] # {}
    \/ \E e \in Ends : copy[c][e] \in {"expire", "ended"}

\* As long as the client is there and its data has met no closed target, it is
\* the target's end of stream that ends the copies, behind all its data.
EndedByTarget ==
    \A c \in Conns :
        Ending(c) /\ "client" \notin peerClosed[c] /\ c \notin refused =>
            /\ "upstream" \in peerClosed[c]
            /\ given[c]["upstream"] = sent[c]["upstream"]

TcpIInv ==
    /\ TcpTypeOK
    /\ Counted /\ Undialed /\ EndedByTarget
    /\ AnswersReachTheClient

-----------------------------------------------------------------------------
LEMMA TwoEnds ==
    /\ "client" \in Ends /\ "upstream" \in Ends
    /\ \A e \in Ends : e = "client" \/ e = "upstream"
    /\ \A e \in Ends : Other(e) \in Ends
    /\ Other("client") = "upstream" /\ Other("upstream") = "client"
BY DEF Ends, Other

LEMMA TcpInitEstablishes == TcpInit => TcpIInv
<1>. SUFFICES ASSUME TcpInit PROVE TcpIInv
     OBVIOUS
<1>1. 0 \in 0 .. MaxChunks
      BY ChunkAssumption
<1>2. TcpTypeOK
      BY <1>1 DEF TcpInit, TcpTypeOK
<1>3. Counted /\ Undialed
      BY TwoEnds DEF TcpInit, Counted, Undialed
<1>4. EndedByTarget /\ AnswersReachTheClient
      BY TwoEnds DEF TcpInit, EndedByTarget, Ending, AnswersReachTheClient
<1>. QED  BY <1>2, <1>3, <1>4 DEF TcpIInv

-----------------------------------------------------------------------------
(* Steps that leave the streams alone *)

LEMMA GroupSteps ==
    ASSUME TcpIInv,
           \/ AcceptEnds \/ AcceptFails \/ CloseListener \/ CloseDone \/ UNCHANGED tcpVars
    PROVE  TcpIInv'
<1>1. UNCHANGED <<handler, copy, pastDeadline, sent, taken, given, peerClosed, refused>>
      BY DEF AcceptEnds, AcceptFails, CloseListener, CloseDone, tcpVars, streams
<1>2. TcpTypeOK'
  <2>1. /\ listener' \in {"open", "closed"} /\ acceptLoop' \in {"accept", "done"}
        /\ closing' \in {"idle", "waiting", "returned"}
        BY DEF AcceptEnds, AcceptFails, CloseListener, CloseDone, tcpVars, group, TcpIInv, TcpTypeOK
  <2>. QED  BY <1>1, <2>1 DEF TcpIInv, TcpTypeOK
<1>3. Counted' /\ Undialed' /\ EndedByTarget' /\ AnswersReachTheClient'
      BY <1>1 DEF TcpIInv, Counted, Undialed, EndedByTarget, Ending, AnswersReachTheClient
<1>. QED  BY <1>2, <1>3 DEF TcpIInv

LEMMA HandlerSteps ==
    ASSUME TcpIInv, NEW c \in Conns,
           Accept(c) \/ DialUpstream(c) \/ DialFails(c) \/ HandlerEnds(c)
    PROVE  TcpIInv'
<1>1. UNCHANGED <<group, copy, pastDeadline, sent, taken, given, peerClosed, refused>>
      BY DEF Accept, DialUpstream, DialFails, HandlerEnds, group, streams
<1>2. /\ handler' = [handler EXCEPT ![c] = handler'[c]]
      /\ handler'[c] \in {"dial", "copy", "done"}
      /\ handler'[c] = "dial" => handler[c] = "none"
      BY DEF Accept, DialUpstream, DialFails, HandlerEnds, TcpIInv, TcpTypeOK
<1>3. TcpTypeOK'
      BY <1>1, <1>2 DEF group, TcpIInv, TcpTypeOK
<1>4. Counted' /\ EndedByTarget'
      BY <1>1 DEF TcpIInv, Counted, EndedByTarget, Ending
<1>5. Undialed'
      BY <1>1, <1>2 DEF TcpIInv, TcpTypeOK, Undialed
<1>6. AnswersReachTheClient'
  <2>1. ASSUME handler'[c] = "done", "client" \notin peerClosed[c], c \notin refused
        PROVE  given[c]["upstream"] = sent[c]["upstream"]
    <3>1. CASE handler[c] = "dial"
      <4>1. /\ sent[c]["upstream"] = 0 /\ given[c]["upstream"] \in Nat /\ taken[c]["upstream"] \in Nat
            /\ given[c]["upstream"] <= taken[c]["upstream"]
            /\ taken[c]["upstream"] <= sent[c]["upstream"]
            BY <3>1, TwoEnds, ChunkAssumption DEF TcpIInv, Undialed, Counted, TcpTypeOK
      <4>. QED  BY <4>1
    <3>2. CASE handler[c] # "dial"
      <4>1. \A e \in Ends : copy[c][e] = "ended"
            BY <2>1, <3>2 DEF Accept, DialUpstream, DialFails, HandlerEnds, TcpIInv, TcpTypeOK
      <4>. QED  BY <2>1, <4>1, TwoEnds DEF TcpIInv, EndedByTarget, Ending
    <3>. QED  BY <3>1, <3>2
  <2>. QED  BY <1>1, <1>2, <2>1 DEF TcpIInv, TcpTypeOK, AnswersReachTheClient
<1>. QED  BY <1>3, <1>4, <1>5, <1>6 DEF TcpIInv

-----------------------------------------------------------------------------
(* Steps of one copy, and of a peer: only the connection c changes *)

\* What a step on c has to show for c alone.
CountedAt(c) ==
    \A e \in Ends :
        /\ given[c][e] <= taken[c][e] /\ taken[c][e] <= sent[c][e]
        /\ copy[c][e] = "read" => given[c][e] = taken[c][e]
        /\ copy[c][e] = "write" => given[c][e] + 1 = taken[c][e]

EndedAt(c) ==
    Ending(c) /\ "client" \notin peerClosed[c] /\ c \notin refused =>
        /\ "upstream" \in peerClosed[c]
        /\ given[c]["upstream"] = sent[c]["upstream"]

OnlyAt(c) ==
    /\ UNCHANGED handler
    /\ \A d \in Conns \ {c} :
          /\ copy'[d] = copy[d] /\ pastDeadline'[d] = pastDeadline[d] /\ sent'[d] = sent[d]
          /\ taken'[d] = taken[d] /\ given'[d] = given[d] /\ peerClosed'[d] = peerClosed[d]
          /\ d \in refused' <=> d \in refused

LEMMA LocalStep ==
    ASSUME TcpIInv, TcpTypeOK', NEW c \in Conns, OnlyAt(c), CountedAt(c)', EndedAt(c)',
           handler[c] # "done", handler[c] = "dial" => sent'[c]["upstream"] = sent[c]["upstream"],
           handler[c] # "none"
    PROVE  TcpIInv'
<1>1. Counted'
  <2>. SUFFICES ASSUME NEW d \in Conns, NEW e \in Ends
                PROVE  /\ given'[d][e] <= taken'[d][e] /\ taken'[d][e] <= sent'[d][e]
                       /\ copy'[d][e] = "read" => given'[d][e] = taken'[d][e]
                       /\ copy'[d][e] = "write" => given'[d][e] + 1 = taken'[d][e]
       BY DEF Counted
  <2>1. CASE d = c
        BY <2>1 DEF CountedAt
  <2>2. CASE d # c
        BY <2>2 DEF TcpIInv, Counted, OnlyAt
  <2>. QED  BY <2>1, <2>2
<1>2. Undialed'
      BY DEF TcpIInv, Undialed, OnlyAt
<1>3. EndedByTarget'
  <2>. SUFFICES ASSUME NEW d \in Conns PROVE EndedAt(d)'
       BY DEF EndedByTarget, EndedAt
  <2>1. CASE d = c
        BY <2>1
  <2>2. CASE d # c
        BY <2>2 DEF TcpIInv, EndedByTarget, EndedAt, Ending, OnlyAt
  <2>. QED  BY <2>1, <2>2
<1>4. AnswersReachTheClient'
      BY DEF TcpIInv, AnswersReachTheClient, OnlyAt
<1>. QED  BY <1>1, <1>2, <1>3, <1>4 DEF TcpIInv

\* The facts about one connection that the steps need.
LEMMA AtConnection ==
    ASSUME TcpIInv, NEW c \in Conns
    PROVE  /\ CountedAt(c) /\ EndedAt(c)
           /\ \A e \in Ends : /\ given[c][e] \in Nat /\ taken[c][e] \in Nat /\ sent[c][e] \in Nat
                              /\ sent[c][e] <= MaxChunks
<1>1. CountedAt(c) /\ EndedAt(c)
      BY DEF TcpIInv, Counted, CountedAt, EndedByTarget, EndedAt
<1>2. \A e \in Ends : /\ given[c][e] \in 0 .. MaxChunks /\ taken[c][e] \in 0 .. MaxChunks
                     /\ sent[c][e] \in 0 .. MaxChunks
      BY DEF TcpIInv, TcpTypeOK
<1>. QED  BY <1>1, <1>2, ChunkAssumption

LEMMA CopySteps ==
    ASSUME TcpIInv, NEW c \in Conns, NEW src \in Ends,
           Read(c, src) \/ ReadEnds(c, src) \/ Write(c, src) \/ WriteFails(c, src) \/ Expire(c, src)
    PROVE  TcpIInv'
<1>. USE AtConnection, TwoEnds DEF Copying, Moves, group
<1>0. TcpTypeOK
      BY DEF TcpIInv
<1>1. handler[c] = "copy"
      BY DEF Read, ReadEnds, Write, WriteFails, Expire
<1>2. CASE Read(c, src)
  <2>1. /\ taken[c][src] < sent[c][src] /\ copy[c][src] = "read" /\ src \notin pastDeadline[c]
        /\ taken' = [taken EXCEPT ![c][src] = taken[c][src] + 1]
        /\ copy' = [copy EXCEPT ![c][src] = "write"]
        /\ UNCHANGED <<group, handler, pastDeadline, sent, given, peerClosed, refused>>
        BY <1>2 DEF Read
  <2>2. taken[c][src] + 1 \in 0 .. MaxChunks
        BY <2>1, ChunkAssumption
  <2>3. TcpTypeOK' /\ OnlyAt(c)
        BY <1>0, <2>1, <2>2 DEF TcpTypeOK, OnlyAt
  <2>4. CountedAt(c)'
        BY <1>0, <2>1 DEF TcpTypeOK, CountedAt
  <2>5. EndedAt(c)'
        BY <1>0, <2>1 DEF TcpTypeOK, EndedAt, Ending
  <2>. QED  BY <1>1, <2>3, <2>4, <2>5, LocalStep
<1>3. CASE ReadEnds(c, src)
  <2>1. /\ copy[c][src] = "read"
        /\ src \in pastDeadline[c] \/ (src \in peerClosed[c] /\ taken[c][src] = sent[c][src])
        /\ copy' = [copy EXCEPT ![c][src] = "expire"]
        /\ UNCHANGED <<group, handler, pastDeadline, sent, taken, given, peerClosed, refused>>
        BY <1>3 DEF ReadEnds
  <2>3. TcpTypeOK' /\ OnlyAt(c)
        BY <1>0, <2>1 DEF TcpTypeOK, OnlyAt
  <2>4. CountedAt(c)'
        BY <1>0, <2>1 DEF TcpTypeOK, CountedAt
  <2>5. EndedAt(c)'
    <3>1. CASE src \in pastDeadline[c]
          BY <2>1, <3>1 DEF EndedAt, Ending
    <3>2. CASE src \in peerClosed[c] /\ taken[c][src] = sent[c][src]
          BY <2>1, <3>2 DEF EndedAt, CountedAt
    <3>. QED  BY <2>1, <3>1, <3>2
  <2>. QED  BY <1>1, <2>3, <2>4, <2>5, LocalStep
<1>4. CASE Write(c, src)
  <2>1. /\ copy[c][src] = "write"
        /\ given' = [given EXCEPT ![c][src] = given[c][src] + 1]
        /\ copy' = [copy EXCEPT ![c][src] = "read"]
        /\ UNCHANGED <<group, handler, pastDeadline, sent, taken, peerClosed, refused>>
        BY <1>4 DEF Write
  <2>2. /\ given[c][src] + 1 = taken[c][src] /\ given[c][src] + 1 \in 0 .. MaxChunks
        BY <2>1, ChunkAssumption DEF CountedAt
  <2>3. TcpTypeOK' /\ OnlyAt(c)
        BY <1>0, <2>1, <2>2 DEF TcpTypeOK, OnlyAt
  <2>4. CountedAt(c)'
        BY <1>0, <2>1, <2>2 DEF TcpTypeOK, CountedAt
  <2>5. EndedAt(c)'
    <3>1. src = "upstream" => ~ (Ending(c) /\ "client" \notin peerClosed[c] /\ c \notin refused)
          BY <2>2 DEF EndedAt, CountedAt
    <3>2. Ending(c)' => Ending(c)
          BY <1>0, <2>1 DEF TcpTypeOK, Ending
    <3>3. src = "client" => given'[c]["upstream"] = given[c]["upstream"]
          BY <1>0, <2>1 DEF TcpTypeOK
    <3>. QED  BY <2>1, <3>1, <3>2, <3>3 DEF EndedAt
  <2>. QED  BY <1>1, <2>3, <2>4, <2>5, LocalStep
<1>5. CASE WriteFails(c, src)
  <2>1. /\ copy[c][src] = "write" /\ Other(src) \in pastDeadline[c] \cup peerClosed[c]
        /\ copy' = [copy EXCEPT ![c][src] = "expire"]
        /\ refused' = IF Other(src) \in peerClosed[c] THEN refused \cup {c} ELSE refused
        /\ UNCHANGED <<group, handler, pastDeadline, sent, taken, given, peerClosed>>
        BY <1>5 DEF WriteFails
  <2>3. TcpTypeOK' /\ OnlyAt(c)
        BY <1>0, <2>1 DEF TcpTypeOK, OnlyAt
  <2>4. CountedAt(c)'
        BY <1>0, <2>1 DEF TcpTypeOK, CountedAt
  <2>5. EndedAt(c)'
    <3>1. CASE Other(src) \in peerClosed[c]
          BY <2>1, <3>1 DEF EndedAt
    <3>2. CASE Other(src) \in pastDeadline[c] /\ Other(src) \notin peerClosed[c]
          BY <2>1, <3>2 DEF EndedAt, Ending
    <3>. QED  BY <2>1, <3>1, <3>2
  <2>. QED  BY <1>1, <2>3, <2>4, <2>5, LocalStep
<1>6. CASE Expire(c, src)
  <2>1. /\ copy[c][src] = "expire"
        /\ \/ copy' = copy
           \/ copy' = [copy EXCEPT ![c][src] = "ended"]
        /\ \E e \in Ends : pastDeadline' = [pastDeadline EXCEPT ![c] = pastDeadline[c] \cup {e}]
        /\ UNCHANGED <<group, handler, sent, taken, given, peerClosed, refused>>
        BY <1>6 DEF Expire
  <2>2. PICK e \in Ends : pastDeadline' = [pastDeadline EXCEPT ![c] = pastDeadline[c] \cup {e}]
        BY <2>1
  <2>a. /\ copy' \in [Conns -> [Ends -> {"read", "write", "expire", "ended"}]]
        /\ \A d \in Conns \ {c} : copy'[d] = copy[d]
        /\ \A x \in Ends : copy'[c][x] # copy[c][x] => copy'[c][x] = "ended"
    <3>1. CASE copy' = copy
          BY <1>0, <3>1 DEF TcpTypeOK
    <3>2. CASE copy' = [copy EXCEPT ![c][src] = "ended"]
          BY <1>0, <3>2 DEF TcpTypeOK
    <3>. QED  BY <2>1, <3>1, <3>2
  <2>b. /\ pastDeadline' \in [Conns -> SUBSET Ends]
        /\ \A d \in Conns \ {c} : pastDeadline'[d] = pastDeadline[d]
        BY <1>0, <2>2 DEF TcpTypeOK
  <2>3. TcpTypeOK' /\ OnlyAt(c)
        BY <1>0, <2>1, <2>a, <2>b DEF TcpTypeOK, OnlyAt
  <2>4. CountedAt(c)'
        BY <2>1, <2>a DEF CountedAt
  <2>5. EndedAt(c)'
        BY <2>1 DEF EndedAt, Ending
  <2>. QED  BY <1>1, <2>3, <2>4, <2>5, LocalStep
<1>. QED  BY <1>2, <1>3, <1>4, <1>5, <1>6

LEMMA PeerSteps ==
    ASSUME TcpIInv, NEW c \in Conns, NEW e \in Ends, PeerSends(c, e) \/ PeerCloses(c, e)
    PROVE  TcpIInv'
<1>. USE AtConnection, TwoEnds DEF group
<1>0. TcpTypeOK
      BY DEF TcpIInv
<1>1. handler[c] \in {"copy", "dial"} /\ (handler[c] = "dial" => e = "client")
      BY DEF PeerSends, PeerCloses, Connected
<1>2. CASE PeerSends(c, e)
  <2>1. /\ sent[c][e] < MaxChunks /\ e \notin peerClosed[c]
        /\ sent' = [sent EXCEPT ![c][e] = sent[c][e] + 1]
        /\ UNCHANGED <<group, handler, copy, pastDeadline, taken, given, peerClosed, refused>>
        BY <1>2 DEF PeerSends, Connected
  <2>2. sent[c][e] + 1 \in 0 .. MaxChunks
        BY <2>1, ChunkAssumption
  <2>3. TcpTypeOK' /\ OnlyAt(c)
        BY <1>0, <2>1, <2>2 DEF TcpTypeOK, OnlyAt
  <2>4. CountedAt(c)'
        BY <1>0, <2>1 DEF TcpTypeOK, CountedAt
  <2>5. EndedAt(c)' /\ (e = "client" => sent'[c]["upstream"] = sent[c]["upstream"])
        BY <1>0, <2>1 DEF TcpTypeOK, EndedAt, Ending
  <2>. QED  BY <1>1, <2>3, <2>4, <2>5, LocalStep
<1>3. CASE PeerCloses(c, e)
  <2>1. /\ peerClosed' = [peerClosed EXCEPT ![c] = peerClosed[c] \cup {e}]
        /\ UNCHANGED <<group, handler, copy, pastDeadline, sent, taken, given, refused>>
        BY <1>3 DEF PeerCloses
  <2>3. TcpTypeOK' /\ OnlyAt(c)
        BY <1>0, <2>1 DEF TcpTypeOK, OnlyAt
  <2>4. CountedAt(c)'
        BY <2>1 DEF CountedAt
  <2>5. EndedAt(c)'
        BY <1>0, <2>1 DEF TcpTypeOK, EndedAt, Ending
  <2>. QED  BY <1>1, <2>1, <2>3, <2>4, <2>5, LocalStep
<1>. QED  BY <1>2, <1>3

LEMMA TcpInductive == TcpIInv /\ [TcpNext]_tcpVars => TcpIInv'
BY GroupSteps, HandlerSteps, CopySteps, PeerSteps DEF TcpNext, HandlerStep

-----------------------------------------------------------------------------
\* The relay keeps its types for any number of connections (main.go:606-668).
THEOREM TcpTypeCorrect == TcpSpec => []TcpTypeOK
<1>1. TcpIInv => TcpTypeOK
      BY DEF TcpIInv
<1>. QED  BY <1>1, TcpInitEstablishes, TcpInductive, PTL DEF TcpSpec

\* For any number of connections and any length of an answer, a client that is
\* still there at the end has been handed all of it, unless its own data met a
\* target that had gone (main.go:649-660).
THEOREM AnswersReach == TcpSpec => []AnswersReachTheClient
<1>1. TcpIInv => AnswersReachTheClient
      BY DEF TcpIInv
<1>. QED  BY <1>1, TcpInitEstablishes, TcpInductive, PTL DEF TcpSpec

-----------------------------------------------------------------------------
(* The inductive invariant of UdpRelay. *)

\* The pings go through the relay in the order of the attempts.
Queued ==
    /\ job <= attempt
    /\ loop \in {"forward", "await"} => job # 0
    /\ \A i \in 1 .. Len(queue) : job < queue[i] /\ queue[i] <= attempt
    /\ \A i, j \in 1 .. Len(queue) : i < j => queue[i] < queue[j]

\* At most one datagram per ping is under way, and one that the relay is not
\* waiting for is behind a forwarding that ended unanswered.
Wires ==
    \A m \in net :
        /\ m.ping <= job
        /\ loop = "forward" => m.ping # job
        /\ \A n \in net : n.ping = m.ping => n = m
        /\ \/ loop = "await" /\ m.ping = job
           \/ \E lost \in expired : lost <= m.ping

\* Where the prober stands.
Probing ==
    /\ prober # "wait" => inbox = {}
    /\ prober = "wait" => left <= ProbeTimeout
    /\ prober = "pause" => left <= RetryInterval
    /\ prober = "timed out" => attempt = MaxAttempts
    /\ conn = "closed" => prober \in Over
    /\ loop = "done" => conn = "closed"

\* Once the target has settled, a datagram under way is the one the relay waits
\* for, and the clock has stood still since it was sent.
Quiet ==
    /\ ~ settled => settledAt = MaxAttempts
    /\ settled => /\ settledAt <= attempt
                  /\ net # {} => loop = "await" /\ patience = RelayTimeout
                  /\ \A m \in net : m.ping = job /\ m.port = port

\* The relay waits for the answer to a ping that was lost before.
Stuck == loop = "await" /\ net = {}

\* The time the attempts since the target settled have taken: the earlier ones
\* in full, and the one under way.
Round   == ProbeTimeout + RetryInterval
Earlier == (attempt - settledAt - 1) * Round
Elapsed == CASE prober = "wait"  -> ProbeTimeout - left
             [] prober = "pause" -> Round - left
             [] OTHER            -> Round

\* The relay was stuck until this instant.
JustFreed == Earlier + Elapsed <= RelayTimeout

\* The attempt ended early, with the answer to an older ping from its port, and
\* the clock has not moved since.
Missed ==
    /\ Earlier <= RelayTimeout
    /\ prober = "pause" /\ left = RetryInterval

\* The attempt was missed, and the relay has nothing left to do.
Idle ==
    /\ Earlier <= RelayTimeout
    /\ loop = "read" /\ Len(queue) = 0 /\ net = {} /\ inbox = {}

\* The attempt is about to be answered.
Answering ==
    /\ prober = "wait" /\ left = ProbeTimeout /\ inbox \subseteq {attempt}
    /\ \/ loop = "read" /\ Len(queue) = 1 /\ queue[1] = attempt
       \/ loop = "forward" /\ job = attempt
       \/ loop = "await" /\ job = attempt /\ net # {}
       \/ loop = "read" /\ job = attempt /\ attempt \in inbox

\* As long as the relay is stuck its deadline covers the attempts since the
\* target settled; when it no longer is, the next attempt is answered.
Timely ==
    settled /\ settledAt < attempt /\ prober \notin Over =>
        IF Stuck THEN Earlier + Elapsed + patience <= RelayTimeout /\ inbox = {}
        ELSE JustFreed \/ Missed \/ Idle \/ Answering

IInv ==
    /\ TypeOK
    /\ Queued /\ Wires /\ Probing /\ Quiet /\ Timely
    /\ StrayAnswerNeedsReuse /\ SettledTargetIsFound

-----------------------------------------------------------------------------
LEMMA Constants ==
    /\ RelayTimeout \in Nat /\ ProbeTimeout \in Nat /\ RetryInterval \in Nat
    /\ MaxAttempts \in Nat /\ QueueLimit \in Nat
    /\ RelayTimeout > 0 /\ ProbeTimeout > 0 /\ RetryInterval > 0
    /\ MaxAttempts > 0 /\ QueueLimit > 0
<1>1. /\ RelayTimeout \in Nat \ {0} /\ ProbeTimeout \in Nat \ {0} /\ RetryInterval \in Nat \ {0}
      /\ MaxAttempts \in Nat \ {0} /\ QueueLimit \in Nat \ {0}
      BY TimeAssumption
<1>. QED  BY <1>1

\* The numbers of a state are numbers.
LEMMA Numbers ==
    ASSUME TypeOK
    PROVE  /\ job \in Nat /\ attempt \in Nat /\ settledAt \in Nat
           /\ patience \in Nat /\ left \in Nat
           /\ job <= MaxAttempts /\ attempt <= MaxAttempts /\ settledAt <= MaxAttempts
           /\ patience <= RelayTimeout
<1>1. /\ job \in (1 .. MaxAttempts) \cup {0} /\ attempt \in 0 .. MaxAttempts
      /\ settledAt \in 0 .. MaxAttempts /\ patience \in 0 .. RelayTimeout
      /\ left \in (0 .. ProbeTimeout) \cup (0 .. RetryInterval)
      BY DEF TypeOK, Attempts
<1>. QED  BY <1>1, Constants

\* A step of the clock takes one from what is left, and never goes below zero.
LEMMA LessIsLess ==
    ASSUME NEW n \in Nat
    PROVE  /\ Less(n) \in Nat /\ Less(n) <= n
           /\ n > 0 => Less(n) = n - 1
BY DEF Less

LEMMA InitEstablishes == Init => IInv
<1>. SUFFICES ASSUME Init PROVE IInv
     OBVIOUS
<1>1. queue \in Seq(Attempts) /\ Len(queue) = 0
  <2>1. queue = <<>>
        BY DEF Init
  <2>. QED  BY <2>1
<1>2. TypeOK
  <2>1. /\ 0 \in 0 .. RelayTimeout /\ 0 \in 0 .. ProbeTimeout /\ 0 \in 0 .. MaxAttempts
        /\ MaxAttempts \in 0 .. MaxAttempts /\ Len(queue) <= QueueLimit
        BY <1>1, Constants
  <2>2. client \in [Attempts -> ClientPorts]
        BY PortAssumption DEF Init
  <2>. QED  BY <1>1, <2>1, <2>2, Zenon DEF Init, TypeOK
<1>3. Queued /\ Wires
  <2>1. job = 0 /\ attempt = 0 /\ net = {} /\ loop = "read"
        BY DEF Init
  <2>. QED  BY <1>1, <2>1 DEF Queued, Wires
<1>4. Probing /\ Quiet /\ Timely /\ StrayAnswerNeedsReuse /\ SettledTargetIsFound
      BY DEF Init, Probing, Quiet, Timely, StrayAnswerNeedsReuse, SettledTargetIsFound, Over
<1>. QED  BY <1>2, <1>3, <1>4 DEF IInv

-----------------------------------------------------------------------------
(* The types *)

\* What Receive takes from the buffer, and what it leaves.
LEMMA Taken ==
    ASSUME TypeOK, Receive
    PROVE  /\ job' = queue[1] /\ queue[1] \in Attempts
           /\ queue' \in Seq(Attempts) /\ Len(queue') = Len(queue) - 1 /\ Len(queue) \in Nat
           /\ Len(queue) > 0
           /\ \A i \in 1 .. Len(queue') : queue'[i] = queue[i + 1]
<1>1. queue \in Seq(Attempts)
      BY DEF TypeOK
<1>2. queue # <<>> /\ job' = Head(queue) /\ queue' = Tail(queue)
      BY DEF Receive
<1>. QED  BY <1>1, <1>2

\* What Attempt puts into the buffer, if there is room.
LEMMA Put ==
    ASSUME TypeOK, Attempt
    PROVE  /\ Len(queue) \in Nat /\ Len(queue) <= QueueLimit
           /\ queue' \in Seq(Attempts) /\ Len(queue') <= QueueLimit
           /\ \/ Len(queue) = QueueLimit /\ queue' = queue
              \/ /\ Len(queue) < QueueLimit /\ Len(queue') = Len(queue) + 1
                 /\ \A i \in 1 .. Len(queue) : queue'[i] = queue[i]
                 /\ queue'[Len(queue) + 1] = attempt + 1
<1>1. queue \in Seq(Attempts) /\ Len(queue) <= QueueLimit
      BY DEF TypeOK
<1>2. /\ attempt < MaxAttempts /\ attempt' = attempt + 1
      /\ queue' = IF Len(queue) < QueueLimit THEN Append(queue, attempt') ELSE queue
      BY DEF Attempt
<1>3. attempt + 1 \in Attempts
      BY <1>2, Numbers, Constants DEF Attempts
<1>4. Len(queue) \in Nat
      BY <1>1
<1>5. CASE Len(queue) < QueueLimit
  <2>1. queue' = Append(queue, attempt + 1)
        BY <1>2, <1>5
  <2>. QED  BY <1>1, <1>3, <1>4, <1>5, <2>1, Constants
<1>6. CASE ~ (Len(queue) < QueueLimit)
  <2>1. queue' = queue
        BY <1>2, <1>6
  <2>. QED  BY <1>1, <1>4, <1>6, <2>1, Constants
<1>. QED  BY <1>5, <1>6

LEMMA TypePreserved ==
    ASSUME IInv, [Next]_vars
    PROVE  TypeOK'
<1>. USE DEF relay, wait, target
<1>0. TypeOK /\ Queued
      BY DEF IInv
<1>1. CASE Receive
  <2>1. /\ job' \in Attempts \cup {0} /\ queue' \in Seq(Attempts) /\ Len(queue') <= QueueLimit
    <3>1. Len(queue) <= QueueLimit
          BY <1>0, Zenon DEF TypeOK
    <3>. QED  BY <1>0, <1>1, <3>1, Taken, Constants
  <2>. QED  BY <1>0, <1>1, <2>1, Zenon DEF Receive, TypeOK
<1>2. CASE Forward
  <2>1. job \in Attempts
        BY <1>0, <1>2, Zenon DEF Forward, Queued, TypeOK
  <2>2. port' \in Ports /\ patience' \in 0 .. RelayTimeout
        BY <1>2, Constants DEF Forward
  <2>3. net' \in SUBSET [kind : {"ping", "pong"}, port : Ports, ping : Attempts]
    <3>1. net \in SUBSET [kind : {"ping", "pong"}, port : Ports, ping : Attempts]
          BY <1>0 DEF TypeOK
    <3>2. net' = net \cup {[kind |-> "ping", port |-> port', ping |-> job]}
          BY <1>2 DEF Forward
    <3>. QED  BY <2>1, <2>2, <3>1, <3>2
  <2>. QED  BY <1>0, <1>2, <2>2, <2>3, Zenon DEF Forward, TypeOK
<1>3. CASE ForwardFails \/ AwaitRefused \/ AwaitExpires
  <2>1. GivesUp /\ loop \in {"forward", "await"}
        BY <1>3 DEF ForwardFails, AwaitRefused, AwaitExpires
  <2>2. job \in Attempts
        BY <1>0, <2>1, Zenon DEF Queued, TypeOK
  <2>3. expired' \in SUBSET Attempts
        BY <1>0, <2>1, <2>2, Zenon DEF GivesUp, TypeOK
  <2>. QED  BY <1>0, <2>1, <2>3, Zenon DEF GivesUp, TypeOK
<1>4. CASE Answered
  <2>1. PICK m \in net :
           /\ net' = net \ {m}
           /\ inbox' = IF conn = "open" /\ Reaches(job)
                       THEN inbox \cup {m.ping} ELSE inbox
        BY <1>4 DEF Answered
  <2>2. m.ping \in Attempts
        BY <1>0 DEF TypeOK
  <2>3. net' \in SUBSET [kind : {"ping", "pong"}, port : Ports, ping : Attempts]
        BY <1>0, <2>1, Zenon DEF TypeOK
  <2>4. inbox' \in SUBSET Attempts
        BY <1>0, <2>1, <2>2, Zenon DEF TypeOK
  <2>. QED  BY <1>0, <1>4, <2>3, <2>4, Zenon DEF Answered, TypeOK
<1>5. CASE LoopEnds \/ BeginClose \/ CloseReturns \/ UNCHANGED vars
  <2>1. UNCHANGED <<queue, job, port, patience, net, inbox, wait, target, expired>>
        BY <1>5, Zenon DEF LoopEnds, BeginClose, CloseReturns, vars
  <2>2. /\ conn' \in {conn, "closed"} /\ loop' \in {loop, "done"}
        /\ closer' \in {closer, "waiting", "returned"}
        BY <1>5, Zenon DEF LoopEnds, BeginClose, CloseReturns, vars
  <2>. QED  BY <1>0, <2>1, <2>2, ZenonT(40) DEF TypeOK
<1>6. CASE Attempt
  <2>1. queue' \in Seq(Attempts) /\ Len(queue') <= QueueLimit
        BY <1>0, <1>6, Put
  <2>2. attempt' \in 0 .. MaxAttempts /\ left' \in 0 .. ProbeTimeout
    <3>1. attempt < MaxAttempts /\ attempt' = attempt + 1 /\ left' = ProbeTimeout
          BY <1>6 DEF Attempt
    <3>. QED  BY <1>0, <3>1, Numbers, Constants
  <2>3. client' \in [Attempts -> ClientPorts]
    <3>1. PICK p \in ClientPorts : client' = [client EXCEPT ![attempt'] = p]
          BY <1>6 DEF Attempt
    <3>. QED  BY <1>0, <3>1, Zenon DEF TypeOK
  <2>. QED  BY <1>0, <1>6, <2>1, <2>2, <2>3, Zenon DEF Attempt, TypeOK
<1>7. CASE TimedOut \/ ReadReply \/ ReadTimesOut \/ PauseEnds \/ PauseCancelled
  <2>1. UNCHANGED <<relay, net, attempt, client, target, expired>>
        BY <1>7 DEF TimedOut, ReadReply, ReadTimesOut, PauseEnds, PauseCancelled
  <2>2. inbox' \in {inbox, {}} /\ left' \in {left, 0, RetryInterval}
        BY <1>7 DEF TimedOut, ReadReply, ReadTimesOut, PauseEnds, PauseCancelled
  <2>3. prober' \in {"ready to send", "wait", "pause"} \cup Over
        BY <1>7, Zenon DEF TimedOut, ReadReply, ReadTimesOut, PauseEnds, PauseCancelled, Over
  <2>4. 0 \in 0 .. ProbeTimeout /\ RetryInterval \in 0 .. RetryInterval
        BY Constants
  <2>5. left' \in (0 .. ProbeTimeout) \cup (0 .. RetryInterval) /\ inbox' \in SUBSET Attempts
        BY <1>0, <2>2, <2>4, Zenon DEF TypeOK
  <2>. QED  BY <1>0, <2>1, <2>3, <2>5, Zenon DEF TypeOK
<1>8. CASE Answer
  <2>1. PICK m \in net : net' = (net \ {m}) \cup {[m EXCEPT !.kind = "pong"]}
        BY <1>8 DEF Answer
  <2>2. net' \in SUBSET [kind : {"ping", "pong"}, port : Ports, ping : Attempts]
        BY <1>0, <2>1 DEF TypeOK
  <2>. QED  BY <1>0, <1>8, <2>2, Zenon DEF Answer, TypeOK
<1>9. CASE Vanish
  <2>1. net' \in SUBSET [kind : {"ping", "pong"}, port : Ports, ping : Attempts]
        BY <1>0, <1>9, Zenon DEF Vanish, TypeOK
  <2>. QED  BY <1>0, <1>9, <2>1, Zenon DEF Vanish, TypeOK
<1>10. CASE Settle
       BY <1>0, <1>10, Zenon DEF Settle, TypeOK
<1>11. CASE Tick
  <2>1. patience' = Less(patience) /\ left' = Less(left)
        BY <1>11 DEF Tick
  <2>2. patience' \in 0 .. RelayTimeout
        BY <1>0, <2>1, Numbers, LessIsLess, Constants
  <2>3. left \in (0 .. ProbeTimeout) \cup (0 .. RetryInterval)
        BY <1>0 DEF TypeOK
  <2>4. left' \in (0 .. ProbeTimeout) \cup (0 .. RetryInterval)
        BY <1>0, <2>1, <2>3, Numbers, LessIsLess, Constants
  <2>. QED  BY <1>0, <1>11, <2>2, <2>4, Zenon DEF Tick, TypeOK
<1>. QED  BY <1>1, <1>2, <1>3, <1>4, <1>5, <1>6, <1>7, <1>8, <1>9, <1>10, <1>11, Zenon DEF Next

-----------------------------------------------------------------------------
(* The order of the pings *)

LEMMA QueuedPreserved ==
    ASSUME IInv, [Next]_vars
    PROVE  Queued'
<1>0. TypeOK /\ Queued
      BY DEF IInv
<1>1. CASE Receive
  <2>1. /\ UNCHANGED attempt /\ loop' = "forward"
        BY <1>1 DEF Receive, wait
  <2>2. queue[1] # 0
        BY <1>0, <1>1, Taken, Constants DEF Attempts
  <2>3. \A i \in 1 .. Len(queue) : queue[i] <= attempt
        BY <1>0 DEF Queued
  <2>4. \A i, j \in 1 .. Len(queue) : i < j => queue[i] < queue[j]
        BY <1>0 DEF Queued
  <2>5. /\ job' = queue[1] /\ Len(queue') = Len(queue) - 1 /\ Len(queue) \in Nat /\ Len(queue) > 0
        /\ \A i \in 1 .. Len(queue') : queue'[i] = queue[i + 1]
        BY <1>0, <1>1, Taken
  <2>6. job' <= attempt' /\ job' # 0
        BY <2>1, <2>2, <2>3, <2>5
  <2>7. \A i \in 1 .. Len(queue') : job' < queue'[i] /\ queue'[i] <= attempt'
        BY <2>1, <2>3, <2>4, <2>5
  <2>8. ASSUME NEW i \in 1 .. Len(queue'), NEW j \in 1 .. Len(queue'), i < j
        PROVE  queue'[i] < queue'[j]
        BY <2>4, <2>5, <2>8
  <2>. QED  BY <2>6, <2>7, <2>8 DEF Queued
<1>2. CASE Attempt
  <2>1. UNCHANGED <<job, loop>> /\ attempt' = attempt + 1
        BY <1>2 DEF Attempt
  <2>2. /\ job \in Nat /\ attempt \in Nat /\ \A i \in 1 .. Len(queue) : queue[i] \in Nat
    <3>1. queue \in Seq(Attempts)
          BY <1>0 DEF TypeOK
    <3>2. \A i \in 1 .. Len(queue) : queue[i] \in Attempts
          BY <3>1
    <3>. QED  BY <1>0, <3>2, Numbers, Constants DEF Attempts
  <2>3. \A i \in 1 .. Len(queue) : job < queue[i] /\ queue[i] <= attempt
        BY <1>0 DEF Queued
  <2>4. \A i, j \in 1 .. Len(queue) : i < j => queue[i] < queue[j]
        BY <1>0 DEF Queued
  <2>5. job <= attempt /\ (loop \in {"forward", "await"} => job # 0)
        BY <1>0 DEF Queued
  <2>6. CASE queue' = queue
        BY <2>1, <2>2, <2>3, <2>4, <2>5, <2>6 DEF Queued
  <2>7. CASE queue' # queue
    <3>1. /\ Len(queue) \in Nat /\ Len(queue') = Len(queue) + 1
          /\ \A i \in 1 .. Len(queue) : queue'[i] = queue[i]
          /\ queue'[Len(queue) + 1] = attempt + 1
          BY <1>0, <1>2, <2>7, Put
    <3>2. \A i \in 1 .. Len(queue') : job' < queue'[i] /\ queue'[i] <= attempt'
          BY <2>1, <2>2, <2>3, <2>5, <3>1
    <3>3. ASSUME NEW i \in 1 .. Len(queue'), NEW j \in 1 .. Len(queue'), i < j
          PROVE  queue'[i] < queue'[j]
      <4>1. i \in 1 .. Len(queue)
            BY <3>1, <3>3
      <4>2. CASE j \in 1 .. Len(queue)
            BY <2>4, <3>1, <3>3, <4>1, <4>2
      <4>3. CASE j = Len(queue) + 1
            BY <2>2, <2>3, <3>1, <4>1, <4>3
      <4>. QED  BY <3>1, <4>2, <4>3
    <3>. QED  BY <2>1, <2>2, <2>5, <3>2, <3>3 DEF Queued
  <2>. QED  BY <2>6, <2>7
<1>3. CASE ~ Receive /\ ~ Attempt
  <2>1. /\ UNCHANGED <<queue, job, attempt>>
        /\ loop' \in {"forward", "await"} => loop \in {"forward", "await"}
        BY <1>3, Zenon DEF Next, vars, relay, wait, Forward, ForwardFails, AwaitRefused,
           AwaitExpires, GivesUp, Answered, LoopEnds, BeginClose, CloseReturns, TimedOut,
           ReadReply, ReadTimesOut, PauseEnds, PauseCancelled, Answer, Vanish, Settle, Tick
  <2>. QED  BY <1>0, <2>1 DEF Queued
<1>. QED  BY <1>1, <1>2, <1>3

-----------------------------------------------------------------------------
(* The datagrams *)

\* The datagrams are records with a number in them.
LEMMA Datagrams ==
    ASSUME TypeOK
    PROVE  /\ net \in SUBSET [kind : {"ping", "pong"}, port : Ports, ping : Attempts]
           /\ \A m \in net : m.ping \in Nat
           /\ \A n \in expired : n \in Nat
<1>1. /\ net \in SUBSET [kind : {"ping", "pong"}, port : Ports, ping : Attempts]
      /\ expired \in SUBSET Attempts
      BY DEF TypeOK
<1>. QED  BY <1>1, Constants DEF Attempts

LEMMA WiresPreserved ==
    ASSUME IInv, [Next]_vars
    PROVE  Wires'
<1>0. TypeOK /\ Queued /\ Wires
      BY DEF IInv
<1>n. job \in Nat /\ \A m \in net : m.ping \in Nat
      BY <1>0, Numbers, Datagrams
<1>w. ASSUME NEW m \in net
      PROVE  /\ m.ping <= job
             /\ loop = "forward" => m.ping # job
             /\ \A n \in net : n.ping = m.ping => n = m
             /\ \/ loop = "await" /\ m.ping = job
                \/ \E lost \in expired : lost <= m.ping
      BY <1>0 DEF Wires
<1>1. CASE Receive
  <2>1. UNCHANGED <<net, expired>> /\ loop = "read"
        BY <1>1 DEF Receive
  <2>2. job < job' /\ job' \in Nat
    <3>1. job' = queue[1] /\ 1 \in 1 .. Len(queue) /\ queue[1] \in Nat
          BY <1>0, <1>1, Taken, Constants DEF Attempts
    <3>. QED  BY <1>0, <3>1 DEF Queued
  <2>3. \A m \in net : m.ping <= job' /\ m.ping # job'
        BY <1>n, <1>w, <2>2
  <2>. QED  BY <1>w, <2>1, <2>3 DEF Wires
<1>2. CASE Forward
  <2>1. /\ loop = "forward" /\ loop' = "await" /\ UNCHANGED <<job, expired>>
        /\ net' = net \cup {[kind |-> "ping", port |-> port', ping |-> job]}
        BY <1>2 DEF Forward
  <2>2. PICK new : new = [kind |-> "ping", port |-> port', ping |-> job]
        OBVIOUS
  <2>3. new.ping = job /\ net' = net \cup {new}
        BY <2>1, <2>2
  <2>. QED  BY <1>n, <1>w, <2>1, <2>3 DEF Wires
<1>3. CASE ForwardFails \/ AwaitRefused \/ AwaitExpires
  <2>1. UNCHANGED <<net, job>> /\ loop' = "read" /\ expired' = expired \cup {job}
        BY <1>3 DEF ForwardFails, AwaitRefused, AwaitExpires, GivesUp
  <2>. QED  BY <1>n, <1>w, <2>1 DEF Wires
<1>4. CASE Answered
  <2>1. PICK m \in net : net' = net \ {m}
        BY <1>4 DEF Answered
  <2>2. UNCHANGED <<job, expired>> /\ loop' = "read" /\ loop = "await"
        BY <1>4 DEF Answered
  <2>3. ASSUME NEW n \in net'
        PROVE  \E lost \in expired : lost <= n.ping
    <3>1. CASE n.ping = job
      <4>1. m.ping # job /\ n \in net
            BY <1>w, <2>1, <3>1
      <4>2. PICK lost \in expired : lost <= m.ping
            BY <1>w, <4>1
      <4>3. lost \in Nat /\ m.ping \in Nat /\ m.ping <= job
            BY <1>0, <1>n, <1>w, Datagrams
      <4>. QED  BY <1>n, <3>1, <4>2, <4>3
    <3>2. CASE n.ping # job
          BY <1>w, <2>1, <3>2
    <3>. QED  BY <3>1, <3>2
  <2>. QED  BY <1>w, <2>1, <2>2, <2>3 DEF Wires
<1>5. CASE Answer
  <2>1. PICK m \in net : net' = (net \ {m}) \cup {[m EXCEPT !.kind = "pong"]}
        BY <1>5 DEF Answer
  <2>2. UNCHANGED <<job, expired, loop>>
        BY <1>5 DEF Answer, relay
  <2>3. PICK new : new = [m EXCEPT !.kind = "pong"]
        OBVIOUS
  <2>4. new.ping = m.ping /\ net' = (net \ {m}) \cup {new}
        BY <1>0, <2>1, <2>3, Datagrams
  <2>. QED  BY <1>w, <2>2, <2>4 DEF Wires
<1>6. CASE Vanish
  <2>1. PICK m \in net : net' = net \ {m}
        BY <1>6 DEF Vanish
  <2>2. UNCHANGED <<job, expired, loop>>
        BY <1>6 DEF Vanish, relay
  <2>. QED  BY <1>w, <2>1, <2>2 DEF Wires
<1>7. CASE LoopEnds
  <2>1. UNCHANGED <<job, expired, net>> /\ loop = "read" /\ loop' = "done"
        BY <1>7 DEF LoopEnds
  <2>. QED  BY <1>w, <2>1 DEF Wires
<1>8. CASE \/ BeginClose \/ CloseReturns \/ Attempt \/ TimedOut \/ ReadReply \/ ReadTimesOut
           \/ PauseEnds \/ PauseCancelled \/ Settle \/ Tick \/ UNCHANGED vars
  <2>1. UNCHANGED <<job, expired, net, loop>>
        BY <1>8, Zenon DEF vars, relay, BeginClose, CloseReturns, Attempt, TimedOut,
           ReadReply, ReadTimesOut, PauseEnds, PauseCancelled, Settle, Tick
  <2>. QED  BY <1>w, <2>1 DEF Wires
<1>. QED  BY <1>1, <1>2, <1>3, <1>4, <1>5, <1>6, <1>7, <1>8, Zenon DEF Next

-----------------------------------------------------------------------------
(* The prober, and what it is handed *)

LEMMA ProbingPreserved ==
    ASSUME IInv, [Next]_vars
    PROVE  Probing'
<1>0. TypeOK /\ Probing
      BY DEF IInv
<1>1. CASE Receive \/ Forward \/ ForwardFails \/ AwaitRefused \/ AwaitExpires
  <2>1. UNCHANGED <<conn, inbox, prober, attempt, left>> /\ loop' # "done"
        BY <1>1 DEF wait, Receive, Forward, ForwardFails, AwaitRefused, AwaitExpires, GivesUp
  <2>. QED  BY <1>0, <2>1 DEF Probing
<1>2. CASE Answered
  <2>1. UNCHANGED <<conn, prober, attempt, left>> /\ loop' # "done"
        BY <1>2 DEF wait, Answered
  <2>2. prober # "wait" => inbox' = inbox
        BY <1>2 DEF Answered, Reaches
  <2>. QED  BY <1>0, <2>1, <2>2 DEF Probing
<1>3. CASE LoopEnds \/ CloseReturns \/ Answer \/ Vanish \/ Settle \/ UNCHANGED vars
  <2>1. /\ UNCHANGED <<conn, inbox, prober, attempt, left>>
        /\ loop' = "done" => loop = "done" \/ conn = "closed"
        BY <1>3 DEF vars, relay, wait, LoopEnds, CloseReturns, Answer, Vanish, Settle
  <2>. QED  BY <1>0, <2>1 DEF Probing
<1>4. CASE BeginClose
  <2>1. UNCHANGED <<loop, inbox, prober, attempt, left>> /\ prober \in Over /\ conn' = "closed"
        BY <1>4 DEF wait, BeginClose
  <2>. QED  BY <1>0, <2>1 DEF Probing
<1>5. CASE Attempt
  <2>1. /\ prober \notin Over /\ prober' = "wait" /\ left' = ProbeTimeout
        /\ UNCHANGED <<conn, loop>>
        BY <1>5 DEF Attempt, Over
  <2>2. conn # "closed" /\ loop # "done"
        BY <1>0, <2>1, Zenon DEF Probing
  <2>a. ProbeTimeout <= ProbeTimeout
        BY Constants
  <2>. QED  BY <2>1, <2>2, <2>a, Zenon DEF Probing
<1>6. CASE TimedOut
  <2>1. /\ prober = "ready to send" /\ attempt = MaxAttempts /\ prober' = "timed out"
        /\ UNCHANGED <<conn, loop, inbox, attempt>>
        BY <1>6 DEF TimedOut, relay
  <2>. QED  BY <1>0, <2>1 DEF Probing, Over
<1>7. CASE ReadReply \/ ReadTimesOut
  <2>1. /\ prober \notin Over /\ inbox' = {}
        /\ prober' \in {"ready", "pause"} /\ (prober' = "pause" => left' = RetryInterval)
        /\ UNCHANGED <<conn, loop>>
        BY <1>7 DEF ReadReply, ReadTimesOut, relay, Over
  <2>2. conn # "closed" /\ loop # "done"
        BY <1>0, <2>1, Zenon DEF Probing
  <2>a. RetryInterval <= RetryInterval
        BY Constants
  <2>3. prober' # "wait" /\ prober' # "timed out"
        BY <2>1
  <2>. QED  BY <2>1, <2>2, <2>3, <2>a, Zenon DEF Probing
<1>8. CASE PauseEnds \/ PauseCancelled
  <2>1. /\ prober = "pause" /\ prober' \in {"ready to send", "cancelled"}
        /\ UNCHANGED <<conn, loop, inbox>>
        BY <1>8 DEF PauseEnds, PauseCancelled, relay
  <2>. QED  BY <1>0, <2>1 DEF Probing, Over
<1>9. CASE Tick
  <2>1. left' = Less(left) /\ UNCHANGED <<conn, loop, inbox, prober, attempt>>
        BY <1>9 DEF Tick
  <2>2. left' <= left /\ left' \in Nat /\ left \in Nat
        BY <1>0, <2>1, Numbers, LessIsLess
  <2>3. /\ left <= ProbeTimeout => left' <= ProbeTimeout
        /\ left <= RetryInterval => left' <= RetryInterval
        BY <2>2, Constants
  <2>. QED  BY <1>0, <2>1, <2>3, Zenon DEF Probing
<1>. QED  BY <1>1, <1>2, <1>3, <1>4, <1>5, <1>6, <1>7, <1>8, <1>9, Zenon DEF Next

LEMMA StrayPreserved ==
    ASSUME IInv, [Next]_vars
    PROVE  StrayAnswerNeedsReuse'
<1>0. TypeOK /\ Queued /\ Wires /\ Probing /\ StrayAnswerNeedsReuse
      BY DEF IInv
<1>1. CASE Answered
  <2>1. PICK m \in net : inbox' = IF conn = "open" /\ Reaches(job)
                                  THEN inbox \cup {m.ping} ELSE inbox
        BY <1>1 DEF Answered
  <2>2. UNCHANGED <<attempt, client, expired>>
        BY <1>1 DEF Answered, wait
  <2>3. Reaches(job) /\ m.ping # attempt =>
           /\ m.ping < attempt
           /\ \/ client[m.ping] = client[attempt]
              \/ \E lost \in expired : lost <= m.ping
    <3>1. /\ m.ping \in Nat /\ attempt \in Nat /\ job \in Nat
          /\ m.ping <= job /\ job <= attempt
          BY <1>0, Numbers, Datagrams DEF Wires, Queued
    <3>2. m.ping # job => \E lost \in expired : lost <= m.ping
          BY <1>0 DEF Wires
    <3>3. Reaches(job) => client[job] = client[attempt]
          BY DEF Reaches
    <3>. QED  BY <3>1, <3>2, <3>3
  <2>. QED  BY <1>0, <2>1, <2>2, <2>3 DEF StrayAnswerNeedsReuse
<1>2. CASE ForwardFails \/ AwaitRefused \/ AwaitExpires
  <2>1. UNCHANGED <<inbox, attempt, client>> /\ expired \subseteq expired'
        BY <1>2 DEF ForwardFails, AwaitRefused, AwaitExpires, GivesUp, wait
  <2>. QED  BY <1>0, <2>1 DEF StrayAnswerNeedsReuse
<1>3. CASE Attempt \/ ReadReply \/ ReadTimesOut
  <2>1. inbox' = {}
        BY <1>0, <1>3 DEF Attempt, ReadReply, ReadTimesOut, Probing
  <2>. QED  BY <2>1 DEF StrayAnswerNeedsReuse
<1>4. CASE \/ Receive \/ Forward \/ LoopEnds \/ BeginClose \/ CloseReturns \/ TimedOut
           \/ PauseEnds \/ PauseCancelled \/ Answer \/ Vanish \/ Settle \/ Tick \/ UNCHANGED vars
  <2>1. UNCHANGED <<inbox, attempt, client, expired>>
        BY <1>4, Zenon DEF vars, wait, Receive, Forward, LoopEnds, BeginClose, CloseReturns,
           TimedOut, PauseEnds, PauseCancelled, Answer, Vanish, Settle, Tick
  <2>. QED  BY <1>0, <2>1 DEF StrayAnswerNeedsReuse
<1>. QED  BY <1>1, <1>2, <1>3, <1>4, Zenon DEF Next

-----------------------------------------------------------------------------
(* The target, once settled *)

LEMMA QuietPreserved ==
    ASSUME IInv, [Next]_vars
    PROVE  Quiet'
<1>0. TypeOK /\ Wires /\ Probing /\ Quiet
      BY DEF IInv
<1>u. ASSUME UNCHANGED settledAt, UNCHANGED settled,
             settled => /\ settledAt <= attempt'
                        /\ net' # {} => loop' = "await" /\ patience' = RelayTimeout
                        /\ \A m \in net' : m.ping = job' /\ m.port = port'
      PROVE  Quiet'
      BY <1>0, <1>u DEF Quiet
<1>1. CASE Receive
  <2>1. UNCHANGED <<settledAt, settled, net, attempt, inbox>> /\ loop = "read"
        BY <1>1 DEF Receive, target, wait
  <2>. QED  BY <1>0, <1>u, <2>1 DEF Quiet
<1>2. CASE Forward
  <2>1. /\ UNCHANGED <<settledAt, settled, attempt, inbox, job>> /\ loop = "forward"
        /\ loop' = "await" /\ patience' = RelayTimeout
        /\ net' = net \cup {[kind |-> "ping", port |-> port', ping |-> job]}
        BY <1>2 DEF Forward, target, wait
  <2>2. settled => net = {}
        BY <1>0, <2>1 DEF Quiet
  <2>3. settled => \A m \in net' : m.ping = job' /\ m.port = port'
        BY <2>1, <2>2
  <2>. QED  BY <1>0, <1>u, <2>1, <2>3 DEF Quiet
<1>3. CASE ForwardFails \/ AwaitRefused \/ AwaitExpires
  <2>1. UNCHANGED <<settledAt, settled, net, attempt, inbox>>
        BY <1>3 DEF ForwardFails, AwaitRefused, AwaitExpires, GivesUp, target, wait
  <2>2. settled => net = {}
    <3>1. settled => AwaitExpires
          BY <1>3 DEF ForwardFails, AwaitRefused
    <3>2. AwaitExpires => patience # RelayTimeout
          BY Constants DEF AwaitExpires
    <3>. QED  BY <1>0, <3>1, <3>2 DEF Quiet
  <2>. QED  BY <1>0, <1>u, <2>1, <2>2 DEF Quiet
<1>4. CASE Answered
  <2>1. PICK m \in net :
           /\ net' = net \ {m}
           /\ inbox' = IF conn = "open" /\ Reaches(job)
                       THEN inbox \cup {m.ping} ELSE inbox
        BY <1>4 DEF Answered
  <2>2. UNCHANGED <<settledAt, settled, attempt>>
        BY <1>4 DEF Answered, target, wait
  <2>3. settled => net' = {}
        BY <1>0, <2>1 DEF Quiet, Wires
  <2>. QED  BY <1>0, <1>u, <2>2, <2>3 DEF Quiet
<1>5. CASE Attempt
  <2>1. /\ UNCHANGED <<settledAt, settled, net, loop, patience, job, port, inbox>>
        /\ attempt' = attempt + 1 /\ prober # "wait"
        BY <1>5 DEF Attempt, target
  <2>2. attempt \in Nat /\ settledAt \in Nat /\ inbox' = {}
        BY <1>0, <2>1, Numbers DEF Probing
  <2>. QED  BY <1>0, <1>u, <2>1, <2>2 DEF Quiet
<1>6. CASE ReadReply \/ ReadTimesOut
  <2>1. UNCHANGED <<settledAt, settled, net, loop, patience, job, port, attempt>> /\ inbox' = {}
        BY <1>6 DEF ReadReply, ReadTimesOut, relay, target
  <2>. QED  BY <1>0, <1>u, <2>1 DEF Quiet
<1>7. CASE Answer
  <2>1. PICK m \in net : net' = (net \ {m}) \cup {[m EXCEPT !.kind = "pong"]}
        BY <1>7 DEF Answer
  <2>2. UNCHANGED <<settledAt, settled, loop, patience, job, port, attempt, inbox>>
        BY <1>7 DEF Answer, relay, wait, target
  <2>3. [m EXCEPT !.kind = "pong"].ping = m.ping /\ [m EXCEPT !.kind = "pong"].port = m.port
        BY <1>0, Datagrams
  <2>4. PICK new : new = [m EXCEPT !.kind = "pong"]
        OBVIOUS
  <2>5. new.ping = m.ping /\ new.port = m.port /\ net' = (net \ {m}) \cup {new}
        BY <2>1, <2>3, <2>4
  <2>. QED  BY <1>0, <1>u, <2>2, <2>5 DEF Quiet
<1>8. CASE Vanish
  <2>1. /\ UNCHANGED <<settledAt, settled, loop, patience, job, port, attempt, inbox>>
        /\ net' \subseteq net
        BY <1>8 DEF Vanish, relay, wait, target
  <2>. QED  BY <1>0, <1>u, <2>1 DEF Quiet
<1>9. CASE Settle
  <2>1. settled' = TRUE /\ settledAt' = attempt /\ net' = {} /\ UNCHANGED attempt
        BY <1>9 DEF Settle, wait
  <2>2. attempt \in Nat
        BY <1>0, Numbers
  <2>. QED  BY <2>1, <2>2 DEF Quiet
<1>10. CASE Tick
  <2>1. /\ UNCHANGED <<settledAt, settled, net, attempt, inbox>>
        /\ settled => net = {}
        BY <1>10 DEF Tick, target, Prompt
  <2>. QED  BY <1>0, <1>u, <2>1 DEF Quiet
<1>11. CASE LoopEnds
  <2>1. UNCHANGED <<settledAt, settled, net, attempt, inbox>> /\ loop = "read"
        BY <1>11 DEF LoopEnds, target, wait
  <2>. QED  BY <1>0, <1>u, <2>1 DEF Quiet
<1>12. CASE \/ BeginClose \/ CloseReturns \/ TimedOut \/ PauseEnds \/ PauseCancelled
            \/ UNCHANGED vars
  <2>1. UNCHANGED <<settledAt, settled, net, loop, patience, job, port, attempt, inbox>>
        BY <1>12, Zenon DEF vars, relay, wait, target, BeginClose, CloseReturns, TimedOut,
           PauseEnds, PauseCancelled
  <2>. QED  BY <1>0, <1>u, <2>1 DEF Quiet
<1>. QED  BY <1>1, <1>2, <1>3, <1>4, <1>5, <1>6, <1>7, <1>8, <1>9, <1>10, <1>11, <1>12,
             Zenon DEF Next

-----------------------------------------------------------------------------
(* The time that has passed *)

LEMMA Times ==
    ASSUME TypeOK, Probing
    PROVE  /\ Round \in Nat /\ Earlier \in Int /\ Elapsed \in Nat
           /\ patience \in Nat /\ patience <= RelayTimeout /\ RelayTimeout \in Nat
<1>1. Round \in Nat /\ Round = ProbeTimeout + RetryInterval
      BY Constants DEF Round
<1>2. attempt - settledAt - 1 \in Int
      BY Numbers
<1>3. Earlier \in Int
      BY <1>1, <1>2 DEF Earlier
<1>4. CASE prober = "wait"
  <2>1. Elapsed = ProbeTimeout - left /\ left <= ProbeTimeout
        BY <1>4 DEF Elapsed, Probing
  <2>. QED  BY <1>1, <1>3, <2>1, Numbers, Constants
<1>5. CASE prober = "pause"
  <2>1. Elapsed = Round - left /\ left <= RetryInterval
        BY <1>5 DEF Elapsed, Probing
  <2>. QED  BY <1>1, <1>3, <2>1, Numbers, Constants
<1>6. CASE prober # "wait" /\ prober # "pause"
  <2>1. Elapsed = Round
        BY <1>6 DEF Elapsed
  <2>. QED  BY <1>1, <1>3, <2>1, Numbers, Constants
<1>. QED  BY <1>4, <1>5, <1>6

\* Another attempt adds a full round to the earlier ones.
LEMMA AnotherRound ==
    ASSUME NEW a \in Nat, NEW s \in Nat, NEW r \in Nat
    PROVE  /\ ((a + 1) - s - 1) * r = (a - s - 1) * r + r
           /\ ((s + 1) - s - 1) * r = 0
           /\ (s - s - 1) * r = 0 - r
<1>1. PICK k \in Int : k = a - s - 1
      OBVIOUS
<1>2. (a + 1) - s - 1 = k + 1 /\ (s + 1) - s - 1 = 0 /\ s - s - 1 = 0 - 1
      BY <1>1
<1>3. (k + 1) * r = k * r + r /\ 0 * r = 0 /\ (0 - 1) * r = 0 - r
      BY <1>1
<1>. QED  BY <1>1, <1>2, <1>3

LEMMA TimelyAttempt ==
    ASSUME IInv, Attempt, settled, Timely
    PROVE  Timely'
<1>0. TypeOK /\ Probing /\ Quiet
      BY DEF IInv
<1>1. /\ prober = "ready to send" /\ attempt' = attempt + 1
      /\ prober' = "wait" /\ left' = ProbeTimeout
      /\ UNCHANGED <<loop, net, patience, settledAt, inbox>>
      BY DEF Attempt, target
<1>2. Elapsed' = 0
  <2>1. Elapsed' = ProbeTimeout - left'
        BY <1>1 DEF Elapsed
  <2>2. Elapsed' = ProbeTimeout - ProbeTimeout
        BY <1>1, <2>1, Zenon
  <2>. QED  BY <2>2, Constants
<1>3. (Stuck' <=> Stuck) /\ inbox' = {}
      BY <1>0, <1>1 DEF Stuck, Probing
<1>4. attempt \in Nat /\ settledAt \in Nat /\ Round \in Nat
      BY <1>0, Numbers, Times
<1>5. CASE settledAt = attempt
  <2>1. Earlier' = 0
    <3>1. Earlier' = ((settledAt + 1) - settledAt - 1) * Round
          BY <1>1, <1>5 DEF Earlier, Round
    <3>. QED  BY <1>4, <3>1, AnotherRound
  <2>2. patience' = patience
        BY <1>1
  <2>3. Earlier' + Elapsed' + patience' <= RelayTimeout /\ Earlier' + Elapsed' <= RelayTimeout
        BY <1>0, <1>2, <2>1, <2>2, Times
  <2>. QED  BY <1>3, <2>3 DEF Timely, JustFreed
<1>6. CASE settledAt < attempt
  <2>1. Earlier' = Earlier + Round
    <3>1. Earlier' = ((attempt + 1) - settledAt - 1) * Round
          BY <1>1 DEF Earlier, Round
    <3>2. Earlier = (attempt - settledAt - 1) * Round
          BY DEF Earlier
    <3>. QED  BY <1>4, <3>1, <3>2, AnotherRound
  <2>2. Elapsed = Round
        BY <1>1 DEF Elapsed
  <2>3. prober \notin Over
        BY <1>1 DEF Over
  <2>4. IF Stuck THEN Earlier + Elapsed + patience <= RelayTimeout /\ inbox = {}
        ELSE JustFreed \/ Missed \/ Idle \/ Answering
        BY <1>6, <2>3 DEF Timely
  <2>5. CASE Stuck
    <3>0. patience' = patience /\ Earlier + Elapsed + patience <= RelayTimeout
          BY <1>1, <2>4, <2>5
    <3>1. Earlier' + Elapsed' + patience' <= RelayTimeout
          BY <1>0, <1>2, <2>1, <2>2, <3>0, Times
    <3>. QED  BY <1>3, <2>5, <3>1 DEF Timely
  <2>6. CASE ~ Stuck /\ JustFreed
    <3>1. JustFreed'
      <4>1. Earlier + Elapsed <= RelayTimeout
            BY <2>6 DEF JustFreed
      <4>2. Earlier' + Elapsed' <= RelayTimeout
            BY <1>0, <1>2, <2>1, <2>2, <4>1, Times
      <4>. QED  BY <4>2 DEF JustFreed
    <3>. QED  BY <1>3, <2>6, <3>1 DEF Timely
  <2>7. CASE ~ Stuck /\ Idle
    <3>1. loop = "read" /\ Len(queue) = 0
          BY <2>7 DEF Idle
    <3>2. Len(queue') = 1 /\ queue'[1] = attempt'
      <4>1. attempt' = attempt + 1
            BY <1>1
      <4>. QED  BY <1>0, <3>1, <4>1, Put, Constants
    <3>3. Answering'
          BY <1>1, <1>3, <3>1, <3>2 DEF Answering
    <3>. QED  BY <1>3, <2>7, <3>3 DEF Timely
  <2>8. ~ Answering /\ ~ Missed
        BY <1>1 DEF Answering, Missed
  <2>. QED  BY <2>4, <2>5, <2>6, <2>7, <2>8
<1>. QED  BY <1>0, <1>4, <1>5, <1>6 DEF Quiet

\* The steps that neither begin an attempt nor settle the target keep the
\* attempt, and what they find is what Timely says.
LEMMA StillTimely ==
    ASSUME IInv, UNCHANGED <<attempt, settled, settledAt>>, prober' \notin Over => prober \notin Over,
           settled /\ settledAt < attempt /\ prober \notin Over /\ prober' \notin Over =>
               \/ Stuck' /\ Earlier' + Elapsed' + patience' <= RelayTimeout /\ inbox' = {}
               \/ ~ Stuck' /\ (JustFreed \/ Missed \/ Idle \/ Answering)'
    PROVE  Timely'
BY DEF Timely

LEMMA TimelyRelay ==
    ASSUME IInv, settled, settledAt < attempt, prober \notin Over,
           \/ Receive \/ Forward \/ ForwardFails \/ AwaitRefused \/ AwaitExpires \/ Answered
    PROVE  ~ Stuck' /\ (JustFreed \/ Missed \/ Idle \/ Answering)'
<1>0. TypeOK /\ Probing /\ Quiet /\ Timely
      BY DEF IInv
<1>1. UNCHANGED <<conn, prober, attempt, left, settledAt>>
      BY DEF Receive, Forward, ForwardFails, AwaitRefused, AwaitExpires, GivesUp, Answered,
         wait, target
<1>2. Earlier' = Earlier /\ Elapsed' = Elapsed
      BY <1>1 DEF Earlier, Elapsed, Round
<1>3. (JustFreed => JustFreed') /\ (Missed => Missed')
      BY <1>1, <1>2 DEF JustFreed, Missed
<1>4. IF Stuck THEN Earlier + Elapsed + patience <= RelayTimeout /\ inbox = {}
      ELSE JustFreed \/ Missed \/ Idle \/ Answering
      BY <1>0 DEF Timely
<1>5. CASE Receive
  <2>1. loop = "read" /\ loop' = "forward" /\ UNCHANGED inbox
        BY <1>5 DEF Receive
  <2>2. Len(queue) # 0 /\ job' = queue[1] /\ job # attempt
    <3>1. job' = queue[1] /\ Len(queue) \in Nat /\ Len(queue) > 0
          BY <1>0, <1>5, Taken
    <3>2. job < queue[1] /\ queue[1] <= attempt
          BY <3>1 DEF IInv, Queued
    <3>3. queue[1] \in Nat /\ job \in Nat /\ attempt \in Nat
          BY <1>0, <1>5, Taken, Numbers, Constants DEF Attempts
    <3>. QED  BY <3>1, <3>2, <3>3
  <2>3. Answering => Answering'
        BY <1>1, <2>1, <2>2 DEF Answering
  <2>. QED  BY <1>3, <1>4, <2>1, <2>2, <2>3 DEF Stuck, Idle
<1>6. CASE Forward
  <2>1. /\ loop = "forward" /\ loop' = "await" /\ UNCHANGED <<inbox, job>>
        /\ net' # {}
        BY <1>6 DEF Forward
  <2>2. Answering => Answering'
        BY <1>1, <2>1 DEF Answering
  <2>. QED  BY <1>3, <1>4, <2>1, <2>2 DEF Stuck, Idle
<1>7. CASE ForwardFails \/ AwaitRefused \/ AwaitExpires
  <2>1. loop = "await" /\ patience = 0 /\ loop' = "read"
        BY <1>7 DEF ForwardFails, AwaitRefused, AwaitExpires, GivesUp
  <2>2. patience # RelayTimeout
        BY <2>1, Constants
  <2>3. Stuck
        BY <1>0, <2>1, <2>2 DEF Quiet, Stuck
  <2>4. Earlier + Elapsed + patience <= RelayTimeout
        BY <1>4, <2>3
  <2>5. Earlier + Elapsed <= RelayTimeout
        BY <1>0, <2>1, <2>4, Times
  <2>. QED  BY <1>3, <2>1, <2>5 DEF JustFreed, Stuck
<1>8. CASE Answered
  <2>1. PICK m \in net : inbox' = IF conn = "open" /\ Reaches(job)
                                  THEN inbox \cup {m.ping} ELSE inbox
        BY <1>8 DEF Answered
  <2>2. loop = "await" /\ loop' = "read" /\ UNCHANGED job
        BY <1>8 DEF Answered
  <2>3. conn = "open"
        BY <1>0 DEF TypeOK, Probing
  <2>4. m.ping = job /\ (prober = "wait" /\ job = attempt => Reaches(job))
        BY <1>0 DEF Quiet, Reaches
  <2>5. Answering => Answering'
        BY <1>1, <2>1, <2>2, <2>3, <2>4 DEF Answering
  <2>. QED  BY <1>3, <1>4, <2>1, <2>2, <2>5 DEF Stuck, Idle
<1>. QED  BY <1>5, <1>6, <1>7, <1>8

LEMMA TimelyClock ==
    ASSUME IInv, settled, settledAt < attempt, prober \notin Over, Tick
    PROVE  \/ Stuck' /\ Earlier' + Elapsed' + patience' <= RelayTimeout /\ inbox' = {}
           \/ ~ Stuck' /\ (JustFreed \/ Missed \/ Idle \/ Answering)'
<1>0. TypeOK /\ Probing /\ Quiet /\ Timely
      BY DEF IInv
<1>1. /\ UNCHANGED <<loop, queue, net, inbox, prober, attempt, settledAt>>
      /\ loop # "forward" /\ net = {} /\ inbox = {} /\ prober # "ready to send"
      /\ loop = "read" => queue = <<>>
      BY DEF Tick, Prompt, target
<1>2. Earlier' = Earlier
      BY <1>1 DEF Earlier, Round
<1>3. Stuck' <=> Stuck
      BY <1>1 DEF Stuck
<1>4. IF Stuck THEN Earlier + Elapsed + patience <= RelayTimeout /\ inbox = {}
      ELSE JustFreed \/ Missed \/ Idle \/ Answering
      BY <1>0 DEF Timely
<1>5. prober \in {"wait", "pause"}
      BY <1>0, <1>1 DEF TypeOK
<1>6. CASE Stuck
  <2>1. patience # 0 /\ left # 0
        BY <1>5, <1>6 DEF Tick, Stuck
  <2>2. patience' = patience - 1 /\ left' = left - 1
    <3>1. patience' = Less(patience) /\ left' = Less(left)
          BY DEF Tick
    <3>. QED  BY <1>0, <2>1, <3>1, Numbers, LessIsLess
  <2>3. Elapsed' = Elapsed + 1
    <3>1. CASE prober = "wait"
      <4>1. Elapsed = ProbeTimeout - left /\ Elapsed' = ProbeTimeout - left'
            BY <1>1, <3>1 DEF Elapsed
      <4>. QED  BY <1>0, <2>2, <4>1, Numbers, Constants
    <3>2. CASE prober = "pause"
      <4>1. Elapsed = Round - left /\ Elapsed' = Round - left'
            BY <1>1, <3>2 DEF Elapsed, Round
      <4>. QED  BY <1>0, <2>2, <4>1, Numbers, Times
    <3>. QED  BY <1>5, <3>1, <3>2
  <2>4. Earlier + Elapsed + patience <= RelayTimeout
        BY <1>4, <1>6
  <2>5. Earlier' + Elapsed' + patience' <= RelayTimeout
        BY <1>0, <1>2, <2>2, <2>3, <2>4, Times
  <2>. QED  BY <1>1, <1>3, <1>6, <2>5
<1>7. CASE ~ Stuck
  <2>1. loop = "read" /\ Len(queue) = 0
    <3>1. loop # "done"
          BY <1>0 DEF Probing
    <3>2. loop = "read"
          BY <1>0, <1>1, <1>7, <3>1 DEF TypeOK, Stuck
    <3>. QED  BY <1>1, <3>2
  <2>2. ~ Answering
    <3>1. Len(queue) # 1
          BY <2>1
    <3>2. attempt \notin inbox
          BY <1>1
    <3>. QED  BY <1>1, <2>1, <3>1, <3>2 DEF Answering
  <2>3. Earlier <= RelayTimeout
    <3>1. JustFreed => Earlier <= RelayTimeout
          BY <1>0, Times DEF JustFreed
    <3>. QED  BY <1>4, <1>7, <2>2, <3>1 DEF Idle, Missed
  <2>4. Idle'
        BY <1>1, <1>2, <2>1, <2>3 DEF Idle
  <2>. QED  BY <1>3, <1>7, <2>4
<1>. QED  BY <1>6, <1>7

LEMMA TimelyProber ==
    ASSUME IInv, settled, settledAt < attempt, ReadTimesOut \/ PauseEnds
    PROVE  \/ Stuck' /\ Earlier' + Elapsed' + patience' <= RelayTimeout /\ inbox' = {}
           \/ ~ Stuck' /\ (JustFreed \/ Missed \/ Idle \/ Answering)'
<1>0. TypeOK /\ Probing /\ Quiet /\ Timely
      BY DEF IInv
<1>1. /\ UNCHANGED <<loop, queue, net, attempt, settledAt, patience>>
      /\ inbox = {} => inbox' = {}
      BY DEF ReadTimesOut, PauseEnds, target, relay
<1>2. Earlier' = Earlier
      BY <1>1 DEF Earlier, Round
<1>3. Elapsed' = Elapsed
  <2>1. CASE ReadTimesOut
    <3>1. Elapsed = ProbeTimeout - left /\ left = 0
          BY <2>1 DEF Elapsed, ReadTimesOut
    <3>2. Elapsed' = Round - left' /\ left' = RetryInterval
          BY <2>1 DEF Elapsed, ReadTimesOut, Round
    <3>. QED  BY <3>1, <3>2, Constants DEF Round
  <2>2. CASE PauseEnds
    <3>1. Elapsed = Round - left /\ left = 0
          BY <2>2 DEF Elapsed, PauseEnds
    <3>2. Elapsed' = Round
          BY <2>2 DEF Elapsed, PauseEnds, Round
    <3>. QED  BY <1>0, <3>1, <3>2, Times
  <2>. QED  BY <2>1, <2>2
<1>4. prober \notin Over
      BY DEF ReadTimesOut, PauseEnds, Over
<1>5. ~ Answering /\ ~ Missed
  <2>0. 0 # ProbeTimeout /\ 0 # RetryInterval
        BY Constants
  <2>1. PauseEnds => prober # "wait" /\ left # RetryInterval
        BY <2>0 DEF PauseEnds
  <2>2. ReadTimesOut => left # ProbeTimeout /\ prober # "pause"
        BY <2>0 DEF ReadTimesOut
  <2>. QED  BY <2>1, <2>2 DEF Answering, Missed
<1>6. IF Stuck THEN Earlier + Elapsed + patience <= RelayTimeout /\ inbox = {}
      ELSE JustFreed \/ Idle
      BY <1>0, <1>4, <1>5 DEF Timely
<1>7. (Stuck' <=> Stuck) /\ (JustFreed => JustFreed') /\ (Idle => Idle')
      BY <1>1, <1>2, <1>3 DEF Stuck, JustFreed, Idle
<1>. QED  BY <1>1, <1>2, <1>3, <1>6, <1>7

LEMMA TimelyPreserved ==
    ASSUME IInv, [Next]_vars
    PROVE  Timely'
<1>0. TypeOK /\ Probing /\ Quiet /\ Timely
      BY DEF IInv
<1>1. CASE Attempt
  <2>1. CASE settled
        BY <1>0, <1>1, <2>1, TimelyAttempt
  <2>2. CASE ~ settled
    <3>1. UNCHANGED settled
          BY <1>1 DEF Attempt, target
    <3>. QED  BY <2>2, <3>1 DEF Timely
  <2>. QED  BY <2>1, <2>2
<1>2. CASE Settle
  <2>1. ~ (settledAt' < attempt')
    <3>1. settledAt' = attempt /\ attempt' = attempt /\ attempt \in Nat
          BY <1>0, <1>2, Numbers DEF Settle, wait
    <3>. QED  BY <3>1
  <2>. QED  BY <2>1 DEF Timely
<1>3. CASE Receive \/ Forward \/ ForwardFails \/ AwaitRefused \/ AwaitExpires \/ Answered
  <2>1. UNCHANGED <<attempt, settled, settledAt, prober>>
        BY <1>3 DEF Receive, Forward, ForwardFails, AwaitRefused, AwaitExpires, GivesUp,
           Answered, wait, target
  <2>. QED  BY <1>3, <2>1, TimelyRelay, StillTimely
<1>4. CASE Tick
  <2>1. UNCHANGED <<attempt, settled, settledAt, prober>>
        BY <1>4 DEF Tick, target
  <2>. QED  BY <1>4, <2>1, TimelyClock, StillTimely
<1>5. CASE ReadTimesOut \/ PauseEnds
  <2>1. UNCHANGED <<attempt, settled, settledAt>> /\ prober \notin Over
        BY <1>5 DEF ReadTimesOut, PauseEnds, target, Over
  <2>. QED  BY <1>5, <2>1, TimelyProber, StillTimely
<1>6. CASE ReadReply
  <2>1. UNCHANGED <<attempt, settled, settledAt>> /\ prober \notin Over
        BY <1>6 DEF ReadReply, target, Over
  <2>2. ASSUME settled, settledAt < attempt, prober' \notin Over
        PROVE  ~ Stuck' /\ Missed'
    <3>1. PICK ping \in inbox : ping # attempt
          BY <1>6, <2>2 DEF ReadReply, Over
    <3>2. ~ Stuck /\ ~ Answering /\ ~ Idle /\ ~ Missed
          BY <1>0, <1>6, <2>1, <2>2, <3>1 DEF Timely, Answering, Idle, Missed, ReadReply
    <3>3. Earlier <= RelayTimeout
      <4>1. Earlier + Elapsed <= RelayTimeout
            BY <1>0, <2>1, <2>2, <3>2 DEF Timely, JustFreed
      <4>. QED  BY <1>0, <4>1, Times
    <3>4. Earlier' = Earlier /\ UNCHANGED <<loop, net>>
          BY <1>6, <2>1 DEF Earlier, Round, ReadReply, relay
    <3>5. prober' = "pause" /\ left' = RetryInterval
          BY <1>6, <2>2 DEF ReadReply, Over
    <3>. QED  BY <3>2, <3>3, <3>4, <3>5 DEF Stuck, Missed
  <2>. QED  BY <2>1, <2>2, StillTimely
<1>7. CASE LoopEnds \/ BeginClose \/ TimedOut \/ PauseCancelled
  <2>1. prober' \in Over
        BY <1>0, <1>7 DEF LoopEnds, BeginClose, TimedOut, PauseCancelled, Probing, wait, Over
  <2>. QED  BY <2>1 DEF Timely
<1>8. CASE Answer
  <2>1. PICK m \in net : net' = (net \ {m}) \cup {[m EXCEPT !.kind = "pong"]}
        BY <1>8 DEF Answer
  <2>2. net # {} /\ net' # {}
        BY <2>1
  <2>3. UNCHANGED <<loop, queue, job, inbox, prober, attempt, left, settled, settledAt>>
        BY <1>8 DEF Answer, relay, wait, target
  <2>4. Earlier' = Earlier /\ Elapsed' = Elapsed
        BY <2>3 DEF Earlier, Elapsed, Round
  <2>5. /\ JustFreed => JustFreed'
        /\ Missed => Missed'
        /\ ~ Idle /\ (Answering => Answering') /\ ~ Stuck /\ ~ Stuck'
        BY <2>2, <2>3, <2>4 DEF JustFreed, Missed, Idle, Answering, Stuck
  <2>. QED  BY <1>0, <2>3, <2>5 DEF Timely
<1>9. CASE Vanish
  <2>1. ~ settled
    <3>1. PICK m \in net : ~ settled \/ ~ (loop = "await" /\ m.port = port)
          BY <1>9 DEF Vanish
    <3>. QED  BY <1>0, <3>1 DEF Quiet
  <2>2. UNCHANGED settled
        BY <1>9 DEF Vanish, target
  <2>. QED  BY <2>1, <2>2 DEF Timely
<1>10. CASE CloseReturns \/ UNCHANGED vars
  <2>1. UNCHANGED <<loop, queue, job, patience, net, inbox, prober, attempt, left, settled, settledAt>>
        BY <1>10 DEF CloseReturns, vars, relay, wait, target
  <2>. QED  BY <1>0, <2>1 DEF Timely, Stuck, JustFreed, Missed, Idle, Answering, Earlier, Elapsed,
            Round
<1>. QED  BY <1>1, <1>2, <1>3, <1>4, <1>5, <1>6, <1>7, <1>8, <1>9, <1>10, Zenon DEF Next

LEMMA FoundPreserved ==
    ASSUME IInv, [Next]_vars
    PROVE  SettledTargetIsFound'
<1>0. TypeOK /\ Probing /\ Quiet /\ Timely /\ SettledTargetIsFound
      BY DEF IInv
<1>n. attempt \in Nat /\ settledAt \in Nat /\ Round \in Nat /\ RelayTimeout \in Nat
      BY <1>0, Numbers, Times
<1>r. Round = ProbeTimeout + RetryInterval
      BY DEF Round
<1>m. (MaxAttempts - MaxAttempts - 1) * Round <= RelayTimeout
  <2>1. (MaxAttempts - MaxAttempts - 1) * Round = 0 - Round
        BY <1>n, Constants, AnotherRound
  <2>. QED  BY <1>n, <2>1
<1>1. CASE TimedOut
  <2>1. /\ prober = "ready to send" /\ attempt = MaxAttempts
        /\ UNCHANGED <<settledAt, settled>>
        BY <1>1 DEF TimedOut, target
  <2>2. CASE settledAt = MaxAttempts
        BY <1>m, <1>r, <2>1, <2>2 DEF SettledTargetIsFound
  <2>3. CASE settledAt # MaxAttempts
    <3>1. settled /\ settledAt < attempt
      <4>1. settled /\ settledAt <= attempt
            BY <1>0, <2>3 DEF Quiet
      <4>2. settledAt # attempt
            BY <2>1, <2>3
      <4>. QED  BY <1>n, <4>1, <4>2
    <3>2. prober \notin Over /\ ~ Answering /\ ~ Missed
          BY <2>1 DEF Over, Answering, Missed
    <3>3. IF Stuck THEN Earlier + Elapsed + patience <= RelayTimeout /\ inbox = {}
      ELSE JustFreed \/ Idle
          BY <1>0, <3>1, <3>2 DEF Timely
    <3>4. Earlier <= RelayTimeout
      <4>1. CASE Stuck
        <5>1. Earlier + Elapsed + patience <= RelayTimeout
              BY <3>3, <4>1
        <5>. QED  BY <1>0, <5>1, Times
      <4>2. CASE JustFreed
        <5>1. Earlier + Elapsed <= RelayTimeout
              BY <4>2 DEF JustFreed
        <5>. QED  BY <1>0, <5>1, Times
      <4>3. CASE Idle
            BY <4>3 DEF Idle
      <4>. QED  BY <3>3, <4>1, <4>2, <4>3
    <3>. QED  BY <1>r, <2>1, <3>4 DEF Earlier, SettledTargetIsFound
  <2>. QED  BY <2>2, <2>3
<1>2. CASE Settle
  <2>1. UNCHANGED prober /\ settledAt' = attempt
        BY <1>2 DEF Settle, wait
  <2>2. prober = "timed out" => settledAt' = MaxAttempts
        BY <1>0, <2>1 DEF Probing
  <2>. QED  BY <1>m, <1>r, <2>1, <2>2 DEF SettledTargetIsFound
<1>3. CASE ~ TimedOut /\ ~ Settle
  <2>1. UNCHANGED settledAt /\ (prober' = "timed out" => prober = "timed out")
    <3>2. CASE Attempt \/ ReadReply \/ ReadTimesOut \/ PauseEnds \/ PauseCancelled
          BY <3>2 DEF Attempt, ReadReply, ReadTimesOut, PauseEnds, PauseCancelled, target
    <3>3. CASE ~ (Attempt \/ ReadReply \/ ReadTimesOut \/ PauseEnds \/ PauseCancelled)
      <4>1. UNCHANGED <<settledAt, prober>>
            BY <1>3, <3>3, Zenon DEF Next, vars, wait, target, Receive, Forward, ForwardFails,
               AwaitRefused, AwaitExpires, GivesUp, Answered, LoopEnds, BeginClose,
               CloseReturns, Answer, Vanish, Tick
      <4>. QED  BY <4>1
    <3>. QED  BY <3>2, <3>3
  <2>. QED  BY <1>0, <2>1 DEF SettledTargetIsFound
<1>. QED  BY <1>1, <1>2, <1>3

-----------------------------------------------------------------------------
LEMMA Inductive == IInv /\ [Next]_vars => IInv'
BY TypePreserved, QueuedPreserved, WiresPreserved, ProbingPreserved, QuietPreserved,
   TimelyPreserved, StrayPreserved, FoundPreserved DEF IInv

\* The relay, the prober and the network between them keep their types: the
\* buffer never holds more than it can (main.go:532-547, 701-743).
THEOREM TypeCorrect == Spec => []TypeOK
<1>1. IInv => TypeOK
      BY DEF IInv
<1>. QED  BY <1>1, InitEstablishes, Inductive, PTL DEF Spec

\* Whatever ports the sockets of the prober and of the relay get and however
\* late an answer comes, a client is handed the answer to another ping only if
\* that ping came from its port or is behind a forwarding that ended unanswered,
\* and it is always an earlier one (main.go:701-735).
THEOREM StrayAnswers == Spec => []StrayAnswerNeedsReuse
<1>1. IInv => StrayAnswerNeedsReuse
      BY DEF IInv
<1>. QED  BY <1>1, InitEstablishes, Inductive, PTL DEF Spec

\* For all deadlines, intervals and buffer sizes, a target that settles while
\* the attempts of one relay deadline, plus the one under way, are still to come
\* is found ready (main.go:532-547, 701-735).
THEOREM TargetFound == Spec => []SettledTargetIsFound
<1>1. IInv => SettledTargetIsFound
      BY DEF IInv
<1>. QED  BY <1>1, InitEstablishes, Inductive, PTL DEF Spec

=============================================================================
