------------------------------ MODULE Prepare -------------------------------
(***************************************************************************)
(* What happens before the first probe: prepareJavaProbe and               *)
(* prepareBedrockProbe turn a destination into the ordered list of         *)
(* addresses to dial (java.go, bedrock.go, client.go, address.go,          *)
(* endpoint.go, editions.go).  Java asks for an SRV record first, and both *)
(* editions resolve the host, filter the answer by address family and by   *)
(* the public-address policy, drop duplicates and alternate the families.  *)
(*                                                                         *)
(* An address is a record: the form it is written in, whether it lies in   *)
(* one of the non-public prefixes, and whether it carries an IPv6 zone.  A *)
(* host is a name or, when it parses as one, an address.                   *)
(***************************************************************************)
EXTENDS Integers, SequencesExt, FiniteSetsExt

CONSTANTS
    Addresses,      \* the addresses considered, records of Address
    Names,          \* host names
    NoHost,         \* the empty target of an SRV record, and no address to show
    ExplicitPorts,  \* ports a user gives
    SrvPorts,       \* ports of SRV records, 0 included
    MaxAnswers      \* bound: addresses in one answer of the resolver

Address == [id : Nat, form : {"v4", "v4in6", "v6", "invalid"},
            listed : BOOLEAN, zoned : BOOLEAN]

PortNumbers == 0 .. 65535

ASSUME AddressAssumption == Addresses \subseteq Address
ASSUME NameAssumption == Names \cap Addresses = {} /\ NoHost \notin Names \cup Addresses
ASSUME PortAssumption == ExplicitPorts \subseteq PortNumbers \ {0} /\ SrvPorts \subseteq PortNumbers

NoPort == 0
Hosts  == Names \cup {a \in Addresses : a.form # "invalid"}

VARIABLES
    request,        \* the parsed command line: edition, target and options
    pc,             \* where the preparation is
    route,          \* endpointRoute: what to dial, what the handshake says
    answers,        \* the resolver's answer
    next,           \* the index of the loop over the answer, or over the families
    byFamily,       \* ipv4 and ipv6: the candidates of each family
    primary,        \* the family of the first candidate, "none" before it
    cands,          \* the dial candidates
    displayTarget,  \* the address the banner shows, when there is only one
    ctxDone

loops == <<answers, next, byFamily, primary>>
shown == <<cands, displayTarget>>
prepareVars == <<request, pc, route, loops, shown, ctxDone>>

Requests == [edition : {"java", "bedrock"}, host : Hosts, port : ExplicitPorts \cup {NoPort},
            family : {"any", "4", "6"}, allowPrivate : BOOLEAN]

Endpoint == [host : Hosts \cup {NoHost}, port : PortNumbers]

-----------------------------------------------------------------------------
(* Addresses: endpoint.go and editions.go *)

\* netip.Addr.Unmap: a mapped address loses its zone with its form.
Unmap(a) == IF a.form = "v4in6" THEN [a EXCEPT !.form = "v4", !.zoned = FALSE] ELSE a

Is6(a) == Unmap(a).form = "v6"

matches(family, a) ==
    CASE family = "4" -> Unmap(a).form = "v4"
      [] family = "6" -> Unmap(a).form = "v6"
      [] OTHER -> a.form # "invalid"

\* netip.Prefix.Contains is false of an address that carries a zone.
isNonPublicAddr(a) == a.form = "invalid" \/ (a.listed /\ ~ Unmap(a).zoned)

PortExplicit == request.port # NoPort

\* targetSpec.portForAddr for Bedrock.
BedrockPort(a) ==
    IF PortExplicit THEN request.port ELSE IF Is6(a) THEN 19133 ELSE 19132

\* targetSpec.fallbackEndpoint for Java: the address family plays no part.
JavaFallback ==
    [host |-> request.host, port |-> IF PortExplicit THEN request.port ELSE 25565]

\* The portForAddr that each edition passes to buildDialCandidatesWithPortFunc.
PortFor(a) == IF request.edition = "java" THEN route.dial.port ELSE BedrockPort(a)

IsLiteral(host) == host \in Addresses

-----------------------------------------------------------------------------
(* Candidates: address.go *)

\* The options let the program dial the address.
Usable(a) ==
    /\ matches(request.family, a)
    /\ request.allowPrivate \/ ~ isNonPublicAddr(a)

Candidate == [addr : {Unmap(a) : a \in Addresses}, port : PortNumbers]

Families == {"v4", "v6"}
Other(f) == IF f = "v4" THEN "v6" ELSE "v4"

PrepareTypeOK ==
    /\ request \in Requests
    /\ pc \in {"begin", "srv", "resolve", "lookup", "sort", "order", "ready", "failed"}
    /\ route \in [dial : Endpoint, handshake : Endpoint]
    /\ answers \in Seq(Addresses) /\ next \in Nat \ {0}
    /\ byFamily \in [Families -> Seq(Candidate)] /\ primary \in Families \cup {"none"}
    /\ cands \in Seq(Candidate)
    /\ displayTarget \in Candidate \cup {NoHost}
    /\ ctxDone \in BOOLEAN

Known(a) == \E f \in Families : \E i \in DOMAIN byFamily[f] : byFamily[f][i].addr = a

\* The list with the candidate at position i of another one, if there is one.
With(list, other, i) == IF i <= Len(other) THEN Append(list, other[i]) ELSE list

\* What both prepare functions do with a list of candidates.
Ready(list) ==
    /\ pc' = "ready"
    /\ cands' = list
    /\ displayTarget' = IF Len(list) = 1 THEN list[1] ELSE NoHost

-----------------------------------------------------------------------------
(* Routes: resolveJavaRouteContext *)

PrepareInit ==
    /\ request \in Requests
    /\ pc = "begin"
    /\ route = [dial |-> [host |-> NoHost, port |-> NoPort],
                handshake |-> [host |-> NoHost, port |-> NoPort]]
    /\ answers = <<>> /\ next = 1
    /\ byFamily = [f \in Families |-> <<>>] /\ primary = "none"
    /\ cands = <<>> /\ displayTarget = NoHost
    /\ ctxDone \in BOOLEAN

TakeRoute(dial, handshake) ==
    /\ route' = [dial |-> dial, handshake |-> handshake]
    /\ pc' = "resolve"

Fail ==
    /\ pc' = "failed"
    /\ UNCHANGED <<request, route, loops, shown, ctxDone>>

\* An explicit port or a literal address goes without SRV.
DirectRoute ==
    /\ pc = "begin" /\ request.edition = "java"
    /\ PortExplicit \/ IsLiteral(request.host)
    /\ TakeRoute(JavaFallback, JavaFallback)
    /\ UNCHANGED <<request, loops, shown, ctxDone>>

LookupSRV ==
    /\ pc = "begin" /\ request.edition = "java"
    /\ ~ PortExplicit /\ ~ IsLiteral(request.host)
    /\ pc' = "srv"
    /\ UNCHANGED <<request, route, loops, shown, ctxDone>>

\* The lookup fails or finds nothing: a done context ends the preparation.
SrvAbsent ==
    /\ pc = "srv" /\ ~ ctxDone
    /\ TakeRoute(JavaFallback, JavaFallback)
    /\ UNCHANGED <<request, loops, shown, ctxDone>>

SrvCancelled ==
    /\ pc = "srv" /\ ctxDone
    /\ Fail

\* Faulty variant: the handshake keeps the default port.
SrvRecordDialOnly ==
    /\ pc = "srv"
    /\ \E target \in Hosts \cup {NoHost}, port \in SrvPorts :
          IF target = NoHost \/ port = 0
          THEN TakeRoute(JavaFallback, JavaFallback)
          ELSE TakeRoute([host |-> target, port |-> port], JavaFallback)
    /\ UNCHANGED <<request, loops, shown, ctxDone>>

\* The first record decides; one without a target or a port does not count.
SrvRecord ==
    /\ pc = "srv"
    /\ \E target \in Hosts \cup {NoHost}, port \in SrvPorts :
          IF target = NoHost \/ port = 0
          THEN TakeRoute(JavaFallback, JavaFallback)
          ELSE TakeRoute([host |-> target, port |-> port],
                         [host |-> request.host, port |-> port])
    /\ UNCHANGED <<request, loops, shown, ctxDone>>

\* Bedrock has no route of its own: it resolves the target.
BedrockBegins ==
    /\ pc = "begin" /\ request.edition = "bedrock"
    /\ pc' = "resolve"
    /\ UNCHANGED <<request, route, loops, shown, ctxDone>>

-----------------------------------------------------------------------------
(* Resolution: resolveDialCandidates, resolveBedrockCandidates *)

DialHost == IF request.edition = "java" THEN route.dial.host ELSE request.host

\* Faulty variant: the policy is not applied to a literal.
LiteralUnfiltered ==
    /\ pc = "resolve" /\ IsLiteral(DialHost)
    /\ matches(request.family, Unmap(DialHost))
    /\ Ready(<<[addr |-> Unmap(DialHost), port |-> PortFor(Unmap(DialHost))]>>)
    /\ UNCHANGED <<request, route, loops, ctxDone>>

\* dialCandidateForLiteralIP and its counterpart in resolveBedrockCandidates.
LiteralAccepted ==
    /\ pc = "resolve" /\ IsLiteral(DialHost)
    /\ Usable(Unmap(DialHost))
    /\ Ready(<<[addr |-> Unmap(DialHost), port |-> PortFor(Unmap(DialHost))]>>)
    /\ UNCHANGED <<request, route, loops, ctxDone>>

LiteralRefused ==
    /\ pc = "resolve" /\ IsLiteral(DialHost)
    /\ ~ Usable(Unmap(DialHost))
    /\ Fail

BeginLookup ==
    /\ pc = "resolve" /\ ~ IsLiteral(DialHost)
    /\ pc' = "lookup"
    /\ UNCHANGED <<request, route, loops, shown, ctxDone>>

LookupFails ==
    /\ pc = "lookup"
    /\ Fail

\* LookupNetIP on the network of the family: "ip", "ip4" or "ip6".
LookupAnswers ==
    /\ pc = "lookup"
    /\ \E s \in SeqOf({a \in Addresses : request.family = "any" \/ matches(request.family, a)},
                      MaxAnswers) : answers' = s
    /\ pc' = "sort"
    /\ UNCHANGED <<request, route, next, byFamily, primary, shown, ctxDone>>

-----------------------------------------------------------------------------
(* Selection: dialCandidatesForResolvedIPsByAddr, whose filter and whose     *)
(* sorting by family are one loop here, and interleaveDialCandidates         *)

\* An address that is refused or known is skipped; the first one decides which
\* family is the primary one.
SortAnswer ==
    /\ pc = "sort" /\ next <= Len(answers)
    /\ LET a == Unmap(answers[next])
           f == IF Is6(a) THEN "v6" ELSE "v4"
       IN  IF Usable(a) /\ ~ Known(a)
           THEN /\ byFamily' = [byFamily EXCEPT ![f] = Append(@, [addr |-> a, port |-> PortFor(a)])]
                /\ primary' = IF primary = "none" THEN f ELSE primary
           ELSE UNCHANGED <<byFamily, primary>>
    /\ next' = next + 1
    /\ UNCHANGED <<request, pc, route, answers, shown, ctxDone>>

\* No usable address is an error, and a single family needs no order.
EndSort ==
    /\ pc = "sort" /\ next > Len(answers)
    /\ \/ /\ primary = "none"
          /\ pc' = "failed" /\ UNCHANGED <<next, shown>>
       \/ /\ primary # "none" /\ byFamily[Other(primary)] = <<>>
          /\ Ready(byFamily[primary]) /\ UNCHANGED next
       \/ /\ primary # "none" /\ byFamily[Other(primary)] # <<>>
          /\ pc' = "order" /\ next' = 1 /\ UNCHANGED shown
    /\ UNCHANGED <<request, route, answers, byFamily, primary, ctxDone>>

SomeLeft == \E f \in Families : next <= Len(byFamily[f])

\* Faulty variant: one family after the other.
Concatenate ==
    /\ pc = "order" /\ SomeLeft
    /\ cands' = byFamily[primary] \o byFamily[Other(primary)]
    /\ next' = Len(cands') + 1
    /\ UNCHANGED <<request, pc, route, answers, byFamily, primary, displayTarget, ctxDone>>

interleaveDialCandidates ==
    /\ pc = "order" /\ SomeLeft
    /\ cands' = With(With(cands, byFamily[primary], next), byFamily[Other(primary)], next)
    /\ next' = next + 1
    /\ UNCHANGED <<request, pc, route, answers, byFamily, primary, displayTarget, ctxDone>>

EndInterleave ==
    /\ pc = "order" /\ ~ SomeLeft
    /\ Ready(cands)
    /\ UNCHANGED <<request, route, loops, ctxDone>>

Cancel ==
    /\ ~ ctxDone /\ pc \notin {"ready", "failed"}
    /\ ctxDone' = TRUE
    /\ UNCHANGED <<request, pc, route, loops, shown>>

PrepareNext ==
    \/ DirectRoute \/ LookupSRV \/ SrvAbsent \/ SrvCancelled \/ SrvRecord
    \/ BedrockBegins
    \/ LiteralAccepted \/ LiteralRefused
    \/ BeginLookup \/ LookupFails \/ LookupAnswers
    \/ SortAnswer \/ EndSort \/ interleaveDialCandidates \/ EndInterleave
    \/ Cancel

PrepareSpec == PrepareInit /\ [][PrepareNext]_prepareVars

-----------------------------------------------------------------------------
(* Properties *)

\* Whatever way an address came in (the command line, an SRV record that holds
\* a literal, the resolver, a mapped form), a prepared probe dials only the
\* requested family and, without --allow-private, no listed prefix in the form
\* the filter sees (address.go:32-93, bedrock.go:105-131).
CandidatesFollowPolicy ==
    pc = "ready" =>
        \A i \in DOMAIN cands :
            LET a == cands[i].addr IN
            /\ a.form \in {"v4", "v6"}
            /\ request.family = "4" => a.form = "v4"
            /\ request.family = "6" => a.form = "v6"
            /\ ~ request.allowPrivate => (a.listed => a.zoned)

\* The position at which an address first occurs in the answer, in any form.
FirstAt(a) == Min({i \in DOMAIN answers : Unmap(answers[i]) = a})

\* The candidates are exactly the usable answers, each once; the first usable
\* answer comes first, each family keeps the resolver's order, and as long as
\* both families have candidates left they take turns (address.go:95-156).
CandidatesAlternate ==
    pc = "ready" /\ answers # <<>> =>
        LET addrs == [i \in DOMAIN cands |-> cands[i].addr]
            left(i, six) == \E j \in DOMAIN addrs : j > i /\ Is6(addrs[j]) = six
        IN
        /\ ToSet(addrs) = {Unmap(a) : a \in {b \in ToSet(answers) : Usable(b)}}
        /\ \A i, j \in DOMAIN addrs :
              /\ i # j => addrs[i] # addrs[j]
              /\ i < j /\ (i = 1 \/ Is6(addrs[i]) = Is6(addrs[j])) =>
                    FirstAt(addrs[i]) < FirstAt(addrs[j])
        /\ \A i \in 1 .. Len(addrs) - 1 :
              Is6(addrs[i + 1]) = Is6(addrs[i]) => ~ left(i, ~ Is6(addrs[i]))

\* A Java handshake names the host the user gave, with the port that is dialed;
\* an explicit port is dialed as given, whatever DNS holds, and every candidate
\* of one Java probe uses that one port.  Bedrock takes the default port of each
\* candidate's own family (java.go:75-106, editions.go:101-112).
PortsAgree ==
    pc = "ready" =>
        /\ cands # <<>>
        /\ \A i \in DOMAIN cands :
              /\ PortExplicit => cands[i].port = request.port
              /\ request.edition = "java" => cands[i].port = route.handshake.port
              /\ request.edition = "bedrock" /\ ~ PortExplicit =>
                    cands[i].port = IF cands[i].addr.form = "v6" THEN 19133 ELSE 19132
        /\ request.edition = "java" => route.handshake.host = request.host

\* docs/LIMITATIONS.md:64-65: "By default, the program rejects these IPv6
\* prefixes: ... `fe80::/10`, and `ff00::/8`."
ListedPrefixesRejected ==
    pc = "ready" /\ ~ request.allowPrivate =>
        \A i \in DOMAIN cands : ~ cands[i].addr.listed

=============================================================================
