-------------------------------- MODULE Codec --------------------------------
(***************************************************************************)
(* The VarInt, string and packet encoding, which protocol.go and           *)
(* internal/stagingserver/server.go implement separately, and the reader   *)
(* that takes a packet from a stream that may end anywhere.                *)
(*                                                                         *)
(* A byte holds a digit of a number and above it the continuation bit;     *)
(* numbers are cut to their width.  Digits occupy different bits of the    *)
(* result, so that |= is an addition.  The two readers differ in how they  *)
(* hold their bytes, not in the order of their checks, and are one reader  *)
(* here; the two writers are separate.                                     *)
(* The packet is an id and a string, the shape of the status response;     *)
(* a byte of all ones stands for what UTF-8 does not allow.                *)
(***************************************************************************)
EXTENDS Integers, Sequences

CONSTANTS
    Continue,     \* the continuation bit: digits are smaller (0x80)
    Modulus,      \* how many numbers there are (2^32)
    MaxBytes,     \* the bytes a VarInt may have
    MaxPacket,    \* maxPacketLength
    MaxString,    \* maxStatusJSONLength
    Jobs,         \* what is sent: sender, id, text, what follows it, and where
                  \* the connection breaks
    Strays        \* streams that neither writer need have produced

Bytes   == 0 .. 2 * Continue - 1
AllOnes == 2 * Continue - 1

\* What the digit behind n others counts: 1 << (7 * n).
Weight[n \in 0 .. MaxBytes] == IF n = 0 THEN 1 ELSE Continue * Weight[n - 1]

\* MaxBytes is the smallest number of digits that holds every number.
ASSUME BytesAssumption ==
    /\ Continue \in Nat /\ Continue >= 2 /\ Modulus \in Nat /\ MaxBytes \in Nat \ {0}
    /\ Weight[MaxBytes - 1] < Modulus /\ Modulus <= Weight[MaxBytes]
ASSUME LimitAssumption == MaxPacket \in 0 .. Modulus \div 2 - 1 /\ MaxString \in 0 .. MaxPacket
ASSUME JobsAssumption ==
    /\ Jobs \subseteq [sender : {"client", "server"},
                       id : -(Modulus \div 2) .. Modulus \div 2 - 1,
                       text : Seq(Bytes), tail : Seq(Bytes), cut : Nat]
    /\ Strays \subseteq Seq(Bytes)

VARIABLES
    job,      \* the job, or a stray stream
    stream,   \* the bytes that arrive before the connection ends
    pos,      \* how many of them have been read
    phase,    \* "send", "length", "body", "id", "size", "text", or the outcome
    numRead,  \* bytes of the number being read
    result,   \* its value so far, without sign
    packet,   \* the payload
    at,       \* how much of it has been read
    number,   \* the numbers read: length, id and size
    got       \* the text read

codecVars == <<job, stream, pos, phase, numRead, result, packet, at, number, got>>

Stray == [sender |-> "neither"]
Outcomes == {"ok", "refused", "EOF", "too long", "bad length", "too large", "not UTF-8"}

CodecTypeOK ==
    /\ job \in Jobs \cup {Stray}
    /\ stream \in Seq(Bytes) /\ pos \in 0 .. Len(stream)
    /\ phase \in {"send", "length", "body", "id", "size", "text"} \cup Outcomes
    /\ numRead \in 0 .. MaxBytes /\ result \in 0 .. Modulus - 1
    /\ packet \in Seq(Bytes) /\ at \in 0 .. Len(packet)
    /\ number \in [{"length", "id", "size"} -> Int]
    /\ got \in Seq(Bytes)

CodecInit ==
    /\ \/ job \in Jobs /\ stream = <<>> /\ phase = "send"
       \/ job = Stray /\ stream \in Strays /\ phase = "length"
    /\ pos = 0 /\ numRead = 0 /\ result = 0
    /\ packet = <<>> /\ at = 0 /\ got = <<>>
    /\ number = [f \in {"length", "id", "size"} |-> 0]

-----------------------------------------------------------------------------
(* Writing *)

Unsigned(v) == IF v < 0 THEN v + Modulus ELSE v
Signed(u) == IF u < Modulus \div 2 THEN u ELSE u - Modulus

\* A digit that is not the last, and the rest.
More(digit, rest) == <<digit + Continue>> \o rest

\* writeVarInt of protocol.go: the last digit is recognised before it is written.
ClientDigits[u \in 0 .. Modulus - 1] ==
    IF u < Continue THEN <<u>> ELSE More(u % Continue, ClientDigits[u \div Continue])

\* writeVarInt of server.go: the value is shifted first.
ServerDigits[u \in 0 .. Modulus - 1] ==
    LET digit == u % Continue
        rest  == u \div Continue
    IN  IF rest # 0 THEN More(digit, ServerDigits[rest]) ELSE <<digit>>

\* Faulty variant: the sign is written, not the bits.
WriteMagnitude(sender, v) == ClientDigits[IF v < 0 THEN -v ELSE v]

WriteVarInt(sender, v) ==
    IF sender = "client" THEN ClientDigits[Unsigned(v)] ELSE ServerDigits[Unsigned(v)]

ValidUTF8(text) == \A k \in DOMAIN text : text[k] # AllOnes

\* writeString; only the server's looks at the text.
StringFits(j) == Len(j.text) <= MaxString /\ (j.sender = "server" => ValidUTF8(j.text))

Payload(j) == WriteVarInt(j.sender, j.id) \o WriteVarInt(j.sender, Len(j.text)) \o j.text

\* writePacket; the payload is never empty.
PacketFits(j) == Len(Payload(j)) <= MaxPacket

Frame(j) == WriteVarInt(j.sender, Len(Payload(j))) \o Payload(j)

Send ==
    /\ phase = "send"
    /\ IF StringFits(job) /\ PacketFits(job)
       THEN /\ stream' = LET all == Frame(job) \o job.tail
                         IN  SubSeq(all, 1, Len(all) - job.cut)
            /\ phase' = "length"
       ELSE phase' = "refused" /\ UNCHANGED stream
    /\ UNCHANGED <<job, pos, numRead, result, packet, at, number, got>>

-----------------------------------------------------------------------------
(* Reading *)

\* What the loop of readVarInt makes of the next byte: the number so far.
Accumulate(byte) == (result + (byte % Continue) * Weight[numRead]) % Modulus

Number(byte, last) ==
    IF byte >= Continue
    THEN /\ numRead' = numRead + 1 /\ result' = Accumulate(byte)
         /\ UNCHANGED <<phase, number>>
    ELSE /\ numRead' = 0 /\ result' = 0
         /\ number' = [number EXCEPT ![phase] = Signed(Accumulate(byte))]
         /\ phase' = last

Stops(outcome) ==
    /\ phase' = outcome
    /\ UNCHANGED <<job, stream, pos, numRead, result, packet, at, number, got>>

\* Faulty variant: a byte more than a number can have.
TooLongLate == numRead >= MaxBytes + 1

TooLong == numRead >= MaxBytes

\* readVarInt on the connection.
ReadStreamByte ==
    /\ phase = "length" /\ ~ TooLong /\ pos < Len(stream)
    /\ pos' = pos + 1
    /\ Number(stream[pos + 1], "body")
    /\ UNCHANGED <<job, stream, packet, at, got>>

\* readVarIntFromBytes on the payload.
ReadPacketByte ==
    /\ phase \in {"id", "size"} /\ ~ TooLong /\ at < Len(packet)
    /\ at' = at + 1
    /\ Number(packet[at + 1], IF phase = "id" THEN "size" ELSE "text")
    /\ UNCHANGED <<job, stream, pos, packet, got>>

NumberFails ==
    /\ phase \in {"length", "id", "size"}
    /\ \/ TooLong /\ Stops("too long")
       \/ /\ ~ TooLong
          /\ IF phase = "length" THEN pos = Len(stream) ELSE at = Len(packet)
          /\ Stops("EOF")

\* readPacket once the length is known.
ReadBody ==
    /\ phase = "body" /\ number["length"] \in 1 .. MaxPacket
    /\ pos + number["length"] <= Len(stream)
    /\ packet' = SubSeq(stream, pos + 1, pos + number["length"])
    /\ pos' = pos + number["length"]
    /\ phase' = "id"
    /\ UNCHANGED <<job, stream, numRead, result, at, number, got>>

BodyFails ==
    /\ phase = "body"
    /\ \/ number["length"] <= 0 /\ Stops("bad length")
       \/ number["length"] > MaxPacket /\ Stops("too large")
       \/ /\ number["length"] \in 1 .. MaxPacket
          /\ pos + number["length"] > Len(stream)
          /\ Stops("EOF")

\* readStringFromBytes once the size is known.
Text == SubSeq(packet, at + 1, at + number["size"])

ReadText ==
    /\ phase = "text"
    /\ number["size"] \in 0 .. MaxString /\ at + number["size"] <= Len(packet)
    /\ ValidUTF8(Text)
    /\ got' = Text /\ at' = at + number["size"]
    /\ phase' = "ok"
    /\ UNCHANGED <<job, stream, pos, numRead, result, packet, number>>

TextFails ==
    /\ phase = "text"
    /\ \/ number["size"] < 0 /\ Stops("bad length")
       \/ number["size"] > MaxString /\ Stops("too large")
       \/ /\ number["size"] \in 0 .. MaxString
          /\ \/ at + number["size"] > Len(packet) /\ Stops("EOF")
             \/ /\ at + number["size"] <= Len(packet) /\ ~ ValidUTF8(Text)
                /\ Stops("not UTF-8")

CodecNext ==
    \/ Send \/ ReadStreamByte \/ ReadPacketByte \/ NumberFails
    \/ ReadBody \/ BodyFails \/ ReadText \/ TextFails

CodecSpec == CodecInit /\ [][CodecNext]_codecVars

-----------------------------------------------------------------------------
(* Properties *)

\* The index of the byte that ends the number at the head of s, 0 if none does.
EndOf(s) ==
    LET ends == {k \in DOMAIN s : s[k] < Continue} IN
    IF ends = {} THEN 0 ELSE CHOOSE k \in ends : \A j \in ends : k <= j

\* The value of the first digits of s, least significant first.
Value(s) ==
    LET value[k \in 0 .. IF Len(s) < MaxBytes THEN Len(s) ELSE MaxBytes] ==
            IF k = 0 THEN 0 ELSE value[k - 1] + (s[k] % Continue) * Weight[k - 1]
    IN  value

\* The number at the head of s.
Meaning(s) == Signed(Value(s)[EndOf(s)] % Modulus)

\* The loop computes what the notation means, whatever the bytes: it gives a
\* number up exactly when it has no end within MaxBytes, and the bits of the
\* last byte that exceed the width are dropped, not carried
\* (protocol.go:173-197, server.go:360-409).
NumbersHaveTheirMeaning ==
    /\ phase \in {"body", "id"} =>
          /\ EndOf(stream) \in 1 .. MaxBytes
          /\ number["length"] = Meaning(stream)
    /\ phase = "too long" /\ pos <= MaxBytes /\ packet = <<>> =>
          Len(stream) >= MaxBytes /\ EndOf(stream) \notin 1 .. MaxBytes
    /\ phase \in {"size", "text"} =>
          /\ EndOf(packet) \in 1 .. MaxBytes
          /\ number["id"] = Meaning(packet)

\* What either side writes the other reads back, id and text, and not one byte
\* of what follows; a packet cut short is never taken for a whole one, and the
\* only packet that is sent but not accepted is a client's with a text that is
\* not UTF-8 (protocol.go:137-264, server.go:325-467).
WhatIsSentIsRead ==
    job.sender # "neither" /\ phase \in Outcomes \ {"refused"} =>
        LET whole == job.cut <= Len(job.tail) IN
        IF ~ whole THEN phase = "EOF"
        ELSE IF ~ ValidUTF8(job.text) THEN phase = "not UTF-8" /\ job.sender = "client"
        ELSE /\ phase = "ok"
             /\ number["id"] = job.id /\ got = job.text
             /\ pos = Len(Frame(job)) /\ at = Len(packet)

=============================================================================
