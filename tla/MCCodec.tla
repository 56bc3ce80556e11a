------------------------------- MODULE MCCodec -------------------------------
(* Two bits to a byte and five to a number: as with 7 and 32, the last byte *)
(* carries fewer bits than it has room for.                                 *)
EXTENDS Codec

MCTexts == UNION {[1 .. n -> {Continue, AllOnes}] : n \in 0 .. MaxString + 1}

MCJobs ==
    {[sender |-> s, id |-> i, text |-> t, tail |-> l, cut |-> c] :
        s \in {"client", "server"}, i \in -16 .. 15, t \in MCTexts,
        l \in {<<>>, <<1, Continue>>}, c \in 0 .. 3}

MCStrays == UNION {[1 .. n -> Bytes] : n \in 0 .. 4}
            \cup {<<a, b>> \o s : a \in {5, 6}, b \in {0, 1}, s \in [1 .. 3 -> Bytes]}

=============================================================================
