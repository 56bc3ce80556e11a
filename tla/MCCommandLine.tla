---------------------------- MODULE MCCommandLine ----------------------------
(* Short command lines over arguments of every shape; some of the options   *)
(* are attached to their value, some are not, and some look like one.       *)
EXTENDS CommandLine

MCText(kind, num, den, int) == [kind |-> kind, num |-> num, den |-> den, int |-> int]
MCNumber(num, den) == MCText("number", num, den, den = 1)
MCPlain(kind) == MCText(kind, 0, 1, FALSE)

MCArg(shape, text) ==
    [shape |-> shape, letters |-> <<>>, name |-> "", inline |-> FALSE,
     attached |-> Empty, text |-> text]

MCWord(text) == MCArg("word", text)
MCShort(letters, attached) ==
    [MCArg("short", MCPlain("host")) EXCEPT !.letters = letters, !.attached = attached]
MCLong(name) == [MCArg("long", MCPlain("host")) EXCEPT !.name = name]
MCInline(name, attached) == [MCLong(name) EXCEPT !.inline = TRUE, !.attached = attached]

\* A quarter of a second is the scaled nanosecond, 16 seconds the scaled limit.
MCArguments ==
    {MCArg("empty", Empty), MCArg("--", MCPlain("host"))}
    \cup {MCWord(MCPlain(k)) : k \in {"blank", "java", "host", "badhost"}}
    \cup {MCWord(MCNumber(n, 1)) : n \in {2, 16, 17}}
    \cup {MCWord(MCNumber(7, 8)), MCWord(MCNumber(1, 8)), MCWord(MCText("hostport", 65535, 1, FALSE)),
          MCWord(MCText("hostport", 65536, 1, FALSE))}
    \cup {MCShort(<<"4">>, Empty), MCShort(<<"6", "q">>, Empty), MCShort(<<"j">>, Empty),
          MCShort(<<"n", "h">>, Empty), MCShort(<<"x">>, Empty), MCShort(<<"D", "c">>, Empty),
          MCShort(<<"i">>, Empty), MCShort(<<"W">>, Empty), MCShort(<<"w">>, MCNumber(65, 4)),
          MCShort(<<"c">>, MCNumber(3, 1))}
    \cup {MCLong(n) : n \in {"edition", "bedrock", "version", "other"}}
    \cup {MCInline("edition", MCPlain("bedrock")), MCInline("java", Empty)}

MCArgLists == UNION {[1 .. n -> MCArguments] : n \in 0 .. 3}
              \cup {<<MCShort(<<"c">>, MCNumber(1, 1)), a, b, MCWord(MCPlain("host"))>> :
                      a \in MCArguments, b \in MCArguments}

=============================================================================
