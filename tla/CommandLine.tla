----------------------------- MODULE CommandLine -----------------------------
(***************************************************************************)
(* The command line: scanArgv, normalizeCLIConfig and runWithRuntime of    *)
(* cli.go, with parseDestination of editions.go.                           *)
(*                                                                         *)
(* A text is a record of what the parsers can tell about it: its kind, and *)
(* for a number the fraction num/den (with int when strconv.Atoi reads it) *)
(* or for a host with a port the port, in num.  An argument is a record    *)
(* too: its shape, and the text it is when another argument takes it for   *)
(* its value.  A short argument holds its letters up to the first one that *)
(* takes a value; what follows is the attached text, empty if there is     *)
(* none.                                                                   *)
(*                                                                         *)
(* ParseFloat decides only whether a text is a number (an exponent is, a   *)
(* fraction, an infinity or NaN is not); its range limits lie beyond the   *)
(* ones the exact arithmetic enforces.                                     *)
(***************************************************************************)
EXTENDS Integers, Sequences, FiniteSets

CONSTANTS
    ArgLists,        \* the argument lists
    NanosPerSecond,  \* int64(time.Second), scaled
    MaxInt,          \* math.MaxInt64, scaled
    MaxTimeout       \* maxAllowedTimeout, scaled

Kinds == {"empty", "blank", "number", "java", "bedrock", "host", "address", "hostport",
          "noname", "badport", "colons", "badhost"}
Texts == [kind : Kinds, num : Int, den : Nat \ {0}, int : BOOLEAN]

Empty == [kind |-> "empty", num |-> 0, den |-> 1, int |-> FALSE]

Toggles == {"4", "6", "q", "D", "n", "j", "V", "h"}
ValueLetters == {"c", "i", "w", "W"}
LongToggles == {"java", "bedrock", "allow-private", "help", "version"}

\* letters is for short arguments, name and inline for long ones.
Arguments ==
    [shape : {"empty", "--", "word", "long", "short"}, letters : Seq(STRING),
     name : STRING, inline : BOOLEAN, attached : Texts, text : Texts]

\* An argument is empty when its text is.
ASSUME ArgsAssumption ==
    /\ ArgLists \subseteq Seq(Arguments)
    /\ \A argv \in ArgLists : \A k \in DOMAIN argv :
          argv[k].text = Empty <=> argv[k].shape = "empty"

\* The defaults, a second between probes and five to wait, are within the limits.
ASSUME ScaleAssumption ==
    /\ {NanosPerSecond, MaxInt, MaxTimeout} \subseteq Nat \ {0}
    /\ 5 * NanosPerSecond <= MaxTimeout /\ MaxTimeout <= MaxInt

VARIABLES
    args,      \* the arguments after the program's name
    index,     \* the argument scanArgv looks at
    on,        \* raw: the toggles that are set
    value,     \* raw: the text of each option and of the destination
    phase,     \* "scan", "normalize", "prepare", "json", "session", "exited"
    cfg,       \* the configuration, once there is one
    probes,    \* probes sent, one standing for many
    replied,   \* a probe was answered
    exit       \* the exit status, -1 while running

vars == <<args, index, on, value, phase, cfg, probes, replied, exit>>

raw     == <<on, value>>
outcome == <<probes, replied>>

Running == -1
NoConfig == [edition |-> "none"]
Options == ValueLetters \cup {"edition", "destination"}

Configs ==
    [edition : {"java", "bedrock"}, family : SUBSET {"4", "6"}, private : BOOLEAN, json : BOOLEAN,
     count : Nat, interval : Nat, deadline : Nat, timeout : Nat]

TypeOK ==
    /\ args \in ArgLists /\ index \in 1 .. Len(args) + 1
    /\ on \subseteq Toggles \cup LongToggles /\ value \in [Options -> Texts]
    /\ phase \in {"scan", "normalize", "prepare", "json", "session", "exited"}
    /\ cfg \in Configs \cup {NoConfig}
    /\ probes \in 0 .. 2 /\ replied \in BOOLEAN
    /\ exit \in {Running, 0, 1, 2} /\ (exit = Running <=> phase # "exited")

Init ==
    /\ args \in ArgLists
    /\ index = 1
    /\ on = {} /\ value = [o \in Options |-> Empty]
    /\ phase = "scan"
    /\ cfg = NoConfig
    /\ probes = 0 /\ replied = FALSE /\ exit = Running

-----------------------------------------------------------------------------
(* scanArgv *)

Arg == args[index]
HasNext == index + 1 <= Len(args)

Scanning == phase = "scan" /\ index <= Len(args)

Exits(code) ==
    /\ phase' = "exited" /\ exit' = code
    /\ UNCHANGED <<args, index, raw, cfg, outcome>>

Goes(to) ==
    /\ index' = to
    /\ UNCHANGED <<args, phase, cfg, outcome, exit>>

\* Faulty variant: a second destination replaces the first.
ScanWordAgain ==
    /\ Scanning /\ Arg.shape = "word"
    /\ value' = [value EXCEPT !["destination"] = Arg.text] /\ UNCHANGED on
    /\ Goes(index + 1)

ScanWord ==
    /\ Scanning /\ Arg.shape = "word"
    /\ value["destination"] = Empty
    /\ value' = [value EXCEPT !["destination"] = Arg.text] /\ UNCHANGED on
    /\ Goes(index + 1)

\* After -- exactly one argument remains, whatever it looks like.
ScanDashes ==
    /\ Scanning /\ Arg.shape = "--"
    /\ value["destination"] = Empty /\ index + 1 = Len(args)
    /\ value' = [value EXCEPT !["destination"] = args[index + 1].text] /\ UNCHANGED on
    /\ Goes(index + 2)

\* The loop ends once help or the version has been asked for.
AfterFlags(next) == IF on' \cap {"h", "V"} # {} THEN Len(args) + 1 ELSE next

LongName == CASE Arg.name = "help" -> "h" [] Arg.name = "version" -> "V" [] OTHER -> Arg.name

ScanLongToggle ==
    /\ Scanning /\ Arg.shape = "long"
    /\ Arg.name \in LongToggles /\ ~ Arg.inline
    /\ on' = on \cup {LongName} /\ UNCHANGED value
    /\ Goes(AfterFlags(index + 1))

ScanEdition ==
    /\ Scanning /\ Arg.shape = "long" /\ Arg.name = "edition"
    /\ Arg.inline \/ HasNext
    /\ LET given == IF Arg.inline THEN Arg.attached ELSE args[index + 1].text IN
          /\ given.kind \notin {"empty", "blank"}
          /\ value' = [value EXCEPT !["edition"] = given]
    /\ UNCHANGED on
    /\ Goes(IF Arg.inline THEN index + 1 ELSE index + 2)

\* The letters of a group are taken one by one; the value letter is the last.
Letters == {Arg.letters[k] : k \in DOMAIN Arg.letters}
TakesNext(arg) ==
    /\ arg.shape = "short" /\ arg.attached = Empty
    /\ \E k \in DOMAIN arg.letters : arg.letters[k] \in ValueLetters

\* Faulty variant: the value that was taken is looked at again as an argument.
ScanShortStays ==
    /\ Scanning /\ Arg.shape = "short"
    /\ Letters \subseteq Toggles \cup ValueLetters
    /\ TakesNext(Arg) => HasNext
    /\ on' = on \cup (Letters \cap Toggles)
    /\ value' = [o \in Options |->
                    IF o \notin Letters THEN value[o]
                    ELSE IF TakesNext(Arg) THEN args[index + 1].text ELSE Arg.attached]
    /\ Goes(AfterFlags(index + 1))

ScanShort ==
    /\ Scanning /\ Arg.shape = "short"
    /\ Letters \subseteq Toggles \cup ValueLetters
    /\ TakesNext(Arg) => HasNext
    /\ on' = on \cup (Letters \cap Toggles)
    /\ value' = [o \in Options |->
                    IF o \notin Letters THEN value[o]
                    ELSE IF TakesNext(Arg) THEN args[index + 1].text ELSE Arg.attached]
    /\ Goes(AfterFlags(IF TakesNext(Arg) THEN index + 2 ELSE index + 1))

\* Everything else is invalid: usage on stderr, status 2.
ScanRejects ==
    /\ Scanning
    /\ \/ Arg.shape = "empty"
       \/ Arg.shape = "word" /\ value["destination"] # Empty
       \/ Arg.shape = "--" /\ (value["destination"] # Empty \/ index + 1 # Len(args))
       \/ Arg.shape = "long" /\ Arg.name \notin LongToggles \cup {"edition"}
       \/ Arg.shape = "long" /\ Arg.name \in LongToggles /\ Arg.inline
       \/ Arg.shape = "long" /\ Arg.name = "edition"
             /\ (IF Arg.inline THEN Arg.attached.kind \in {"empty", "blank"}
                 ELSE HasNext => args[index + 1].text.kind \in {"empty", "blank"})
       \/ Arg.shape = "short" /\ ~ (Letters \subseteq Toggles \cup ValueLetters)
       \/ TakesNext(Arg) /\ ~ HasNext
    /\ Exits(2)

ScanEnds ==
    /\ phase = "scan" /\ index > Len(args)
    /\ IF on \cap {"h", "V"} # {}
       THEN Exits(0)
       ELSE /\ phase' = "normalize"
            /\ UNCHANGED <<args, index, raw, cfg, outcome, exit>>

-----------------------------------------------------------------------------
(* normalizeCLIConfig *)

Nanoseconds(t) == (t.num * NanosPerSecond) \div t.den

\* Faulty variant: the bound is checked on whole seconds, before the scaling.
LooseDuration(t) == t.kind = "number" /\ t.num > 0 /\ t.num <= MaxInt * t.den

\* parseSecondsDuration accepts t.
ValidDuration(t) ==
    /\ t.kind = "number" /\ t.num > 0
    /\ t.num * NanosPerSecond <= MaxInt * t.den
    /\ Nanoseconds(t) > 0

ValidCount(t) == t.kind = "number" /\ t.int /\ t.num > 0

\* parseDestination tells a host or an address, with or without brackets, from a
\* host with a port; a port that is no number (badport) and colons that make no
\* address are refused.
Parsed(t) == t.kind \notin {"empty", "blank", "badport", "colons"}

\* validateServerAddress: too long, brackets, control characters or a port left in it.
ValidHost(t) == t.kind # "badhost"

\* targetSpec.validate: some host, and a port in range when there is one.
ValidTarget(t) ==
    /\ t.kind # "noname" /\ ValidHost(t)
    /\ t.kind = "hostport" => t.num \in 1 .. 65535

ValidDestination(t) == Parsed(t) /\ ValidTarget(t)

ValidEdition(t) == t.kind \in {"java", "bedrock"}

EditionChoices == (on \cap {"java", "bedrock"}) \cup
                  (IF value["edition"] = Empty THEN {} ELSE {"edition"})

\* -j sends one probe and takes no limit, no pace and no text output option.
JSONAlone ==
    "j" \in on => /\ \A o \in {"c", "i", "w"} : value[o] = Empty
                  /\ on \cap {"q", "D"} = {}

Acceptable ==
    /\ ~ {"4", "6"} \subseteq on
    /\ Cardinality(EditionChoices) <= 1
    /\ "edition" \in EditionChoices => ValidEdition(value["edition"])
    /\ ValidDestination(value["destination"])
    /\ value["c"] # Empty => ValidCount(value["c"])
    /\ \A o \in {"i", "w", "W"} : value[o] # Empty => ValidDuration(value[o])
    /\ value["W"] # Empty => Nanoseconds(value["W"]) <= MaxTimeout
    /\ JSONAlone

Duration(o, default) == IF value[o] = Empty THEN default ELSE Nanoseconds(value[o])

Config ==
    [edition  |-> IF "bedrock" \in on \/ value["edition"].kind = "bedrock"
                  THEN "bedrock" ELSE "java",
     family   |-> on \cap {"4", "6"},
     private  |-> "allow-private" \in on,
     json     |-> "j" \in on,
     count    |-> IF value["c"] = Empty THEN 0 ELSE value["c"].num,
     interval |-> Duration("i", NanosPerSecond),
     deadline |-> Duration("w", 0),
     timeout  |-> Duration("W", 5 * NanosPerSecond)]

Normalize ==
    /\ phase = "normalize" /\ Acceptable
    /\ cfg' = Config
    /\ phase' = "prepare"
    /\ UNCHANGED <<args, index, raw, outcome, exit>>

NormalizeRejects == phase = "normalize" /\ ~ Acceptable /\ Exits(2)

-----------------------------------------------------------------------------
(* runWithRuntime *)

\* prepare resolves and filters the addresses (module Prepare).
Prepared ==
    /\ phase = "prepare"
    /\ phase' = IF cfg.json THEN "json" ELSE "session"
    /\ UNCHANGED <<args, index, raw, cfg, outcome, exit>>

PrepareFails == phase = "prepare" /\ Exits(2)

JSONProbe ==
    /\ phase = "json"
    /\ probes' = 1 /\ replied' \in BOOLEAN
    /\ exit' = IF replied' THEN 0 ELSE 1
    /\ phase' = "exited"
    /\ UNCHANGED <<args, index, raw, cfg>>

\* runTextSession (module TextSession): no probe at all when the deadline has
\* passed before the first one; with both limits some replies may be too few.
TextSession ==
    /\ phase = "session"
    /\ probes' \in {0, 1, 2} /\ replied' \in BOOLEAN
    /\ replied' => probes' > 0
    /\ probes' = 0 => cfg.deadline > 0
    /\ cfg.count > 0 => probes' <= cfg.count
    /\ \/ exit' = 0 /\ replied'
       \/ exit' = 1 /\ (replied' => cfg.count > 0 /\ cfg.deadline > 0)
    /\ phase' = "exited"
    /\ UNCHANGED <<args, index, raw, cfg>>

Next ==
    \/ ScanWord \/ ScanDashes \/ ScanLongToggle \/ ScanEdition \/ ScanShort
    \/ ScanRejects \/ ScanEnds
    \/ Normalize \/ NormalizeRejects
    \/ Prepared \/ PrepareFails \/ JSONProbe \/ TextSession

Spec == Init /\ [][Next]_vars

-----------------------------------------------------------------------------
(* What a command line means, without the loop *)

Positions == 1 .. Len(args)

TakesValue(arg) == TakesNext(arg) \/ (arg.shape = "long" /\ arg.name = "edition" /\ ~ arg.inline)

\* The part an argument plays follows from the one before it and its part.
After(arg, part) ==
    IF part # "own" THEN "own"
    ELSE IF TakesValue(arg) THEN "value"
    ELSE IF arg.shape = "--" THEN "operand" ELSE "own"

Roles(argv) ==
    LET role[k \in 1 .. Len(argv)] == IF k = 1 THEN "own" ELSE After(argv[k - 1], role[k - 1])
    IN  role

Role == Roles(args)

Asks(k) ==
    /\ Role[k] = "own"
    /\ \/ args[k].shape = "long" /\ args[k].name \in {"help", "version"}
       \/ args[k].shape = "short" /\ \E j \in DOMAIN args[k].letters : args[k].letters[j] \in {"h", "V"}

\* Nothing counts behind the first argument that asks for help or the version.
Own == {k \in Positions : Role[k] = "own" /\ \A j \in 1 .. k - 1 : ~ Asks(j)}

Operands == {k \in Own : args[k].shape = "word"} \cup
            {k \in Positions : Role[k] = "operand" /\ k - 1 \in Own}

\* The text argument k gives to option o, and whether it gives one.
Gives(k, o) ==
    IF o = "edition" THEN args[k].shape = "long" /\ args[k].name = o
    ELSE args[k].shape = "short" /\ \E j \in DOMAIN args[k].letters : args[k].letters[j] = o
Given(k) == IF TakesValue(args[k]) THEN args[k + 1].text ELSE args[k].attached

\* The value of a short option may be empty: the option then counts as not given.
WellFormed(k) ==
    /\ args[k].shape # "empty"
    /\ args[k].shape = "--" => k + 1 = Len(args)
    /\ TakesValue(args[k]) => k < Len(args)
    /\ args[k].shape = "short" =>
          \A j \in DOMAIN args[k].letters : args[k].letters[j] \in Toggles \cup ValueLetters
    /\ args[k].shape = "long" =>
          \/ args[k].name \in LongToggles /\ ~ args[k].inline
          \/ args[k].name = "edition" /\ Given(k).kind \notin {"empty", "blank"}

Understood == Cardinality(Operands) <= 1 /\ \A k \in Own : WellFormed(k)

-----------------------------------------------------------------------------
(* Properties *)

\* The scan refuses exactly the command lines that have no meaning (an empty
\* value of a short option is not refused, see EmptyArgumentsRejected); otherwise an
\* argument that looks like an option but is another one's value sets nothing,
\* the last value of an option counts, and the one destination is found
\* wherever it stands (cli.go:122-282).
ScanFindsTheMeaning ==
    /\ exit = 2 /\ index <= Len(args) => ~ Understood
    /\ phase = "normalize" =>
          /\ Understood
          /\ \A k \in Operands : value["destination"] = args[k].text
          /\ \A o \in Options \ {"destination"} :
                \/ value[o] = Empty /\ \A k \in Own : ~ Gives(k, o)
                \/ \E k \in Own : /\ Gives(k, o) /\ value[o] = Given(k)
                                  /\ \A j \in Own : j > k => ~ Gives(j, o)

\* A configuration lies where the session and the probes assume it to be: every
\* duration is positive, fits the integer that holds it and is the one asked
\* for, cut to a nanosecond; a JSON run has no limits of its own
\* (cli.go:345-408).
ConfigIsInDomain ==
    cfg # NoConfig =>
        /\ cfg.interval > 0 /\ cfg.timeout \in 1 .. MaxTimeout
        /\ \A d \in {cfg.interval, cfg.deadline, cfg.timeout} : d <= MaxInt
        /\ \A o \in {"i", "w", "W"} :
              LET t == value[o]
                  d == CASE o = "i" -> cfg.interval [] o = "w" -> cfg.deadline
                         [] o = "W" -> cfg.timeout
              IN  t # Empty => /\ d * t.den <= t.num * NanosPerSecond
                               /\ t.num * NanosPerSecond < (d + 1) * t.den
        /\ cfg.json => cfg.count = 0 /\ cfg.deadline = 0 /\ cfg.interval = NanosPerSecond

\* The exit status tells how far the program came: 2 means that nothing was
\* sent, 0 that a reply came or that help or the version was asked for, and a
\* probe is sent only for an understood command line with one destination that
\* asks for neither (cli.go:422-477).
ExitStatusTellsThePhase ==
    /\ exit = 2 => probes = 0
    /\ exit = 0 => replied \/ (Understood /\ \E k \in Own : Asks(k))
    /\ probes > 0 => /\ Understood /\ Cardinality(Operands) = 1
                     /\ \A k \in Own : ~ Asks(k)

\* docs/FUNCTIONS.md:82 of scanArgv: "It rejects unknown options and empty
\* arguments."  So no command line with an empty argument gets a configuration;
\* consumeShortFlags takes the next argument for a value without a look at it.
EmptyArgumentsRejected ==
    cfg # NoConfig => \A k \in Positions : args[k].shape # "empty"

=============================================================================
