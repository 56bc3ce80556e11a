-------------------------- MODULE PreparationProofs --------------------------
(***************************************************************************)
(* Proofs about what happens before the first probe: CommandLine for any   *)
(* argument lists and any limits, and Prepare for any addresses, names and *)
(* ports and answers of any length.                                        *)
(***************************************************************************)
EXTENDS CommandLine, Prepare, FiniteSetTheorems, SequenceTheorems,
        WellFoundedInduction, TLAPS

(* The inductive invariant of CommandLine, as a conjunction of named parts.    *)
(* The scan is at index; what it has found is the meaning of the arguments     *)
(* before it.                                                                  *)

\* The arguments behind the scan are well formed.
BehindIsWellFormed == \A k \in Own : k < index => WellFormed(k)

\* No operand, or the only one, which is the destination.
OperandsBehind == {k \in Operands : k < index}
BehindHasDestination ==
    \/ OperandsBehind = {} /\ value["destination"] = Empty
    \/ \E k \in OperandsBehind : /\ OperandsBehind = {k}
                                 /\ value["destination"] = args[k].text

\* The last value of each option.
LastGiven(o) ==
    \/ value[o] = Empty /\ \A k \in Own : k < index => ~ Gives(k, o)
    \/ \E k \in Own : /\ k < index /\ Gives(k, o) /\ value[o] = Given(k)
                      /\ \A j \in Own : j > k /\ j < index => ~ Gives(j, o)
BehindGivesOptions == \A o \in Options \ {"destination"} : LastGiven(o)

\* The scan looks at arguments that count, until one asks for help.
Asked == on \cap {"h", "V"} # {}
ScanPosition ==
    /\ Asked => index = Len(args) + 1 /\ \E k \in Own : Asks(k)
    /\ ~ Asked => /\ \A k \in 1 .. index - 1 : ~ Asks(k)
                  /\ index \in Positions => Role[index] = "own"

\* What the later phases start from.
PhaseOrder ==
    /\ phase \notin {"scan", "exited"} => index = Len(args) + 1 /\ ~ Asked
    /\ phase \in {"prepare", "json", "session"} => value["destination"] # Empty
    /\ phase \in {"scan", "normalize"} => cfg = NoConfig
    /\ phase # "exited" => probes = 0 /\ ~ replied

IInv ==
    /\ TypeOK
    /\ BehindIsWellFormed /\ BehindHasDestination /\ BehindGivesOptions
    /\ ScanPosition /\ PhaseOrder
    /\ ScanFindsTheMeaning /\ ConfigIsInDomain /\ ExitStatusTellsThePhase

-----------------------------------------------------------------------------
(* The part each argument plays *)

LEMMA LeastNumber ==
    ASSUME NEW T \in SUBSET Nat, T # {}
    PROVE  \E n \in T : \A m \in T : n <= m
<1>. DEFINE R == {ss \in Nat \X Nat : ss[1] < ss[2]}
<1>1. IsWellFoundedOn(R, Nat)
      BY NatLessThanWellFounded DEF OpToRel
<1>2. \A m, n \in T : m < n => <<m, n>> \in R
      OBVIOUS
<1>. HIDE DEF R
<1>3. PICK n \in T : \A m \in T : ~ (<<m, n>> \in R)
      BY <1>1, WFMin
<1>4. \A m \in T : ~ (m < n)
      BY <1>2, <1>3
<1>. QED  BY <1>4

\* The parts of the first n arguments.
PartsUpTo(argv, n, f) ==
    f = [k \in 1 .. n |-> IF k = 1 THEN "own" ELSE After(argv[k - 1], f[k - 1])]

\* Each part has a predecessor with a smaller index, so the parts exist.
LEMMA PartsExist ==
    ASSUME NEW argv, NEW len \in Nat
    PROVE  \E f : PartsUpTo(argv, len, f)
<1>. DEFINE T == {n \in Nat : ~ \E f : PartsUpTo(argv, n, f)}
<1>1. SUFFICES ASSUME T # {} PROVE FALSE
      OBVIOUS
<1>2. PICK n \in T : \A m \in T : n <= m
  <2>1. T \in SUBSET Nat
        OBVIOUS
  <2>. HIDE DEF T
  <2>. QED  BY <1>1, <2>1, LeastNumber
<1>3. n # 0
  <2>1. PartsUpTo(argv, 0, [k \in 1 .. 0 |-> "own"])
        BY DEF PartsUpTo
  <2>. QED  BY <2>1
<1>4. PICK f : PartsUpTo(argv, n - 1, f)
  <2>1. n - 1 \in Nat /\ n - 1 \notin T
        BY <1>2, <1>3
  <2>. QED  BY <2>1
<1>5. PICK g : g = [k \in 1 .. n |-> IF k < n THEN f[k]
                                     ELSE IF k = 1 THEN "own" ELSE After(argv[k - 1], f[k - 1])]
      OBVIOUS
<1>6. n \in Nat /\ n >= 1
      BY <1>3
<1>7. ASSUME NEW k \in 1 .. n
      PROVE  g[k] = IF k = 1 THEN "own" ELSE After(argv[k - 1], g[k - 1])
  <2>1. k # 1 => g[k - 1] = f[k - 1]
        BY <1>5, <1>6
  <2>2. k < n => f[k] = IF k = 1 THEN "own" ELSE After(argv[k - 1], f[k - 1])
    <3>1. k < n => k \in 1 .. n - 1
          BY <1>6
    <3>. QED  BY <1>4, <3>1 DEF PartsUpTo
  <2>3. g[k] = IF k < n THEN f[k] ELSE IF k = 1 THEN "own" ELSE After(argv[k - 1], f[k - 1])
        BY <1>5
  <2>. QED  BY <2>1, <2>2, <2>3
<1>8. PartsUpTo(argv, n, g)
      BY <1>5, <1>7 DEF PartsUpTo
<1>. QED  BY <1>8

\* The part of each argument is the one its definition gives it.
LEMMA RolesDef ==
    ASSUME NEW argv, Len(argv) \in Nat
    PROVE  \A k \in 1 .. Len(argv) :
              Roles(argv)[k] = IF k = 1 THEN "own" ELSE After(argv[k - 1], Roles(argv)[k - 1])
<1>1. Roles(argv) = CHOOSE f : PartsUpTo(argv, Len(argv), f)
      BY DEF Roles, PartsUpTo
<1>2. \E f : PartsUpTo(argv, Len(argv), f)
      BY PartsExist
<1>3. PartsUpTo(argv, Len(argv), Roles(argv))
      BY <1>1, <1>2, Zenon
<1>. QED  BY <1>3 DEF PartsUpTo

-----------------------------------------------------------------------------
(* What a command line means does not change while it is scanned *)

LEMMA ArgumentsTyped ==
    ASSUME TypeOK
    PROVE  /\ args \in Seq(Arguments) /\ Len(args) \in Nat /\ index \in Nat /\ index >= 1
           /\ Positions = 1 .. Len(args) /\ DOMAIN args = Positions
           /\ \A k \in Positions : /\ args[k] \in Arguments
                                   /\ args[k].text \in Texts /\ args[k].attached \in Texts
                                   /\ args[k].shape \in {"empty", "--", "word", "long", "short"}
                                   /\ args[k].text = Empty <=> args[k].shape = "empty"
<1>1. args \in Seq(Arguments) /\ args \in ArgLists
      BY ArgsAssumption DEF TypeOK
<1>2. Len(args) \in Nat /\ Positions = 1 .. Len(args) /\ DOMAIN args = Positions
      BY <1>1 DEF Positions
<1>3. index \in Nat /\ index >= 1
      BY <1>2 DEF TypeOK
<1>4. \A k \in Positions : args[k] \in Arguments
      BY <1>1, <1>2
<1>5. \A k \in Positions : /\ args[k].text \in Texts /\ args[k].attached \in Texts
                           /\ args[k].shape \in {"empty", "--", "word", "long", "short"}
      BY <1>4 DEF Arguments
<1>6. \A k \in Positions : args[k].text = Empty <=> args[k].shape = "empty"
      BY <1>1, <1>2, ArgsAssumption
<1>. QED  BY <1>1, <1>2, <1>3, <1>4, <1>5, <1>6

LEMMA RoleSteps ==
    ASSUME TypeOK
    PROVE  /\ 1 \in Positions => Role[1] = "own"
           /\ \A k \in Positions : k + 1 \in Positions => Role[k + 1] = After(args[k], Role[k])
<1>1. Len(args) \in Nat /\ Positions = 1 .. Len(args)
      BY ArgumentsTyped
<1>2. \A k \in Positions : Role[k] = IF k = 1 THEN "own" ELSE After(args[k - 1], Role[k - 1])
      BY <1>1, RolesDef DEF Role
<1>3. ASSUME NEW k \in Positions, k + 1 \in Positions
      PROVE  Role[k + 1] = After(args[k], Role[k])
  <2>1. k + 1 # 1 /\ (k + 1) - 1 = k
        BY <1>1
  <2>. QED  BY <1>2, <1>3, <2>1
<1>. QED  BY <1>2, <1>3

LEMMA MeaningStays ==
    ASSUME UNCHANGED args
    PROVE  /\ Positions' = Positions /\ Role' = Role /\ Own' = Own /\ Operands' = Operands
           /\ \A k : Asks(k)' <=> Asks(k)
           /\ \A k : WellFormed(k)' <=> WellFormed(k)
           /\ \A k : Given(k)' = Given(k)
           /\ \A k, o : Gives(k, o)' <=> Gives(k, o)
           /\ Understood' <=> Understood
<1>1. Positions' = Positions /\ Role' = Role
      BY DEF Positions, Role
<1>2. \A k : Asks(k)' <=> Asks(k)
      BY <1>1 DEF Asks
<1>3. Own' = Own
      BY <1>1, <1>2 DEF Own
<1>4. Operands' = Operands
      BY <1>1, <1>3 DEF Operands
<1>5. \A k : Given(k)' = Given(k)
      BY DEF Given
<1>6. \A k : WellFormed(k)' <=> WellFormed(k)
      BY <1>5 DEF WellFormed
<1>7. \A k, o : Gives(k, o)' <=> Gives(k, o)
      BY DEF Gives
<1>8. Understood' <=> Understood
      BY <1>3, <1>4, <1>6 DEF Understood
<1>. QED  BY <1>1, <1>2, <1>3, <1>4, <1>5, <1>6, <1>7, <1>8

-----------------------------------------------------------------------------
(* Steps of the scan *)

LEMMA AtIndex ==
    ASSUME IInv, Scanning
    PROVE  /\ index \in Positions /\ ~ Asked /\ Role[index] = "own"
           /\ \A k \in 1 .. index - 1 : ~ Asks(k)
           /\ index \in Own
<1>1. index \in Positions
      BY ArgumentsTyped DEF IInv, Scanning
<1>2. index # Len(args) + 1
      BY <1>1, ArgumentsTyped DEF IInv
<1>3. ~ Asked
      BY <1>2 DEF IInv, ScanPosition
<1>4. Role[index] = "own" /\ \A k \in 1 .. index - 1 : ~ Asks(k)
      BY <1>1, <1>3 DEF IInv, ScanPosition
<1>5. index \in Own
      BY <1>1, <1>4 DEF Own
<1>. QED  BY <1>1, <1>3, <1>4, <1>5

\* The argument at the index has the next one for its value or its operand.
TakesTwo == TakesValue(Arg) \/ Arg.shape = "--"

LEMMA NextRoles ==
    ASSUME TypeOK, index \in Positions, Role[index] = "own"
    PROVE  /\ ~ TakesTwo /\ index + 1 \in Positions => Role[index + 1] = "own"
           /\ TakesTwo /\ index + 1 \in Positions => Role[index + 1] # "own"
           /\ TakesTwo /\ index + 2 \in Positions => Role[index + 2] = "own"
           /\ index + 1 \in Positions => (Role[index + 1] = "operand" <=> Arg.shape = "--")
           /\ Arg.shape \in {"--", "word"} => ~ TakesValue(Arg)
<1>1. Arg.shape \in {"--", "word"} => ~ TakesValue(Arg)
      BY DEF TakesValue, TakesNext
<1>2. index + 1 \in Positions => Role[index + 1] = After(Arg, "own")
      BY RoleSteps DEF Arg
<1>3. After(Arg, "own") = IF TakesValue(Arg) THEN "value"
                          ELSE IF Arg.shape = "--" THEN "operand" ELSE "own"
      BY DEF After
<1>4. index + 2 \in Positions => /\ index + 1 \in Positions
                                 /\ Role[index + 2] = After(args[index + 1], Role[index + 1])
  <2>1. /\ index + 2 \in Positions => index + 1 \in Positions
        /\ (index + 1) + 1 = index + 2
        BY ArgumentsTyped
  <2>. QED  BY <2>1, RoleSteps
<1>5. index + 2 \in Positions /\ Role[index + 1] # "own" => Role[index + 2] = "own"
      BY <1>4 DEF After
<1>. QED  BY <1>1, <1>2, <1>3, <1>4, <1>5 DEF TakesTwo

\* A step that understands the argument at the index and moves on: the one
\* argument that is new behind the scan is this one.
Moved ==
    /\ index' = IF Asked' THEN Len(args) + 1 ELSE IF TakesTwo THEN index + 2 ELSE index + 1
    /\ TakesTwo => index + 1 \in Positions
    /\ Asked' <=> Asks(index)

LEMMA NewBehind ==
    ASSUME IInv, Scanning, Moved
    PROVE  /\ index' \in 1 .. Len(args) + 1 /\ index < index'
           /\ \A k \in Own : k < index' => k < index \/ k = index
           /\ \A k \in Operands : k < index' =>
                 \/ k < index
                 \/ k = index /\ Arg.shape = "word"
                 \/ k = index + 1 /\ Arg.shape = "--"
           /\ Arg.shape = "word" => index \in Operands
           /\ Arg.shape = "--" => index + 1 \in Operands /\ index + 1 < index'
<1>. USE DEF IInv
<1>1. /\ index \in Positions /\ Role[index] = "own" /\ index \in Own
      /\ Positions = 1 .. Len(args) /\ Len(args) \in Nat /\ index \in Nat /\ index >= 1
      BY AtIndex, ArgumentsTyped
<1>2. index' \in 1 .. Len(args) + 1 /\ index < index'
      BY <1>1 DEF Moved
<1>3. ASSUME NEW k \in Own, k < index', k > index PROVE FALSE
  <2>1. k \in Positions /\ Role[k] = "own" /\ \A j \in 1 .. k - 1 : ~ Asks(j)
        BY DEF Own
  <2>2. ~ Asks(index)
        BY <1>1, <1>3, <2>1
  <2>3. ~ Asked'
        BY <2>2 DEF Moved
  <2>4. TakesTwo /\ k = index + 1
        BY <1>1, <1>3, <2>1, <2>3 DEF Moved
  <2>. QED  BY <1>1, <2>1, <2>4, NextRoles
<1>4. ASSUME NEW k \in Operands, k < index', k > index
      PROVE  k = index + 1 /\ Arg.shape = "--"
  <2>1. CASE k \in Own
        BY <1>3, <1>4, <2>1
  <2>2. CASE k \notin Own
    <3>1. k \in Positions /\ Role[k] = "operand" /\ k - 1 \in Own
          BY <2>2 DEF Operands
    <3>2. k - 1 < index' /\ k - 1 \in Nat
          BY <1>1, <1>4, <1>2, <3>1
    <3>3. k - 1 = index
          BY <1>1, <1>3, <1>4, <1>2, <3>1, <3>2
    <3>4. k = index + 1
          BY <1>1, <3>1, <3>3
    <3>. QED  BY <1>1, <3>1, <3>4, NextRoles
  <2>. QED  BY <2>1, <2>2
<1>5. index \in Operands <=> Arg.shape = "word"
  <2>1. Role[index] # "operand"
        BY <1>1
  <2>. QED  BY <1>1, <2>1 DEF Operands, Arg
<1>6. Arg.shape = "--" => index + 1 \in Operands /\ index + 1 < index'
  <2>. SUFFICES ASSUME Arg.shape = "--" PROVE index + 1 \in Operands /\ index + 1 < index'
       OBVIOUS
  <2>1. TakesTwo /\ index + 1 \in Positions
        BY DEF TakesTwo, Moved
  <2>2. Role[index + 1] = "operand"
        BY <1>1, <2>1, NextRoles
  <2>3. (index + 1) - 1 = index
        BY <1>1
  <2>4. index + 1 \in Operands
        BY <1>1, <2>1, <2>2, <2>3 DEF Operands
  <2>5. index + 1 < index'
        BY <1>1, <2>1 DEF Moved
  <2>. QED  BY <2>4, <2>5
<1>7. \A k \in Own : k \in Nat
      BY <1>1 DEF Own
<1>8. \A k \in Operands : k \in Nat
      BY <1>1, <1>7 DEF Operands
<1>. QED  BY <1>1, <1>2, <1>3, <1>4, <1>5, <1>6, <1>7, <1>8

\* An operand behind -- is the last argument, so one behind the scan is a word.
LEMMA DestinationIsWord ==
    ASSUME IInv, Scanning, NEW k \in OperandsBehind
    PROVE  args[k].text # Empty
<1>0. TypeOK /\ Positions = 1 .. Len(args) /\ Len(args) \in Nat /\ index \in Positions
      BY ArgumentsTyped, AtIndex DEF IInv
<1>1. k \in Positions /\ k < index
      BY DEF OperandsBehind, Operands, Own
<1>2. CASE args[k].shape = "word"
      BY <1>0, <1>1, <1>2, ArgumentsTyped
<1>3. CASE args[k].shape # "word"
  <2>1. Role[k] = "operand" /\ k - 1 \in Own
        BY <1>3 DEF OperandsBehind, Operands
  <2>2. k - 1 \in Positions /\ (k - 1) + 1 = k /\ k - 1 < index
        BY <1>0, <1>1, <2>1 DEF Own
  <2>3. Role[k] = After(args[k - 1], Role[k - 1])
        BY <1>0, <1>1, <2>2, RoleSteps
  <2>4. args[k - 1].shape = "--"
        BY <2>1, <2>3 DEF After
  <2>5. WellFormed(k - 1)
        BY <2>1, <2>2 DEF IInv, BehindIsWellFormed
  <2>6. k = Len(args)
        BY <2>2, <2>4, <2>5 DEF WellFormed
  <2>. QED  BY <1>0, <1>1, <2>6
<1>. QED  BY <1>2, <1>3

\* What the step has to do with the argument.
Understands ==
    /\ WellFormed(index)
    /\ value'["destination"] = IF Arg.shape = "word" THEN Arg.text
                               ELSE IF Arg.shape = "--" THEN args[index + 1].text
                               ELSE value["destination"]
    /\ Arg.shape \in {"word", "--"} => value["destination"] = Empty
    /\ \A o \in Options \ {"destination"} :
          value'[o] = IF Gives(index, o) THEN Given(index) ELSE value[o]

LEMMA ScanStep ==
    ASSUME IInv, Scanning, Moved, Understands,
           UNCHANGED <<args, phase, cfg, probes, replied, exit>>,
           value' \in [Options -> Texts], on' \subseteq Toggles \cup LongToggles
    PROVE  IInv'
<1>. USE MeaningStays
<1>a. TypeOK /\ ScanPosition /\ PhaseOrder
      BY DEF IInv
<1>b. /\ index \in Positions /\ ~ Asked /\ Role[index] = "own" /\ index \in Own
      /\ \A k \in 1 .. index - 1 : ~ Asks(k)
      BY AtIndex
<1>c. Positions = 1 .. Len(args) /\ Len(args) \in Nat /\ index \in Nat /\ index >= 1
      BY <1>a, ArgumentsTyped
<1>d. /\ index' \in 1 .. Len(args) + 1 /\ index < index'
      /\ \A k \in Own : k < index' => k < index \/ k = index
      BY NewBehind
<1>e. phase = "scan" /\ cfg = NoConfig /\ probes = 0 /\ ~ replied /\ exit = Running
      BY <1>a DEF TypeOK, PhaseOrder, Scanning
<1>f. \A k \in Own : k \in Nat
      BY <1>c DEF Own
<1>1. TypeOK'
      BY <1>a, <1>d DEF TypeOK
<1>2. BehindIsWellFormed'
  <2>1. \A k \in Own : k < index => WellFormed(k)
        BY DEF IInv, BehindIsWellFormed
  <2>2. \A k \in Own : k < index' => WellFormed(k)
        BY <1>d, <2>1 DEF Understands
  <2>. QED  BY <2>2 DEF BehindIsWellFormed
<1>3. BehindHasDestination'
  <2>0. \/ OperandsBehind = {} /\ value["destination"] = Empty
        \/ \E k \in OperandsBehind : /\ OperandsBehind = {k}
                                     /\ value["destination"] = args[k].text
        BY DEF IInv, BehindHasDestination
  <2>a. OperandsBehind' = {k \in Operands : k < index'}
        BY DEF OperandsBehind
  <2>b. \A k \in Operands : k \in Nat
        BY <1>c DEF Operands, Own
  <2>c. Arg.shape \in {"word", "--"} => OperandsBehind = {}
        BY <2>0, DestinationIsWord DEF Understands
  <2>1. CASE Arg.shape = "word"
    <3>1. OperandsBehind' = {index}
          BY <1>c, <1>d, <2>1, <2>a, <2>b, <2>c, NewBehind DEF OperandsBehind
    <3>2. value'["destination"] = args'[index].text
          BY <2>1 DEF Understands, Arg
    <3>. QED  BY <3>1, <3>2 DEF BehindHasDestination
  <2>2. CASE Arg.shape = "--"
    <3>1. OperandsBehind' = {index + 1}
          BY <1>c, <1>d, <2>2, <2>a, <2>b, <2>c, NewBehind DEF OperandsBehind
    <3>2. value'["destination"] = args'[index + 1].text
          BY <2>2 DEF Understands
    <3>. QED  BY <3>1, <3>2 DEF BehindHasDestination
  <2>3. CASE Arg.shape \notin {"word", "--"}
    <3>1. OperandsBehind' = OperandsBehind
          BY <1>c, <1>d, <2>3, <2>a, <2>b, NewBehind DEF OperandsBehind
    <3>2. value'["destination"] = value["destination"]
          BY <2>3 DEF Understands
    <3>. QED  BY <2>0, <3>1, <3>2 DEF BehindHasDestination
  <2>. QED  BY <2>1, <2>2, <2>3
<1>4. BehindGivesOptions'
  <2>. SUFFICES ASSUME NEW o \in Options \ {"destination"} PROVE LastGiven(o)'
       BY DEF BehindGivesOptions
  <2>1. LastGiven(o)
        BY DEF IInv, BehindGivesOptions
  <2>2. CASE Gives(index, o)
    <3>1. value'[o] = Given(index)
          BY <2>2 DEF Understands
    <3>2. \A j \in Own : j > index /\ j < index' => ~ Gives(j, o)
          BY <1>c, <1>d, <1>f
    <3>. QED  BY <1>b, <1>d, <2>2, <3>1, <3>2 DEF LastGiven
  <2>3. CASE ~ Gives(index, o)
    <3>1. value'[o] = value[o]
          BY <2>3 DEF Understands
    <3>2. \A j \in Own : j < index' /\ Gives(j, o) => j < index
          BY <1>d, <2>3
    <3>3. CASE value[o] = Empty /\ \A k \in Own : k < index => ~ Gives(k, o)
          BY <3>1, <3>2, <3>3 DEF LastGiven
    <3>4. CASE \E k \in Own : /\ k < index /\ Gives(k, o) /\ value[o] = Given(k)
                              /\ \A j \in Own : j > k /\ j < index => ~ Gives(j, o)
      <4>1. PICK k \in Own : /\ k < index /\ Gives(k, o) /\ value[o] = Given(k)
                             /\ \A j \in Own : j > k /\ j < index => ~ Gives(j, o)
            BY <3>4
      <4>2. k < index'
            BY <1>c, <1>d, <1>f, <4>1
      <4>. QED  BY <3>1, <3>2, <4>1, <4>2 DEF LastGiven
    <3>. QED  BY <2>1, <3>3, <3>4 DEF LastGiven
  <2>. QED  BY <2>2, <2>3
<1>5. ScanPosition'
  <2>1. ASSUME Asked' PROVE index' = Len(args) + 1 /\ Asks(index)
        BY <2>1 DEF Moved
  <2>2. ASSUME ~ Asked' PROVE \A k \in 1 .. index' - 1 : ~ Asks(k)
    <3>. SUFFICES ASSUME NEW k \in 1 .. index' - 1 PROVE ~ Asks(k)
         OBVIOUS
    <3>1. CASE k < index
          BY <1>b, <1>c, <3>1
    <3>2. CASE k = index
          BY <2>2, <3>2 DEF Moved
    <3>3. CASE k > index
      <4>1. k = index + 1 /\ TakesTwo /\ k \in Positions
            BY <1>c, <2>2, <3>3 DEF Moved
      <4>2. Role[k] # "own"
            BY <1>a, <1>b, <4>1, NextRoles
      <4>. QED  BY <4>2 DEF Asks
    <3>. QED  BY <1>c, <1>d, <3>1, <3>2, <3>3
  <2>3. ASSUME ~ Asked', index' \in Positions PROVE Role[index'] = "own"
        BY <1>a, <1>b, <2>3, NextRoles DEF Moved
  <2>. QED  BY <1>b, <2>1, <2>2, <2>3 DEF ScanPosition
<1>6. PhaseOrder'
      BY <1>e DEF PhaseOrder
<1>7. ScanFindsTheMeaning' /\ ConfigIsInDomain' /\ ExitStatusTellsThePhase'
  <2>1. phase' = "scan" /\ cfg' = NoConfig /\ probes' = 0 /\ exit' = -1
        BY <1>e DEF Running
  <2>2. ScanFindsTheMeaning'
        BY <2>1 DEF ScanFindsTheMeaning
  <2>3. ConfigIsInDomain'
        BY <2>1 DEF ConfigIsInDomain
  <2>4. ExitStatusTellsThePhase'
        BY <2>1 DEF ExitStatusTellsThePhase
  <2>. QED  BY <2>2, <2>3, <2>4
<1>. QED  BY <1>1, <1>2, <1>3, <1>4, <1>5, <1>6, <1>7 DEF IInv

\* An argument asks only by one of its two forms.
LEMMA AskForms ==
    ASSUME IInv, Scanning
    PROVE  Asks(index) <=>
             \/ Arg.shape = "long" /\ Arg.name \in {"help", "version"}
             \/ Arg.shape = "short" /\ Letters \cap {"h", "V"} # {}
BY AtIndex DEF Asks, Arg, Letters

LEMMA OptionNames ==
    /\ "destination" \in Options /\ "edition" \in Options
    /\ \A o \in Options \ {"destination", "edition"} : o \in ValueLetters
    /\ "destination" \notin Toggles \cup ValueLetters
    /\ "edition" \notin Toggles \cup ValueLetters /\ "edition" \notin LongToggles
    /\ Toggles \cap Options = {}
BY DEF Options, Toggles, ValueLetters, LongToggles

LEMMA WordSteps ==
    ASSUME IInv, ScanWord \/ ScanDashes
    PROVE  IInv'
<1>. USE DEF Goes, raw, outcome
<1>0. /\ Scanning /\ Arg.shape \in {"word", "--"} /\ value["destination"] = Empty
      /\ UNCHANGED <<args, on, phase, cfg, probes, replied, exit>>
      BY DEF ScanWord, ScanDashes
<1>1. /\ TypeOK /\ index \in Positions /\ ~ Asked
      /\ Positions = 1 .. Len(args) /\ Len(args) \in Nat /\ index \in Nat
      BY <1>0, AtIndex, ArgumentsTyped DEF IInv
<1>2. value \in [Options -> Texts] /\ on \subseteq Toggles \cup LongToggles
      BY <1>1 DEF TypeOK
<1>3. ~ Asks(index) /\ ~ Asked' /\ ~ TakesValue(Arg)
      BY <1>0, <1>1, AskForms DEF Asked, TakesValue, TakesNext
<1>4. \A o : ~ Gives(index, o)
      BY <1>0 DEF Gives, Arg
<1>5. CASE ScanWord
  <2>1. /\ Arg.shape = "word" /\ index' = index + 1
        /\ value' = [value EXCEPT !["destination"] = Arg.text]
        BY <1>5 DEF ScanWord
  <2>2. Moved
        BY <1>3, <2>1 DEF Moved, TakesTwo
  <2>3. Arg.text \in Texts
        BY <1>1, ArgumentsTyped DEF Arg
  <2>4. value' \in [Options -> Texts] /\ WellFormed(index)
        BY <1>2, <1>3, <2>1, <2>3 DEF WellFormed, Arg
  <2>5. Understands
        BY <1>0, <1>2, <1>4, <2>1, <2>4, OptionNames DEF Understands
  <2>. QED  BY <1>0, <1>2, <2>2, <2>4, <2>5, ScanStep
<1>6. CASE ScanDashes
  <2>1. /\ Arg.shape = "--" /\ index' = index + 2 /\ index + 1 = Len(args)
        /\ value' = [value EXCEPT !["destination"] = args[index + 1].text]
        BY <1>6 DEF ScanDashes
  <2>2. index + 1 \in Positions
        BY <1>1, <2>1
  <2>3. Moved
        BY <1>3, <2>1, <2>2 DEF Moved, TakesTwo
  <2>4. args[index + 1].text \in Texts
        BY <1>1, <2>2, ArgumentsTyped
  <2>5. value' \in [Options -> Texts] /\ WellFormed(index)
        BY <1>2, <1>3, <2>1, <2>4 DEF WellFormed, Arg
  <2>6. Understands
        BY <1>0, <1>2, <1>4, <2>1, <2>5, OptionNames DEF Understands
  <2>. QED  BY <1>0, <1>2, <2>3, <2>5, <2>6, ScanStep
<1>. QED  BY <1>5, <1>6

LEMMA LongSteps ==
    ASSUME IInv, ScanLongToggle \/ ScanEdition
    PROVE  IInv'
<1>. USE DEF Goes, raw, outcome
<1>0. /\ Scanning /\ Arg.shape = "long"
      /\ UNCHANGED <<args, phase, cfg, probes, replied, exit>>
      BY DEF ScanLongToggle, ScanEdition
<1>1. /\ TypeOK /\ index \in Positions /\ ~ Asked
      /\ Positions = 1 .. Len(args) /\ Len(args) \in Nat /\ index \in Nat
      BY <1>0, AtIndex, ArgumentsTyped DEF IInv
<1>2. value \in [Options -> Texts] /\ on \subseteq Toggles \cup LongToggles
      BY <1>1 DEF TypeOK
<1>3. /\ TakesValue(Arg) <=> Arg.name = "edition" /\ ~ Arg.inline
      /\ TakesTwo <=> TakesValue(Arg)
      /\ Asks(index) <=> Arg.name \in {"help", "version"}
      BY <1>0, AskForms DEF TakesValue, TakesNext, TakesTwo
<1>4. \A o \in Options : Gives(index, o) <=> o = "edition" /\ Arg.name = "edition"
      BY <1>0 DEF Gives, Arg
<1>5. CASE ScanLongToggle
  <2>1. /\ Arg.name \in LongToggles /\ ~ Arg.inline
        /\ on' = on \cup {LongName} /\ value' = value
        /\ index' = IF Asked' THEN Len(args) + 1 ELSE index + 1
        BY <1>5 DEF ScanLongToggle, AfterFlags, Asked
  <2>2. /\ LongName \in Toggles \cup LongToggles
        /\ LongName \in {"h", "V"} <=> Arg.name \in {"help", "version"}
        BY <2>1 DEF LongName, LongToggles, Toggles
  <2>3. Asked' <=> Asks(index)
        BY <1>1, <1>3, <2>1, <2>2 DEF Asked
  <2>4. Arg.name # "edition"
        BY <2>1, OptionNames
  <2>5. Moved
        BY <1>3, <2>1, <2>3, <2>4 DEF Moved
  <2>6. WellFormed(index)
        BY <1>0, <1>3, <2>1, <2>4 DEF WellFormed, Arg
  <2>7. Understands
        BY <1>0, <1>4, <2>1, <2>4, <2>6 DEF Understands
  <2>. QED  BY <1>0, <1>2, <2>1, <2>2, <2>5, <2>7, ScanStep
<1>6. CASE ScanEdition
  <2>1. PICK given : /\ given = IF Arg.inline THEN Arg.attached ELSE args[index + 1].text
                     /\ given.kind \notin {"empty", "blank"}
                     /\ value' = [value EXCEPT !["edition"] = given]
        BY <1>6 DEF ScanEdition
  <2>2. /\ Arg.name = "edition" /\ on' = on /\ (Arg.inline \/ HasNext)
        /\ index' = IF Arg.inline THEN index + 1 ELSE index + 2
        BY <1>6 DEF ScanEdition
  <2>3. ~ Arg.inline => index + 1 \in Positions
        BY <1>1, <2>2 DEF HasNext
  <2>4. given = Given(index) /\ given \in Texts
    <3>1. given = Given(index)
          BY <1>3, <2>1, <2>2 DEF Given, Arg
    <3>2. Arg.attached \in Texts
          BY <1>1, ArgumentsTyped DEF Arg
    <3>3. ~ Arg.inline => args[index + 1].text \in Texts
          BY <1>1, <2>3, ArgumentsTyped
    <3>. QED  BY <2>1, <3>1, <3>2, <3>3
  <2>5. Moved
        BY <1>1, <1>3, <2>2, <2>3 DEF Moved, Asked
  <2>6. WellFormed(index)
    <3>1. TakesValue(Arg) => index < Len(args)
          BY <1>1, <1>3, <2>3
    <3>. QED  BY <1>0, <2>1, <2>2, <2>4, <3>1 DEF WellFormed, Arg
  <2>7. value' \in [Options -> Texts]
        BY <1>2, <2>1, <2>4
  <2>8. Understands
    <3>1. \A o \in Options : value'[o] = IF o = "edition" THEN given ELSE value[o]
          BY <1>2, <2>1
    <3>. QED  BY <1>0, <1>4, <2>2, <2>4, <2>6, <3>1, OptionNames DEF Understands
  <2>. QED  BY <1>0, <1>2, <2>2, <2>5, <2>7, <2>8, ScanStep
<1>. QED  BY <1>5, <1>6

LEMMA ShortStep ==
    ASSUME IInv, ScanShort
    PROVE  IInv'
<1>. USE DEF Goes, raw, outcome
<1>0. /\ Scanning /\ Arg.shape = "short" /\ Letters \subseteq Toggles \cup ValueLetters
      /\ TakesNext(Arg) => HasNext
      /\ on' = on \cup (Letters \cap Toggles)
      /\ UNCHANGED <<args, phase, cfg, probes, replied, exit>>
      BY DEF ScanShort
<1>1. /\ TypeOK /\ index \in Positions /\ ~ Asked
      /\ Positions = 1 .. Len(args) /\ Len(args) \in Nat /\ index \in Nat
      BY <1>0, AtIndex, ArgumentsTyped DEF IInv
<1>2. value \in [Options -> Texts] /\ on \subseteq Toggles \cup LongToggles
      BY <1>1 DEF TypeOK
<1>3. /\ TakesValue(Arg) <=> TakesNext(Arg)
      /\ TakesTwo <=> TakesNext(Arg)
      /\ Asks(index) <=> Letters \cap {"h", "V"} # {}
      BY <1>0, AskForms DEF TakesValue, TakesTwo
<1>4. TakesNext(Arg) => index + 1 \in Positions
      BY <1>0, <1>1 DEF HasNext
<1>5. Asked' <=> Asks(index)
  <2>1. {"h", "V"} \subseteq Toggles
        BY DEF Toggles
  <2>. QED  BY <1>0, <1>1, <1>3, <2>1 DEF Asked
<1>6. index' = IF Asked' THEN Len(args) + 1 ELSE IF TakesNext(Arg) THEN index + 2 ELSE index + 1
      BY DEF ScanShort, AfterFlags, Asked
<1>7. Moved
      BY <1>3, <1>4, <1>5, <1>6 DEF Moved
<1>8. Given(index) = IF TakesNext(Arg) THEN args[index + 1].text ELSE Arg.attached
      BY <1>3 DEF Given, Arg
<1>9. value' = [o \in Options |-> IF o \notin Letters THEN value[o] ELSE Given(index)]
      BY <1>8 DEF ScanShort
<1>10. Given(index) \in Texts
  <2>1. Arg.attached \in Texts
        BY <1>1, ArgumentsTyped DEF Arg
  <2>2. TakesNext(Arg) => args[index + 1].text \in Texts
        BY <1>1, <1>4, ArgumentsTyped
  <2>. QED  BY <1>8, <2>1, <2>2
<1>11. value' \in [Options -> Texts] /\ on' \subseteq Toggles \cup LongToggles
      BY <1>0, <1>2, <1>9, <1>10
<1>12. \A o \in Options : Gives(index, o) <=> o \in Letters
  <2>1. "edition" \notin Letters
        BY <1>0, OptionNames
  <2>. QED  BY <1>0, <2>1 DEF Gives, Arg, Letters
<1>13. WellFormed(index)
  <2>1. TakesValue(Arg) => index < Len(args)
        BY <1>1, <1>3, <1>4
  <2>. QED  BY <1>0, <2>1 DEF WellFormed, Arg, Letters
<1>14. Understands
  <2>1. "destination" \notin Letters
        BY <1>0, OptionNames
  <2>. QED  BY <1>0, <1>9, <1>12, <1>13, <2>1, OptionNames DEF Understands
<1>. QED  BY <1>0, <1>7, <1>11, <1>14, ScanStep

-----------------------------------------------------------------------------
(* The end of the scan *)

\* The arguments' meaning, found, whichever phase follows.
ScanFacts == BehindIsWellFormed /\ BehindHasDestination /\ BehindGivesOptions /\ ScanPosition

LEMMA ScanFactsStay ==
    ASSUME IInv, UNCHANGED <<args, index, on, value>>
    PROVE  ScanFacts' /\ (Asked' <=> Asked)
<1>. USE MeaningStays
<1>0. OperandsBehind' = OperandsBehind /\ (Asked' <=> Asked)
      BY DEF OperandsBehind, Asked
<1>1. BehindIsWellFormed'
      BY DEF IInv, BehindIsWellFormed
<1>2. BehindHasDestination'
      BY <1>0 DEF IInv, BehindHasDestination
<1>3. BehindGivesOptions'
      BY DEF IInv, BehindGivesOptions, LastGiven
<1>4. ScanPosition'
      BY <1>0 DEF IInv, ScanPosition
<1>. QED  BY <1>0, <1>1, <1>2, <1>3, <1>4 DEF ScanFacts

LEMMA OperandsFinite ==
    ASSUME TypeOK
    PROVE  /\ IsFiniteSet(Operands)
           /\ \A k \in Operands : k \in Positions
<1>1. Operands \subseteq 1 .. Len(args) /\ Positions = 1 .. Len(args) /\ Len(args) \in Nat
      BY ArgumentsTyped DEF Operands, Own
<1>2. IsFiniteSet(1 .. Len(args))
      BY <1>1, FS_Interval
<1>. QED  BY <1>1, <1>2, FS_Subset

\* Two operands are too many.
LEMMA OneOperand ==
    ASSUME TypeOK, Understood, NEW j \in Operands, NEW k \in Operands
    PROVE  j = k
<1>. SUFFICES ASSUME j # k PROVE FALSE
     OBVIOUS
<1>1. IsFiniteSet({j}) /\ Cardinality({j}) = 1
      BY FS_Singleton
<1>2. Cardinality({j} \cup {k}) = 2
      BY <1>1, FS_AddElement
<1>3. {j} \cup {k} \subseteq Operands
      OBVIOUS
<1>4. Cardinality({j} \cup {k}) <= Cardinality(Operands)
      BY <1>3, OperandsFinite, FS_Subset
<1>5. Cardinality(Operands) \in Nat /\ Cardinality(Operands) <= 1
      BY OperandsFinite, FS_CardinalityType DEF Understood
<1>. QED  BY <1>2, <1>4, <1>5

LEMMA EverythingBehind ==
    ASSUME IInv, index = Len(args) + 1
    PROVE  /\ Understood
           /\ \A k \in Operands : value["destination"] = args[k].text
           /\ \A o \in Options \ {"destination"} :
                 \/ value[o] = Empty /\ \A k \in Own : ~ Gives(k, o)
                 \/ \E k \in Own : /\ Gives(k, o) /\ value[o] = Given(k)
                                   /\ \A j \in Own : j > k => ~ Gives(j, o)
           /\ value["destination"] # Empty => Cardinality(Operands) = 1
           /\ ~ Asked => \A k \in Own : ~ Asks(k)
<1>0. TypeOK /\ Len(args) \in Nat /\ Positions = 1 .. Len(args)
      BY ArgumentsTyped DEF IInv
<1>1. (\A k \in Own : k \in Positions /\ k < index) /\ (\A k \in Operands : k < index)
      BY <1>0, OperandsFinite DEF Own
<1>2. OperandsBehind = Operands
      BY <1>1 DEF OperandsBehind
<1>3. \A k \in Own : WellFormed(k)
      BY <1>1 DEF IInv, BehindIsWellFormed
<1>4. CASE Operands = {} /\ value["destination"] = Empty
  <2>1. Cardinality(Operands) = 0
        BY <1>4, FS_EmptySet
  <2>. QED
    <3>1. Understood
          BY <1>3, <2>1 DEF Understood
    <3>2. \A k \in Operands : value["destination"] = args[k].text
          BY <1>4
    <3>3. \A o \in Options \ {"destination"} : LastGiven(o)
          BY DEF IInv, BehindGivesOptions
    <3>4. ~ Asked => \A k \in Own : ~ Asks(k)
          BY <1>0, <1>1 DEF IInv, ScanPosition
    <3>. QED  BY <1>1, <1>4, <3>1, <3>2, <3>3, <3>4 DEF LastGiven
<1>5. CASE \E k \in Operands : Operands = {k} /\ value["destination"] = args[k].text
  <2>1. PICK k \in Operands : Operands = {k} /\ value["destination"] = args[k].text
        BY <1>5
  <2>2. Cardinality(Operands) = 1
        BY <2>1, FS_Singleton
  <2>3. Understood
        BY <1>3, <2>2 DEF Understood
  <2>4. \A o \in Options \ {"destination"} : LastGiven(o)
        BY DEF IInv, BehindGivesOptions
  <2>5. ~ Asked => \A j \in Own : ~ Asks(j)
        BY <1>0, <1>1 DEF IInv, ScanPosition
  <2>. QED  BY <1>1, <2>1, <2>2, <2>3, <2>4, <2>5 DEF LastGiven
<1>. QED  BY <1>2, <1>4, <1>5 DEF IInv, BehindHasDestination

\* The scan refuses no command line that has a meaning.
LEMMA RejectedIsMeaningless ==
    ASSUME IInv, ScanRejects
    PROVE  ~ Understood
<1>. SUFFICES ASSUME Understood PROVE FALSE
     OBVIOUS
<1>0. Scanning /\ TypeOK
      BY DEF ScanRejects, IInv
<1>1. /\ index \in Positions /\ index \in Own /\ Role[index] = "own"
      /\ Positions = 1 .. Len(args) /\ Len(args) \in Nat /\ index \in Nat
      BY <1>0, AtIndex, ArgumentsTyped
<1>2. WellFormed(index)
      BY <1>1 DEF Understood
<1>3. Arg = args[index]
      BY DEF Arg
<1>4. value["destination"] # Empty => \E k \in Operands : k < index
      BY DEF IInv, BehindHasDestination, OperandsBehind
<1>5. CASE Arg.shape = "empty"
      BY <1>2, <1>3, <1>5 DEF WellFormed
<1>6. CASE Arg.shape = "word" /\ value["destination"] # Empty
  <2>1. index \in Operands
        BY <1>1, <1>3, <1>6 DEF Operands
  <2>2. PICK k \in Operands : k < index
        BY <1>4, <1>6
  <2>3. k = index
        BY <1>0, <2>1, <2>2, OneOperand
  <2>. QED  BY <1>1, <2>2, <2>3
<1>7. CASE Arg.shape = "--" /\ (value["destination"] # Empty \/ index + 1 # Len(args))
  <2>1. index + 1 = Len(args)
        BY <1>2, <1>3, <1>7 DEF WellFormed
  <2>2. PICK k \in Operands : k < index
        BY <1>4, <1>7, <2>1
  <2>3. index + 1 \in Positions /\ (index + 1) - 1 = index
        BY <1>1, <2>1
  <2>4. Role[index + 1] = "operand"
        BY <1>0, <1>1, <1>7, <2>3, NextRoles
  <2>5. index + 1 \in Operands
        BY <1>1, <2>3, <2>4 DEF Operands
  <2>6. k = index + 1
        BY <1>0, <2>2, <2>5, OneOperand
  <2>. QED  BY <1>1, <2>2, <2>6
<1>8. CASE Arg.shape = "long" /\ Arg.name \notin LongToggles \cup {"edition"}
      BY <1>2, <1>3, <1>8 DEF WellFormed
<1>9. CASE Arg.shape = "long" /\ Arg.name \in LongToggles /\ Arg.inline
      BY <1>2, <1>3, <1>9, OptionNames DEF WellFormed
<1>10. CASE /\ Arg.shape = "long" /\ Arg.name = "edition"
            /\ IF Arg.inline THEN Arg.attached.kind \in {"empty", "blank"}
               ELSE HasNext => args[index + 1].text.kind \in {"empty", "blank"}
  <2>1. TakesValue(Arg) <=> ~ Arg.inline
        BY <1>10 DEF TakesValue, TakesNext
  <2>2. Given(index).kind \notin {"empty", "blank"}
        BY <1>2, <1>3, <1>10, OptionNames DEF WellFormed
  <2>3. Given(index) = IF Arg.inline THEN Arg.attached ELSE args[index + 1].text
        BY <1>3, <2>1 DEF Given
  <2>4. ~ Arg.inline => index < Len(args)
        BY <1>2, <1>3, <2>1 DEF WellFormed
  <2>5. ~ Arg.inline => HasNext
        BY <1>1, <2>4 DEF HasNext
  <2>. QED  BY <1>10, <2>2, <2>3, <2>5
<1>11. CASE Arg.shape = "short" /\ ~ (Letters \subseteq Toggles \cup ValueLetters)
      BY <1>2, <1>3, <1>11 DEF WellFormed, Letters
<1>12. CASE TakesNext(Arg) /\ ~ HasNext
  <2>1. index < Len(args)
        BY <1>2, <1>3, <1>12 DEF WellFormed, TakesValue
  <2>. QED  BY <1>1, <1>12, <2>1 DEF HasNext
<1>. QED  BY <1>5, <1>6, <1>7, <1>8, <1>9, <1>10, <1>11, <1>12 DEF ScanRejects

-----------------------------------------------------------------------------
(* normalizeCLIConfig *)

LEMMA Division ==
    ASSUME NEW n \in Int, NEW d \in Nat \ {0}
    PROVE  /\ n \div d \in Int
           /\ (n \div d) * d <= n /\ n < ((n \div d) + 1) * d
OBVIOUS

LEMMA DivisionBound ==
    ASSUME NEW q \in Int, NEW n \in Int, NEW m \in Nat, NEW d \in Nat \ {0},
           q * d <= n, n <= m * d
    PROVE  q <= m
<1>. SUFFICES ASSUME q >= m + 1 PROVE FALSE
     OBVIOUS
<1>1. q * d >= (m + 1) * d
      OBVIOUS
<1>2. (m + 1) * d = m * d + d
      OBVIOUS
<1>3. q * d \in Int /\ m * d \in Int /\ (m + 1) * d \in Int
      OBVIOUS
<1>. QED  BY <1>1, <1>2, <1>3

LEMMA Durations ==
    ASSUME NEW t \in Texts, ValidDuration(t)
    PROVE  /\ Nanoseconds(t) \in Nat /\ Nanoseconds(t) > 0 /\ Nanoseconds(t) <= MaxInt
           /\ Nanoseconds(t) * t.den <= t.num * NanosPerSecond
           /\ t.num * NanosPerSecond < (Nanoseconds(t) + 1) * t.den
<1>1. t.num \in Int /\ t.den \in Nat \ {0}
      BY DEF Texts
<1>2. NanosPerSecond \in Nat /\ MaxInt \in Nat
      BY ScaleAssumption
<1>3. PICK n \in Int : n = t.num * NanosPerSecond
      BY <1>1, <1>2
<1>4. Nanoseconds(t) = n \div t.den
      BY <1>3 DEF Nanoseconds
<1>5. n <= MaxInt * t.den /\ Nanoseconds(t) > 0
      BY <1>3 DEF ValidDuration
<1>6. /\ Nanoseconds(t) \in Int
      /\ Nanoseconds(t) * t.den <= n /\ n < (Nanoseconds(t) + 1) * t.den
      BY <1>1, <1>4, Division
<1>7. Nanoseconds(t) <= MaxInt
      BY <1>1, <1>2, <1>5, <1>6, DivisionBound
<1>. QED  BY <1>3, <1>5, <1>6, <1>7

LEMMA ConfigFromOptions ==
    ASSUME IInv, phase = "normalize", Acceptable
    PROVE  /\ Config \in Configs /\ value["destination"] # Empty
           /\ cfg' = Config /\ UNCHANGED value => ConfigIsInDomain'
<1>0. value \in [Options -> Texts]
      BY DEF IInv, TypeOK
<1>1. {"c", "i", "w", "W", "destination"} \subseteq Options
      BY DEF Options, ValueLetters
<1>2. \A o \in {"i", "w", "W"} : value[o] # Empty => ValidDuration(value[o])
      BY DEF Acceptable
<1>3. ASSUME NEW o \in {"i", "w", "W"}, value[o] # Empty
      PROVE  /\ Nanoseconds(value[o]) \in Nat /\ Nanoseconds(value[o]) > 0
             /\ Nanoseconds(value[o]) <= MaxInt
             /\ Nanoseconds(value[o]) * value[o].den <= value[o].num * NanosPerSecond
             /\ value[o].num * NanosPerSecond < (Nanoseconds(value[o]) + 1) * value[o].den
      BY <1>0, <1>1, <1>2, <1>3, Durations
<1>4. /\ NanosPerSecond \in Nat /\ NanosPerSecond > 0 /\ MaxInt \in Nat /\ MaxTimeout \in Nat
      /\ 5 * NanosPerSecond <= MaxTimeout /\ MaxTimeout <= MaxInt
      BY ScaleAssumption
<1>5. /\ Config.interval = IF value["i"] = Empty THEN NanosPerSecond ELSE Nanoseconds(value["i"])
      /\ Config.deadline = IF value["w"] = Empty THEN 0 ELSE Nanoseconds(value["w"])
      /\ Config.timeout = IF value["W"] = Empty THEN 5 * NanosPerSecond ELSE Nanoseconds(value["W"])
      BY DEF Config, Duration
<1>6. /\ Config.interval \in Nat /\ Config.interval > 0 /\ Config.interval <= MaxInt
      /\ Config.deadline \in Nat /\ Config.deadline <= MaxInt
      BY <1>3, <1>4, <1>5
<1>7. Config.timeout \in 1 .. MaxTimeout /\ Config.timeout <= MaxInt
  <2>1. value["W"] # Empty => Nanoseconds(value["W"]) <= MaxTimeout
        BY DEF Acceptable
  <2>. QED  BY <1>3, <1>4, <1>5, <2>1
<1>8. Config.count = (IF value["c"] = Empty THEN 0 ELSE value["c"].num) /\ Config.count \in Nat
  <2>1. value["c"] # Empty => value["c"].num > 0
        BY DEF Acceptable, ValidCount
  <2>2. value["c"].num \in Int
        BY <1>0, <1>1 DEF Texts
  <2>3. Config.count = IF value["c"] = Empty THEN 0 ELSE value["c"].num
        BY DEF Config
  <2>. QED  BY <2>1, <2>2, <2>3
<1>9. Config \in Configs
  <2>1. /\ Config = [edition |-> Config.edition, family |-> Config.family,
                     private |-> Config.private, json |-> Config.json, count |-> Config.count,
                     interval |-> Config.interval, deadline |-> Config.deadline,
                     timeout |-> Config.timeout]
        /\ Config.edition \in {"java", "bedrock"} /\ Config.family \in SUBSET {"4", "6"}
        /\ Config.private \in BOOLEAN /\ Config.json \in BOOLEAN
        BY DEF Config
  <2>2. Config.timeout \in Nat
        BY <1>4, <1>7
  <2>. QED  BY <1>6, <1>8, <2>1, <2>2 DEF Configs
<1>10. value["destination"] # Empty
      BY DEF Acceptable, ValidDestination, Parsed, Empty
<1>11. Config.json => Config.count = 0 /\ Config.deadline = 0 /\ Config.interval = NanosPerSecond
  <2>1. Config.json => "j" \in on
        BY DEF Config
  <2>. QED  BY <1>5, <1>8, <2>1 DEF Acceptable, JSONAlone
<1>12. ASSUME cfg' = Config, UNCHANGED value PROVE ConfigIsInDomain'
  <2>. DEFINE d(o) == CASE o = "i" -> cfg'.interval [] o = "w" -> cfg'.deadline
                        [] o = "W" -> cfg'.timeout
  <2>1. ASSUME NEW o \in {"i", "w", "W"}, value'[o] # Empty
        PROVE  /\ d(o) * value'[o].den <= value'[o].num * NanosPerSecond
               /\ value'[o].num * NanosPerSecond < (d(o) + 1) * value'[o].den
    <3>1. value[o] # Empty
          BY <1>12, <2>1
    <3>2. d(o) = Nanoseconds(value[o])
          BY <1>5, <1>12, <3>1
    <3>. QED  BY <1>3, <1>12, <3>1, <3>2
  <2>2. \A e \in {cfg'.interval, cfg'.deadline, cfg'.timeout} : e <= MaxInt
        BY <1>6, <1>7, <1>12
  <2>3. cfg'.interval > 0 /\ cfg'.timeout \in 1 .. MaxTimeout
        BY <1>6, <1>7, <1>12
  <2>4. cfg'.json => cfg'.count = 0 /\ cfg'.deadline = 0 /\ cfg'.interval = NanosPerSecond
        BY <1>11, <1>12
  <2>. QED  BY <2>1, <2>2, <2>3, <2>4, Zenon DEF ConfigIsInDomain
<1>. QED  BY <1>9, <1>10, <1>12

-----------------------------------------------------------------------------
(* The phases after the scan *)

LEMMA LaterStep ==
    ASSUME IInv, UNCHANGED <<args, index, on, value>>, TypeOK', PhaseOrder',
           ScanFindsTheMeaning', ConfigIsInDomain', ExitStatusTellsThePhase'
    PROVE  IInv'
BY ScanFactsStay DEF IInv, ScanFacts

LEMMA ConfigStays ==
    ASSUME IInv, UNCHANGED <<cfg, value>>
    PROVE  ConfigIsInDomain'
BY DEF IInv, ConfigIsInDomain

\* A step to status 2: nothing has been sent.
LEMMA FailingStep ==
    ASSUME IInv, Exits(2), phase # "exited", index <= Len(args) => ~ Understood
    PROVE  IInv'
<1>1. /\ UNCHANGED <<args, index, on, value, cfg, probes, replied>>
      /\ phase' = "exited" /\ exit' = 2
      BY DEF Exits, raw, outcome
<1>2. TypeOK'
      BY <1>1 DEF IInv, TypeOK, Running
<1>3. probes = 0
      BY DEF IInv, PhaseOrder
<1>4. PhaseOrder'
      BY <1>1 DEF PhaseOrder
<1>5. ScanFindsTheMeaning' /\ ExitStatusTellsThePhase'
      BY <1>1, <1>3, MeaningStays DEF ScanFindsTheMeaning, ExitStatusTellsThePhase
<1>6. ConfigIsInDomain'
      BY <1>1, ConfigStays
<1>. QED  BY <1>1, <1>2, <1>4, <1>5, <1>6, LaterStep

LEMMA RejectingSteps ==
    ASSUME IInv, ScanRejects \/ NormalizeRejects \/ PrepareFails
    PROVE  IInv'
<1>0. TypeOK /\ Len(args) \in Nat
      BY ArgumentsTyped DEF IInv
<1>1. CASE ScanRejects
      BY <1>1, RejectedIsMeaningless, FailingStep DEF ScanRejects, Scanning
<1>2. CASE NormalizeRejects \/ PrepareFails
  <2>1. phase \in {"normalize", "prepare"} /\ Exits(2)
        BY <1>2 DEF NormalizeRejects, PrepareFails
  <2>2. index = Len(args) + 1
        BY <2>1 DEF IInv, PhaseOrder
  <2>. QED  BY <1>0, <2>1, <2>2, FailingStep
<1>. QED  BY <1>1, <1>2

LEMMA EndStep ==
    ASSUME IInv, ScanEnds
    PROVE  IInv'
<1>1. /\ UNCHANGED <<args, index, on, value, cfg, probes, replied>>
      /\ phase = "scan" /\ index > Len(args)
      /\ IF Asked THEN phase' = "exited" /\ exit' = 0 ELSE phase' = "normalize" /\ exit' = exit
      BY DEF ScanEnds, Exits, raw, outcome, Asked
<1>2. /\ TypeOK /\ Len(args) \in Nat /\ index \in 1 .. Len(args) + 1
      /\ cfg = NoConfig /\ probes = 0 /\ ~ replied /\ exit = Running
      BY <1>1, ArgumentsTyped DEF IInv, TypeOK, PhaseOrder
<1>3. index = Len(args) + 1
      BY <1>1, <1>2
<1>4. TypeOK'
      BY <1>1, <1>2 DEF TypeOK, Running
<1>5. PhaseOrder'
      BY <1>1, <1>2, <1>3, ScanFactsStay DEF PhaseOrder
<1>6. ScanFindsTheMeaning'
  <2>1. ~ (exit' = 2)
        BY <1>1, <1>2 DEF Running
  <2>. QED  BY <1>1, <1>3, <2>1, EverythingBehind, MeaningStays DEF ScanFindsTheMeaning
<1>7. ExitStatusTellsThePhase'
  <2>1. exit' = 0 => Understood /\ \E k \in Own : Asks(k)
        BY <1>1, <1>2, <1>3, EverythingBehind DEF IInv, ScanPosition, Running
  <2>. QED  BY <1>1, <1>2, <2>1, MeaningStays DEF ExitStatusTellsThePhase
<1>. QED  BY <1>1, <1>4, <1>5, <1>6, <1>7, ConfigStays, LaterStep

LEMMA NormalizeSteps ==
    ASSUME IInv, Normalize \/ Prepared
    PROVE  IInv'
<1>0. /\ UNCHANGED <<args, index, on, value, probes, replied, exit>>
      /\ phase \in {"normalize", "prepare"} /\ phase' \in {"prepare", "json", "session"}
      BY DEF Normalize, Prepared, raw, outcome
<1>1. /\ TypeOK /\ index = Len(args) + 1 /\ ~ Asked /\ probes = 0 /\ ~ replied /\ exit = Running
      BY <1>0 DEF IInv, TypeOK, PhaseOrder
<1>2. cfg' \in Configs \cup {NoConfig} /\ value["destination"] # Empty /\ ConfigIsInDomain'
  <2>1. CASE Normalize
        BY <1>0, <2>1, ConfigFromOptions DEF Normalize
  <2>2. CASE Prepared
    <3>1. phase = "prepare" /\ cfg' = cfg
          BY <2>2 DEF Prepared
    <3>. QED  BY <1>0, <3>1, ConfigStays DEF IInv, TypeOK, PhaseOrder
  <2>. QED  BY <2>1, <2>2
<1>3. TypeOK'
      BY <1>0, <1>1, <1>2 DEF TypeOK
<1>4. PhaseOrder'
      BY <1>0, <1>1, <1>2, ScanFactsStay DEF PhaseOrder
<1>5. ScanFindsTheMeaning' /\ ExitStatusTellsThePhase'
      BY <1>0, <1>1 DEF ScanFindsTheMeaning, ExitStatusTellsThePhase, Running
<1>. QED  BY <1>0, <1>2, <1>3, <1>4, <1>5, LaterStep

LEMMA ProbeSteps ==
    ASSUME IInv, JSONProbe \/ TextSession
    PROVE  IInv'
<1>1. /\ UNCHANGED <<args, index, on, value, cfg>>
      /\ phase \in {"json", "session"} /\ phase' = "exited"
      /\ probes' \in 0 .. 2 /\ replied' \in BOOLEAN
      /\ exit' \in {0, 1} /\ (exit' = 0 => replied')
      BY DEF JSONProbe, TextSession, raw
<1>2. TypeOK /\ index = Len(args) + 1 /\ ~ Asked /\ value["destination"] # Empty
      BY <1>1 DEF IInv, PhaseOrder
<1>3. TypeOK'
      BY <1>1, <1>2 DEF TypeOK, Running
<1>4. PhaseOrder'
      BY <1>1 DEF PhaseOrder
<1>5. ScanFindsTheMeaning'
      BY <1>1 DEF ScanFindsTheMeaning
<1>6. ExitStatusTellsThePhase'
      BY <1>1, <1>2, EverythingBehind, MeaningStays DEF ExitStatusTellsThePhase
<1>. QED  BY <1>1, <1>3, <1>4, <1>5, <1>6, ConfigStays, LaterStep

LEMMA InitEstablishes == Init => IInv
<1>. SUFFICES ASSUME Init PROVE IInv
     OBVIOUS
<1>1. /\ args \in ArgLists /\ index = 1 /\ on = {} /\ phase = "scan" /\ cfg = NoConfig
      /\ value = [o \in Options |-> Empty] /\ probes = 0 /\ replied = FALSE /\ exit = Running
      BY DEF Init
<1>2. Len(args) \in Nat
      BY <1>1, ArgsAssumption
<1>3. Empty \in Texts
      BY DEF Empty, Texts, Kinds
<1>4. TypeOK
  <2>1. index \in 1 .. Len(args) + 1 /\ probes \in 0 .. 2
        BY <1>1, <1>2
  <2>2. value \in [Options -> Texts]
        BY <1>1, <1>3
  <2>. QED  BY <1>1, <2>1, <2>2, Zenon DEF TypeOK
<1>5. (\A k \in Own : ~ (k < index)) /\ OperandsBehind = {}
  <2>1. \A k \in Positions : ~ (k < index)
        BY <1>1, <1>2 DEF Positions
  <2>. QED  BY <2>1 DEF Own, Operands, OperandsBehind
<1>6. BehindIsWellFormed /\ BehindHasDestination /\ BehindGivesOptions
      BY <1>1, <1>5, OptionNames DEF BehindIsWellFormed, BehindHasDestination, BehindGivesOptions, LastGiven
<1>7. ScanPosition
      BY <1>1, <1>4, RoleSteps DEF ScanPosition, Asked
<1>8. PhaseOrder
      BY <1>1 DEF PhaseOrder
<1>9. ScanFindsTheMeaning /\ ConfigIsInDomain /\ ExitStatusTellsThePhase
      BY <1>1 DEF ScanFindsTheMeaning, ConfigIsInDomain, ExitStatusTellsThePhase, Running
<1>. QED  BY <1>4, <1>6, <1>7, <1>8, <1>9 DEF IInv

LEMMA Stuttering ==
    ASSUME IInv, UNCHANGED vars
    PROVE  IInv'
<1>1. UNCHANGED <<args, index, on, value, phase, cfg, probes, replied, exit>>
      BY DEF vars
<1>2. TypeOK'
      BY <1>1 DEF IInv, TypeOK
<1>3. PhaseOrder'
      BY <1>1, ScanFactsStay DEF IInv, PhaseOrder
<1>4. ScanFindsTheMeaning' /\ ExitStatusTellsThePhase'
      BY <1>1, MeaningStays DEF IInv, ScanFindsTheMeaning, ExitStatusTellsThePhase
<1>. QED  BY <1>1, <1>2, <1>3, <1>4, ConfigStays, LaterStep

LEMMA Inductive == IInv /\ [Next]_vars => IInv'
BY WordSteps, LongSteps, ShortStep, RejectingSteps, EndStep, NormalizeSteps, ProbeSteps,
   Stuttering DEF Next

-----------------------------------------------------------------------------
\* The command line is type-correct for any arguments and any limits
\* (cli.go:109-477).
THEOREM TypeCorrect == Spec => []TypeOK
<1>1. IInv => TypeOK
      BY DEF IInv
<1>. QED  BY <1>1, InitEstablishes, Inductive, PTL DEF Spec

\* For argument lists of any length the scan refuses exactly those without a
\* meaning, and finds the meaning of the others (cli.go:122-282).
THEOREM ScanIsRight == Spec => []ScanFindsTheMeaning
<1>1. IInv => ScanFindsTheMeaning
      BY DEF IInv
<1>. QED  BY <1>1, InitEstablishes, Inductive, PTL DEF Spec

\* For any texts and any limits, every duration of a configuration is within
\* its limit and is the one asked for, cut to a nanosecond (cli.go:345-408).
THEOREM ConfigInDomain == Spec => []ConfigIsInDomain
<1>1. IInv => ConfigIsInDomain
      BY DEF IInv
<1>. QED  BY <1>1, InitEstablishes, Inductive, PTL DEF Spec

\* For argument lists of any length the exit status tells how far the program
\* came, and a probe goes out only for an understood command line with one
\* destination (cli.go:422-477).
THEOREM ExitTellsThePhase == Spec => []ExitStatusTellsThePhase
<1>1. IInv => ExitStatusTellsThePhase
      BY DEF IInv
<1>. QED  BY <1>1, InitEstablishes, Inductive, PTL DEF Spec

-----------------------------------------------------------------------------
(* The inductive invariant of Prepare, as a conjunction of named parts. *)

Unresolved == {"begin", "srv", "resolve", "lookup"}

\* Nothing is selected before there is an answer.
NothingYet ==
    pc \in Unresolved => /\ answers = <<>> /\ next = 1 /\ primary = "none" /\ cands = <<>>
                         /\ byFamily = [f \in Families |-> <<>>]

\* The route of a Java probe.
RouteAgrees ==
    /\ pc = "srv" => ~ PortExplicit
    /\ request.edition = "java" /\ pc \notin {"begin", "srv", "failed"} =>
          /\ route.handshake.host = request.host /\ route.handshake.port = route.dial.port
          /\ PortExplicit => route.dial.port = request.port

\* A candidate passed the filter and has the port of its address.
Fit(c) == c.addr.form \in Families /\ Usable(c.addr) /\ c.port = PortFor(c.addr)
AllFit ==
    /\ \A f \in Families : \A i \in DOMAIN byFamily[f] :
          Fit(byFamily[f][i]) /\ byFamily[f][i].addr.form = f
    /\ \A i \in DOMAIN cands : Fit(cands[i])
    /\ pc = "ready" => cands # <<>>

\* The answers the first loop has dealt with.
Taken == IF pc = "sort" THEN 1 .. next - 1 ELSE DOMAIN answers

First(f, i) == FirstAt(byFamily[f][i].addr)

\* The candidates are the usable answers among them, each family in their order,
\* and the primary family has the first.
Sorted ==
    /\ pc = "sort" => next <= Len(answers) + 1
    /\ \A f \in Families : \A i \in DOMAIN byFamily[f] :
          \E j \in Taken : Unmap(answers[j]) = byFamily[f][i].addr
    /\ \A j \in Taken : Usable(Unmap(answers[j])) => Known(Unmap(answers[j]))
    /\ \A f \in Families : \A i, j \in DOMAIN byFamily[f] : i < j => First(f, i) < First(f, j)
    /\ primary = "none" => \A f \in Families : byFamily[f] = <<>>
    /\ primary # "none" =>
          /\ byFamily[primary] # <<>>
          /\ \A i \in DOMAIN byFamily[Other(primary)] : First(primary, 1) < First(Other(primary), i)

\* Where the first t candidates of each family stand.
Lesser(x, y) == IF x <= y THEN x ELSE y
Placed(t) ==
    LET m == Len(byFamily[primary])
        n == Len(byFamily[Other(primary)])
    IN  /\ Len(cands) = Lesser(t, m) + Lesser(t, n)
        /\ \A k \in 1 .. Lesser(t, m) : cands[k + Lesser(k - 1, n)] = byFamily[primary][k]
        /\ \A k \in 1 .. Lesser(t, n) : cands[Lesser(k, m) + k] = byFamily[Other(primary)][k]

Ordered ==
    /\ pc = "sort" => cands = <<>>
    /\ pc = "order" => primary # "none" /\ Placed(next - 1)
    /\ pc = "ready" /\ answers # <<>> =>
          /\ primary # "none"
          /\ Placed(Len(byFamily[primary]) + Len(byFamily[Other(primary)]))

PrepareIInv ==
    PrepareTypeOK /\ NothingYet /\ RouteAgrees /\ AllFit /\ Sorted /\ Ordered

-----------------------------------------------------------------------------
(* Addresses and their first places *)

LEMMA FirstPlace ==
    ASSUME Len(answers) \in Nat, DOMAIN answers = 1 .. Len(answers),
           NEW a, NEW j \in DOMAIN answers, Unmap(answers[j]) = a
    PROVE  /\ FirstAt(a) \in DOMAIN answers /\ Unmap(answers[FirstAt(a)]) = a
           /\ \A k \in DOMAIN answers : Unmap(answers[k]) = a => FirstAt(a) <= k
<1>. DEFINE T == {i \in DOMAIN answers : Unmap(answers[i]) = a}
<1>1. T \in SUBSET Nat /\ T # {}
      OBVIOUS
<1>2. \A k : k \in T <=> k \in DOMAIN answers /\ Unmap(answers[k]) = a
      OBVIOUS
<1>3. FirstAt(a) = CHOOSE x \in T : \A y \in T : x <= y
      BY DEF FirstAt, Min
<1>. HIDE DEF T
<1>4. \E x \in T : \A y \in T : x <= y
      BY <1>1, LeastNumber
<1>5. FirstAt(a) \in T /\ \A y \in T : FirstAt(a) <= y
      BY <1>3, <1>4
<1>. QED  BY <1>2, <1>5

LEMMA UnmapFacts ==
    ASSUME NEW a \in Address
    PROVE  /\ Unmap(a) \in Address
           /\ Unmap(a).form \in {"v4", "v6", "invalid"}
           /\ Unmap(Unmap(a)) = Unmap(a)
           /\ Unmap(a).form = "invalid" <=> a.form = "invalid"
           /\ Unmap(a).listed = a.listed
           /\ Is6(Unmap(a)) = (Unmap(a).form = "v6")
<1>1. a.form \in {"v4", "v4in6", "v6", "invalid"}
      BY DEF Address
<1>2. CASE a.form = "v4in6"
  <2>1. Unmap(a) = [a EXCEPT !.form = "v4", !.zoned = FALSE]
        BY <1>2 DEF Unmap
  <2>2. Unmap(a) \in Address /\ Unmap(a).form = "v4"
        BY <2>1 DEF Address
  <2>3. Unmap(a).listed = a.listed
        BY <2>1 DEF Address
  <2>4. Unmap(Unmap(a)) = Unmap(a)
        BY <2>2 DEF Unmap
  <2>. QED  BY <1>2, <2>2, <2>3, <2>4 DEF Is6
<1>3. CASE a.form # "v4in6"
  <2>1. Unmap(a) = a
        BY <1>3 DEF Unmap
  <2>. QED  BY <1>1, <1>3, <2>1 DEF Is6
<1>. QED  BY <1>2, <1>3

\* The filter sees through the mapped form.
LEMMA UnmapUsable ==
    ASSUME NEW a \in Address
    PROVE  Usable(Unmap(a)) <=> Usable(a)
<1>1. matches(request.family, Unmap(a)) <=> matches(request.family, a)
      BY UnmapFacts DEF matches
<1>2. isNonPublicAddr(Unmap(a)) <=> isNonPublicAddr(a)
      BY UnmapFacts DEF isNonPublicAddr
<1>. QED  BY <1>1, <1>2 DEF Usable

\* What is usable has a family.
LEMMA UsableForm ==
    ASSUME NEW a \in Address, Usable(Unmap(a))
    PROVE  /\ Unmap(a).form \in Families
           /\ Unmap(a).form = IF Is6(Unmap(a)) THEN "v6" ELSE "v4"
<1>1. matches(request.family, Unmap(a))
      BY DEF Usable
<1>2. Unmap(a).form # "invalid"
      BY <1>1, UnmapFacts DEF matches
<1>. QED  BY <1>2, UnmapFacts DEF Families

LEMMA PrepareTypes ==
    ASSUME PrepareTypeOK
    PROVE  /\ answers \in Seq(Addresses) /\ Len(answers) \in Nat
           /\ DOMAIN answers = 1 .. Len(answers)
           /\ \A j \in DOMAIN answers : answers[j] \in Addresses /\ answers[j] \in Address
           /\ \A f \in Families : /\ byFamily[f] \in Seq(Candidate) /\ Len(byFamily[f]) \in Nat
                                  /\ DOMAIN byFamily[f] = 1 .. Len(byFamily[f])
           /\ cands \in Seq(Candidate) /\ Len(cands) \in Nat /\ DOMAIN cands = 1 .. Len(cands)
           /\ next \in Nat /\ next >= 1
<1>1. answers \in Seq(Addresses) /\ cands \in Seq(Candidate) /\ next \in Nat /\ next >= 1
      BY DEF PrepareTypeOK
<1>2. \A f \in Families : byFamily[f] \in Seq(Candidate)
      BY DEF PrepareTypeOK
<1>3. \A j \in DOMAIN answers : answers[j] \in Addresses
      BY <1>1
<1>. QED  BY <1>1, <1>2, <1>3, AddressAssumption

LEMMA PortTypes ==
    ASSUME PrepareTypeOK
    PROVE  /\ \A a : PortFor(a) \in PortNumbers
           /\ request.port \in PortNumbers /\ request.host \in Hosts
           /\ route.dial \in Endpoint /\ route.handshake \in Endpoint
           /\ JavaFallback \in Endpoint
<1>1. request \in Requests /\ route \in [dial : Endpoint, handshake : Endpoint]
      BY DEF PrepareTypeOK
<1>2. request.port \in ExplicitPorts \cup {NoPort} /\ request.host \in Hosts
      BY <1>1 DEF Requests
<1>0. 0 \in PortNumbers /\ 19132 \in PortNumbers /\ 19133 \in PortNumbers /\ 25565 \in PortNumbers
      BY DEF PortNumbers
<1>3. request.port \in PortNumbers
      BY <1>0, <1>2, PortAssumption DEF NoPort
<1>4. route.dial \in Endpoint /\ route.handshake \in Endpoint /\ route.dial.port \in PortNumbers
      BY <1>1 DEF Endpoint
<1>5. \A a : BedrockPort(a) \in PortNumbers
      BY <1>0, <1>3 DEF BedrockPort
<1>6. \A a : PortFor(a) \in PortNumbers
      BY <1>4, <1>5 DEF PortFor
<1>7. JavaFallback \in Endpoint
      BY <1>0, <1>2, <1>3 DEF JavaFallback, Endpoint
<1>. QED  BY <1>2, <1>3, <1>4, <1>6, <1>7

-----------------------------------------------------------------------------
(* Steps before there is an answer *)

LEMMA PrepareInitEstablishes == PrepareInit => PrepareIInv
<1>. SUFFICES ASSUME PrepareInit PROVE PrepareIInv
     OBVIOUS
<1>1. /\ request \in Requests /\ pc = "begin" /\ ctxDone \in BOOLEAN
      /\ answers = <<>> /\ next = 1 /\ primary = "none" /\ cands = <<>>
      /\ byFamily = [f \in Families |-> <<>>] /\ displayTarget = NoHost
      BY DEF PrepareInit
<1>2. route \in [dial : Endpoint, handshake : Endpoint]
      BY DEF PrepareInit, Endpoint, NoPort, PortNumbers
<1>3. PrepareTypeOK
      BY <1>1, <1>2 DEF PrepareTypeOK
<1>4. RouteAgrees
      BY <1>1 DEF RouteAgrees
<1>5. /\ DOMAIN answers = {} /\ Taken = {} /\ DOMAIN cands = {}
      /\ \A f \in Families : byFamily[f] = <<>> /\ DOMAIN byFamily[f] = {}
      BY <1>1 DEF Taken
<1>6. NothingYet /\ AllFit /\ Sorted /\ Ordered
      BY <1>1, <1>5 DEF NothingYet, AllFit, Sorted, Ordered
<1>. QED  BY <1>3, <1>4, <1>6 DEF PrepareIInv

LEMMA RouteStep ==
    ASSUME PrepareIInv, pc \in Unresolved, pc' \in {"srv", "resolve", "lookup", "failed"},
           UNCHANGED <<request, loops, shown, ctxDone>>,
           route' \in [dial : Endpoint, handshake : Endpoint], RouteAgrees'
    PROVE  PrepareIInv'
<1>0. PrepareTypeOK /\ NothingYet
      BY DEF PrepareIInv
<1>1. /\ answers' = <<>> /\ next' = 1 /\ primary' = "none" /\ cands' = <<>>
      /\ byFamily' = [f \in Families |-> <<>>]
      BY <1>0 DEF NothingYet, loops, shown
<1>2. /\ DOMAIN answers' = {} /\ Taken' = {} /\ DOMAIN cands' = {}
      /\ \A f \in Families : byFamily'[f] = <<>> /\ DOMAIN byFamily'[f] = {}
      BY <1>1 DEF Taken
<1>4. NothingYet' /\ AllFit' /\ Sorted' /\ Ordered'
      BY <1>1, <1>2 DEF NothingYet, AllFit, Sorted, Ordered
<1>3. PrepareTypeOK'
      BY <1>0 DEF PrepareTypeOK, loops, shown
<1>. QED  BY <1>3, <1>4 DEF PrepareIInv

LEMMA RouteSteps ==
    ASSUME PrepareIInv,
           \/ DirectRoute \/ LookupSRV \/ SrvAbsent \/ SrvCancelled \/ SrvRecord \/ BedrockBegins
           \/ LiteralRefused \/ BeginLookup \/ LookupFails
    PROVE  PrepareIInv'
<1>0. PrepareTypeOK /\ RouteAgrees
      BY DEF PrepareIInv
<1>1. CASE LookupSRV \/ SrvCancelled \/ BedrockBegins \/ LiteralRefused \/ BeginLookup \/ LookupFails
  <2>1. /\ UNCHANGED <<request, route, loops, shown, ctxDone>>
        /\ pc \in Unresolved /\ pc' \in {"srv", "resolve", "lookup", "failed"}
        /\ pc \in {"begin", "srv"} => pc' \in {"srv", "failed"} \/ request.edition # "java"
        /\ pc' = "srv" => ~ PortExplicit
        BY <1>1 DEF LookupSRV, SrvCancelled, BedrockBegins, LiteralRefused, BeginLookup,
                    LookupFails, Fail, Unresolved
  <2>2. RouteAgrees'
        BY <1>0, <2>1 DEF RouteAgrees, Unresolved, PortExplicit
  <2>3. route' \in [dial : Endpoint, handshake : Endpoint]
        BY <1>0, <2>1 DEF PrepareTypeOK
  <2>. QED  BY <2>1, <2>2, <2>3, RouteStep
<1>2. CASE DirectRoute \/ SrvAbsent \/ SrvRecord
  <2>1. /\ UNCHANGED <<request, loops, shown, ctxDone>>
        /\ pc \in Unresolved /\ pc' = "resolve"
        BY <1>2 DEF DirectRoute, SrvAbsent, SrvRecord, TakeRoute, Unresolved
  <2>2. \/ route' = [dial |-> JavaFallback, handshake |-> JavaFallback]
        \/ \E target \in Hosts, port \in SrvPorts :
              /\ pc = "srv"
              /\ route' = [dial |-> [host |-> target, port |-> port],
                           handshake |-> [host |-> request.host, port |-> port]]
        BY <1>2 DEF DirectRoute, SrvAbsent, SrvRecord, TakeRoute
  <2>3. /\ route' \in [dial : Endpoint, handshake : Endpoint]
        /\ route'.handshake.host = request.host /\ route'.handshake.port = route'.dial.port
        /\ PortExplicit => route'.dial.port = request.port
    <3>1. CASE route' = [dial |-> JavaFallback, handshake |-> JavaFallback]
          BY <1>0, <3>1, PortTypes DEF JavaFallback
    <3>2. ASSUME NEW target \in Hosts, NEW port \in SrvPorts, pc = "srv",
                 route' = [dial |-> [host |-> target, port |-> port],
                           handshake |-> [host |-> request.host, port |-> port]]
          PROVE  /\ route' \in [dial : Endpoint, handshake : Endpoint]
                 /\ route'.handshake.host = request.host
                 /\ route'.handshake.port = route'.dial.port
                 /\ PortExplicit => route'.dial.port = request.port
          BY <1>0, <3>2, PortTypes, PortAssumption DEF Endpoint, RouteAgrees
    <3>. QED  BY <2>2, <3>1, <3>2
  <2>4. RouteAgrees'
        BY <2>1, <2>3 DEF RouteAgrees, PortExplicit
  <2>. QED  BY <2>1, <2>3, <2>4, RouteStep
<1>. QED  BY <1>1, <1>2

LEMMA FilterStays ==
    ASSUME UNCHANGED <<request, route>>
    PROVE  /\ \A a : Usable(a)' <=> Usable(a)
           /\ \A a : PortFor(a)' = PortFor(a)
           /\ \A c : Fit(c)' <=> Fit(c)
<1>1. \A a : Usable(a)' <=> Usable(a)
      BY DEF Usable
<1>2. \A a : PortFor(a)' = PortFor(a)
      BY DEF PortFor, BedrockPort, PortExplicit
<1>. QED  BY <1>1, <1>2 DEF Fit

LEMMA PlacesStay ==
    ASSUME UNCHANGED answers
    PROVE  \A a : FirstAt(a)' = FirstAt(a)
BY DEF FirstAt

LEMMA CancelStep ==
    ASSUME PrepareIInv, Cancel \/ UNCHANGED prepareVars
    PROVE  PrepareIInv'
<1>1. UNCHANGED <<request, pc, route, answers, next, byFamily, primary, cands, displayTarget>>
      BY DEF Cancel, prepareVars, loops, shown
<1>2. PrepareTypeOK'
  <2>1. ctxDone' \in BOOLEAN
        BY DEF Cancel, prepareVars, PrepareIInv, PrepareTypeOK
  <2>. QED  BY <1>1, <2>1 DEF PrepareIInv, PrepareTypeOK
<1>3. NothingYet' /\ RouteAgrees'
      BY <1>1 DEF PrepareIInv, NothingYet, RouteAgrees, PortExplicit
<1>4. AllFit'
      BY <1>1, FilterStays DEF PrepareIInv, AllFit
<1>5. Sorted'
  <2>1. Taken' = Taken /\ (\A a : Known(a)' <=> Known(a)) /\ \A f, i : First(f, i)' = First(f, i)
        BY <1>1, PlacesStay DEF Taken, Known, First
  <2>. QED  BY <1>1, <2>1, FilterStays DEF PrepareIInv, Sorted
<1>6. Ordered'
  <2>1. \A t : Placed(t)' <=> Placed(t)
        BY <1>1 DEF Placed
  <2>. QED  BY <1>1, <2>1 DEF PrepareIInv, Ordered
<1>. QED  BY <1>2, <1>3, <1>4, <1>5, <1>6 DEF PrepareIInv

LEMMA LiteralStep ==
    ASSUME PrepareIInv, LiteralAccepted
    PROVE  PrepareIInv'
<1>0. PrepareTypeOK /\ NothingYet
      BY DEF PrepareIInv
<1>1. PICK c : /\ c = [addr |-> Unmap(DialHost), port |-> PortFor(Unmap(DialHost))]
               /\ cands' = <<c>> /\ displayTarget' \in {c, NoHost}
  <2>1. Len(<<[addr |-> Unmap(DialHost), port |-> PortFor(Unmap(DialHost))]>>) = 1
        OBVIOUS
  <2>. QED  BY <2>1 DEF LiteralAccepted, Ready
<1>2. /\ pc = "resolve" /\ pc' = "ready" /\ DialHost \in Addresses /\ Usable(Unmap(DialHost))
      /\ UNCHANGED <<request, route, answers, next, byFamily, primary, ctxDone>>
      BY DEF LiteralAccepted, Ready, IsLiteral, loops
<1>3. Unmap(DialHost).form \in Families
      BY <1>2, AddressAssumption, UsableForm
<1>4. Fit(c) /\ c \in Candidate
      BY <1>0, <1>1, <1>2, <1>3, PortTypes DEF Fit, Candidate
<1>5. /\ answers = <<>> /\ primary = "none" /\ DOMAIN answers = {} /\ Taken' = {}
      /\ \A f \in Families : byFamily[f] = <<>> /\ DOMAIN byFamily[f] = {}
      BY <1>0, <1>2 DEF NothingYet, Unresolved, Taken
<1>6. PrepareTypeOK'
  <2>1. cands' \in Seq(Candidate) /\ displayTarget' \in Candidate \cup {NoHost}
        BY <1>1, <1>4
  <2>. QED  BY <1>0, <1>2, <2>1 DEF PrepareTypeOK
<1>7. NothingYet' /\ RouteAgrees'
      BY <1>2 DEF PrepareIInv, NothingYet, Unresolved, RouteAgrees, PortExplicit
<1>8. AllFit'
      BY <1>1, <1>2, <1>4, <1>5, FilterStays DEF AllFit
<1>9. Sorted' /\ Ordered'
      BY <1>2, <1>5 DEF Sorted, Ordered
<1>. QED  BY <1>6, <1>7, <1>8, <1>9 DEF PrepareIInv

LEMMA AnswerStep ==
    ASSUME PrepareIInv, LookupAnswers
    PROVE  PrepareIInv'
<1>0. PrepareTypeOK /\ NothingYet
      BY DEF PrepareIInv
<1>1. /\ pc = "lookup" /\ pc' = "sort" /\ answers' \in Seq(Addresses)
      /\ UNCHANGED <<request, route, next, byFamily, primary, cands, displayTarget, ctxDone>>
  <2>. DEFINE S == {a \in Addresses : request.family = "any" \/ matches(request.family, a)}
  <2>1. answers' \in SeqOf(S, MaxAnswers)
        BY DEF LookupAnswers
  <2>2. PICK m \in 0 .. MaxAnswers : answers' \in [1 .. m -> S]
        BY <2>1 DEF SeqOf
  <2>3. m \in Nat /\ S \subseteq Addresses
        OBVIOUS
  <2>. HIDE DEF S
  <2>4. answers' \in Seq(Addresses)
        BY <2>2, <2>3
  <2>. QED  BY <2>4 DEF LookupAnswers, shown
<1>2. /\ next = 1 /\ primary = "none" /\ cands = <<>> /\ DOMAIN cands = {} /\ Taken' = {}
      /\ \A f \in Families : byFamily[f] = <<>> /\ DOMAIN byFamily[f] = {}
      BY <1>0, <1>1 DEF NothingYet, Unresolved, Taken
<1>3. PrepareTypeOK'
      BY <1>0, <1>1 DEF PrepareTypeOK
<1>4. NothingYet' /\ RouteAgrees'
      BY <1>1 DEF PrepareIInv, NothingYet, Unresolved, RouteAgrees, PortExplicit
<1>5. AllFit' /\ Ordered'
      BY <1>1, <1>2 DEF AllFit, Ordered
<1>6. Sorted'
  <2>1. Len(answers') \in Nat
        BY <1>1
  <2>. QED  BY <1>1, <1>2, <2>1 DEF Sorted
<1>. QED  BY <1>3, <1>4, <1>5, <1>6 DEF PrepareIInv

-----------------------------------------------------------------------------
(* The loop over the answer *)

\* The candidates found so far stand at earlier places.
LEMMA EarlierPlaces ==
    ASSUME PrepareIInv, pc = "sort", NEW f \in Families, NEW i \in DOMAIN byFamily[f]
    PROVE  First(f, i) \in Nat /\ First(f, i) < next
<1>0. PrepareTypeOK /\ Sorted
      BY DEF PrepareIInv
<1>1. PICK j \in 1 .. next - 1 : Unmap(answers[j]) = byFamily[f][i].addr
      BY <1>0 DEF Sorted, Taken
<1>2. /\ Len(answers) \in Nat /\ DOMAIN answers = 1 .. Len(answers) /\ next \in Nat
      /\ next <= Len(answers) + 1
      BY <1>0, PrepareTypes DEF Sorted
<1>3. j \in DOMAIN answers
      BY <1>2
<1>4. /\ FirstAt(byFamily[f][i].addr) \in DOMAIN answers
      /\ FirstAt(byFamily[f][i].addr) <= j
      BY <1>1, <1>2, <1>3, FirstPlace
<1>. QED  BY <1>2, <1>4 DEF First

LEMMA SkipStep ==
    ASSUME PrepareIInv, SortAnswer, UNCHANGED <<byFamily, primary>>,
           Usable(Unmap(answers[next])) => Known(Unmap(answers[next]))
    PROVE  PrepareIInv'
<1>0. PrepareTypeOK /\ NothingYet /\ RouteAgrees /\ AllFit /\ Sorted /\ Ordered
      BY DEF PrepareIInv
<1>1. /\ pc = "sort" /\ pc' = pc /\ next <= Len(answers) /\ next' = next + 1
      /\ UNCHANGED <<request, route, answers, cands, displayTarget, ctxDone>>
      BY DEF SortAnswer, shown
<1>2. next \in Nat /\ next >= 1 /\ Len(answers) \in Nat
      BY <1>0, PrepareTypes
<1>3. PrepareTypeOK'
  <2>1. next' \in Nat \ {0}
        BY <1>1, <1>2
  <2>. QED  BY <1>0, <1>1, <2>1 DEF PrepareTypeOK
<1>4. NothingYet' /\ RouteAgrees' /\ Ordered'
      BY <1>0, <1>1 DEF NothingYet, Unresolved, RouteAgrees, PortExplicit, Ordered
<1>5. AllFit'
      BY <1>0, <1>1, FilterStays DEF AllFit
<1>6. Sorted'
  <2>1. Taken = 1 .. next - 1 /\ Taken' = 1 .. next
        BY <1>1, <1>2 DEF Taken
  <2>2. (\A a : Known(a)' <=> Known(a)) /\ \A f, i : First(f, i)' = First(f, i)
        BY <1>1, PlacesStay DEF Known, First
  <2>3. next' <= Len(answers') + 1
        BY <1>1, <1>2
  <2>4. \A f \in Families : \A i \in DOMAIN byFamily'[f] :
           \E j \in Taken' : Unmap(answers'[j]) = byFamily'[f][i].addr
    <3>1. \A j \in Taken : j \in Taken'
          BY <1>2, <2>1
    <3>. QED  BY <1>0, <1>1, <3>1 DEF Sorted
  <2>5. (\A j \in Taken : Usable(Unmap(answers[j])) => Known(Unmap(answers[j])))'
    <3>1. \A j \in Taken' : j \in Taken \/ j = next
          BY <1>2, <2>1
    <3>. SUFFICES ASSUME NEW j \in Taken', NEW b, b = Unmap(answers[j]), Usable(b)
                  PROVE  Known(b)'
         BY <1>1, FilterStays
    <3>. QED  BY <1>0, <2>2, <3>1 DEF Sorted
  <2>. QED  BY <1>0, <1>1, <2>2, <2>3, <2>4, <2>5 DEF Sorted
<1>. QED  BY <1>3, <1>4, <1>5, <1>6 DEF PrepareIInv

LEMMA AppendStep ==
    ASSUME PrepareIInv, SortAnswer, NEW a, a = Unmap(answers[next]), Usable(a), ~ Known(a)
    PROVE  PrepareIInv'
<1>0. PrepareTypeOK /\ NothingYet /\ RouteAgrees /\ AllFit /\ Sorted /\ Ordered
      BY DEF PrepareIInv
<1>1. /\ pc = "sort" /\ pc' = pc /\ next <= Len(answers) /\ next' = next + 1
      /\ UNCHANGED <<request, route, answers, cands, displayTarget, ctxDone>>
      BY DEF SortAnswer, shown
<1>2. /\ next \in Nat /\ next >= 1 /\ Len(answers) \in Nat /\ DOMAIN answers = 1 .. Len(answers)
      /\ next \in DOMAIN answers /\ answers[next] \in Addresses /\ answers[next] \in Address
      BY <1>0, <1>1, PrepareTypes
<1>3. PICK g : g = IF Is6(a) THEN "v6" ELSE "v4"
      OBVIOUS
<1>4. g \in Families /\ a.form = g
      BY <1>2, <1>3, UsableForm
<1>5. PICK c : c = [addr |-> a, port |-> PortFor(a)]
      OBVIOUS
<1>6. /\ byFamily' = [byFamily EXCEPT ![g] = Append(byFamily[g], c)]
      /\ primary' = IF primary = "none" THEN g ELSE primary
      BY <1>3, <1>5 DEF SortAnswer
<1>7. c \in Candidate /\ Fit(c) /\ c.addr = a
      BY <1>0, <1>2, <1>4, <1>5, PortTypes DEF Candidate, Fit
<1>8. \A f \in Families : /\ byFamily[f] \in Seq(Candidate) /\ Len(byFamily[f]) \in Nat
                          /\ DOMAIN byFamily[f] = 1 .. Len(byFamily[f])
      BY <1>0, PrepareTypes
<1>9. PICK l \in Nat : l = Len(byFamily[g])
      BY <1>4, <1>8
<1>10. /\ byFamily' \in [Families -> Seq(Candidate)]
       /\ \A f \in Families : f # g => byFamily'[f] = byFamily[f]
       /\ DOMAIN byFamily'[g] = 1 .. l + 1 /\ byFamily'[g][l + 1] = c
       /\ \A i \in 1 .. l : byFamily'[g][i] = byFamily[g][i]
  <2>1. byFamily'[g] = Append(byFamily[g], c)
        BY <1>0, <1>4, <1>6 DEF PrepareTypeOK
  <2>2. /\ Append(byFamily[g], c) \in Seq(Candidate)
        /\ DOMAIN Append(byFamily[g], c) = 1 .. l + 1 /\ Append(byFamily[g], c)[l + 1] = c
        /\ \A i \in 1 .. l : Append(byFamily[g], c)[i] = byFamily[g][i]
        BY <1>4, <1>7, <1>8, <1>9, AppendProperties
  <2>3. byFamily' \in [Families -> Seq(Candidate)] /\ \A f \in Families : f # g => byFamily'[f] = byFamily[f]
        BY <1>0, <1>4, <1>6, <2>2 DEF PrepareTypeOK
  <2>. QED  BY <2>1, <2>2, <2>3
\* An element of the new lists is an old one or c.
<1>11. ASSUME NEW f \in Families, NEW i \in DOMAIN byFamily'[f]
       PROVE  \/ i \in DOMAIN byFamily[f] /\ byFamily'[f][i] = byFamily[f][i]
              \/ f = g /\ i = l + 1 /\ byFamily'[f][i] = c
  <2>1. CASE f # g
        BY <1>10, <2>1
  <2>2. CASE f = g
    <3>1. i \in 1 .. l \/ i = l + 1
          BY <1>9, <1>10, <2>2
    <3>. QED  BY <1>8, <1>9, <1>10, <2>2, <3>1
  <2>. QED  BY <2>1, <2>2
<1>12. \A f \in Families : \A i \in DOMAIN byFamily[f] :
          i \in DOMAIN byFamily'[f] /\ byFamily'[f][i] = byFamily[f][i]
  <2>1. \A i \in 1 .. l : i \in 1 .. l + 1
        BY <1>9
  <2>. QED  BY <1>8, <1>9, <1>10, <2>1
<1>13. PrepareTypeOK'
  <2>1. next' \in Nat \ {0} /\ primary' \in Families \cup {"none"}
        BY <1>0, <1>1, <1>2, <1>4, <1>6 DEF PrepareTypeOK
  <2>. QED  BY <1>0, <1>1, <1>10, <2>1 DEF PrepareTypeOK
<1>14. NothingYet' /\ RouteAgrees' /\ Ordered'
      BY <1>0, <1>1 DEF NothingYet, Unresolved, RouteAgrees, PortExplicit, Ordered
<1>15. AllFit'
  <2>1. ASSUME NEW f \in Families, NEW i \in DOMAIN byFamily'[f]
        PROVE  Fit(byFamily'[f][i]) /\ byFamily'[f][i].addr.form = f
        BY <1>0, <1>4, <1>7, <1>11 DEF AllFit
  <2>2. ASSUME NEW f \in Families, NEW i \in DOMAIN byFamily'[f]
        PROVE  Fit(byFamily[f][i])' /\ byFamily'[f][i].addr.form = f
    <3>1. PICK d : d = byFamily'[f][i]
          OBVIOUS
    <3>2. Fit(d)' /\ d.addr.form = f
          BY <1>1, <2>1, <3>1, FilterStays
    <3>. QED  BY <3>1, <3>2
  <2>3. \A i \in DOMAIN cands : Fit(cands[i])'
    <3>. SUFFICES ASSUME NEW i \in DOMAIN cands, NEW d, d = cands[i] PROVE Fit(d)'
         BY <1>1
    <3>. QED  BY <1>0, <1>1, FilterStays DEF AllFit
  <2>. QED  BY <1>1, <2>2, <2>3 DEF AllFit
<1>16. FirstAt(a) = next
  <2>1. /\ FirstAt(a) \in DOMAIN answers /\ Unmap(answers[FirstAt(a)]) = a /\ FirstAt(a) <= next
        BY <1>2, FirstPlace
  <2>2. ~ (FirstAt(a) \in 1 .. next - 1)
        BY <1>0, <1>1, <2>1 DEF Sorted, Taken
  <2>. QED  BY <1>2, <2>1, <2>2
<1>17. /\ \A f \in Families : \A i \in DOMAIN byFamily[f] : First(f, i)' = First(f, i)
       /\ First(g, l + 1)' = next
  <2>1. \A f, i : First(f, i)' = FirstAt(byFamily'[f][i].addr)
        BY <1>1, PlacesStay DEF First
  <2>. QED  BY <1>7, <1>10, <1>12, <1>16, <2>1 DEF First
<1>18. Sorted'
  <2>1. Taken = 1 .. next - 1 /\ Taken' = 1 .. next
        BY <1>1, <1>2 DEF Taken
  <2>2. \A b : Known(b)' <=> Known(b) \/ b = a
    <3>1. ASSUME NEW b, Known(b) PROVE Known(b)'
          BY <1>12, <3>1 DEF Known
    <3>2. Known(a)'
      <4>1. l + 1 \in DOMAIN byFamily'[g]
            BY <1>9, <1>10
      <4>. QED  BY <1>4, <1>7, <1>10, <4>1 DEF Known
    <3>3. ASSUME NEW b, Known(b)' PROVE Known(b) \/ b = a
          BY <1>7, <1>11, <3>3 DEF Known
    <3>. QED  BY <3>1, <3>2, <3>3
  <2>3. next' <= Len(answers') + 1
        BY <1>1, <1>2
  <2>4. \A f \in Families : \A i \in DOMAIN byFamily'[f] :
           \E j \in Taken' : Unmap(answers'[j]) = byFamily'[f][i].addr
    <3>1. (\A j \in Taken : j \in Taken') /\ next \in Taken'
          BY <1>2, <2>1
    <3>. SUFFICES ASSUME NEW f \in Families, NEW i \in DOMAIN byFamily'[f]
                  PROVE  \E j \in Taken' : Unmap(answers[j]) = byFamily'[f][i].addr
         BY <1>1
    <3>2. CASE i \in DOMAIN byFamily[f] /\ byFamily'[f][i] = byFamily[f][i]
          BY <1>0, <3>1, <3>2 DEF Sorted
    <3>3. CASE byFamily'[f][i] = c
          BY <1>7, <3>1, <3>3
    <3>. QED  BY <1>11, <3>2, <3>3
  <2>5. (\A j \in Taken : Usable(Unmap(answers[j])) => Known(Unmap(answers[j])))'
    <3>1. \A j \in Taken' : j \in Taken \/ j = next
          BY <1>2, <2>1
    <3>. SUFFICES ASSUME NEW j \in Taken', NEW b, b = Unmap(answers[j]), Usable(b)
                  PROVE  Known(b)'
         BY <1>1, FilterStays
    <3>. QED  BY <1>0, <2>2, <3>1 DEF Sorted
  <2>6. ASSUME NEW f \in Families, NEW i \in DOMAIN byFamily'[f], NEW j \in DOMAIN byFamily'[f], i < j
        PROVE  First(f, i)' < First(f, j)'
    <3>0. i \in Nat /\ j \in Nat
          BY <1>8, <1>9, <1>11
    <3>1. CASE i \in DOMAIN byFamily[f] /\ j \in DOMAIN byFamily[f]
          BY <1>0, <1>17, <2>6, <3>1 DEF Sorted
    <3>2. CASE i \in DOMAIN byFamily[f] /\ f = g /\ j = l + 1
          BY <1>1, <1>17, <3>2, EarlierPlaces
    <3>3. CASE f = g /\ i = l + 1
      <4>1. j \in 1 .. l + 1
            BY <1>10, <3>3
      <4>. QED  BY <1>9, <2>6, <3>0, <3>3, <4>1
    <3>. QED  BY <1>11, <3>1, <3>2, <3>3
  <2>7. PICK q : q = primary'
        OBVIOUS
  <2>8. q \in Families /\ Other(q) \in Families /\ Other(q) # q /\ byFamily'[q] # <<>>
    <3>1. byFamily'[g] # <<>>
      <4>1. 1 \in DOMAIN byFamily'[g]
            BY <1>9, <1>10
      <4>. QED  BY <4>1
    <3>2. CASE primary = "none"
          BY <1>4, <1>6, <2>7, <3>1, <3>2 DEF Families, Other
    <3>3. CASE primary # "none"
      <4>1. q = primary /\ primary \in Families /\ byFamily[primary] # <<>>
            BY <1>0, <1>6, <2>7, <3>3 DEF Sorted, PrepareTypeOK
      <4>2. Other(q) \in Families /\ Other(q) # q
            BY <4>1 DEF Families, Other
      <4>. QED  BY <1>10, <3>1, <4>1, <4>2
    <3>. QED  BY <3>2, <3>3
  <2>9. ASSUME NEW i \in DOMAIN byFamily'[Other(q)]
        PROVE  First(q, 1)' < First(Other(q), i)'
    <3>1. CASE primary = "none"
      <4>1. q = g
            BY <1>6, <2>7, <3>1
      <4>2. byFamily'[Other(q)] = <<>>
            BY <1>0, <1>10, <2>8, <3>1, <4>1 DEF Sorted
      <4>. QED  BY <2>9, <4>2
    <3>2. CASE primary # "none"
      <4>1. q = primary /\ byFamily[q] # <<>>
            BY <1>0, <1>6, <2>7, <3>2 DEF Sorted
      <4>2. 1 \in DOMAIN byFamily[q]
            BY <1>8, <2>8, <4>1
      <4>3. First(q, 1)' = First(q, 1) /\ First(q, 1) < next /\ First(q, 1) \in Nat
            BY <1>1, <1>17, <2>8, <4>2, EarlierPlaces
      <4>4. CASE i \in DOMAIN byFamily[Other(q)]
        <5>1. First(q, 1) < First(Other(q), i)
              BY <1>0, <3>2, <4>1, <4>4 DEF Sorted
        <5>2. First(Other(q), i)' = First(Other(q), i)
              BY <1>17, <2>8, <4>4
        <5>. QED  BY <4>3, <5>1, <5>2
      <4>5. CASE Other(q) = g /\ i = l + 1
            BY <1>17, <4>3, <4>5
      <4>. QED  BY <1>11, <2>8, <2>9, <4>4, <4>5
    <3>. QED  BY <3>1, <3>2
  <2>10. primary' # "none"
        BY <2>7, <2>8 DEF Families
  <2>. QED  BY <2>3, <2>4, <2>5, <2>6, <2>7, <2>8, <2>9, <2>10 DEF Sorted
<1>. QED  BY <1>13, <1>14, <1>15, <1>18 DEF PrepareIInv

LEMMA SortStep ==
    ASSUME PrepareIInv, SortAnswer
    PROVE  PrepareIInv'
<1>1. CASE Usable(Unmap(answers[next])) /\ ~ Known(Unmap(answers[next]))
      BY <1>1, AppendStep
<1>2. CASE ~ (Usable(Unmap(answers[next])) /\ ~ Known(Unmap(answers[next])))
  <2>1. UNCHANGED <<byFamily, primary>>
        BY <1>2 DEF SortAnswer
  <2>. QED  BY <1>2, <2>1, SkipStep
<1>. QED  BY <1>1, <1>2

-----------------------------------------------------------------------------
(* The order of the families *)

LEMMA PrimaryTypes ==
    ASSUME PrepareTypeOK, primary # "none"
    PROVE  primary \in Families /\ Other(primary) \in Families /\ Other(primary) # primary
<1>1. primary \in Families
      BY DEF PrepareTypeOK
<1>. QED  BY <1>1 DEF Families, Other

\* Behind the first loop every answer is taken.
LEMMA SelectionStays ==
    ASSUME PrepareIInv, UNCHANGED <<request, route, answers, byFamily, primary>>,
           pc' # "sort", pc \notin Unresolved, pc = "sort" => next > Len(answers)
    PROVE  /\ Sorted'
           /\ \A c : Fit(c)' <=> Fit(c)
           /\ \A f \in Families : \A i \in DOMAIN byFamily[f] : Fit(byFamily[f][i])
           /\ (\A f \in Families : \A i \in DOMAIN byFamily[f] :
                  Fit(byFamily[f][i]) /\ byFamily[f][i].addr.form = f)'
           /\ \A i \in DOMAIN cands : Fit(cands[i])
<1>0. PrepareTypeOK /\ AllFit /\ Sorted
      BY DEF PrepareIInv
<1>1. Taken' = Taken
  <2>1. CASE pc = "sort"
    <3>1. /\ next \in Nat /\ Len(answers) \in Nat /\ DOMAIN answers = 1 .. Len(answers)
          /\ next = Len(answers) + 1
          BY <1>0, <2>1, PrepareTypes DEF Sorted
    <3>. QED  BY <2>1, <3>1 DEF Taken
  <2>2. CASE pc # "sort"
        BY <2>2 DEF Taken
  <2>. QED  BY <2>1, <2>2
<1>2. (\A a : Known(a)' <=> Known(a)) /\ \A f, i : First(f, i)' = First(f, i)
      BY PlacesStay DEF Known, First
<1>3. Sorted'
      BY <1>0, <1>1, <1>2, FilterStays DEF Sorted
<1>4. (\A f \in Families : \A i \in DOMAIN byFamily[f] :
          Fit(byFamily[f][i]) /\ byFamily[f][i].addr.form = f)'
      BY <1>0, FilterStays DEF AllFit
<1>. QED  BY <1>0, <1>3, <1>4, FilterStays DEF AllFit

\* A list of candidates that fit ends the preparation.
LEMMA ReadyStep ==
    ASSUME PrepareIInv, UNCHANGED <<request, route, answers, byFamily, primary, ctxDone>>,
           next' = next, pc \in {"sort", "order"}, pc = "sort" => next > Len(answers),
           NEW list \in Seq(Candidate), Ready(list), list # <<>>,
           \A i \in DOMAIN list : Fit(list[i]), primary # "none",
           Placed(Len(byFamily[primary]) + Len(byFamily[Other(primary)]))'
    PROVE  PrepareIInv'
<1>0. PrepareTypeOK /\ RouteAgrees /\ pc \notin Unresolved
      BY DEF PrepareIInv, Unresolved
<1>1. pc' = "ready" /\ cands' = list /\ displayTarget' \in Candidate \cup {NoHost}
  <2>1. Len(list) = 1 => list[1] \in Candidate
        OBVIOUS
  <2>. QED  BY <2>1 DEF Ready
<1>2. PrepareTypeOK'
      BY <1>0, <1>1 DEF PrepareTypeOK
<1>3. NothingYet' /\ RouteAgrees'
      BY <1>0, <1>1 DEF NothingYet, Unresolved, RouteAgrees, PortExplicit
<1>4. Sorted' /\ (\A c : Fit(c)' <=> Fit(c))
      BY <1>0, <1>1, SelectionStays
<1>5. (\A f \in Families : \A i \in DOMAIN byFamily[f] :
          Fit(byFamily[f][i]) /\ byFamily[f][i].addr.form = f)'
      BY <1>0, <1>1, SelectionStays
<1>6. (\A i \in DOMAIN cands : Fit(cands[i]))'
      BY <1>1, <1>4
<1>7. AllFit'
      BY <1>1, <1>5, <1>6 DEF AllFit
<1>8. Ordered'
      BY <1>1 DEF Ordered
<1>. QED  BY <1>2, <1>3, <1>4, <1>7, <1>8 DEF PrepareIInv

LEMMA EndSortStep ==
    ASSUME PrepareIInv, EndSort
    PROVE  PrepareIInv'
<1>0. PrepareTypeOK /\ RouteAgrees /\ AllFit /\ Sorted /\ Ordered
      BY DEF PrepareIInv
<1>1. /\ pc = "sort" /\ next > Len(answers) /\ cands = <<>> /\ pc \notin Unresolved
      /\ UNCHANGED <<request, route, answers, byFamily, primary, ctxDone>>
      BY <1>0 DEF EndSort, Ordered, Unresolved
<1>2. \A f \in Families : /\ byFamily[f] \in Seq(Candidate) /\ Len(byFamily[f]) \in Nat
                          /\ DOMAIN byFamily[f] = 1 .. Len(byFamily[f])
      BY <1>0, PrepareTypes
\* No order yet: the list of candidates stays empty.
<1>3. ASSUME pc' \in {"failed", "order"}, next' \in {next, 1}, UNCHANGED <<cands, displayTarget>>,
             pc' = "order" => primary # "none" /\ next' = 1
      PROVE  PrepareIInv'
  <2>1. PrepareTypeOK'
    <3>1. next' \in Nat \ {0}
          BY <1>0, <1>3 DEF PrepareTypeOK
    <3>. QED  BY <1>0, <1>1, <1>3, <3>1 DEF PrepareTypeOK
  <2>2. NothingYet' /\ RouteAgrees'
        BY <1>0, <1>1, <1>3 DEF NothingYet, Unresolved, RouteAgrees, PortExplicit
  <2>3. Sorted'
        BY <1>1, <1>3, SelectionStays
  <2>4. (\A f \in Families : \A i \in DOMAIN byFamily[f] :
            Fit(byFamily[f][i]) /\ byFamily[f][i].addr.form = f)'
        BY <1>1, <1>3, SelectionStays
  <2>5. DOMAIN cands' = {} /\ Len(cands') = 0
        BY <1>1, <1>3
  <2>6. AllFit'
        BY <1>3, <2>4, <2>5 DEF AllFit
  <2>7. ASSUME pc' = "order" PROVE Placed(next - 1)'
    <3>1. primary \in Families /\ Other(primary) \in Families /\ next' - 1 = 0
          BY <1>0, <1>3, <2>7, PrimaryTypes
    <3>2. \A x \in Nat : Lesser(0, x) = 0
          BY DEF Lesser
    <3>. QED  BY <1>1, <1>2, <2>5, <3>1, <3>2 DEF Placed
  <2>8. Ordered'
        BY <1>1, <1>3, <2>7 DEF Ordered
  <2>. QED  BY <2>1, <2>2, <2>3, <2>6, <2>8 DEF PrepareIInv
<1>4. CASE pc' = "failed" /\ UNCHANGED <<next, shown>>
      BY <1>3, <1>4 DEF shown
<1>5. CASE primary # "none" /\ pc' = "order" /\ next' = 1 /\ UNCHANGED shown
      BY <1>3, <1>5 DEF shown
<1>6. CASE /\ primary # "none" /\ byFamily[Other(primary)] = <<>>
           /\ Ready(byFamily[primary]) /\ UNCHANGED next
  <2>1. primary \in Families /\ Other(primary) \in Families
        BY <1>0, <1>6, PrimaryTypes
  <2>2. PICK m \in Nat : m = Len(byFamily[primary])
        BY <1>2, <2>1
  <2>3. byFamily[primary] # <<>>
        BY <1>0, <1>6 DEF Sorted
  <2>4. cands' = byFamily[primary] /\ pc' = "ready" /\ Len(byFamily[Other(primary)]) = 0
        BY <1>6 DEF Ready
  <2>5. \A i \in DOMAIN byFamily[primary] : Fit(byFamily[primary][i])
        BY <1>0, <2>1 DEF AllFit
  <2>6. /\ Lesser(m + 0, m) = m /\ Lesser(m + 0, 0) = 0
        /\ \A k \in 1 .. m : k + Lesser(k - 1, 0) = k
        BY <2>2 DEF Lesser
  <2>7. Placed(Len(byFamily[primary]) + Len(byFamily[Other(primary)]))'
    <3>1. Len(cands') = m + 0
          BY <2>2, <2>4
    <3>2. \A k \in 1 .. 0 : FALSE
          OBVIOUS
    <3>. QED  BY <1>1, <2>2, <2>4, <2>6, <3>1, <3>2 DEF Placed
  <2>. QED  BY <1>1, <1>2, <1>6, <2>1, <2>3, <2>5, <2>7, ReadyStep
<1>. QED  BY <1>4, <1>5, <1>6 DEF EndSort

LEMMA WithProperties ==
    ASSUME NEW s \in Seq(Candidate), NEW p \in Seq(Candidate), NEW i \in Nat \ {0}
    PROVE  /\ With(s, p, i) \in Seq(Candidate)
           /\ Len(With(s, p, i)) = Len(s) + (IF i <= Len(p) THEN 1 ELSE 0)
           /\ \A k \in 1 .. Len(s) : With(s, p, i)[k] = s[k]
           /\ i <= Len(p) => With(s, p, i)[Len(s) + 1] = p[i]
<1>1. CASE i <= Len(p)
      BY <1>1 DEF With
<1>2. CASE ~ (i <= Len(p))
      BY <1>2 DEF With
<1>. QED  BY <1>1, <1>2

LEMMA InterleaveStep ==
    ASSUME PrepareIInv, interleaveDialCandidates
    PROVE  PrepareIInv'
<1>0. PrepareTypeOK /\ RouteAgrees /\ AllFit /\ Sorted /\ Ordered
      BY DEF PrepareIInv
<1>1. /\ pc = "order" /\ pc' = "order" /\ next' = next + 1 /\ primary # "none"
      /\ UNCHANGED <<request, route, answers, byFamily, primary, displayTarget, ctxDone>>
      /\ Placed(next - 1) /\ pc \notin Unresolved
      BY <1>0 DEF interleaveDialCandidates, Ordered, Unresolved
<1>2. primary \in Families /\ Other(primary) \in Families
      BY <1>0, <1>1, PrimaryTypes
<1>3. PICK p, q, m, n, c, d, i, l :
         /\ p = byFamily[primary] /\ q = byFamily[Other(primary)] /\ m = Len(p) /\ n = Len(q)
         /\ c = cands /\ d = cands' /\ i = next /\ l = Len(cands)
      OBVIOUS
<1>4. /\ p \in Seq(Candidate) /\ q \in Seq(Candidate) /\ c \in Seq(Candidate)
      /\ m \in Nat /\ n \in Nat /\ l \in Nat /\ i \in Nat /\ i >= 1
      /\ DOMAIN p = 1 .. m /\ DOMAIN q = 1 .. n /\ DOMAIN c = 1 .. l
      BY <1>0, <1>2, <1>3, PrepareTypes
<1>5. d = With(With(c, p, i), q, i)
      BY <1>3 DEF interleaveDialCandidates
<1>6. PICK a, b : /\ a = IF i <= m THEN 1 ELSE 0
                  /\ b = IF i <= n THEN 1 ELSE 0
      OBVIOUS
<1>7. /\ d \in Seq(Candidate) /\ Len(d) = l + a + b
      /\ \A k \in 1 .. l : d[k] = c[k]
      /\ i <= m => d[l + 1] = p[i]
      /\ i <= n => d[l + a + 1] = q[i]
  <2>1. PICK e : e = With(c, p, i)
        OBVIOUS
  <2>2. i \in Nat \ {0} /\ d = With(e, q, i)
        BY <1>4, <1>5, <2>1
  <2>3. /\ e \in Seq(Candidate) /\ Len(e) = l + a
        /\ \A k \in 1 .. l : e[k] = c[k]
        /\ i <= m => e[l + 1] = p[i]
    <3>1. c \in Seq(Candidate) /\ p \in Seq(Candidate) /\ i \in Nat \ {0}
          BY <1>4, <2>2
    <3>2. /\ e \in Seq(Candidate) /\ Len(e) = Len(c) + (IF i <= Len(p) THEN 1 ELSE 0)
          /\ \A k \in 1 .. Len(c) : e[k] = c[k]
          /\ i <= Len(p) => e[Len(c) + 1] = p[i]
          BY <3>1, <2>1, WithProperties, ZenonT(40)
    <3>. QED  BY <1>3, <1>6, <3>2
  <2>4. /\ d \in Seq(Candidate) /\ Len(d) = (l + a) + b
        /\ \A k \in 1 .. l + a : d[k] = e[k]
        /\ i <= n => d[l + a + 1] = q[i]
    <3>1. e \in Seq(Candidate) /\ q \in Seq(Candidate) /\ i \in Nat \ {0} /\ d = With(e, q, i)
          BY <1>4, <2>2, <2>3
    <3>2. /\ d \in Seq(Candidate) /\ Len(d) = Len(e) + (IF i <= Len(q) THEN 1 ELSE 0)
          /\ \A k \in 1 .. Len(e) : d[k] = e[k]
          /\ i <= Len(q) => d[Len(e) + 1] = q[i]
          BY <3>1, WithProperties, ZenonT(40)
    <3>. QED  BY <1>3, <1>6, <2>3, <3>2
  <2>5. /\ \A k \in 1 .. l : k \in 1 .. l + a
        /\ i <= m => l + 1 \in 1 .. l + a
        BY <1>4, <1>6
  <2>. QED  BY <2>3, <2>4, <2>5
<1>8. /\ l = Lesser(i - 1, m) + Lesser(i - 1, n)
      /\ \A k \in 1 .. Lesser(i - 1, m) : c[k + Lesser(k - 1, n)] = p[k]
      /\ \A k \in 1 .. Lesser(i - 1, n) : c[Lesser(k, m) + k] = q[k]
      BY <1>1, <1>3 DEF Placed
<1>9. l + a + b = Lesser(i, m) + Lesser(i, n)
      BY <1>4, <1>6, <1>8 DEF Lesser
<1>10. ASSUME NEW k \in 1 .. Lesser(i, m) PROVE d[k + Lesser(k - 1, n)] = p[k]
  <2>0. k \in Nat /\ k >= 1 /\ k <= i /\ k <= m
        BY <1>4 DEF Lesser
  <2>1. CASE k = i
    <3>1. k + Lesser(k - 1, n) = l + 1 /\ i <= m
          BY <1>4, <1>8, <2>0, <2>1 DEF Lesser
    <3>. QED  BY <1>7, <2>1, <3>1
  <2>2. CASE k # i
    <3>1. k \in 1 .. Lesser(i - 1, m) /\ k + Lesser(k - 1, n) \in 1 .. l
          BY <1>4, <1>8, <2>0, <2>2 DEF Lesser
    <3>. QED  BY <1>7, <1>8, <3>1
  <2>. QED  BY <2>1, <2>2
<1>11. ASSUME NEW k \in 1 .. Lesser(i, n) PROVE d[Lesser(k, m) + k] = q[k]
  <2>0. k \in Nat /\ k >= 1 /\ k <= i /\ k <= n
        BY <1>4 DEF Lesser
  <2>1. CASE k = i
    <3>1. Lesser(k, m) + k = l + a + 1 /\ i <= n
          BY <1>4, <1>6, <1>8, <2>0, <2>1 DEF Lesser
    <3>. QED  BY <1>7, <2>1, <3>1
  <2>2. CASE k # i
    <3>1. k \in 1 .. Lesser(i - 1, n) /\ Lesser(k, m) + k \in 1 .. l
          BY <1>4, <1>8, <2>0, <2>2 DEF Lesser
    <3>. QED  BY <1>7, <1>8, <3>1
  <2>. QED  BY <2>1, <2>2
<1>12. Placed(next - 1)'
  <2>1. next' - 1 = i
        BY <1>1, <1>3, <1>4
  <2>. QED  BY <1>1, <1>3, <1>7, <1>9, <1>10, <1>11, <2>1 DEF Placed
<1>13. \A k \in DOMAIN d : Fit(d[k])
  <2>. SUFFICES ASSUME NEW k \in DOMAIN d PROVE Fit(d[k])
       OBVIOUS
  <2>1. (\A j \in 1 .. l : Fit(c[j])) /\ (\A j \in 1 .. m : Fit(p[j])) /\ (\A j \in 1 .. n : Fit(q[j]))
        BY <1>0, <1>2, <1>3, <1>4 DEF AllFit
  <2>2. k \in 1 .. l \/ (i <= m /\ k = l + 1) \/ (i <= n /\ k = l + a + 1)
    <3>1. Len(d) \in Nat /\ DOMAIN d = 1 .. Len(d)
          BY <1>7
    <3>2. k \in Nat /\ 1 <= k /\ k <= l + a + b
          BY <1>7, <3>1
    <3>. QED  BY <1>4, <1>6, <3>2
  <2>3. CASE k \in 1 .. l
        BY <1>7, <2>1, <2>3
  <2>4. CASE i <= m /\ k = l + 1
    <3>1. i \in 1 .. m /\ d[k] = p[i]
          BY <1>4, <1>7, <2>4
    <3>. QED  BY <2>1, <3>1
  <2>5. CASE i <= n /\ k = l + a + 1
    <3>1. i \in 1 .. n /\ d[k] = q[i]
          BY <1>4, <1>7, <2>5
    <3>. QED  BY <2>1, <3>1
  <2>. QED  BY <2>2, <2>3, <2>4, <2>5
<1>14. PrepareTypeOK'
  <2>1. next' \in Nat \ {0} /\ cands' \in Seq(Candidate)
        BY <1>1, <1>3, <1>4, <1>7
  <2>. QED  BY <1>0, <1>1, <2>1 DEF PrepareTypeOK
<1>15. NothingYet' /\ RouteAgrees' /\ Ordered'
      BY <1>0, <1>1, <1>12 DEF NothingYet, Unresolved, RouteAgrees, PortExplicit, Ordered
<1>16. Sorted' /\ (\A x : Fit(x)' <=> Fit(x))
      BY <1>1, SelectionStays
<1>17. (\A f \in Families : \A j \in DOMAIN byFamily[f] :
          Fit(byFamily[f][j]) /\ byFamily[f][j].addr.form = f)'
      BY <1>1, SelectionStays
<1>18. (\A k \in DOMAIN cands : Fit(cands[k]))'
      BY <1>3, <1>13, <1>16
<1>19. AllFit'
      BY <1>1, <1>17, <1>18 DEF AllFit
<1>. QED  BY <1>14, <1>15, <1>16, <1>19 DEF PrepareIInv

LEMMA EndInterleaveStep ==
    ASSUME PrepareIInv, EndInterleave
    PROVE  PrepareIInv'
<1>0. PrepareTypeOK /\ AllFit /\ Sorted /\ Ordered
      BY DEF PrepareIInv
<1>1. /\ pc = "order" /\ Ready(cands) /\ cands' = cands /\ primary # "none" /\ Placed(next - 1)
      /\ UNCHANGED <<request, route, answers, next, byFamily, primary, ctxDone>>
      BY <1>0 DEF EndInterleave, Ready, Ordered, loops
<1>2. primary \in Families /\ Other(primary) \in Families
      BY <1>0, <1>1, PrimaryTypes
<1>3. PICK m, n, t : /\ m = Len(byFamily[primary]) /\ n = Len(byFamily[Other(primary)])
                     /\ t = next - 1
      OBVIOUS
<1>4. /\ m \in Nat /\ n \in Nat /\ t \in Nat /\ t >= m /\ t >= n
      /\ Len(cands) \in Nat /\ cands \in Seq(Candidate) /\ m >= 1
  <2>1. ~ (next <= m) /\ ~ (next <= n)
        BY <1>2, <1>3 DEF EndInterleave, SomeLeft
  <2>2. m # 0
        BY <1>0, <1>1, <1>2, <1>3, PrepareTypes DEF Sorted
  <2>. QED  BY <1>0, <1>2, <1>3, <2>1, <2>2, PrepareTypes
<1>5. /\ Lesser(t, m) = m /\ Lesser(t, n) = n
      /\ Lesser(m + n, m) = m /\ Lesser(m + n, n) = n
      BY <1>4 DEF Lesser
<1>6. Placed(Len(byFamily[primary]) + Len(byFamily[Other(primary)]))
      BY <1>1, <1>3, <1>5 DEF Placed
<1>7. Placed(Len(byFamily[primary]) + Len(byFamily[Other(primary)]))'
      BY <1>1, <1>6 DEF Placed
<1>8. cands # <<>>
  <2>1. Len(cands) = m + n
        BY <1>1, <1>3, <1>5 DEF Placed
  <2>2. Len(cands) # 0
        BY <1>4, <2>1
  <2>. QED  BY <2>2
<1>9. \A i \in DOMAIN cands : Fit(cands[i])
      BY <1>0 DEF AllFit
<1>. QED  BY <1>1, <1>4, <1>7, <1>8, <1>9, ReadyStep

LEMMA PrepareInductive == PrepareIInv /\ [PrepareNext]_prepareVars => PrepareIInv'
BY RouteSteps, CancelStep, LiteralStep, AnswerStep, SortStep, EndSortStep, InterleaveStep,
   EndInterleaveStep DEF PrepareNext

-----------------------------------------------------------------------------
(* What the order means: the place of a candidate in the list *)

Place(f, k) ==
    IF f = primary THEN k + Lesser(k - 1, Len(byFamily[Other(primary)]))
                   ELSE Lesser(k, Len(byFamily[primary])) + k

\* Both kinds of places, by themselves.
LEMMA PlaceNumbers ==
    ASSUME NEW m \in Nat, NEW n \in Nat
    PROVE  /\ \A i \in 1 .. m + n : \/ \E k \in 1 .. m : i = k + Lesser(k - 1, n)
                                    \/ \E k \in 1 .. n : i = Lesser(k, m) + k
           /\ \A k \in 1 .. m : k + Lesser(k - 1, n) \in 1 .. m + n
           /\ \A k \in 1 .. n : Lesser(k, m) + k \in 1 .. m + n
<1>1. ASSUME NEW i \in 1 .. m + n
      PROVE  \/ \E k \in 1 .. m : i = k + Lesser(k - 1, n)
             \/ \E k \in 1 .. n : i = Lesser(k, m) + k
  <2>1. PICK h \in Nat : i = 2 * h \/ i = 2 * h - 1
    <3>1. i \in Nat /\ i >= 1
          OBVIOUS
    <3>2. (i + 1) \div 2 \in Nat
          BY <3>1
    <3>3. i = 2 * ((i + 1) \div 2) \/ i = 2 * ((i + 1) \div 2) - 1
          BY <3>1
    <3>. QED  BY <3>2, <3>3
  <2>2. CASE i = 2 * h - 1 /\ h <= m /\ h - 1 <= n
    <3>1. h \in 1 .. m /\ i = h + Lesser(h - 1, n)
          BY <2>1, <2>2 DEF Lesser
    <3>. QED  BY <3>1
  <2>3. CASE i = 2 * h /\ h <= m /\ h <= n
    <3>1. h \in 1 .. n /\ i = Lesser(h, m) + h
          BY <2>1, <2>3 DEF Lesser
    <3>. QED  BY <3>1
  <2>4. CASE m > n /\ i > 2 * n
    <3>1. i - n \in 1 .. m /\ i = (i - n) + Lesser((i - n) - 1, n)
          BY <2>4 DEF Lesser
    <3>. QED  BY <3>1
  <2>5. CASE m <= n /\ i > 2 * m
    <3>1. i - m \in 1 .. n /\ i = Lesser(i - m, m) + (i - m)
          BY <2>5 DEF Lesser
    <3>. QED  BY <3>1
  <2>. QED  BY <2>1, <2>2, <2>3, <2>4, <2>5
<1>2. ASSUME NEW k \in 1 .. m PROVE k + Lesser(k - 1, n) \in 1 .. m + n
      BY DEF Lesser
<1>3. ASSUME NEW k \in 1 .. n PROVE Lesser(k, m) + k \in 1 .. m + n
      BY DEF Lesser
<1>. QED  BY <1>1, <1>2, <1>3

\* A prepared list holds every candidate of the families at its place.
LEMMA EveryPlace ==
    ASSUME PrepareIInv, pc = "ready", answers # <<>>
    PROVE  /\ primary \in Families /\ Other(primary) \in Families /\ Other(primary) # primary
           /\ \A f \in Families : f = primary \/ f = Other(primary)
           /\ \A f \in Families : Len(byFamily[f]) \in Nat /\ DOMAIN byFamily[f] = 1 .. Len(byFamily[f])
           /\ DOMAIN cands = 1 .. Len(cands) /\ Len(cands) \in Nat
           /\ \A f \in Families : \A k \in DOMAIN byFamily[f] :
                 Place(f, k) \in DOMAIN cands /\ cands[Place(f, k)] = byFamily[f][k]
           /\ \A i \in DOMAIN cands : \E f \in Families : \E k \in DOMAIN byFamily[f] :
                 i = Place(f, k) /\ cands[i] = byFamily[f][k]
<1>0. PrepareTypeOK /\ Ordered
      BY DEF PrepareIInv
<1>1. primary # "none" /\ Placed(Len(byFamily[primary]) + Len(byFamily[Other(primary)]))
      BY <1>0 DEF Ordered
<1>2. /\ primary \in Families /\ Other(primary) \in Families /\ Other(primary) # primary
      /\ \A f \in Families : f = primary \/ f = Other(primary)
  <2>1. primary \in Families /\ Other(primary) \in Families /\ Other(primary) # primary
        BY <1>0, <1>1, PrimaryTypes
  <2>. QED  BY <2>1 DEF Families, Other
<1>3. PICK m, n : m = Len(byFamily[primary]) /\ n = Len(byFamily[Other(primary)])
      OBVIOUS
<1>4. /\ m \in Nat /\ n \in Nat
      /\ DOMAIN byFamily[primary] = 1 .. m /\ DOMAIN byFamily[Other(primary)] = 1 .. n
      /\ \A f \in Families : Len(byFamily[f]) \in Nat /\ DOMAIN byFamily[f] = 1 .. Len(byFamily[f])
      /\ DOMAIN cands = 1 .. Len(cands) /\ Len(cands) \in Nat
      BY <1>0, <1>2, <1>3, PrepareTypes
<1>5. Lesser(m + n, m) = m /\ Lesser(m + n, n) = n
      BY <1>4 DEF Lesser
<1>6. /\ Len(cands) = m + n
      /\ \A k \in 1 .. m : cands[k + Lesser(k - 1, n)] = byFamily[primary][k]
      /\ \A k \in 1 .. n : cands[Lesser(k, m) + k] = byFamily[Other(primary)][k]
      BY <1>1, <1>3, <1>5 DEF Placed
<1>7. /\ \A k : Place(primary, k) = k + Lesser(k - 1, n)
      /\ \A k : Place(Other(primary), k) = Lesser(k, m) + k
      BY <1>2, <1>3 DEF Place
<1>8. /\ \A i \in 1 .. m + n : \/ \E k \in 1 .. m : i = Place(primary, k)
                               \/ \E k \in 1 .. n : i = Place(Other(primary), k)
      /\ \A k \in 1 .. m : Place(primary, k) \in 1 .. m + n
      /\ \A k \in 1 .. n : Place(Other(primary), k) \in 1 .. m + n
  <2>1. /\ \A i \in 1 .. m + n : \/ \E k \in 1 .. m : i = k + Lesser(k - 1, n)
                                 \/ \E k \in 1 .. n : i = Lesser(k, m) + k
        /\ \A k \in 1 .. m : k + Lesser(k - 1, n) \in 1 .. m + n
        /\ \A k \in 1 .. n : Lesser(k, m) + k \in 1 .. m + n
        BY <1>4, PlaceNumbers
  <2>. QED  BY <1>7, <2>1
<1>9. /\ \A k \in 1 .. m : cands[Place(primary, k)] = byFamily[primary][k]
      /\ \A k \in 1 .. n : cands[Place(Other(primary), k)] = byFamily[Other(primary)][k]
      BY <1>6, <1>7
<1>10. \A f \in Families : \A k \in DOMAIN byFamily[f] :
          Place(f, k) \in DOMAIN cands /\ cands[Place(f, k)] = byFamily[f][k]
      BY <1>2, <1>4, <1>6, <1>8, <1>9
<1>11. \A i \in DOMAIN cands : \E f \in Families : \E k \in DOMAIN byFamily[f] :
          i = Place(f, k) /\ cands[i] = byFamily[f][k]
  <2>. SUFFICES ASSUME NEW i \in 1 .. m + n
                PROVE  \E f \in Families : \E k \in DOMAIN byFamily[f] :
                          i = Place(f, k) /\ cands[i] = byFamily[f][k]
       BY <1>4, <1>6
  <2>1. ASSUME NEW k \in 1 .. m, i = Place(primary, k)
        PROVE  \E f \in Families : \E j \in DOMAIN byFamily[f] :
                  i = Place(f, j) /\ cands[i] = byFamily[f][j]
        BY <1>2, <1>4, <1>9, <2>1
  <2>2. ASSUME NEW k \in 1 .. n, i = Place(Other(primary), k)
        PROVE  \E f \in Families : \E j \in DOMAIN byFamily[f] :
                  i = Place(f, j) /\ cands[i] = byFamily[f][j]
        BY <1>2, <1>4, <1>9, <2>2
  <2>. QED  BY <1>8, <2>1, <2>2
<1>. QED  BY <1>2, <1>4, <1>10, <1>11

\* Within a family the places grow; the first place is the primary family's; and
\* neighbours of one family leave none of the other behind them.
LEMMA PlacesInOrder ==
    ASSUME PrepareIInv, pc = "ready", answers # <<>>, NEW f \in Families, NEW g \in Families,
           NEW k \in DOMAIN byFamily[f], NEW l \in DOMAIN byFamily[g]
    PROVE  /\ f = g /\ Place(f, k) < Place(g, l) => k < l
           /\ Place(f, k) = 1 => f = primary /\ k = 1
           /\ \A h \in DOMAIN byFamily[f] :
                 Place(f, h) = Place(f, k) + 1 /\ Place(g, l) > Place(f, k) => f = g
<1>1. /\ primary \in Families /\ Other(primary) \in Families /\ Other(primary) # primary
      /\ \A e \in Families : e = primary \/ e = Other(primary)
      /\ \A e \in Families : Len(byFamily[e]) \in Nat /\ DOMAIN byFamily[e] = 1 .. Len(byFamily[e])
      BY EveryPlace
<1>2. PICK m, n : m = Len(byFamily[primary]) /\ n = Len(byFamily[Other(primary)])
      OBVIOUS
<1>3. m \in Nat /\ n \in Nat /\ m # 0
  <2>1. byFamily[primary] # <<>>
        BY <1>1 DEF PrepareIInv, Sorted, Families
  <2>2. byFamily[primary] \in Seq(Candidate)
        BY <1>1, PrepareTypes DEF PrepareIInv
  <2>. QED  BY <1>1, <1>2, <2>1, <2>2
<1>4. /\ \A i : Place(primary, i) = i + Lesser(i - 1, n)
      /\ \A i : Place(Other(primary), i) = Lesser(i, m) + i
      BY <1>1, <1>2 DEF Place
<1>5. /\ f = primary => k \in 1 .. m
      /\ f # primary => f = Other(primary) /\ k \in 1 .. n
      /\ g = primary => l \in 1 .. m
      /\ g # primary => g = Other(primary) /\ l \in 1 .. n
      BY <1>1, <1>2
<1>6. f = g /\ Place(f, k) < Place(g, l) => k < l
  <2>1. CASE f = primary
        BY <1>3, <1>4, <1>5, <2>1 DEF Lesser
  <2>2. CASE f # primary
        BY <1>3, <1>4, <1>5, <2>2 DEF Lesser
  <2>. QED  BY <2>1, <2>2
<1>7. Place(f, k) = 1 => f = primary /\ k = 1
  <2>1. CASE f = primary
        BY <1>3, <1>4, <1>5, <2>1 DEF Lesser
  <2>2. CASE f # primary
        BY <1>3, <1>4, <1>5, <2>2 DEF Lesser
  <2>. QED  BY <2>1, <2>2
<1>8. ASSUME NEW h \in DOMAIN byFamily[f], Place(f, h) = Place(f, k) + 1,
             Place(g, l) > Place(f, k), f # g
      PROVE  FALSE
  <2>1. CASE f = primary
    <3>1. k \in 1 .. m /\ h \in 1 .. m /\ l \in 1 .. n /\ g = Other(primary)
          BY <1>1, <1>2, <1>5, <1>8, <2>1
    <3>2. /\ h + Lesser(h - 1, n) = k + Lesser(k - 1, n) + 1
          /\ Lesser(l, m) + l > k + Lesser(k - 1, n)
          BY <1>4, <1>8, <2>1, <3>1
    <3>. QED  BY <1>3, <3>1, <3>2 DEF Lesser
  <2>2. CASE f # primary
    <3>1. k \in 1 .. n /\ h \in 1 .. n /\ l \in 1 .. m /\ f = Other(primary) /\ g = primary
          BY <1>1, <1>2, <1>5, <1>8, <2>2
    <3>2. /\ Lesser(h, m) + h = Lesser(k, m) + k + 1
          /\ l + Lesser(l - 1, n) > Lesser(k, m) + k
          BY <1>4, <1>8, <3>1
    <3>. QED  BY <1>3, <3>1, <3>2 DEF Lesser
  <2>. QED  BY <2>1, <2>2
<1>. QED  BY <1>6, <1>7, <1>8

-----------------------------------------------------------------------------
(* The properties *)

LEMMA PolicyFollows == PrepareIInv => CandidatesFollowPolicy
<1>. SUFFICES ASSUME PrepareIInv, pc = "ready", NEW i \in DOMAIN cands, NEW a, a = cands[i].addr
              PROVE  /\ a.form \in {"v4", "v6"}
                     /\ request.family = "4" => a.form = "v4"
                     /\ request.family = "6" => a.form = "v6"
                     /\ ~ request.allowPrivate => (a.listed => a.zoned)
     BY DEF CandidatesFollowPolicy
<1>1. a.form \in Families /\ Usable(a)
      BY DEF PrepareIInv, AllFit, Fit
<1>2. Unmap(a) = a /\ a.form \in {"v4", "v6"}
      BY <1>1 DEF Unmap, Families
<1>3. request.family = "4" => a.form = "v4"
      BY <1>1, <1>2 DEF Usable, matches
<1>4. request.family = "6" => a.form = "v6"
      BY <1>1, <1>2 DEF Usable, matches
<1>5. ~ request.allowPrivate => (a.listed => a.zoned)
      BY <1>1, <1>2 DEF Usable, isNonPublicAddr
<1>. QED  BY <1>2, <1>3, <1>4, <1>5

LEMMA PortsFollow == PrepareIInv => PortsAgree
<1>. SUFFICES ASSUME PrepareIInv, pc = "ready" PROVE PortsAgree
     BY DEF PortsAgree
<1>0. RouteAgrees /\ AllFit
      BY DEF PrepareIInv
<1>1. request.edition = "java" =>
         /\ route.handshake.host = request.host /\ route.handshake.port = route.dial.port
         /\ PortExplicit => route.dial.port = request.port
      BY <1>0 DEF RouteAgrees
<1>2. cands # <<>> /\ \A i \in DOMAIN cands : Fit(cands[i])
      BY <1>0 DEF AllFit
<1>3. request.edition \in {"java", "bedrock"}
      BY DEF PrepareIInv, PrepareTypeOK, Requests
<1>4. ASSUME NEW i \in DOMAIN cands, NEW c, c = cands[i]
      PROVE  /\ PortExplicit => c.port = request.port
             /\ request.edition = "java" => c.port = route.handshake.port
             /\ request.edition = "bedrock" /\ ~ PortExplicit =>
                   c.port = IF c.addr.form = "v6" THEN 19133 ELSE 19132
  <2>1. c.addr.form \in Families /\ c.port = PortFor(c.addr)
        BY <1>2, <1>4 DEF Fit
  <2>2. Is6(c.addr) <=> c.addr.form = "v6"
        BY <2>1 DEF Families, Is6, Unmap
  <2>3. CASE request.edition = "java"
        BY <1>1, <2>1, <2>3 DEF PortFor
  <2>4. CASE request.edition = "bedrock"
        BY <2>1, <2>2, <2>4 DEF PortFor, BedrockPort
  <2>. QED  BY <1>3, <2>3, <2>4
<1>. QED  BY <1>1, <1>2, <1>4 DEF PortsAgree

LEMMA AlternationFollows == PrepareIInv => CandidatesAlternate
<1>. SUFFICES ASSUME PrepareIInv, pc = "ready", answers # <<>> PROVE CandidatesAlternate
     BY DEF CandidatesAlternate
<1>. DEFINE addrs == [i \in DOMAIN cands |-> cands[i].addr]
<1>0. PrepareTypeOK /\ AllFit /\ Sorted
      BY DEF PrepareIInv
<1>1. /\ \A f \in Families : \A k \in DOMAIN byFamily[f] :
            Place(f, k) \in DOMAIN cands /\ cands[Place(f, k)] = byFamily[f][k]
      /\ \A i \in DOMAIN cands : \E f \in Families : \E k \in DOMAIN byFamily[f] :
            i = Place(f, k) /\ cands[i] = byFamily[f][k]
      /\ primary \in Families /\ Other(primary) \in Families
      /\ \A f \in Families : f = primary \/ f = Other(primary)
      /\ \A f \in Families : Len(byFamily[f]) \in Nat /\ DOMAIN byFamily[f] = 1 .. Len(byFamily[f])
      /\ DOMAIN cands = 1 .. Len(cands) /\ Len(cands) \in Nat
      BY EveryPlace
<1>2. /\ \A f \in Families : \A k \in DOMAIN byFamily[f] :
            /\ byFamily[f][k].addr.form = f /\ Usable(byFamily[f][k].addr)
            /\ (Is6(byFamily[f][k].addr) <=> f = "v6")
            /\ \E j \in DOMAIN answers : Unmap(answers[j]) = byFamily[f][k].addr
  <2>1. \A f \in Families : \A k \in DOMAIN byFamily[f] :
            byFamily[f][k].addr.form = f /\ Usable(byFamily[f][k].addr)
        BY <1>0 DEF AllFit, Fit
  <2>2. \A c : \A f \in Families : c.addr.form = f => (Is6(c.addr) <=> f = "v6")
        BY DEF Families, Is6, Unmap
  <2>3. \A f \in Families : \A k \in DOMAIN byFamily[f] :
            \E j \in DOMAIN answers : Unmap(answers[j]) = byFamily[f][k].addr
        BY <1>0 DEF Sorted, Taken
  <2>. QED  BY <2>1, <2>2, <2>3
<1>3. /\ DOMAIN addrs = DOMAIN cands /\ Len(addrs) = Len(cands)
      /\ \A i \in DOMAIN cands : addrs[i] = cands[i].addr
  <2>1. addrs \in Seq({cands[i].addr : i \in DOMAIN cands})
        BY <1>1
  <2>2. DOMAIN addrs = 1 .. Len(addrs) /\ Len(addrs) \in Nat /\ DOMAIN addrs = 1 .. Len(cands)
        BY <1>1, <2>1
  <2>. QED  BY <1>1, <2>2
<1>. HIDE DEF addrs
\* The entry at a place.
<1>4. ASSUME NEW i \in DOMAIN cands
      PROVE  \E f \in Families : \E k \in DOMAIN byFamily[f] :
                i = Place(f, k) /\ addrs[i] = byFamily[f][k].addr
      BY <1>1, <1>3
<1>5. ToSet(addrs) = {Unmap(a) : a \in {b \in ToSet(answers) : Usable(b)}}
  <2>1. ASSUME NEW i \in DOMAIN cands
        PROVE  \E j \in DOMAIN answers : Usable(answers[j]) /\ addrs[i] = Unmap(answers[j])
    <3>1. PICK j \in DOMAIN answers : Unmap(answers[j]) = addrs[i] /\ Usable(addrs[i])
          BY <1>2, <1>4
    <3>2. answers[j] \in Address
          BY <1>0, PrepareTypes
    <3>. QED  BY <3>1, <3>2, UnmapUsable
  <2>2. ASSUME NEW j \in DOMAIN answers, Usable(answers[j])
        PROVE  \E i \in DOMAIN cands : addrs[i] = Unmap(answers[j])
    <3>1. answers[j] \in Address
          BY <1>0, PrepareTypes
    <3>2. Known(Unmap(answers[j]))
      <4>1. Usable(Unmap(answers[j]))
            BY <2>2, <3>1, UnmapUsable
      <4>2. Taken = DOMAIN answers
            BY DEF Taken
      <4>. QED  BY <1>0, <4>1, <4>2 DEF Sorted
    <3>3. PICK f \in Families : \E k \in DOMAIN byFamily[f] : byFamily[f][k].addr = Unmap(answers[j])
          BY <3>2 DEF Known
    <3>4. PICK k \in DOMAIN byFamily[f] : byFamily[f][k].addr = Unmap(answers[j])
          BY <3>3
    <3>5. Place(f, k) \in DOMAIN cands /\ addrs[Place(f, k)] = Unmap(answers[j])
          BY <1>1, <1>3, <3>4
    <3>. QED  BY <3>5
  <2>. DEFINE U == {Unmap(a) : a \in {b \in ToSet(answers) : Usable(b)}}
  <2>3. \A x : x \in ToSet(addrs) <=> \E i \in DOMAIN cands : x = addrs[i]
        BY <1>3 DEF ToSet
  <2>4. \A x : x \in U <=> \E j \in DOMAIN answers : Usable(answers[j]) /\ x = Unmap(answers[j])
        BY DEF ToSet
  <2>. HIDE DEF U
  <2>5. \A x : x \in ToSet(addrs) => x \in U
        BY <2>1, <2>3, <2>4
  <2>6. \A x : x \in U => x \in ToSet(addrs)
        BY <2>2, <2>3, <2>4
  <2>7. ToSet(addrs) = U
        BY <2>5, <2>6
  <2>. QED  BY <2>7 DEF U
<1>6. ASSUME NEW i \in DOMAIN cands, NEW j \in DOMAIN cands
      PROVE  /\ i # j => addrs[i] # addrs[j]
             /\ i < j /\ (i = 1 \/ Is6(addrs[i]) = Is6(addrs[j])) =>
                    FirstAt(addrs[i]) < FirstAt(addrs[j])
  <2>1. PICK f, k :
           f \in Families /\ k \in DOMAIN byFamily[f] /\ i = Place(f, k) /\ addrs[i] = byFamily[f][k].addr
        BY <1>4
  <2>2. PICK g, l :
           g \in Families /\ l \in DOMAIN byFamily[g] /\ j = Place(g, l) /\ addrs[j] = byFamily[g][l].addr
        BY <1>4
  <2>3. FirstAt(addrs[i]) = First(f, k) /\ FirstAt(addrs[j]) = First(g, l)
        BY <2>1, <2>2 DEF First
  <2>4. f = g => (k < l => First(f, k) < First(g, l)) /\ (l < k => First(g, l) < First(f, k))
        BY <1>0, <2>1, <2>2 DEF Sorted
  <2>5. k \in Nat /\ l \in Nat /\ i \in Nat /\ j \in Nat
        BY <1>1, <2>1, <2>2
  <2>6. First(f, k) \in Nat /\ First(g, l) \in Nat
    <3>1. PICK x \in DOMAIN answers : Unmap(answers[x]) = byFamily[f][k].addr
          BY <1>2, <2>1
    <3>2. PICK y \in DOMAIN answers : Unmap(answers[y]) = byFamily[g][l].addr
          BY <1>2, <2>2
    <3>3. Len(answers) \in Nat /\ DOMAIN answers = 1 .. Len(answers)
          BY <1>0, PrepareTypes
    <3>4. FirstAt(byFamily[f][k].addr) \in DOMAIN answers
          BY <3>1, <3>3, FirstPlace
    <3>5. FirstAt(byFamily[g][l].addr) \in DOMAIN answers
          BY <3>2, <3>3, FirstPlace
    <3>. QED  BY <3>3, <3>4, <3>5 DEF First
  <2>7. ASSUME i # j, addrs[i] = addrs[j] PROVE FALSE
    <3>1. f = g
      <4>1. byFamily[f][k].addr.form = f /\ byFamily[g][l].addr.form = g
            BY <1>2, <2>1, <2>2
      <4>. QED  BY <2>1, <2>2, <2>7, <4>1
    <3>2. k # l
          BY <2>1, <2>2, <2>7, <3>1
    <3>3. First(f, k) = First(g, l)
          BY <2>3, <2>7
    <3>. QED  BY <2>4, <2>5, <2>6, <3>1, <3>2, <3>3
  <2>8. ASSUME i < j, i = 1 \/ Is6(addrs[i]) = Is6(addrs[j])
        PROVE  First(f, k) < First(g, l)
    <3>1. CASE f = g
      <4>1. k < l
            BY <2>1, <2>2, <2>8, <3>1, PlacesInOrder
      <4>. QED  BY <2>4, <3>1, <4>1
    <3>2. CASE f # g
      <4>1. i = 1
            BY <1>2, <2>1, <2>2, <2>8, <3>2 DEF Families
      <4>2. f = primary /\ k = 1
            BY <2>1, <4>1, PlacesInOrder
      <4>3. g = Other(primary) /\ primary # "none"
            BY <1>1, <2>2, <3>2, <4>2 DEF Families
      <4>. QED  BY <1>0, <2>2, <4>2, <4>3 DEF Sorted
    <3>. QED  BY <3>1, <3>2
  <2>. QED  BY <2>3, <2>7, <2>8
<1>7. ASSUME NEW i \in 1 .. Len(addrs) - 1, Is6(addrs[i + 1]) = Is6(addrs[i]),
             NEW j \in DOMAIN addrs, j > i, Is6(addrs[j]) = ~ Is6(addrs[i])
      PROVE  FALSE
  <2>1. i \in DOMAIN cands /\ i + 1 \in DOMAIN cands /\ j \in DOMAIN cands
        BY <1>1, <1>3
  <2>2. PICK f, k :
           f \in Families /\ k \in DOMAIN byFamily[f] /\ i = Place(f, k) /\ addrs[i] = byFamily[f][k].addr
        BY <1>4, <2>1
  <2>3. PICK e, h :
           e \in Families /\ h \in DOMAIN byFamily[e] /\ i + 1 = Place(e, h) /\ addrs[i + 1] = byFamily[e][h].addr
        BY <1>4, <2>1
  <2>4. PICK g, l :
           g \in Families /\ l \in DOMAIN byFamily[g] /\ j = Place(g, l) /\ addrs[j] = byFamily[g][l].addr
        BY <1>4, <2>1
  <2>5. e = f /\ g # f
        BY <1>2, <1>7, <2>2, <2>3, <2>4, ZenonT(40) DEF Families
  <2>. QED  BY <1>7, <2>2, <2>3, <2>4, <2>5, PlacesInOrder
<1>. QED  BY <1>3, <1>5, <1>6, <1>7 DEF CandidatesAlternate, addrs

\* Preparation keeps its variables in their types.
THEOREM PrepareTypeCorrect == PrepareSpec => []PrepareTypeOK
<1>1. PrepareIInv => PrepareTypeOK
      BY DEF PrepareIInv
<1>. QED  BY PrepareInitEstablishes, PrepareInductive, <1>1, PTL DEF PrepareSpec

\* However an address came in, only one that the options allow is dialed
\* (address.go:32-93, bedrock.go:105-131).
THEOREM PolicyHolds == PrepareSpec => []CandidatesFollowPolicy
BY PrepareInitEstablishes, PrepareInductive, PolicyFollows, PTL DEF PrepareSpec

\* The candidates are the usable answers, each once, in the resolver's order
\* within a family and with the families taking turns (address.go:95-156).
THEOREM AlternationHolds == PrepareSpec => []CandidatesAlternate
BY PrepareInitEstablishes, PrepareInductive, AlternationFollows, PTL DEF PrepareSpec

\* The port dialed, the port in the handshake and the port asked for agree
\* (java.go:75-106, editions.go:101-112).
THEOREM PortsHold == PrepareSpec => []PortsAgree
BY PrepareInitEstablishes, PrepareInductive, PortsFollow, PTL DEF PrepareSpec

=============================================================================
