--------------------------- MODULE CmdLineProofs ---------------------------
(***************************************************************************)
(* Parse does what the words mean: for every set of words, every           *)
(* declaration of options, and any number of words in argv.                *)
(***************************************************************************)
EXTENDS CmdLine, WellFoundedInduction, TLAPS

-----------------------------------------------------------------------------
(* What argv means is defined by a condition on a set; there is such a set. *)

Marks(S, takes, n) == \A i \in 1 .. n : i \in S <=> ~(i - 1 \in S /\ takes[i - 1])

\* A set for n - 1 words becomes one for n words.
LEMMA MarkOneMore ==
  ASSUME NEW takes, NEW n \in Nat \ {0}, NEW S \in SUBSET (1 .. n - 1), Marks(S, takes, n - 1)
  PROVE  \E T \in SUBSET (1 .. n) : Marks(T, takes, n)
<1> DEFINE T == IF n - 1 \in S /\ takes[n - 1] THEN S ELSE S \cup {n}
<1>1. T \in SUBSET (1 .. n)  OBVIOUS
<1>2. \A i \in 0 .. n - 1 : i \in T <=> i \in S  OBVIOUS
<1>3. n \in T <=> ~(n - 1 \in S /\ takes[n - 1])  OBVIOUS
<1>4. ASSUME NEW i \in 1 .. n PROVE i \in T <=> ~(i - 1 \in T /\ takes[i - 1])
  <2>1. i - 1 \in 0 .. n - 1  OBVIOUS
  <2>2. i - 1 \in T <=> i - 1 \in S  BY <1>2, <2>1
  <2>3. CASE i = n  BY <1>3, <2>2, <2>3
  <2>4. CASE i # n
    <3>1. i \in 1 .. n - 1  BY <2>4
    <3>2. i \in T <=> i \in S  BY <1>2, <3>1
    <3>3. QED  BY <2>2, <3>1, <3>2 DEF Marks
  <2>5. QED  BY <2>3, <2>4
<1>5. QED  BY <1>1, <1>4 DEF Marks

\* There is a set for any number of words: there is no least number without one.
LEMMA MarksExist ==
  ASSUME NEW takes, NEW n \in Nat
  PROVE  \E S \in SUBSET (1 .. n) : Marks(S, takes, n)
<1> DEFINE Unmarked == {m \in Nat : ~\E S \in SUBSET (1 .. m) : Marks(S, takes, m)}
<1> SUFFICES ASSUME Unmarked # {} PROVE FALSE  OBVIOUS
<1>1. Unmarked \subseteq Nat  OBVIOUS
<1>2. PICK m \in Unmarked : \A k \in Unmarked : ~(<<k, m>> \in OpToRel(<, Nat))
  BY <1>1, NatLessThanWellFounded, WFMin
<1>3. CASE m = 0
  <2>1. Marks({}, takes, 0)  BY DEF Marks
  <2>2. QED  BY <1>3, <2>1
<1>4. CASE m # 0
  <2>1. m \in Nat \ {0} /\ m - 1 \in Nat  BY <1>4
  <2>2. m - 1 \notin Unmarked
    <3>1. <<m - 1, m>> \in OpToRel(<, Nat)  BY <2>1 DEF OpToRel
    <3>2. QED  BY <1>2, <3>1
  <2>3. PICK S \in SUBSET (1 .. m - 1) : Marks(S, takes, m - 1)  BY <2>1, <2>2
  <2>4. \E T \in SUBSET (1 .. m) : Marks(T, takes, m)  BY <2>1, <2>3, MarkOneMore
  <2>5. QED  BY <2>4
<1>5. QED  BY <1>3, <1>4

\* The choice satisfies its condition.
LEMMA OptionsMarked ==
  ASSUME NEW n \in Nat, NEW takes, DOMAIN takes = 1 .. n
  PROVE  /\ OptionsAmong(takes) \subseteq 1 .. n
         /\ \A i \in 1 .. n :
              i \in OptionsAmong(takes) <=> ~(i - 1 \in OptionsAmong(takes) /\ takes[i - 1])
<1>1. \E S \in SUBSET DOMAIN takes : \A i \in DOMAIN takes : i \in S <=> ~(i - 1 \in S /\ takes[i - 1])
  BY MarksExist DEF Marks
<1>2. QED  BY <1>1 DEF OptionsAmong
-----------------------------------------------------------------------------
(* What the invariant says of one state. *)

\* The words are numbered from 1, and so are the options declared.
LEMMA Numbered ==
  ASSUME TypeOK
  PROVE  /\ Len(argv) \in Nat /\ DOMAIN argv = 1 .. Len(argv)
         /\ \A i \in DOMAIN argv : argv[i] \in Words
         /\ Len(decls) \in Nat /\ DOMAIN decls = 1 .. Len(decls)
         /\ registered \in Nat /\ registered <= Len(decls)
         /\ parse_index \in Nat \ {0} /\ parse_index <= Len(argv) + 1
<1>1. argv \in Seq(Words)  BY DEF TypeOK
<1>2. Len(argv) \in Nat /\ DOMAIN argv = 1 .. Len(argv) /\ \A i \in DOMAIN argv : argv[i] \in Words
  BY <1>1
<1>3. Len(decls) \in Nat /\ DOMAIN decls = 1 .. Len(decls)  BY CmdLineAssumption DEF TypeOK
<1>4. registered \in 0 .. Len(decls) /\ parse_index \in 1 .. Len(argv) + 1  BY DEF TypeOK
<1>5. QED  BY <1>2, <1>3, <1>4

\* A word is an option unless the one before it takes it.
LEMMA OptionsAre ==
  ASSUME TypeOK
  PROVE  /\ OptionAt \subseteq DOMAIN argv
         /\ \A i \in DOMAIN argv :
              i \in OptionAt <=> ~(i - 1 \in OptionAt /\ TakesNext(argv[i - 1]))
<1> DEFINE takes == [i \in DOMAIN argv |-> TakesNext(argv[i])]
<1>1. Len(argv) \in Nat /\ DOMAIN argv = 1 .. Len(argv)  BY Numbered
<1>2. DOMAIN takes = 1 .. Len(argv)  BY <1>1
<1>3. /\ OptionsAmong(takes) \subseteq 1 .. Len(argv)
      /\ \A i \in 1 .. Len(argv) :
           i \in OptionsAmong(takes) <=> ~(i - 1 \in OptionsAmong(takes) /\ takes[i - 1])
  <2> HIDE DEF takes
  <2>1. QED  BY <1>1, <1>2, OptionsMarked
<1>4. OptionAt = OptionsAmong(takes)  BY DEF OptionAt
<1>5. \A i \in OptionAt : takes[i] = TakesNext(argv[i])  BY <1>1, <1>3, <1>4
<1> HIDE DEF takes
<1>6. QED  BY <1>1, <1>3, <1>4, <1>5

\* What argv means depends on which options there are and on their types.
LEMMA SameMeaning ==
  ASSUME TypeOK, argv' = argv, DOMAIN opts' = DOMAIN opts,
         \A name \in DOMAIN opts : opts'[name].type = opts[name].type
  PROVE  /\ OptionAt' = OptionAt
         /\ \A name : Given(name)' = Given(name)
         /\ \A i \in DOMAIN argv :
              /\ TakesNext(argv[i])' <=> TakesNext(argv[i])
              /\ Wrong(i)' <=> Wrong(i)
              /\ IsHelp(argv[i])' <=> IsHelp(argv[i])
              /\ Lex[argv[i]].name \in DOMAIN opts => ValueAt(i)' = ValueAt(i)
<1>1. \A w : (IsKnown(w)' <=> IsKnown(w)) /\ (IsSwitch(w)' <=> IsSwitch(w))
  BY DEF IsKnown, IsSwitch, IsOption, IsHelp
<1>2. \A w : TakesNext(w)' = TakesNext(w)  BY <1>1 DEF TakesNext, HasArgument
<1>3. [i \in DOMAIN argv |-> TakesNext(argv[i])]' = [i \in DOMAIN argv |-> TakesNext(argv[i])]
  BY <1>2
<1>4. OptionAt' = OptionAt  BY <1>3 DEF OptionAt
<1>5. \A name : Given(name)' = Given(name)  BY <1>4 DEF Given, IsOption
<1>6. ASSUME NEW i \in DOMAIN argv
      PROVE  /\ TakesNext(argv[i])' <=> TakesNext(argv[i])
             /\ Wrong(i)' <=> Wrong(i)
             /\ IsHelp(argv[i])' <=> IsHelp(argv[i])
             /\ Lex[argv[i]].name \in DOMAIN opts => ValueAt(i)' = ValueAt(i)
  <2>1. Wrong(i)' <=> Wrong(i)  BY <1>1, <1>2 DEF Wrong
  <2>2. IsHelp(argv[i])' <=> IsHelp(argv[i])  BY DEF IsHelp, IsOption
  <2>3. Lex[argv[i]].name \in DOMAIN opts => ValueAt(i)' = ValueAt(i)
    BY <1>1 DEF ValueAt, Convert, HasArgument
  <2>4. QED  BY <1>2, <2>1, <2>2, <2>3
<1>7. QED  BY <1>4, <1>5, <1>6

\* Where every program starts.
LEMMA InitIInv == Init => IInv
<1> SUFFICES ASSUME Init PROVE IInv  OBVIOUS
<1>1. DOMAIN opts = {}  BY DEF Init
<1>2. TypeOK
  <2>1. PICK n \in 0 .. MaxArgs : argv \in [1 .. n -> Words]  BY DEF Init
  <2>2. argv \in Seq(Words)  BY <2>1, CmdLineAssumption
  <2>3. Len(argv) \in Nat  BY <2>2
  <2>4. Len(decls) \in Nat  BY CmdLineAssumption DEF Init
  <2>5. QED  BY <1>1, <2>2, <2>3, <2>4 DEF Init, TypeOK
<1>3. Declared  BY <1>1 DEF Init, Declared
<1>4. Progress
  <2>1. OptionAt \subseteq 1 .. Len(argv) /\ Len(argv) \in Nat  BY <1>2, OptionsAre, Numbered
  <2>2. parse_index = 1 /\ registered = 0  BY DEF Init
  <2>3. QED  BY <2>1, <2>2 DEF Progress
<1>5. ParsedRight  BY DEF Init, ParsedRight
<1>6. QED  BY <1>2, <1>3, <1>4, <1>5 DEF IInv
-----------------------------------------------------------------------------
(* Declaring. *)

\* Once the program ends, nothing else changes.
LEMMA EndKeeps ==
  ASSUME IInv, UNCHANGED <<given, registered, opts, parse_index>>,
         exit' \in {"running", "started", "0", "-1", "-2", "crash"}
  PROVE  /\ TypeOK' /\ Declared' /\ Progress'
         /\ OptionAt' = OptionAt /\ \A name : Given(name)' = Given(name)
         /\ \A i :
              /\ Wrong(i)' <=> Wrong(i)
              /\ FirstWrong(i)' <=> FirstWrong(i)
              /\ IsHelp(argv[i])' <=> IsHelp(argv[i])
              /\ ValueAt(i)' = ValueAt(i)
<1>1. UNCHANGED <<decls, argv, usage, registered, opts, parse_index>>
  BY DEF given
<1>2. TypeOK'
  BY <1>1 DEF IInv, TypeOK, ValuesOf, Numbers, Texts, DefaultsOf, HasArgument
<1>3. Declared'  BY <1>1 DEF IInv, Declared
<1>4. OptionAt' = OptionAt  BY <1>1 DEF OptionAt, TakesNext, IsKnown, IsSwitch, IsOption, IsHelp, HasArgument
<1>5. \A name : Given(name)' = Given(name)  BY <1>1, <1>4 DEF Given
<1>6. \A i : Wrong(i)' <=> Wrong(i)
  BY <1>1 DEF Wrong, TakesNext, IsKnown, IsSwitch, IsOption, IsHelp, HasArgument
<1>7. \A i : ValueAt(i)' = ValueAt(i)
  BY <1>1 DEF ValueAt, Convert, IsKnown, IsSwitch, IsOption, IsHelp, HasArgument
<1>8. Progress'
  <2>1. TakesNext(argv[parse_index - 1])' <=> TakesNext(argv[parse_index - 1])
    BY <1>1 DEF TakesNext, IsKnown, IsSwitch, IsOption, IsHelp, HasArgument
  <2>2. QED
    BY <1>1, <1>4, <1>5, <1>6, <1>7, <2>1 DEF IInv, Progress, NotGiven, IsLast
<1>9. \A i : (FirstWrong(i)' <=> FirstWrong(i)) /\ (IsHelp(argv[i])' <=> IsHelp(argv[i]))
  BY <1>1, <1>4, <1>6 DEF FirstWrong, IsHelp, IsOption
<1>10. QED  BY <1>2, <1>3, <1>4, <1>5, <1>6, <1>7, <1>8, <1>9

\* A mistake in the declarations, or no usage: nothing has been parsed.
LEMMA SetOptCheckStep == ASSUME IInv, SetOptCheck \/ NoUsage PROVE IInv'
<1>1. PICK status \in {"-1", "-2"} : End(status)  BY DEF SetOptCheck, NoUsage
<1>2. TypeOK' /\ Declared' /\ Progress'  BY <1>1, EndKeeps DEF End
<1>3. ~(registered = Len(decls) /\ usage)  BY DEF SetOptCheck, NoUsage, Declaring, IInv, TypeOK
<1>4. UNCHANGED <<registered, decls, usage>>  BY <1>1 DEF End, given
<1>5. ParsedRight'  BY <1>3, <1>4 DEF ParsedRight
<1>6. QED  BY <1>2, <1>5 DEF IInv

\* A new option has its default, and nothing has been given yet.
LEMMA DeclareStep == ASSUME IInv, Declare PROVE IInv'
<1> DEFINE d == decls[registered + 1]
<1>1. /\ exit = "running" /\ registered < Len(decls) /\ d.name \notin DOMAIN opts
      /\ opts' = [name \in DOMAIN opts \cup {d.name} |->
                    IF name \in DOMAIN opts THEN opts[name] ELSE NewOpt(d)]
      /\ registered' = registered + 1
      /\ UNCHANGED <<decls, argv, usage, parse_index, exit>>
  BY DEF Declare, Declaring, Declaration, given
<1>2. /\ Len(decls) \in Nat /\ DOMAIN decls = 1 .. Len(decls)
      /\ registered \in Nat /\ registered + 1 \in DOMAIN decls
  BY <1>1, Numbered DEF IInv
<1>3. /\ d.type \in Types /\ d.required \in BOOLEAN
      /\ d.type = "bool" => d.default = "false" /\ ~d.required
  BY <1>2, CmdLineAssumption DEF IInv, TypeOK
<1>4. /\ NewOpt(d).type = d.type /\ NewOpt(d).required = d.required
      /\ NewOpt(d).value = d.default /\ NewOpt(d).value_is_set = ~d.required
  BY DEF NewOpt
<1> HIDE DEF d
<1>5. opts'[d.name] = NewOpt(d) /\ \A name \in DOMAIN opts : opts'[name] = opts[name]
  BY <1>1
<1>6. TypeOK'
  <2>1. d.default \in ValuesOf(d.type)
    <3>1. d.type # "bool" => d.default \in DefaultsOf(d.type)  BY <1>2 DEF DefaultsOf, d
    <3>2. QED  BY <1>3, <3>1 DEF ValuesOf
  <2>3. ASSUME NEW name \in DOMAIN opts'
        PROVE  opts'[name] \in [type : Types, required : BOOLEAN,
                                value : ValuesOf(opts'[name].type), value_is_set : BOOLEAN]
    <3>1. CASE name \in DOMAIN opts  BY <1>5, <3>1 DEF IInv, TypeOK
    <3>2. CASE name = d.name
      <4>1. NewOpt(d) \in [type : Types, required : BOOLEAN,
                           value : ValuesOf(d.type), value_is_set : BOOLEAN]
        BY <1>3, <2>1 DEF NewOpt
      <4>2. QED  BY <1>4, <1>5, <3>2, <4>1
    <3>3. QED  BY <1>1, <3>1, <3>2
  <2>4. registered' \in 0 .. Len(decls)  BY <1>1, <1>2
  <2>5. \A type : ValuesOf(type)' = ValuesOf(type)
    BY <1>1 DEF ValuesOf, Numbers, Texts, DefaultsOf, HasArgument
  <2>6. QED  BY <1>1, <2>3, <2>4, <2>5 DEF IInv, TypeOK
<1>7. Declared'
  <2>1. \A k \in 1 .. registered' : k \in 1 .. registered \/ k = registered + 1  BY <1>1, <1>2
  <2>2. \A k \in 1 .. registered : decls[k].name \in DOMAIN opts  BY DEF IInv, Declared
  <2>3. DOMAIN opts' = {decls[k].name : k \in 1 .. registered'}
    <3>1. DOMAIN opts' = DOMAIN opts \cup {d.name}  BY <1>1
    <3>2. 1 .. registered' = 1 .. registered \cup {registered + 1}  BY <1>1, <1>2
    <3>3. QED  BY <3>1, <3>2 DEF IInv, Declared, d
  <2>4. ASSUME NEW k \in 1 .. registered', NEW l \in 1 .. registered', decls[k].name = decls[l].name
        PROVE  k = l
    BY <1>1, <2>1, <2>2, <2>4 DEF IInv, Declared, d
  <2>5. ASSUME NEW k \in 1 .. registered'
        PROVE  LET opt == opts'[decls[k].name] IN
               opt.type = decls[k].type /\ opt.required = decls[k].required
    <3>1. CASE k = registered + 1  BY <1>4, <1>5, <3>1 DEF d
    <3>2. CASE k \in 1 .. registered  BY <1>5, <2>2, <3>2 DEF IInv, Declared
    <3>3. QED  BY <2>1, <3>1, <3>2
  <2>6. decls' = decls  BY <1>1
  <2>7. QED  BY <2>3, <2>4, <2>5, <2>6 DEF Declared
<1>8. Progress'
  <2>1. parse_index = 1 /\ parse_index' = 1  BY <1>1 DEF IInv, Progress
  <2>2. OptionAt' \subseteq 1 .. Len(argv) /\ Len(argv) \in Nat
    <3>1. (OptionAt \subseteq DOMAIN argv)' /\ (DOMAIN argv = 1 .. Len(argv))' /\ (Len(argv) \in Nat)'
      BY <1>6, OptionsAre, Numbered, PTL
    <3>2. QED  BY <1>1, <3>1
  <2>3. \A name : NotGiven(name, 1)'  BY <2>2 DEF NotGiven, Given
  <2>4. ASSUME NEW k \in 1 .. registered'
        PROVE  LET opt == opts'[decls[k].name] IN
               opt.value = decls[k].default /\ opt.value_is_set = ~decls[k].required
    <3>1. CASE k = registered + 1  BY <1>4, <1>5, <3>1 DEF d
    <3>2. CASE k \in 1 .. registered
      <4>1. decls[k].name \in DOMAIN opts  BY <3>2 DEF IInv, Declared
      <4>2. ~ \E i \in DOMAIN argv : IsLast(i, decls[k].name, parse_index)
        BY <2>1, Numbered DEF IsLast, IInv
      <4>3. /\ opts[decls[k].name].value = decls[k].default
            /\ opts[decls[k].name].value_is_set = ~decls[k].required
        BY <3>2, <4>2 DEF IInv, Progress
      <4>4. QED  BY <1>5, <4>1, <4>3
    <3>3. QED  BY <1>1, <1>2, <3>1, <3>2
  <2>5. ~(parse_index' - 1 \in OptionAt')  BY <2>1, <2>2
  <2>6. \A i \in OptionAt' : ~(i < parse_index')  BY <2>1, <2>2
  <2>7. \A k \in 1 .. registered' :
          LET opt == opts'[decls[k].name] IN
          /\ NotGiven(decls[k].name, 1)'
          /\ opt.value = decls[k].default /\ opt.value_is_set = ~decls[k].required
    BY <2>3, <2>4
  <2>8. registered < Len(decls) /\ parse_index' = 1 /\ decls' = decls  BY <1>1, <2>1
  <2>9. (\A k \in 1 .. registered :
           LET opt == opts[decls[k].name] IN
           /\ NotGiven(decls[k].name, parse_index)
           /\ opt.value = decls[k].default /\ opt.value_is_set = ~decls[k].required)'
    BY <2>7, <2>8 DEF NotGiven
  <2>10. (registered < Len(decls) \/ ~usage => parse_index = 1)'  BY <2>8
  <2>11. QED  BY <2>5, <2>6, <2>9, <2>10 DEF Progress
<1>9. ParsedRight'  BY <1>1 DEF ParsedRight
<1>10. QED  BY <1>6, <1>7, <1>8, <1>9 DEF IInv
-----------------------------------------------------------------------------
(* Parsing. *)

\* The word that is parsed is an option of those that argv means.
LEMMA AtOption ==
  ASSUME IInv, Parsing
  PROVE  /\ registered = Len(decls) /\ usage /\ exit = "running"
         /\ parse_index \in DOMAIN argv /\ Word = argv[parse_index] /\ Word \in Words
         /\ parse_index \in OptionAt
         /\ \A i \in OptionAt : i < parse_index => ~Wrong(i)
<1>1. parse_index \in DOMAIN argv  BY Numbered DEF IInv, Parsing
<1>2. Word \in Words  BY <1>1, Numbered DEF IInv, Word
<1>3. parse_index \in OptionAt  BY <1>1, OptionsAre DEF IInv, Progress
<1>4. QED  BY <1>1, <1>2, <1>3 DEF IInv, Progress, Parsing, Word

\* The program ends at the first word that is wrong, with the help if it asks for it,
\* or at the message for it.
LEMMA WrongStep == ASSUME IInv, Help \/ BadOpt \/ BadOptCrash \/ NeedsArgument PROVE IInv'
<1>0. Parsing  BY DEF Help, BadOpt, BadOptCrash, NeedsArgument
<1>1. PICK status \in {"0", "-2", "crash"} :
        End(status) /\ (status = "0" <=> IsHelp(Word)) /\ (status = "crash" => BeyondArgv(Word))
  BY DEF Help, BadOpt, BadOptCrash, NeedsArgument, IsKnown, BeyondArgv, IsBadSyntax, IsHelp
<1>2. /\ TypeOK' /\ Declared' /\ Progress' /\ exit' = status
      /\ FirstWrong(parse_index)' <=> FirstWrong(parse_index)
      /\ IsHelp(argv[parse_index])' <=> IsHelp(argv[parse_index])
  <2>1. UNCHANGED <<given, registered, opts, parse_index>> /\ exit' = status  BY <1>1 DEF End
  <2>2. /\ TypeOK' /\ Declared' /\ Progress'
        /\ \A i : (FirstWrong(i)' <=> FirstWrong(i)) /\ (IsHelp(argv[i])' <=> IsHelp(argv[i]))
    BY <2>1, EndKeeps
  <2>3. QED  BY <2>1, <2>2 DEF FirstWrong, IsHelp, IsOption
<1>3. argv' = argv /\ parse_index' = parse_index  BY <1>1 DEF End, given
<1>4. Wrong(parse_index)
  BY <1>0 DEF Help, BadOpt, BadOptCrash, NeedsArgument, Wrong, Word, IsKnown, TakesNext,
              BeyondArgv, IsBadSyntax
<1>5. FirstWrong(parse_index)  BY <1>0, <1>4, AtOption DEF FirstWrong
<1>6. FirstWrong(parse_index)' /\ (IsHelp(argv[parse_index])' <=> status = "0")
  BY <1>0, <1>1, <1>2, <1>5, AtOption
<1>7. parse_index \in DOMAIN argv'  BY <1>0, <1>3, AtOption
<1>8. ParsedRight'
  <2>1. CASE status = "0"
    <3>1. (\E i \in DOMAIN argv : FirstWrong(i) /\ IsHelp(argv[i]))'  BY <1>3, <1>6, <1>7, <2>1
    <3>2. QED  BY <1>2, <2>1, <3>1 DEF ParsedRight
  <2>2. CASE status = "-2"
    <3>1. (\E i \in DOMAIN argv : FirstWrong(i) /\ ~IsHelp(argv[i]))'  BY <1>3, <1>6, <1>7, <2>2
    <3>2. QED  BY <1>2, <2>2, <3>1 DEF ParsedRight
  <2>3. CASE status = "crash"
    <3>1. BeyondArgv(argv[parse_index])'
      BY <1>0, <1>1, <1>3, <2>3, AtOption DEF BeyondArgv, IsBadSyntax, IsOption
    <3>2. (\E i \in DOMAIN argv : FirstWrong(i) /\ BeyondArgv(argv[i]))'
      BY <1>3, <1>6, <1>7, <3>1
    <3>3. QED  BY <1>2, <2>3, <3>2 DEF ParsedRight
  <2>4. QED  BY <2>1, <2>2, <2>3
<1>9. QED  BY <1>2, <1>8 DEF IInv

\* When all words are parsed, what is set is what is given.
LEMMA AllParsed ==
  /\ TypeOK /\ Declared /\ Progress
  /\ registered = Len(decls) /\ parse_index > Len(argv)
  /\ exit = IF AllRequired THEN "started" ELSE "-1"
  => ParsedRight
<1> SUFFICES ASSUME TypeOK, Declared, Progress,
                    registered = Len(decls), parse_index > Len(argv),
                    exit = IF AllRequired THEN "started" ELSE "-1"
             PROVE  ParsedRight
  OBVIOUS
<1> DEFINE end == Len(argv) + 1
<1>1. parse_index = end /\ DOMAIN decls = 1 .. registered  BY Numbered
<1>2. \A i \in OptionAt : ~Wrong(i)  BY <1>1, OptionsAre, Numbered DEF Progress
<1>3. ASSUME NEW k \in DOMAIN decls
      PROVE  LET d == decls[k]
                 opt == opts[d.name]
             IN  \/ /\ NotGiven(d.name, end)
                    /\ opt.value = d.default /\ opt.value_is_set = ~d.required
                 \/ \E i \in DOMAIN argv :
                      /\ IsLast(i, d.name, end)
                      /\ opt.value = ValueAt(i) /\ opt.value_is_set
  BY <1>1 DEF Progress
<1> HIDE DEF end
<1>4. ASSUME NEW k \in DOMAIN decls
      PROVE  decls[k].required \in BOOLEAN /\ decls[k].name \in DOMAIN opts
  BY <1>1, CmdLineAssumption DEF TypeOK, Declared
<1>5. CASE AllRequired
  <2>1. ASSUME NEW k \in DOMAIN decls
        PROVE  LET d == decls[k] IN
               \/ NotGiven(d.name, end) /\ ~d.required /\ opts[d.name].value = d.default
               \/ \E i \in DOMAIN argv :
                    IsLast(i, d.name, end) /\ opts[d.name].value = ValueAt(i)
    <3>1. opts[decls[k].name].value_is_set  BY <1>4, <1>5 DEF AllRequired
    <3>2. QED  BY <1>3, <1>4, <3>1
  <2>2. exit = "started"  BY <1>5
  <2>3. QED  BY <1>2, <2>1, <2>2 DEF ParsedRight, end
<1>6. CASE ~AllRequired
  <2>1. PICK name \in DOMAIN opts : ~opts[name].value_is_set  BY <1>6 DEF AllRequired
  <2>2. PICK k \in DOMAIN decls : decls[k].name = name  BY <1>1, <2>1 DEF Declared
  <2>3. decls[k].required /\ NotGiven(decls[k].name, end)  BY <1>3, <1>4, <2>1, <2>2
  <2>4. exit = "-1"  BY <1>6
  <2>5. QED  BY <1>2, <2>3, <2>4 DEF ParsedRight, end
<1>7. QED  BY <1>5, <1>6

\* So it is when checkRequired decides.
LEMMA CheckRequiredStep == ASSUME IInv, CheckRequired PROVE IInv'
<1>1. /\ registered = Len(decls) /\ parse_index > Len(argv)
      /\ End(IF AllRequired THEN "started" ELSE "-1")
  BY DEF CheckRequired
<1>2. (TypeOK /\ Declared /\ Progress)' /\ exit' = IF AllRequired THEN "started" ELSE "-1"
  <2>1. CASE AllRequired  BY <1>1, <2>1, EndKeeps DEF End
  <2>2. CASE ~AllRequired  BY <1>1, <2>2, EndKeeps DEF End
  <2>3. QED  BY <2>1, <2>2
<1>3. UNCHANGED <<decls, argv, opts, registered, parse_index>>  BY <1>1 DEF End, given
<1>4. (AllRequired' <=> AllRequired) /\ (registered = Len(decls) /\ parse_index > Len(argv))'
  BY <1>1, <1>3 DEF AllRequired
<1>5. (exit = IF AllRequired THEN "started" ELSE "-1")'  BY <1>2, <1>4
<1>6. ParsedRight'  BY <1>2, <1>4, <1>5, AllParsed, PTL
<1>7. QED  BY <1>2, <1>6 DEF IInv

\* A word, or two, that set an option to the value argv means by them.
LEMMA SetStep ==
  ASSUME IInv, Parsing, IsKnown(Word), NEW value, NEW n \in {1, 2},
         Set(Lex[Word].name, value, n),
         n = IF TakesNext(Word) THEN 2 ELSE 1, parse_index + n <= Len(argv) + 1,
         value = ValueAt(parse_index),
         value \in ValuesOf(opts[Lex[Word].name].type)
  PROVE  IInv'
<1>a. PICK p \in DOMAIN argv : p = parse_index  BY AtOption
<1>b. PICK set \in DOMAIN opts : set = Lex[Word].name  BY DEF IsKnown
<1>1. /\ registered = Len(decls) /\ usage /\ exit = "running"
      /\ p \in DOMAIN argv /\ Word = argv[p] /\ Word \in Words /\ p \in OptionAt
      /\ \A i \in OptionAt : i < p => ~Wrong(i)
  BY <1>a, AtOption
<1>2. /\ IsOption(Word)
      /\ opts[set] \in [type : Types, required : BOOLEAN,
                        value : ValuesOf(opts[set].type), value_is_set : BOOLEAN]
  BY DEF IsKnown, IInv, TypeOK
<1>3. /\ opts' = [opts EXCEPT ![set] = [@ EXCEPT !.value = value, !.value_is_set = TRUE]]
      /\ parse_index' = p + n
      /\ UNCHANGED <<decls, argv, usage, registered, exit>>
  BY <1>a, <1>b DEF Set, given
<1>4. /\ \A i \in DOMAIN argv : argv[i] \in Words
      /\ Len(argv) \in Nat /\ DOMAIN argv = 1 .. Len(argv)
      /\ Len(decls) \in Nat /\ DOMAIN decls = 1 .. Len(decls)
  BY Numbered DEF IInv
<1>5. \A name \in DOMAIN opts : name # set => opts'[name] = opts[name]  BY <1>3
<1>6. /\ DOMAIN opts' = DOMAIN opts
      /\ \A name \in DOMAIN opts :
           opts'[name].type = opts[name].type /\ opts'[name].required = opts[name].required
      /\ opts'[set].value = value /\ opts'[set].value_is_set = TRUE
  <2>1. opts'[set] = [opts[set] EXCEPT !.value = value, !.value_is_set = TRUE] /\ DOMAIN opts' = DOMAIN opts
    BY <1>3
  <2>2. /\ opts'[set].type = opts[set].type /\ opts'[set].required = opts[set].required
        /\ opts'[set].value = value /\ opts'[set].value_is_set = TRUE
    BY <1>2, <2>1
  <2>3. QED  BY <1>5, <2>1, <2>2
<1>7. OptionAt' = OptionAt /\ \A name : Given(name)' = Given(name)
  BY <1>3, <1>6, SameMeaning DEF IInv
<1>8. \A i \in DOMAIN argv :
        /\ TakesNext(argv[i])' <=> TakesNext(argv[i])
        /\ Wrong(i)' <=> Wrong(i)
        /\ Lex[argv[i]].name \in DOMAIN opts => ValueAt(i)' = ValueAt(i)
  BY <1>3, <1>6, SameMeaning DEF IInv
<1>9. TypeOK'
  <2>1. \A type : ValuesOf(type)' = ValuesOf(type)
    BY <1>3 DEF ValuesOf, Numbers, Texts, DefaultsOf, HasArgument
  <2>2. ASSUME NEW name \in DOMAIN opts
        PROVE  opts'[name] \in [type : Types, required : BOOLEAN,
                                value : ValuesOf(opts'[name].type), value_is_set : BOOLEAN]
    <3>1. opts[name] \in [type : Types, required : BOOLEAN,
                          value : ValuesOf(opts[name].type), value_is_set : BOOLEAN]
      BY DEF IInv, TypeOK
    <3>2. CASE name # set  BY <1>5, <3>1, <3>2
    <3>3. CASE name = set
      <4>1. opts'[set] = [opts[set] EXCEPT !.value = value, !.value_is_set = TRUE]
        BY <1>3
      <4>2. value \in ValuesOf(opts[set].type)  BY <1>b
      <4>3. QED  BY <3>1, <3>3, <4>1, <4>2
    <3>4. QED  BY <3>2, <3>3
  <2>3. parse_index' \in 1 .. Len(argv) + 1  BY <1>a, <1>3, <1>4
  <2>4. QED  BY <1>3, <1>6, <2>1, <2>2, <2>3 DEF IInv, TypeOK
<1>10. Declared'  BY <1>3, <1>6 DEF IInv, Declared
<1>11. p \in Nat /\ n \in {1, 2} /\ Len(argv) \in Nat /\ p + n <= Len(argv) + 1  BY <1>a, <1>4
<1>12. \A i \in OptionAt : i < p + n => i < p \/ i = p
  <2>1. \A i \in OptionAt : i \in DOMAIN argv /\ (i \in OptionAt <=> ~(i - 1 \in OptionAt /\ TakesNext(argv[i - 1])))
    BY OptionsAre DEF IInv
  <2>2. n = 2 => TakesNext(argv[p])  BY <1>1
  <2>3. ASSUME NEW i \in OptionAt, i < p + n, ~(i < p), i # p
        PROVE  FALSE
    <3>0. i \in 1 .. Len(argv)  BY <1>4, <2>1
    <3>1. i \in Nat  BY <1>4, <3>0
    <3>2. i = p + 1 /\ n = 2  BY <1>11, <2>3, <3>1
    <3>3. i - 1 = p  BY <1>11, <3>2
    <3>4. QED  BY <1>1, <2>1, <2>2, <3>2, <3>3
  <2>4. QED  BY <2>3
<1>13. Progress'
  <2>1. ~(parse_index - 1 \in OptionAt /\ TakesNext(argv[parse_index - 1]))'
    <3>1. SUFFICES ASSUME parse_index' - 1 \in OptionAt, TakesNext(argv[parse_index - 1])'
                   PROVE  FALSE
      BY <1>7
    <3>2. parse_index' - 1 \in DOMAIN argv /\ parse_index' - 1 = p + (n - 1)
      BY <1>3, <1>11, <3>1, OptionsAre DEF IInv
    <3>3. n = 1 /\ parse_index' - 1 = p  BY <1>11, <1>12, <3>1, <3>2
    <3>4. TakesNext(argv[p])' <=> TakesNext(argv[p])  BY <1>a, <1>8
    <3>5. TakesNext(argv[parse_index - 1])' <=> TakesNext(argv[p])
      BY <1>3, <1>6, <3>3 DEF TakesNext, IsKnown, IsSwitch, HasArgument, IsOption, IsHelp
    <3>6. QED  BY <1>1, <3>1, <3>3, <3>5
  <2>2. \A i \in OptionAt : i < p + n => ~Wrong(i)'
    <3>1. ~Wrong(p)
      BY <1>1, <1>4, <1>11 DEF Wrong
    <3>2. \A i \in OptionAt : i \in DOMAIN argv  BY OptionsAre DEF IInv
    <3>3. QED  BY <1>1, <1>8, <1>12, <3>1, <3>2
  <2>3. ASSUME NEW k \in 1 .. registered, NEW name, name = decls[k].name
        PROVE  \/ /\ \A i \in Given(name) : i >= p + n
                  /\ opts'[name].value = decls[k].default
                  /\ opts'[name].value_is_set = ~decls[k].required
               \/ \E i \in DOMAIN argv :
                    /\ i \in Given(name) /\ i < p + n
                    /\ \A j \in Given(name) : j < p + n => j <= i
                    /\ opts'[name].value = ValueAt(i)' /\ opts'[name].value_is_set
    <3>1. name \in DOMAIN opts  BY <2>3 DEF IInv, Declared
    <3>2. \/ /\ NotGiven(name, p)
             /\ opts[name].value = decls[k].default /\ opts[name].value_is_set = ~decls[k].required
          \/ \E i \in DOMAIN argv :
               /\ IsLast(i, name, p)
               /\ opts[name].value = ValueAt(i) /\ opts[name].value_is_set
      BY <1>a, <2>3 DEF IInv, Progress
    <3>3. \A j \in Given(name) : j \in OptionAt /\ Lex[argv[j]].name = name  BY DEF Given
    <3>4. CASE name = set
      <4>1. p \in Given(set)  BY <1>1, <1>2, <1>b DEF Given
      <4>2. p < p + n  BY <1>11
      <4>3. \A j \in Given(set) : j < p + n => j <= p
        <5>1. \A j \in Given(set) : j \in Nat  BY <1>4, <3>3, <3>4, OptionsAre DEF IInv
        <5>2. \A j \in Given(set) : j < p + n => j < p \/ j = p  BY <1>12, <3>3, <3>4
        <5>3. QED  BY <1>11, <5>1, <5>2
      <4>4. opts'[set].value = ValueAt(p)'  BY <1>1, <1>6, <1>8, <1>a, <1>b
      <4>5. QED  BY <1>6, <3>4, <4>1, <4>2, <4>3, <4>4
    <3>5. CASE name # set
      <4>1. opts'[name] = opts[name]  BY <1>5, <3>1, <3>5
      <4>2. \A j \in Given(name) : j < p + n => j < p
        BY <1>1, <1>12, <1>b, <3>3, <3>5
      <4>3. CASE /\ NotGiven(name, p)
                 /\ opts[name].value = decls[k].default
                 /\ opts[name].value_is_set = ~decls[k].required
        <5>1. \A j \in Given(name) : j \in 1 .. Len(argv)  BY <1>4, <3>3, OptionsAre DEF IInv
        <5>2. \A j \in Given(name) : j >= p + n  BY <1>4, <1>11, <4>2, <4>3, <5>1 DEF NotGiven
        <5>3. QED  BY <4>1, <4>3, <5>2
      <4>4. CASE \E i \in DOMAIN argv :
                   /\ IsLast(i, name, p)
                   /\ opts[name].value = ValueAt(i) /\ opts[name].value_is_set
        <5>1. PICK i \in DOMAIN argv :
                /\ IsLast(i, name, p)
                /\ opts[name].value = ValueAt(i) /\ opts[name].value_is_set
          BY <4>4
        <5>2. i \in Given(name) /\ i < p /\ \A j \in Given(name) : j < p => j <= i
          BY <5>1 DEF IsLast
        <5>3. i < p + n  BY <1>4, <1>11, <5>2
        <5>4. \A j \in Given(name) : j < p + n => j <= i  BY <4>2, <5>2
        <5>5. ValueAt(i)' = ValueAt(i)  BY <1>8, <3>1, <3>3, <5>2
        <5>6. QED  BY <4>1, <5>1, <5>2, <5>3, <5>4, <5>5
      <4>5. QED  BY <3>2, <4>3, <4>4
    <3>6. QED  BY <3>4, <3>5
  <2>4. (registered < Len(decls) \/ ~usage => parse_index = 1)'  BY <1>1, <1>3
  <2>5. (\A i \in OptionAt : i < parse_index => ~Wrong(i))'  BY <1>3, <1>7, <2>2
  <2>6. (\A k \in 1 .. registered :
           LET d == decls[k]
               opt == opts[d.name]
           IN  \/ /\ NotGiven(d.name, parse_index)
                  /\ opt.value = d.default /\ opt.value_is_set = ~d.required
               \/ \E i \in DOMAIN argv :
                    /\ IsLast(i, d.name, parse_index)
                    /\ opt.value = ValueAt(i) /\ opt.value_is_set)'
    <3> SUFFICES ASSUME NEW k \in 1 .. registered
                 PROVE  (LET d == decls[k]
                             opt == opts[d.name]
                         IN  \/ /\ NotGiven(d.name, parse_index)
                                /\ opt.value = d.default /\ opt.value_is_set = ~d.required
                             \/ \E i \in DOMAIN argv :
                                  /\ IsLast(i, d.name, parse_index)
                                  /\ opt.value = ValueAt(i) /\ opt.value_is_set)'
      BY <1>3
    <3>1. PICK name : name = decls[k].name  OBVIOUS
    <3>2. decls' = decls /\ argv' = argv /\ parse_index' = p + n /\ Given(name)' = Given(name)
      BY <1>3, <1>7
    <3>3. CASE /\ \A i \in Given(name) : i >= p + n
               /\ opts'[name].value = decls[k].default
               /\ opts'[name].value_is_set = ~decls[k].required
      <4>1. NotGiven(name, parse_index)'  BY <3>2, <3>3 DEF NotGiven
      <4>2. QED  BY <3>1, <3>2, <3>3, <4>1
    <3>4. CASE \E i \in DOMAIN argv :
                 /\ i \in Given(name) /\ i < p + n
                 /\ \A j \in Given(name) : j < p + n => j <= i
                 /\ opts'[name].value = ValueAt(i)' /\ opts'[name].value_is_set
      <4>1. PICK i \in DOMAIN argv :
              /\ i \in Given(name) /\ i < p + n
              /\ \A j \in Given(name) : j < p + n => j <= i
              /\ opts'[name].value = ValueAt(i)' /\ opts'[name].value_is_set
        BY <3>4
      <4>2. IsLast(i, name, parse_index)'  BY <3>2, <4>1 DEF IsLast
      <4>3. QED  BY <3>1, <3>2, <4>1, <4>2
    <3>5. QED  BY <2>3, <3>1, <3>3, <3>4
  <2>7. QED  BY <2>1, <2>4, <2>5, <2>6 DEF Progress
<1>14. QED  BY <1>3, <1>1, <1>9, <1>10, <1>13 DEF IInv, ParsedRight

\* An argument of an option that needs one becomes a value of its type.
LEMMA ConvertedHasType ==
  ASSUME TypeOK, NEW w, IsKnown(w), ~IsSwitch(w), NEW argument \in Texts
  PROVE  Convert(Lex[w].name, argument) \in ValuesOf(opts[Lex[w].name].type)
<1>1. opts[Lex[w].name].type # "bool"  BY DEF IsSwitch
<1>2. QED  BY <1>1 DEF Convert, ValuesOf, Numbers

\* A bool is true, whatever follows an '='.
LEMMA SetBoolValueStep == ASSUME IInv, SetBoolValue PROVE IInv'
<1>1. Parsing /\ IsSwitch(Word) /\ Set(Lex[Word].name, "true", 1)  BY DEF SetBoolValue
<1>2. IsKnown(Word) /\ ~TakesNext(Word) /\ opts[Lex[Word].name].type = "bool"
  BY <1>1 DEF IsSwitch, TakesNext
<1>3. parse_index + 1 <= Len(argv) + 1 /\ Word = argv[parse_index]
  BY <1>1, AtOption, Numbered DEF IInv
<1>4. "true" = ValueAt(parse_index) /\ "true" \in ValuesOf(opts[Lex[Word].name].type)
  BY <1>1, <1>2, <1>3 DEF ValueAt, ValuesOf
<1>5. QED  BY <1>1, <1>2, <1>3, <1>4, SetStep

\* The argument is in the word.
LEMMA SetValueStep == ASSUME IInv, SetValue PROVE IInv'
<1> DEFINE value == Convert(Lex[Word].name, Lex[Word].arg)
<1>1. /\ Parsing /\ IsKnown(Word) /\ ~IsSwitch(Word) /\ HasArgument(Word)
      /\ Set(Lex[Word].name, value, 1)
  BY DEF SetValue
<1>2. ~TakesNext(Word)  BY <1>1 DEF TakesNext
<1>3. parse_index + 1 <= Len(argv) + 1 /\ Word = argv[parse_index] /\ Word \in Words
  BY <1>1, AtOption, Numbered DEF IInv
<1>4. value = ValueAt(parse_index)  BY <1>1, <1>3 DEF ValueAt
<1>5. value \in ValuesOf(opts[Lex[Word].name].type)
  <2>1. Lex[Word].arg \in Texts  BY <1>1, <1>3, AtOption DEF Texts
  <2>2. QED  BY <1>1, <2>1, ConvertedHasType DEF IInv
<1> HIDE DEF value
<1>6. QED  BY <1>1, <1>2, <1>3, <1>4, <1>5, SetStep

\* The argument is the next word.
LEMMA SetNextValueStep == ASSUME IInv, SetNextValue PROVE IInv'
<1> DEFINE value == Convert(Lex[Word].name, argv[parse_index + 1])
<1>1. /\ Parsing /\ IsKnown(Word) /\ ~IsSwitch(Word) /\ ~HasArgument(Word)
      /\ parse_index < Len(argv) /\ Set(Lex[Word].name, value, 2)
  BY DEF SetNextValue
<1>2. TakesNext(Word)  BY <1>1 DEF TakesNext
<1>3. /\ parse_index + 2 <= Len(argv) + 1 /\ Word = argv[parse_index]
      /\ parse_index + 1 \in DOMAIN argv
  BY <1>1, AtOption, Numbered DEF IInv
<1>4. value = ValueAt(parse_index)  BY <1>1, <1>3 DEF ValueAt
<1>5. value \in ValuesOf(opts[Lex[Word].name].type)
  <2>1. argv[parse_index + 1] \in Texts  BY <1>3 DEF Texts
  <2>2. QED  BY <1>1, <2>1, ConvertedHasType DEF IInv
<1> HIDE DEF value
<1>6. QED  BY <1>1, <1>2, <1>3, <1>4, <1>5, SetStep

\* Nothing else happens.
LEMMA NextIInv == IInv /\ [Next]_vars => IInv'
<1> SUFFICES ASSUME IInv, [Next]_vars PROVE IInv'  OBVIOUS
<1>1. CASE SetOptCheck \/ NoUsage  BY <1>1, SetOptCheckStep
<1>2. CASE Declare  BY <1>2, DeclareStep
<1>3. CASE Help \/ BadOpt \/ BadOptCrash \/ NeedsArgument  BY <1>3, WrongStep
<1>4. CASE SetBoolValue  BY <1>4, SetBoolValueStep
<1>5. CASE SetValue  BY <1>5, SetValueStep
<1>6. CASE SetNextValue  BY <1>6, SetNextValueStep
<1>7. CASE CheckRequired  BY <1>7, CheckRequiredStep
<1>8. CASE UNCHANGED vars
  <2>1. UNCHANGED <<decls, argv, usage, registered, opts, parse_index, exit>>
    BY <1>8 DEF vars, given
  <2>2. exit' \in {"running", "started", "0", "-1", "-2", "crash"}  BY <2>1 DEF IInv, TypeOK
  <2>3. /\ TypeOK' /\ Declared' /\ Progress'
        /\ OptionAt' = OptionAt /\ \A name : Given(name)' = Given(name)
        /\ \A i :
             /\ Wrong(i)' <=> Wrong(i)
             /\ FirstWrong(i)' <=> FirstWrong(i)
             /\ IsHelp(argv[i])' <=> IsHelp(argv[i])
             /\ ValueAt(i)' = ValueAt(i)
    BY <2>1, <2>2, EndKeeps DEF given
  <2>4. ParsedRight'  BY <2>1, <2>3 DEF IInv, ParsedRight, NotGiven, IsLast, BeyondArgv
  <2>5. QED  BY <2>3, <2>4 DEF IInv
<1>9. QED  BY <1>1, <1>2, <1>3, <1>4, <1>5, <1>6, <1>7, <1>8 DEF Next

-----------------------------------------------------------------------------
\* What holds of every command line at any time.
THEOREM Invariance == Spec => []IInv
<1>1. QED  BY InitIInv, NextIInv, PTL DEF Spec

\* An option always has a value of its own type, and one that is a default or comes from
\* a word of argv; parse_index stays between the first word and one beyond the last.
THEOREM TypeCorrect == Spec => []TypeOK
<1>1. IInv => TypeOK  BY DEF IInv
<1>2. QED  BY <1>1, Invariance, PTL

\* A program starts exactly with what its command line says, and ends otherwise, for any
\* number of words and options.
THEOREM ParsesRight == Spec => []ParsedRight
<1>1. IInv => ParsedRight  BY DEF IInv
<1>2. QED  BY <1>1, Invariance, PTL
=============================================================================
