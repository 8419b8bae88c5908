------------------------------ MODULE CmdLine ------------------------------
(***************************************************************************)
(* The command line of every program of the repository: options are        *)
(* declared one after the other, each with a variable of the program that  *)
(* takes its default at once, and Parse goes through argv, sets the        *)
(* variables, and lets the program start or ends it.                       *)
(*                                                                         *)
(* A word of argv is a member of Words; Lex says what it is cut into, and  *)
(* Atoll what number it is.  Values are words: "true" and "false" for a    *)
(* bool, a decimal number for an int64_t.                                  *)
(***************************************************************************)
EXTENDS Naturals, Sequences

CONSTANTS
  Words,         \* what argv consists of
  Lex,           \* Lex[w]: the number of dashes, the length of what follows one or two
                 \* of them (opt_len), the name it begins with, the argument
  Atoll,         \* atoll() of a word
  InvalidNames,  \* names that are empty, begin with '-' or contain '='
  Declarations,  \* the sequences of options a program may declare
  MaxArgs,       \* bound on the words of argv
  None           \* no '=' in a word, and so no argument

Types == {"bool", "int64", "string"}

ASSUME CmdLineAssumption ==
  /\ \A w \in Words :
       /\ Lex[w].dashes \in Nat /\ Lex[w].opt_len \in Nat /\ w \in DOMAIN Atoll
       /\ Lex[w].arg # None => Lex[w].arg \in DOMAIN Atoll
  /\ \A declared \in Declarations :
       /\ DOMAIN declared = 1 .. Len(declared) /\ Len(declared) \in Nat
       /\ \A i \in DOMAIN declared :
            /\ declared[i].type \in Types /\ declared[i].required \in BOOLEAN
            \* BoolOpt is the only way to declare a bool.
            /\ declared[i].type = "bool" => declared[i].default = "false" /\ ~declared[i].required
  /\ MaxArgs \in Nat /\ None \notin Words

VARIABLES
  decls, argv, usage,  \* what the program declares and is given, and whether it has
                       \* called SetUsage; these do not change
  registered,          \* how many options have been declared
  opts,                \* opts[name]: type_, required_, value and value_is_set_ of an option
  parse_index,
  exit                 \* "running", "started", the status the program ends with, or
                       \* "crash"

given == <<decls, argv, usage>>
vars  == <<given, registered, opts, parse_index, exit>>

Init ==
  /\ decls \in Declarations
  /\ argv \in UNION {[1 .. n -> Words] : n \in 0 .. MaxArgs}
  /\ usage \in BOOLEAN
  /\ registered = 0 /\ opts = <<>> /\ parse_index = 1 /\ exit = "running"

End(status) ==
  /\ exit' = status
  /\ UNCHANGED <<given, registered, opts, parse_index>>
-----------------------------------------------------------------------------
(* BoolOpt, Int64Opt, StrOpt, Int64OptRequired, StrOptRequired. *)

Declaring   == exit = "running" /\ registered < Len(decls)
Declaration == decls[registered + 1]

IsValidName(name) == name \notin InvalidNames

\* setOptCheck.
SetOptCheck ==
  /\ Declaring
  /\ \/ Declaration.name \in DOMAIN opts /\ End("-1")
     \/ Declaration.name \notin DOMAIN opts /\ ~IsValidName(Declaration.name) /\ End("-2")

\* The default is stored at once, and an option that is not required counts as set.
NewOpt(d) ==
  [type |-> d.type, required |-> d.required, value |-> d.default, value_is_set |-> ~d.required]

Declare ==
  /\ Declaring
  /\ Declaration.name \notin DOMAIN opts /\ IsValidName(Declaration.name)
  /\ opts' = [name \in DOMAIN opts \cup {Declaration.name} |->
                IF name \in DOMAIN opts THEN opts[name] ELSE NewOpt(Declaration)]
  /\ registered' = registered + 1
  /\ UNCHANGED <<given, parse_index, exit>>
-----------------------------------------------------------------------------
(* ParseOpt. *)

\* One or two dashes and a name.  A third dash, '=', or nothing in place of the name
\* is bad syntax.  A word of one character counts as one without a dash.
IsOption(w)    == Lex[w].dashes \in {1, 2} /\ Lex[w].name # ""
IsBadSyntax(w) == Lex[w].dashes > 0 /\ ~IsOption(w)
IsHelp(w)   == IsOption(w) /\ Lex[w].name \in {"h", "help"}
IsKnown(w)  == IsOption(w) /\ ~IsHelp(w) /\ Lex[w].name \in DOMAIN opts
IsSwitch(w) == IsKnown(w) /\ opts[Lex[w].name].type = "bool"
HasArgument(w) == Lex[w].arg # None

Convert(name, argument) ==
  IF opts[name].type = "int64" THEN Atoll[argument] ELSE argument

Parsing == exit = "running" /\ registered = Len(decls) /\ usage /\ parse_index <= Len(argv)
Word    == argv[parse_index]

Set(name, value, words) ==
  /\ opts' = [opts EXCEPT ![name] = [@ EXCEPT !.value = value, !.value_is_set = TRUE]]
  /\ parse_index' = parse_index + words
  /\ UNCHANGED <<given, registered, exit>>

Help == Parsing /\ IsHelp(Word) /\ End("0")

BadOpt == Parsing /\ ~IsHelp(Word) /\ ~IsKnown(Word) /\ End("-2")

\* The message for bad syntax prints argv[opt_len], counted from the program's name.
\* What lies beyond the NULL that ends argv may be no string: BadOpt is the other
\* outcome.
BeyondArgv(w) == IsBadSyntax(w) /\ Lex[w].opt_len > Len(argv) + 1
BadOptCrash   == Parsing /\ BeyondArgv(Word) /\ End("crash")

\* Whatever follows an '='.
SetBoolValue == Parsing /\ IsSwitch(Word) /\ Set(Lex[Word].name, "true", 1)

SetValue ==
  /\ Parsing /\ IsKnown(Word) /\ ~IsSwitch(Word) /\ HasArgument(Word)
  /\ Set(Lex[Word].name, Convert(Lex[Word].name, Lex[Word].arg), 1)

\* Mutants: the argument is parsed again as an option; parse_index + 1 <= argc.
SetNextValueOnce ==
  /\ Parsing /\ IsKnown(Word) /\ ~IsSwitch(Word) /\ ~HasArgument(Word)
  /\ parse_index < Len(argv)
  /\ Set(Lex[Word].name, Convert(Lex[Word].name, argv[parse_index + 1]), 1)

SetNextValueBeyond ==
  /\ Parsing /\ IsKnown(Word) /\ ~IsSwitch(Word) /\ ~HasArgument(Word)
  /\ IF parse_index < Len(argv)
     THEN Set(Lex[Word].name, Convert(Lex[Word].name, argv[parse_index + 1]), 2)
     ELSE Set(Lex[Word].name, None, 2)

\* The argument is the next word, whatever it looks like.
SetNextValue ==
  /\ Parsing /\ IsKnown(Word) /\ ~IsSwitch(Word) /\ ~HasArgument(Word)
  /\ parse_index < Len(argv)
  /\ Set(Lex[Word].name, Convert(Lex[Word].name, argv[parse_index + 1]), 2)

NeedsArgument ==
  /\ Parsing /\ IsKnown(Word) /\ ~IsSwitch(Word) /\ ~HasArgument(Word)
  /\ parse_index = Len(argv)
  /\ End("-2")
-----------------------------------------------------------------------------
(* Parse. *)

NoUsage == exit = "running" /\ registered = Len(decls) /\ ~usage /\ End("-1")

\* checkRequired.
AllRequired == \A name \in DOMAIN opts : opts[name].value_is_set

CheckRequired ==
  /\ exit = "running" /\ registered = Len(decls) /\ usage
  /\ parse_index > Len(argv)
  /\ End(IF AllRequired THEN "started" ELSE "-1")

Next ==
  \/ SetOptCheck \/ Declare
  \/ Help \/ BadOpt \/ BadOptCrash \/ SetBoolValue \/ SetValue \/ SetNextValue \/ NeedsArgument
  \/ NoUsage \/ CheckRequired

Spec == Init /\ [][Next]_vars
-----------------------------------------------------------------------------
(* Properties. *)

\* What argv can give: its words, and the arguments in them, as text or as numbers.
Texts   == LET given_words == {argv[i] : i \in DOMAIN argv}
           IN  given_words \cup {Lex[w].arg : w \in {v \in given_words : HasArgument(v)}}
Numbers == {Atoll[text] : text \in Texts}
DefaultsOf(type) == {decls[k].default : k \in {l \in DOMAIN decls : decls[l].type = type}}

\* The values of a variable of the type an option has: a default, or what argv gives.
ValuesOf(type) ==
  IF type = "bool" THEN {"true", "false"}
  ELSE DefaultsOf(type) \cup (IF type = "int64" THEN Numbers ELSE Texts)

\* The types.  An option holds a value of its own type at any time, and that is a
\* default or comes from a word of argv, never from beyond its end.
TypeOK ==
  /\ decls \in Declarations /\ argv \in Seq(Words) /\ usage \in BOOLEAN
  /\ registered \in 0 .. Len(decls)
  /\ parse_index \in 1 .. Len(argv) + 1
  /\ exit \in {"running", "started", "0", "-1", "-2", "crash"}
  /\ \A name \in DOMAIN opts :
       opts[name] \in [type : Types, required : BOOLEAN,
                       value : ValuesOf(opts[name].type), value_is_set : BOOLEAN]

\* What argv means, without parsing it from left to right: a word is an option
\* unless the one before it is an option that takes it as its argument.
OptionsAmong(takes) ==
  CHOOSE S \in SUBSET DOMAIN takes : \A i \in DOMAIN takes :
    i \in S <=> ~(i - 1 \in S /\ takes[i - 1])

TakesNext(w) == IsKnown(w) /\ ~IsSwitch(w) /\ ~HasArgument(w)
OptionAt == OptionsAmong([i \in DOMAIN argv |-> TakesNext(argv[i])])
Wrong(i) == ~IsKnown(argv[i]) \/ (TakesNext(argv[i]) /\ i = Len(argv))
Given(name) == {i \in OptionAt : IsOption(argv[i]) /\ Lex[argv[i]].name = name}
ValueAt(i) ==
  LET w == argv[i] IN
  IF IsSwitch(w) THEN "true"
  ELSE Convert(Lex[w].name, IF HasArgument(w) THEN Lex[w].arg ELSE argv[i + 1])
FirstWrong(i) == i \in OptionAt /\ Wrong(i) /\ \A j \in OptionAt : j < i => ~Wrong(j)

\* The last word of those before argv[end] that give the option, or none.
IsLast(i, name, end) ==
  i \in Given(name) /\ i < end /\ \A j \in Given(name) : j < end => j <= i
NotGiven(name, end) == \A i \in Given(name) : i >= end

\* A program starts with the last value given for each option, or its default,
\* and only if every word is understood and every required option is given; the
\* first word that is not decides between the help and an error.  Only a message
\* that prints from beyond the end of argv may crash.
ParsedRight ==
  registered = Len(decls) /\ usage =>
    LET end == Len(argv) + 1 IN
    CASE exit = "running" -> TRUE
      [] exit = "started" ->
           /\ \A i \in OptionAt : ~Wrong(i)
           /\ \A k \in DOMAIN decls : LET d == decls[k] IN
                \/ NotGiven(d.name, end) /\ ~d.required /\ opts[d.name].value = d.default
                \/ \E i \in DOMAIN argv :
                     IsLast(i, d.name, end) /\ opts[d.name].value = ValueAt(i)
      [] exit = "0" -> \E i \in DOMAIN argv : FirstWrong(i) /\ IsHelp(argv[i])
      [] exit = "-2" -> \E i \in DOMAIN argv : FirstWrong(i) /\ ~IsHelp(argv[i])
      [] exit = "crash" -> \E i \in DOMAIN argv : FirstWrong(i) /\ BeyondArgv(argv[i])
      [] exit = "-1" ->
           /\ \A i \in OptionAt : ~Wrong(i)
           /\ \E k \in DOMAIN decls : decls[k].required /\ NotGiven(decls[k].name, end)
-----------------------------------------------------------------------------
(* The inductive invariant. *)

\* opts_ holds what has been declared so far, each name once.
Declared ==
  /\ DOMAIN opts = {decls[k].name : k \in 1 .. registered}
  /\ \A k, l \in 1 .. registered : decls[k].name = decls[l].name => k = l
  /\ \A k \in 1 .. registered :
       LET opt == opts[decls[k].name] IN
       opt.type = decls[k].type /\ opt.required = decls[k].required

\* Parse has come to the start of an option, has understood all before it, and has
\* set what they give.
Progress ==
  /\ registered < Len(decls) \/ ~usage => parse_index = 1
  /\ ~(parse_index - 1 \in OptionAt /\ TakesNext(argv[parse_index - 1]))
  /\ \A i \in OptionAt : i < parse_index => ~Wrong(i)
  /\ \A k \in 1 .. registered :
       LET d == decls[k]
           opt == opts[d.name]
       IN  \/ /\ NotGiven(d.name, parse_index)
              /\ opt.value = d.default /\ opt.value_is_set = ~d.required
           \/ \E i \in DOMAIN argv :
                /\ IsLast(i, d.name, parse_index)
                /\ opt.value = ValueAt(i) /\ opt.value_is_set

IInv == TypeOK /\ Declared /\ Progress /\ ParsedRight
=============================================================================
