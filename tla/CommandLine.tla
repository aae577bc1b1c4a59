------------------------------ MODULE CommandLine ------------------------------
(***************************************************************************)
(* The arguments of a test program and the filters made from them          *)
(* (src/src/core/args.c).                                                  *)
(*                                                                         *)
(* An argument is the sequence of its characters; a word that no code      *)
(* takes apart stands for one character.                                   *)
(***************************************************************************)
EXTENDS Integers, SequencesExt, FiniteSetsExt

CONSTANTS PluginArguments  \* the arguments that a plugin accepts as its own

Dot == "."
Comma == ","
Blank == " "
Close == ")"
Value == [c \in {"0", "1", "2"} |-> IF c = "0" THEN 0 ELSE IF c = "1" THEN 1 ELSE 2]

(* strchr, as the set of the places where c stands.                        *)
At(s, c) == {i \in DOMAIN s : s[i] = c}
Before(s, i) == SubSeq(s, 1, i - 1)
After(s, i) == SubSeq(s, i + 1, Len(s))

(* atol and atou of what does not start with blanks or a minus.            *)
Number(s) ==
  LET digits == SubSeq(s, 1, Max({n \in 0 .. Len(s) : \A i \in 1 .. n : s[i] \in DOMAIN Value}))
  IN  FoldLeft(LAMBDA n, c : 10 * n + Value[c], 0, digits)

-------------------------------------------------------------------------------
(* Filters *)

Filter(text, strict, invert) == [text |-> text, strict |-> strict, invert |-> invert]

Agrees(f, s) ==
  IF f.strict THEN s = f.text ELSE \E i \in 0 .. Len(s) : IsPrefix(f.text, After(s, i))

(* cu_filters_match: one that agrees is enough, an inverted one too.       *)
FiltersMatch(filters, s) == filters = {} \/ \E f \in filters : Agrees(f, s) # f.invert

-------------------------------------------------------------------------------
(* The options in the order in which an argument is compared with them *)

Switch(letters) == [flag |-> <<"-">> \o letters, exact |-> TRUE, does |-> "switch"]
Option(does, letters) == [flag |-> <<"-">> \o letters, exact |-> FALSE, does |-> does]
Filtering(does, letters, strict, invert) ==
  Option(does, letters) @@ [strict |-> strict, invert |-> invert]
Verbatim(word) == [flag |-> <<word>>, exact |-> FALSE, does |-> "verbatim"]

Switches ==
  <<Switch(<<"h">>), Switch(<<"v">>), Switch(<<"v", "v">>), Switch(<<"c">>), Switch(<<"p">>),
    Switch(<<"b">>), Switch(<<"l", "g">>), Switch(<<"l", "n">>), Switch(<<"l", "l">>),
    Switch(<<"r", "i">>), Switch(<<"f">>), Switch(<<"e">>), Switch(<<"c", "i">>)>>

Filters ==
  <<Filtering("group", <<"g">>, FALSE, FALSE),
    Filtering("both", <<"t">>, FALSE, FALSE), Filtering("both", <<"s", "t">>, TRUE, FALSE),
    Filtering("both", <<"x", "t">>, FALSE, TRUE), Filtering("both", <<"x", "s", "t">>, TRUE, TRUE),
    Filtering("group", <<"s", "g">>, TRUE, FALSE), Filtering("group", <<"x", "g">>, FALSE, TRUE),
    Filtering("group", <<"x", "s", "g">>, TRUE, TRUE),
    Filtering("name", <<"n">>, FALSE, FALSE), Filtering("name", <<"s", "n">>, TRUE, FALSE),
    Filtering("name", <<"x", "n">>, FALSE, TRUE), Filtering("name", <<"x", "s", "n">>, TRUE, TRUE)>>

Repeating == <<Option("repeat", <<"r">>)>>
Shuffling == <<Option("shuffle", <<"s">>)>>
Others ==
  <<Verbatim("TEST("), Verbatim("IGNORE_TEST("), Option("output", <<"o">>),
    Option("plugin", <<"p">>), Option("package", <<"k">>), Option("workers", <<"j">>)>>

(* Mutant: -s takes the arguments that start with -sg, -sn or -st.         *)
DispatchShuffleFirst == Switches \o Repeating \o Shuffling \o Filters \o Others

Dispatch == Switches \o Repeating \o Filters \o Shuffling \o Others

Fits(arg, option) == IF option.exact THEN arg = option.flag ELSE IsPrefix(option.flag, arg)

-------------------------------------------------------------------------------
(* What an option does to p: the arguments so far, the next place to read  *)
(* and whether all was correct *)

(* parameter_field: what is glued to the flag, or the next argument.       *)
Glued(argv, p, flag) == After(argv[p.i], Len(flag))
Field(argv, p, flag) ==
  IF Glued(argv, p, flag) # <<>> THEN [p EXCEPT !.field = Glued(argv, p, flag)]
  ELSE IF p.i < Len(argv) THEN [p EXCEPT !.field = argv[p.i + 1], !.i = @ + 1]
  ELSE [p EXCEPT !.field = <<>>]

Wrong(p) == [p EXCEPT !.correct = FALSE]

AddFilter(p, list, f) == [p EXCEPT !.args[list] = @ \cup {f}]
AddBoth(p, group, name, strict, invert) ==
  AddFilter(AddFilter(p, "group", Filter(group, strict, invert)), "name", Filter(name, strict, invert))

(* add_group_dot_name: just one dot.                                       *)
AddGroupDotName(p, option) ==
  IF Cardinality(At(p.field, Dot)) # 1 THEN Wrong(p)
  ELSE LET dot == Min(At(p.field, Dot))
       IN  AddBoth(p, Before(p.field, dot), After(p.field, dot), option.strict, option.invert)

(* add_test_from_verbose_output: "group, name)"; it is never wrong.        *)
AddVerbatim(p) ==
  IF At(p.field, Comma) = {} THEN AddBoth(p, p.field, <<>>, TRUE, FALSE)
  ELSE LET comma == Min(At(p.field, Comma))
           rest == SubSeq(p.field, comma, Len(p.field))
           name == IF At(rest, Close) = {} THEN rest ELSE Before(rest, Min(At(rest, Close)))
       IN  AddBoth(p, Before(p.field, comma), After(name, 2), TRUE, FALSE)

(* set_repeat_count and set_shuffle: a number glued, or the next argument  *)
(* if it is a number other than 0.                                         *)
NumberField(argv, p) ==
  LET glued == After(argv[p.i], 2)
      further == IF p.i < Len(argv) THEN Number(argv[p.i + 1]) ELSE 0
  IN  IF glued # <<>> THEN [number |-> Number(glued), glued |-> TRUE, i |-> p.i]
      ELSE [number |-> further, glued |-> FALSE, i |-> IF further # 0 THEN p.i + 1 ELSE p.i]

SetRepeatCount(argv, p) ==
  LET f == NumberField(argv, p)
  IN  [p EXCEPT !.args.repeat = IF f.number = 0 THEN 2 ELSE f.number, !.i = f.i]

(* Without a number the seed is the time, which is not 0.                  *)
SetShuffle(argv, p) ==
  LET f == NumberField(argv, p)
  IN  [p EXCEPT !.args.shuffling = TRUE, !.i = f.i, !.correct = ~f.glued \/ f.number # 0]

OutputTypes == [t \in {"normal", "eclipse", "junit", "teamcity"} |->
                 IF t \in {"normal", "eclipse"} THEN "console" ELSE t]
SetOutputType(p) ==
  IF p.field \in {<<t>> : t \in DOMAIN OutputTypes}
  THEN [p EXCEPT !.args.output_type = OutputTypes[p.field[1]]]
  ELSE Wrong(p)

SetSwitch(p, arg) ==
  [p EXCEPT !.args.switches = @ \cup {arg}, !.correct = arg # <<"-", "h">>]

Done(argv, p, option) ==
  LET arg == argv[p.i]
      q == Field(argv, p, option.flag)
  IN  CASE option.does = "switch" -> SetSwitch(p, arg)
        [] option.does = "repeat" -> SetRepeatCount(argv, p)
        [] option.does = "shuffle" -> SetShuffle(argv, p)
        [] option.does \in {"group", "name"} ->
             AddFilter(q, option.does, Filter(q.field, option.strict, option.invert))
        [] option.does = "both" -> AddGroupDotName(q, option)
        [] option.does = "verbatim" -> AddVerbatim(q)
        [] option.does = "output" -> SetOutputType(q)
        [] option.does = "plugin" -> IF arg \in PluginArguments THEN p ELSE Wrong(p)
        [] option.does = "package" -> [q EXCEPT !.args.package = q.field]
        [] option.does = "workers" -> [p EXCEPT !.args.workers = Number(After(arg, 2))]

Handled(argv, p) ==
  LET fitting == {k \in DOMAIN Dispatch : Fits(argv[p.i], Dispatch[k])}
      q == IF fitting = {} THEN Wrong(p) ELSE Done(argv, p, Dispatch[Min(fitting)])
  IN  [q EXCEPT !.i = @ + 1]

NoArguments ==
  [switches |-> {}, group |-> {}, name |-> {}, repeat |-> 1, shuffling |-> FALSE,
   output_type |-> "console", package |-> <<>>, workers |-> 0]

(* cu_args_parse stops at the first thing wrong.                           *)
Parsed(argv) ==
  LET parsed[n \in 0 .. Len(argv)] ==
        IF n = 0 THEN [args |-> NoArguments, i |-> 1, field |-> <<>>, correct |-> TRUE]
        ELSE LET p == parsed[n - 1]
             IN  IF ~p.correct \/ p.i > Len(argv) THEN p ELSE Handled(argv, p)
  IN  parsed[Len(argv)]

On(args, letters) == <<"-">> \o letters \in args.switches
===============================================================================
