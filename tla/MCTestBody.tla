------------------------------- MODULE MCTestBody ------------------------------
(* Bounds for TLC: every kind of assertion, the extreme numbers of each type *)
(* with an int of 2 bits and a long of 3, and strings of two letters.        *)
EXTENDS TestBody

MCTopics == {"assert", "read", "cursor", "data", "match", "text"}
MCScopes == {Global, "s"}

SomeText == {NullPointer, <<>>, <<"a">>, <<"A">>, <<"a", "n">>, <<Newline>>, <<"\\", "n">>,
             <<Newline, "a">>, <<Newline, "n">>, <<"n", "a", "n">>}
SomeBytes == {NullPointer} \cup {<<x, y>> : x, y \in {<<"0", "1">>, <<"0", "2">>}}
SomeDouble == {NaN, Infinite(-1), Infinite(1), Finite(0), Finite(2)}
Bits == 0 .. 2

Assertion(kind, operands, extra) ==
  {[kind |-> kind, e |-> e, a |-> a, n |-> n] : e, a \in operands, n \in extra}

MCAssertable ==
  UNION {Assertion("condition", BOOLEAN, {0}), Assertion("compare", BOOLEAN, {0}),
         Assertion("print", {TRUE}, {0}), Assertion("pointers", {"p", "q"}, {0}),
         Assertion("equal", SomeText \ {NullPointer}, {0}),
         Assertion("integers", -4 .. 4, {"long int", "unsigned long int", "signed char", "unsigned char"}),
         Assertion("doubles", SomeDouble, {NaN, Infinite(1), Finite(0), Finite(2)}),
         Assertion("cstr", SomeText, {0}), Assertion("cstrn", SomeText, 0 .. 2),
         Assertion("nocase", SomeText, {0}), Assertion("contains", SomeText, {0}),
         Assertion("nocase_contains", SomeText, {0}),
         Assertion("memory", SomeBytes, 0 .. 2),
         Assertion("bits", SUBSET Bits, {{}, {0}, {1, 2}})}

Edges ==
  {Made(type, 1) : type \in IntegerTypes} \cup {Made(type, -1) : type \in SignedTypes}
    \cup {Made(type, 2 * LONG_MAX + 1) : type \in {"unsigned long int", "unsigned long long int"}}
    \cup {Made("bool", 2), Made("double", Finite(1)), Made("const char*", "text"), Made("void*", "p")}
MCValues ==
  {x \in Edges : x.type \notin {"long long int", "unsigned long long int"}}
    \cup {ObjectOf("object", "Type", "p")}
Answered(sts, values) == [st : sts, x : {Empty}] \cup [st : {"value"}, x : values]
MCAnswers ==
  [t \in MCTopics |->
    CASE t = "read" -> Answered({"ignored", "traced", "none", "unmatched"}, Edges)
      [] t = "cursor" -> Answered({"ignored", "traced"}, {Made("int", 1)})
      [] OTHER -> {}]
MCMaxCalls == [t \in MCTopics |-> IF t = "cursor" THEN 2 ELSE 1]
MCCompared ==
  UNION {{Made(type, n) : n \in NumbersOf(type)} : type \in IntegerTypes}
    \cup {WithTolerance(x, t) : x \in SomeDouble, t \in {Finite(2), Infinite(1)}}
    \cup {Made("double", x) : x \in SomeDouble} \cup {Made("bool", x) : x \in 0 .. 2}
    \cup {Made("const char*", x) : x \in {NULL, "", "text"}}
    \cup {ObjectOf("object", "Type", "p"), ObjectOf("const object", "Type", "p")}
MCWants ==
  [t \in MCTopics |->
    IF t = "cursor" THEN {"int"} ELSE IntegerTypes \cup {"bool", "double", "const char*", "void*"}]

MCChars == {"a", "A", "n", "0", "1", "2", Newline, "\\"}
MCTexts == {<<>>, <<"a">>, <<"a", "a">>, <<"A", "a">>}
===============================================================================
