-------------------------------- MODULE MCProgram ------------------------------
(* Three tests, of which two share a group and the name of the other group *)
(* contains its name; every option, glued or not; up to two options.       *)
EXTENDS Program

CONSTANTS t1, t2, t3

MCLevels == {1, 2}
MCPluginArguments == {<<"-", "p", "own">>}
MCGroup == [x \in Tests |-> IF x = t2 THEN <<"A", "B">> ELSE <<"A">>]
MCName == [x \in Tests |-> IF x = t1 THEN <<"x">> ELSE <<"y">>]
MCOutcomes ==
  {[checks |-> 1, failures |-> <<>>], [checks |-> 3, failures |-> <<"first", "second">>]}

Asked(flag, text, group, name, glued) ==
  [flag |-> flag, text |-> text, group |-> group, name |-> name, glued |-> glued]
Plainly(letters) == Asked(<<"-">> \o letters, <<>>, <<>>, <<>>, TRUE)
With(letters, text, glued) == Asked(<<"-">> \o letters, text, <<>>, <<>>, glued)

Kinds == {<<>>, <<"s">>, <<"x">>, <<"x", "s">>}
GroupFilters == {Asked(<<"-">> \o k \o <<"g">>, <<"A">>, <<"A">>, <<>>, b) : k \in Kinds, b \in BOOLEAN}
NameFilters == {Asked(<<"-">> \o k \o <<"n">>, <<"x">>, <<>>, <<"x">>, b) : k \in Kinds, b \in BOOLEAN}
BothFilters ==
  {Asked(<<"-">> \o k \o <<"t">>, <<"A", Dot, "y">>, <<"A">>, <<"y">>, b) : k \in Kinds, b \in BOOLEAN}
Pasted ==
  {Asked(<<word>>, <<"A", Comma, Blank, "y", Close>>, <<"A">>, <<"y">>, TRUE) :
     word \in {"TEST(", "IGNORE_TEST("}}

Verbosely == Plainly(<<"v">>)
JUnit == With(<<"o">>, <<"junit">>, TRUE)
TeamCity == With(<<"o">>, <<"teamcity">>, FALSE)
Twice == With(<<"r">>, <<"2">>, FALSE)
Repeated == Plainly(<<"r">>)

MCRightWishes ==
  {<<f, Plainly(<<"l", "n">>)>> : f \in GroupFilters \cup NameFilters \cup BothFilters \cup Pasted}
    \cup {<<f, g, Plainly(<<"l", "n">>)>> : f, g \in {h \in GroupFilters \cup NameFilters : h.glued}}
    \cup {<<>>, <<Plainly(<<"l", "g">>), Plainly(<<"l", "n">>)>>, <<Plainly(<<"l", "l">>)>>,
          <<Plainly(<<"s">>), Verbosely>>, <<With(<<"s">>, <<"2">>, FALSE)>>,
          <<Plainly(<<"b">>), Plainly(<<"r", "i">>)>>, <<With(<<"r">>, <<"0">>, TRUE), Verbosely>>,
          <<JUnit, Twice>>, <<JUnit, Plainly(<<"l", "n">>)>>, <<JUnit, Verbosely, Plainly(<<"s">>)>>,
          <<JUnit, Asked(<<"-", "s", "g">>, <<"A">>, <<"A">>, <<>>, TRUE)>>, <<TeamCity, Repeated>>,
          <<TeamCity, Asked(<<"-", "x", "n">>, <<"x">>, <<>>, <<"x">>, FALSE)>>, <<With(<<"p">>, <<"own">>, TRUE)>>,
          <<With(<<"k">>, <<"package">>, FALSE), Asked(<<"-", "n">>, <<"z">>, <<>>, <<"z">>, TRUE), Repeated>>}
MCWrongWishes ==
  {<<Plainly(<<"h">>)>>, <<Plainly(<<"w">>)>>, <<With(<<"s">>, <<"0">>, TRUE)>>,
   <<With(<<"t">>, <<"A">>, TRUE)>>, <<With(<<"x", "t">>, <<"A", Dot, "y", Dot>>, TRUE)>>,
   <<With(<<"o">>, <<"other">>, TRUE), Plainly(<<"l", "g">>)>>, <<With(<<"p">>, <<"else">>, TRUE)>>}
===============================================================================
