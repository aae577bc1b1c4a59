------------------------------- MODULE MockValue -------------------------------
(***************************************************************************)
(* The values that the mock carries from expectation to call and back:     *)
(* their comparison (src/src/mock/mock_core.c), the overloads that make    *)
(* them and the typed getters that read them, in the C++ facade            *)
(* (src/include/CppUTestExt/MockSupport.h) and in the C interface          *)
(* (src/src/mock/mock_support_c.c), each of which has its own table.       *)
(*                                                                         *)
(* An integer is [type, v] with v the number it stands for; long and long  *)
(* long have the same width, as in the builds the repository makes.        *)
(***************************************************************************)
EXTENDS Integers

CONSTANTS
  INT_MAX,   \* 2^31 - 1
  LONG_MAX   \* 2^63 - 1

ASSUME WidthAssumption == INT_MAX \in Nat /\ LONG_MAX \in Nat /\ INT_MAX <= LONG_MAX

SignedTypes == {"int", "long int", "long long int"}
UnsignedTypes == {"unsigned int", "unsigned long int", "unsigned long long int"}
IntegerTypes == SignedTypes \cup UnsignedTypes
PointerTypes == {"void*", "const void*", "void (*)()"}
ObjectTypes == {"object", "const object"}

NULL == "NULL"

MaxOf(type) == IF type \in {"int", "unsigned int"} THEN INT_MAX ELSE LONG_MAX

NumbersOf(type) ==
  IF type \in SignedTypes THEN (-MaxOf(type) - 1) .. MaxOf(type) ELSE 0 .. 2 * MaxOf(type) + 1

IsInteger(x) == x.type \in IntegerTypes

(* The conversions of C between signed and unsigned of one width.          *)
ToUnsigned(type, n) == IF n < 0 THEN n + 2 * MaxOf(type) + 2 ELSE n
ToSigned(type, n) == IF n > MaxOf(type) THEN n - 2 * MaxOf(type) - 2 ELSE n
Cast(type, n) == IF type \in SignedTypes THEN ToSigned(type, n) ELSE ToUnsigned(type, n)

-------------------------------------------------------------------------------
(* Comparing *)

(* Mutant: the sign of the signed side is not looked at.                   *)
SignedEqualsUnsignedBits(s, u) == ToUnsigned("unsigned long long int", s.v) = u.v

SignedEqualsUnsigned(s, u) == s.v >= 0 /\ ToUnsigned("unsigned long long int", s.v) = u.v

IntegersEqual(e, a) ==
  CASE e.type \in SignedTypes /\ a.type \in UnsignedTypes -> SignedEqualsUnsigned(e, a)
    [] e.type \in UnsignedTypes /\ a.type \in SignedTypes -> SignedEqualsUnsigned(a, e)
    [] OTHER -> e.v = a.v

(* A double is finite, with a number, or "inf", with a sign, or "nan".     *)
Finite(n) == [kind |-> "finite", n |-> n]
Infinite(sign) == [kind |-> "inf", n |-> sign]
NaN == [kind |-> "nan", n |-> 0]

Distance(x, y) == IF x.n < y.n THEN y.n - x.n ELSE x.n - y.n

(* mock_doubles_equal.  The difference of an infinity and another number   *)
(* is infinite, or NaN where both are the same infinity.                   *)
MockDoublesEqual(x, y, tolerance) ==
  /\ "nan" \notin {x.kind, y.kind, tolerance.kind}
  /\ IF "inf" \in {x.kind, y.kind} THEN tolerance = Infinite(1) /\ x # y
     ELSE tolerance = Infinite(1) \/ (tolerance.kind = "finite" /\ Distance(x, y) <= tolerance.n)

StringsEqual(s, t) == s = t \/ {s, t} \subseteq {NULL, ""}

(* comparator: the pairs of objects that the function equates to which the *)
(* expected object was bound, none where its type had no comparator.       *)
ValueEquals(e, a, comparator) ==
  \/ IsInteger(e) /\ IsInteger(a) /\ IntegersEqual(e, a)
  \/ /\ e.type = a.type /\ ~IsInteger(e)
     /\ CASE e.type = "double" -> MockDoublesEqual(e.v, a.v, e.tolerance)
          [] e.type = "const char*" -> StringsEqual(e.v, a.v)
          [] e.type \in ObjectTypes -> e.of = a.of /\ <<e.v, a.v>> \in comparator
          [] OTHER -> e.v = a.v

-------------------------------------------------------------------------------
(* Making *)

MOCK_SUPPORT_DEFAULT_DOUBLE_TOLERANCE == Finite(0)   \* 0.005
DefaultToleranceC == Finite(0)                       \* 0.005 there too

(* What a test gives: a bool is any number, a double may have a tolerance. *)
Made(type, x) == [type |-> type, v |-> x]
WithTolerance(x, tolerance) == [type |-> "double", v |-> x, tolerance |-> tolerance]
ObjectOf(type, of, p) == [type |-> type, v |-> p, of |-> of]

(* CppUMockBool, ..., CppUMockConstObject                                  *)
Constructed(x, tolerance) ==
  CASE x.type = "bool" -> Made("bool", IF x.v # 0 THEN 1 ELSE 0)
    [] x.type = "double" -> IF "tolerance" \in DOMAIN x THEN x ELSE WithTolerance(x.v, tolerance)
    [] OTHER -> x

(* The overloads of the facade, and the entries of the tables in C.        *)
ExpectedParameter(x) == Constructed(x, MOCK_SUPPORT_DEFAULT_DOUBLE_TOLERANCE)
AndReturnValue(x) == Constructed(x, Finite(0))
ActualParameter(x) == Constructed(x, Finite(0))
DataValue(x) == Constructed(x, Finite(0))

ExpectedParameterC(x) == Constructed(x, DefaultToleranceC)
AndReturnValueC(x) == Constructed(x, Finite(0))
ActualParameterC(x) == Constructed(x, Finite(0))
DataValueC(x) == Constructed(x, Finite(0))

Empty == Made("int", 0)

TypeName(x) == IF x.type \in ObjectTypes THEN x.of ELSE x.type

-------------------------------------------------------------------------------
(* Reading *)

(* What a getter gives; one whose type assertion fails leaves the test.    *)
Got(v, checks, failed) == [v |-> v, checks |-> checks, failed |-> failed]
Plain(v) == Got(v, 0, FALSE)
Asserted(want, x, v) == Got(v, 1, TypeName(x) # want)

(* MockNamedValue: the types that a getter widens, without an assertion.   *)
Widens(want, x) ==
  CASE want = "unsigned int" -> x.type = "int" /\ x.v >= 0
    [] want = "long int" -> x.type \in {"int", "unsigned int"}
    [] want = "unsigned long int" ->
         x.type = "unsigned int" \/ (x.type \in {"int", "long int"} /\ x.v >= 0)
    [] want = "long long int" ->
         x.type \in {"int", "unsigned int", "long int", "unsigned long int"}
    [] want = "unsigned long long int" ->
         x.type \in {"unsigned int", "unsigned long int"} \/ (x.type \in SignedTypes /\ x.v >= 0)
    [] OTHER -> FALSE

GetValue(want, x) ==
  IF Widens(want, x) THEN Plain(Cast(want, x.v))
  ELSE IF want \in ObjectTypes THEN Plain(x.v)
  ELSE Asserted(want, x, x.v)

(* What a call answers, given the state of its return value.               *)
ReturnStates == {"ignored", "none", "value", "unmatched", "traced"}
NoAnswer == {"ignored", "traced"}

ReturnedOr(st, x) == IF st = "value" THEN x ELSE Empty

ZeroOf(want) ==
  CASE want = "double" -> Finite(0)
    [] want = "const char*" -> ""
    [] want \in PointerTypes -> NULL
    [] OTHER -> 0

HasReturnValue(st) == st \in {"value", "unmatched"}

(* MockActualCall::return...Value and ...OrDefault                         *)
CallReturn(want, st, x) ==
  IF st \in NoAnswer THEN Plain(ZeroOf(want)) ELSE GetValue(want, ReturnedOr(st, x))

CallReturnOrDefault(want, st, x, d) ==
  IF st = "traced" \/ HasReturnValue(st) THEN CallReturn(want, st, x) ELSE Plain(d)

(* MockSupport::...ReturnValue and return...OrDefault                      *)
ScopeReturn(want, st, x) == GetValue(want, ReturnedOr(st, x))

ScopeReturnOrDefault(want, st, x, d) ==
  IF HasReturnValue(st) THEN ScopeReturn(want, st, x) ELSE Plain(d)

(* The COERCE alternatives of the C getters.                               *)
Coercions(want) ==
  CASE want = "unsigned int" -> [any |-> {}, natural |-> {"int"}]
    [] want = "long int" -> [any |-> {"int", "unsigned int"}, natural |-> {}]
    [] want = "unsigned long int" -> [any |-> {"unsigned int"}, natural |-> {"int", "long int"}]
    [] want = "long long int" ->
         [any |-> {"int", "unsigned int", "long int", "unsigned long int"}, natural |-> {}]
    [] want = "unsigned long long int" ->
         [any |-> {"unsigned int", "unsigned long int"},
          natural |-> {"int", "long int", "long long int"}]
    [] OTHER -> [any |-> {}, natural |-> {}]

Coerced(want, x) ==
  \/ x.type \in Coercions(want).any
  \/ x.type \in Coercions(want).natural /\ x.v >= 0

(* ACT_RETURN and ACT_RETURN_COERCED                                       *)
ActRet(want, st, x) ==
  IF st \in NoAnswer THEN Plain(ZeroOf(want))
  ELSE IF Coerced(want, ReturnedOr(st, x)) THEN Plain(Cast(want, ReturnedOr(st, x).v))
  ELSE Asserted(want, ReturnedOr(st, x),
                IF st = "value" /\ x.type = want THEN x.v ELSE ZeroOf(want))

(* Mutant: an unmatched call, which answers with an empty value, is not    *)
(* taken for one that has a return value.                                  *)
ActRetDefaultOfValues(want, scopest, st, x, d) ==
  IF scopest = "value" THEN ActRet(want, st, x) ELSE Plain(d)

(* The default is given by what the scope says, the value by the call.     *)
ActRetDefault(want, scopest, st, x, d) ==
  IF HasReturnValue(scopest) THEN ActRet(want, st, x) ELSE Plain(d)

(* to_mock_value, for getData and returnValue of the C interface.          *)
ToMockValue(x) ==
  [type |-> IF x.type \in ObjectTypes THEN "object" ELSE x.type,
   v |-> x.v, checks |-> IF x.type \in ObjectTypes THEN 0 ELSE 1]
===============================================================================
