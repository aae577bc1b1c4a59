------------------------------- MODULE Assertions ------------------------------
(***************************************************************************)
(* The assertions of a test: the macros, which compare inline              *)
(* (src/include/CppUTest/UtestMacros.h, src/include/cpputest_core/core.h), *)
(* and the functions of the library (src/src/core/assert.c), by which      *)
(* UtestShell and the C harness (src/src/core/harness_c.c) compare.  Only  *)
(* one that fails builds a message.                                        *)
(*                                                                         *)
(* An assertion is [kind, e, a, n]: the values of its operands, and what   *)
(* a comparison of that kind takes besides (a length, a mask, a type, a    *)
(* threshold).                                                             *)
(***************************************************************************)
EXTENDS Text, MockValue

CONSTANTS
  CHAR_BITS,      \* 8
  NullPointer     \* in place of a text or of bytes

ASSUME ByteAssumption == CHAR_BITS \in Nat /\ 2 ^ CHAR_BITS \in Nat \ {0}

(* What a cast to a type keeps of an integer of any width.                 *)
CharTypes == {"signed char", "unsigned char"}
Modulus(type) == IF type \in CharTypes THEN 2 ^ CHAR_BITS ELSE 2 * MaxOf(type) + 2
Kept(type, n) ==
  LET bits == n % Modulus(type)
  IN  IF type \in SignedTypes \cup {"signed char"} /\ 2 * bits >= Modulus(type)
      THEN bits - Modulus(type) ELSE bits

First(s, n) == SubSeq(s, 1, Min({n, Len(s)}))
IsNull(x) == x = NullPointer

-------------------------------------------------------------------------------
(* Inline comparisons *)

(* cu_cstr_eq and cu_cstrn_eq; the same pointer is the same text.          *)
CstrEq(e, a) == e = a \/ (~IsNull(e) /\ ~IsNull(a) /\ e = a)
CstrnEq(e, a, n) == e = a \/ (~IsNull(e) /\ ~IsNull(a) /\ First(e, n) = First(a, n))

(* Mutant: a length of zero does not come first.                           *)
MemEqNullFirst(e, a, n) == e = a \/ (~IsNull(e) /\ ~IsNull(a) /\ First(e, n) = First(a, n))

(* cu_mem_eq *)
MemEq(e, a, n) == n = 0 \/ e = a \/ (~IsNull(e) /\ ~IsNull(a) /\ First(e, n) = First(a, n))

(* cu_doubles_eq and doubles_equal                                         *)
DoublesEq(e, a, t) ==
  /\ "nan" \notin {e.kind, a.kind, t.kind}
  /\ \/ e.kind = "inf" /\ a.kind = "inf"
     \/ t = Infinite(1)
     \/ /\ e.kind = "finite" /\ a.kind = "finite" /\ t.kind = "finite"
        /\ Distance(e, a) <= t.n

InlineKinds ==
  {"condition", "equal", "integers", "pointers", "doubles", "cstr", "cstrn", "memory", "bits"}

InlinePasses(x) ==
  CASE x.kind = "integers" -> Kept(x.n, x.e) = Kept(x.n, x.a)
    [] x.kind = "doubles" -> DoublesEq(x.e, x.a, x.n)
    [] x.kind = "cstr" -> CstrEq(x.e, x.a)
    [] x.kind = "cstrn" -> CstrnEq(x.e, x.a, x.n)
    [] x.kind = "memory" -> MemEq(x.e, x.a, x.n)
    [] x.kind = "bits" -> x.e \cap x.n = x.a \cap x.n
    [] OTHER -> x.e = x.a

-------------------------------------------------------------------------------
(* Comparisons of the library *)

(* What the assertions of two texts or buffers have in common.             *)
BothOrNone(e, a, same) ==
  \/ IsNull(e) /\ IsNull(a)
  \/ ~IsNull(e) /\ ~IsNull(a) /\ same

TextKinds == {"cstr", "cstrn", "nocase", "contains", "nocase_contains"}
LibraryKinds == InlineKinds \cup TextKinds

LibraryPasses(x) ==
  CASE x.kind = "cstr" -> BothOrNone(x.e, x.a, x.e = x.a)
    [] x.kind = "cstrn" -> BothOrNone(x.e, x.a, First(x.e, x.n) = First(x.a, x.n))
    [] x.kind = "nocase" -> BothOrNone(x.e, x.a, SameIgnoringCase(x.e, x.a))
    [] x.kind = "contains" -> BothOrNone(x.e, x.a, Places(x.a, x.e) # {})
    [] x.kind = "nocase_contains" -> BothOrNone(x.e, x.a, FoundIgnoringCase(x.a, x.e))
    [] x.kind = "memory" -> x.n = 0 \/ BothOrNone(x.e, x.a, First(x.e, x.n) = First(x.a, x.n))
    [] OTHER -> InlinePasses(x)

-------------------------------------------------------------------------------
(* Checks *)

(* The macros that count their check before the operands are evaluated.    *)
CountsFirst(x) == x.kind \in {"condition", "cstr", "cstrn", "memory"}

(* CHECK_COMPARE counts only by failing.                                   *)
MacroChecks(x, passes) == IF x.kind = "print" \/ (x.kind = "compare" /\ passes) THEN 0 ELSE 1

-------------------------------------------------------------------------------
(* Messages *)

Shown(s) == IF IsNull(s) THEN <<"(null)">> ELSE Printable(s)

Message(e, a) == [e |-> e, a |-> a, window |-> <<>>, caret |-> 0]
WithWindow(e, a, w) == [e |-> e, a |-> a, window |-> w.shown, caret |-> w.caret]

(* Mutant: the place in the raw text stands for that in the shown one.     *)
TextMessageRaw(e, a) ==
  IF IsNull(e) \/ IsNull(a) THEN Message(Shown(e), Shown(a))
  ELSE WithWindow(Shown(e), Shown(a), DifferenceAtPos(Shown(a), FirstDifference(a, e)))

(* raise_string_equal and cu_fail_equals_strings                           *)
TextMessage(e, a) ==
  IF IsNull(e) \/ IsNull(a) THEN Message(Shown(e), Shown(a))
  ELSE WithWindow(Shown(e), Shown(a), DifferenceAtPos(Shown(a), FirstDifference(Shown(a), Shown(e))))

NoCaseMessage(e, a) ==
  IF IsNull(e) \/ IsNull(a) THEN Message(Shown(e), Shown(a))
  ELSE WithWindow(Shown(e), Shown(a),
         DifferenceAtPos(Shown(a), FirstDifference(Lowered(Shown(a)), Lowered(Shown(e)))))

(* cu_fail_memcmp: the first byte that differs has its digits from three   *)
(* times its index on; the caret goes to the second.                       *)
MemoryMessage(e, a, n) ==
  LET hex(b) == IF IsNull(b) THEN <<"(null)">> ELSE FromBinary(First(b, n))
      same == {i \in 0 .. n : First(a, i) = First(e, i)}
  IN  IF IsNull(e) \/ IsNull(a) THEN Message(hex(e), hex(a))
      ELSE WithWindow(hex(e), hex(a), DifferenceAtPos(hex(a), 3 * Max(same) + 1))

(* The other kinds show both values, as far as the type goes.              *)
FailureMessage(x) ==
  CASE x.kind \in {"equal", "cstr", "cstrn"} -> TextMessage(x.e, x.a)
    [] x.kind = "nocase" -> NoCaseMessage(x.e, x.a)
    [] x.kind = "memory" -> MemoryMessage(x.e, x.a, x.n)
    [] x.kind = "bits" -> Message(FromMaskedBits(x.e, x.n, CHAR_BITS), FromMaskedBits(x.a, x.n, CHAR_BITS))
    [] x.kind = "integers" -> Message(<<Kept(x.n, x.e)>>, <<Kept(x.n, x.a)>>)
    [] OTHER -> Message(<<>>, <<>>)
===============================================================================
