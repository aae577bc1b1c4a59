-------------------------------- MODULE TestBody -------------------------------
(***************************************************************************)
(* What runs between setup and teardown: a test that asserts, reads what   *)
(* mocked calls return or a mock's data has, lets the mock compare         *)
(* parameters, or works on a SimpleString.  A failing assertion leaves the *)
(* body.                                                                   *)
(*                                                                         *)
(* Which call matches which expectation is MockCall's concern: here a call *)
(* has one of the states its return value can be in.                       *)
(***************************************************************************)
EXTENDS Assertions

CONSTANTS
  Topics,      \* what the body is about: "assert", "read", "cursor", "data", "match", "text"
  Assertable,  \* the assertions, with their operands
  Scopes,      \* the mock's scopes
  Global,
  Answers,     \* of the topics "read" and "cursor": the answers of calls, as [st, x]
  Values,      \* what setData is given
  Compared,    \* what with...Parameter is given, of an expectation and of a call
  Wants,       \* of each topic: the types of the getters in use
  Chars,       \* the characters of texts
  Texts,       \* texts that strings are made from
  MaxChecks,   \* bound: checks of a body
  MaxCalls,    \* bound, of the same topics: calls of a body
  MaxLength    \* bound: characters of a string

(* Operands are of the types that the assertion takes: a text ends before  *)
(* its NUL, and a buffer has the bytes that are compared, each the pair of *)
(* its digits.                                                             *)
Doubles == [kind : {"finite"}, n : Int] \cup {Infinite(-1), Infinite(1), NaN}
WellFormed(x) ==
  /\ x.kind = "integers" => {x.e, x.a} \subseteq Int /\ x.n \in IntegerTypes \cup CharTypes
  /\ x.kind = "doubles" => {x.e, x.a, x.n} \subseteq Doubles
  /\ x.kind \in TextKinds => {x.e, x.a} \subseteq Seq(Chars) \cup {NullPointer}
  /\ x.kind = "equal" => {x.e, x.a} \subseteq Seq(Chars)
  /\ x.kind \in {"cstrn", "memory"} => x.n \in Nat
  /\ x.kind = "memory" => \A b \in {x.e, x.a} \ {NullPointer} : b \in Seq(Chars \X Chars) /\ x.n <= Len(b)

(* An integer is one of its type, and no type of objects is named like a   *)
(* type that a getter is for; no getter of a call is for objects.          *)
InRange(x) == IsInteger(x) => x.v \in NumbersOf(x.type)
WellAnswered(t, r) ==
  /\ r.st \in ReturnStates /\ InRange(r.x)
  /\ r.x.type \in ObjectTypes => r.x.of \notin Wants[t]

ASSUME BodyAssumption ==
  /\ Global \in Scopes /\ NullPointer \notin Scopes
  /\ MaxChecks \in Nat /\ MaxLength \in Nat
  /\ NUL \notin Chars /\ Texts \subseteq Seq(Chars)
  /\ \A x \in Assertable : WellFormed(x)
  /\ \A x \in Values \cup Compared : InRange(x)
  /\ \A t \in Topics \cap {"read", "cursor"} : Wants[t] \cap ObjectTypes = {}
  /\ \A t \in Topics : \A r \in Answers[t] : WellAnswered(t, r)

VARIABLES
  topic,
  status,       \* of the body: "running", "passed", "failed" or "exited"
  checks,       \* what the running result's counter has from this body
  last,         \* history: the last assertion, and how it was made
  calls,        \* the calls that were made, freed or not
  last_actual,  \* of each scope: the number of a call, or NoCall
  bound,        \* of each scope: the call its facade's reference is bound to
  cur_scope,    \* the cursors of the C interface
  cur_actual,
  data,         \* of each scope: its value under one name, or NoData
  expected,     \* the value of an expected parameter, or NoData
  got,          \* history: what was read last
  text,         \* a SimpleString
  overrun       \* history: did replace write behind its allocation?

assertions == <<checks, last>>
mocks == <<calls, last_actual, bound, cur_scope, cur_actual, data, expected, got>>
strings == <<text, overrun>>
bodyVars == <<topic, status, assertions, mocks, strings>>

NoCall == 0
Trace == -1    \* the one call object of tracing, which is never freed
NoData == [type |-> "none"]
NoText == [op |-> "none"]
Unread == [by |-> "none"]
NotYet == [route |-> "none"]

BodyInit ==
  /\ topic \in Topics /\ status = "running" /\ checks = 0 /\ last = NotYet
  /\ calls = <<>> /\ last_actual = [n \in Scopes |-> NoCall]
  /\ bound = [n \in Scopes |-> NoCall]
  /\ cur_scope = NullPointer /\ cur_actual = NoCall
  /\ data = [n \in Scopes |-> NoData] /\ expected = NoData /\ got = Unread
  /\ text = NoText /\ overrun = FALSE

Doing(t) == topic = t /\ status = "running"

-------------------------------------------------------------------------------
(* Assertions *)

Asserting == Doing("assert") /\ checks < MaxChecks /\ UNCHANGED <<topic, mocks, strings>>

Outcome(route, x, passes) ==
  /\ last' = [route |-> route, x |-> x, passes |-> passes,
              message |-> IF passes THEN Message(<<>>, <<>>) ELSE FailureMessage(x)]
  /\ status' = IF passes THEN "running" ELSE "failed"

Macro(x) ==
  /\ Asserting /\ x.kind \in InlineKinds \cup {"compare", "print"}
  /\ checks' = checks + MacroChecks(x, InlinePasses(x))
  /\ Outcome("macro", x, InlinePasses(x))

(* UtestShell's methods, and the C harness.                                *)
Library(x) ==
  /\ Asserting /\ x.kind \in LibraryKinds \cup {"compare"}
  /\ checks' = checks + 1
  /\ Outcome("library", x, LibraryPasses(x))

(* The evaluation of an operand does not come back.                        *)
OperandLeaves(x) ==
  /\ Asserting
  /\ checks' = checks + IF CountsFirst(x) THEN 1 ELSE 0
  /\ status' = "failed" /\ last' = NotYet

(* FAIL; CHECK_THROWS, of which the failing one is FAIL.                   *)
Fail ==
  /\ Asserting
  /\ checks' = checks + 1 /\ status' = "failed" /\ last' = [route |-> "fail"]

Throws ==
  /\ Asserting
  /\ checks' = checks + 1 /\ last' = NotYet /\ UNCHANGED status

TestExit ==
  /\ Asserting
  /\ status' = "exited" /\ last' = NotYet /\ UNCHANGED checks

-------------------------------------------------------------------------------
(* Calls and their return values *)

(* A read changes nothing but what was read: it is followed no further.    *)
Mocking(topics) ==
  /\ topic \in topics /\ status = "running" /\ got = Unread
  /\ UNCHANGED <<topic, last, expected, strings>>

Calling == Mocking({"read", "cursor"}) /\ UNCHANGED data

Alive(h) == IF h > 0 THEN last_actual[calls[h].scope] = h ELSE TRUE

StateOf(h) == CASE h = NoCall -> "ignored" [] h = Trace -> "traced" [] OTHER -> calls[h].st
ValueOf(h) == IF h \in {NoCall, Trace} THEN Empty ELSE calls[h].x

(* cum_actual_call: the one before is freed; the answer is known when the  *)
(* call has been read or finalized.                                        *)
Called(n, r, h, x) ==
  /\ Len(calls) < MaxCalls[topic]
  /\ h = CASE r.st = "ignored" -> NoCall [] r.st = "traced" -> Trace [] OTHER -> Len(calls) + 1
  /\ calls' = Append(calls, [scope |-> n, st |-> r.st, x |-> x])
  /\ last_actual' = [last_actual EXCEPT ![n] = IF h > 0 THEN h ELSE NoCall]
  /\ UNCHANGED <<checks, got>>

ActualCall(n, r) ==
  /\ Calling
  /\ \E h \in {NoCall, Trace, Len(calls) + 1} :
       Called(n, r, h, AndReturnValue(r.x)) /\ bound' = [bound EXCEPT ![n] = h]
  /\ UNCHANGED <<status, cur_scope, cur_actual>>

(* scope() *)
CScope == IF IsNull(cur_scope) THEN Global ELSE cur_scope

MockC(n) ==
  /\ Calling
  /\ cur_scope' = n
  /\ UNCHANGED <<status, checks, calls, last_actual, bound, cur_actual, got>>

ActualCallC(r) ==
  /\ Calling
  /\ \E h \in {NoCall, Trace, Len(calls) + 1} : Called(CScope, r, h, AndReturnValueC(r.x)) /\ cur_actual' = h
  /\ cur_scope' = CScope
  /\ UNCHANGED <<status, bound>>

(* An unexpected call leaves the body before the cursor is set.            *)
UnexpectedCallC ==
  /\ Calling
  /\ Called(CScope, [st |-> "unmatched"], Len(calls) + 1, Empty)
  /\ status' = "failed"
  /\ cur_scope' = CScope
  /\ UNCHANGED <<bound, cur_actual>>

(* A getter's type assertion that fails leaves the body.  latest: is the   *)
(* call the one that the scope of the C interface has?                     *)
Read(by, want, h, outcome) ==
  /\ got' = [by |-> by, want |-> want, st |-> StateOf(h), x |-> ValueOf(h),
             scopest |-> StateOf(last_actual[CScope]),
             latest |-> (last_actual[CScope] = IF h > 0 THEN h ELSE NoCall), outcome |-> outcome]
  /\ status' = IF outcome.failed THEN "failed" ELSE "running"
  /\ checks' = checks + outcome.checks
  /\ UNCHANGED <<calls, last_actual, bound, cur_scope, cur_actual>>

ReadCall(n, want) ==
  /\ Calling /\ Alive(bound[n])
  /\ \/ Read("call", want, bound[n], CallReturn(want, StateOf(bound[n]), ValueOf(bound[n])))
     \/ Read("call default", want, bound[n],
             CallReturnOrDefault(want, StateOf(bound[n]), ValueOf(bound[n]), "default"))

ReadScope(n, want) ==
  LET h == last_actual[n]
  IN  /\ Calling
      /\ \/ Read("scope", want, h, ScopeReturn(want, StateOf(h), ValueOf(h)))
         \/ Read("scope default", want, h,
                 ScopeReturnOrDefault(want, StateOf(h), ValueOf(h), "default"))

ReadC(want) ==
  /\ Calling /\ Alive(cur_actual)
  /\ \/ Read("C", want, cur_actual, ActRet(want, StateOf(cur_actual), ValueOf(cur_actual)))
     \/ Read("C default", want, cur_actual,
             ActRetDefault(want, StateOf(last_actual[CScope]), StateOf(cur_actual),
                           ValueOf(cur_actual), "default"))

(* The cursor's call is freed: what is read there is undefined.            *)
ReadFreed ==
  /\ Calling /\ ~Alive(cur_actual)
  /\ \E v \in {0, 1} : got' = [by |-> "freed", v |-> v]
  /\ UNCHANGED <<status, checks, calls, last_actual, bound, cur_scope, cur_actual>>

(* The global mock's clear goes over all scopes.                           *)
Cleared(n, f, none) == [m \in Scopes |-> IF n \in {m, Global} THEN none ELSE f[m]]

Clearing(n) ==
  /\ Mocking({"read", "cursor", "data"})
  /\ last_actual' = Cleared(n, last_actual, NoCall)
  /\ data' = Cleared(n, data, NoData)

(* clear of the C++ facade, and of the plugin at the end of a test.        *)
Clear(n) ==
  /\ Clearing(n)
  /\ UNCHANGED <<status, checks, calls, bound, cur_scope, cur_actual, got>>

(* sup_clear *)
ClearC ==
  /\ Clearing(CScope)
  /\ cur_actual' = NoCall /\ cur_scope' = CScope
  /\ UNCHANGED <<status, checks, calls, bound, got>>

-------------------------------------------------------------------------------
(* Data and parameters *)

NoCallsTouched == UNCHANGED <<calls, last_actual, bound, cur_scope, cur_actual>>
Storing == Mocking({"data"}) /\ NoCallsTouched

SetData(n, x) ==
  /\ Storing
  /\ \E made \in {DataValue(x), DataValueC(x)} : data' = [data EXCEPT ![n] = made]
  /\ UNCHANGED <<status, checks, got>>

DataOf(n) == IF data[n] = NoData THEN Empty ELSE data[n]

GetData(n, want) ==
  LET outcome == GetValue(want, DataOf(n))
  IN  /\ Storing
      /\ got' = [by |-> "data", want |-> want, st |-> "value", x |-> DataOf(n),
                 scopest |-> "value", outcome |-> outcome]
      /\ status' = IF outcome.failed THEN "failed" ELSE "running"
      /\ checks' = checks + outcome.checks
      /\ UNCHANGED data

GetDataC(n) ==
  /\ Storing
  /\ got' = [by |-> "C data", x |-> DataOf(n), c |-> ToMockValue(DataOf(n))]
  /\ checks' = checks + ToMockValue(DataOf(n)).checks
  /\ UNCHANGED <<status, data>>

Matching ==
  /\ Doing("match") /\ got = Unread
  /\ UNCHANGED <<topic, status, assertions, data, strings>> /\ NoCallsTouched

WithExpected(x) ==
  /\ Matching /\ expected = NoData
  /\ expected' \in {ExpectedParameter(x), ExpectedParameterC(x)}
  /\ UNCHANGED got

WithActual(x) ==
  /\ Matching /\ expected # NoData
  /\ \E made \in {ActualParameter(x), ActualParameterC(x)}, comparator \in {{}, {<<x.v, x.v>>}} :
       got' = [by |-> "match", x |-> made, bound |-> comparator # {},
               equal |-> ValueEquals(expected, made, comparator)]
  /\ UNCHANGED expected

-------------------------------------------------------------------------------
(* Strings *)

Texting == Doing("text") /\ UNCHANGED <<topic, status, assertions, mocks>>

Now(s) == [op |-> "string", s |-> s]
Str == text.s

Becomes(s) == Len(s) <= MaxLength /\ text' = Now(s) /\ UNCHANGED overrun

Construct == Texting /\ \E t \in Texts : Becomes(t)

HasText == Texting /\ text # NoText

(* Copies, and what is made of a copy, end at the first NUL.               *)
Change ==
  /\ HasText
  /\ \/ Becomes(CString(Str))
     \/ Becomes(Lowered(CString(Str)))
     \/ \E t \in Texts :
          \/ Becomes(Str \o t)
          \/ Becomes(PadToSameLength(CString(Str), t, "A")[1])
     \/ \E i, k \in 0 .. Len(Str) + 1 : Becomes(CString(SubString(Str, i, k)))
     \/ \E c, d \in {"a", "A"} : Becomes(CString(SubStringFromTill(Str, c, d)))
     \/ \E c \in {"a", "A"}, d \in {"a", NUL} : Becomes(ReplaceChar(Str, c, d))
     \/ \E k \in 1 .. Len(Str) + 1 : Becomes(CString(CopyToBuffer(Str, k)))

ReplaceText(to, with) ==
  /\ HasText
  /\ Len(Replace(Str, to, with)) <= MaxLength
  /\ text' = [op |-> "replace", s |-> Replace(Str, to, with), of |-> Str, to |-> to]
  /\ overrun' = (Occurrences(Str, to) # {} /\ Len(Replace(Str, to, with)) > ReplaceSize(Str, to, with))

SplitAt(delimiter) ==
  /\ HasText
  /\ text' = [op |-> "split", s |-> Str, by |-> delimiter, tokens |-> Split(Str, delimiter)]
  /\ UNCHANGED overrun

Ask(t) ==
  /\ HasText
  /\ text' = [op |-> "ask", s |-> Str, about |-> t, contains |-> TextContains(Str, t),
              starts |-> StartsWith(Str, t), ends |-> EndsWith(Str, t),
              count |-> Cardinality(Occurrences(Str, t))]
  /\ UNCHANGED overrun

(* The body comes to its end.                                              *)
Return ==
  /\ status = "running"
  /\ status' = "passed"
  /\ UNCHANGED <<topic, assertions, mocks, strings>>

BodyOver == status # "running" /\ UNCHANGED bodyVars

-------------------------------------------------------------------------------
BodyNext ==
  \/ \E x \in Assertable : Macro(x) \/ Library(x) \/ OperandLeaves(x)
  \/ Fail \/ Throws \/ TestExit
  \/ \E n \in Scopes :
       \/ MockC(n) \/ Clear(n) \/ GetDataC(n)
       \/ \E r \in Answers[topic] : ActualCall(n, r)
       \/ \E want \in Wants[topic] : ReadCall(n, want) \/ ReadScope(n, want) \/ GetData(n, want)
       \/ \E x \in Values : SetData(n, x)
  \/ \E r \in Answers[topic] : ActualCallC(r)
  \/ UnexpectedCallC
  \/ \E want \in Wants[topic] : ReadC(want)
  \/ ReadFreed \/ ClearC
  \/ \E x \in Compared : WithExpected(x) \/ WithActual(x)
  \/ Construct \/ Change
  \/ \E to, with \in Texts : ReplaceText(to, with)
  \/ \E t \in Texts : SplitAt(t) \/ Ask(t)
  \/ Return \/ BodyOver

BodySpec == BodyInit /\ [][BodyNext]_bodyVars

-------------------------------------------------------------------------------
(* Properties *)

(* The meaning of an assertion, over the characters and numbers of its     *)
(* operands rather than by the code's steps.                               *)
CharsEqual(s, t) == \A i \in 0 .. Len(s) + Len(t) : At(s, i) = At(t, i)
CharsFound(s, t) == \E i \in 0 .. Len(s) : \A k \in 0 .. Len(t) - 1 : At(s, i + k) = At(t, k)
NullsOr(e, a, relation) == (IsNull(e) <=> IsNull(a)) /\ (IsNull(e) \/ relation)

Meaning(x) ==
  CASE x.kind = "integers" -> (x.e - x.a) % Modulus(x.n) = 0
    [] x.kind = "doubles" ->
         /\ {x.e.kind, x.a.kind, x.n.kind} \cap {"nan"} = {}
         /\ \/ {x.e.kind, x.a.kind} = {"inf"}
            \/ x.n.kind = "inf" /\ x.n.n > 0
            \/ {x.e.kind, x.a.kind, x.n.kind} = {"finite"} /\ (x.e.n - x.a.n) \in -x.n.n .. x.n.n
    [] x.kind = "cstr" -> NullsOr(x.e, x.a, CharsEqual(x.e, x.a))
    [] x.kind = "cstrn" ->
         NullsOr(x.e, x.a,
           \A i \in 0 .. x.n - 1 : (\A k \in 0 .. i - 1 : At(x.e, k) # NUL) => At(x.e, i) = At(x.a, i))
    [] x.kind = "nocase" -> NullsOr(x.e, x.a, CharsEqual(Lowered(x.e), Lowered(x.a)))
    [] x.kind = "contains" -> NullsOr(x.e, x.a, CharsFound(x.a, x.e))
    [] x.kind = "nocase_contains" -> NullsOr(x.e, x.a, CharsFound(Lowered(x.a), Lowered(x.e)))
    [] x.kind = "memory" -> x.n = 0 \/ NullsOr(x.e, x.a, \A i \in 1 .. x.n : x.e[i] = x.a[i])
    [] x.kind = "bits" -> \A b \in x.n : b \in x.e <=> b \in x.a
    [] OTHER -> x.e = x.a

(* An assertion passes exactly when what it says of its operands is true,  *)
(* whether the macro compared inline or the library did: the two are       *)
(* separate code.                                                          *)
HasCompared == last.route \in {"macro", "library"}
AssertsRightly == HasCompared => (last.passes <=> Meaning(last.x))

(* Two texts that differ only in a control character and the characters of *)
(* its escape look the same, and so do values whose difference is beyond   *)
(* the width of the actual one.                                            *)
LooksTheSame(x) ==
  \/ x.kind \in {"equal", "cstr", "cstrn"} /\ Shown(x.e) = Shown(x.a)
  \/ x.kind = "nocase" /\ Lowered(Shown(x.e)) = Lowered(Shown(x.a))
  \/ x.kind = "bits" /\ \A b \in x.n \cap (0 .. CHAR_BITS - 1) : b \in x.e <=> b \in x.a

PlainKinds == {"condition", "compare", "pointers", "doubles", "contains", "nocase_contains", "print"}

(* What m, of a failed comparison, shows are two different values; its     *)
(* caret stands under the first character of the actual one that differs.  *)
ShowsDifference(x, m) ==
  LET like(c, d) == IF x.kind = "nocase" THEN ToLower(c) = ToLower(d) ELSE c = d
      before(k) == \A i \in 0 .. k - 1 : like(At(m.e, i), At(m.a, i))
      byte(k) == IF x.kind = "memory" THEN k \div 3 ELSE k
  IN  /\ m.e # m.a \/ LooksTheSame(x)
      /\ m.window # <<>> /\ ~LooksTheSame(x) =>
           \E k \in 0 .. Len(m.a) :
             /\ before(k) /\ ~like(At(m.e, k), At(m.a, k))
             /\ \E at \in 0 .. Len(m.a) :
                  /\ byte(at) = byte(k)
                  /\ \A i \in DOMAIN m.window :
                       m.window[i] = IF at + i - m.caret \in 0 .. Len(m.a) - 1
                                     THEN At(m.a, at + i - m.caret) ELSE Blank

(* The message of a failed comparison does so for texts with control       *)
(* characters (which are shown as several) and for bytes as well.          *)
MessageShowsDifference ==
  HasCompared /\ ~last.passes /\ last.x.kind \notin PlainKinds =>
    ShowsDifference(last.x, last.message)

(* A number is never changed on its way: two parameters match if and only  *)
(* if they are the same number, whatever their types; and what a getter    *)
(* gives of a value, without failing, is that number.  The exception is an *)
(* unsigned long read as a long long.                                      *)
UnsignedAsSigned(want, x) == want = "long long int" /\ x.type = "unsigned long int"
ValuesKept ==
  /\ got.by = "match" /\ IsInteger(expected) /\ IsInteger(got.x) =>
       (got.equal <=> expected.v = got.x.v)
  /\ /\ got.by \in {"call", "scope", "C", "data"} /\ got.st = "value"
     /\ ~got.outcome.failed /\ IsInteger(got.x)
     /\ ~UnsignedAsSigned(got.want, got.x)
     => got.outcome.v = got.x.v
  /\ got.by = "C data" /\ IsInteger(got.x) => got.c.v = got.x.v

(* The C interface has its own table of getters.  For the same call it     *)
(* gives, counts and fails as the getters of the call do in C++.  With a   *)
(* default, it does as the scope's getters in C++ and as those of the      *)
(* call, provided the scope's last call is the one that the cursor is at.  *)
(* The exception is a traced call, which has no default in C++: its own    *)
(* getters give zero.                                                      *)
Alike(a, b) == (a.failed <=> b.failed) /\ a.checks = b.checks /\ (~b.failed => a.v = b.v)

InterfacesAgree ==
  /\ got.by = "C" => Alike(got.outcome, CallReturn(got.want, got.st, got.x))
  /\ got.by = "C default" /\ got.latest =>
       /\ Alike(got.outcome, ScopeReturnOrDefault(got.want, got.scopest, got.x, "default"))
       /\ got.st # "traced" =>
            Alike(got.outcome, CallReturnOrDefault(got.want, got.st, got.x, "default"))

(* Splitting loses no character of the string, but for a string that ends  *)
(* with a delimiter of more than one: there all but the first of the last. *)
SplitKeeps ==
  text.op = "split" =>
    LET s == CString(text.s)
        lost == IF EndsWith(s, text.by) /\ Len(text.by) > 0 THEN Len(text.by) - 1 ELSE 0
    IN  CString(text.s) = text.s => FlattenSeq(text.tokens) = SubSeq(s, 1, Len(s) - lost)

(* What a string answers about a text fits together, unless a NUL was put  *)
(* into it; count does not count an empty text in an empty one.            *)
AnswersAgree ==
  text.op = "ask" /\ CString(text.s) = text.s =>
    /\ text.starts \/ text.ends => text.contains
    /\ text.about # <<>> => (text.contains <=> text.count > 0)

(* replace stays inside what it allocates, but where occurrences overlap   *)
(* and the text shrinks.                                                   *)
ReplaceFits ==
  text.op = "replace" /\ overrun =>
    \E i, k \in Occurrences(text.of, text.to) : i < k /\ k < i + Len(text.to)

TextKept == SplitKeeps /\ AnswersAgree /\ ReplaceFits
===============================================================================
