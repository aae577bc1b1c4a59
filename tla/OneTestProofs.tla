----------------------------- MODULE OneTestProofs ------------------------------
(***************************************************************************)
(* What holds of one test: of what its body does, for all operands, calls, *)
(* scopes and texts, whatever the bounds; and of the child it runs in      *)
(* under -p, for every number of tests, retries, stops and failures, as    *)
(* long as no test calls exit(0).                                          *)
(***************************************************************************)
EXTENDS TestBody, SeparateProcess, FiniteSetTheorems, SequenceTheorems, WellFoundedInduction, TLAPS

-------------------------------------------------------------------------------
(* Mock calls and the cursors to them                                      *)

(* What the variables of the mocks hold.  A scope's last call and the      *)
(* cursor's call are numbers of calls that were made, and a call answers   *)
(* what a test told it to.                                                 *)
MadeCall(t, c) ==
  /\ c.scope \in Scopes /\ c.st \in ReturnStates /\ InRange(c.x)
  /\ c.x.type \in ObjectTypes => c.x.of \notin Wants[t]

MocksTyped ==
  /\ topic \in Topics
  /\ calls = [j \in 1 .. Len(calls) |-> calls[j]] /\ Len(calls) \in Nat
  /\ \A j \in 1 .. Len(calls) : MadeCall(topic, calls[j])
  /\ last_actual \in [Scopes -> 0 .. Len(calls)]
  /\ bound \in [Scopes -> -1 .. Len(calls)]
  /\ cur_scope \in Scopes \cup {NullPointer}
  /\ cur_actual \in -1 .. Len(calls)

LEMMA CScopeTyped ==
  ASSUME MocksTyped
  PROVE  CScope \in Scopes
BY BodyAssumption DEF MocksTyped, CScope, IsNull

(* The step of a call: which it was, and what else changed, does not       *)
(* matter to the calls made before.                                        *)
LEMMA CalledTyped ==
  ASSUME MocksTyped, NEW n \in Scopes, NEW r, NEW h, NEW x,
         Called(n, r, h, x), topic' = topic,
         r.st \in ReturnStates, InRange(x), x.type \in ObjectTypes => x.of \notin Wants[topic]
  PROVE  /\ Len(calls') = Len(calls) + 1
         /\ calls' = [j \in 1 .. Len(calls') |-> calls'[j]]
         /\ \A j \in 1 .. Len(calls') : MadeCall(topic, calls'[j])
         /\ h \in -1 .. Len(calls')
         /\ last_actual' \in [Scopes -> 0 .. Len(calls')]
<1> DEFINE L == Len(calls)
           c == [scope |-> n, st |-> r.st, x |-> x]
<1>1. L \in Nat /\ last_actual \in [Scopes -> 0 .. L]
  BY DEF MocksTyped
<1>2. calls' = Append(calls, c) /\ last_actual' = [last_actual EXCEPT ![n] = IF h > 0 THEN h ELSE 0]
  BY DEF Called, NoCall
<1>3. h = CASE r.st = "ignored" -> 0 [] r.st = "traced" -> -1 [] OTHER -> L + 1
  BY DEF Called, NoCall, Trace
<1>4. h \in -1 .. L + 1 /\ (h > 0 => h = L + 1)
  BY <1>1, <1>3
<1> DEFINE S == {calls[j] : j \in 1 .. L} \cup {c}
<1>c. c \in S /\ \A j \in 1 .. L : calls[j] \in S
  OBVIOUS
<1>5. calls \in Seq(S)
  <2> HIDE DEF S, c
  <2>1. calls \in [1 .. L -> S]
    BY <1>c DEF MocksTyped
  <2> QED
    BY <1>1, <2>1, SeqDef
<1>6. Len(calls') = L + 1 /\ (\A j \in 1 .. L : calls'[j] = calls[j]) /\ calls'[L + 1] = c
      /\ calls' \in Seq(S)
  <2> HIDE DEF S, c
  <2> QED
    BY <1>1, <1>2, <1>5, <1>c
<1>7. calls' = [j \in 1 .. L + 1 |-> calls'[j]]
  BY <1>6
<1>8. MadeCall(topic, c)
  BY DEF MadeCall, InRange
<1>9. \A j \in 1 .. L : MadeCall(topic, calls[j])
  BY DEF MocksTyped, MadeCall
<1>10. \A j \in 1 .. L + 1 : MadeCall(topic, calls'[j])
  BY <1>1, <1>6, <1>8, <1>9
<1>11. last_actual' \in [Scopes -> 0 .. L + 1]
  BY <1>1, <1>2, <1>4
<1> QED
  BY <1>1, <1>2, <1>4, <1>6, <1>7, <1>10, <1>11

(* What a value is made from has its type, and stays in its range.         *)
LEMMA ConstructedTyped ==
  ASSUME NEW x, NEW tolerance, InRange(x)
  PROVE  /\ Constructed(x, tolerance).type = x.type
         /\ InRange(Constructed(x, tolerance))
         /\ x.type \notin {"bool", "double"} => Constructed(x, tolerance) = x
<1> DEFINE y == Constructed(x, tolerance)
<1>1. CASE x.type = "bool"
  <2>1. y = Made("bool", IF x.v # 0 THEN 1 ELSE 0)
    BY <1>1 DEF Constructed
  <2> QED
    BY <1>1, <2>1 DEF Made, InRange, IsInteger, IntegerTypes, SignedTypes, UnsignedTypes
<1>2. CASE x.type = "double"
  <2>1. y = IF "tolerance" \in DOMAIN x THEN x ELSE WithTolerance(x.v, tolerance)
    BY <1>2 DEF Constructed
  <2>2. y.type = "double"
    BY <1>2, <2>1 DEF WithTolerance
  <2> QED
    BY <1>2, <2>2 DEF InRange, IsInteger, IntegerTypes, SignedTypes, UnsignedTypes
<1>3. CASE x.type \notin {"bool", "double"}
  BY <1>3 DEF Constructed
<1> QED
  BY <1>1, <1>2, <1>3

LEMMA NothingCalled ==
  ASSUME MocksTyped, topic' = topic, NoCallsTouched
  PROVE  MocksTyped'
BY DEF MocksTyped, NoCallsTouched, MadeCall

LEMMA AnswerTyped ==
  ASSUME MocksTyped, NEW r \in Answers[topic]
  PROVE  /\ r.st \in ReturnStates
         /\ InRange(Constructed(r.x, Finite(0)))
         /\ Constructed(r.x, Finite(0)).type \in ObjectTypes =>
              Constructed(r.x, Finite(0)).of \notin Wants[topic]
<1>0. \A t \in Topics : \A s \in Answers[t] : WellAnswered(t, s)
  BY BodyAssumption
<1>1. WellAnswered(topic, r)
  BY <1>0 DEF MocksTyped
<1> DEFINE y == Constructed(r.x, Finite(0))
<1>2. /\ y.type = r.x.type /\ InRange(y)
      /\ r.x.type \notin {"bool", "double"} => y = r.x
  BY <1>1, ConstructedTyped DEF WellAnswered
<1>3. y.type \in ObjectTypes => y.of \notin Wants[topic]
  <2> HIDE DEF y
  <2> QED
    BY <1>1, <1>2 DEF WellAnswered, ObjectTypes
<1> QED
  BY <1>1, <1>2, <1>3 DEF WellAnswered

LEMMA ActualCallKeeps ==
  ASSUME MocksTyped, NEW n \in Scopes, NEW r \in Answers[topic], ActualCall(n, r)
  PROVE  MocksTyped'
<1> DEFINE y == Constructed(r.x, Finite(0))
<1>1. PICK h : Called(n, r, h, y) /\ bound' = [bound EXCEPT ![n] = h]
  BY DEF ActualCall, AndReturnValue
<1>2. /\ topic' = topic /\ cur_scope' = cur_scope /\ cur_actual' = cur_actual
  BY DEF ActualCall, Calling, Mocking
<1>3. r.st \in ReturnStates /\ InRange(y) /\ (y.type \in ObjectTypes => y.of \notin Wants[topic])
  BY AnswerTyped
<1> HIDE DEF y
<1>4. /\ Len(calls') = Len(calls) + 1
      /\ calls' = [j \in 1 .. Len(calls') |-> calls'[j]]
      /\ \A j \in 1 .. Len(calls') : MadeCall(topic, calls'[j])
      /\ h \in -1 .. Len(calls')
      /\ last_actual' \in [Scopes -> 0 .. Len(calls')]
  BY <1>1, <1>2, <1>3, CalledTyped
<1>5. bound' \in [Scopes -> -1 .. Len(calls')]
  <2>1. bound \in [Scopes -> -1 .. Len(calls')]
    BY <1>4 DEF MocksTyped
  <2> QED
    BY <1>1, <1>4, <2>1
<1>6. cur_actual' \in -1 .. Len(calls') /\ cur_scope' \in Scopes \cup {NullPointer} /\ topic' \in Topics
  BY <1>2, <1>4 DEF MocksTyped
<1> QED
  BY <1>2, <1>4, <1>5, <1>6 DEF MocksTyped

LEMMA ActualCallCKeeps ==
  ASSUME MocksTyped, NEW r \in Answers[topic], ActualCallC(r)
  PROVE  MocksTyped'
<1> DEFINE y == Constructed(r.x, Finite(0))
<1>0. PICK n \in Scopes : n = CScope
  BY CScopeTyped
<1>1. PICK h : Called(n, r, h, y) /\ cur_actual' = h
  BY <1>0 DEF ActualCallC, AndReturnValueC
<1>2. topic' = topic /\ cur_scope' = n /\ bound' = bound
  BY <1>0 DEF ActualCallC, Calling, Mocking
<1>3. r.st \in ReturnStates /\ InRange(y) /\ (y.type \in ObjectTypes => y.of \notin Wants[topic])
  BY AnswerTyped
<1> HIDE DEF y
<1>4. /\ Len(calls') = Len(calls) + 1
      /\ calls' = [j \in 1 .. Len(calls') |-> calls'[j]]
      /\ \A j \in 1 .. Len(calls') : MadeCall(topic, calls'[j])
      /\ h \in -1 .. Len(calls')
      /\ last_actual' \in [Scopes -> 0 .. Len(calls')]
  BY <1>1, <1>2, <1>3, CalledTyped
<1> QED
  BY <1>1, <1>2, <1>4 DEF MocksTyped

LEMMA UnexpectedCallCKeeps ==
  ASSUME MocksTyped, UnexpectedCallC
  PROVE  MocksTyped'
<1> DEFINE r == [st |-> "unmatched"]
<1>0. PICK n \in Scopes : n = CScope
  BY CScopeTyped
<1>1. Called(n, r, Len(calls) + 1, Empty)
  BY <1>0 DEF UnexpectedCallC
<1>2. /\ topic' = topic /\ cur_scope' = n /\ bound' = bound /\ cur_actual' = cur_actual
  BY <1>0 DEF UnexpectedCallC, Calling, Mocking
<1>3. InRange(Empty) /\ Empty.type \notin ObjectTypes
  BY WidthAssumption DEF InRange, Empty, Made, ObjectTypes, NumbersOf, SignedTypes, MaxOf
<1>r. r.st \in ReturnStates
  BY DEF ReturnStates
<1> HIDE DEF r
<1>4. /\ Len(calls') = Len(calls) + 1
      /\ calls' = [j \in 1 .. Len(calls') |-> calls'[j]]
      /\ \A j \in 1 .. Len(calls') : MadeCall(topic, calls'[j])
      /\ last_actual' \in [Scopes -> 0 .. Len(calls')]
  BY <1>1, <1>2, <1>3, <1>r, CalledTyped
<1> QED
  BY <1>2, <1>4 DEF MocksTyped

LEMMA ClearKeeps ==
  ASSUME MocksTyped, NEW n \in Scopes, Clear(n) \/ (n = CScope /\ ClearC)
  PROVE  MocksTyped'
<1>1. /\ last_actual' = Cleared(n, last_actual, NoCall) /\ topic' = topic
      /\ cur_actual' \in {cur_actual, 0} /\ cur_scope' \in {cur_scope, n}
      /\ UNCHANGED <<calls, bound>>
  BY DEF Clear, ClearC, Clearing, Mocking, NoCall
<1>2. last_actual' \in [Scopes -> 0 .. Len(calls)]
  BY <1>1 DEF Cleared, NoCall, MocksTyped
<1> QED
  BY <1>1, <1>2 DEF MocksTyped

(* An action of each kind, as far as the cursors go.                       *)
LEMMA CursorsStep ==
  ASSUME MocksTyped, [BodyNext]_bodyVars
  PROVE  MocksTyped'
<1>1. CASE UNCHANGED bodyVars
  BY <1>1, NothingCalled DEF bodyVars, mocks, NoCallsTouched
<1>2. CASE BodyNext
  <2>1. CASE \E x \in Assertable : Macro(x) \/ Library(x) \/ OperandLeaves(x)
    BY <2>1, NothingCalled DEF Macro, Library, OperandLeaves, Asserting, mocks, NoCallsTouched
  <2>2. CASE Fail \/ Throws \/ TestExit
    BY <2>2, NothingCalled DEF Fail, Throws, TestExit, Asserting, mocks, NoCallsTouched
  <2>3. CASE \E n \in Scopes : MockC(n)
    <3>1. PICK n \in Scopes : MockC(n)
      BY <2>3
    <3> QED
      BY <3>1 DEF MockC, Calling, Mocking, MocksTyped
  <2>4. CASE \E n \in Scopes : Clear(n)
    BY <2>4, ClearKeeps
  <2>5. CASE \E n \in Scopes : GetDataC(n)
    BY <2>5, NothingCalled DEF GetDataC, Storing, Mocking
  <2>6. CASE \E n \in Scopes : \E r \in Answers[topic] : ActualCall(n, r)
    BY <2>6, ActualCallKeeps
  <2>7. CASE \E n \in Scopes : \E want \in Wants[topic] :
               ReadCall(n, want) \/ ReadScope(n, want) \/ GetData(n, want)
    <3>1. \A n, want : ReadCall(n, want) => topic' = topic /\ NoCallsTouched
      BY DEF ReadCall, Calling, Mocking, Read, NoCallsTouched
    <3>2. \A n, want : ReadScope(n, want) => topic' = topic /\ NoCallsTouched
      BY DEF ReadScope, Calling, Mocking, Read, NoCallsTouched
    <3>3. \A n, want : GetData(n, want) => topic' = topic /\ NoCallsTouched
      BY DEF GetData, Storing, Mocking
    <3> QED
      BY <2>7, <3>1, <3>2, <3>3, NothingCalled
  <2>8. CASE \E n \in Scopes : \E x \in Values : SetData(n, x)
    BY <2>8, NothingCalled DEF SetData, Storing, Mocking
  <2>9. CASE \E r \in Answers[topic] : ActualCallC(r)
    BY <2>9, ActualCallCKeeps
  <2>10. CASE UnexpectedCallC
    BY <2>10, UnexpectedCallCKeeps
  <2>11. CASE (\E want \in Wants[topic] : ReadC(want)) \/ ReadFreed
    BY <2>11, NothingCalled DEF ReadC, ReadFreed, Calling, Mocking, Read, NoCallsTouched
  <2>12. CASE ClearC
    BY <2>12, CScopeTyped, ClearKeeps
  <2>13. CASE \E x \in Compared : WithExpected(x) \/ WithActual(x)
    BY <2>13, NothingCalled DEF WithExpected, WithActual, Matching
  <2>14. CASE \/ Construct \/ Change
              \/ \E to, with \in Texts : ReplaceText(to, with)
              \/ \E t \in Texts : SplitAt(t) \/ Ask(t)
    BY <2>14, NothingCalled
       DEF Construct, Change, ReplaceText, SplitAt, Ask, HasText, Texting, mocks, NoCallsTouched
  <2>15. CASE Return \/ BodyOver
    BY <2>15, NothingCalled DEF Return, BodyOver, bodyVars, mocks, NoCallsTouched
  <2> QED
    BY <1>2, <2>1, <2>2, <2>3, <2>4, <2>5, <2>6, <2>7, <2>8, <2>9, <2>10, <2>11, <2>12, <2>13,
       <2>14, <2>15 DEF BodyNext
<1> QED
  BY <1>1, <1>2

LEMMA CursorsInit ==
  ASSUME BodyInit
  PROVE  MocksTyped
<1>1. calls = <<>> /\ Len(calls) = 0 /\ calls = [j \in 1 .. Len(calls) |-> calls[j]]
  BY DEF BodyInit
<1>2. last_actual = [n \in Scopes |-> 0] /\ bound = [n \in Scopes |-> 0]
  BY DEF BodyInit, NoCall
<1>3. topic \in Topics /\ cur_scope = NullPointer /\ cur_actual = 0
  BY DEF BodyInit, NoCall
<1>4. last_actual \in [Scopes -> 0 .. 0] /\ bound \in [Scopes -> -1 .. 0]
  BY <1>2
<1>5. 1 .. Len(calls) = {}
  BY <1>1
<1> QED
  BY <1>1, <1>3, <1>4, <1>5 DEF MocksTyped

(* What the mock facades keep stays in range: a scope's last call, the     *)
(* call its reference is bound to and the C cursor are calls of the test.  *)
THEOREM CursorsTyped == BodySpec => []MocksTyped
BY CursorsInit, CursorsStep, PTL DEF BodySpec

-------------------------------------------------------------------------------
(* The table of coercions in C and that of widenings in C++ are the same.  *)
LEMMA TablesAgree ==
  ASSUME NEW want, NEW x
  PROVE  Coerced(want, x) <=> Widens(want, x)
<1>1. CASE want = "unsigned int"
  BY <1>1 DEF Coerced, Coercions, Widens
<1>2. CASE want = "long int"
  BY <1>2 DEF Coerced, Coercions, Widens
<1>3. CASE want = "unsigned long int"
  BY <1>3 DEF Coerced, Coercions, Widens
<1>4. CASE want = "long long int"
  BY <1>4 DEF Coerced, Coercions, Widens
<1>5. CASE want = "unsigned long long int"
  BY <1>5 DEF Coerced, Coercions, Widens, SignedTypes
<1>6. CASE want \notin {"unsigned int", "long int", "unsigned long int", "long long int",
                        "unsigned long long int"}
  BY <1>6 DEF Coerced, Coercions, Widens
<1> QED
  BY <1>1, <1>2, <1>3, <1>4, <1>5, <1>6

LEMMA AssertedFields ==
  ASSUME NEW want, NEW x, NEW v
  PROVE  /\ Asserted(want, x, v).v = v
         /\ Asserted(want, x, v).checks = 1
         /\ Asserted(want, x, v).failed <=> TypeName(x) # want
<1> DEFINE b == TypeName(x) # want
<1>1. b \in BOOLEAN
  OBVIOUS
<1>2. Asserted(want, x, v) = [v |-> v, checks |-> 1, failed |-> b]
  BY DEF Asserted, Got
<1>3. /\ Asserted(want, x, v).v = v
      /\ Asserted(want, x, v).checks = 1
      /\ Asserted(want, x, v).failed = b
  <2> HIDE DEF b
  <2> QED
    BY <1>1, <1>2
<1> QED
  BY <1>3

(* What the C getter of a call gives is what the C++ one gives.            *)
LEMMA GettersAgree ==
  ASSUME NEW want, NEW st \in ReturnStates, NEW x,
         want \notin ObjectTypes, x.type \in ObjectTypes => x.of # want
  PROVE  /\ ActRet(want, st, x).failed <=> CallReturn(want, st, x).failed
         /\ ActRet(want, st, x).checks = CallReturn(want, st, x).checks
         /\ ~CallReturn(want, st, x).failed =>
              ActRet(want, st, x).v = CallReturn(want, st, x).v
<1> DEFINE y == ReturnedOr(st, x)
           v == IF st = "value" /\ x.type = want THEN x.v ELSE ZeroOf(want)
<1>1. CASE st \in NoAnswer
  BY <1>1 DEF ActRet, CallReturn
<1>2. CASE st \notin NoAnswer /\ Widens(want, y)
  <2>1. CallReturn(want, st, x) = Plain(Cast(want, y.v))
    BY <1>2 DEF CallReturn, GetValue
  <2>2. ActRet(want, st, x) = Plain(Cast(want, y.v))
    BY <1>2, TablesAgree DEF ActRet
  <2> QED
    BY <2>1, <2>2
<1>3. CASE st \notin NoAnswer /\ ~Widens(want, y)
  <2>1. CallReturn(want, st, x) = Asserted(want, y, y.v)
    BY <1>3 DEF CallReturn, GetValue
  <2>2. ActRet(want, st, x) = Asserted(want, y, v)
    BY <1>3, TablesAgree DEF ActRet
  <2>3. TypeName(y) = want => v = y.v
    <3>1. CASE st = "value"
      <4>1. y = x
        BY <3>1 DEF ReturnedOr
      <4>2. TypeName(x) = want => x.type = want
        BY DEF TypeName
      <4> QED
        BY <3>1, <4>1, <4>2
    <3>2. CASE st # "value"
      <4>1. y.type = "int" /\ y.v = 0
        BY <3>2 DEF ReturnedOr, Empty, Made
      <4>2. TypeName(y) = "int"
        BY <4>1 DEF TypeName, ObjectTypes
      <4>3. ZeroOf("int") = 0
        BY DEF ZeroOf, PointerTypes
      <4>4. v = ZeroOf(want)
        BY <3>2
      <4> QED
        BY <4>1, <4>2, <4>3, <4>4
    <3> QED
      BY <3>1, <3>2
  <2> HIDE DEF v, y
  <2> QED
    BY <2>1, <2>2, <2>3, AssertedFields
<1> QED
  BY <1>1, <1>2, <1>3

LEMMA ReadableTyped ==
  ASSUME MocksTyped, NEW h \in -1 .. Len(calls)
  PROVE  /\ StateOf(h) \in ReturnStates
         /\ InRange(ValueOf(h))
         /\ ValueOf(h).type \in ObjectTypes => ValueOf(h).of \notin Wants[topic]
<1>1. CASE h \in {0, -1}
  <2>1. InRange(Empty) /\ Empty.type \notin ObjectTypes
    BY WidthAssumption DEF InRange, Empty, Made, ObjectTypes, NumbersOf, SignedTypes, MaxOf
  <2> QED
    BY <1>1, <2>1 DEF StateOf, ValueOf, NoCall, Trace, ReturnStates
<1>2. CASE h \notin {0, -1}
  <2>1. h \in 1 .. Len(calls)
    BY <1>2 DEF MocksTyped
  <2>2. MadeCall(topic, calls[h])
    BY <2>1 DEF MocksTyped
  <2> QED
    BY <1>2, <2>2 DEF StateOf, ValueOf, NoCall, Trace, MadeCall
<1> QED
  BY <1>1, <1>2

(* With a default the answer in C depends on the scope's last call: where  *)
(* that is the call read, it is the answer of both interfaces in C++.  A   *)
(* traced call is the one that its scope does not have as its last.        *)
LEMMA DefaultsAgree ==
  ASSUME NEW want, NEW st \in ReturnStates, NEW scopest, NEW x,
         want \notin ObjectTypes, x.type \in ObjectTypes => x.of # want,
         scopest = st \/ (st = "traced" /\ scopest = "ignored")
  PROVE  /\ Alike(ActRetDefault(want, scopest, st, x, "default"),
                  ScopeReturnOrDefault(want, scopest, x, "default"))
         /\ st # "traced" => Alike(ActRetDefault(want, scopest, st, x, "default"),
                                   CallReturnOrDefault(want, st, x, "default"))
<1>1. CASE HasReturnValue(st)
  <2>1. scopest = st /\ st \notin NoAnswer
    BY <1>1 DEF HasReturnValue, NoAnswer
  <2>2. /\ ActRetDefault(want, scopest, st, x, "default") = ActRet(want, st, x)
        /\ ScopeReturnOrDefault(want, scopest, x, "default") = CallReturn(want, st, x)
        /\ CallReturnOrDefault(want, st, x, "default") = CallReturn(want, st, x)
    BY <1>1, <2>1 DEF ActRetDefault, ScopeReturnOrDefault, ScopeReturn, CallReturnOrDefault, CallReturn
  <2>3. Alike(ActRet(want, st, x), CallReturn(want, st, x))
    BY GettersAgree DEF Alike
  <2> QED
    BY <2>2, <2>3
<1>2. CASE ~HasReturnValue(st)
  <2>1. ~HasReturnValue(scopest)
    BY <1>2 DEF HasReturnValue
  <2>2. /\ ActRetDefault(want, scopest, st, x, "default") = Plain("default")
        /\ ScopeReturnOrDefault(want, scopest, x, "default") = Plain("default")
        /\ st # "traced" => CallReturnOrDefault(want, st, x, "default") = Plain("default")
    BY <1>2, <2>1 DEF ActRetDefault, ScopeReturnOrDefault, CallReturnOrDefault
  <2>3. Alike(Plain("default"), Plain("default"))
    BY DEF Alike
  <2> QED
    BY <2>2, <2>3
<1> QED
  BY <1>1, <1>2

LEMMA ReadCAgrees ==
  ASSUME MocksTyped, NEW want \in Wants[topic], ReadC(want)
  PROVE  InterfacesAgree'
<1> DEFINE st == StateOf(cur_actual)
           x == ValueOf(cur_actual)
           scopest == StateOf(last_actual[CScope])
           latest == last_actual[CScope] = IF cur_actual > 0 THEN cur_actual ELSE NoCall
           read(by, outcome) == [by |-> by, want |-> want, st |-> st, x |-> x, scopest |-> scopest,
                                 latest |-> latest, outcome |-> outcome]
<1>1. /\ st \in ReturnStates
      /\ x.type \in ObjectTypes => x.of # want
  BY ReadableTyped DEF MocksTyped
<1>2. want \notin ObjectTypes
  <2>1. \A t \in Topics \cap {"read", "cursor"} : Wants[t] \cap ObjectTypes = {}
    BY BodyAssumption
  <2>2. topic \in Topics \cap {"read", "cursor"}
    BY DEF ReadC, Calling, Mocking, MocksTyped
  <2> QED
    BY <2>1, <2>2
<1>3. latest => scopest = st \/ (st = "traced" /\ scopest = "ignored")
  <2>1. cur_actual > 0 \/ cur_actual \in {0, -1}
    BY DEF MocksTyped
  <2> QED
    BY <2>1 DEF StateOf, NoCall, Trace
<1>4. \/ got' = read("C", ActRet(want, st, x))
      \/ got' = read("C default", ActRetDefault(want, scopest, st, x, "default"))
  BY DEF ReadC, Read
<1> HIDE DEF st, x, scopest, latest
<1>5. CASE got' = read("C", ActRet(want, st, x))
  <2>1. Alike(ActRet(want, st, x), CallReturn(want, st, x))
    BY <1>1, <1>2, GettersAgree DEF Alike
  <2> QED
    BY <1>5, <2>1 DEF InterfacesAgree
<1>6. CASE got' = read("C default", ActRetDefault(want, scopest, st, x, "default"))
  <2>1. CASE latest
    <3>1. scopest = st \/ (st = "traced" /\ scopest = "ignored")
      BY <1>3, <2>1
    <3> QED
      BY <1>1, <1>2, <1>6, <3>1, DefaultsAgree DEF InterfacesAgree
  <2>2. CASE ~latest
    BY <1>6, <2>2 DEF InterfacesAgree
  <2> QED
    BY <2>1, <2>2
<1> QED
  BY <1>4, <1>5, <1>6

(* What is read through the C interface is read by ReadC.                  *)
LEMMA OtherwiseRead ==
  ASSUME BodyNext, ~ \E want \in Wants[topic] : ReadC(want)
  PROVE  got' = got \/ got'.by \notin {"C", "C default"}
<1>1. \A x : (Macro(x) \/ Library(x) \/ OperandLeaves(x)) => got' = got
  BY DEF Macro, Library, OperandLeaves, Asserting, mocks
<1>2. (Fail \/ Throws \/ TestExit) => got' = got
  BY DEF Fail, Throws, TestExit, Asserting, mocks
<1>3. \A n, r : (MockC(n) \/ Clear(n) \/ ActualCall(n, r)) => got' = got
  BY DEF MockC, Clear, ActualCall, Called
<1>4. \A r : (ActualCallC(r) \/ UnexpectedCallC \/ ClearC) => got' = got
  BY DEF ActualCallC, UnexpectedCallC, ClearC, Called
<1>5. \A n, x : SetData(n, x) \/ WithExpected(x) => got' = got
  BY DEF SetData, WithExpected
<1>6. \A n : GetDataC(n) => got'.by = "C data"
  <2> SUFFICES ASSUME NEW n, GetDataC(n) PROVE got'.by = "C data"
    OBVIOUS
  <2>1. PICK x, c : got' = [by |-> "C data", x |-> x, c |-> c]
    BY DEF GetDataC
  <2> QED
    BY <2>1
<1>7. \A n, want : GetData(n, want) => got'.by = "data"
  BY DEF GetData
<1>r. \A by, want, h, outcome : Read(by, want, h, outcome) => got'.by = by
  <2> SUFFICES ASSUME NEW by, NEW want, NEW h, NEW outcome, Read(by, want, h, outcome)
               PROVE  got'.by = by
    OBVIOUS
  <2>1. \E st, x, scopest, latest :
          got' = [by |-> by, want |-> want, st |-> st, x |-> x, scopest |-> scopest,
                  latest |-> latest, outcome |-> outcome]
    BY DEF Read
  <2> QED
    BY <2>1
<1>8. \A n, want : ReadCall(n, want) => got'.by \in {"call", "call default"}
  BY <1>r DEF ReadCall
<1>9. \A n, want : ReadScope(n, want) => got'.by \in {"scope", "scope default"}
  BY <1>r DEF ReadScope
<1>10. ReadFreed => got'.by = "freed"
  BY DEF ReadFreed
<1>11. \A x : WithActual(x) => got'.by = "match"
  <2> SUFFICES ASSUME NEW x, WithActual(x) PROVE got'.by = "match"
    OBVIOUS
  <2>1. \E made, b, q : got' = [by |-> "match", x |-> made, bound |-> b, equal |-> q]
    BY DEF WithActual
  <2> QED
    BY <2>1
<1>12. /\ Construct \/ Change => got' = got
       /\ \A t, u : ReplaceText(t, u) \/ SplitAt(t) \/ Ask(t) => got' = got
  BY DEF Construct, Change, ReplaceText, SplitAt, Ask, HasText, Texting, mocks
<1>13. Return \/ BodyOver => got' = got
  BY DEF Return, BodyOver, bodyVars, mocks
<1> QED
  BY <1>1, <1>2, <1>3, <1>4, <1>5, <1>6, <1>7, <1>8, <1>9, <1>10, <1>11, <1>12, <1>13 DEF BodyNext

(* mock_support_c.c: for the same call a getter of the C interface gives,  *)
(* counts and fails as the call's getter in C++.  With a default it does   *)
(* as the scope's, and as the call's unless that is traced, provided the   *)
(* scope's last call is the one read.                                      *)
THEOREM CReadsAsCplusplus == BodySpec => []InterfacesAgree
<1>1. BodyInit => InterfacesAgree
  BY DEF BodyInit, Unread, InterfacesAgree
<1>2. MocksTyped /\ InterfacesAgree /\ [BodyNext]_bodyVars => InterfacesAgree'
  <2> SUFFICES ASSUME MocksTyped, InterfacesAgree, [BodyNext]_bodyVars PROVE InterfacesAgree'
    OBVIOUS
  <2>1. CASE \E want \in Wants[topic] : ReadC(want)
    BY <2>1, ReadCAgrees
  <2>2. CASE got' = got
    BY <2>2 DEF InterfacesAgree
  <2>3. CASE got'.by \notin {"C", "C default"}
    BY <2>3 DEF InterfacesAgree
  <2>4. CASE UNCHANGED bodyVars
    BY <2>4 DEF bodyVars, mocks, InterfacesAgree
  <2> QED
    BY <2>1, <2>2, <2>3, <2>4, OtherwiseRead
<1> QED
  BY <1>1, <1>2, CursorsTyped, PTL DEF BodySpec

-------------------------------------------------------------------------------
(* Numbers on their way                                                    *)

(* Every unsigned int is a long, as in the builds that the repository      *)
(* makes.                                                                  *)
LongIsWider == 2 * INT_MAX + 1 <= LONG_MAX

(* A cast to a type keeps the numbers of that type.                        *)
LEMMA CastKeeps ==
  ASSUME NEW type \in IntegerTypes, NEW n \in NumbersOf(type)
  PROVE  Cast(type, n) = n
<1>1. MaxOf(type) \in Nat
  BY WidthAssumption DEF MaxOf
<1>2. CASE type \in SignedTypes
  <2>1. n \in Int /\ n <= MaxOf(type)
    BY <1>1, <1>2 DEF NumbersOf
  <2> QED
    BY <1>1, <1>2, <2>1 DEF Cast, ToSigned
<1>3. CASE type \notin SignedTypes
  <2>1. n \in Int /\ n >= 0
    BY <1>1, <1>3 DEF NumbersOf
  <2> QED
    BY <1>1, <1>3, <2>1 DEF Cast, ToUnsigned
<1> QED
  BY <1>2, <1>3

(* What a getter widens is a number of the type that it is for, where long *)
(* is wider than int; unsigned long as long long is the exception.         *)
LEMMA WidenedInRange ==
  ASSUME LongIsWider, NEW want, NEW x, IsInteger(x), InRange(x), Widens(want, x),
         ~UnsignedAsSigned(want, x)
  PROVE  want \in IntegerTypes /\ x.v \in NumbersOf(want)
<1> DEFINE Ints == (-INT_MAX - 1) .. INT_MAX
           Longs == (-LONG_MAX - 1) .. LONG_MAX
           Unsigneds == 0 .. 2 * INT_MAX + 1
           UnsignedLongs == 0 .. 2 * LONG_MAX + 1
<1>1. /\ Ints \subseteq Longs /\ Unsigneds \subseteq Longs /\ Unsigneds \subseteq UnsignedLongs
      /\ \A v \in Ints : v >= 0 => v \in Unsigneds /\ v \in UnsignedLongs
      /\ \A v \in Longs : v >= 0 => v \in UnsignedLongs
  BY WidthAssumption DEF LongIsWider
<1>2. /\ NumbersOf("int") = Ints
      /\ NumbersOf("long int") = Longs
      /\ NumbersOf("long long int") = Longs
      /\ NumbersOf("unsigned int") = Unsigneds
      /\ NumbersOf("unsigned long int") = UnsignedLongs
      /\ NumbersOf("unsigned long long int") = UnsignedLongs
  BY DEF NumbersOf, MaxOf, SignedTypes
<1> HIDE DEF Ints, Longs, Unsigneds, UnsignedLongs
<1>3. x.v \in NumbersOf(x.type)
  BY DEF InRange
<1>4. CASE want = "unsigned int"
  <2>1. x.type = "int" /\ x.v >= 0
    BY <1>4 DEF Widens
  <2>2. x.v \in Unsigneds
    BY <1>1, <1>2, <1>3, <2>1, Zenon
  <2> QED
    BY <1>2, <1>4, <2>2, Zenon DEF IntegerTypes, UnsignedTypes
<1>5. CASE want = "long int"
  <2>1. x.type = "int" \/ x.type = "unsigned int"
    BY <1>5 DEF Widens
  <2>2. x.v \in Longs
    BY <1>1, <1>2, <1>3, <2>1, Zenon
  <2> QED
    BY <1>2, <1>5, <2>2, Zenon DEF IntegerTypes, SignedTypes
<1>6. CASE want = "unsigned long int"
  <2>1. x.type = "unsigned int" \/ (x.type \in {"int", "long int"} /\ x.v >= 0)
    BY <1>6 DEF Widens
  <2>2. x.v \in UnsignedLongs
    BY <1>1, <1>2, <1>3, <2>1, Zenon
  <2> QED
    BY <1>2, <1>6, <2>2, Zenon DEF IntegerTypes, UnsignedTypes
<1>7. CASE want = "long long int"
  <2>1. x.type \in {"int", "unsigned int", "long int"}
    BY <1>7 DEF Widens, UnsignedAsSigned
  <2>2. x.v \in Longs
    BY <1>1, <1>2, <1>3, <2>1, Zenon
  <2> QED
    BY <1>2, <1>7, <2>2, Zenon DEF IntegerTypes, SignedTypes
<1>8. CASE want = "unsigned long long int"
  <2>1. \/ x.type \in {"unsigned int", "unsigned long int"}
        \/ x.type \in {"int", "long int", "long long int"} /\ x.v >= 0
    BY <1>8 DEF Widens, SignedTypes
  <2>2. x.v \in UnsignedLongs
    BY <1>1, <1>2, <1>3, <2>1, Zenon
  <2> QED
    BY <1>2, <1>8, <2>2, Zenon DEF IntegerTypes, UnsignedTypes
<1> QED
  BY <1>4, <1>5, <1>6, <1>7, <1>8 DEF Widens

LEMMA GetterKeeps ==
  ASSUME LongIsWider, NEW want, NEW x, IsInteger(x), InRange(x),
         ~UnsignedAsSigned(want, x)
  PROVE  GetValue(want, x).v = x.v
<1>1. CASE Widens(want, x)
  <2>1. Cast(want, x.v) = x.v
    BY <1>1, WidenedInRange, CastKeeps
  <2> QED
    BY <1>1, <2>1 DEF GetValue, Plain, Got
<1>2. CASE ~Widens(want, x) /\ want \in ObjectTypes
  <2>1. GetValue(want, x) = Plain(x.v)
    BY <1>2 DEF GetValue
  <2> QED
    BY <2>1 DEF Plain, Got
<1>3. CASE ~Widens(want, x) /\ want \notin ObjectTypes
  <2>1. GetValue(want, x) = Asserted(want, x, x.v)
    BY <1>3 DEF GetValue
  <2> QED
    BY <2>1, AssertedFields
<1> QED
  BY <1>1, <1>2, <1>3

(* Two integers are equal if they are the same number.                     *)
LEMMA EqualIntegers ==
  ASSUME NEW e, NEW a, IsInteger(e), IsInteger(a), InRange(e), InRange(a), NEW comparator
  PROVE  ValueEquals(e, a, comparator) <=> e.v = a.v
<1>0. \A type \in IntegerTypes : /\ NumbersOf(type) \subseteq Int
                                 /\ type \in UnsignedTypes => NumbersOf(type) \subseteq Nat
  <2> SUFFICES ASSUME NEW type \in IntegerTypes
               PROVE  /\ NumbersOf(type) \subseteq Int
                      /\ type \in UnsignedTypes => NumbersOf(type) \subseteq Nat
    OBVIOUS
  <2>1. MaxOf(type) \in Nat
    BY WidthAssumption DEF MaxOf
  <2>2. type \in UnsignedTypes => type \notin SignedTypes
    BY DEF UnsignedTypes, SignedTypes
  <2> QED
    BY <2>1, <2>2 DEF NumbersOf
<1>1. /\ e.v \in Int /\ a.v \in Int
      /\ e.type \in UnsignedTypes => e.v >= 0
      /\ a.type \in UnsignedTypes => a.v >= 0
  BY <1>0 DEF IsInteger, InRange
<1>2. \A n : n \in Int /\ n >= 0 => ToUnsigned("unsigned long long int", n) = n
  <2> SUFFICES ASSUME NEW n \in Int, n >= 0 PROVE ToUnsigned("unsigned long long int", n) = n
    OBVIOUS
  <2>1. ~(n < 0)
    OBVIOUS
  <2> QED
    BY <2>1 DEF ToUnsigned
<1>3. ValueEquals(e, a, comparator) <=> IntegersEqual(e, a)
  BY DEF ValueEquals
<1>4. CASE e.type \in SignedTypes /\ a.type \in UnsignedTypes
  BY <1>1, <1>2, <1>3, <1>4 DEF IntegersEqual, SignedEqualsUnsigned
<1>5. CASE e.type \in UnsignedTypes /\ a.type \in SignedTypes
  BY <1>1, <1>2, <1>3, <1>5 DEF IntegersEqual, SignedEqualsUnsigned, SignedTypes, UnsignedTypes
<1>6. CASE /\ ~(e.type \in SignedTypes /\ a.type \in UnsignedTypes)
           /\ ~(e.type \in UnsignedTypes /\ a.type \in SignedTypes)
  BY <1>3, <1>6 DEF IntegersEqual
<1> QED
  BY <1>4, <1>5, <1>6

(* A read of a call, of a scope's last one, or through the C interface.    *)
KeepsNumber(want, h, outcome) ==
  StateOf(h) = "value" /\ ~outcome.failed /\ IsInteger(ValueOf(h)) /\ ~UnsignedAsSigned(want, ValueOf(h))
    => outcome.v = ValueOf(h).v

LEMMA ReadKeeps ==
  ASSUME NEW by, NEW want, NEW h, NEW outcome, Read(by, want, h, outcome),
         by \in {"call", "scope", "C"} => KeepsNumber(want, h, outcome),
         by \notin {"match", "data", "C data"}
  PROVE  ValuesKept'
<1> DEFINE x == ValueOf(h)
           st == StateOf(h)
<1>1. PICK scopest, latest :
        got' = [by |-> by, want |-> want, st |-> st, x |-> x, scopest |-> scopest,
                latest |-> latest, outcome |-> outcome]
  BY DEF Read
<1> HIDE DEF x, st
<1>2. got'.by = by /\ got'.want = want /\ got'.st = st /\ got'.x = x /\ got'.outcome = outcome
  BY <1>1
<1>3. by \in {"call", "scope", "C"} /\ st = "value" /\ ~outcome.failed
        /\ IsInteger(x) /\ ~UnsignedAsSigned(want, x) => outcome.v = x.v
  BY DEF x, st, KeepsNumber
<1>4. IsInteger(got'.x) = IsInteger(x) /\ UnsignedAsSigned(got'.want, got'.x) = UnsignedAsSigned(want, x)
  BY <1>2
<1> QED
  BY <1>2, <1>3, <1>4 DEF ValuesKept

LEMMA CallGettersKeep ==
  ASSUME LongIsWider, NEW want, NEW st \in ReturnStates, NEW x, InRange(x),
         st = "value", IsInteger(x), ~UnsignedAsSigned(want, x)
  PROVE  /\ CallReturn(want, st, x).v = x.v
         /\ ScopeReturn(want, st, x).v = x.v
         /\ ~ActRet(want, st, x).failed => ActRet(want, st, x).v = x.v
<1>1. GetValue(want, x).v = x.v
  BY GetterKeeps
<1>2. CallReturn(want, st, x) = GetValue(want, x) /\ ScopeReturn(want, st, x) = GetValue(want, x)
  BY DEF CallReturn, ScopeReturn, ReturnedOr, NoAnswer
<1>3. CASE Coerced(want, x)
  <2>1. ActRet(want, st, x) = Plain(Cast(want, x.v))
    BY <1>3 DEF ActRet, ReturnedOr, NoAnswer
  <2>2. GetValue(want, x) = Plain(Cast(want, x.v))
    BY <1>3, TablesAgree DEF GetValue
  <2> QED
    BY <1>1, <1>2, <2>1, <2>2
<1>4. CASE ~Coerced(want, x)
  <2> DEFINE v == IF x.type = want THEN x.v ELSE ZeroOf(want)
  <2>1. ActRet(want, st, x) = Asserted(want, x, v)
    BY <1>4 DEF ActRet, ReturnedOr, NoAnswer
  <2>2. TypeName(x) = x.type
    BY DEF TypeName, IsInteger, IntegerTypes, SignedTypes, UnsignedTypes, ObjectTypes
  <2>3. ~ActRet(want, st, x).failed => v = x.v
    <3>1. ActRet(want, st, x).failed <=> TypeName(x) # want
      <4> HIDE DEF v
      <4> QED
        BY <2>1, AssertedFields
    <3> QED
      BY <2>2, <3>1
  <2>4. ActRet(want, st, x).v = v
    <3> HIDE DEF v
    <3> QED
      BY <2>1, AssertedFields
  <2> QED
    BY <1>1, <1>2, <2>3, <2>4
<1> QED
  BY <1>3, <1>4

LEMMA HandleGettersKeep ==
  ASSUME LongIsWider, MocksTyped, NEW h \in -1 .. Len(calls), NEW want
  PROVE  /\ KeepsNumber(want, h, CallReturn(want, StateOf(h), ValueOf(h)))
         /\ KeepsNumber(want, h, ScopeReturn(want, StateOf(h), ValueOf(h)))
         /\ KeepsNumber(want, h, ActRet(want, StateOf(h), ValueOf(h)))
<1>1. PICK st, x : st = StateOf(h) /\ x = ValueOf(h)
  OBVIOUS
<1>2. st \in ReturnStates /\ InRange(x)
  BY <1>1, ReadableTyped DEF MocksTyped
<1>3. st = "value" /\ IsInteger(x) /\ ~UnsignedAsSigned(want, x) =>
        /\ CallReturn(want, st, x).v = x.v
        /\ ScopeReturn(want, st, x).v = x.v
        /\ ~ActRet(want, st, x).failed => ActRet(want, st, x).v = x.v
  BY <1>2, CallGettersKeep
<1> QED
  BY <1>1, <1>3 DEF KeepsNumber

(* The default is no value: a read with one is not claimed.                *)
LEMMA CallReadsKeep ==
  ASSUME LongIsWider, MocksTyped, NEW n \in Scopes, NEW want \in Wants[topic],
         ReadCall(n, want) \/ ReadScope(n, want) \/ ReadC(want)
  PROVE  ValuesKept'
<1>1. /\ bound[n] \in -1 .. Len(calls)
      /\ last_actual[n] \in -1 .. Len(calls)
      /\ cur_actual \in -1 .. Len(calls)
  BY DEF MocksTyped
<1>2. ASSUME NEW by, NEW h, NEW outcome, Read(by, want, h, outcome),
             by \in {"call default", "scope default", "C default"}
      PROVE  ValuesKept'
  BY <1>2, ReadKeeps
<1>3. ASSUME NEW by, NEW h, NEW outcome, Read(by, want, h, outcome),
             by \in {"call", "scope", "C"}, KeepsNumber(want, h, outcome)
      PROVE  ValuesKept'
  BY <1>3, ReadKeeps
<1>4. CASE ReadCall(n, want)
  <2>1. PICK h : h = bound[n] /\ h \in -1 .. Len(calls)
    BY <1>1
  <2>2. PICK outcome : outcome = CallReturn(want, StateOf(h), ValueOf(h))
    OBVIOUS
  <2>3. KeepsNumber(want, h, outcome)
    BY <2>1, <2>2, HandleGettersKeep
  <2>4. Read("call", want, h, outcome) \/ \E other : Read("call default", want, h, other)
    BY <1>4, <2>1, <2>2 DEF ReadCall
  <2> QED
    BY <1>2, <1>3, <2>3, <2>4
<1>5. CASE ReadScope(n, want)
  <2>1. PICK h : h = last_actual[n] /\ h \in -1 .. Len(calls)
    BY <1>1
  <2>2. PICK outcome : outcome = ScopeReturn(want, StateOf(h), ValueOf(h))
    OBVIOUS
  <2>3. KeepsNumber(want, h, outcome)
    BY <2>1, <2>2, HandleGettersKeep
  <2>4. Read("scope", want, h, outcome) \/ \E other : Read("scope default", want, h, other)
    BY <1>5, <2>1, <2>2 DEF ReadScope
  <2> QED
    BY <1>2, <1>3, <2>3, <2>4
<1>6. CASE ReadC(want)
  <2>1. PICK h : h = cur_actual /\ h \in -1 .. Len(calls)
    BY <1>1
  <2>2. PICK outcome : outcome = ActRet(want, StateOf(h), ValueOf(h))
    OBVIOUS
  <2>3. KeepsNumber(want, h, outcome)
    BY <2>1, <2>2, HandleGettersKeep
  <2>4. Read("C", want, h, outcome) \/ \E other : Read("C default", want, h, other)
    BY <1>6, <2>1, <2>2 DEF ReadC
  <2> QED
    BY <1>2, <1>3, <2>3, <2>4
<1> QED
  BY <1>4, <1>5, <1>6

(* What data and the expected parameter hold: numbers of their types.      *)
DataTyped ==
  /\ \A n \in Scopes : InRange(data[n])
  /\ InRange(expected)

LEMMA NothingInRange ==
  /\ InRange(NoData)
  /\ InRange(Empty)
BY WidthAssumption DEF InRange, IsInteger, NoData, Empty, Made, NumbersOf, IntegerTypes, SignedTypes,
   UnsignedTypes, MaxOf

LEMMA GivenInRange ==
  ASSUME NEW x \in Values \cup Compared, NEW tolerance
  PROVE  InRange(Constructed(x, tolerance))
<1>1. InRange(x)
  BY BodyAssumption
<1> QED
  BY <1>1, ConstructedTyped

LEMMA SetDataTyped ==
  ASSUME data = [m \in Scopes |-> data[m]], DataTyped,
         NEW n \in Scopes, NEW x \in Values, SetData(n, x)
  PROVE  data' = [m \in Scopes |-> data'[m]] /\ DataTyped'
<1>1. PICK made : data' = [data EXCEPT ![n] = made] /\ InRange(made) /\ expected' = expected
  BY GivenInRange DEF SetData, Storing, Mocking, DataValue, DataValueC
<1> QED
  BY <1>1 DEF DataTyped

LEMMA ClearingTyped ==
  ASSUME DataTyped, NEW n \in Scopes, Clearing(n)
  PROVE  data' = [m \in Scopes |-> data'[m]] /\ DataTyped'
<1>1. data' = [m \in Scopes |-> IF n \in {m, Global} THEN NoData ELSE data[m]] /\ expected' = expected
  BY DEF Clearing, Mocking, Cleared
<1> QED
  BY <1>1, NothingInRange DEF DataTyped

LEMMA ExpectedTyped ==
  ASSUME DataTyped, NEW x \in Compared, WithExpected(x)
  PROVE  DataTyped' /\ data' = data
BY GivenInRange DEF WithExpected, Matching, DataTyped, ExpectedParameter, ExpectedParameterC

(* What data holds is made by setData, and taken away by clear.            *)
DataInv == DataTyped /\ data = [n \in Scopes |-> data[n]]

LEMMA DataStep ==
  ASSUME MocksTyped, DataInv, [BodyNext]_bodyVars
  PROVE  DataInv'
<1>1. CASE UNCHANGED <<data, expected>>
  BY <1>1 DEF DataInv, DataTyped
<1>2. CASE \E n \in Scopes : Clear(n)
  BY <1>2, ClearingTyped DEF DataInv, Clear
<1>3. CASE ClearC
  BY <1>3, ClearingTyped, CScopeTyped DEF DataInv, ClearC, MocksTyped
<1>4. CASE \E n \in Scopes : \E x \in Values : SetData(n, x)
  BY <1>4, SetDataTyped DEF DataInv
<1>5. CASE \E x \in Compared : WithExpected(x)
  BY <1>5, ExpectedTyped DEF DataInv
<1>6. \A x : Macro(x) \/ Library(x) \/ OperandLeaves(x) => UNCHANGED <<data, expected>>
  BY DEF Macro, Library, OperandLeaves, Asserting, mocks
<1>7. Fail \/ Throws \/ TestExit => UNCHANGED <<data, expected>>
  BY DEF Fail, Throws, TestExit, Asserting, mocks
<1>8. \A n, r : MockC(n) \/ ActualCall(n, r) => UNCHANGED <<data, expected>>
  BY DEF MockC, ActualCall, Calling, Mocking
<1>9. \A r : ActualCallC(r) \/ UnexpectedCallC \/ ReadFreed => UNCHANGED <<data, expected>>
  BY DEF ActualCallC, UnexpectedCallC, ReadFreed, Calling, Mocking
<1>10. \A n, want : \/ ReadCall(n, want) \/ ReadScope(n, want) \/ ReadC(want)
                    \/ GetData(n, want) \/ GetDataC(n)
                    => UNCHANGED <<data, expected>>
  BY DEF ReadCall, ReadScope, ReadC, GetData, GetDataC, Storing, Calling, Mocking
<1>11. \A x : WithActual(x) => UNCHANGED <<data, expected>>
  BY DEF WithActual, Matching
<1>12. /\ Construct \/ Change => UNCHANGED <<data, expected>>
       /\ \A t, u : ReplaceText(t, u) \/ SplitAt(t) \/ Ask(t) => UNCHANGED <<data, expected>>
  BY DEF Construct, Change, ReplaceText, SplitAt, Ask, HasText, Texting, mocks
<1>13. Return \/ BodyOver \/ UNCHANGED bodyVars => UNCHANGED <<data, expected>>
  BY DEF Return, BodyOver, bodyVars, mocks
<1> QED
  BY <1>1, <1>2, <1>3, <1>4, <1>5, <1>6, <1>7, <1>8, <1>9, <1>10, <1>11, <1>12, <1>13 DEF BodyNext

LEMMA DataReadKeeps ==
  ASSUME LongIsWider, DataTyped, NEW n \in Scopes, NEW want, GetData(n, want) \/ GetDataC(n)
  PROVE  ValuesKept'
<1>1. PICK x : x = DataOf(n)
  OBVIOUS
<1>2. InRange(x)
  BY <1>1, NothingInRange DEF DataOf, DataTyped
<1>3. CASE GetData(n, want)
  <2>1. PICK outcome : outcome = GetValue(want, x)
    OBVIOUS
  <2>2. got' = [by |-> "data", want |-> want, st |-> "value", x |-> x, scopest |-> "value",
                outcome |-> outcome]
    BY <1>1, <1>3, <2>1 DEF GetData
  <2>3. IsInteger(x) /\ ~UnsignedAsSigned(want, x) => outcome.v = x.v
    BY <1>2, <2>1, GetterKeeps
  <2> QED
    BY <2>2, <2>3 DEF ValuesKept
<1>4. CASE GetDataC(n)
  <2>1. PICK c : c = ToMockValue(x)
    OBVIOUS
  <2>2. got' = [by |-> "C data", x |-> x, c |-> c]
    BY <1>1, <1>4, <2>1 DEF GetDataC
  <2>3. c.v = x.v
    BY <2>1 DEF ToMockValue
  <2> QED
    BY <2>2, <2>3 DEF ValuesKept
<1> QED
  BY <1>3, <1>4

LEMMA MatchKeeps ==
  ASSUME DataTyped, NEW x \in Compared, WithActual(x)
  PROVE  ValuesKept'
<1>1. PICK made, comparator, b :
        /\ made \in {ActualParameter(x), ActualParameterC(x)}
        /\ got' = [by |-> "match", x |-> made, bound |-> b,
                   equal |-> ValueEquals(expected, made, comparator)]
  BY DEF WithActual
<1>2. InRange(made) /\ InRange(expected)
  BY <1>1, GivenInRange DEF ActualParameter, ActualParameterC, DataTyped
<1>3. expected' = expected
  BY DEF WithActual
<1> DEFINE q == ValueEquals(expected, made, comparator)
<1>4. got'.by = "match" /\ got'.x = made /\ got'.equal = q
  <2>1. got' = [by |-> "match", x |-> made, bound |-> b, equal |-> q]
    BY <1>1
  <2> HIDE DEF q
  <2> QED
    BY <2>1
<1>5. IsInteger(expected) /\ IsInteger(made) => (q <=> expected.v = made.v)
  BY <1>2, EqualIntegers
<1> QED
  BY <1>3, <1>4, <1>5 DEF ValuesKept

LEMMA UnreadKeeps ==
  ASSUME got' = Unread \/ got'.by = "freed" \/ UNCHANGED <<got, expected>>, ValuesKept
  PROVE  ValuesKept'
<1>1. CASE got' = Unread \/ got'.by = "freed"
  <2>1. got'.by \in {"none", "freed"}
    BY <1>1 DEF Unread
  <2> QED
    BY <2>1 DEF ValuesKept
<1>2. CASE UNCHANGED <<got, expected>>
  BY <1>2 DEF ValuesKept, IsInteger, UnsignedAsSigned
<1> QED
  BY <1>1, <1>2

LEMMA ValuesStep ==
  ASSUME LongIsWider, MocksTyped, DataInv, ValuesKept, [BodyNext]_bodyVars
  PROVE  ValuesKept'
<1> DEFINE Nothing == got' = Unread \/ got'.by = "freed" \/ UNCHANGED <<got, expected>>
<1>1. CASE Nothing
  BY <1>1, UnreadKeeps
<1>2. CASE \E n \in Scopes : \E want \in Wants[topic] : GetData(n, want)
  BY <1>2, DataReadKeeps DEF DataInv
<1>3. CASE \E n \in Scopes : GetDataC(n)
  BY <1>3, DataReadKeeps DEF DataInv
<1>4. CASE \E x \in Compared : WithActual(x)
  BY <1>4, MatchKeeps DEF DataInv
<1>5. CASE \E n \in Scopes : \E want \in Wants[topic] : ReadCall(n, want) \/ ReadScope(n, want)
  BY <1>5, CallReadsKeep
<1>6. CASE \E want \in Wants[topic] : ReadC(want)
  BY <1>6, BodyAssumption, CallReadsKeep
<1>7. \A x : Macro(x) \/ Library(x) \/ OperandLeaves(x) => Nothing
  BY DEF Macro, Library, OperandLeaves, Asserting, mocks
<1>8. Fail \/ Throws \/ TestExit => Nothing
  BY DEF Fail, Throws, TestExit, Asserting, mocks
<1>9. \A n, r : MockC(n) \/ Clear(n) \/ ActualCall(n, r) => Nothing
  BY DEF MockC, Clear, Clearing, ActualCall, Called, Calling, Mocking
<1>10. \A r : ActualCallC(r) \/ UnexpectedCallC \/ ReadFreed \/ ClearC => Nothing
  BY DEF ActualCallC, UnexpectedCallC, ReadFreed, ClearC, Clearing, Called, Calling, Mocking
<1>11. \A n, x : SetData(n, x) \/ WithExpected(x) => Nothing
  BY DEF SetData, Storing, Mocking, WithExpected, Matching
<1>12. /\ Construct \/ Change => Nothing
       /\ \A t, u : ReplaceText(t, u) \/ SplitAt(t) \/ Ask(t) => Nothing
  BY DEF Construct, Change, ReplaceText, SplitAt, Ask, HasText, Texting, mocks
<1>13. Return \/ BodyOver \/ UNCHANGED bodyVars => Nothing
  BY DEF Return, BodyOver, bodyVars, mocks
<1> HIDE DEF Nothing
<1> QED
  BY <1>1, <1>2, <1>3, <1>4, <1>5, <1>6, <1>7, <1>8, <1>9, <1>10, <1>11, <1>12, <1>13 DEF BodyNext

(* The getters of a mock's value and of a scope's data: a number comes out *)
(* as it went in or the getter fails, where long is wider than int.        *)
THEOREM NumbersAreKept ==
  ASSUME LongIsWider
  PROVE  BodySpec => []ValuesKept
<1>1. BodyInit => DataInv /\ ValuesKept
  <2>1. BodyInit => DataInv
    BY NothingInRange DEF BodyInit, DataInv, DataTyped
  <2>2. BodyInit => ValuesKept
    BY DEF BodyInit, ValuesKept, Unread
  <2> QED
    BY <2>1, <2>2
<1>2. MocksTyped /\ DataInv /\ ValuesKept /\ [BodyNext]_bodyVars => DataInv' /\ ValuesKept'
  BY DataStep, ValuesStep
<1> QED
  BY <1>1, <1>2, CursorsTyped, PTL DEF BodySpec

-------------------------------------------------------------------------------
(* Texts                                                                   *)

LEMMA Least ==
  ASSUME NEW S \in SUBSET Nat, S # {}
  PROVE  Min(S) \in S /\ \A s \in S : Min(S) <= s
<1>1. PICK m \in S : \A s \in S : <<s, m>> \notin OpToRel(<, Nat)
  BY NatLessThanWellFounded, WFMin
<1>2. \A s \in S : ~ (s < m)
  BY <1>1 DEF OpToRel
<1>3. \A s \in S : m <= s
  BY <1>2
<1> QED
  BY <1>3 DEF Min

LEMMA LessOf ==
  ASSUME NEW n \in Nat, NEW m \in Nat
  PROVE  Min({n, m}) = IF n <= m THEN n ELSE m
BY Least

(* A text of the model: its characters are none of them NUL.               *)
Plaintext == Seq(Chars)

LEMMA NulEnds ==
  ASSUME NEW s \in Plaintext, NEW i \in Nat
  PROVE  /\ At(s, i) = NUL <=> i >= Len(s)
         /\ i < Len(s) => At(s, i) = s[i + 1]
BY BodyAssumption DEF At, Plaintext

(* Two sequences are equal if they are of one length and agree.            *)
LEMMA SameText ==
  ASSUME NEW S, NEW s \in Seq(S), NEW t \in Seq(S)
  PROVE  s = t <=> Len(s) = Len(t) /\ \A i \in 1 .. Len(s) : s[i] = t[i]
OBVIOUS

LEMMA CharsEqualMeans ==
  ASSUME NEW s \in Plaintext, NEW t \in Plaintext
  PROVE  CharsEqual(s, t) <=> s = t
<1>0. Len(s) \in Nat /\ Len(t) \in Nat
  BY DEF Plaintext
<1>1. ASSUME CharsEqual(s, t) PROVE s = t
  <2>1. Len(s) \in 0 .. Len(s) + Len(t) /\ Len(t) \in 0 .. Len(s) + Len(t)
    BY <1>0
  <2>2. At(s, Len(s)) = At(t, Len(s)) /\ At(s, Len(t)) = At(t, Len(t))
    BY <1>1, <2>1 DEF CharsEqual
  <2>3. Len(s) = Len(t)
    BY <1>0, <2>2, NulEnds
  <2>4. ASSUME NEW i \in 1 .. Len(s) PROVE s[i] = t[i]
    <3>1. i - 1 \in Nat /\ i - 1 \in 0 .. Len(s) + Len(t) /\ i - 1 < Len(s) /\ (i - 1) + 1 = i
      BY <1>0, <2>4
    <3>2. At(s, i - 1) = At(t, i - 1)
      BY <1>1, <3>1 DEF CharsEqual
    <3> QED
      BY <2>3, <3>1, <3>2 DEF At
  <2> QED
    BY <2>3, <2>4, SameText DEF Plaintext
<1> QED
  BY <1>1 DEF CharsEqual

(* The first characters of a text: as many as it has.                      *)
LEMMA FirstIs ==
  ASSUME NEW S, NEW s \in Seq(S), NEW n \in Nat
  PROVE  /\ First(s, n) \in Seq(S)
         /\ Len(First(s, n)) = IF n <= Len(s) THEN n ELSE Len(s)
         /\ \A i \in 1 .. Len(First(s, n)) : First(s, n)[i] = s[i]
<1>1. PICK m \in Nat : m = IF n <= Len(s) THEN n ELSE Len(s)
  OBVIOUS
<1>2. First(s, n) = SubSeq(s, 1, m) /\ m <= Len(s)
  BY <1>1, LessOf DEF First
<1> QED
  BY <1>1, <1>2

LEMMA FirstsEqual ==
  ASSUME NEW s \in Plaintext, NEW t \in Plaintext, NEW n \in Nat
  PROVE  First(s, n) = First(t, n) <=>
           \A i \in 0 .. n - 1 : (\A k \in 0 .. i - 1 : At(s, k) # NUL) => At(s, i) = At(t, i)
<1> DEFINE m == Len(First(s, n))
<1>0. Len(s) \in Nat /\ Len(t) \in Nat
  BY DEF Plaintext
<1>1. /\ First(s, n) \in Seq(Chars) /\ First(t, n) \in Seq(Chars)
      /\ m = IF n <= Len(s) THEN n ELSE Len(s)
      /\ Len(First(t, n)) = IF n <= Len(t) THEN n ELSE Len(t)
      /\ \A i \in 1 .. m : First(s, n)[i] = s[i]
      /\ \A i \in 1 .. Len(First(t, n)) : First(t, n)[i] = t[i]
  BY FirstIs DEF Plaintext
<1>2. ASSUME First(s, n) = First(t, n), NEW i \in 0 .. n - 1, \A k \in 0 .. i - 1 : At(s, k) # NUL
      PROVE  At(s, i) = At(t, i)
  <2>1. i <= Len(s)
    <3>1. ASSUME i > Len(s) PROVE FALSE
      <4>1. Len(s) \in 0 .. i - 1
        BY <1>0, <3>1
      <4> QED
        BY <1>0, <1>2, <4>1, NulEnds
    <3> QED
      BY <1>0, <3>1
  <2>2. CASE i < Len(s)
    <3>1. i + 1 \in 1 .. m
      BY <1>0, <1>1, <2>2
    <3>2. First(s, n)[i + 1] = s[i + 1] /\ First(t, n)[i + 1] = t[i + 1] /\ i < Len(t)
      BY <1>0, <1>1, <1>2, <3>1
    <3> QED
      BY <1>2, <2>2, <3>2 DEF At
  <2>3. CASE i = Len(s)
    <3>1. Len(t) = Len(s)
      BY <1>0, <1>1, <1>2, <2>3
    <3> QED
      BY <1>0, <2>3, <3>1 DEF At
  <2> QED
    BY <1>0, <2>1, <2>2, <2>3
<1>3. ASSUME \A i \in 0 .. n - 1 : (\A k \in 0 .. i - 1 : At(s, k) # NUL) => At(s, i) = At(t, i)
      PROVE  First(s, n) = First(t, n)
  <2>1. ASSUME NEW i \in 0 .. n - 1, i <= Len(s) PROVE At(s, i) = At(t, i)
    <3>1. \A k \in 0 .. i - 1 : At(s, k) # NUL
      BY <1>0, <2>1, NulEnds
    <3> QED
      BY <1>3, <3>1
  <2>2. m \in Nat /\ m <= n /\ m <= Len(s)
    BY <1>0, <1>1
  <2>3. ASSUME NEW i \in 0 .. m - 1 PROVE i < Len(t) /\ s[i + 1] = t[i + 1]
    <3>1. i \in 0 .. n - 1 /\ i <= Len(s) /\ i < Len(s)
      BY <1>0, <2>2
    <3>2. At(s, i) = At(t, i) /\ At(s, i) # NUL
      BY <2>1, <3>1, NulEnds
    <3>3. i < Len(t)
      BY <1>0, <3>1, <3>2, NulEnds
    <3> QED
      BY <3>1, <3>2, <3>3 DEF At
  <2>4. Len(t) >= m
    <3>1. CASE m = 0
      BY <1>0, <3>1
    <3>2. CASE m > 0
      <4>1. m - 1 \in 0 .. m - 1
        BY <2>2, <3>2
      <4>2. m - 1 < Len(t)
        BY <2>3, <4>1
      <4> QED
        BY <1>0, <2>2, <4>2
    <3> QED
      BY <2>2, <3>1, <3>2
  <2>5. Len(First(t, n)) = m
    <3>1. CASE m = n
      BY <1>0, <1>1, <2>4, <3>1
    <3>2. CASE m = Len(s) /\ m < n
      <4>1. m \in 0 .. n - 1 /\ m <= Len(s)
        BY <2>2, <3>2
      <4>2. At(t, m) = NUL
        BY <1>0, <2>1, <3>2, <4>1, NulEnds
      <4>3. m >= Len(t)
        BY <2>2, <4>2, NulEnds
      <4> QED
        BY <1>0, <1>1, <2>4, <3>2, <4>3
    <3> QED
      BY <1>0, <1>1, <3>1, <3>2
  <2>6. \A i \in 1 .. m : s[i] = t[i]
    <3> SUFFICES ASSUME NEW i \in 1 .. m PROVE s[i] = t[i]
      OBVIOUS
    <3>1. i - 1 \in 0 .. m - 1 /\ (i - 1) + 1 = i
      BY <2>2
    <3> QED
      BY <2>3, <3>1
  <2>7. \A i \in 1 .. m : First(s, n)[i] = First(t, n)[i]
    BY <1>1, <2>5, <2>6
  <2> QED
    BY <1>1, <2>5, <2>7, SameText
<1> QED
  BY <1>2, <1>3

LEMMA LowerOfNul ==
  ASSUME NEW c
  PROVE  ToLower(c) = NUL <=> c = NUL
<1>1. \A d \in {"A", "N"} : Lower[d] \in {"a", "n"}
  BY DEF Lower
<1>2. DOMAIN Lower = {"A", "N"}
  BY DEF Lower
<1> QED
  BY <1>1, <1>2 DEF ToLower, NUL

LEMMA LoweredAt ==
  ASSUME NEW s \in Plaintext, NEW i \in Nat
  PROVE  /\ Len(Lowered(s)) = Len(s)
         /\ At(Lowered(s), i) = ToLower(At(s, i))
         /\ At(Lowered(s), i) = NUL <=> i >= Len(s)
<1>1. s \in Seq(Chars) /\ Len(s) \in Nat /\ DOMAIN s = 1 .. Len(s)
  BY DEF Plaintext
<1>2. Lowered(s) = [j \in 1 .. Len(s) |-> ToLower(s[j])]
  BY <1>1 DEF Lowered
<1>3. Len(Lowered(s)) = Len(s) /\ \A j \in 1 .. Len(s) : Lowered(s)[j] = ToLower(s[j])
  BY <1>1, <1>2
<1>4. At(Lowered(s), i) = ToLower(At(s, i))
  <2>1. CASE i < Len(s)
    BY <1>1, <1>3, <2>1 DEF At
  <2>2. CASE ~(i < Len(s))
    BY <1>1, <1>3, <2>2, LowerOfNul DEF At
  <2> QED
    BY <2>1, <2>2
<1> QED
  BY <1>3, <1>4, LowerOfNul, NulEnds

(* The comparison that ignores case halts at the first difference, or at   *)
(* the end of the expected text.                                           *)
LEMMA SameIgnoringCaseMeans ==
  ASSUME NEW s \in Plaintext, NEW t \in Plaintext
  PROVE  SameIgnoringCase(s, t) <=> CharsEqual(Lowered(s), Lowered(t))
<1> DEFINE L(i) == At(Lowered(s), i)
           R(i) == At(Lowered(t), i)
           halts == {i \in 0 .. Len(s) : At(s, i) = NUL \/ ToLower(At(s, i)) # ToLower(At(t, i))}
<1>0. Len(s) \in Nat /\ Len(t) \in Nat
  BY DEF Plaintext
<1>1. \A i \in Nat : /\ L(i) = ToLower(At(s, i)) /\ R(i) = ToLower(At(t, i))
                     /\ L(i) = NUL <=> i >= Len(s)
                     /\ R(i) = NUL <=> i >= Len(t)
                     /\ At(s, i) = NUL <=> i >= Len(s)
  BY LoweredAt, NulEnds
<1>2. halts \in SUBSET Nat /\ Len(s) \in halts
  BY <1>0, <1>1
<1>3. PICK stop \in halts : stop = Min(halts) /\ \A i \in halts : stop <= i
  BY <1>2, Least
<1>4. SameIgnoringCase(s, t) <=> L(stop) = R(stop)
  BY <1>1, <1>2, <1>3 DEF SameIgnoringCase
<1>5. CharsEqual(Lowered(s), Lowered(t)) <=> \A i \in 0 .. Len(s) + Len(t) : L(i) = R(i)
  <2>1. Len(Lowered(s)) = Len(s) /\ Len(Lowered(t)) = Len(t)
    BY LoweredAt
  <2> QED
    BY <2>1 DEF CharsEqual
<1>6. stop \in 0 .. Len(s) /\ (At(s, stop) = NUL \/ L(stop) # R(stop))
  BY <1>1, <1>3
<1>7. \A i \in 0 .. stop - 1 : L(i) = R(i)
  BY <1>0, <1>1, <1>3, <1>6
<1> HIDE DEF L, R, halts
<1>8. ASSUME L(stop) = R(stop) PROVE \A i \in 0 .. Len(s) + Len(t) : L(i) = R(i)
  <2>1. stop = Len(s)
    BY <1>0, <1>1, <1>6, <1>8
  <2>2. stop >= Len(t)
    BY <1>0, <1>1, <1>8, <2>1
  <2>3. ASSUME NEW i \in 0 .. Len(s) + Len(t), i >= stop PROVE L(i) = NUL /\ R(i) = NUL
    BY <1>0, <1>1, <2>1, <2>2, <2>3
  <2> QED
    BY <1>0, <1>6, <1>7, <2>3
<1> QED
  BY <1>0, <1>4, <1>5, <1>6, <1>8

(* A text is found where its characters are.                               *)
LEMMA StandsAtMeans ==
  ASSUME NEW S, NEW s \in Seq(S), NEW t \in Seq(S), NEW i \in Nat
  PROVE  StandsAt(s, t, i) <=>
           i + Len(t) <= Len(s) /\ \A k \in 1 .. Len(t) : s[i + k] = t[k]
<1>1. CASE i + Len(t) <= Len(s)
  <2> DEFINE u == SubSeq(s, i + 1, i + Len(t))
  <2>0. Len(s) \in Nat /\ Len(t) \in Nat /\ s \in [1 .. Len(s) -> S]
    OBVIOUS
  <2>1. u \in Seq(S) /\ Len(u) = Len(t) /\ \A k \in 1 .. Len(t) : u[k] = s[i + k]
    <3>1. i + 1 \in 1 .. Len(s) + 1 /\ i + Len(t) \in (i + 1) - 1 .. Len(s)
      BY <1>1, <2>0
    <3>2. /\ u \in Seq(S) /\ Len(u) = (i + Len(t)) - (i + 1) + 1
          /\ \A k \in 1 .. (i + Len(t)) - (i + 1) + 1 : u[k] = s[(i + 1) + k - 1]
      BY <3>1, SubSeqProperties
    <3>3. (i + Len(t)) - (i + 1) + 1 = Len(t) /\ \A k \in 1 .. Len(t) : (i + 1) + k - 1 = i + k
      BY <2>0
    <3> HIDE DEF u
    <3> QED
      BY <3>2, <3>3
  <2>2. u = t <=> \A k \in 1 .. Len(t) : u[k] = t[k]
    <3> HIDE DEF u
    <3> QED
      BY <2>1, SameText
  <2> QED
    BY <1>1, <2>1, <2>2 DEF StandsAt
<1> QED
  BY <1>1 DEF StandsAt

LEMMA PlacesMeans ==
  ASSUME NEW s \in Plaintext, NEW t \in Plaintext
  PROVE  Places(s, t) # {} <=> CharsFound(s, t)
<1>0. s \in Seq(Chars) /\ t \in Seq(Chars) /\ Len(s) \in Nat /\ Len(t) \in Nat
  BY DEF Plaintext
<1>1. ASSUME NEW i \in 0 .. Len(s), StandsAt(s, t, i), NEW k \in 0 .. Len(t) - 1
      PROVE  At(s, i + k) = At(t, k)
  <2>1. k + 1 \in 1 .. Len(t) /\ i + (k + 1) = (i + k) + 1 /\ i + k < Len(s) /\ k < Len(t)
    BY <1>0, <1>1 DEF StandsAt
  <2>2. s[i + (k + 1)] = t[k + 1]
    BY <1>0, <1>1, <2>1, StandsAtMeans
  <2> QED
    BY <2>1, <2>2 DEF At
<1>2. ASSUME NEW i \in 0 .. Len(s), \A k \in 0 .. Len(t) - 1 : At(s, i + k) = At(t, k)
      PROVE  StandsAt(s, t, i)
  <2>1. ASSUME NEW k \in 1 .. Len(t) PROVE s[i + k] = t[k] /\ i + k <= Len(s)
    <3>1. k - 1 \in 0 .. Len(t) - 1 /\ k - 1 \in Nat /\ k - 1 < Len(t) /\ i + (k - 1) \in Nat
          /\ (k - 1) + 1 = k /\ (i + (k - 1)) + 1 = i + k
      BY <1>0
    <3>2. At(s, i + (k - 1)) = At(t, k - 1) /\ At(t, k - 1) # NUL
      BY <1>0, <1>2, <3>1, NulEnds
    <3>3. i + (k - 1) < Len(s)
      BY <1>0, <3>1, <3>2, NulEnds
    <3>4. At(s, i + (k - 1)) = s[i + k] /\ At(t, k - 1) = t[k]
      BY <3>1, <3>3 DEF At
    <3> QED
      BY <1>0, <3>1, <3>2, <3>3, <3>4
  <2>2. i + Len(t) <= Len(s)
    <3>1. CASE Len(t) = 0
      BY <1>0, <3>1
    <3>2. CASE Len(t) > 0
      BY <1>0, <2>1, <3>2
    <3> QED
      BY <1>0, <3>1, <3>2
  <2> QED
    BY <1>0, <2>1, <2>2, StandsAtMeans
<1> QED
  BY <1>1, <1>2 DEF Places, CharsFound

LEMMA FoundIgnoringCaseMeans ==
  ASSUME NEW s \in Plaintext, NEW t \in Plaintext
  PROVE  FoundIgnoringCase(s, t) <=> CharsFound(Lowered(s), Lowered(t))
<1>0. Len(s) \in Nat /\ Len(t) \in Nat /\ Len(Lowered(s)) = Len(s) /\ Len(Lowered(t)) = Len(t)
  BY LoweredAt DEF Plaintext
<1> DEFINE Here(i) == \A k \in 0 .. Len(t) - 1 : At(Lowered(s), i + k) = At(Lowered(t), k)
<1>1. \A i \in Nat : Here(i) <=>
        \A k \in 0 .. Len(t) - 1 : ToLower(At(s, i + k)) = ToLower(At(t, k))
  BY <1>0, LoweredAt
<1>2. CharsFound(Lowered(s), Lowered(t)) <=> \E i \in 0 .. Len(s) : Here(i)
  BY <1>0 DEF CharsFound
<1>3. FoundIgnoringCase(s, t) <=> t = <<>> \/ \E i \in 0 .. Len(s) - 1 : Here(i)
  <2>1. 0 .. Len(s) - 1 \subseteq Nat
    BY <1>0
  <2> HIDE DEF Here
  <2>2. \A i \in 0 .. Len(s) - 1 : Here(i) <=>
          \A k \in 0 .. Len(t) - 1 : ToLower(At(s, i + k)) = ToLower(At(t, k))
    BY <1>1, <2>1
  <2> QED
    BY <2>2, Zenon DEF FoundIgnoringCase
<1>4. t = <<>> => Here(0)
  OBVIOUS
<1>5. ASSUME Here(Len(s)) PROVE t = <<>>
  <2>1. CASE Len(t) > 0
    <3>1. 0 \in 0 .. Len(t) - 1 /\ Len(s) + 0 = Len(s)
      BY <1>0, <2>1
    <3>2. At(Lowered(s), Len(s)) = At(Lowered(t), 0)
      BY <1>5, <3>1
    <3> QED
      BY <1>0, <2>1, <3>2, LoweredAt
  <2>2. CASE Len(t) = 0
    BY <2>2 DEF Plaintext
  <2> QED
    BY <1>0, <2>1, <2>2
<1>6. ASSUME \E i \in 0 .. Len(s) : Here(i)
      PROVE  t = <<>> \/ \E i \in 0 .. Len(s) - 1 : Here(i)
  <2> HIDE DEF Here
  <2>1. PICK i \in 0 .. Len(s) : Here(i)
    BY <1>6
  <2>2. CASE i = Len(s)
    BY <1>5, <2>1, <2>2
  <2>3. CASE i # Len(s)
    <3>1. i \in 0 .. Len(s) - 1
      BY <1>0, <2>3
    <3> QED
      BY <2>1, <3>1
  <2> QED
    BY <2>2, <2>3
<1>7. ASSUME t = <<>> \/ \E i \in 0 .. Len(s) - 1 : Here(i)
      PROVE  \E i \in 0 .. Len(s) : Here(i)
  <2> HIDE DEF Here
  <2>1. 0 \in 0 .. Len(s) /\ 0 .. Len(s) - 1 \subseteq 0 .. Len(s)
    BY <1>0
  <2> QED
    BY <1>4, <1>7, <2>1
<1> HIDE DEF Here
<1> QED
  BY <1>2, <1>3, <1>6, <1>7

(* Bytes, as many as are compared.                                         *)
LEMMA BytesEqual ==
  ASSUME NEW S, NEW s \in Seq(S), NEW t \in Seq(S), NEW n \in Nat, n <= Len(s), n <= Len(t)
  PROVE  First(s, n) = First(t, n) <=> \A i \in 1 .. n : s[i] = t[i]
<1>1. PICK u \in Seq(S) : u = First(s, n) /\ Len(u) = n /\ \A i \in 1 .. n : u[i] = s[i]
  BY FirstIs
<1>2. PICK v \in Seq(S) : v = First(t, n) /\ Len(v) = n /\ \A i \in 1 .. n : v[i] = t[i]
  BY FirstIs
<1>3. u = v <=> \A i \in 1 .. n : u[i] = v[i]
  BY <1>1, <1>2, SameText
<1> QED
  BY <1>1, <1>2, <1>3

-------------------------------------------------------------------------------
(* Assertions                                                              *)

LEMMA ModulusTyped ==
  ASSUME NEW type
  PROVE  Modulus(type) \in Nat \ {0}
<1>1. MaxOf(type) \in Nat
  BY WidthAssumption DEF MaxOf
<1> QED
  BY <1>1, ByteAssumption DEF Modulus

LEMMA Division ==
  ASSUME NEW m \in Nat \ {0}, NEW n \in Int
  PROVE  \E q \in Int, r \in 0 .. m - 1 : n = m * q + r /\ n % m = r
<1>1. m \in Int /\ m > 0
  OBVIOUS
<1>2. n = m * (n \div m) + (n % m)
  BY <1>1, Z3
<1>3. n \div m \in Int /\ n % m \in 0 .. m - 1
  BY <1>1
<1> QED
  BY <1>2, <1>3, Zenon

(* Two numbers have the same rest if and only if their difference has none. *)
LEMMA SameRest ==
  ASSUME NEW m \in Nat \ {0}, NEW e \in Int, NEW a \in Int
  PROVE  e % m = a % m <=> (e - a) % m = 0
<1>1. PICK p \in Int, r \in 0 .. m - 1 : e = m * p + r /\ e % m = r
  BY Division
<1>2. PICK q \in Int, s \in 0 .. m - 1 : a = m * q + s /\ a % m = s
  BY Division
<1>3. PICK d \in Int, t \in 0 .. m - 1 : e - a = m * d + t /\ (e - a) % m = t
  BY Division
<1>4. m * (p - q - d) = t - (r - s)
  BY <1>1, <1>2, <1>3
<1>5. PICK z \in Int : z = p - q - d /\ m * z = t - (r - s)
  BY <1>4
<1>6. ASSUME r = s PROVE t = 0
  BY <1>5, <1>6
<1>7. ASSUME t = 0 PROVE r = s
  BY <1>5, <1>7
<1> QED
  BY <1>1, <1>2, <1>3, <1>6, <1>7

LEMMA KeptEqual ==
  ASSUME NEW type, NEW e \in Int, NEW a \in Int
  PROVE  Kept(type, e) = Kept(type, a) <=> (e - a) % Modulus(type) = 0
<1>1. PICK m \in Nat \ {0} : m = Modulus(type)
  BY ModulusTyped
<1>2. e % m \in 0 .. m - 1 /\ a % m \in 0 .. m - 1
  OBVIOUS
<1>3. PICK r \in 0 .. m - 1, s \in 0 .. m - 1 : r = e % m /\ s = a % m
  BY <1>2
<1> DEFINE signed == type \in SignedTypes \cup {"signed char"}
<1>4. /\ Kept(type, e) = IF signed /\ 2 * r >= m THEN r - m ELSE r
      /\ Kept(type, a) = IF signed /\ 2 * s >= m THEN s - m ELSE s
  BY <1>1, <1>3 DEF Kept
<1>5. Kept(type, e) = Kept(type, a) <=> r = s
  <2> HIDE DEF signed
  <2> QED
    BY <1>4
<1> QED
  BY <1>1, <1>3, <1>5, SameRest

LEMMA DoublesEqMeans ==
  ASSUME NEW e \in Doubles, NEW a \in Doubles, NEW t \in Doubles
  PROVE  DoublesEq(e, a, t) <=>
           /\ {e.kind, a.kind, t.kind} \cap {"nan"} = {}
           /\ \/ {e.kind, a.kind} = {"inf"}
              \/ t.kind = "inf" /\ t.n > 0
              \/ {e.kind, a.kind, t.kind} = {"finite"} /\ (e.n - a.n) \in -t.n .. t.n
<1>1. \A d \in Doubles : d.kind \in {"finite", "inf", "nan"} /\ d.n \in Int
  BY DEF Doubles, Infinite, NaN
<1>2. t = Infinite(1) <=> t.kind = "inf" /\ t.n > 0
  <2>1. CASE t \in [kind : {"finite"}, n : Int] \cup {NaN}
    BY <2>1 DEF Infinite, NaN
  <2>2. CASE t = Infinite(-1)
    BY <2>2 DEF Infinite
  <2>3. CASE t = Infinite(1)
    BY <2>3 DEF Infinite
  <2> QED
    BY <2>1, <2>2, <2>3 DEF Doubles
<1>3. Distance(e, a) <= t.n <=> (e.n - a.n) \in -t.n .. t.n
  <2>1. PICK x \in Int, y \in Int, z \in Int : x = e.n /\ y = a.n /\ z = t.n
    BY <1>1
  <2>2. Distance(e, a) = IF x < y THEN y - x ELSE x - y
    BY <2>1 DEF Distance
  <2>3. CASE x < y
    BY <2>1, <2>2, <2>3
  <2>4. CASE ~(x < y)
    BY <2>1, <2>2, <2>4
  <2> QED
    BY <2>3, <2>4
<1> DEFINE close == Distance(e, a) <= t.n
           within == (e.n - a.n) \in -t.n .. t.n
           infinite == t.n > 0
<1>4. close <=> within
  BY <1>3
<1>5. t = Infinite(1) <=> t.kind = "inf" /\ infinite
  BY <1>2
<1> HIDE DEF close, within, infinite
<1>6. DoublesEq(e, a, t) <=>
        /\ "nan" \notin {e.kind, a.kind, t.kind}
        /\ \/ e.kind = "inf" /\ a.kind = "inf"
           \/ t = Infinite(1)
           \/ e.kind = "finite" /\ a.kind = "finite" /\ t.kind = "finite" /\ close
  BY DEF DoublesEq, close
<1>7. DoublesEq(e, a, t) <=>
        /\ {e.kind, a.kind, t.kind} \cap {"nan"} = {}
        /\ \/ {e.kind, a.kind} = {"inf"}
           \/ t.kind = "inf" /\ infinite
           \/ {e.kind, a.kind, t.kind} = {"finite"} /\ within
  BY <1>4, <1>5, <1>6
<1> QED
  BY <1>7 DEF within, infinite

LEMMA OperandBytes ==
  ASSUME NEW e, NEW a, NEW n \in Nat, e # NullPointer, a # NullPointer,
         \A b \in {e, a} \ {NullPointer} : b \in Seq(Chars \X Chars) /\ n <= Len(b)
  PROVE  First(e, n) = First(a, n) <=> \A i \in 1 .. n : e[i] = a[i]
<1>1. e \in Seq(Chars \X Chars) /\ a \in Seq(Chars \X Chars) /\ n <= Len(e) /\ n <= Len(a)
  OBVIOUS
<1> QED
  BY <1>1, BytesEqual

(* Each way of comparing does what the assertion means.                    *)
LEMMA InlineMeans ==
  ASSUME NEW x, WellFormed(x), x.kind \in InlineKinds \cup {"compare", "print"}
  PROVE  InlinePasses(x) <=> Meaning(x)
<1>1. CASE x.kind = "integers"
  <2>1. x.e \in Int /\ x.a \in Int
    BY <1>1 DEF WellFormed
  <2>2. InlinePasses(x) <=> Kept(x.n, x.e) = Kept(x.n, x.a)
    BY <1>1 DEF InlinePasses
  <2>3. Meaning(x) <=> (x.e - x.a) % Modulus(x.n) = 0
    BY <1>1 DEF Meaning
  <2> QED
    BY <2>1, <2>2, <2>3, KeptEqual
<1>2. CASE x.kind = "doubles"
  <2>1. x.e \in Doubles /\ x.a \in Doubles /\ x.n \in Doubles
    BY <1>2 DEF WellFormed
  <2>2. InlinePasses(x) <=> DoublesEq(x.e, x.a, x.n)
    BY <1>2 DEF InlinePasses
  <2> QED
    BY <1>2, <2>1, <2>2, DoublesEqMeans DEF Meaning
<1>3. CASE x.kind = "cstr"
  <2>1. {x.e, x.a} \subseteq Plaintext \cup {NullPointer}
    BY <1>3 DEF WellFormed, TextKinds, Plaintext
  <2>2. InlinePasses(x) <=> x.e = x.a
    BY <1>3 DEF InlinePasses, CstrEq
  <2>3. Meaning(x) <=> NullsOr(x.e, x.a, CharsEqual(x.e, x.a))
    BY <1>3 DEF Meaning
  <2> QED
    BY <2>1, <2>2, <2>3, CharsEqualMeans DEF NullsOr, IsNull
<1>4. CASE x.kind = "cstrn"
  <2>1. {x.e, x.a} \subseteq Plaintext \cup {NullPointer} /\ x.n \in Nat
    BY <1>4 DEF WellFormed, TextKinds, Plaintext
  <2> DEFINE alike == \A i \in 0 .. x.n - 1 :
                        (\A k \in 0 .. i - 1 : At(x.e, k) # NUL) => At(x.e, i) = At(x.a, i)
  <2>2. InlinePasses(x) <=> CstrnEq(x.e, x.a, x.n)
    BY <1>4 DEF InlinePasses
  <2>3. Meaning(x) <=> NullsOr(x.e, x.a, alike)
    BY <1>4 DEF Meaning
  <2>4. x.e \in Plaintext /\ x.a \in Plaintext => (First(x.e, x.n) = First(x.a, x.n) <=> alike)
    BY <2>1, FirstsEqual
  <2> HIDE DEF alike
  <2> QED
    BY <2>1, <2>2, <2>3, <2>4 DEF NullsOr, IsNull, CstrnEq
<1>5. CASE x.kind = "memory"
  <2>1. x.n \in Nat /\ \A b \in {x.e, x.a} \ {NullPointer} : b \in Seq(Chars \X Chars) /\ x.n <= Len(b)
    BY <1>5 DEF WellFormed
  <2>2. InlinePasses(x) <=> MemEq(x.e, x.a, x.n)
    BY <1>5 DEF InlinePasses
  <2>3. Meaning(x) <=> x.n = 0 \/ NullsOr(x.e, x.a, \A i \in 1 .. x.n : x.e[i] = x.a[i])
    BY <1>5 DEF Meaning
  <2>4. x.e # NullPointer /\ x.a # NullPointer =>
          (First(x.e, x.n) = First(x.a, x.n) <=> \A i \in 1 .. x.n : x.e[i] = x.a[i])
    BY <2>1, OperandBytes, ZenonT(30)
  <2> QED
    BY <2>2, <2>3, <2>4 DEF NullsOr, IsNull, MemEq
<1>6. CASE x.kind = "bits"
  <2>1. InlinePasses(x) <=> x.e \cap x.n = x.a \cap x.n
    BY <1>6 DEF InlinePasses
  <2>2. Meaning(x) <=> \A b \in x.n : b \in x.e <=> b \in x.a
    BY <1>6 DEF Meaning
  <2> QED
    BY <2>1, <2>2
<1>7. CASE x.kind \in {"condition", "equal", "pointers", "compare", "print"}
  BY <1>7 DEF InlinePasses, Meaning
<1> QED
  BY <1>1, <1>2, <1>3, <1>4, <1>5, <1>6, <1>7 DEF InlineKinds

LEMMA LibraryMeans ==
  ASSUME NEW x, WellFormed(x), x.kind \in LibraryKinds \cup {"compare"}
  PROVE  LibraryPasses(x) <=> Meaning(x)
<1>0. x.kind \in TextKinds => {x.e, x.a} \subseteq Plaintext \cup {NullPointer}
  BY DEF WellFormed, Plaintext
<1>1. CASE x.kind = "cstr"
  <2>1. LibraryPasses(x) <=> BothOrNone(x.e, x.a, x.e = x.a)
    BY <1>1 DEF LibraryPasses
  <2>2. Meaning(x) <=> NullsOr(x.e, x.a, CharsEqual(x.e, x.a))
    BY <1>1 DEF Meaning
  <2> QED
    BY <1>0, <1>1, <2>1, <2>2, CharsEqualMeans DEF TextKinds, NullsOr, BothOrNone, IsNull
<1>2. CASE x.kind = "cstrn"
  <2>1. x.n \in Nat
    BY <1>2 DEF WellFormed
  <2> DEFINE alike == \A i \in 0 .. x.n - 1 :
                        (\A k \in 0 .. i - 1 : At(x.e, k) # NUL) => At(x.e, i) = At(x.a, i)
             same == First(x.e, x.n) = First(x.a, x.n)
  <2>2. LibraryPasses(x) <=> BothOrNone(x.e, x.a, same)
    BY <1>2 DEF LibraryPasses
  <2>3. Meaning(x) <=> NullsOr(x.e, x.a, alike)
    BY <1>2 DEF Meaning
  <2>4. x.e \in Plaintext /\ x.a \in Plaintext => (same <=> alike)
    BY <2>1, FirstsEqual
  <2> HIDE DEF alike, same
  <2> QED
    BY <1>0, <1>2, <2>2, <2>3, <2>4 DEF TextKinds, NullsOr, BothOrNone, IsNull
<1>3. CASE x.kind = "nocase"
  <2>1. LibraryPasses(x) <=> BothOrNone(x.e, x.a, SameIgnoringCase(x.e, x.a))
    BY <1>3 DEF LibraryPasses
  <2>2. Meaning(x) <=> NullsOr(x.e, x.a, CharsEqual(Lowered(x.e), Lowered(x.a)))
    BY <1>3 DEF Meaning
  <2> QED
    BY <1>0, <1>3, <2>1, <2>2, SameIgnoringCaseMeans DEF TextKinds, NullsOr, BothOrNone, IsNull
<1>4. CASE x.kind = "contains"
  <2>1. LibraryPasses(x) <=> BothOrNone(x.e, x.a, Places(x.a, x.e) # {})
    BY <1>4 DEF LibraryPasses
  <2>2. Meaning(x) <=> NullsOr(x.e, x.a, CharsFound(x.a, x.e))
    BY <1>4 DEF Meaning
  <2> QED
    BY <1>0, <1>4, <2>1, <2>2, PlacesMeans DEF TextKinds, NullsOr, BothOrNone, IsNull
<1>5. CASE x.kind = "nocase_contains"
  <2>1. LibraryPasses(x) <=> BothOrNone(x.e, x.a, FoundIgnoringCase(x.a, x.e))
    BY <1>5 DEF LibraryPasses
  <2>2. Meaning(x) <=> NullsOr(x.e, x.a, CharsFound(Lowered(x.a), Lowered(x.e)))
    BY <1>5 DEF Meaning
  <2> QED
    BY <1>0, <1>5, <2>1, <2>2, FoundIgnoringCaseMeans DEF TextKinds, NullsOr, BothOrNone, IsNull
<1>6. CASE x.kind = "memory"
  <2>1. x.n \in Nat /\ \A b \in {x.e, x.a} \ {NullPointer} : b \in Seq(Chars \X Chars) /\ x.n <= Len(b)
    BY <1>6 DEF WellFormed
  <2> DEFINE alike == \A i \in 1 .. x.n : x.e[i] = x.a[i]
             same == First(x.e, x.n) = First(x.a, x.n)
  <2>2. LibraryPasses(x) <=> x.n = 0 \/ BothOrNone(x.e, x.a, same)
    BY <1>6 DEF LibraryPasses
  <2>3. Meaning(x) <=> x.n = 0 \/ NullsOr(x.e, x.a, alike)
    BY <1>6 DEF Meaning
  <2>4. x.e # NullPointer /\ x.a # NullPointer => (same <=> alike)
    BY <2>1, OperandBytes, ZenonT(30)
  <2> HIDE DEF alike, same
  <2> QED
    BY <2>2, <2>3, <2>4 DEF NullsOr, BothOrNone, IsNull
<1>7. CASE x.kind \notin TextKinds \cup {"memory"}
  <2>1. LibraryPasses(x) <=> InlinePasses(x)
    BY <1>7 DEF LibraryPasses, TextKinds
  <2>2. x.kind \in InlineKinds \cup {"compare", "print"}
    BY <1>7 DEF LibraryKinds
  <2> QED
    BY <2>1, <2>2, InlineMeans
<1> QED
  BY <1>1, <1>2, <1>3, <1>4, <1>5, <1>6, <1>7 DEF TextKinds

(* What an assertion leaves behind.                                        *)
LEMMA OutcomeFields ==
  ASSUME NEW route \in {"macro", "library"}, NEW x, NEW passes \in BOOLEAN, Outcome(route, x, passes)
  PROVE  /\ last'.route = route /\ last'.x = x /\ last'.passes = passes
         /\ ~passes => last'.message = FailureMessage(x)
<1>1. PICK message : /\ last' = [route |-> route, x |-> x, passes |-> passes, message |-> message]
                     /\ ~passes => message = FailureMessage(x)
  BY DEF Outcome
<1> QED
  BY <1>1

LEMMA PassesBoolean ==
  ASSUME NEW x
  PROVE  InlinePasses(x) \in BOOLEAN /\ LibraryPasses(x) \in BOOLEAN
<1>1. InlinePasses(x) \in BOOLEAN
  BY DEF InlinePasses, DoublesEq, CstrEq, CstrnEq, MemEq
<1> QED
  BY <1>1 DEF LibraryPasses, BothOrNone

LEMMA AssertionMade ==
  ASSUME NEW x \in Assertable, Macro(x) \/ Library(x)
  PROVE  /\ last'.route \in {"macro", "library"} /\ last'.x = x
         /\ last'.passes <=> Meaning(x)
         /\ ~last'.passes => last'.message = FailureMessage(x)
<1>1. WellFormed(x)
  BY BodyAssumption
<1>2. CASE Macro(x)
  <2>1. PICK passes \in BOOLEAN : passes = InlinePasses(x)
    BY PassesBoolean
  <2>2. Outcome("macro", x, InlinePasses(x)) /\ x.kind \in InlineKinds \cup {"compare", "print"}
    BY <1>2 DEF Macro
  <2>3. Outcome("macro", x, passes)
    BY <2>1, <2>2
  <2> QED
    BY <1>1, <2>1, <2>2, <2>3, OutcomeFields, InlineMeans
<1>3. CASE Library(x)
  <2>1. PICK passes \in BOOLEAN : passes = LibraryPasses(x)
    BY PassesBoolean
  <2>2. Outcome("library", x, LibraryPasses(x)) /\ x.kind \in LibraryKinds \cup {"compare"}
    BY <1>3 DEF Library
  <2>3. Outcome("library", x, passes)
    BY <2>1, <2>2
  <2> QED
    BY <1>1, <2>1, <2>2, <2>3, OutcomeFields, LibraryMeans
<1> QED
  BY <1>2, <1>3

-------------------------------------------------------------------------------
(* Texts that are put together                                             *)

(* A recursion along 1 .. n within S.                                      *)
Steps(n, S) == [1 .. n -> [S -> S]]

Recursion(h, n, S, b, g) ==
  h \in [0 .. n -> S] /\ h[0] = b /\ \A k \in 1 .. n : h[k] = g[k][h[k - 1]]

LEMMA RecursionExists ==
  ASSUME NEW n \in Nat, NEW S, NEW b \in S, NEW g \in Steps(n, S)
  PROVE  \E h : Recursion(h, n, S, b, g)
<1> DEFINE Recurs(h, m) == h[0] = b /\ \A k \in 1 .. m : h[k] = g[k][h[k - 1]]
           F == {m \in 0 .. n : ~ \E h \in [0 .. m -> S] : Recurs(h, m)}
<1>1. ASSUME F # {} PROVE FALSE
  <2>1. F \in SUBSET Nat
    OBVIOUS
  <2> HIDE DEF F
  <2>2. PICK m \in F : \A k \in F : m <= k
    BY <1>1, <2>1, Least
  <2>3. m \in 0 .. n /\ ~ \E h \in [0 .. m -> S] : Recurs(h, m)
    BY <2>2 DEF F
  <2>4. CASE m = 0
    <3> DEFINE h == [k \in 0 .. 0 |-> b]
    <3>1. h \in [0 .. m -> S] /\ h[0] = b /\ 1 .. m = {}
      BY <2>4
    <3> QED
      BY <2>3, <3>1
  <2>5. CASE m # 0
    <3>1. m - 1 \in 0 .. n /\ ~ (m <= m - 1) /\ m \in 1 .. n
      BY <2>3, <2>5
    <3>2. m - 1 \notin F
      BY <2>2, <3>1
    <3>3. PICK f \in [0 .. m - 1 -> S] : Recurs(f, m - 1)
      BY <3>1, <3>2 DEF F
    <3> DEFINE h == [k \in 0 .. m |-> IF k = m THEN g[m][f[m - 1]] ELSE f[k]]
    <3>4. f[m - 1] \in S /\ g[m] \in [S -> S]
      BY <3>1, <3>3 DEF Steps
    <3>5. h \in [0 .. m -> S]
      BY <3>1, <3>4
    <3>6. h[0] = b
      BY <3>1, <3>3
    <3>7. ASSUME NEW k \in 1 .. m PROVE h[k] = g[k][h[k - 1]]
      <4>1. CASE k = m
        BY <3>1, <4>1
      <4>2. CASE k # m
        <5>1. k \in 1 .. m - 1 /\ k - 1 \in 0 .. m /\ k - 1 # m /\ k \in 0 .. m
          BY <3>1, <4>2
        <5>2. f[k] = g[k][f[k - 1]]
          BY <3>3, <5>1
        <5> QED
          BY <4>2, <5>1, <5>2
      <4> QED
        BY <4>1, <4>2
    <3> QED
      BY <2>3, <3>5, <3>6, <3>7
  <2> QED
    BY <2>4, <2>5
<1>2. n \in 0 .. n
  OBVIOUS
<1> HIDE DEF F
<1>3. n \notin F
  BY <1>1
<1> QED
  BY <1>2, <1>3 DEF F, Recursion

(* Each value of f is in the set that I gives for its place.               *)
Keeps(f, n, I) == f[0] \in I[0] /\ \A k \in 1 .. n : f[k - 1] \in I[k - 1] => f[k] \in I[k]

LEMMA KeptAlong ==
  ASSUME NEW n \in Nat, NEW f, NEW I, Keeps(f, n, I)
  PROVE  \A k \in 0 .. n : f[k] \in I[k]
<1> DEFINE F == {k \in 0 .. n : f[k] \notin I[k]}
<1>1. ASSUME F # {} PROVE FALSE
  <2>1. F \in SUBSET Nat
    OBVIOUS
  <2> HIDE DEF F
  <2>2. PICK m \in F : \A k \in F : m <= k
    BY <1>1, <2>1, Least
  <2>3. m \in 0 .. n /\ f[m] \notin I[m]
    BY <2>2 DEF F
  <2>4. m # 0
    BY <2>3 DEF Keeps
  <2>5. m \in 1 .. n /\ m - 1 \in 0 .. n /\ ~ (m <= m - 1)
    BY <2>3, <2>4
  <2>6. f[m - 1] \in I[m - 1]
    BY <2>2, <2>5 DEF F
  <2> QED
    BY <2>3, <2>5, <2>6 DEF Keeps
<1> QED
  BY <1>1

Flattens(seqs, f) ==
  f = [i \in 1 .. Len(seqs) |-> IF i = 1 THEN seqs[i] ELSE f[i - 1] \o seqs[i]]

Concatenation(seqs, n, h, T) ==
  h \in [0 .. n -> Seq(T)] /\ h[0] = <<>> /\ \A k \in 1 .. n : h[k] = h[k - 1] \o seqs[k]

LEMMA FlattenIs ==
  ASSUME NEW T, NEW n \in Nat, NEW seqs \in Seq(Seq(T)), Len(seqs) = n
  PROVE  \E h : Concatenation(seqs, n, h, T) /\ FlattenSeq(seqs) = h[n]
<1> DEFINE S == Seq(T)
           g == [k \in 1 .. n |-> [x \in S |-> x \o seqs[k]]]
           w == CHOOSE f : Flattens(seqs, f)
<1>1. \A k \in 1 .. n : seqs[k] \in S
  OBVIOUS
<1>2. g \in Steps(n, S) /\ <<>> \in S
  BY <1>1 DEF Steps
<1>3. PICK h : Recursion(h, n, S, <<>>, g)
  <2> DEFINE b == <<>>
  <2> HIDE DEF S, g, b
  <2>1. \E h : Recursion(h, n, S, b, g)
    BY <1>2, RecursionExists DEF b
  <2> QED
    BY <2>1 DEF b
<1>4. \A k \in 1 .. n : k \in 0 .. n /\ k - 1 \in 0 .. n /\ (k # 1 => k - 1 \in 1 .. n) /\ k # 0
  OBVIOUS
<1>5. Concatenation(seqs, n, h, T)
  <2>1. h \in [0 .. n -> S] /\ h[0] = <<>> /\ \A k \in 1 .. n : h[k] = g[k][h[k - 1]]
    BY <1>3 DEF Recursion
  <2>2. ASSUME NEW k \in 1 .. n PROVE h[k] = h[k - 1] \o seqs[k]
    <3>1. h[k - 1] \in S
      BY <1>4, <2>1
    <3> HIDE DEF S
    <3> QED
      BY <2>1, <3>1
  <2> QED
    BY <2>1, <2>2 DEF Concatenation
<1> DEFINE f == [i \in 1 .. n |-> h[i]]
<1>6. Flattens(seqs, f)
  <2>1. ASSUME NEW i \in 1 .. n PROVE h[i] = IF i = 1 THEN seqs[i] ELSE f[i - 1] \o seqs[i]
    <3>1. h[i] = h[i - 1] \o seqs[i] /\ h[0] = <<>>
      BY <1>5 DEF Concatenation
    <3>2. CASE i = 1
      <4>1. <<>> \o seqs[i] = seqs[i]
        BY <1>1
      <4> QED
        BY <3>1, <3>2, <4>1
    <3>3. CASE i # 1
      BY <1>4, <3>1, <3>3
    <3> QED
      BY <3>2, <3>3
  <2> QED
    BY <2>1 DEF Flattens
<1>7. Flattens(seqs, w)
  BY <1>6
<1>8. n # 0 => FlattenSeq(seqs) = w[n]
  BY DEF FlattenSeq, Flattens
<1> HIDE DEF w
<1> DEFINE v == [k \in 0 .. n |-> IF k = 0 THEN <<>> ELSE w[k]]
           I == [k \in 0 .. n |-> {h[k]}]
<1>9. Keeps(v, n, I)
  <2>1. v[0] = h[0] /\ 0 \in 0 .. n
    BY <1>5 DEF Concatenation
  <2>2. ASSUME NEW k \in 1 .. n, v[k - 1] = h[k - 1] PROVE v[k] = h[k]
    <3>1. w[k] = IF k = 1 THEN seqs[k] ELSE w[k - 1] \o seqs[k]
      BY <1>7 DEF Flattens
    <3>2. h[k] = h[k - 1] \o seqs[k] /\ h[0] = <<>>
      BY <1>5 DEF Concatenation
    <3>3. v[k] = w[k]
      BY <1>4
    <3>4. CASE k = 1
      <4>1. <<>> \o seqs[k] = seqs[k] /\ k - 1 = 0
        BY <1>1, <3>4
      <4> HIDE DEF v
      <4>2. w[k] = seqs[k]
        BY <3>1, <3>4
      <4> QED
        BY <3>2, <3>3, <4>1, <4>2
    <3>5. CASE k # 1
      <4>1. k \in 1 .. n /\ k - 1 \in 0 .. n /\ k - 1 # 0
        BY <1>4, <3>5
      <4>2. v[k - 1] = w[k - 1]
        BY <4>1
      <4> HIDE DEF v
      <4>3. w[k] = w[k - 1] \o seqs[k]
        BY <3>1, <3>5
      <4> QED
        BY <2>2, <3>2, <3>3, <4>2, <4>3
    <3> QED
      BY <3>4, <3>5
  <2>3. \A k \in 0 .. n : I[k] = {h[k]}
    OBVIOUS
  <2> HIDE DEF v, I
  <2>4. v[0] \in I[0]
    BY <2>1, <2>3
  <2>5. ASSUME NEW k \in 1 .. n, v[k - 1] \in I[k - 1] PROVE v[k] \in I[k]
    <3>1. k \in 0 .. n /\ k - 1 \in 0 .. n
      BY <1>4
    <3>2. v[k - 1] = h[k - 1]
      BY <2>3, <2>5, <3>1
    <3>3. v[k] = h[k]
      BY <2>2, <3>2
    <3> QED
      BY <2>3, <3>1, <3>3
  <2> QED
    BY <2>4, <2>5 DEF Keeps
<1>10. v[n] = h[n]
  <2>1. n \in 0 .. n /\ n \in Nat
    OBVIOUS
  <2>2. I[n] = {h[n]}
    BY <2>1
  <2> HIDE DEF v, I
  <2>3. v[n] \in I[n]
    BY <1>9, <2>1, KeptAlong
  <2> QED
    BY <2>2, <2>3
<1>11. FlattenSeq(seqs) = h[n]
  <2>1. CASE n = 0
    <3>1. seqs = <<>> /\ FlattenSeq(seqs) = seqs
      BY <2>1 DEF FlattenSeq
    <3> QED
      BY <1>5, <2>1, <3>1 DEF Concatenation
  <2>2. CASE n # 0
    <3>1. v[n] = w[n]
      BY <2>2
    <3> QED
      BY <1>8, <1>10, <2>2, <3>1
  <2> QED
    BY <2>1, <2>2
<1> QED
  BY <1>5, <1>11

LEMMA FlattenTyped ==
  ASSUME NEW T, NEW seqs \in Seq(Seq(T))
  PROVE  FlattenSeq(seqs) \in Seq(T)
<1>1. PICK n \in Nat : n = Len(seqs)
  OBVIOUS
<1>2. PICK h : Concatenation(seqs, n, h, T) /\ FlattenSeq(seqs) = h[n]
  BY <1>1, FlattenIs
<1> QED
  BY <1>2 DEF Concatenation

(* What a text is shown by: its escapes have no NUL.                       *)
ShownChars == Chars \cup {"\\", "n", "t"}

LEMMA PrintableTyped ==
  ASSUME NEW s \in Plaintext
  PROVE  Printable(s) \in Seq(ShownChars)
<1> DEFINE Escape(c) == CASE c = Newline -> <<"\\", "n">> [] c = Tab -> <<"\\", "t">> [] OTHER -> <<c>>
<1>1. ASSUME NEW c \in Chars PROVE Escape(c) \in Seq(ShownChars)
  <2>1. {"\\", "n", "t", c} \subseteq ShownChars
    BY DEF ShownChars
  <2>2. /\ <<"\\", "n">> \in Seq(ShownChars)
        /\ <<"\\", "t">> \in Seq(ShownChars)
        /\ <<c>> \in Seq(ShownChars)
    BY <2>1
  <2> QED
    BY <2>2, Zenon
<1>2. s \in Seq(Chars) /\ DOMAIN s = 1 .. Len(s) /\ Len(s) \in Nat
  BY DEF Plaintext
<1> HIDE DEF Escape
<1>3. [i \in DOMAIN s |-> Escape(s[i])] \in Seq(Seq(ShownChars))
  BY <1>1, <1>2
<1>4. Printable(s) = FlattenSeq([i \in DOMAIN s |-> Escape(s[i])])
  BY DEF Printable, Escape
<1> QED
  BY <1>3, <1>4, FlattenTyped

LEMMA ShownHasNoNul ==
  NUL \notin ShownChars
BY BodyAssumption DEF ShownChars, NUL

(* The same of any text without NUL.                                       *)
LEMMA EndsAtNul ==
  ASSUME NEW T, NUL \notin T, NEW s \in Seq(T), NEW i \in Nat
  PROVE  At(s, i) = NUL <=> i >= Len(s)
BY DEF At

LEMMA HalfTyped ==
  Half \in Nat
BY WindowAssumption DEF Half

LEMMA BlanksAre ==
  ASSUME NEW n \in Nat
  PROVE  Blanks(n) \in Seq({Blank}) /\ Len(Blanks(n)) = n /\ \A i \in 1 .. n : Blanks(n)[i] = Blank
BY DEF Blanks

(* u is s behind b, of n and m characters; or s, of n, between blanks; or  *)
(* n characters of s behind the first i.                                   *)
Joined(u, b, s, n, m) ==
  Len(u) = n + m /\ \A i \in 1 .. n + m : u[i] = IF i <= n THEN b[i] ELSE s[i - n]
Padded(u, s, half, n, blank) ==
  /\ Len(u) = half + n + half
  /\ \A p \in 1 .. half + n + half :
       u[p] = IF p \in half + 1 .. half + n THEN s[p - half] ELSE blank
Excerpt(u, s, i, n) == Len(u) = n /\ n \in Nat /\ \A j \in 1 .. n : u[j] = s[i + j]

LEMMA JoinedIs ==
  ASSUME NEW S, NEW b \in Seq(S), NEW s \in Seq(S), NEW n \in Nat, NEW m \in Nat,
         Len(b) = n, Len(s) = m
  PROVE  b \o s \in Seq(S) /\ Joined(b \o s, b, s, n, m)
<1>1. PICK u : u = b \o s
  OBVIOUS
<1>2. u \in Seq(S)
  BY <1>1
<1>3. Len(u) = n + m
  <2>1. Len(b \o s) = Len(b) + Len(s)
    OBVIOUS
  <2> QED
    BY <1>1, <2>1, Zenon
<1>4. ASSUME NEW i \in 1 .. n + m PROVE u[i] = IF i <= n THEN b[i] ELSE s[i - n]
  BY <1>1
<1> QED
  BY <1>1, <1>2, <1>3, <1>4, Zenon DEF Joined

LEMMA PaddedIs ==
  ASSUME NEW S, NEW b \in Seq(S), NEW s \in Seq(S), NEW half \in Nat, NEW length \in Nat, NEW blank,
         Len(b) = half, Len(s) = length, \A i \in 1 .. half : b[i] = blank
  PROVE  (b \o s) \o b \in Seq(S) /\ Padded((b \o s) \o b, s, half, length, blank)
<1>1. PICK c : c = b \o s
  OBVIOUS
<1>2. c \in Seq(S) /\ Joined(c, b, s, half, length)
  BY <1>1, JoinedIs, Zenon
<1>3. PICK n \in Nat : n = half + length
  OBVIOUS
<1>4. Len(c) = n
  BY <1>2, <1>3 DEF Joined
<1>5. PICK u : u = c \o b
  OBVIOUS
<1>6. u \in Seq(S) /\ Joined(u, c, b, n, half)
  BY <1>2, <1>4, <1>5, JoinedIs, Zenon
<1>7. Len(u) = half + length + half
  BY <1>3, <1>6 DEF Joined
<1>8. ASSUME NEW p \in 1 .. half + length + half
      PROVE  u[p] = IF p \in half + 1 .. half + length THEN s[p - half] ELSE blank
  <2>1. u[p] = IF p <= n THEN c[p] ELSE b[p - n]
    BY <1>3, <1>6 DEF Joined
  <2>2. CASE p <= n
    <3>1. c[p] = IF p <= half THEN b[p] ELSE s[p - half]
      BY <1>2, <1>3, <2>2 DEF Joined
    <3>2. CASE p <= half
      BY <2>1, <2>2, <3>1, <3>2
    <3>3. CASE ~(p <= half)
      BY <1>3, <2>1, <2>2, <3>1, <3>3
    <3> QED
      BY <3>2, <3>3
  <2>3. CASE ~(p <= n)
    <3>1. p - n \in 1 .. half /\ p \notin half + 1 .. half + length
      BY <1>3, <2>3
    <3> QED
      BY <2>1, <2>3, <3>1
  <2> QED
    BY <2>2, <2>3
<1> QED
  BY <1>1, <1>5, <1>6, <1>7, <1>8, Zenon DEF Padded

LEMMA ExcerptIs ==
  ASSUME NEW S, NEW s \in Seq(S), NEW i \in Nat, NEW m \in Nat, m <= Len(s),
         NEW n, n = IF i <= m THEN m - i ELSE 0
  PROVE  SubSeq(s, i + 1, m) \in Seq(S) /\ Excerpt(SubSeq(s, i + 1, m), s, i, n)
<1>1. PICK u : u = SubSeq(s, i + 1, m)
  OBVIOUS
<1>2. n \in Nat /\ \A j \in i + 1 .. m : s[j] \in S
  OBVIOUS
<1>3. /\ u \in Seq(S) /\ Len(u) = IF i + 1 <= m THEN m - (i + 1) + 1 ELSE 0
      /\ \A j \in 1 .. m - (i + 1) + 1 : u[j] = s[(i + 1) + j - 1]
  BY <1>1, <1>2, SubSeqProperties
<1>4. /\ n = IF i + 1 <= m THEN m - (i + 1) + 1 ELSE 0
      /\ \A j \in 1 .. n : j \in 1 .. m - (i + 1) + 1 /\ (i + 1) + j - 1 = i + j
  OBVIOUS
<1>5. ASSUME NEW j \in 1 .. n PROVE u[j] = s[i + j]
  <2>1. j \in 1 .. m - (i + 1) + 1 /\ (i + 1) + j - 1 = i + j
    BY <1>4
  <2>2. u[j] = s[(i + 1) + j - 1]
    BY <1>3, <2>1
  <2> QED
    BY <2>1, <2>2
<1>6. Len(u) = n
  BY <1>3, <1>4
<1> QED
  BY <1>1, <1>2, <1>3, <1>5, <1>6, Zenon DEF Excerpt

(* What is shown of the actual text is the part around offset, with the    *)
(* caret under it; beyond its ends there are blanks.                       *)
LEMMA WindowIs ==
  ASSUME NEW T, NEW actual \in Seq(T), NEW offset \in 0 .. Len(actual), NEW w,
         w = DifferenceAtPos(actual, offset)
  PROVE  \A i \in DOMAIN w.shown :
           w.shown[i] = IF offset + i - w.caret \in 0 .. Len(actual) - 1
                        THEN At(actual, offset + i - w.caret) ELSE Blank
<1>1. PICK half \in Nat, length \in Nat : half = Half /\ length = Len(actual)
  BY HalfTyped
<1>2. PICK b : b = Blanks(half) /\ b \in Seq({Blank}) /\ Len(b) = half /\ \A i \in 1 .. half : b[i] = Blank
  BY BlanksAre, Zenon
<1>3. b \in Seq(T \cup {Blank}) /\ actual \in Seq(T \cup {Blank})
  BY <1>2
<1>4. PICK padded : padded = (b \o actual) \o b
  OBVIOUS
<1>5. padded \in Seq(T \cup {Blank}) /\ Padded(padded, actual, half, length, Blank)
  BY <1>1, <1>2, <1>3, <1>4, PaddedIs, Zenon
<1>6. offset \in Nat /\ offset <= length /\ Len(padded) = half + length + half
  BY <1>1, <1>5 DEF Padded
<1>7. PICK m \in Nat : m = Min({offset + WINDOW, Len(padded)}) /\ m <= Len(padded)
  <2>1. offset + WINDOW \in Nat /\ Len(padded) \in Nat
    BY <1>6, WindowAssumption
  <2> QED
    BY <2>1, LessOf
<1>8. PICK u, n : u = SubSeq(padded, offset + 1, m) /\ n = IF offset <= m THEN m - offset ELSE 0
  OBVIOUS
<1>9. u \in Seq(T \cup {Blank}) /\ Excerpt(u, padded, offset, n)
  BY <1>5, <1>6, <1>7, <1>8, ExcerptIs, Zenon
<1>10. w = [shown |-> u, caret |-> half + 1]
  BY <1>1, <1>2, <1>4, <1>7, <1>8 DEF DifferenceAtPos
<1>11. w.shown = u /\ w.caret = half + 1 /\ DOMAIN u = 1 .. n
  BY <1>9, <1>10 DEF Excerpt
<1>12. ASSUME NEW i \in 1 .. n
       PROVE  u[i] = IF offset + i - (half + 1) \in 0 .. length - 1
                     THEN At(actual, offset + i - (half + 1)) ELSE Blank
  <2>1. PICK p : p = offset + i
    OBVIOUS
  <2>2. p \in 1 .. half + length + half /\ i \in Nat
    <3>1. n \in Nat
      BY <1>9 DEF Excerpt
    <3>2. offset <= m /\ n = m - offset
      BY <1>6, <1>7, <1>8, <3>1
    <3>3. i \in Nat /\ 1 <= i /\ i <= m - offset
      BY <1>12, <3>1, <3>2
    <3> QED
      BY <1>6, <1>7, <2>1, <3>3
  <2>3. u[i] = padded[p]
    BY <1>9, <2>1 DEF Excerpt
  <2>4. padded[p] = IF p \in half + 1 .. half + length THEN actual[p - half] ELSE Blank
    BY <1>5, <2>2 DEF Padded
  <2>5. p \in half + 1 .. half + length <=> offset + i - (half + 1) \in 0 .. length - 1
    BY <1>6, <2>1, <2>2
  <2>6. ASSUME offset + i - (half + 1) \in 0 .. length - 1
        PROVE  At(actual, offset + i - (half + 1)) = actual[p - half]
    <3>1. (offset + i - (half + 1)) + 1 = p - half /\ offset + i - (half + 1) < Len(actual)
      BY <1>1, <1>6, <2>1, <2>2, <2>6
    <3> QED
      BY <3>1 DEF At
  <2> QED
    BY <2>3, <2>4, <2>5, <2>6, Zenon
<1> QED
  BY <1>1, <1>11, <1>12, Zenon

DifferAt(s, t, f) ==
  /\ f \in 0 .. Len(s)
  /\ \A i \in 0 .. f - 1 : At(s, i) = At(t, i)
  /\ At(s, f) # At(t, f)

LEMMA FirstDifferenceIs ==
  ASSUME NEW T, NUL \notin T, NEW s \in Seq(T), NEW t \in Seq(T), s # t
  PROVE  DifferAt(s, t, FirstDifference(s, t))
<1> DEFINE halts == {i \in 0 .. Len(s) : At(s, i) # At(t, i) \/ At(s, i) = NUL}
<1>0. Len(s) \in Nat /\ Len(t) \in Nat
  OBVIOUS
<1>1. \A i \in Nat : (At(s, i) = NUL <=> i >= Len(s)) /\ (At(t, i) = NUL <=> i >= Len(t))
  BY EndsAtNul
<1>2. halts \in SUBSET Nat /\ Len(s) \in halts
  BY <1>0, <1>1
<1>3. PICK f : f = FirstDifference(s, t) /\ f = Min(halts)
  BY DEF FirstDifference
<1>4. f \in halts /\ \A i \in halts : f <= i
  BY <1>2, <1>3, Least
<1>5. f \in 0 .. Len(s) /\ f \in Nat /\ (At(s, f) # At(t, f) \/ At(s, f) = NUL)
  BY <1>0, <1>4
<1>6. ASSUME NEW i \in 0 .. f - 1 PROVE At(s, i) = At(t, i) /\ i < Len(s)
  <2>1. i \in 0 .. Len(s) /\ ~(f <= i) /\ i < Len(s)
    BY <1>0, <1>5
  <2>2. i \notin halts
    BY <1>4, <2>1
  <2> QED
    BY <2>1, <2>2
<1>7. ASSUME At(s, f) = At(t, f) PROVE FALSE
  <2>1. f = Len(s) /\ f >= Len(t)
    BY <1>0, <1>1, <1>5, <1>7
  <2>2. Len(t) = Len(s)
    <3>1. ASSUME Len(t) < Len(s) PROVE FALSE
      <4>1. Len(t) \in 0 .. f - 1
        BY <1>0, <2>1, <3>1
      <4>2. At(s, Len(t)) = At(t, Len(t)) /\ Len(t) < Len(s)
        BY <1>6, <4>1
      <4> QED
        BY <1>0, <1>1, <4>2
    <3> QED
      BY <1>0, <2>1, <3>1
  <2>3. ASSUME NEW i \in 1 .. Len(s) PROVE s[i] = t[i]
    <3>1. i - 1 \in 0 .. f - 1 /\ (i - 1) + 1 = i /\ i - 1 < Len(s)
      BY <1>0, <2>1
    <3>2. At(s, i - 1) = At(t, i - 1)
      BY <1>6, <3>1
    <3> QED
      BY <2>2, <3>1, <3>2 DEF At
  <2> QED
    BY <2>2, <2>3, SameText
<1>8. DifferAt(s, t, f)
  BY <1>5, <1>6, <1>7 DEF DifferAt
<1> QED
  BY <1>3, <1>8

(* What a message with a window says, and one without.                     *)
LEMMA MessageFields ==
  ASSUME NEW e, NEW a, NEW w
  PROVE  /\ Message(e, a).e = e /\ Message(e, a).a = a /\ Message(e, a).window = <<>>
         /\ WithWindow(e, a, w).e = e /\ WithWindow(e, a, w).a = a
         /\ WithWindow(e, a, w).window = w.shown /\ WithWindow(e, a, w).caret = w.caret
BY DEF Message, WithWindow

LEMMA WithoutWindow ==
  ASSUME NEW x, NEW e, NEW a, e # a \/ LooksTheSame(x)
  PROVE  ShowsDifference(x, Message(e, a))
<1>1. PICK m : m = Message(e, a)
  OBVIOUS
<1>2. m.e = e /\ m.a = a /\ m.window = <<>>
  BY <1>1, MessageFields
<1>3. ShowsDifference(x, m)
  BY <1>2 DEF ShowsDifference
<1> QED
  BY <1>1, <1>3

(* Like(x) is how the characters of x are compared, and Unit(x) how many    *)
(* of what is shown belong to one of them.                                 *)
AlikeIn(x, c, d) == IF x.kind = "nocase" THEN ToLower(c) = ToLower(d) ELSE c = d
PlaceIn(x, k) == IF x.kind = "memory" THEN k \div 3 ELSE k

LEMMA WithWindowShown ==
  ASSUME NEW x, NEW e, NEW T, NEW a \in Seq(T), NEW at \in 0 .. Len(a), NEW w,
         w = DifferenceAtPos(a, at), e # a \/ LooksTheSame(x),
         ~LooksTheSame(x) =>
           \E k \in 0 .. Len(a) :
             /\ \A i \in 0 .. k - 1 : AlikeIn(x, At(e, i), At(a, i))
             /\ ~AlikeIn(x, At(e, k), At(a, k))
             /\ PlaceIn(x, at) = PlaceIn(x, k)
  PROVE  ShowsDifference(x, WithWindow(e, a, w))
<1>1. PICK m : m = WithWindow(e, a, w)
  OBVIOUS
<1>2. m.e = e /\ m.a = a /\ m.window = w.shown /\ m.caret = w.caret
  BY <1>1, MessageFields
<1>3. \A i \in DOMAIN m.window :
        m.window[i] = IF at + i - m.caret \in 0 .. Len(m.a) - 1
                      THEN At(m.a, at + i - m.caret) ELSE Blank
  BY <1>2, WindowIs
<1>4. ASSUME ~LooksTheSame(x)
      PROVE  \E k \in 0 .. Len(m.a) :
               /\ \A i \in 0 .. k - 1 : AlikeIn(x, At(m.e, i), At(m.a, i))
               /\ ~AlikeIn(x, At(m.e, k), At(m.a, k))
               /\ PlaceIn(x, at) = PlaceIn(x, k)
  BY <1>2, <1>4
<1>5. m.e # m.a \/ LooksTheSame(x)
  BY <1>2
<1>6. at \in 0 .. Len(m.a)
  BY <1>2
<1>7. ShowsDifference(x, m)
  BY <1>3, <1>4, <1>5, <1>6, Zenon DEF ShowsDifference, AlikeIn, PlaceIn
<1> QED
  BY <1>1, <1>7

LEMMA TextMessageShows ==
  ASSUME NEW x, x.kind \in {"equal", "cstr", "cstrn"},
         {x.e, x.a} \subseteq Plaintext \cup {NullPointer}
  PROVE  ShowsDifference(x, TextMessage(x.e, x.a))
<1>0. PICK e, a : e = Shown(x.e) /\ a = Shown(x.a)
  OBVIOUS
<1>1. e # a \/ LooksTheSame(x)
  BY <1>0 DEF LooksTheSame
<1>2. CASE IsNull(x.e) \/ IsNull(x.a)
  <2>1. TextMessage(x.e, x.a) = Message(e, a)
    BY <1>0, <1>2 DEF TextMessage
  <2> QED
    BY <1>1, <2>1, WithoutWindow
<1>3. CASE ~(IsNull(x.e) \/ IsNull(x.a)) /\ e = a
  <2>0. LooksTheSame(x)
    BY <1>1, <1>3
  <2>1. PICK w : TextMessage(x.e, x.a) = WithWindow(e, a, w)
    BY <1>0, <1>3 DEF TextMessage
  <2>2. PICK m : m = WithWindow(e, a, w)
    OBVIOUS
  <2>3. ShowsDifference(x, m)
    BY <2>0 DEF ShowsDifference
  <2> QED
    BY <2>1, <2>2, <2>3
<1>4. CASE ~(IsNull(x.e) \/ IsNull(x.a)) /\ e # a
  <2>1. e \in Seq(ShownChars) /\ a \in Seq(ShownChars)
    BY <1>0, <1>4, PrintableTyped DEF Shown, IsNull
  <2>2. PICK f : f = FirstDifference(a, e)
    OBVIOUS
  <2>2a. DifferAt(a, e, f)
    BY <1>4, <2>1, <2>2, ShownHasNoNul, FirstDifferenceIs, Zenon
  <2>3. /\ f \in 0 .. Len(a)
        /\ \A i \in 0 .. f - 1 : At(a, i) = At(e, i)
        /\ At(a, f) # At(e, f)
    BY <2>2a DEF DifferAt
  <2>4. PICK w : w = DifferenceAtPos(a, f)
    OBVIOUS
  <2>5. TextMessage(x.e, x.a) = WithWindow(e, a, w)
    BY <1>0, <1>4, <2>2, <2>4 DEF TextMessage
  <2>6. /\ \A i \in 0 .. f - 1 : AlikeIn(x, At(e, i), At(a, i))
        /\ ~AlikeIn(x, At(e, f), At(a, f))
        /\ PlaceIn(x, f) = PlaceIn(x, f)
    BY <2>3 DEF AlikeIn
  <2>7. ShowsDifference(x, WithWindow(e, a, w))
    BY <1>1, <2>1, <2>3, <2>4, <2>6, WithWindowShown, Zenon
  <2> QED
    BY <2>5, <2>7
<1> QED
  BY <1>2, <1>3, <1>4

LEMMA LoweredTyped ==
  ASSUME NEW s \in Seq(ShownChars)
  PROVE  /\ Lowered(s) \in Seq({ToLower(c) : c \in ShownChars})
         /\ Len(Lowered(s)) = Len(s)
         /\ \A i \in Nat : At(Lowered(s), i) = ToLower(At(s, i))
<1>1. Len(s) \in Nat /\ DOMAIN s = 1 .. Len(s) /\ \A j \in 1 .. Len(s) : s[j] \in ShownChars
  OBVIOUS
<1>2. Lowered(s) = [j \in 1 .. Len(s) |-> ToLower(s[j])]
  BY <1>1 DEF Lowered
<1>3. Len(Lowered(s)) = Len(s) /\ \A j \in 1 .. Len(s) : Lowered(s)[j] = ToLower(s[j])
  BY <1>1, <1>2
<1>4. ASSUME NEW i \in Nat PROVE At(Lowered(s), i) = ToLower(At(s, i))
  <2>1. CASE i < Len(s)
    BY <1>1, <1>3, <2>1 DEF At
  <2>2. CASE ~(i < Len(s))
    BY <1>1, <1>3, <2>2, LowerOfNul DEF At
  <2> QED
    BY <2>1, <2>2
<1>5. Lowered(s) \in Seq({ToLower(c) : c \in ShownChars})
  BY <1>1, <1>2
<1> QED
  BY <1>3, <1>4, <1>5

LEMMA NoCaseMessageShows ==
  ASSUME NEW x, x.kind = "nocase",
         {x.e, x.a} \subseteq Plaintext \cup {NullPointer}
  PROVE  ShowsDifference(x, NoCaseMessage(x.e, x.a))
<1>0. PICK e, a : e = Shown(x.e) /\ a = Shown(x.a)
  OBVIOUS
<1>1. LooksTheSame(x) <=> Lowered(e) = Lowered(a)
  BY <1>0 DEF LooksTheSame
<1>2. e # a \/ LooksTheSame(x)
  BY <1>1
<1>3. CASE IsNull(x.e) \/ IsNull(x.a)
  <2>1. NoCaseMessage(x.e, x.a) = Message(e, a)
    BY <1>0, <1>3 DEF NoCaseMessage
  <2> QED
    BY <1>2, <2>1, WithoutWindow
<1>4. CASE ~(IsNull(x.e) \/ IsNull(x.a)) /\ LooksTheSame(x)
  <2>1. PICK w : NoCaseMessage(x.e, x.a) = WithWindow(e, a, w)
    BY <1>0, <1>4 DEF NoCaseMessage
  <2>2. PICK m : m = WithWindow(e, a, w)
    OBVIOUS
  <2>3. ShowsDifference(x, m)
    BY <1>4 DEF ShowsDifference
  <2> QED
    BY <2>1, <2>2, <2>3
<1>5. CASE ~(IsNull(x.e) \/ IsNull(x.a)) /\ ~LooksTheSame(x)
  <2>1. e \in Seq(ShownChars) /\ a \in Seq(ShownChars)
    BY <1>0, <1>5, PrintableTyped DEF Shown, IsNull
  <2>2. PICK T : T = {ToLower(c) : c \in ShownChars}
    OBVIOUS
  <2>3. NUL \notin T
    BY <2>2, LowerOfNul, ShownHasNoNul
  <2>4. PICK le \in Seq(T), la \in Seq(T) :
          /\ le = Lowered(e) /\ la = Lowered(a) /\ Len(la) = Len(a)
          /\ \A i \in Nat : At(le, i) = ToLower(At(e, i)) /\ At(la, i) = ToLower(At(a, i))
    BY <2>1, <2>2, LoweredTyped
  <2>5. PICK f : f = FirstDifference(la, le)
    OBVIOUS
  <2>6. la # le
    BY <1>1, <1>5, <2>4
  <2>6a. DifferAt(la, le, f)
    BY <2>3, <2>5, <2>6, FirstDifferenceIs, Zenon
  <2>7. /\ f \in 0 .. Len(la)
        /\ \A i \in 0 .. f - 1 : At(la, i) = At(le, i)
        /\ At(la, f) # At(le, f)
    BY <2>6a DEF DifferAt
  <2>8. f \in 0 .. Len(a) /\ f \in Nat /\ 0 .. f - 1 \subseteq Nat
    BY <2>1, <2>4, <2>7
  <2>9. PICK w : w = DifferenceAtPos(a, f)
    OBVIOUS
  <2>10. NoCaseMessage(x.e, x.a) = WithWindow(e, a, w)
    BY <1>0, <1>5, <2>4, <2>5, <2>9 DEF NoCaseMessage
  <2>11. /\ \A i \in 0 .. f - 1 : AlikeIn(x, At(e, i), At(a, i))
         /\ ~AlikeIn(x, At(e, f), At(a, f))
         /\ PlaceIn(x, f) = PlaceIn(x, f)
    BY <2>4, <2>7, <2>8 DEF AlikeIn
  <2>12. ShowsDifference(x, WithWindow(e, a, w))
    BY <1>2, <2>1, <2>8, <2>9, <2>11, WithWindowShown, Zenon
  <2> QED
    BY <2>10, <2>12
<1> QED
  BY <1>3, <1>4, <1>5

-------------------------------------------------------------------------------
(* Bytes                                                                   *)

LEMMA Greatest ==
  ASSUME NEW n \in Nat, NEW S \in SUBSET (0 .. n), S # {}
  PROVE  Max(S) \in S /\ \A s \in S : s <= Max(S)
<1>1. PICK D : D = {n - s : s \in S}
  OBVIOUS
<1>2. D \in SUBSET Nat /\ D # {}
  <2>1. ASSUME NEW s \in S PROVE n - s \in Nat
    <3>1. s \in 0 .. n
      OBVIOUS
    <3> QED
      BY <3>1
  <2> QED
    BY <1>1, <2>1
<1>3. PICK d \in D : \A c \in D : d <= c
  BY <1>2, Least
<1>4. PICK m \in S : d = n - m
  BY <1>1
<1>5. \A s \in S : m >= s
  <2>1. ASSUME NEW s \in S PROVE m >= s
    <3>1. d <= n - s
      BY <1>1, <1>3
    <3> QED
      BY <1>4, <3>1
  <2> QED
    BY <2>1
<1>6. Max(S) \in S /\ \A s \in S : Max(S) >= s
  BY <1>5 DEF Max
<1>7. PICK x \in S : x = Max(S) /\ \A s \in S : x >= s
  BY <1>6
<1>8. ASSUME NEW s \in S PROVE s <= x
  <2>1. s \in 0 .. n /\ x \in 0 .. n /\ x >= s
    BY <1>7
  <2> QED
    BY <2>1
<1> QED
  BY <1>7, <1>8

HexChars == Chars \cup {Blank}

(* u shows a byte by its digits and a blank; so it does the first k bytes. *)
ShowsByte(u, byte, i) == u[3 * i - 2] = byte[1] /\ u[3 * i - 1] = byte[2] /\ u[3 * i] = Blank
ShowsOne(u, byte) == Len(u) = 3 /\ u[1] = byte[1] /\ u[2] = byte[2] /\ u[3] = Blank
ShowsBytes(u, bytes, k) == Len(u) = 3 * k /\ \A i \in 1 .. k : ShowsByte(u, bytes[i], i)

LEMMA BlockIs ==
  ASSUME NEW byte \in Chars \X Chars
  PROVE  byte \o <<Blank>> \in Seq(HexChars) /\ ShowsOne(byte \o <<Blank>>, byte)
<1>1. PICK c \in Chars, d \in Chars : byte = <<c, d>> /\ byte[1] = c /\ byte[2] = d
  OBVIOUS
<1>2. c \in HexChars /\ d \in HexChars /\ Blank \in HexChars
  BY DEF HexChars
<1>3. PICK blank \in HexChars : blank = Blank
  BY <1>2
<1>4. byte \in Seq(HexChars) /\ Len(byte) = 2
  BY <1>1, <1>2
<1>5. PICK b : b = <<blank>>
  OBVIOUS
<1>5a. b \in Seq(HexChars) /\ Len(b) = 1 /\ b[1] = blank
  BY <1>5
<1>6. PICK u : u = byte \o b
  OBVIOUS
<1>7. 1 \in Nat /\ 2 \in Nat
  OBVIOUS
<1>8. u \in Seq(HexChars) /\ Joined(u, byte, b, 2, 1)
  BY <1>4, <1>5a, <1>6, <1>7, JoinedIs, Zenon
<1>9. Len(u) = 3 /\ u[1] = byte[1] /\ u[2] = byte[2] /\ u[3] = b[1]
  BY <1>8 DEF Joined
<1>10. ShowsOne(u, byte)
  BY <1>3, <1>5a, <1>9, Zenon DEF ShowsOne
<1> QED
  BY <1>3, <1>5, <1>6, <1>8, <1>10, Zenon

LEMMA OneMoreByte ==
  ASSUME NEW bytes, NEW k \in Nat, NEW u \in Seq(HexChars), ShowsBytes(u, bytes, k),
         NEW b \in Seq(HexChars), ShowsOne(b, bytes[k + 1])
  PROVE  u \o b \in Seq(HexChars) /\ ShowsBytes(u \o b, bytes, k + 1)
<1>1. Len(u) = 3 * k /\ \A i \in 1 .. k : ShowsByte(u, bytes[i], i)
  BY DEF ShowsBytes
<1>2. PICK byte : byte = bytes[k + 1]
  OBVIOUS
<1>4. Len(b) = 3 /\ b[1] = byte[1] /\ b[2] = byte[2] /\ b[3] = Blank
  BY <1>2, Zenon DEF ShowsOne
<1>5. PICK m \in Nat, n \in Nat : m = 3 * k /\ n = 3 /\ Len(u) = m /\ Len(b) = n
  BY <1>1, <1>4
<1>6. PICK v : v = u \o b
  OBVIOUS
<1>7. v \in Seq(HexChars) /\ Joined(v, u, b, m, n)
  BY <1>5, <1>6, JoinedIs, Zenon
<1>8. Len(v) = m + 3 /\ \A p \in 1 .. m + 3 : v[p] = IF p <= m THEN u[p] ELSE b[p - m]
  BY <1>5, <1>7 DEF Joined
<1>9. ASSUME NEW i \in 1 .. k PROVE ShowsByte(v, bytes[i], i)
  <2>1. PICK p \in 1 .. m : p = 3 * i - 2
    BY <1>5
  <2>2. PICK q \in 1 .. m : q = 3 * i - 1
    BY <1>5
  <2>3. PICK r \in 1 .. m : r = 3 * i
    BY <1>5
  <2>4. v[p] = u[p] /\ v[q] = u[q] /\ v[r] = u[r]
    BY <1>8
  <2>5. ShowsByte(u, bytes[i], i)
    BY <1>1
  <2>6. u[p] = bytes[i][1] /\ u[q] = bytes[i][2] /\ u[r] = Blank
    BY <2>1, <2>2, <2>3, <2>5, Zenon DEF ShowsByte
  <2> QED
    BY <2>1, <2>2, <2>3, <2>4, <2>6, Zenon DEF ShowsByte
<1>10. ShowsByte(v, byte, k + 1)
  <2>1. PICK p, q, r : p = 3 * (k + 1) - 2 /\ q = 3 * (k + 1) - 1 /\ r = 3 * (k + 1)
    OBVIOUS
  <2>2. /\ p \in 1 .. m + 3 /\ ~(p <= m) /\ p - m = 1
        /\ q \in 1 .. m + 3 /\ ~(q <= m) /\ q - m = 2
        /\ r \in 1 .. m + 3 /\ ~(r <= m) /\ r - m = 3
    BY <1>5, <2>1
  <2>3. v[p] = b[1] /\ v[q] = b[2] /\ v[r] = b[3]
    BY <1>8, <2>2
  <2> QED
    BY <1>4, <2>1, <2>3, Zenon DEF ShowsByte
<1>11. ASSUME NEW i \in 1 .. k + 1 PROVE ShowsByte(v, bytes[i], i)
  <2>1. i \in 1 .. k \/ i = k + 1
    OBVIOUS
  <2> QED
    BY <1>2, <1>9, <1>10, <2>1
<1>12. Len(v) = 3 * (k + 1)
  BY <1>5, <1>8
<1>13. ShowsBytes(v, bytes, k + 1)
  BY <1>11, <1>12, Zenon DEF ShowsBytes
<1> QED
  BY <1>6, <1>7, <1>13

LEMMA BytesShown ==
  ASSUME NEW bytes \in Seq(Chars \X Chars)
  PROVE  \E u : /\ u = FlattenSeq([i \in DOMAIN bytes |-> bytes[i] \o <<Blank>>])
                /\ u \in Seq(HexChars) /\ ShowsBytes(u, bytes, Len(bytes))
<1>1. PICK n \in Nat : n = Len(bytes) /\ DOMAIN bytes = 1 .. n
  OBVIOUS
<1>2. PICK blocks : blocks = [i \in DOMAIN bytes |-> bytes[i] \o <<Blank>>]
  OBVIOUS
<1>3. \A i \in 1 .. n : bytes[i] \in Chars \X Chars /\ blocks[i] = bytes[i] \o <<Blank>>
  BY <1>1, <1>2
<1>4. ASSUME NEW i \in 1 .. n
      PROVE  blocks[i] \in Seq(HexChars) /\ ShowsOne(blocks[i], bytes[i])
  <2>1. PICK byte \in Chars \X Chars : byte = bytes[i] /\ blocks[i] = byte \o <<Blank>>
    BY <1>3
  <2> QED
    BY <2>1, BlockIs, Zenon
<1>5. blocks \in Seq(Seq(HexChars)) /\ Len(blocks) = n
  <2>1. blocks \in [1 .. n -> Seq(HexChars)]
    BY <1>1, <1>2, <1>4
  <2> QED
    BY <2>1
<1>6. PICK h : Concatenation(blocks, n, h, HexChars) /\ FlattenSeq(blocks) = h[n]
  BY <1>5, FlattenIs
<1> DEFINE I == [k \in 0 .. n |-> {u \in Seq(HexChars) : ShowsBytes(u, bytes, k)}]
<1>7. Keeps(h, n, I)
  <2>1. h[0] = <<>> /\ h \in [0 .. n -> Seq(HexChars)]
    BY <1>6 DEF Concatenation
  <2>2. ShowsBytes(<<>>, bytes, 0)
    BY DEF ShowsBytes
  <2>3. h[0] \in I[0]
    BY <2>1, <2>2
  <2>4. ASSUME NEW k \in 1 .. n, h[k - 1] \in I[k - 1] PROVE h[k] \in I[k]
    <3>1. k - 1 \in Nat /\ k - 1 \in 0 .. n /\ (k - 1) + 1 = k /\ k \in 0 .. n
      OBVIOUS
    <3>2. PICK j \in Nat : j = k - 1 /\ j + 1 = k
      BY <3>1
    <3>3. PICK u \in Seq(HexChars) : u = h[j] /\ ShowsBytes(u, bytes, j)
      BY <2>4, <3>1, <3>2
    <3>4. PICK b \in Seq(HexChars) : b = blocks[k] /\ ShowsOne(b, bytes[k])
      BY <1>4
    <3>5. h[k] = u \o b
      BY <1>6, <3>2, <3>3, <3>4 DEF Concatenation
    <3>6. u \o b \in Seq(HexChars) /\ ShowsBytes(u \o b, bytes, j + 1)
      BY <3>2, <3>3, <3>4, OneMoreByte, Zenon
    <3> QED
      BY <3>1, <3>2, <3>5, <3>6
  <2> HIDE DEF I
  <2> QED
    BY <2>3, <2>4 DEF Keeps
<1>8. h[n] \in I[n]
  <2>1. n \in 0 .. n
    OBVIOUS
  <2> HIDE DEF I
  <2> QED
    BY <1>7, <2>1, KeptAlong
<1>9. n \in 0 .. n
  OBVIOUS
<1> QED
  BY <1>1, <1>2, <1>6, <1>8, <1>9

(* The digits of byte i, counted from 0, stand from three times i on.      *)
HexOf(f, bytes, n) ==
  /\ Len(f) = 3 * n - 1
  /\ \A i \in 0 .. n - 1 :
       /\ At(f, 3 * i) = bytes[i + 1][1] /\ At(f, 3 * i + 1) = bytes[i + 1][2]
       /\ At(f, 3 * i + 2) = IF i = n - 1 THEN NUL ELSE Blank

LEMMA FromBinaryIs ==
  ASSUME NEW bytes \in Seq(Chars \X Chars), NEW n \in Nat, n = Len(bytes), n > 0
  PROVE  FromBinary(bytes) \in Seq(HexChars) /\ HexOf(FromBinary(bytes), bytes, n)
<1>1. PICK u : /\ u = FlattenSeq([i \in DOMAIN bytes |-> bytes[i] \o <<Blank>>])
               /\ u \in Seq(HexChars) /\ ShowsBytes(u, bytes, n)
  BY BytesShown, Zenon
<1>2. Len(u) = 3 * n /\ \A i \in 1 .. n : ShowsByte(u, bytes[i], i)
  BY <1>1 DEF ShowsBytes
<1>3. PICK m \in Nat : m = 3 * n - 1 /\ m + 1 = Len(u)
  <2>1. 3 * n \in Nat /\ 3 * n > 0
    OBVIOUS
  <2>2. 3 * n - 1 \in Nat /\ (3 * n - 1) + 1 = 3 * n
    BY <2>1
  <2> QED
    BY <1>2, <2>2, Zenon
<1>4. u # <<>>
  BY <1>2
<1>5. FromBinary(bytes) = SubSeq(u, 1, m)
  <2>1. Len(u) - 1 = m
    BY <1>3
  <2>2. FromBinary(bytes) = Front(u)
    BY <1>1, <1>4 DEF FromBinary
  <2> QED
    BY <2>1, <2>2 DEF Front
<1>6. PICK zero \in Nat : zero = 0
  OBVIOUS
<1>6a. PICK f : f = SubSeq(u, zero + 1, m)
  OBVIOUS
<1>7. f \in Seq(HexChars) /\ Excerpt(f, u, zero, m)
  <2>1. m <= Len(u) /\ m = IF zero <= m THEN m - zero ELSE 0
    BY <1>3, <1>6
  <2> QED
    BY <1>1, <1>6a, <2>1, ExcerptIs, Zenon
<1>8. Len(f) = m /\ \A j \in 1 .. m : f[j] = u[j]
  BY <1>6, <1>7 DEF Excerpt
<1>9. ASSUME NEW i \in 0 .. n - 1
      PROVE  /\ At(f, 3 * i) = bytes[i + 1][1] /\ At(f, 3 * i + 1) = bytes[i + 1][2]
             /\ At(f, 3 * i + 2) = IF i = n - 1 THEN NUL ELSE Blank
  <2>1. i + 1 \in 1 .. n
    OBVIOUS
  <2>2. ShowsByte(u, bytes[i + 1], i + 1)
    BY <1>2, <2>1
  <2>3. /\ 3 * (i + 1) - 2 = 3 * i + 1 /\ 3 * (i + 1) - 1 = (3 * i + 1) + 1
        /\ 3 * (i + 1) = (3 * i + 2) + 1
    OBVIOUS
  <2>4. /\ u[3 * i + 1] = bytes[i + 1][1] /\ u[(3 * i + 1) + 1] = bytes[i + 1][2]
        /\ u[(3 * i + 2) + 1] = Blank
    BY <2>2, <2>3 DEF ShowsByte
  <2>5. /\ 3 * i < m /\ 3 * i + 1 < m /\ 3 * i + 1 \in 1 .. m /\ (3 * i + 1) + 1 \in 1 .. m
        /\ i = n - 1 <=> ~(3 * i + 2 < m)
        /\ 3 * i + 2 < m => (3 * i + 2) + 1 \in 1 .. m
    BY <1>3
  <2>6. At(f, 3 * i) = u[3 * i + 1] /\ At(f, 3 * i + 1) = u[(3 * i + 1) + 1]
    BY <1>8, <2>5 DEF At
  <2>7. At(f, 3 * i + 2) = IF i = n - 1 THEN NUL ELSE u[(3 * i + 2) + 1]
    BY <1>8, <2>5 DEF At
  <2> QED
    BY <2>4, <2>6, <2>7
<1>10. HexOf(f, bytes, n)
  BY <1>3, <1>8, <1>9, Zenon DEF HexOf
<1>11. f = FromBinary(bytes)
  BY <1>5, <1>6, <1>6a
<1> QED
  BY <1>7, <1>10, <1>11

LEMMA Thirds ==
  ASSUME NEW k \in Nat
  PROVE  \E q \in Nat, r \in {0, 1, 2} : k = 3 * q + r
<1>1. PICK m \in Nat \ {0} : m = 3
  OBVIOUS
<1>1a. k \in Int
  OBVIOUS
<1>2. PICK q \in Int, r \in 0 .. m - 1 : k = m * q + r /\ k % m = r
  BY <1>1a, Division, Zenon
<1>3. k = 3 * q + r /\ r \in {0, 1, 2} /\ q \in Nat
  BY <1>1, <1>2
<1> QED
  BY <1>3

(* Where the bytes differ first, so do the digits: the first or the second *)
(* of that byte.                                                           *)
FirstByteAt(b, c, n, m) == m \in 0 .. n - 1 /\ (\A i \in 1 .. m : b[i] = c[i]) /\ b[m + 1] # c[m + 1]

DigitsDifferAt(f, g, m) ==
  \E k \in {3 * m, 3 * m + 1} :
    /\ \A i \in 0 .. k - 1 : At(f, i) = At(g, i)
    /\ At(f, k) # At(g, k)

LEMMA DigitsDiffer ==
  ASSUME NEW n \in Nat, NEW b \in Seq(Chars \X Chars), NEW c \in Seq(Chars \X Chars),
         Len(b) = n, Len(c) = n, NEW f, NEW g, HexOf(f, b, n), HexOf(g, c, n),
         NEW m \in Nat, FirstByteAt(b, c, n, m)
  PROVE  DigitsDifferAt(f, g, m)
<1>1. m \in 0 .. n - 1 /\ \A i \in 1 .. m : b[i] = c[i]
  BY DEF FirstByteAt
<1>2. b[m + 1] # c[m + 1] /\ b[m + 1] \in Chars \X Chars /\ c[m + 1] \in Chars \X Chars
  BY <1>1 DEF FirstByteAt
<1>3. b[m + 1][1] # c[m + 1][1] \/ b[m + 1][2] # c[m + 1][2]
  <2>1. ASSUME NEW x \in Chars \X Chars, NEW y \in Chars \X Chars, x # y
        PROVE  x[1] # y[1] \/ x[2] # y[2]
    <3>1. PICK p, q : x = <<p, q>> /\ x[1] = p /\ x[2] = q
      OBVIOUS
    <3>2. PICK r, s : y = <<r, s>> /\ y[1] = r /\ y[2] = s
      OBVIOUS
    <3> QED
      BY <2>1, <3>1, <3>2, Zenon
  <2> QED
    BY <1>2, <2>1, Zenon
<1>4. /\ At(f, 3 * m) = b[m + 1][1] /\ At(f, 3 * m + 1) = b[m + 1][2]
      /\ At(g, 3 * m) = c[m + 1][1] /\ At(g, 3 * m + 1) = c[m + 1][2]
  BY <1>1 DEF HexOf
<1>5. ASSUME NEW i \in 0 .. 3 * m - 1 PROVE At(f, i) = At(g, i)
  <2>0. i \in Nat
    OBVIOUS
  <2>1. PICK q \in Nat, r \in {0, 1, 2} : i = 3 * q + r
    BY <2>0, Thirds
  <2>2. q \in 0 .. m - 1
    BY <2>1
  <2>3. q \in 0 .. n - 1 /\ q + 1 \in 1 .. m
    BY <1>1, <2>2
  <2>4. b[q + 1] = c[q + 1]
    BY <1>1, <2>3
  <2>5. /\ At(f, 3 * q) = b[q + 1][1] /\ At(f, 3 * q + 1) = b[q + 1][2]
        /\ At(f, 3 * q + 2) = IF q = n - 1 THEN NUL ELSE Blank
    BY <2>3 DEF HexOf
  <2>6. /\ At(g, 3 * q) = c[q + 1][1] /\ At(g, 3 * q + 1) = c[q + 1][2]
        /\ At(g, 3 * q + 2) = IF q = n - 1 THEN NUL ELSE Blank
    BY <2>3 DEF HexOf
  <2>7. i = 3 * q \/ i = 3 * q + 1 \/ i = 3 * q + 2
    BY <2>1
  <2> QED
    BY <2>4, <2>5, <2>6, <2>7, Zenon
<1>6. CASE At(f, 3 * m) # At(g, 3 * m)
  <2>1. PICK k : k = 3 * m
    OBVIOUS
  <2> QED
    BY <1>5, <1>6, <2>1 DEF DigitsDifferAt
<1>7. CASE At(f, 3 * m) = At(g, 3 * m)
  <2>1. PICK k : k = 3 * m + 1
    OBVIOUS
  <2>2. At(f, k) # At(g, k)
    BY <1>3, <1>4, <1>7, <2>1, Zenon
  <2>3. ASSUME NEW i \in 0 .. k - 1 PROVE At(f, i) = At(g, i)
    <3>1. i \in 0 .. 3 * m - 1 \/ i = 3 * m
      BY <2>1
    <3> QED
      BY <1>5, <1>7, <3>1
  <2> QED
    BY <2>1, <2>2, <2>3 DEF DigitsDifferAt
<1> QED
  BY <1>6, <1>7

(* The first n bytes of b, in digits.                                      *)
LEMMA HexShown ==
  ASSUME NEW b \in Seq(Chars \X Chars), NEW n \in Nat, n > 0, n <= Len(b)
  PROVE  \E s \in Seq(Chars \X Chars) :
           /\ s = First(b, n) /\ Len(s) = n /\ \A i \in 1 .. n : s[i] = b[i]
           /\ FromBinary(s) \in Seq(HexChars) /\ HexOf(FromBinary(s), s, n)
<1>1. PICK s \in Seq(Chars \X Chars) :
        s = First(b, n) /\ Len(s) = n /\ \A i \in 1 .. n : s[i] = b[i]
  BY FirstIs
<1>2. n = Len(s)
  BY <1>1
<1>3. FromBinary(s) \in Seq(HexChars) /\ HexOf(FromBinary(s), s, n)
  BY <1>2, FromBinaryIs, Zenon
<1> QED
  BY <1>1, <1>3

LEMMA SameIsFirstByte ==
  ASSUME NEW n \in Nat, NEW a \in Seq(Chars \X Chars), NEW e \in Seq(Chars \X Chars),
         n <= Len(a), n <= Len(e), First(a, n) # First(e, n)
  PROVE  \E m \in Nat : /\ m = Max({i \in 0 .. n : First(a, i) = First(e, i)})
                        /\ FirstByteAt(a, e, n, m)
<1>1. PICK same \in SUBSET (0 .. n) : same = {i \in 0 .. n : First(a, i) = First(e, i)}
  OBVIOUS
<1>2. \A i \in 0 .. n : First(a, i) = First(e, i) <=> \A j \in 1 .. i : a[j] = e[j]
  <2>1. ASSUME NEW i \in 0 .. n
        PROVE  First(a, i) = First(e, i) <=> \A j \in 1 .. i : a[j] = e[j]
    <3>1. i \in Nat /\ i <= Len(a) /\ i <= Len(e)
      OBVIOUS
    <3> QED
      BY <3>1, BytesEqual
  <2> QED
    BY <2>1
<1>3. 0 \in 0 .. n /\ n \in 0 .. n
  OBVIOUS
<1>4. 0 \in same /\ n \notin same
  <2>1. \A j \in 1 .. 0 : a[j] = e[j]
    OBVIOUS
  <2> QED
    BY <1>1, <1>2, <1>3, <2>1
<1>5. PICK m \in same : m = Max(same) /\ \A s \in same : s <= m
  BY <1>4, Greatest
<1>6. m \in 0 .. n /\ m # n /\ \A j \in 1 .. m : a[j] = e[j]
  BY <1>1, <1>2, <1>4, <1>5
<1>7. m \in 0 .. n - 1 /\ m \in Nat /\ m + 1 \in 0 .. n /\ ~(m + 1 <= m)
  BY <1>6
<1>8. m + 1 \notin same
  BY <1>5, <1>7
<1>9. ~ \A j \in 1 .. m + 1 : a[j] = e[j]
  BY <1>1, <1>2, <1>7, <1>8
<1>10. a[m + 1] # e[m + 1]
  <2>1. ASSUME NEW j \in 1 .. m + 1 PROVE j \in 1 .. m \/ j = m + 1
    BY <1>7
  <2> QED
    BY <1>6, <1>9, <2>1
<1>11. FirstByteAt(a, e, n, m)
  BY <1>6, <1>7, <1>10 DEF FirstByteAt
<1> QED
  BY <1>1, <1>5, <1>7, <1>11

(* The caret is under the second digit of the first byte that differs.     *)
LEMMA MemoryMessageShows ==
  ASSUME NEW x, x.kind = "memory", WellFormed(x), ~Meaning(x)
  PROVE  ShowsDifference(x, MemoryMessage(x.e, x.a, x.n))
<1>0. PICK e, a, n : e = x.e /\ a = x.a /\ n = x.n
  OBVIOUS
<1>1. n \in Nat /\ \A b \in {e, a} \ {NullPointer} : b \in Seq(Chars \X Chars) /\ n <= Len(b)
  BY <1>0 DEF WellFormed
<1>2. n # 0 /\ ~NullsOr(e, a, \A i \in 1 .. n : e[i] = a[i])
  BY <1>0 DEF Meaning
<1>3. n > 0
  BY <1>1, <1>2
<1> DEFINE Hex(b) == IF IsNull(b) THEN <<"(null)">> ELSE FromBinary(First(b, n))
           same == {i \in 0 .. n : First(a, i) = First(e, i)}
<1>4. /\ (IsNull(e) \/ IsNull(a)) => MemoryMessage(x.e, x.a, x.n) = Message(Hex(e), Hex(a))
      /\ ~(IsNull(e) \/ IsNull(a)) =>
           MemoryMessage(x.e, x.a, x.n) =
             WithWindow(Hex(e), Hex(a), DifferenceAtPos(Hex(a), 3 * Max(same) + 1))
  BY <1>0 DEF MemoryMessage
<1>5. ASSUME NEW b \in {e, a}, ~IsNull(b)
      PROVE  Hex(b) \in Seq(HexChars) /\ Len(Hex(b)) = 3 * n - 1
  <2>1. b \in Seq(Chars \X Chars) /\ n <= Len(b)
    BY <1>1, <1>5 DEF IsNull
  <2>2. PICK s : s = First(b, n) /\ FromBinary(s) \in Seq(HexChars) /\ HexOf(FromBinary(s), s, n)
    BY <1>1, <1>3, <2>1, HexShown
  <2>3. Hex(b) = FromBinary(s)
    BY <1>5, <2>2
  <2> QED
    BY <2>2, <2>3 DEF HexOf
<1>6. CASE IsNull(e) \/ IsNull(a)
  <2>1. ~(IsNull(e) <=> IsNull(a))
    BY <1>2, <1>6 DEF NullsOr
  <2>2. \A b \in {e, a} : IsNull(b) => Len(Hex(b)) = 1
    BY Zenon, <1>6
  <2>3. 3 * n - 1 # 1
    BY <1>1, <1>3
  <2> HIDE DEF Hex
  <2>4. Hex(e) # Hex(a)
    BY <1>5, <2>1, <2>2, <2>3
  <2> QED
    BY <1>4, <1>6, <2>4, WithoutWindow
<1>7. CASE ~(IsNull(e) \/ IsNull(a))
  <2>1. /\ e \in Seq(Chars \X Chars) /\ a \in Seq(Chars \X Chars)
        /\ n <= Len(e) /\ n <= Len(a)
    BY <1>1, <1>7 DEF IsNull
  <2>2. First(a, n) # First(e, n)
    BY <1>1, <1>2, <1>7, <2>1, BytesEqual DEF NullsOr
  <2>3. PICK m \in Nat : m = Max(same) /\ FirstByteAt(a, e, n, m)
    BY <1>1, <2>1, <2>2, SameIsFirstByte
  <2>4. PICK s \in Seq(Chars \X Chars) :
          /\ s = First(e, n) /\ Len(s) = n /\ \A i \in 1 .. n : s[i] = e[i]
          /\ FromBinary(s) \in Seq(HexChars) /\ HexOf(FromBinary(s), s, n)
    BY <1>1, <1>3, <2>1, HexShown
  <2>5. PICK t \in Seq(Chars \X Chars) :
          /\ t = First(a, n) /\ Len(t) = n /\ \A i \in 1 .. n : t[i] = a[i]
          /\ FromBinary(t) \in Seq(HexChars) /\ HexOf(FromBinary(t), t, n)
    BY <1>1, <1>3, <2>1, HexShown
  <2>6. PICK f \in Seq(HexChars) : f = FromBinary(t) /\ HexOf(f, t, n) /\ f = Hex(a)
    BY <1>7, <2>5
  <2>7. PICK g \in Seq(HexChars) : g = FromBinary(s) /\ HexOf(g, s, n) /\ g = Hex(e)
    BY <1>7, <2>4
  <2>8. m \in 0 .. n - 1 /\ m + 1 \in 1 .. n /\ \A i \in 1 .. m : i \in 1 .. n
    <3>1. m \in 0 .. n - 1
      BY <2>3 DEF FirstByteAt
    <3> QED
      BY <1>1, <3>1
  <2>9. FirstByteAt(t, s, n, m)
    BY <2>3, <2>4, <2>5, <2>8 DEF FirstByteAt
  <2>10. PICK k \in {3 * m, 3 * m + 1} :
           /\ \A i \in 0 .. k - 1 : At(f, i) = At(g, i)
           /\ At(f, k) # At(g, k)
    <3>1. DigitsDifferAt(f, g, m)
      BY <1>1, <2>3, <2>4, <2>5, <2>6, <2>7, <2>9, DigitsDiffer, Zenon
    <3> QED
      BY <3>1 DEF DigitsDifferAt
  <2>11. PICK at : at = 3 * m + 1
    OBVIOUS
  <2>12. Len(f) = 3 * n - 1
    BY <2>6 DEF HexOf
  <2>13. at \in 0 .. Len(f) /\ k \in 0 .. Len(f)
    BY <1>1, <2>8, <2>11, <2>12
  <2>14. PlaceIn(x, at) = PlaceIn(x, k)
    <3>1. (3 * m) \div 3 = m /\ (3 * m + 1) \div 3 = m
      OBVIOUS
    <3> QED
      BY <2>11, <3>1 DEF PlaceIn
  <2>15. /\ \A i \in 0 .. k - 1 : AlikeIn(x, At(g, i), At(f, i))
         /\ ~AlikeIn(x, At(g, k), At(f, k))
    BY <2>10 DEF AlikeIn
  <2>16. g # f
    BY <2>10
  <2>17. PICK w : w = DifferenceAtPos(f, at)
    OBVIOUS
  <2>18. ShowsDifference(x, WithWindow(g, f, w))
    BY <2>13, <2>14, <2>15, <2>16, <2>17, WithWindowShown, Zenon
  <2>19. MemoryMessage(x.e, x.a, x.n) = WithWindow(g, f, w)
    <3> HIDE DEF Hex, same
    <3> QED
      BY <1>4, <1>7, <2>3, <2>6, <2>7, <2>11, <2>17
  <2> QED
    BY <2>18, <2>19
<1> QED
  BY <1>6, <1>7

(* Numbers and bits are shown as they are compared: no window.             *)
LEMMA NumbersShow ==
  ASSUME NEW x, x.kind = "integers", WellFormed(x), ~Meaning(x)
  PROVE  ShowsDifference(x, Message(<<Kept(x.n, x.e)>>, <<Kept(x.n, x.a)>>))
<1>1. x.e \in Int /\ x.a \in Int
  BY DEF WellFormed
<1>2. (x.e - x.a) % Modulus(x.n) # 0
  BY DEF Meaning
<1>3. PICK k, m : k = Kept(x.n, x.e) /\ m = Kept(x.n, x.a) /\ k # m
  BY <1>1, <1>2, KeptEqual
<1>4. PICK e, a : e = <<k>> /\ a = <<m>>
  OBVIOUS
<1>5. e # a
  BY <1>3, <1>4
<1>6. ShowsDifference(x, Message(e, a))
  BY <1>5, WithoutWindow
<1> QED
  BY <1>3, <1>4, <1>6

LEMMA BitsShow ==
  ASSUME NEW x, x.kind = "bits"
  PROVE  ShowsDifference(x, Message(FromMaskedBits(x.e, x.n, CHAR_BITS),
                                    FromMaskedBits(x.a, x.n, CHAR_BITS)))
<1>1. PICK e, a : e = FromMaskedBits(x.e, x.n, CHAR_BITS) /\ a = FromMaskedBits(x.a, x.n, CHAR_BITS)
  OBVIOUS
<1>2. ASSUME ~LooksTheSame(x) PROVE e # a
  <2>1. PICK b \in x.n \cap (0 .. CHAR_BITS - 1) : ~(b \in x.e <=> b \in x.a)
    BY <1>2 DEF LooksTheSame
  <2>2. PICK k \in 1 .. CHAR_BITS : k = CHAR_BITS - b /\ CHAR_BITS - k = b
    BY ByteAssumption
  <2>3. /\ e[k] = IF b \notin x.n THEN "x" ELSE IF b \in x.e THEN "1" ELSE "0"
        /\ a[k] = IF b \notin x.n THEN "x" ELSE IF b \in x.a THEN "1" ELSE "0"
    BY <1>1, <2>2 DEF FromMaskedBits
  <2>4. e[k] # a[k]
    BY <2>1, <2>3
  <2> QED
    BY <2>4
<1>3. ShowsDifference(x, Message(e, a))
  BY <1>2, WithoutWindow
<1> QED
  BY <1>1, <1>3

LEMMA FailureShows ==
  ASSUME NEW x, WellFormed(x), ~Meaning(x), x.kind \notin PlainKinds,
         x.kind \in LibraryKinds \cup {"compare", "print"}
  PROVE  ShowsDifference(x, FailureMessage(x))
<1>1. CASE x.kind \in {"equal", "cstr", "cstrn"}
  <2>1. {x.e, x.a} \subseteq Plaintext \cup {NullPointer}
    BY <1>1 DEF WellFormed, TextKinds, Plaintext
  <2> QED
    BY <1>1, <2>1, TextMessageShows DEF FailureMessage
<1>2. CASE x.kind = "nocase"
  <2>1. {x.e, x.a} \subseteq Plaintext \cup {NullPointer}
    BY <1>2 DEF WellFormed, TextKinds, Plaintext
  <2> QED
    BY <1>2, <2>1, NoCaseMessageShows DEF FailureMessage
<1>3. CASE x.kind = "memory"
  BY <1>3, MemoryMessageShows DEF FailureMessage
<1>4. CASE x.kind = "bits"
  BY <1>4, BitsShow DEF FailureMessage
<1>5. CASE x.kind = "integers"
  BY <1>5, NumbersShow DEF FailureMessage
<1> QED
  BY <1>1, <1>2, <1>3, <1>4, <1>5 DEF PlainKinds, LibraryKinds, InlineKinds, TextKinds

-------------------------------------------------------------------------------
(* What is asserted                                                        *)

LEMMA LastChanges ==
  ASSUME [BodyNext]_bodyVars
  PROVE  \/ last' = last
         \/ last'.route \notin {"macro", "library"}
         \/ \E x \in Assertable : Macro(x) \/ Library(x)
<1> DEFINE Goal == \/ last' = last
                   \/ last'.route \notin {"macro", "library"}
                   \/ \E x \in Assertable : Macro(x) \/ Library(x)
<1>1. ASSUME UNCHANGED bodyVars PROVE last' = last
  BY <1>1 DEF bodyVars, assertions
<1>2. ASSUME last' = NotYet \/ last' = [route |-> "fail"]
      PROVE  last'.route \notin {"macro", "library"}
  BY <1>2 DEF NotYet
<1>3. ASSUME NEW x \in Assertable, Macro(x) \/ Library(x) \/ OperandLeaves(x) PROVE Goal
  BY <1>2, <1>3 DEF OperandLeaves
<1>4. ASSUME Fail \/ Throws \/ TestExit PROVE Goal
  BY <1>2, <1>4 DEF Fail, Throws, TestExit
<1>5. ASSUME Mocking({"read", "cursor"}) \/ Mocking({"data"}) \/ Mocking({"read", "cursor", "data"})
      PROVE  last' = last
  BY <1>5 DEF Mocking
<1>6. ASSUME NEW n \in Scopes, MockC(n) \/ Clear(n) \/ GetDataC(n) PROVE last' = last
  BY <1>5, <1>6 DEF MockC, Clear, GetDataC, Clearing, Calling, Storing
<1>7. ASSUME NEW n \in Scopes, NEW r, ActualCall(n, r) PROVE last' = last
  BY <1>5, <1>7 DEF ActualCall, Calling
<1>8. ASSUME NEW n \in Scopes, NEW want, ReadCall(n, want) \/ ReadScope(n, want) \/ GetData(n, want)
      PROVE  last' = last
  BY <1>5, <1>8 DEF ReadCall, ReadScope, GetData, Calling, Storing
<1>9. ASSUME NEW n \in Scopes, NEW x, SetData(n, x) PROVE last' = last
  BY <1>5, <1>9 DEF SetData, Storing
<1>10. ASSUME NEW r, ActualCallC(r) PROVE last' = last
  BY <1>5, <1>10 DEF ActualCallC, Calling
<1>11. ASSUME UnexpectedCallC \/ ReadFreed \/ ClearC PROVE last' = last
  BY <1>5, <1>11 DEF UnexpectedCallC, ReadFreed, ClearC, Clearing, Calling
<1>12. ASSUME NEW want, ReadC(want) PROVE last' = last
  BY <1>5, <1>12 DEF ReadC, Calling
<1>13. ASSUME NEW x, WithExpected(x) \/ WithActual(x) PROVE last' = last
  BY <1>13 DEF WithExpected, WithActual, Matching, assertions
<1>14. ASSUME Texting PROVE last' = last
  BY <1>14 DEF Texting, assertions
<1>15. ASSUME Construct \/ Change PROVE last' = last
  BY <1>14, <1>15 DEF Construct, Change, HasText
<1>16. ASSUME NEW t, NEW u, ReplaceText(t, u) \/ SplitAt(t) \/ Ask(t) PROVE last' = last
  BY <1>14, <1>16 DEF ReplaceText, SplitAt, Ask, HasText
<1>17. ASSUME Return \/ BodyOver PROVE last' = last
  BY <1>1, <1>17 DEF Return, BodyOver, assertions
<1> HIDE DEF Goal
<1>18. ASSUME last' = last PROVE Goal
  BY <1>18 DEF Goal
<1>19. Goal
  BY <1>1, <1>3, <1>4, <1>6, <1>7, <1>8, <1>9, <1>10, <1>11, <1>12, <1>13, <1>15, <1>16, <1>17, <1>18,
     Zenon DEF BodyNext
<1> QED
  BY <1>19 DEF Goal

(* An assertion passes exactly when what it says of its operands is true,  *)
(* by the inline code of core.h and by the library of assert.c alike.      *)
THEOREM AssertionsMeanWhatTheySay ==
  BodySpec => []AssertsRightly
<1>1. BodyInit => AssertsRightly
  BY DEF BodyInit, NotYet, AssertsRightly, HasCompared
<1>2. AssertsRightly /\ [BodyNext]_bodyVars => AssertsRightly'
  <2> SUFFICES ASSUME AssertsRightly, [BodyNext]_bodyVars PROVE AssertsRightly'
    OBVIOUS
  <2>1. ASSUME last' = last PROVE AssertsRightly'
    BY <2>1 DEF AssertsRightly, HasCompared
  <2>2. ASSUME last'.route \notin {"macro", "library"} PROVE AssertsRightly'
    BY <2>2 DEF AssertsRightly, HasCompared
  <2>3. ASSUME NEW x \in Assertable, Macro(x) \/ Library(x) PROVE AssertsRightly'
    <3>1. last'.x = x /\ (last'.passes <=> Meaning(x))
      BY <2>3, AssertionMade
    <3>2. last'.passes <=> Meaning(last'.x)
      BY <3>1
    <3> QED
      BY <3>2 DEF AssertsRightly
  <2> QED
    BY <2>1, <2>2, <2>3, LastChanges
<1> QED
  BY <1>1, <1>2, PTL DEF BodySpec

(* The message of a failed comparison shows two different values, with the *)
(* caret under the first character that differs.                           *)
THEOREM FailuresAreVisible ==
  BodySpec => []MessageShowsDifference
<1>1. BodyInit => MessageShowsDifference
  BY DEF BodyInit, NotYet, MessageShowsDifference, HasCompared
<1>2. MessageShowsDifference /\ [BodyNext]_bodyVars => MessageShowsDifference'
  <2> SUFFICES ASSUME MessageShowsDifference, [BodyNext]_bodyVars PROVE MessageShowsDifference'
    OBVIOUS
  <2>1. ASSUME last' = last PROVE MessageShowsDifference'
    BY <2>1 DEF MessageShowsDifference, HasCompared
  <2>2. ASSUME last'.route \notin {"macro", "library"} PROVE MessageShowsDifference'
    BY <2>2 DEF MessageShowsDifference, HasCompared
  <2>3. ASSUME NEW x \in Assertable, Macro(x) \/ Library(x) PROVE MessageShowsDifference'
    <3>1. /\ last'.x = x /\ (last'.passes <=> Meaning(x))
          /\ ~last'.passes => last'.message = FailureMessage(x)
      BY <2>3, AssertionMade
    <3>2. WellFormed(x)
      BY BodyAssumption
    <3>3. x.kind \in LibraryKinds \cup {"compare", "print"}
      BY <2>3 DEF Macro, Library, LibraryKinds
    <3>4. ASSUME ~last'.passes, x.kind \notin PlainKinds PROVE ShowsDifference(x, FailureMessage(x))
      BY <3>1, <3>2, <3>3, <3>4, FailureShows
    <3>5. PICK y, m, p : y = last'.x /\ m = last'.message /\ p = last'.passes
      OBVIOUS
    <3>6. ASSUME ~p, y.kind \notin PlainKinds PROVE ShowsDifference(y, m)
      BY <3>1, <3>4, <3>5, <3>6
    <3> QED
      BY <3>5, <3>6 DEF MessageShowsDifference
  <2> QED
    BY <2>1, <2>2, <2>3, LastChanges
<1> QED
  BY <1>1, <1>2, PTL DEF BodySpec

-------------------------------------------------------------------------------
(* Strings                                                                 *)

(* A text ends before its first NUL.                                       *)
LEMMA CStringIs ==
  ASSUME NEW T, NEW s \in Seq(T)
  PROVE  /\ CString(s) \in Seq(T \ {NUL})
         /\ CString(s) = s <=> s \in Seq(T \ {NUL})
<1> DEFINE halts == {i \in 0 .. Len(s) : At(s, i) = NUL}
<1>0. Len(s) \in Nat
  OBVIOUS
<1>1. halts \in SUBSET Nat /\ Len(s) \in halts
  BY <1>0 DEF At
<1>2. PICK m \in halts : m = Min(halts) /\ \A i \in halts : m <= i
  BY <1>1, Least
<1>3. CString(s) = SubSeq(s, 1, m)
  BY <1>2 DEF CString
<1>4. m \in 0 .. Len(s) /\ (At(s, m) = NUL) /\ m \in Nat
  BY <1>0, <1>2
<1>5. \A i \in 1 .. m : s[i] \in T \ {NUL}
  <2>1. ASSUME NEW i \in 1 .. m PROVE s[i] \in T \ {NUL}
    <3>1. i - 1 \in 0 .. Len(s) /\ ~(m <= i - 1) /\ i - 1 < Len(s) /\ (i - 1) + 1 = i /\ i \in 1 .. Len(s)
      BY <1>0, <1>4
    <3>2. i - 1 \notin halts
      BY <1>2, <3>1
    <3>3. At(s, i - 1) = s[i] /\ At(s, i - 1) # NUL
      BY <3>1, <3>2 DEF At
    <3> QED
      BY <3>1, <3>3
  <2> QED
    BY <2>1
<1> HIDE DEF halts
<1>6. CString(s) \in Seq(T \ {NUL}) /\ Len(CString(s)) = m
  BY <1>0, <1>3, <1>4, <1>5
<1>7. ASSUME CString(s) # s PROVE m < Len(s)
  <2>1. CASE m = Len(s)
    BY <1>3, <1>7, <2>1
  <2> QED
    BY <1>0, <1>4, <2>1
<1>8. ASSUME m < Len(s) PROVE s \notin Seq(T \ {NUL})
  <2>1. s[m + 1] = NUL /\ m + 1 \in 1 .. Len(s)
    BY <1>0, <1>4, <1>8 DEF At
  <2> QED
    BY <2>1
<1> QED
  BY <1>6, <1>7, <1>8

LEMMA PlainIsItself ==
  ASSUME NEW T, NUL \notin T, NEW s \in Seq(T)
  PROVE  CString(s) = s
<1>1. T \ {NUL} = T
  OBVIOUS
<1> QED
  BY <1>1, CStringIs

(* Where a text stands in another, without NUL in either.                  *)
LEMMA OccurrencesAre ==
  ASSUME NEW T, NUL \notin T, NEW s \in Seq(T), NEW t \in Seq(T)
  PROVE  /\ Occurrences(s, t) = {i \in 0 .. Len(s) - 1 : StandsAt(s, t, i)}
         /\ IsFiniteSet(Occurrences(s, t)) /\ Cardinality(Occurrences(s, t)) \in Nat
<1>1. CString(s) = s /\ CString(t) = t
  BY PlainIsItself
<1>2. Len(s) \in Nat
  OBVIOUS
<1>3. Occurrences(s, t) = {i \in 0 .. Len(s) - 1 : StandsAt(s, t, i)}
  BY <1>1, <1>2 DEF Occurrences, Places
<1>4. IsFiniteSet(0 .. Len(s) - 1)
  BY <1>2, FS_Interval
<1>5. PICK places : places = Occurrences(s, t) /\ places \in SUBSET (0 .. Len(s) - 1)
  BY <1>3
<1> QED
  BY <1>3, <1>4, <1>5, FS_Subset, FS_CardinalityType

LEMMA EndsWithMeans ==
  ASSUME NEW T, NUL \notin T, NEW s \in Seq(T), NEW t \in Seq(T)
  PROVE  EndsWith(s, t) <=> Len(s) >= Len(t) /\ StandsAt(s, t, Len(s) - Len(t))
<1>1. Len(s) \in Nat /\ Len(t) \in Nat /\ CString(t) = t
  BY PlainIsItself
<1>2. ASSUME Len(s) >= Len(t)
      PROVE  CString(SubSeq(s, Len(s) - Len(t) + 1, Len(s))) = CString(t)
               <=> StandsAt(s, t, Len(s) - Len(t))
  <2>1. PICK i \in Nat : i = Len(s) - Len(t) /\ i + Len(t) = Len(s)
    BY <1>1, <1>2
  <2>2. PICK u : u = SubSeq(s, i + 1, Len(s))
    OBVIOUS
  <2>3. u \in Seq(T)
    <3>1. \A j \in i + 1 .. Len(s) : s[j] \in T
      BY <1>1
    <3> QED
      BY <1>1, <2>2, <3>1, SubSeqProperties
  <2>4. CString(u) = u
    BY <2>3, PlainIsItself
  <2>5. StandsAt(s, t, i) <=> u = t
    BY <1>1, <2>1, <2>2 DEF StandsAt
  <2> QED
    BY <1>1, <2>1, <2>2, <2>4, <2>5
<1> QED
  BY <1>2 DEF EndsWith

LEMMA StartsWithMeans ==
  ASSUME NEW T, NUL \notin T, NEW s \in Seq(T), NEW t \in Seq(T), StartsWith(s, t)
  PROVE  StandsAt(s, t, 0)
<1>1. Len(s) \in Nat /\ Len(t) \in Nat /\ CString(t) = t
  BY PlainIsItself
<1>2. PICK m \in Nat : m = Min({Len(s), Len(t)}) /\ m <= Len(s) /\ m <= Len(t)
  BY <1>1, LessOf
<1>3. PICK u : u = SubSeq(s, 1, m) /\ u = First(s, Len(t))
  <2>1. {Len(s), Len(t)} = {Len(t), Len(s)}
    OBVIOUS
  <2>2. First(s, Len(t)) = SubSeq(s, 1, m)
    BY <1>2, <2>1 DEF First
  <2> QED
    BY <2>2
<1>4. u \in Seq(T) /\ Len(u) = m
  <2>1. PICK n \in Nat : n = Len(t)
    BY <1>1
  <2>2. u = First(s, n)
    BY <1>3, <2>1
  <2>3. u \in Seq(T) /\ Len(u) = IF n <= Len(s) THEN n ELSE Len(s)
    BY <2>2, FirstIs
  <2>4. m = IF Len(s) <= n THEN Len(s) ELSE n
    BY <1>1, <1>2, <2>1, LessOf
  <2> QED
    BY <1>1, <2>3, <2>4
<1>5. CString(u) = u
  BY <1>4, PlainIsItself
<1>6. u = t
  BY <1>1, <1>2, <1>3, <1>5 DEF StartsWith
<1>7. Len(t) = m /\ 0 + Len(t) = m /\ 0 + 1 = 1
  BY <1>2, <1>4, <1>6
<1> QED
  BY <1>2, <1>3, <1>6, <1>7 DEF StandsAt

(* What a string answers about a text.                                     *)
LEMMA AnswersFit ==
  ASSUME NEW T, NUL \notin T, NEW s \in Seq(T), NEW t \in Seq(T)
  PROVE  /\ StartsWith(s, t) \/ EndsWith(s, t) => TextContains(s, t)
         /\ t # <<>> => (TextContains(s, t) <=> Cardinality(Occurrences(s, t)) > 0)
<1>1. Len(s) \in Nat /\ Len(t) \in Nat /\ CString(s) = s /\ CString(t) = t
  BY PlainIsItself
<1>2. TextContains(s, t) <=> \E i \in 0 .. Len(s) : StandsAt(s, t, i)
  BY <1>1 DEF TextContains, Places
<1>3. ASSUME StartsWith(s, t) PROVE TextContains(s, t)
  <2>1. StandsAt(s, t, 0) /\ 0 \in 0 .. Len(s)
    BY <1>1, <1>3, StartsWithMeans
  <2> QED
    BY <1>2, <2>1
<1>4. ASSUME EndsWith(s, t) PROVE TextContains(s, t)
  <2>1. Len(s) >= Len(t) /\ StandsAt(s, t, Len(s) - Len(t))
    BY <1>4, EndsWithMeans
  <2>2. Len(s) - Len(t) \in 0 .. Len(s)
    BY <1>1, <2>1
  <2> QED
    BY <1>2, <2>1, <2>2
<1>5. ASSUME t # <<>> PROVE TextContains(s, t) <=> Cardinality(Occurrences(s, t)) > 0
  <2>1. Len(t) > 0
    BY <1>1, <1>5
  <2>2. ASSUME NEW i \in 0 .. Len(s), StandsAt(s, t, i) PROVE i \in 0 .. Len(s) - 1
    <3>1. i + Len(t) <= Len(s)
      BY <2>2 DEF StandsAt
    <3> QED
      BY <1>1, <2>1, <3>1
  <2>3. PICK places : places = Occurrences(s, t)
    OBVIOUS
  <2>4. places = {i \in 0 .. Len(s) - 1 : StandsAt(s, t, i)}
        /\ IsFiniteSet(places) /\ Cardinality(places) \in Nat
    BY <2>3, OccurrencesAre
  <2>5. TextContains(s, t) <=> places # {}
    BY <1>1, <1>2, <2>2, <2>4
  <2>6. places # {} <=> Cardinality(places) # 0
    BY <2>4, FS_EmptySet
  <2> QED
    BY <2>3, <2>4, <2>5, <2>6
<1> QED
  BY <1>3, <1>4, <1>5

-------------------------------------------------------------------------------
(* Splitting                                                               *)

Ending(places, num, ends) ==
  ends = [i \in 0 .. num |-> IF i = 0 THEN -1 ELSE Min({p \in places : p > ends[i - 1]})]

(* The first i of the places, up to p.                                     *)
UpTo(places, p) == {q \in places : q <= p}
Counts(places, p, i) == p \in places \cup {-1} /\ Cardinality(UpTo(places, p)) = i

(* While there are places left, the least of them is the next.             *)
LEMMA NextPlace ==
  ASSUME NEW places \in SUBSET Nat, IsFiniteSet(places), NEW num \in Nat, num = Cardinality(places),
         NEW i \in 1 .. num, NEW p, Counts(places, p, i - 1),
         NEW q, q = Min({r \in places : r > p})
  PROVE  q \in places /\ q > p /\ Counts(places, q, i)
<1>1. p \in Int /\ UpTo(places, p) \in SUBSET places
  BY DEF Counts, UpTo
<1>2. IsFiniteSet(UpTo(places, p)) /\ Cardinality(UpTo(places, p)) = i - 1
  BY <1>1, FS_Subset DEF Counts
<1>3. UpTo(places, p) # places
  BY <1>2
<1>4. PICK above \in SUBSET Nat : above = {r \in places : r > p}
  OBVIOUS
<1>5. above # {}
  <2>1. PICK r \in places : r \notin UpTo(places, p)
    BY <1>1, <1>3
  <2>2. r > p
    BY <1>1, <2>1 DEF UpTo
  <2> QED
    BY <1>4, <2>2
<1>6. q \in above /\ \A r \in above : q <= r
  BY <1>4, <1>5, Least
<1>7. UpTo(places, q) = UpTo(places, p) \cup {q}
  <2>1. q \in places /\ q > p /\ q \in Nat
    BY <1>4, <1>6
  <2>2. ASSUME NEW r \in places PROVE r <= q <=> r <= p \/ r = q
    <3>1. r > p => q <= r
      BY <1>4, <1>6
    <3> QED
      BY <1>1, <2>1, <3>1
  <2> QED
    BY <2>1, <2>2 DEF UpTo
<1>8. q \notin UpTo(places, p)
  BY <1>1, <1>4, <1>6 DEF UpTo
<1>9. Cardinality(UpTo(places, q)) = i
  <2>1. PICK U : U = UpTo(places, p) /\ UpTo(places, q) = U \cup {q}
    BY <1>7
  <2>2. IsFiniteSet(U) /\ Cardinality(U) = i - 1 /\ q \notin U
    BY <1>2, <1>8, <2>1
  <2>3. Cardinality(U \cup {q}) = Cardinality(U) + 1
    BY <2>2, FS_AddElement
  <2>4. (i - 1) + 1 = i
    OBVIOUS
  <2> QED
    BY <2>1, <2>2, <2>3, <2>4
<1> QED
  BY <1>4, <1>6, <1>9 DEF Counts

LEMMA NoneBefore ==
  ASSUME NEW places \in SUBSET Nat
  PROVE  Counts(places, -1, 0)
<1>1. UpTo(places, -1) = {}
  <2>1. ASSUME NEW p \in places PROVE ~(p <= -1)
    <3>1. p \in Nat
      OBVIOUS
    <3> QED
      BY <3>1
  <2> QED
    BY <2>1 DEF UpTo
<1> QED
  BY <1>1, FS_EmptySet DEF Counts

LEMMA EndingExists ==
  ASSUME NEW places \in SUBSET Nat, IsFiniteSet(places), NEW num \in Nat, num = Cardinality(places)
  PROVE  \E ends : Ending(places, num, ends)
<1> DEFINE S == places \cup {-1}
           above(p) == {r \in places : r > p}
           g == [k \in 1 .. num |-> [p \in S |-> IF above(p) = {} THEN -1 ELSE Min(above(p))]]
<1>1. g \in Steps(num, S) /\ -1 \in S
  <2>1. ASSUME NEW p \in S, above(p) # {} PROVE Min(above(p)) \in S
    <3>1. above(p) \in SUBSET Nat
      OBVIOUS
    <3> HIDE DEF above
    <3>2. Min(above(p)) \in above(p)
      BY <2>1, <3>1, Least
    <3> QED
      BY <3>2 DEF above
  <2> HIDE DEF above
  <2> QED
    BY <2>1 DEF Steps
<1>2. PICK b : b = -1 /\ b \in S
  BY <1>1
<1>3. PICK h : Recursion(h, num, S, b, g)
  <2> HIDE DEF S, g
  <2> QED
    BY <1>1, <1>2, RecursionExists
<1>4. h \in [0 .. num -> S] /\ h[0] = -1 /\ \A k \in 1 .. num : h[k] = g[k][h[k - 1]]
  BY <1>2, <1>3 DEF Recursion
<1>5. ASSUME NEW k \in 1 .. num
      PROVE  h[k] = IF above(h[k - 1]) = {} THEN -1 ELSE Min(above(h[k - 1]))
  <2>1. k - 1 \in 0 .. num
    OBVIOUS
  <2>2. h[k - 1] \in S
    BY <1>4, <2>1
  <2> QED
    BY <1>4, <2>2
<1> DEFINE I == [k \in 0 .. num |-> {p \in S : Counts(places, p, k)}]
<1>6. ASSUME NEW k \in 1 .. num, h[k - 1] \in I[k - 1]
      PROVE  h[k] \in I[k] /\ h[k] = Min(above(h[k - 1]))
  <2>1. k - 1 \in 0 .. num /\ k \in 0 .. num
    OBVIOUS
  <2>2. PICK p \in S : p = h[k - 1] /\ Counts(places, p, k - 1)
    BY <1>6, <2>1
  <2>3. PICK q : q = Min(above(p))
    OBVIOUS
  <2>4. q \in places /\ q > p /\ Counts(places, q, k)
    BY <2>2, <2>3, NextPlace
  <2>5. above(p) # {}
    BY <2>4
  <2> HIDE DEF above
  <2>6. h[k] = q
    BY <1>5, <2>2, <2>3, <2>5
  <2> QED
    BY <2>1, <2>2, <2>3, <2>4, <2>6
<1>7. Keeps(h, num, I)
  <2>1. 0 \in 0 .. num
    OBVIOUS
  <2>2. h[0] \in I[0]
    BY <1>1, <1>4, <2>1, NoneBefore
  <2> HIDE DEF I, above
  <2> QED
    BY <1>6, <2>2 DEF Keeps
<1>8. \A k \in 0 .. num : h[k] \in I[k]
  <2> HIDE DEF I
  <2> QED
    BY <1>7, KeptAlong
<1>9. ASSUME NEW k \in 1 .. num PROVE h[k] = Min(above(h[k - 1]))
  <2>1. k - 1 \in 0 .. num
    OBVIOUS
  <2> HIDE DEF I, above
  <2> QED
    BY <1>6, <1>8, <2>1
<1>10. h = [k \in 0 .. num |-> IF k = 0 THEN -1 ELSE Min(above(h[k - 1]))]
  <2>1. ASSUME NEW k \in 0 .. num
        PROVE  h[k] = IF k = 0 THEN -1 ELSE Min(above(h[k - 1]))
    <3>1. k = 0 \/ k \in 1 .. num
      OBVIOUS
    <3> HIDE DEF above
    <3> QED
      BY <1>4, <1>9, <3>1
  <2> HIDE DEF above
  <2> QED
    BY <1>4, <2>1
<1>11. Ending(places, num, h)
  BY <1>10 DEF Ending
<1> QED
  BY <1>11

(* They go up through all of the places.                                   *)
EndsAre(places, num, ends) ==
  /\ ends[0] = -1
  /\ \A i \in 0 .. num : ends[i] \in places \cup {-1}
  /\ \A i \in 1 .. num : ends[i] \in places /\ ends[i - 1] < ends[i]
  /\ \A p \in places : p <= ends[num]

LEMMA EndingIs ==
  ASSUME NEW places \in SUBSET Nat, IsFiniteSet(places), NEW num \in Nat, num = Cardinality(places),
         NEW ends, Ending(places, num, ends)
  PROVE  EndsAre(places, num, ends)
<1> DEFINE I == [k \in 0 .. num |-> {p \in places \cup {-1} : Counts(places, p, k)}]
<1>0. 0 \in 0 .. num /\ num \in 0 .. num /\ \A k \in 1 .. num : k \in 0 .. num /\ k # 0 /\ k - 1 \in 0 .. num
  OBVIOUS
<1>1. ends[0] = -1 /\ \A k \in 1 .. num : ends[k] = Min({p \in places : p > ends[k - 1]})
  BY <1>0 DEF Ending
<1>2. ASSUME NEW k \in 1 .. num, ends[k - 1] \in I[k - 1]
      PROVE  ends[k] \in I[k] /\ ends[k - 1] < ends[k] /\ ends[k] \in places
  <2>1. PICK p \in places \cup {-1} : p = ends[k - 1] /\ Counts(places, p, k - 1)
    BY <1>0, <1>2
  <2>2. PICK q : q = Min({r \in places : r > p}) /\ q = ends[k]
    BY <1>1, <2>1
  <2>3. q \in places /\ q > p /\ Counts(places, q, k)
    BY <2>1, <2>2, NextPlace
  <2> QED
    BY <1>0, <2>1, <2>2, <2>3
<1>3. Keeps(ends, num, I)
  <2>1. ends[0] \in I[0]
    BY <1>0, <1>1, NoneBefore
  <2> HIDE DEF I
  <2> QED
    BY <1>2, <2>1 DEF Keeps
<1>4. \A k \in 0 .. num : ends[k] \in I[k]
  <2> HIDE DEF I
  <2> QED
    BY <1>3, KeptAlong
<1>5. \A p \in places : p <= ends[num]
  <2>1. PICK last_end : last_end = ends[num] /\ Counts(places, last_end, num)
    BY <1>0, <1>4
  <2>2. UpTo(places, last_end) \in SUBSET places
    BY DEF UpTo
  <2>3. UpTo(places, last_end) = places
    BY <2>1, <2>2, FS_Subset DEF Counts
  <2> QED
    BY <2>1, <2>3 DEF UpTo
<1>6. \A k \in 0 .. num : ends[k] \in places \cup {-1}
  BY <1>4
<1>7. \A k \in 1 .. num : ends[k] \in places /\ ends[k - 1] < ends[k]
  <2> HIDE DEF I
  <2> QED
    BY <1>0, <1>2, <1>4
<1> QED
  BY <1>1, <1>5, <1>6, <1>7, Zenon DEF EndsAre

(* A text is the first i characters and those behind them.                 *)
LEMMA Extended ==
  ASSUME NEW T, NEW s \in Seq(T), NEW i \in Nat, NEW k \in Nat, i <= k, k <= Len(s)
  PROVE  SubSeq(s, 1, i) \o SubSeq(s, i + 1, k) = SubSeq(s, 1, k)
<1>1. PICK zero \in Nat : zero = 0 /\ zero + 1 = 1
  OBVIOUS
<1>2. PICK u, v, w : u = SubSeq(s, zero + 1, i) /\ v = SubSeq(s, i + 1, k) /\ w = SubSeq(s, zero + 1, k)
  OBVIOUS
<1>3. PICK n \in Nat : n = k - i /\ i + n = k
  OBVIOUS
<1>4. i <= Len(s) /\ Len(s) \in Nat
  OBVIOUS
<1>5. u \in Seq(T) /\ Excerpt(u, s, zero, i)
  <2>1. i = IF zero <= i THEN i - zero ELSE 0
    BY <1>1
  <2> QED
    BY <1>2, <1>4, <2>1, ExcerptIs, Zenon
<1>6. v \in Seq(T) /\ Excerpt(v, s, i, n)
  <2>1. n = IF i <= k THEN k - i ELSE 0
    BY <1>3
  <2> QED
    BY <1>2, <2>1, ExcerptIs, Zenon
<1>7. w \in Seq(T) /\ Excerpt(w, s, zero, k)
  <2>1. k = IF zero <= k THEN k - zero ELSE 0
    BY <1>1
  <2> QED
    BY <1>2, <2>1, ExcerptIs, Zenon
<1>8. Len(u) = i /\ Len(v) = n
  BY <1>5, <1>6 DEF Excerpt
<1>9. PICK uv : uv = u \o v
  OBVIOUS
<1>10. uv \in Seq(T) /\ Joined(uv, u, v, i, n)
  BY <1>5, <1>6, <1>8, <1>9, JoinedIs, Zenon
<1>11. Len(uv) = k /\ Len(w) = k
  BY <1>3, <1>7, <1>10 DEF Joined, Excerpt
<1>12. ASSUME NEW j \in 1 .. k PROVE uv[j] = w[j]
  <2>1. w[j] = s[j]
    BY <1>1, <1>7 DEF Excerpt
  <2>2. uv[j] = IF j <= i THEN u[j] ELSE v[j - i]
    BY <1>3, <1>10 DEF Joined
  <2>3. CASE j <= i
    BY <1>1, <1>5, <2>1, <2>2, <2>3 DEF Excerpt
  <2>4. CASE ~(j <= i)
    <3>1. j - i \in 1 .. n /\ i + (j - i) = j
      BY <1>3, <2>4
    <3>2. v[j - i] = s[j]
      BY <1>6, <3>1 DEF Excerpt
    <3> QED
      BY <2>1, <2>2, <2>4, <3>2
  <2> QED
    BY <2>3, <2>4
<1>13. uv = w
  BY <1>7, <1>10, <1>11, <1>12, SameText
<1> QED
  BY <1>1, <1>2, <1>9, <1>13

(* Where the last delimiter stands of a string that ends with one.         *)
LEMMA LastDelimiter ==
  ASSUME NEW T, NUL \notin T, NEW s \in Seq(T), NEW t \in Seq(T), EndsWith(s, t),
         NEW places, places = Occurrences(s, t), NEW num, NEW ends, EndsAre(places, num, ends),
         num \in Nat, num = 0 <=> places = {}
  PROVE  ends[num] + 1 = Len(s) - IF Len(t) > 0 THEN Len(t) - 1 ELSE 0
<1>1. Len(s) \in Nat /\ Len(t) \in Nat
  OBVIOUS
<1>2. Len(t) <= Len(s) /\ StandsAt(s, t, Len(s) - Len(t))
  BY EndsWithMeans
<1>3. places = {i \in 0 .. Len(s) - 1 : StandsAt(s, t, i)}
  BY OccurrencesAre
<1>4. /\ ends[num] \in places \cup {-1} /\ \A p \in places : p <= ends[num]
      /\ places = {} => ends[num] = -1
      /\ places # {} => ends[num] \in places
  <2>1. num \in 0 .. num /\ (num # 0 => num \in 1 .. num)
    OBVIOUS
  <2> QED
    BY <2>1 DEF EndsAre
<1>5. PICK top : top = ends[num]
  OBVIOUS
<1>6. CASE Len(t) > 0
  <2>1. PICK i \in 0 .. Len(s) - 1 : i = Len(s) - Len(t)
    BY <1>1, <1>2, <1>6
  <2>2. i \in places
    BY <1>2, <1>3, <2>1
  <2>3. top \in places /\ i <= top /\ top \in 0 .. Len(s) - 1
    BY <1>3, <1>4, <1>5, <2>2
  <2>4. top + Len(t) <= Len(s)
    BY <1>3, <2>3 DEF StandsAt
  <2>5. top = i
    BY <1>1, <2>1, <2>3, <2>4
  <2> QED
    BY <1>1, <1>5, <1>6, <2>1, <2>5
<1>7. CASE Len(t) = 0
  <2>1. ASSUME NEW i \in 0 .. Len(s) - 1 PROVE i \in places
    <3>1. i \in Nat /\ i + 0 <= Len(s) /\ 1 .. Len(t) = {}
      BY <1>1, <1>7
    <3>2. StandsAt(s, t, i)
      BY <1>7, <3>1, StandsAtMeans
    <3> QED
      BY <1>3, <3>2
  <2>2. CASE Len(s) = 0
    <3>1. places = {}
      BY <1>3, <2>2
    <3> QED
      BY <1>4, <1>7, <2>2, <3>1
  <2>3. CASE Len(s) > 0
    <3>1. Len(s) - 1 \in 0 .. Len(s) - 1
      BY <1>1, <2>3
    <3>2. Len(s) - 1 \in places /\ Len(s) - 1 <= top /\ top \in places
      BY <1>4, <1>5, <2>1, <3>1
    <3>3. top \in 0 .. Len(s) - 1
      BY <1>3, <3>2
    <3>4. top = Len(s) - 1
      BY <1>1, <3>2, <3>3
    <3> QED
      BY <1>1, <1>5, <1>7, <3>4
  <2> QED
    BY <1>1, <2>2, <2>3
<1> QED
  BY <1>1, <1>6, <1>7

(* The tokens, put together again.                                         *)
TokensAre(tokens, s, num, ends) == \A i \in 1 .. num : tokens[i] = SubSeq(s, ends[i - 1] + 2, ends[i] + 1)

Joining(T, s, places, num, ends, tokens, n, h) ==
  /\ s \in Seq(T) /\ places \in SUBSET (0 .. Len(s) - 1)
  /\ num \in Nat /\ n \in Nat /\ num <= n
  /\ EndsAre(places, num, ends) /\ TokensAre(tokens, s, num, ends) /\ Concatenation(tokens, n, h, T)

JoinedUpTo(h, s, num, ends) == h[num] = SubSeq(s, 1, ends[num] + 1)

LEMMA TokensJoin ==
  ASSUME NEW T, NEW s, NEW places, NEW num, NEW ends, NEW tokens, NEW n, NEW h,
         Joining(T, s, places, num, ends, tokens, n, h)
  PROVE  JoinedUpTo(h, s, num, ends)
<1>a. /\ s \in Seq(T) /\ places \in SUBSET (0 .. Len(s) - 1)
      /\ num \in Nat /\ n \in Nat /\ num <= n
      /\ EndsAre(places, num, ends) /\ TokensAre(tokens, s, num, ends) /\ Concatenation(tokens, n, h, T)
  BY DEF Joining
<1> USE <1>a
<1>0. Len(s) \in Nat /\ 0 \in 0 .. num /\ num \in 0 .. num
  OBVIOUS
<1>1. ASSUME NEW k \in 0 .. num PROVE ends[k] \in -1 .. Len(s) - 1
  <2>1. ends[k] \in places \cup {-1}
    BY DEF EndsAre
  <2>2. PICK p : p = ends[k]
    OBVIOUS
  <2>3. p \in 0 .. Len(s) - 1 \/ p = -1
    BY <2>1, <2>2
  <2>4. p \in -1 .. Len(s) - 1
    BY <1>0, <2>3
  <2> QED
    BY <2>2, <2>4
<1>1a. \A k \in 0 .. num : ends[k] + 1 \in 0 .. Len(s) /\ ends[k] \in Int
  BY <1>0, <1>1
<1> DEFINE I == [k \in 0 .. num |-> {SubSeq(s, 1, ends[k] + 1)}]
<1>2. h[0] \in I[0]
  <2>1. h[0] = <<>> /\ ends[0] + 1 = 0
    BY DEF Concatenation, EndsAre
  <2> QED
    BY <1>0, <2>1
<1>3. ASSUME NEW k \in 1 .. num, h[k - 1] \in I[k - 1] PROVE h[k] \in I[k]
  <2>1. k - 1 \in 0 .. num /\ k \in 0 .. num /\ k \in 1 .. n
    OBVIOUS
  <2>2a. PICK i \in 0 .. Len(s) : i = ends[k - 1] + 1
    BY <1>1a, <2>1
  <2>2b. PICK j \in 0 .. Len(s) : j = ends[k] + 1
    BY <1>1a, <2>1
  <2>2. i \in Nat /\ j \in Nat /\ i = ends[k - 1] + 1 /\ j = ends[k] + 1 /\ j <= Len(s)
    BY <1>0, <2>2a, <2>2b
  <2>3. ends[k - 1] < ends[k] /\ ends[k - 1] \in Int /\ ends[k] \in Int
    BY <1>1a, <2>1 DEF EndsAre
  <2>4. i <= j /\ ends[k - 1] + 2 = i + 1
    BY <2>2, <2>3
  <2>5. h[k - 1] = SubSeq(s, 1, i)
    BY <1>3, <2>1, <2>2
  <2>6. h[k] = h[k - 1] \o tokens[k]
    BY <2>1 DEF Concatenation
  <2>7. tokens[k] = SubSeq(s, i + 1, j)
    BY <2>2, <2>4 DEF TokensAre
  <2>8. h[k] = SubSeq(s, 1, j)
    BY <2>2, <2>4, <2>5, <2>6, <2>7, Extended, ZenonT(30)
  <2> QED
    BY <2>1, <2>2, <2>8
<1>4. Keeps(h, num, I)
  <2> HIDE DEF I
  <2> QED
    BY <1>2, <1>3 DEF Keeps
<1>5. \A k \in 0 .. num : h[k] \in I[k]
  <2> HIDE DEF I
  <2> QED
    BY <1>4, KeptAlong
<1> QED
  BY <1>0, <1>5 DEF JoinedUpTo

LEMMA SplitTokens ==
  ASSUME NEW T, NUL \notin T, NEW s \in Seq(T), NEW t \in Seq(T)
  PROVE  FlattenSeq(Split(s, t)) =
           SubSeq(s, 1, Len(s) - IF EndsWith(s, t) /\ Len(t) > 0 THEN Len(t) - 1 ELSE 0)
<1>1. PICK places : /\ places = Occurrences(s, t) /\ places \in SUBSET (0 .. Len(s) - 1)
                    /\ IsFiniteSet(places)
  <2>1. PICK places : places = Occurrences(s, t)
    OBVIOUS
  <2>2. places = {i \in 0 .. Len(s) - 1 : StandsAt(s, t, i)} /\ IsFiniteSet(places)
    BY <2>1, OccurrencesAre
  <2> QED
    BY <2>1, <2>2
<1>2. PICK num \in Nat : num = Cardinality(places)
  BY <1>1, FS_CardinalityType
<1>3. Len(s) \in Nat /\ 0 .. Len(s) - 1 \subseteq Nat
  OBVIOUS
<1>4. places \in SUBSET Nat
  BY <1>1, <1>3
<1>5. PICK ends : Ending(places, num, ends) /\ ends = CHOOSE f : Ending(places, num, f)
  BY <1>1, <1>2, <1>4, EndingExists, Zenon
<1>6. EndsAre(places, num, ends)
  BY <1>1, <1>2, <1>4, <1>5, EndingIs, Zenon
<1>7. CString(s) = s
  BY PlainIsItself
<1>8. PICK front : front = [i \in 1 .. num |-> SubSeq(s, ends[i - 1] + 2, ends[i] + 1)]
  OBVIOUS
<1>9. PICK rest : rest = SubSeq(s, ends[num] + 2, Len(s))
  OBVIOUS
<1>10. Split(s, t) = front \o IF EndsWith(s, t) THEN <<>> ELSE <<rest>>
  BY <1>1, <1>2, <1>5, <1>7, <1>8, <1>9 DEF Split, Ending
<1>11. \A k \in 0 .. num : ends[k] \in Int /\ ends[k] + 1 \in 0 .. Len(s)
  <2>1. ASSUME NEW k \in 0 .. num PROVE ends[k] \in Int /\ ends[k] + 1 \in 0 .. Len(s)
    <3>1. ends[k] \in places \cup {-1}
      BY <1>6 DEF EndsAre
    <3>2. PICK p : p = ends[k]
      OBVIOUS
    <3>3. p \in 0 .. Len(s) - 1 \/ p = -1
      BY <1>1, <3>1, <3>2
    <3>4. p \in Int /\ p + 1 \in 0 .. Len(s)
      BY <1>3, <3>3
    <3> QED
      BY <3>2, <3>4
  <2> QED
    BY <2>1
<1>12. front \in Seq(Seq(T)) /\ Len(front) = num
  <2>1. ASSUME NEW i \in 1 .. num PROVE SubSeq(s, ends[i - 1] + 2, ends[i] + 1) \in Seq(T)
    <3>1. i - 1 \in 0 .. num /\ i \in 0 .. num
      OBVIOUS
    <3>2. PICK j \in Int, k \in Int : j = ends[i - 1] + 2 /\ k = ends[i] + 1 /\ j > 0 /\ k <= Len(s)
      BY <1>3, <1>11, <3>1, SMTT(30)
    <3>3. \A l \in j .. k : s[l] \in T
      BY <1>3, <3>2
    <3>4. SubSeq(s, j, k) \in Seq(T)
      BY <3>2, <3>3, SubSeqProperties
    <3> QED
      BY <3>2, <3>4
  <2>2. front \in [1 .. num -> Seq(T)]
    BY <1>8, <2>1
  <2> QED
    BY <2>2
<1>13. num \in 0 .. num /\ num = num
  OBVIOUS
<1>14. PICK top \in Nat : top = ends[num] + 1 /\ top <= Len(s) /\ ends[num] + 2 = top + 1
  <2>1. PICK e \in Int : e = ends[num] /\ e + 1 \in 0 .. Len(s)
    BY <1>11, <1>13
  <2>2. e + 1 \in Nat /\ e + 1 <= Len(s) /\ e + 2 = (e + 1) + 1
    BY <1>3, <2>1
  <2> QED
    BY <2>1, <2>2
<1>15. CASE EndsWith(s, t)
  <2>1. Split(s, t) = front
    BY <1>10, <1>12, <1>15
  <2>2. PICK h : Concatenation(front, num, h, T) /\ FlattenSeq(front) = h[num]
    BY <1>12, FlattenIs
  <2>3. TokensAre(front, s, num, ends)
    BY <1>8 DEF TokensAre
  <2>4. h[num] = SubSeq(s, 1, ends[num] + 1)
    <3>1. num <= num
      OBVIOUS
    <3>2. Joining(T, s, places, num, ends, front, num, h)
      BY <1>1, <1>2, <1>6, <2>2, <2>3, <3>1 DEF Joining
    <3>3. JoinedUpTo(h, s, num, ends)
      BY <3>2, TokensJoin, Zenon
    <3> QED
      BY <3>3 DEF JoinedUpTo
  <2>5. num = 0 <=> places = {}
    BY <1>1, <1>2, FS_EmptySet
  <2>6. ends[num] + 1 = Len(s) - IF Len(t) > 0 THEN Len(t) - 1 ELSE 0
    BY <1>1, <1>6, <1>15, <2>5, LastDelimiter, Zenon
  <2> QED
    BY <1>15, <2>1, <2>2, <2>4, <2>6
<1>16. CASE ~EndsWith(s, t)
  <2>1. rest \in Seq(T) /\ rest = SubSeq(s, top + 1, Len(s))
    <3>1. rest = SubSeq(s, top + 1, Len(s))
      BY <1>9, <1>14
    <3>2. \A l \in top + 1 .. Len(s) : s[l] \in T
      BY <1>3, <1>14
    <3> QED
      BY <1>3, <3>1, <3>2, SubSeqProperties
  <2>2. PICK end : end = <<rest>>
    OBVIOUS
  <2>3. end \in Seq(Seq(T)) /\ Len(end) = 1 /\ end[1] = rest
    BY <2>1, <2>2
  <2>4. PICK all : all = front \o end
    OBVIOUS
  <2>5. Split(s, t) = all
    BY <1>10, <1>16, <2>2, <2>4
  <2>6. PICK one \in Nat, n \in Nat : one = 1 /\ n = num + 1
    OBVIOUS
  <2>7. all \in Seq(Seq(T)) /\ Joined(all, front, end, num, one)
    BY <1>12, <2>3, <2>4, <2>6, JoinedIs, Zenon
  <2>8. Len(all) = n
    BY <2>6, <2>7 DEF Joined
  <2>9. \A i \in 1 .. n : all[i] = IF i <= num THEN front[i] ELSE end[i - num]
    BY <2>6, <2>7 DEF Joined
  <2>10. TokensAre(all, s, num, ends)
    <3>1. ASSUME NEW i \in 1 .. num PROVE all[i] = front[i]
      <4>1. i \in 1 .. n /\ i <= num
        BY <2>6
      <4> QED
        BY <2>9, <4>1
    <3> QED
      BY <1>8, <3>1 DEF TokensAre
  <2>11. all[n] = rest
    <3>1. n \in 1 .. n /\ ~(n <= num) /\ n - num = 1
      BY <2>6
    <3> QED
      BY <2>3, <2>9, <3>1
  <2>12. PICK h : Concatenation(all, n, h, T) /\ FlattenSeq(all) = h[n]
    BY <2>7, <2>8, FlattenIs
  <2>13. h[num] = SubSeq(s, 1, top)
    <3>1. num <= n
      BY <2>6
    <3>2. Joining(T, s, places, num, ends, all, n, h)
      BY <1>1, <1>2, <1>6, <2>6, <2>10, <2>12, <3>1 DEF Joining
    <3>3. JoinedUpTo(h, s, num, ends)
      BY <3>2, TokensJoin, Zenon
    <3> QED
      BY <1>14, <3>3 DEF JoinedUpTo
  <2>14. h[n] = h[num] \o rest
    <3>1. n \in 1 .. n /\ n - 1 = num
      BY <2>6
    <3>2. h[n] = h[n - 1] \o all[n]
      BY <2>12, <3>1 DEF Concatenation
    <3> QED
      BY <2>11, <3>1, <3>2
  <2>15. h[n] = SubSeq(s, 1, Len(s))
    <3>1. top <= Len(s) /\ Len(s) \in Nat /\ Len(s) <= Len(s)
      BY <1>3, <1>14
    <3> QED
      BY <2>1, <2>13, <2>14, <3>1, Extended, ZenonT(30)
  <2>16. Len(s) - 0 = Len(s)
    BY <1>3
  <2> QED
    BY <1>16, <2>5, <2>12, <2>15, <2>16
<1> QED
  BY <1>15, <1>16

-------------------------------------------------------------------------------
(* Replacing                                                               *)

(* What is made of the text from i on, rest being what is made of later.   *)
Here(s, to, with, rest, i) ==
  IF i >= Len(s) THEN <<>>
  ELSE IF to # <<>> /\ StandsAt(s, to, i) THEN with \o rest[i + Len(to)]
  ELSE <<s[i + 1]>> \o rest[i + 1]

Rests(s, to, with, rest) ==
  rest = [i \in 0 .. Len(s) + Len(to) |->
            IF i >= Len(s) THEN <<>>
            ELSE IF to # <<>> /\ StandsAt(s, to, i) THEN with \o rest[i + Len(to)]
            ELSE <<s[i + 1]>> \o rest[i + 1]]

(* Only what lies behind i matters for it.                                 *)
Behind(f, i, m, T) == \A k \in i + 1 .. m : f[k] \in Seq(T)
AlikeBehind(f, g, i, m) == \A k \in i + 1 .. m : g[k] = f[k]
SameHere(s, to, with, f, g, i) == Here(s, to, with, g, i) = Here(s, to, with, f, i)

LEMMA HereFrom ==
  ASSUME NEW T, NEW s \in Seq(T), NEW to \in Seq(T), NEW with \in Seq(T),
         NEW m \in Nat, m = Len(s) + Len(to), NEW i \in 0 .. m, NEW f, Behind(f, i, m, T), NEW g, AlikeBehind(f, g, i, m)
  PROVE  Here(s, to, with, f, i) \in Seq(T) /\ SameHere(s, to, with, f, g, i)
<1>0. Len(s) \in Nat /\ Len(to) \in Nat /\ i \in Nat
  OBVIOUS
<1>a. \A k \in i + 1 .. m : f[k] \in Seq(T) /\ g[k] = f[k]
  BY DEF Behind, AlikeBehind
<1>b. <<>> \in Seq(T)
  OBVIOUS
<1>1. CASE i >= Len(s)
  <2>1. Here(s, to, with, g, i) = <<>> /\ Here(s, to, with, f, i) = <<>>
    BY <1>1 DEF Here
  <2> QED
    BY <1>b, <2>1, Zenon DEF SameHere
<1>2. CASE ~(i >= Len(s)) /\ to # <<>> /\ StandsAt(s, to, i)
  <2>1. /\ Here(s, to, with, g, i) = with \o g[i + Len(to)]
        /\ Here(s, to, with, f, i) = with \o f[i + Len(to)]
    BY <1>2 DEF Here
  <2>2. Len(to) > 0 /\ i + Len(to) \in i + 1 .. m
    BY <1>0, <1>2
  <2>3. f[i + Len(to)] \in Seq(T) /\ g[i + Len(to)] = f[i + Len(to)]
    BY <1>a, <2>2
  <2>4. with \o f[i + Len(to)] \in Seq(T)
    BY <2>3
  <2> QED
    BY <2>1, <2>3, <2>4, Zenon DEF SameHere
<1>3. CASE ~(i >= Len(s)) /\ ~(to # <<>> /\ StandsAt(s, to, i))
  <2>1. /\ Here(s, to, with, g, i) = <<s[i + 1]>> \o g[i + 1]
        /\ Here(s, to, with, f, i) = <<s[i + 1]>> \o f[i + 1]
    BY <1>3 DEF Here
  <2>2. i + 1 \in i + 1 .. m /\ i + 1 \in 1 .. Len(s)
    BY <1>0, <1>3
  <2>3. f[i + 1] \in Seq(T) /\ g[i + 1] = f[i + 1] /\ <<s[i + 1]>> \in Seq(T)
    BY <1>a, <2>2
  <2>4. <<s[i + 1]>> \o f[i + 1] \in Seq(T)
    BY <2>3
  <2> QED
    BY <2>1, <2>3, <2>4, Zenon DEF SameHere
<1> QED
  BY <1>1, <1>2, <1>3

LEMMA RestsExist ==
  ASSUME NEW T, NEW s \in Seq(T), NEW to \in Seq(T), NEW with \in Seq(T)
  PROVE  \E rest : Rests(s, to, with, rest)
<1>1. PICK m \in Nat : m = Len(s) + Len(to)
  OBVIOUS
<1> DEFINE Filled(f, i) == f \in [i .. m -> Seq(T)] /\ \A k \in i .. m : f[k] = Here(s, to, with, f, k)
           F == {i \in 0 .. m : ~ \E f : Filled(f, i)}
<1>2. ASSUME F # {} PROVE FALSE
  <2>1. F \in SUBSET (0 .. m)
    OBVIOUS
  <2> HIDE DEF F
  <2>2. PICK i \in F : \A k \in F : k <= i
    BY <1>2, <2>1, Greatest
  <2>3. i \in 0 .. m /\ ~ \E f : Filled(f, i)
    BY <2>2 DEF F
  <2>4. PICK f : \A k \in i + 1 .. m : f[k] \in Seq(T) /\ f[k] = Here(s, to, with, f, k)
    <3>1. CASE i = m
      <4>1. i + 1 .. m = {}
        BY <2>3, <3>1
      <4> QED
        BY <4>1
    <3>2. CASE i # m
      <4>1. i + 1 \in 0 .. m /\ ~(i + 1 <= i)
        BY <2>3, <3>2
      <4>2. i + 1 \notin F
        BY <2>2, <4>1
      <4>3. PICK f : Filled(f, i + 1)
        BY <4>1, <4>2 DEF F
      <4> QED
        BY <4>3
    <3> QED
      BY <3>1, <3>2
  <2>5. PICK here \in Seq(T) : here = Here(s, to, with, f, i)
    <3>1. Behind(f, i, m, T) /\ AlikeBehind(f, f, i, m)
      BY <2>4 DEF Behind, AlikeBehind
    <3>2. Here(s, to, with, f, i) \in Seq(T)
      BY <1>1, <2>3, <3>1, HereFrom, Zenon
    <3> QED
      BY <3>2
  <2> DEFINE g == [k \in i .. m |-> IF k = i THEN here ELSE f[k]]
  <2>6. ASSUME NEW k \in i .. m PROVE k \in 0 .. m /\ (\A j \in k + 1 .. m : j \in i .. m /\ j # i)
    BY <2>3
  <2>7. ASSUME NEW k \in i .. m PROVE g[k] = Here(s, to, with, g, k)
    <3>1. k \in 0 .. m /\ \A j \in k + 1 .. m : j \in i .. m /\ j # i /\ j \in i + 1 .. m
      BY <2>3
    <3>2. \A j \in k + 1 .. m : g[j] = f[j] /\ f[j] \in Seq(T)
      BY <2>4, <3>1
    <3> HIDE DEF g
    <3>3. Here(s, to, with, g, k) = Here(s, to, with, f, k)
      <4>1. PICK all : all = g
        OBVIOUS
      <4>2. Behind(f, k, m, T) /\ AlikeBehind(f, all, k, m)
        BY <3>2, <4>1 DEF Behind, AlikeBehind
      <4>3. k \in 0 .. m
        BY <3>1
      <4>4. SameHere(s, to, with, f, all, k)
        BY <1>1, <4>2, <4>3, HereFrom, Zenon
      <4> QED
        BY <4>1, <4>4 DEF SameHere
    <3>4. CASE k = i
      BY <2>5, <3>3, <3>4 DEF g
    <3>5. CASE k # i
      <4>1. k \in i + 1 .. m
        BY <2>3, <3>5
      <4>2. f[k] = Here(s, to, with, f, k) /\ g[k] = f[k]
        BY <2>4, <3>5, <4>1 DEF g
      <4> QED
        BY <3>3, <4>2
    <3> QED
      BY <3>4, <3>5
  <2>8. g \in [i .. m -> Seq(T)]
    <3>1. ASSUME NEW k \in i .. m, k # i PROVE f[k] \in Seq(T)
      <4>1. k \in i + 1 .. m
        BY <2>3, <3>1
      <4> QED
        BY <2>4, <4>1
    <3> QED
      BY <2>5, <3>1
  <2>9. Filled(g, i)
    <3> HIDE DEF g
    <3> QED
      BY <2>7, <2>8
  <2> QED
    BY <2>3, <2>9
<1>3. 0 \in 0 .. m
  OBVIOUS
<1>4. PICK f : Filled(f, 0)
  BY <1>2, <1>3
<1>5. f = [i \in 0 .. m |-> Here(s, to, with, f, i)]
  BY <1>4
<1>6. Rests(s, to, with, f)
  BY <1>1, <1>5 DEF Rests, Here
<1> QED
  BY <1>6

(* The places from i on, of those that are replaced.                       *)
Hits(s, to) == {p \in 0 .. Len(s) - 1 : to # <<>> /\ StandsAt(s, to, p)}
From(hits, i) == {p \in hits : p >= i}
Apart(hits, n) == \A i, k \in hits : i < k => ~(k < i + n)

LEMMA FromTyped ==
  ASSUME NEW n \in Nat, NEW hits \in SUBSET (0 .. n - 1), NEW i \in Nat
  PROVE  From(hits, i) \in SUBSET (0 .. n - 1) /\ IsFiniteSet(From(hits, i))
         /\ Cardinality(From(hits, i)) \in Nat
<1>1. From(hits, i) \in SUBSET (0 .. n - 1)
  BY DEF From
<1>2. IsFiniteSet(0 .. n - 1)
  BY FS_Interval
<1> QED
  BY <1>1, <1>2, FS_Subset, FS_CardinalityType

LEMMA FromStep ==
  ASSUME NEW n \in Nat, NEW hits \in SUBSET (0 .. n - 1), NEW i \in Nat, NEW k \in Nat, i < k,
         \A p \in hits : ~(i < p /\ p < k)
  PROVE  Cardinality(From(hits, i)) = Cardinality(From(hits, k)) + IF i \in hits THEN 1 ELSE 0
<1>0. \A p \in hits : p \in Int
  OBVIOUS
<1>1. PICK later : later = From(hits, k) /\ IsFiniteSet(later) /\ Cardinality(later) \in Nat
  BY FromTyped
<1>2. \A p \in hits : p >= i <=> p >= k \/ p = i
  <2>1. ASSUME NEW p \in hits PROVE p >= i <=> p >= k \/ p = i
    <3>1. p \in Int /\ ~(i < p /\ p < k)
      BY <1>0
    <3> QED
      BY <3>1
  <2> QED
    BY <2>1
<1>3. i \notin later
  BY <1>1 DEF From
<1>4. CASE i \in hits
  <2>1. From(hits, i) = later \cup {i}
    BY <1>1, <1>2, <1>4 DEF From
  <2>2. Cardinality(later \cup {i}) = Cardinality(later) + 1
    BY <1>1, <1>3, FS_AddElement
  <2> QED
    BY <1>1, <1>4, <2>1, <2>2
<1>5. CASE i \notin hits
  <2>1. From(hits, i) = later
    BY <1>1, <1>2, <1>5 DEF From
  <2> QED
    BY <1>1, <1>5, <2>1
<1> QED
  BY <1>4, <1>5

(* Where no two places overlap each makes the text longer, or shorter, by  *)
(* the same.                                                               *)
LEMMA RestsAre ==
  ASSUME NEW T, NEW s \in Seq(T), NEW to \in Seq(T), NEW with \in Seq(T),
         NEW rest, Rests(s, to, with, rest),
         NEW hits, hits = Hits(s, to)
  PROVE  /\ rest[0] \in Seq(T)
         /\ Apart(hits, Len(to)) =>
              Len(rest[0]) = Len(s) + (Len(with) - Len(to)) * Cardinality(hits)
<1>1. PICK n \in Nat, l \in Nat, w \in Nat : n = Len(s) /\ l = Len(to) /\ w = Len(with)
  OBVIOUS
<1>2. PICK d \in Int : d = w - l
  OBVIOUS
<1>3. hits \in SUBSET (0 .. n - 1)
  BY <1>1 DEF Hits
<1>4. \A i \in Nat : From(hits, i) \in SUBSET (0 .. n - 1) /\ Cardinality(From(hits, i)) \in Nat
  BY <1>3, FromTyped
<1> DEFINE Count(i) == Cardinality(From(hits, i))
           Fits(i) == /\ rest[i] \in Seq(T)
                      /\ Apart(hits, l) => Len(rest[i]) = (n - i) + d * Count(i)
           F == {i \in 0 .. n : ~Fits(i)}
<1>5. ASSUME NEW i \in 0 .. n
      PROVE  rest[i] = IF i >= n THEN <<>>
                       ELSE IF to # <<>> /\ StandsAt(s, to, i) THEN with \o rest[i + l]
                       ELSE <<s[i + 1]>> \o rest[i + 1]
  <2>1. i \in 0 .. Len(s) + Len(to)
    BY <1>1
  <2>2. rest[i] = Here(s, to, with, rest, i)
    <3>1. PICK m : m = 0 .. Len(s) + Len(to)
      OBVIOUS
    <3>2. rest = [j \in m |-> Here(s, to, with, rest, j)]
      BY <3>1 DEF Rests, Here
    <3>3. i \in m
      BY <2>1, <3>1
    <3> QED
      BY <3>2, <3>3, Zenon
  <2> QED
    BY <1>1, <2>2 DEF Here
<1>6. Fits(n)
  <2>0. n \in 0 .. n /\ n >= n
    OBVIOUS
  <2>1. rest[n] = <<>>
    BY <1>5, <2>0, Zenon
  <2>2. From(hits, n) = {}
    <3>1. ASSUME NEW p \in hits PROVE ~(p >= n)
      <4>1. p \in 0 .. n - 1
        BY <1>3
      <4> QED
        BY <4>1
    <3> QED
      BY <3>1 DEF From
  <2>3. Count(n) = 0
    BY <2>2, FS_EmptySet
  <2>4. <<>> \in Seq(T) /\ Len(<<>>) = 0
    OBVIOUS
  <2>5. (n - n) + d * 0 = 0
    OBVIOUS
  <2> HIDE DEF Count
  <2> QED
    BY <2>1, <2>3, <2>4, <2>5, Zenon
<1>7. ASSUME NEW i \in 0 .. n - 1, \A k \in i + 1 .. n : Fits(k) PROVE Fits(i)
  <2>0. i \in Nat /\ i \in 0 .. n /\ ~(i >= n) /\ i + 1 \in i + 1 .. n /\ i + 1 \in Nat
    OBVIOUS
  <2>1. CASE to # <<>> /\ StandsAt(s, to, i)
    <3>1. l > 0 /\ i + l <= n /\ i + l \in i + 1 .. n /\ i + l \in Nat /\ i < i + l
      BY <1>1, <2>0, <2>1 DEF StandsAt
    <3>2. rest[i] = with \o rest[i + l]
      BY <1>5, <2>0, <2>1
    <3>3. Fits(i + l)
      BY <1>7, <3>1
    <3>4. i \in hits
      BY <1>1, <2>1 DEF Hits
    <3>5. PICK v \in Seq(T) : v = rest[i + l]
      BY <3>3
    <3>6. rest[i] \in Seq(T) /\ Len(rest[i]) = w + Len(v) /\ Len(v) \in Nat
      BY <1>1, <3>2, <3>5
    <3>7. ASSUME Apart(hits, l) PROVE Len(rest[i]) = (n - i) + d * Count(i)
      <4>1. \A p \in hits : ~(i < p /\ p < i + l)
        BY <3>4, <3>7 DEF Apart
      <4>2. PICK k \in Nat : k = i + l
        BY <3>1
      <4>3. Count(i) = Count(k) + 1
        BY <1>3, <2>0, <3>1, <3>4, <4>1, <4>2, FromStep, ZenonT(30)
      <4>4. Len(v) = (n - k) + d * Count(k)
        BY <3>3, <3>5, <3>7, <4>2
      <4>5. PICK c \in Nat : c = Count(k)
        BY <1>4
      <4> HIDE DEF Count
      <4>6. d * (c + 1) = d * c + d
        OBVIOUS
      <4>7. PICK x \in Int : x = d * c
        OBVIOUS
      <4>8. Len(v) = (n - k) + x /\ d * Count(i) = x + d
        BY <4>3, <4>4, <4>5, <4>6, <4>7
      <4> QED
        BY <1>2, <3>6, <4>2, <4>8
    <3> HIDE DEF Count
    <3> QED
      BY <3>6, <3>7
  <2>2. CASE ~(to # <<>> /\ StandsAt(s, to, i))
    <3>1. rest[i] = <<s[i + 1]>> \o rest[i + 1]
      BY <1>5, <2>0, <2>2
    <3>2. Fits(i + 1)
      BY <1>7, <2>0
    <3>3. i \notin hits
      BY <2>2 DEF Hits
    <3>4. PICK v \in Seq(T) : v = rest[i + 1]
      BY <3>2
    <3>5. PICK c \in T : c = s[i + 1]
      <4>1. i + 1 \in 1 .. Len(s)
        BY <1>1
      <4> QED
        BY <4>1
    <3>6. rest[i] \in Seq(T) /\ Len(rest[i]) = 1 + Len(v) /\ Len(v) \in Nat
      BY <3>1, <3>4, <3>5
    <3>7. ASSUME Apart(hits, l) PROVE Len(rest[i]) = (n - i) + d * Count(i)
      <4>1. \A p \in hits : ~(i < p /\ p < i + 1)
        BY <1>3, <2>0
      <4>2. PICK k \in Nat : k = i + 1
        BY <2>0
      <4>3. Count(i) = Count(k)
        <5>1. i < k /\ \A p \in hits : ~(i < p /\ p < k)
          BY <4>1, <4>2
        <5>2. Count(i) = Count(k) + IF i \in hits THEN 1 ELSE 0
          BY <1>3, <2>0, <5>1, FromStep
        <5>3. Count(k) \in Nat
          BY <1>4
        <5> HIDE DEF Count
        <5> QED
          BY <3>3, <5>2, <5>3
      <4>4. Len(v) = (n - k) + d * Count(k)
        BY <3>2, <3>4, <3>7, <4>2
      <4>5. PICK x \in Int : x = d * Count(k)
        BY <1>4
      <4> HIDE DEF Count
      <4> QED
        BY <3>6, <4>2, <4>3, <4>4, <4>5
    <3> HIDE DEF Count
    <3> QED
      BY <3>6, <3>7
  <2> QED
    BY <2>1, <2>2
<1>8. F = {}
  <2> SUFFICES ASSUME F # {} PROVE FALSE
    OBVIOUS
  <2>1. F \in SUBSET (0 .. n)
    OBVIOUS
  <2> HIDE DEF F
  <2>2. PICK i \in F : \A k \in F : k <= i
    BY <2>1, Greatest
  <2> HIDE DEF Fits
  <2>3. i \in 0 .. n /\ ~Fits(i) /\ i # n
    BY <1>6, <2>2 DEF F
  <2>4. ASSUME NEW k \in i + 1 .. n PROVE Fits(k)
    <3>1. k \in 0 .. n /\ ~(k <= i)
      BY <2>3
    <3> QED
      BY <2>2, <3>1 DEF F
  <2>5. i \in 0 .. n - 1
    BY <2>3
  <2> QED
    BY <1>7, <2>3, <2>4, <2>5
<1>9. Fits(0)
  <2>1. 0 \in 0 .. n
    OBVIOUS
  <2> HIDE DEF Fits
  <2> QED
    BY <1>8, <2>1
<1>10. From(hits, 0) = hits
  BY <1>3 DEF From
<1> QED
  BY <1>1, <1>2, <1>9, <1>10

(* What is replaced of a text without NUL.                                 *)
LEMMA ReplacedIs ==
  ASSUME NEW T, NEW s \in Seq(T), NEW to \in Seq(T), NEW with \in Seq(T)
  PROVE  /\ Replaced(s, to, with) \in Seq(T)
         /\ Apart(Hits(s, to), Len(to)) =>
              Len(Replaced(s, to, with)) = Len(s) + (Len(with) - Len(to)) * Cardinality(Hits(s, to))
<1>1. PICK rest : Rests(s, to, with, rest) /\ rest = CHOOSE f : Rests(s, to, with, f)
  BY RestsExist, Zenon
<1>2. Replaced(s, to, with) = rest[0]
  BY <1>1 DEF Replaced, Rests
<1>3. PICK hits : hits = Hits(s, to)
  OBVIOUS
<1>4. PICK u : u = rest[0]
  OBVIOUS
<1>5. /\ u \in Seq(T)
      /\ Apart(hits, Len(to)) => Len(u) = Len(s) + (Len(with) - Len(to)) * Cardinality(hits)
  <2>1. /\ rest[0] \in Seq(T)
        /\ Apart(hits, Len(to)) => Len(rest[0]) = Len(s) + (Len(with) - Len(to)) * Cardinality(hits)
    BY <1>1, <1>3, RestsAre
  <2> QED
    BY <1>4, <2>1, Zenon
<1>6. Replaced(s, to, with) = u
  BY <1>2, <1>4
<1> QED
  BY <1>3, <1>5, <1>6, Zenon

LEMMA CStringShorter ==
  ASSUME NEW T, NEW s \in Seq(T)
  PROVE  Len(CString(s)) <= Len(s)
<1> DEFINE halts == {i \in 0 .. Len(s) : At(s, i) = NUL}
<1>1. Len(s) \in Nat /\ Len(s) \in halts
  BY DEF At
<1>2. halts \in SUBSET Nat
  BY <1>1
<1>3. PICK m \in halts : m = Min(halts)
  BY <1>1, <1>2, Least
<1>4. CString(s) = SubSeq(s, 1, m)
  BY <1>3 DEF CString
<1>5. m \in Nat /\ m <= Len(s)
  BY <1>1, <1>3
<1> HIDE DEF halts
<1> QED
  BY <1>1, <1>4, <1>5

(* replace stays inside what it allocates where no two occurrences         *)
(* overlap: an empty text, which stands everywhere, is not replaced.       *)
LEMMA ReplaceIsInside ==
  ASSUME NEW T, NUL \notin T, NEW s \in Seq(T \cup {NUL}), NEW to \in Seq(T), NEW with \in Seq(T),
         NEW places, places = Occurrences(s, to), places # {}, Apart(places, Len(to))
  PROVE  Len(Replace(s, to, with)) <= ReplaceSize(s, to, with)
<1>1. PICK c \in Seq(T) : c = CString(s) /\ Len(c) <= Len(s)
  <2>1. (T \cup {NUL}) \ {NUL} = T
    OBVIOUS
  <2>2. CString(s) \in Seq(T)
    BY <2>1, CStringIs
  <2> QED
    BY <2>2, CStringShorter
<1>2. CString(to) = to
  BY PlainIsItself
<1>3. PICK n \in Nat, m \in Nat, l \in Nat, w \in Nat :
        n = Len(s) /\ m = Len(c) /\ l = Len(to) /\ w = Len(with) /\ m <= n
  BY <1>1
<1>4. places = {i \in 0 .. m - 1 : StandsAt(c, to, i)}
  BY <1>1, <1>2, <1>3 DEF Occurrences, Places
<1>5. IsFiniteSet(places) /\ Cardinality(places) \in Nat
  <2>1. places \subseteq 0 .. m - 1 /\ IsFiniteSet(0 .. m - 1)
    BY <1>3, <1>4, FS_Interval
  <2> QED
    BY <2>1, FS_Subset, FS_CardinalityType
<1>6. PICK k \in Nat : k = Cardinality(places)
  BY <1>5
<1>7. PICK u \in Seq(T) : u = Replaced(c, to, with)
  BY ReplacedIs
<1>8. Replace(s, to, with) = u
  BY <1>1, <1>7 DEF Replace
<1>9. PICK size : size = ReplaceSize(s, to, with)
  OBVIOUS
<1>10. size = n + (w - l) * k
  BY <1>3, <1>6, <1>9 DEF ReplaceSize
<1>11. PICK x \in Int : x = (w - l) * k
  <2>1. (w - l) \in Int /\ k \in Int
    BY <1>3
  <2> QED
    BY <2>1
<1>12. CASE to # <<>>
  <2>1. Hits(c, to) = places
    BY <1>3, <1>4, <1>12 DEF Hits
  <2>2. Len(u) = Len(c) + (Len(with) - Len(to)) * Cardinality(places)
    BY <1>7, <2>1, ReplacedIs
  <2>3. Len(u) = m + x
    BY <1>3, <1>6, <1>11, <2>2
  <2> QED
    BY <1>3, <1>8, <1>9, <1>10, <1>11, <2>3
<1>13. CASE to = <<>>
  <2>1. Hits(c, to) = {}
    BY <1>13 DEF Hits
  <2>2. Apart({}, Len(to))
    BY DEF Apart
  <2>3. Len(u) = Len(c) + (Len(with) - Len(to)) * Cardinality({})
    BY <1>7, <2>1, <2>2, ReplacedIs, ZenonT(30)
  <2>4. Cardinality({}) = 0
    BY FS_EmptySet
  <2>5. l = 0
    BY <1>3, <1>13
  <2>6. Len(u) = m
    BY <1>3, <2>3, <2>4
  <2>7. x = w * k /\ w * k >= 0
    BY <1>11, <2>5
  <2> QED
    BY <1>3, <1>8, <1>9, <1>10, <1>11, <2>6, <2>7
<1> QED
  BY <1>12, <1>13

-------------------------------------------------------------------------------
(* What a string is made into                                              *)

(* What a string of the body is made of.                                   *)
TextChars == Chars \cup {NUL, "A", "a", "n"}

LEMMA TextsTyped ==
  ASSUME NEW t \in Texts
  PROVE  t \in Seq(TextChars) /\ t \in Seq(TextChars \ {NUL})
<1>1. t \in Seq(Chars) /\ NUL \notin Chars
  BY BodyAssumption
<1>2. Chars \subseteq TextChars /\ Chars \subseteq TextChars \ {NUL}
  BY <1>1 DEF TextChars
<1> QED
  BY <1>1, <1>2

LEMMA CStringTyped ==
  ASSUME NEW T, NEW s \in Seq(T)
  PROVE  CString(s) \in Seq(T)
<1>1. CString(s) \in Seq(T \ {NUL})
  BY CStringIs
<1> QED
  BY <1>1

LEMMA LoweredStays ==
  ASSUME NEW s \in Seq(TextChars)
  PROVE  Lowered(s) \in Seq(TextChars)
<1>1. ASSUME NEW c \in TextChars PROVE ToLower(c) \in TextChars
  <2>1. \A d \in {"A", "N"} : Lower[d] \in {"a", "n"}
    BY DEF Lower
  <2>2. DOMAIN Lower = {"A", "N"}
    BY DEF Lower
  <2> QED
    BY <2>1, <2>2 DEF ToLower, TextChars
<1>2. DOMAIN s = 1 .. Len(s) /\ Len(s) \in Nat /\ \A i \in 1 .. Len(s) : s[i] \in TextChars
  OBVIOUS
<1>3. Lowered(s) = [i \in 1 .. Len(s) |-> ToLower(s[i])]
  BY <1>2 DEF Lowered
<1>4. \A i \in 1 .. Len(s) : ToLower(s[i]) \in TextChars
  BY <1>1, <1>2
<1>5. PICK n \in Nat : n = Len(s)
  BY <1>2
<1>6. [i \in 1 .. n |-> ToLower(s[i])] \in [1 .. n -> TextChars]
  BY <1>4, <1>5
<1>7. PICK u \in [1 .. n -> TextChars] : u = [i \in 1 .. n |-> ToLower(s[i])]
  BY <1>6
<1>8. u \in Seq(TextChars)
  BY <1>5, <1>7
<1>9. Lowered(s) = u
  BY <1>3, <1>5, <1>7
<1> QED
  BY <1>8, <1>9, Zenon

LEMMA ReplaceCharTyped ==
  ASSUME NEW T, NEW s \in Seq(T), NEW to, NEW with \in T
  PROVE  ReplaceChar(s, to, with) \in Seq(T)
<1>1. DOMAIN s = 1 .. Len(s) /\ Len(s) \in Nat /\ \A i \in 1 .. Len(s) : s[i] \in T
  OBVIOUS
<1>2. ReplaceChar(s, to, with) = [i \in 1 .. Len(s) |-> IF s[i] = to THEN with ELSE s[i]]
  BY <1>1 DEF ReplaceChar
<1> QED
  BY <1>1, <1>2

LEMMA SubStringTyped ==
  ASSUME NEW T, NEW s \in Seq(T), NEW beginPos \in Nat, NEW amount \in Nat
  PROVE  SubString(s, beginPos, amount) \in Seq(T)
<1>1. Len(s) \in Nat /\ <<>> \in Seq(T)
  OBVIOUS
<1>2. PICK m \in Nat : m = Min({beginPos + amount, Len(s)}) /\ m <= Len(s)
  <2>1. beginPos + amount \in Nat
    OBVIOUS
  <2> QED
    BY <1>1, <2>1, LessOf
<1>3. SubSeq(s, beginPos + 1, m) \in Seq(T)
  <2>1. PICK n : n = IF beginPos <= m THEN m - beginPos ELSE 0
    OBVIOUS
  <2> QED
    BY <1>2, <2>1, ExcerptIs
<1> QED
  BY <1>1, <1>2, <1>3 DEF SubString

LEMMA FindFromTyped ==
  ASSUME NEW s, Len(s) \in Nat, NEW start \in Nat, NEW ch
  PROVE  \/ FindFrom(s, start, ch) = Npos
         \/ FindFrom(s, start, ch) \in Nat /\ FindFrom(s, start, ch) >= start
<1> DEFINE found == {i \in start .. Len(s) - 1 : At(s, i) = ch}
<1>1. found \in SUBSET Nat /\ \A i \in found : i \in Nat /\ i >= start
  <2>1. ASSUME NEW i \in found PROVE i \in Nat /\ i >= start
    OBVIOUS
  <2> HIDE DEF found
  <2> QED
    BY <2>1
<1>2. CASE found = {}
  <2>1. FindFrom(s, start, ch) = Npos
    BY <1>2 DEF FindFrom
  <2> QED
    BY <2>1, Zenon
<1>3. CASE found # {}
  <2>1. Min(found) \in found
    <3> HIDE DEF found
    <3> QED
      BY <1>1, <1>3, Least
  <2>2. FindFrom(s, start, ch) = Min(found)
    BY <1>3 DEF FindFrom
  <2> QED
    BY <1>1, <2>1, <2>2
<1> QED
  BY <1>2, <1>3

LEMMA FromTillTyped ==
  ASSUME NEW T, NEW s \in Seq(T), NEW startChar, NEW lastExcludedChar
  PROVE  SubStringFromTill(s, startChar, lastExcludedChar) \in Seq(T)
<1>1. Len(s) \in Nat /\ <<>> \in Seq(T)
  OBVIOUS
<1>2. PICK begin : begin = FindFrom(s, 0, startChar)
  OBVIOUS
<1>3. PICK end : end = FindFrom(s, begin, lastExcludedChar)
  OBVIOUS
<1>4. CASE begin = Npos
  <2>1. SubStringFromTill(s, startChar, lastExcludedChar) = <<>>
    BY <1>2, <1>4 DEF SubStringFromTill
  <2> QED
    BY <1>1, <2>1
<1>5. CASE begin # Npos
  <2>1. begin \in Nat
    BY <1>1, <1>2, <1>5, FindFromTyped
  <2>2. end = Npos \/ (end \in Nat /\ end >= begin)
    BY <1>1, <1>3, <2>1, FindFromTyped
  <2>3. CASE end = Npos
    <3>1. SubStringFromTill(s, startChar, lastExcludedChar) = SubString(s, begin, Len(s))
      BY <1>2, <1>3, <1>5, <2>3 DEF SubStringFromTill
    <3> QED
      BY <1>1, <2>1, <3>1, SubStringTyped
  <2>4. CASE end # Npos
    <3>1. SubStringFromTill(s, startChar, lastExcludedChar) = SubString(s, begin, end - begin)
      BY <1>2, <1>3, <1>5, <2>4 DEF SubStringFromTill
    <3>2. end - begin \in Nat
      BY <2>1, <2>2, <2>4
    <3> QED
      BY <2>1, <3>1, <3>2, SubStringTyped
  <2> QED
    BY <2>3, <2>4
<1> QED
  BY <1>4, <1>5

LEMMA CopyTyped ==
  ASSUME NEW T, NEW s \in Seq(T), NEW bufferSize \in Nat \ {0}
  PROVE  CopyToBuffer(s, bufferSize) \in Seq(T)
<1>1. bufferSize - 1 \in Nat /\ Len(s) \in Nat
  OBVIOUS
<1>2. PICK m \in Nat : m = Min({bufferSize - 1, Len(s)}) /\ m <= Len(s)
  BY <1>1, LessOf
<1>3. PICK zero \in Nat : zero = 0 /\ zero + 1 = 1
  OBVIOUS
<1>4. SubSeq(s, zero + 1, m) \in Seq(T)
  <2>1. PICK n : n = IF zero <= m THEN m - zero ELSE 0
    OBVIOUS
  <2> QED
    BY <1>2, <2>1, ExcerptIs
<1> QED
  BY <1>2, <1>3, <1>4 DEF CopyToBuffer

LEMMA PadTyped ==
  ASSUME NEW T, NEW s1 \in Seq(T), NEW s2, Len(s2) \in Nat, NEW pad \in T
  PROVE  PadToSameLength(s1, s2, pad)[1] \in Seq(T)
<1>1. PICK n \in Nat, m \in Nat : n = Len(s1) /\ m = Len(s2)
  OBVIOUS
<1>2. PICK more \in Nat : more = Max({n, m}) - n
  <2>1. PICK top \in Nat : {n, m} \in SUBSET (0 .. top)
    <3>1. n \in 0 .. n + m /\ m \in 0 .. n + m /\ n + m \in Nat
      OBVIOUS
    <3> QED
      BY <3>1
  <2>2. Max({n, m}) \in {n, m} /\ n <= Max({n, m})
    BY <2>1, Greatest
  <2> QED
    BY <2>2
<1>3. PICK value : value = <<pad>>
  OBVIOUS
<1>4. value \in Seq(T)
  BY <1>3
<1>5. [i \in 1 .. more |-> value] \in Seq(Seq(T))
  BY <1>4
<1>6. Repeated(value, more) \in Seq(T)
  BY <1>5, FlattenTyped DEF Repeated
<1>7. PadToSameLength(s1, s2, pad)[1] = Repeated(value, more) \o s1
  BY <1>1, <1>2, <1>3 DEF PadToSameLength
<1> QED
  BY <1>6, <1>7

LEMMA ReplaceTyped ==
  ASSUME NEW T, NEW s \in Seq(T), NEW to \in Seq(T), NEW with \in Seq(T)
  PROVE  Replace(s, to, with) \in Seq(T)
<1>1. CString(s) \in Seq(T)
  BY CStringTyped
<1>2. Replaced(CString(s), to, with) \in Seq(T)
  BY <1>1, ReplacedIs
<1> QED
  BY <1>2 DEF Replace

-------------------------------------------------------------------------------
(* A string in the body                                                    *)

LEMMA TextChanges ==
  ASSUME [BodyNext]_bodyVars
  PROVE  \/ UNCHANGED strings
         \/ Construct \/ Change
         \/ \E to, with \in Texts : ReplaceText(to, with)
         \/ \E t \in Texts : SplitAt(t) \/ Ask(t)
<1> DEFINE Same == UNCHANGED strings
<1>1. ASSUME UNCHANGED bodyVars PROVE Same
  BY <1>1 DEF bodyVars
<1>2. ASSUME Asserting PROVE Same
  BY <1>2 DEF Asserting
<1>3. ASSUME NEW x, Macro(x) \/ Library(x) \/ OperandLeaves(x) PROVE Same
  BY <1>2, <1>3 DEF Macro, Library, OperandLeaves
<1>4. ASSUME Fail \/ Throws \/ TestExit PROVE Same
  BY <1>2, <1>4 DEF Fail, Throws, TestExit
<1>5. ASSUME Mocking({"read", "cursor"}) \/ Mocking({"data"}) \/ Mocking({"read", "cursor", "data"})
      PROVE  Same
  BY <1>5 DEF Mocking
<1>6. ASSUME NEW n, MockC(n) \/ Clear(n) \/ GetDataC(n) PROVE Same
  BY <1>5, <1>6 DEF MockC, Clear, GetDataC, Clearing, Calling, Storing
<1>7. ASSUME NEW n, NEW r, ActualCall(n, r) PROVE Same
  BY <1>5, <1>7 DEF ActualCall, Calling
<1>8. ASSUME NEW n, NEW want, ReadCall(n, want) \/ ReadScope(n, want) \/ GetData(n, want) PROVE Same
  BY <1>5, <1>8 DEF ReadCall, ReadScope, GetData, Calling, Storing
<1>9. ASSUME NEW n, NEW x, SetData(n, x) PROVE Same
  BY <1>5, <1>9 DEF SetData, Storing
<1>10. ASSUME NEW r, ActualCallC(r) PROVE Same
  BY <1>5, <1>10 DEF ActualCallC, Calling
<1>11. ASSUME UnexpectedCallC \/ ReadFreed \/ ClearC PROVE Same
  BY <1>5, <1>11 DEF UnexpectedCallC, ReadFreed, ClearC, Clearing, Calling
<1>12. ASSUME NEW want, ReadC(want) PROVE Same
  BY <1>5, <1>12 DEF ReadC, Calling
<1>13. ASSUME NEW x, WithExpected(x) \/ WithActual(x) PROVE Same
  BY <1>13 DEF WithExpected, WithActual, Matching
<1>14. ASSUME Return \/ BodyOver PROVE Same
  BY <1>1, <1>14 DEF Return, BodyOver
<1> HIDE DEF Same
<1>15. \/ Same \/ Construct \/ Change
       \/ \E to, with \in Texts : ReplaceText(to, with)
       \/ \E t \in Texts : SplitAt(t) \/ Ask(t)
  BY <1>1, <1>3, <1>4, <1>6, <1>7, <1>8, <1>9, <1>10, <1>11, <1>12, <1>13, <1>14, Zenon DEF BodyNext
<1> QED
  BY <1>15 DEF Same

(* The invariant: a string is made of what texts are made of, or of what a *)
(* character is replaced with.                                             *)
StringTyped == text # NoText => text.s \in Seq(TextChars)
TextInv == StringTyped /\ TextKept

LEMMA BecomesKeeps ==
  ASSUME NEW s \in Seq(TextChars), Becomes(s)
  PROVE  TextInv'
<1>1. text' = Now(s)
  BY DEF Becomes
<1>2. text'.op = "string" /\ text'.s = s
  BY <1>1 DEF Now
<1>3. StringTyped'
  BY <1>2 DEF StringTyped
<1>4. SplitKeeps' /\ AnswersAgree' /\ ReplaceFits'
  BY <1>2 DEF SplitKeeps, AnswersAgree, ReplaceFits
<1> QED
  BY <1>3, <1>4 DEF TextInv, TextKept

LEMMA ChangeKeeps ==
  ASSUME TextInv, Change
  PROVE  TextInv'
<1>1. PICK s \in Seq(TextChars) : s = Str
  BY DEF Change, HasText, TextInv, StringTyped, Str
<1>2. Len(s) \in Nat /\ {"a", "A", NUL} \subseteq TextChars
  BY DEF TextChars
<1>3. CString(s) \in Seq(TextChars)
  BY CStringTyped
<1>4. ASSUME Becomes(CString(s)) PROVE TextInv'
  BY <1>3, <1>4, BecomesKeeps
<1>5. ASSUME Becomes(Lowered(CString(s))) PROVE TextInv'
  <2>1. Lowered(CString(s)) \in Seq(TextChars)
    BY <1>3, LoweredStays, Zenon
  <2> QED
    BY <1>5, <2>1, BecomesKeeps
<1>6. ASSUME NEW t \in Texts, Becomes(s \o t) PROVE TextInv'
  <2>1. s \o t \in Seq(TextChars)
    BY TextsTyped
  <2> QED
    BY <1>6, <2>1, BecomesKeeps
<1>7. ASSUME NEW t \in Texts, Becomes(PadToSameLength(CString(s), t, "A")[1]) PROVE TextInv'
  <2>1. Len(t) \in Nat /\ "A" \in TextChars
    BY <1>2, TextsTyped
  <2>2. PadToSameLength(CString(s), t, "A")[1] \in Seq(TextChars)
    BY <1>3, <2>1, PadTyped, Zenon
  <2> QED
    BY <1>7, <2>2, BecomesKeeps, Zenon
<1>8. ASSUME NEW i \in 0 .. Len(s) + 1, NEW k \in 0 .. Len(s) + 1, Becomes(CString(SubString(s, i, k)))
      PROVE  TextInv'
  <2>1. i \in Nat /\ k \in Nat
    BY <1>2
  <2>2. CString(SubString(s, i, k)) \in Seq(TextChars)
    BY <2>1, SubStringTyped, CStringTyped
  <2> QED
    BY <1>8, <2>2, BecomesKeeps
<1>9. ASSUME NEW c, NEW d, Becomes(CString(SubStringFromTill(s, c, d))) PROVE TextInv'
  <2>1. CString(SubStringFromTill(s, c, d)) \in Seq(TextChars)
    BY FromTillTyped, CStringTyped
  <2> QED
    BY <1>9, <2>1, BecomesKeeps
<1>10. ASSUME NEW c, NEW d \in {"a", NUL}, Becomes(ReplaceChar(s, c, d)) PROVE TextInv'
  <2>1. ReplaceChar(s, c, d) \in Seq(TextChars)
    BY <1>2, ReplaceCharTyped
  <2> QED
    BY <1>10, <2>1, BecomesKeeps
<1>11. ASSUME NEW k \in 1 .. Len(s) + 1, Becomes(CString(CopyToBuffer(s, k))) PROVE TextInv'
  <2>1. k \in Nat \ {0}
    BY <1>2
  <2>2. CString(CopyToBuffer(s, k)) \in Seq(TextChars)
    BY <2>1, CopyTyped, CStringTyped
  <2> QED
    BY <1>11, <2>2, BecomesKeeps
<1> QED
  BY <1>1, <1>4, <1>5, <1>6, <1>7, <1>8, <1>9, <1>10, <1>11, Zenon DEF Change

LEMMA ReplaceKeeps ==
  ASSUME TextInv, NEW to \in Texts, NEW with \in Texts, ReplaceText(to, with)
  PROVE  TextInv'
<1>1. PICK s \in Seq(TextChars) : s = Str
  BY DEF ReplaceText, HasText, TextInv, StringTyped, Str
<1>2. /\ to \in Seq(TextChars) /\ with \in Seq(TextChars)
      /\ to \in Seq(TextChars \ {NUL}) /\ with \in Seq(TextChars \ {NUL})
  BY TextsTyped
<1>3. PICK r : r = Replace(s, to, with)
  OBVIOUS
<1>4. r \in Seq(TextChars)
  BY <1>2, <1>3, ReplaceTyped
<1>5. /\ text' = [op |-> "replace", s |-> r, of |-> s, to |-> to]
      /\ overrun' <=> Occurrences(s, to) # {} /\ Len(r) > ReplaceSize(s, to, with)
  BY <1>1, <1>3 DEF ReplaceText
<1>6. text'.op = "replace" /\ text'.s = r /\ text'.of = s /\ text'.to = to
  BY <1>5
<1>7. StringTyped'
  BY <1>4, <1>6 DEF StringTyped
<1>8. SplitKeeps' /\ AnswersAgree'
  BY <1>6 DEF SplitKeeps, AnswersAgree
<1>9. ReplaceFits'
  <2> SUFFICES ASSUME overrun'
               PROVE  \E i, k \in Occurrences(s, to) : i < k /\ k < i + Len(to)
    BY <1>6 DEF ReplaceFits
  <2>1. PICK places : places = Occurrences(s, to)
    OBVIOUS
  <2>2. places # {} /\ Len(r) > ReplaceSize(s, to, with)
    BY <1>5, <2>1
  <2>3. ASSUME Apart(places, Len(to)) PROVE FALSE
    <3>1. NUL \notin TextChars \ {NUL} /\ s \in Seq((TextChars \ {NUL}) \cup {NUL})
      <4>1. (TextChars \ {NUL}) \cup {NUL} = TextChars
        BY DEF TextChars
      <4> QED
        BY <4>1
    <3>2. Len(r) <= ReplaceSize(s, to, with)
      BY <1>2, <1>3, <2>1, <2>2, <2>3, <3>1, ReplaceIsInside
    <3>3. PICK n, m : n = Len(r) /\ m = ReplaceSize(s, to, with)
      OBVIOUS
    <3>4. n \in Int /\ m \in Int
      <4>1. n \in Nat
        BY <1>4, <3>3
      <4>2. CString(s) \in Seq(TextChars) /\ Len(s) \in Nat /\ Len(to) \in Nat /\ Len(with) \in Nat
        BY <1>2, CStringTyped
      <4>3. Cardinality(places) \in Nat
        <5>1. Len(CString(s)) \in Nat
          BY <4>2
        <5>2. places \subseteq 0 .. Len(CString(s)) /\ IsFiniteSet(0 .. Len(CString(s)))
          BY <2>1, <5>1, FS_Interval DEF Occurrences, Places
        <5> QED
          BY <5>2, FS_Subset, FS_CardinalityType
      <4> QED
        BY <2>1, <3>3, <4>1, <4>2, <4>3 DEF ReplaceSize
    <3> QED
      BY <2>2, <3>2, <3>3, <3>4
  <2> QED
    BY <2>1, <2>3 DEF Apart
<1> QED
  BY <1>7, <1>8, <1>9 DEF TextInv, TextKept

LEMMA SplitKeepsText ==
  ASSUME TextInv, NEW delimiter \in Texts, SplitAt(delimiter)
  PROVE  TextInv'
<1>1. PICK s \in Seq(TextChars) : s = Str
  BY DEF SplitAt, HasText, TextInv, StringTyped, Str
<1>2. PICK tokens : tokens = Split(s, delimiter)
  OBVIOUS
<1>3. text' = [op |-> "split", s |-> s, by |-> delimiter, tokens |-> tokens]
  BY <1>1, <1>2 DEF SplitAt
<1>4. text'.op = "split" /\ text'.s = s /\ text'.by = delimiter /\ text'.tokens = tokens
  BY <1>3
<1>5. StringTyped'
  BY <1>4 DEF StringTyped
<1>6. AnswersAgree' /\ ReplaceFits'
  BY <1>4 DEF AnswersAgree, ReplaceFits
<1>7. SplitKeeps'
  <2>1. ASSUME CString(s) = s
        PROVE  FlattenSeq(tokens) =
                 SubSeq(s, 1, Len(s) - IF EndsWith(s, delimiter) /\ Len(delimiter) > 0
                                       THEN Len(delimiter) - 1 ELSE 0)
    <3>1. s \in Seq(TextChars \ {NUL})
      BY <2>1, CStringIs
    <3>2. delimiter \in Seq(TextChars \ {NUL}) /\ NUL \notin TextChars \ {NUL}
      BY TextsTyped
    <3> QED
      BY <1>2, <3>1, <3>2, SplitTokens, Zenon
  <2> QED
    BY <1>4, <2>1, Zenon DEF SplitKeeps
<1> QED
  BY <1>5, <1>6, <1>7 DEF TextInv, TextKept

LEMMA AskKeeps ==
  ASSUME TextInv, NEW t \in Texts, Ask(t)
  PROVE  TextInv'
<1>1. PICK s \in Seq(TextChars) : s = Str
  BY DEF Ask, HasText, TextInv, StringTyped, Str
<1>2. PICK contains, starts, ends, count :
        /\ contains = TextContains(s, t) /\ starts = StartsWith(s, t) /\ ends = EndsWith(s, t)
        /\ count = Cardinality(Occurrences(s, t))
  OBVIOUS
<1>3. text' = [op |-> "ask", s |-> s, about |-> t, contains |-> contains,
               starts |-> starts, ends |-> ends, count |-> count]
  BY <1>1, <1>2 DEF Ask
<1>4. /\ text'.op = "ask" /\ text'.s = s /\ text'.about = t /\ text'.contains = contains
      /\ text'.starts = starts /\ text'.ends = ends /\ text'.count = count
  BY <1>3
<1>5. StringTyped'
  BY <1>4 DEF StringTyped
<1>6. SplitKeeps' /\ ReplaceFits'
  BY <1>4 DEF SplitKeeps, ReplaceFits
<1>7. AnswersAgree'
  <2>1. ASSUME CString(s) = s
        PROVE  /\ starts \/ ends => contains
               /\ t # <<>> => (contains <=> count > 0)
    <3>1. s \in Seq(TextChars \ {NUL})
      BY <2>1, CStringIs
    <3>2. t \in Seq(TextChars \ {NUL}) /\ NUL \notin TextChars \ {NUL}
      BY TextsTyped
    <3>3. /\ StartsWith(s, t) \/ EndsWith(s, t) => TextContains(s, t)
          /\ t # <<>> => (TextContains(s, t) <=> Cardinality(Occurrences(s, t)) > 0)
      BY <3>1, <3>2, AnswersFit
    <3> QED
      BY <1>2, <3>3, Zenon
  <2> QED
    BY <1>4, <2>1, Zenon DEF AnswersAgree
<1> QED
  BY <1>5, <1>6, <1>7 DEF TextInv, TextKept

(* SimpleString: what a string does keeps the text, and replace stays in   *)
(* what it allocated unless two occurrences overlap.                       *)
THEOREM TextsAreKept ==
  BodySpec => []TextKept
<1>1. BodyInit => TextInv
  BY DEF BodyInit, NoText, TextInv, StringTyped, TextKept, SplitKeeps, AnswersAgree, ReplaceFits
<1>2. TextInv /\ [BodyNext]_bodyVars => TextInv'
  <2> SUFFICES ASSUME TextInv, [BodyNext]_bodyVars PROVE TextInv'
    OBVIOUS
  <2>1. ASSUME UNCHANGED strings PROVE TextInv'
    BY <2>1 DEF strings, TextInv, StringTyped, TextKept, SplitKeeps, AnswersAgree, ReplaceFits
  <2>2. ASSUME Construct PROVE TextInv'
    <3>1. PICK t \in Texts : Becomes(t)
      BY <2>2 DEF Construct
    <3>2. t \in Seq(TextChars)
      BY TextsTyped
    <3> QED
      BY <3>1, <3>2, BecomesKeeps
  <2>3. ASSUME Change PROVE TextInv'
    BY <2>3, ChangeKeeps
  <2>4. ASSUME NEW to \in Texts, NEW with \in Texts, ReplaceText(to, with) PROVE TextInv'
    BY <2>4, ReplaceKeeps
  <2>5. ASSUME NEW t \in Texts, SplitAt(t) \/ Ask(t) PROVE TextInv'
    BY <2>5, SplitKeepsText, AskKeeps
  <2> QED
    BY <2>1, <2>2, <2>3, <2>4, <2>5, TextChanges, Zenon
<1>3. TextInv => TextKept
  BY DEF TextInv
<1> QED
  BY <1>1, <1>2, <1>3, PTL DEF BodySpec

-------------------------------------------------------------------------------
(* A run in separate processes                                             *)

(* What the status of a child that has ended says is what happened in it.  *)
EndedHonestly(t) ==
  /\ t \in signalled => child[t] \in {"killed", "reaped", "lost"}
  /\ child[t] = "killed" => t \in signalled
  /\ child[t] \in {"exited", "reaped"} /\ t \notin signalled /\ code[t] = 0 => raised[t] = 0

(* The parent waits for one child, which nobody else waits for, and the    *)
(* tests behind it have not been started.                                  *)
OneAtATime ==
  /\ ppc \in {"wait", "continue"} =>
       /\ test \in Tests
       /\ child[test] \in {"running", "stopped", "paused", "exited", "killed"}
  /\ \A t \in Tests : t > test \/ (t = test /\ ppc \in {"next", "done"}) => child[t] = "none"

(* NoneLeftBehind and ExactFailures follow with these; the count is kept   *)
(* also while the parent waits.                                            *)
IInv ==
  /\ TypeOK
  /\ OneAtATime
  /\ NoneLeftBehind
  /\ \A t \in Tests : EndedHonestly(t)
  /\ failures = seen + Cardinality(NotPassed)

ChildStep == \E t \in Tests : Raise(t) \/ Finish(t) \/ CallExit(t) \/ Crash(t) \/ Stop(t) \/ Resume(t)

LEMMA NotPassedFinite ==
  ASSUME test \in Nat
  PROVE  IsFiniteSet(NotPassed) /\ Cardinality(NotPassed) \in Nat
<1>1. IsFiniteSet(1 .. test - 1)
  BY FS_Interval
<1>2. IsFiniteSet(NotPassed)
  BY <1>1, FS_Subset DEF NotPassed
<1> QED
  BY <1>2, FS_CardinalityType

(* When the parent goes on, the test it leaves is the only one that can    *)
(* join those that did not pass.                                           *)
LEMMA OneMore ==
  ASSUME TypeOK, NEW t \in Tests, test = t, test' = t + 1,
         \A s \in 1 .. t - 1 : Passed(s)' <=> Passed(s)
  PROVE  Cardinality(NotPassed)' = Cardinality(NotPassed) + (IF Passed(t)' THEN 0 ELSE 1)
<1>1. t \in Nat \ {0} /\ test \in Nat
  BY SeparateAssumption DEF Tests
<1>2. 1 .. test' - 1 = 1 .. t - 1 \cup {t} /\ t \notin 1 .. t - 1
  BY <1>1
<1>3. IsFiniteSet(NotPassed) /\ Cardinality(NotPassed) \in Nat /\ t \notin NotPassed
  BY <1>1, <1>2, NotPassedFinite DEF NotPassed
<1>4. CASE Passed(t)'
  <2>1. NotPassed' = NotPassed
    BY <1>1, <1>2, <1>4 DEF NotPassed
  <2> QED
    BY <2>1, <1>3, <1>4
<1>5. CASE ~ Passed(t)'
  <2>1. NotPassed' = NotPassed \cup {t}
    BY <1>1, <1>2, <1>5 DEF NotPassed
  <2> QED
    BY <2>1, <1>3, <1>5, FS_AddElement
<1> QED
  BY <1>4, <1>5

-------------------------------------------------------------------------------
(* A child that is still to be waited for moves: nothing the parent has    *)
(* counted changes.                                                        *)
LEMMA ChildMoves ==
  ASSUME IInv, NEW t \in Tests,
         child[t] \in {"running", "stopped", "paused"},
         child'[t] \in {"running", "stopped", "exited", "killed"},
         UNCHANGED parent, TypeOK', EndedHonestly(t)',
         \A s \in Tests \ {t} : /\ child'[s] = child[s] /\ code'[s] = code[s]
                                /\ raised'[s] = raised[s]
                                /\ s \in signalled' <=> s \in signalled
  PROVE  IInv'
<1>1. OneAtATime'
  BY DEF IInv, OneAtATime, parent
<1>2. NoneLeftBehind'
  <2>1. test \in 1 .. NTests + 1 /\ test' = test /\ gaveUp' = gaveUp
    BY DEF IInv, TypeOK, parent
  <2>2. 1 .. test - 1 \subseteq Tests
    BY <2>1, SeparateAssumption DEF Tests
  <2>3. NoneLeftBehind
    BY DEF IInv
  <2> QED
    BY <2>1, <2>2, <2>3 DEF NoneLeftBehind
<1>3. \A s \in Tests : EndedHonestly(s)'
  BY DEF IInv, EndedHonestly
<1>4. \A s \in 1 .. test - 1 : s \in Tests /\ (Passed(s)' <=> Passed(s))
  <2>1. test \in 1 .. NTests + 1
    BY DEF IInv, TypeOK
  <2>2. 1 .. test - 1 \subseteq Tests
    BY <2>1, SeparateAssumption DEF Tests
  <2>3. \A s \in Tests : Passed(s)' <=> Passed(s)
    BY DEF Passed
  <2> QED
    BY <2>2, <2>3
<1>5. NotPassed' = NotPassed
  BY <1>4 DEF NotPassed, parent
<1> QED
  BY <1>1, <1>2, <1>3, <1>5 DEF IInv, parent

LEMMA ChildStepKeeps ==
  ASSUME IInv, ChildStep, 0 \notin ExitCodes
  PROVE  IInv'
<1> USE SeparateAssumption
<1> PICK t \in Tests : Raise(t) \/ Finish(t) \/ CallExit(t) \/ Crash(t) \/ Stop(t) \/ Resume(t)
  BY DEF ChildStep
<1>0. TypeOK /\ EndedHonestly(t)
  BY DEF IInv
<1>1. CASE Raise(t)
  <2>1. TypeOK'
    BY <1>0, <1>1 DEF TypeOK, Raise, parent
  <2>2. EndedHonestly(t)'
    BY <1>0, <1>1 DEF EndedHonestly, Raise
  <2> QED
    BY <1>0, <1>1, <2>1, <2>2, ChildMoves DEF Raise, TypeOK
<1>2. CASE Finish(t) \/ CallExit(t)
  <2>1. PICK n \in ExitCodes \cup {0, 1} : ExitWith(t, n) /\ (n = 0 => raised[t] = 0)
    BY <1>0, <1>2 DEF Finish, CallExit, TypeOK
  <2>2. TypeOK'
    BY <1>0, <2>1 DEF TypeOK, ExitWith, parent, ChildStates
  <2>3. EndedHonestly(t)'
    BY <1>0, <2>1 DEF EndedHonestly, ExitWith, TypeOK
  <2> QED
    BY <1>0, <2>1, <2>2, <2>3, ChildMoves DEF ExitWith, TypeOK
<1>3. CASE Crash(t)
  <2>1. TypeOK'
    BY <1>0, <1>3 DEF TypeOK, Crash, parent, ChildStates
  <2>2. EndedHonestly(t)'
    BY <1>0, <1>3 DEF EndedHonestly, Crash, TypeOK
  <2> QED
    BY <1>0, <1>3, <2>1, <2>2, ChildMoves DEF Crash, TypeOK
<1>4. CASE Stop(t) \/ Resume(t)
  <2>1. TypeOK'
    BY <1>0, <1>4 DEF TypeOK, Stop, Resume, parent, ChildStates
  <2>2. EndedHonestly(t)'
    BY <1>0, <1>4 DEF EndedHonestly, Stop, Resume, TypeOK
  <2> QED
    BY <1>0, <1>4, <2>1, <2>2, ChildMoves DEF Stop, Resume, TypeOK
<1> QED
  BY <1>1, <1>2, <1>3, <1>4

-------------------------------------------------------------------------------
(* The parent is through with a test: it has waited for its child, or has  *)
(* none, or gives up, and has counted a failure unless the test passed.    *)
LEMMA GoesOn ==
  ASSUME IInv, TypeOK', NEW t \in Tests, test = t, ppc \in {"next", "wait"},
         ppc' = "next", test' = t + 1, seen' = seen,
         UNCHANGED <<code, signalled, raised>>, gaveUp \subseteq gaveUp',
         \A s \in Tests \ {t} : child'[s] = child[s],
         t \in gaveUp' \/ child'[t] \in {"none", "reaped", "lost"},
         EndedHonestly(t)',
         failures' = failures + (IF Passed(t)' THEN 0 ELSE 1)
  PROVE  IInv'
<1> USE SeparateAssumption
<1>1. OneAtATime'
  BY DEF IInv, OneAtATime, Tests
<1>2. NoneLeftBehind'
  BY DEF IInv, NoneLeftBehind, Tests
<1>3. \A s \in Tests : EndedHonestly(s)'
  <2> SUFFICES ASSUME NEW s \in Tests PROVE EndedHonestly(s)'
    OBVIOUS
  <2>1. CASE s # t
    BY <2>1 DEF IInv, EndedHonestly
  <2> QED
    BY <2>1
<1>4. \A s \in 1 .. t - 1 : s \in Tests \ {t} /\ (Passed(s)' <=> Passed(s))
  <2>1. 1 .. t - 1 \subseteq Tests \ {t}
    BY DEF Tests
  <2>2. \A s \in Tests \ {t} : Passed(s)' <=> Passed(s)
    BY DEF Passed
  <2> QED
    BY <2>1, <2>2
<1>5. Cardinality(NotPassed)' = Cardinality(NotPassed) + (IF Passed(t)' THEN 0 ELSE 1)
  BY <1>4, OneMore DEF IInv
<1>6. Cardinality(NotPassed) \in Nat /\ failures \in Nat /\ seen \in Nat
  BY NotPassedFinite DEF IInv, TypeOK, Tests
<1> QED
  BY <1>1, <1>2, <1>3, <1>5, <1>6 DEF IInv

(* The parent stays with the test: what it has counted is the same, but    *)
(* for a stop that it has seen.                                            *)
LEMMA StaysWith ==
  ASSUME IInv, TypeOK', NEW t \in Tests, test = t, test' = t, ppc' \in {"wait", "continue"},
         UNCHANGED <<code, signalled, raised, gaveUp>>,
         \A s \in Tests \ {t} : child'[s] = child[s],
         child'[t] \in {"running", "stopped", "paused", "exited", "killed"},
         EndedHonestly(t)',
         failures' - seen' = failures - seen
  PROVE  IInv'
<1> USE SeparateAssumption
<1>1. OneAtATime'
  BY DEF IInv, OneAtATime, Tests
<1>2. NoneLeftBehind'
  BY DEF IInv, NoneLeftBehind, Tests
<1>3. \A s \in Tests : EndedHonestly(s)'
  <2> SUFFICES ASSUME NEW s \in Tests PROVE EndedHonestly(s)'
    OBVIOUS
  <2>1. CASE s # t
    BY <2>1 DEF IInv, EndedHonestly
  <2> QED
    BY <2>1
<1>4. NotPassed' = NotPassed
  <2>1. \A s \in 1 .. t - 1 : s \in Tests \ {t}
    BY DEF Tests
  <2>2. \A s \in 1 .. t - 1 : Passed(s)' <=> Passed(s)
    BY <2>1 DEF Passed
  <2> QED
    BY <2>2 DEF NotPassed
<1>5. Cardinality(NotPassed) \in Nat /\ failures \in Nat /\ seen \in Nat /\ failures' \in Nat /\ seen' \in Nat
  BY NotPassedFinite DEF IInv, TypeOK, Tests
<1> QED
  BY <1>1, <1>2, <1>3, <1>4, <1>5 DEF IInv

LEMMA ParentKeeps ==
  ASSUME IInv, Returning \/ ForkFails \/ WaitFails \/ WaitInterrupted \/ GiveUp
  PROVE  IInv'
<1> USE SeparateAssumption
<1>0. TypeOK /\ OneAtATime /\ \A t \in Tests : EndedHonestly(t)
  BY DEF IInv
<1>1. test \in Nat /\ (ppc = "next" /\ test <= NTests => test \in Tests)
  BY <1>0 DEF TypeOK, Tests
<1>2. CASE Fork
  <2> PICK t \in Tests : t = test
    BY <1>1, <1>2 DEF Fork
  <2>1. child[t] = "none"
    BY <1>0, <1>2 DEF Fork, OneAtATime
  <2>2. TypeOK'
    BY <1>0, <1>2 DEF TypeOK, Fork, ChildStates
  <2>3. EndedHonestly(t)'
    BY <1>0, <1>2, <2>1 DEF EndedHonestly, Fork, TypeOK
  <2> QED
    BY <1>0, <1>2, <2>2, <2>3, StaysWith DEF Fork, TypeOK
<1>3. CASE ForkFails
  <2> PICK t \in Tests : t = test
    BY <1>1, <1>3 DEF ForkFails
  <2>1. child[t] = "none" /\ ~ Passed(t)'
    BY <1>0, <1>3 DEF ForkFails, OneAtATime, Passed
  <2>2. TypeOK'
    BY <1>0, <1>1, <1>3 DEF TypeOK, ForkFails, GoOn
  <2>3. EndedHonestly(t)'
    BY <1>0, <1>3, <2>1 DEF EndedHonestly, ForkFails
  <2> QED
    BY <1>3, <2>1, <2>2, <2>3, GoesOn DEF ForkFails, GoOn
<1>4. CASE WaitEnded
  <2> PICK t \in Tests : t = test
    BY <1>0, <1>4 DEF WaitEnded, OneAtATime
  <2>1. TypeOK'
    <3>1. failures' \in Nat /\ test' \in 1 .. NTests + 1
      BY <1>0, <1>4 DEF TypeOK, WaitEnded, GoOn, Tests
    <3>2. child' \in [Tests -> ChildStates]
      BY <1>0, <1>4 DEF TypeOK, WaitEnded, ChildStates
    <3>3. ppc' = "next" /\ UNCHANGED <<retries, seen, gaveUp, code, signalled, raised, stops>>
      BY <1>4 DEF WaitEnded, GoOn
    <3> QED
      BY <1>0, <3>1, <3>2, <3>3 DEF TypeOK
  <2>2. EndedHonestly(t)' /\ (Passed(t)' <=> ~ FailedByStatus(t))
    BY <1>0, <1>4 DEF EndedHonestly, WaitEnded, Passed, FailedByStatus, TypeOK
  <2> QED
    BY <1>0, <1>4, <2>1, <2>2, GoesOn DEF WaitEnded, GoOn, TypeOK
<1>5. CASE WaitStopped \/ SendContinue \/ WaitInterrupted
  <2> PICK t \in Tests : t = test
    BY <1>0, <1>5 DEF WaitStopped, SendContinue, WaitInterrupted, OneAtATime
  <2>1. TypeOK'
    <3>1. child' \in [Tests -> ChildStates]
      BY <1>0, <1>5 DEF TypeOK, WaitStopped, SendContinue, WaitInterrupted, ChildStates
    <3>2. /\ ppc' \in {"wait", "continue"} /\ retries' \in 0 .. MaxRetries + 1
          /\ failures' \in Nat /\ seen' \in Nat
      BY <1>0, <1>5 DEF TypeOK, WaitStopped, SendContinue, WaitInterrupted
    <3>3. UNCHANGED <<test, gaveUp, code, signalled, raised, stops>>
      BY <1>5 DEF WaitStopped, SendContinue, WaitInterrupted
    <3> QED
      BY <1>0, <3>1, <3>2, <3>3 DEF TypeOK
  <2>2. child'[t] \in {"running", "stopped", "paused", "exited", "killed"}
    BY <1>0, <1>5 DEF TypeOK, OneAtATime, WaitStopped, SendContinue, WaitInterrupted
  <2>3. EndedHonestly(t)'
    BY <1>0, <1>5 DEF EndedHonestly, TypeOK, WaitStopped, SendContinue, WaitInterrupted
  <2>4. failures' - seen' = failures - seen
    BY <1>0, <1>5 DEF TypeOK, WaitStopped, SendContinue, WaitInterrupted
  <2> QED
    BY <1>0, <1>5, <2>1, <2>2, <2>3, <2>4, StaysWith
    DEF WaitStopped, SendContinue, WaitInterrupted, TypeOK
<1>6. CASE GiveUp \/ WaitFails
  <2> PICK t \in Tests : t = test
    BY <1>0, <1>6 DEF GiveUp, WaitFails, OneAtATime
  <2>1. TypeOK'
    <3>1. child' \in [Tests -> ChildStates]
      BY <1>0, <1>6 DEF TypeOK, GiveUp, WaitFails, ChildStates
    <3>2. ppc' = "next" /\ failures' \in Nat /\ gaveUp' \subseteq Tests
      <4>1. gaveUp' \subseteq gaveUp \cup {t} /\ ppc' = "next" /\ failures' = failures + 1
        BY <1>6 DEF GiveUp, WaitFails, GoOn
      <4>2. gaveUp \subseteq Tests /\ failures \in Nat
        BY <1>0 DEF TypeOK
      <4> QED
        BY <4>1, <4>2
    <3>3. test' \in 1 .. NTests + 1
      BY <1>6 DEF GiveUp, WaitFails, GoOn, Tests
    <3>4. UNCHANGED <<retries, seen, code, signalled, raised, stops>>
      BY <1>6 DEF GiveUp, WaitFails
    <3> QED
      BY <1>0, <3>1, <3>2, <3>3, <3>4 DEF TypeOK
  <2>2. EndedHonestly(t)'
    BY <1>0, <1>6 DEF EndedHonestly, GiveUp, WaitFails, TypeOK
  <2>3. ~ Passed(t)'
    BY <1>0, <1>6 DEF Passed, GiveUp, WaitFails, OneAtATime, TypeOK
  <2> QED
    BY <1>0, <1>6, <2>1, <2>2, <2>3, GoesOn DEF GiveUp, WaitFails, GoOn, TypeOK
<1>7. CASE EndRun
  <2>1. TypeOK'
    BY <1>0, <1>7 DEF TypeOK, EndRun
  <2>2. OneAtATime'
    BY <1>0, <1>7 DEF OneAtATime, EndRun
  <2>3. NotPassed' = NotPassed /\ (NoneLeftBehind => NoneLeftBehind')
    BY <1>7 DEF NotPassed, NoneLeftBehind, Passed, EndRun
  <2>4. \A t \in Tests : EndedHonestly(t)'
    BY <1>0, <1>7 DEF EndedHonestly, EndRun
  <2> QED
    BY <1>7, <2>1, <2>2, <2>3, <2>4 DEF IInv, EndRun
<1> QED
  BY <1>2, <1>3, <1>4, <1>5, <1>6, <1>7 DEF Returning

-------------------------------------------------------------------------------
LEMMA Initially == Init => IInv
<1> SUFFICES ASSUME Init PROVE IInv
  OBVIOUS
<1> USE SeparateAssumption
<1>1. TypeOK /\ OneAtATime /\ NoneLeftBehind /\ \A t \in Tests : EndedHonestly(t)
  BY DEF Init, TypeOK, OneAtATime, NoneLeftBehind, EndedHonestly, Tests, ChildStates
<1>2. NotPassed = {}
  BY DEF Init, NotPassed
<1>3. Cardinality(NotPassed) = 0
  BY <1>2, FS_EmptySet
<1> QED
  BY <1>1, <1>3 DEF Init, IInv

LEMMA Always ==
  ASSUME 0 \notin ExitCodes
  PROVE  Spec => []IInv
<1>1. ASSUME IInv, [Next]_vars
      PROVE  IInv'
  <2>1. CASE ChildStep
    BY <1>1, <2>1, ChildStepKeeps
  <2>2. CASE Returning \/ ForkFails \/ WaitFails \/ WaitInterrupted \/ GiveUp
    BY <1>1, <2>2, ParentKeeps
  <2>3. CASE UNCHANGED vars
    <3>1. TypeOK' /\ OneAtATime' /\ NoneLeftBehind' /\ NotPassed' = NotPassed
      BY <1>1, <2>3
      DEF vars, parent, IInv, TypeOK, OneAtATime, NoneLeftBehind, NotPassed, Passed
    <3>2. \A t \in Tests : EndedHonestly(t)'
      BY <1>1, <2>3 DEF vars, IInv, EndedHonestly
    <3> QED
      BY <1>1, <2>3, <3>1, <3>2 DEF IInv, vars, parent
  <2> QED
    BY <1>1, <2>1, <2>2, <2>3 DEF Next, ChildStep, Terminated
<1> QED
  BY <1>1, Initially, PTL DEF Spec

(* Whatever becomes of the children and of the waiting, the failures of    *)
(* the parent are the tests that did not pass and the stops it saw.        *)
THEOREM FailuresAreExact ==
  ASSUME 0 \notin ExitCodes
  PROVE  Spec => []ExactFailures
<1>1. IInv => ExactFailures
  BY DEF IInv, ExactFailures
<1> QED
  BY <1>1, Always, PTL

(* The child of every earlier test has been waited for, or the parent was  *)
(* interrupted too often.                                                  *)
THEOREM TestsDoNotOverlap ==
  ASSUME 0 \notin ExitCodes
  PROVE  Spec => []NoneLeftBehind
<1>1. IInv => NoneLeftBehind
  BY DEF IInv
<1> QED
  BY <1>1, Always, PTL

(* Every variable keeps its type.                                          *)
THEOREM TypeCorrect ==
  ASSUME 0 \notin ExitCodes
  PROVE  Spec => []TypeOK
<1>1. IInv => TypeOK
  BY DEF IInv
<1> QED
  BY <1>1, Always, PTL
===============================================================================
