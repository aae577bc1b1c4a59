------------------------------- MODULE MockCall -------------------------------
(***************************************************************************)
(* The call matching of the global mock: the expectations of one           *)
(* cum_scope, the actual call in progress, and the tests that drive them,  *)
(* one after another, through a fixture with MockSupportPlugin installed   *)
(* (src/src/mock/mock_core.c, src/include/CppUTestExt/MockSupportPlugin.h).*)
(*                                                                         *)
(* A chain expectNCalls(n, fn).withParameter(..).andReturn.. touches only  *)
(* the expectation it builds and is one action.  A chain actualCall(fn)    *)
(* .withParameter(..).onObject(..) is one action per link: each link       *)
(* narrows the candidates, may claim one, and may end the section of the   *)
(* test that called it.                                                    *)
(***************************************************************************)
EXTENDS Naturals, Sequences, FiniteSetsExt

CONSTANTS
  Wants,      \* what an expectation asks of a call
  Amounts,    \* the n of expectNCalls
  Orders,     \* withCallOrder windows <<first, last>>; <<0, 0>> is "none given"
  Functions,  \* names of mocked functions
  Inputs,     \* input parameters <<name, value>> that calls pass
  Outputs,    \* output parameters <<name, type>> that calls pass
  Copiers,    \* output types that can be copied: the plain one, and those with a copier
  Objects,    \* objects that calls are made on
  AnyObject,  \* an expectation without onObject()
  Suites,     \* what the tests of a run use: which of the above, and which settings
  MaxWants,   \* bound: expectations alive at a time
  MaxCalls,   \* bound: counted actual calls of a test
  MaxArgs,    \* bound: parameters passed to one call
  MaxTests    \* bound: tests of the run

VARIABLES
  suite,          \* the member of Suites the run executes
  exps,           \* scope->expectations, in declaration order
  call,           \* scope->last_actual, or NoCall
  enabled,        \* scope->enabled
  strict,         \* scope->strict_ordering
  ignoring,       \* scope->ignore_other_calls
  expectedOrder,  \* scope->expected_call_order
  actualOrder,    \* scope->actual_call_order
  phase,          \* where the fixture of the running test is
  test,           \* number of the running test
  failed,         \* current_test->has_failed
  parked,         \* what mock_fail's static slot points to
  freedTwice,     \* history: a parked message was freed a second time
  charges         \* history: the calls charged since the mock was last cleared

mock == <<exps, call, enabled, strict, ignoring, expectedOrder, actualOrder, charges>>
testVars == <<phase, test, failed, parked, freedTwice>>
vars == <<suite, mock, testVars>>

-------------------------------------------------------------------------------
(* The data *)

InNames == {p[1] : p \in Inputs}
OutNames == {p[1] : p \in Outputs}

(* in and out are functions from the names of the parameters to the value  *)
(* or type they must have, "unmodified" for an output that stays as it is; *)
(* others stands for ignoreOtherParameters().                              *)
ASSUME WantsAssumption ==
  /\ \A w \in Wants : /\ w.fn \in Functions /\ w.others \in BOOLEAN
                      /\ DOMAIN w.in \subseteq InNames /\ DOMAIN w.out \subseteq OutNames
                      /\ w.object \in Objects \cup {AnyObject}
  /\ AnyObject \notin Objects
  /\ InNames \cap OutNames = {}
  /\ Amounts \subseteq Nat /\ Orders \subseteq Nat \X Nat

ASSUME SuitesAssumption ==
  /\ \A s \in Suites : /\ s.wants \subseteq Wants /\ s.amounts \subseteq Amounts
                       /\ s.orders \subseteq Orders /\ s.calls \subseteq Functions
                       /\ s.inputs \subseteq Inputs /\ s.outputs \subseteq Outputs
                       /\ s.objects \subseteq Objects /\ s.tests \in 1..MaxTests
  /\ MaxTests \in Nat

ExpType ==
  [want : Wants, amount : Amounts, calls : Nat, first : Nat, last : Nat, late : BOOLEAN,
   marks : SUBSET (InNames \cup OutNames), onObject : BOOLEAN, cand : BOOLEAN]

NoCall == [state |-> "none"]

(* matching and from are positions in exps, 0 for none; from tells whose   *)
(* data the caller's buffer holds.  ins, object, known and clean are       *)
(* history: the parameters and object passed, the number of expectations   *)
(* when the call began, and that none of them carried marks then and the   *)
(* call has not been renamed.                                              *)
CallType ==
  [fn : Functions, state : {"open", "succeed", "failed"}, checked : BOOLEAN, matching : Nat,
   order : Nat, outs : Seq([name : OutNames, type : {p[2] : p \in Outputs}, from : Nat]),
   ins : Seq(Inputs), object : Objects \cup {AnyObject}, known : Nat, clean : BOOLEAN]

Phases == {"body", "teardown", "destroy", "plugin", "clear", "over", "dead"}

TypeOK ==
  /\ suite \in Suites
  /\ exps \in Seq(ExpType)
  /\ call \in CallType \cup {NoCall}
  /\ enabled \in BOOLEAN /\ strict \in BOOLEAN /\ ignoring \in BOOLEAN
  /\ expectedOrder \in Nat /\ actualOrder \in Nat
  /\ phase \in Phases /\ test \in 1..MaxTests /\ failed \in BOOLEAN
  /\ parked \in {"nothing", "message", "freed"} /\ freedTwice \in BOOLEAN
  /\ charges \in Seq([exp : DOMAIN exps, call : CallType])

-------------------------------------------------------------------------------
(* Expectations *)

Names(want) == DOMAIN want.in \cup DOMAIN want.out

Fulfilled(e) == e.calls = e.amount

Reset(e) == [e EXCEPT !.marks = {}, !.onObject = (e.want.object = AnyObject)]

AllMatched(e) == e.marks = Names(e.want)

IsMatching(e) == e.cand /\ AllMatched(e) /\ e.onObject

IsFinal(e) == IsMatching(e) /\ ~e.want.others

Accepts(want, p) == IF p[1] \in DOMAIN want.in THEN want.in[p[1]] = p[2] ELSE want.others

(* An output that is to stay unmodified has no type and no data.           *)
out_types_match(expected, type) ==
  expected = type \/ (expected = "unmodified" /\ type = "plain")

AcceptsOut(want, p) ==
  IF p[1] \in DOMAIN want.out THEN out_types_match(want.out[p[1]], p[2]) ELSE want.others

AcceptsObject(want, o) == want.object \in {AnyObject, o}

(* Mutant: a call before its window is not noticed.                        *)
LateNotEarly(e, order) == e.first # 0 /\ order > e.last

Late(e, order) == e.first # 0 /\ order \notin e.first .. e.last

Charge(e, order) == Reset([e EXCEPT !.calls = @ + 1, !.late = @ \/ Late(e, order)])

ClearCandidates(es) ==
  [i \in DOMAIN es |-> IF es[i].cand THEN Reset([es[i] EXCEPT !.cand = FALSE]) ELSE es[i]]

(* Only the expectations at S stay candidates; the others keep their marks. *)
Keep(es, S) == [i \in DOMAIN es |-> [es[i] EXCEPT !.cand = @ /\ i \in S]]

Mark(es, n) ==
  [i \in DOMAIN es |-> IF es[i].cand /\ n \in Names(es[i].want)
                       THEN [es[i] EXCEPT !.marks = @ \cup {n}] ELSE es[i]]

Candidates(es) == {i \in DOMAIN es : es[i].cand}

First(S) == IF S = {} THEN 0 ELSE Min(S)

-------------------------------------------------------------------------------
(* The call in progress.  A step of it yields the expectations, the call   *)
(* and whether it called mock_fail.                                        *)

Step(es, c, bad) == [exps |-> es, call |-> c, bad |-> bad]

FailedStep(es, c) == Step(es, [c EXCEPT !.state = "failed"], TRUE)

(* The destinations that expectation want writes, and the one at which     *)
(* copying stops for want of a copier: the latest passed is tried first.   *)
Written(want, outs) ==
  {j \in DOMAIN outs : outs[j].name \in DOMAIN want.out /\ want.out[outs[j].name] = outs[j].type}

Uncopyable(want, outs) ==
  LET stops == {j \in Written(want, outs) : outs[j].type \notin Copiers}
  IN  IF stops = {} THEN 0 ELSE Max(stops)

CopyOutputs(es, c, i) ==
  LET stop == Uncopyable(es[i].want, c.outs)
      to == {j \in Written(es[i].want, c.outs) : j > stop}
      copied == [c EXCEPT !.outs = [j \in DOMAIN @ |-> IF j \in to THEN [@[j] EXCEPT !.from = i]
                                                       ELSE @[j]]]
  IN  IF stop = 0 THEN Step(es, copied, FALSE) ELSE FailedStep(es, copied)

(* Mutant: the first full match claims, also one that ignores parameters.  *)
CompleteFirstMatch(es, c) ==
  LET match == First({i \in DOMAIN es : IsMatching(es[i])})
  IN  IF match = 0 THEN Step(es, c, FALSE)
      ELSE CopyOutputs([es EXCEPT ![match].cand = FALSE],
                       [c EXCEPT !.matching = match, !.state = "succeed"], match)

(* Mutant: outputs are copied for a claimed expectation only.              *)
CompleteWithoutCopy(es, c) ==
  LET final == First({i \in DOMAIN es : IsFinal(es[i])})
  IN  IF final = 0 THEN Step(es, c, FALSE)
      ELSE CopyOutputs([es EXCEPT ![final].cand = FALSE],
                       [c EXCEPT !.matching = final, !.state = "succeed"], final)

(* A full match of an expectation that is not ignoring other parameters    *)
(* claims the call; an ignoring one only gets its outputs copied.          *)
Complete(es, c) ==
  LET final == First({i \in DOMAIN es : IsFinal(es[i])})
      match == First({i \in DOMAIN es : IsMatching(es[i])})
  IN  IF final # 0
      THEN CopyOutputs([es EXCEPT ![final].cand = FALSE],
                       [c EXCEPT !.matching = final, !.state = "succeed"], final)
      ELSE IF match # 0 THEN CopyOutputs(es, c, match)
      ELSE Step(es, c, FALSE)

(* Another parameter reopens the call: what it had claimed is given up,    *)
(* and every expectation that was complete without it.                     *)
Reopened(es, c) ==
  [i \in DOMAIN es |-> IF i = c.matching THEN Reset(es[i])
                       ELSE IF IsFinal(es[i]) THEN Reset([es[i] EXCEPT !.cand = FALSE])
                       ELSE es[i]]

(* The expectations once the call c is charged to the one at i.            *)
Charged(es, c, i) == ClearCandidates([es EXCEPT ![i] = Charge([@ EXCEPT !.cand = FALSE], c.order)])

(* The end of a call, which happens once.  jumps: mock_fail will not       *)
(* return, and leaves the candidates as they are.                          *)
Unsettled(c) == c # NoCall /\ ~c.checked

Finalized(es, c, jumps) ==
  LET done == [c EXCEPT !.checked = TRUE]
      match == First({i \in DOMAIN es : IsMatching(es[i])})
  IN  IF ~Unsettled(c) THEN Step(es, c, FALSE)
      ELSE IF c.state = "succeed" /\ c.matching # 0
           THEN Step(Charged(es, c, c.matching), done, FALSE)
      ELSE IF c.state # "open" THEN Step(ClearCandidates(es), done, FALSE)
      ELSE IF match # 0
           THEN Step(Charged(es, c, match),
                     [done EXCEPT !.matching = match, !.state = "succeed"], FALSE)
      ELSE FailedStep(IF jumps THEN es ELSE ClearCandidates(es), done)

(* Mutant: expectations that are fulfilled are candidates again.           *)
BegunAnyRelated(es, fn, order) ==
  LET c == [fn |-> fn, state |-> "open", checked |-> FALSE, matching |-> 0, order |-> order,
            outs |-> <<>>, ins |-> <<>>, object |-> AnyObject, known |-> Len(es),
            clean |-> \A i \in DOMAIN es : es[i] = Reset(es[i])]
      related == {i \in DOMAIN es : es[i].want.fn = fn}
  IN  IF related = {} THEN FailedStep(ClearCandidates(es), c)
      ELSE Complete([i \in DOMAIN es |-> [es[i] EXCEPT !.cand = i \in related]], c)

(* A new call: the unfulfilled expectations of its name are candidates,    *)
(* with the marks that earlier calls left on them.                         *)
Begun(es, fn, order) ==
  LET c == [fn |-> fn, state |-> "open", checked |-> FALSE, matching |-> 0, order |-> order,
            outs |-> <<>>, ins |-> <<>>, object |-> AnyObject, known |-> Len(es),
            clean |-> \A i \in DOMAIN es : es[i] = Reset(es[i])]
      cleared == ClearCandidates(es)
      related == {i \in DOMAIN es : es[i].want.fn = fn /\ ~Fulfilled(es[i])}
  IN  IF related = {} THEN FailedStep(cleared, c)
      ELSE Complete([i \in DOMAIN es |-> [cleared[i] EXCEPT !.cand = i \in related]], c)

(* Only the expectations at S can still be meant; if there is none the     *)
(* call fails, otherwise the parameter name is ticked off.                 *)
Narrowed(es, c, S, name) ==
  LET kept == Keep(es, S)
  IN  IF Candidates(kept) = {} THEN FailedStep(kept, c)
      ELSE Complete(Mark(kept, name), c)

(* Mutant: a parameter that an expectation does not name never rules it    *)
(* out, whether or not it ignores other parameters.                        *)
PassedUnknownName(es, c, p) ==
  Narrowed(Reopened(es, c),
           [c EXCEPT !.state = "open", !.matching = 0, !.ins = Append(@, p)],
           {i \in DOMAIN es : p[1] \in DOMAIN es[i].want.in => Accepts(es[i].want, p)}, p[1])

Passed(es, c, p) ==
  Narrowed(Reopened(es, c),
           [c EXCEPT !.state = "open", !.matching = 0, !.ins = Append(@, p)],
           {i \in DOMAIN es : Accepts(es[i].want, p)}, p[1])

PassedOut(es, c, p) ==
  Narrowed(Reopened(es, c),
           [c EXCEPT !.state = "open", !.matching = 0,
                     !.outs = Append(@, [name |-> p[1], type |-> p[2], from |-> 0])],
           {i \in DOMAIN es : AcceptsOut(es[i].want, p)}, p[1])

(* A call already claimed stays claimed, whatever object it is made on.    *)
PassedObject(es, c, o) ==
  LET on == [c EXCEPT !.object = o]
      kept == Keep(es, {i \in DOMAIN es : AcceptsObject(es[i].want, o)})
      told == [i \in DOMAIN es |-> [kept[i] EXCEPT !.onObject = @ \/ kept[i].cand]]
  IN  IF c.state = "succeed" THEN Step(told, on, FALSE)
      ELSE IF Candidates(kept) = {} THEN FailedStep(kept, on)
      ELSE Complete(told, on)

(* Renaming takes back a claim without releasing the claimed expectation.  *)
Renamed(es, c, fn) ==
  LET kept == Keep(es, {i \in DOMAIN es : es[i].want.fn = fn})
      open == [c EXCEPT !.fn = fn, !.state = "open", !.clean = FALSE]
  IN  IF Candidates(kept) = {} THEN FailedStep(kept, open) ELSE Complete(kept, open)

-------------------------------------------------------------------------------
(* mock_fail and the fixture.  The setup and the body of a test are one    *)
(* phase here: a failure in either goes on with the teardown.              *)

After == [body |-> "teardown", teardown |-> "destroy", destroy |-> "plugin", plugin |-> "clear"]

Using == phase \in {"body", "teardown", "destroy"}

Protected == phase \in {"body", "teardown"}

Jumps == Protected /\ ~failed

(* Only the first failure of a test is reported.  Its message is parked    *)
(* for the longjmp, and freed at the next report; outside a protected      *)
(* section nothing jumps, and mock_fail itself frees what it parked.       *)
(* Freeing it again is undefined: the C library ends the program, or not.  *)
Report(bad, next) ==
  IF bad /\ ~failed
  THEN /\ freedTwice' = (freedTwice \/ parked = "freed")
       /\ \/ /\ failed' = TRUE
             /\ phase' = IF Protected THEN After[phase] ELSE next
             /\ parked' = IF Protected THEN "message" ELSE "freed"
          \/ /\ parked = "freed"
             /\ phase' = "dead"
             /\ UNCHANGED <<failed, parked>>
       /\ UNCHANGED test
  ELSE phase' = next /\ UNCHANGED <<test, failed, parked, freedTwice>>

Settle(f) ==
  charges' = IF Unsettled(call) /\ f.call.state = "succeed"
             THEN Append(charges, [exp |-> f.call.matching, call |-> f.call]) ELSE charges

settings == <<enabled, strict, ignoring, expectedOrder>>

-------------------------------------------------------------------------------
(* What a test does *)

Expect(want, n, window) ==
  /\ Using /\ enabled
  /\ Len(exps) < MaxWants
  /\ LET given == IF strict /\ window = <<0, 0>>
                  THEN <<expectedOrder + 1, expectedOrder + n>> ELSE window
     IN  exps' = Append(exps,
                   [want |-> want, amount |-> n, calls |-> 0, first |-> given[1], last |-> given[2],
                    late |-> FALSE, marks |-> {}, onObject |-> want.object = AnyObject,
                    cand |-> FALSE])
  /\ expectedOrder' = IF strict THEN expectedOrder + n ELSE expectedOrder
  /\ UNCHANGED <<suite, call, enabled, strict, ignoring, actualOrder, charges, testVars>>

StrictOrder ==
  /\ Using /\ "strict" \in suite.does
  /\ strict' = TRUE
  /\ UNCHANGED <<suite, exps, call, enabled, ignoring, expectedOrder, actualOrder, charges, testVars>>

IgnoreOtherCalls ==
  /\ Using /\ "ignore" \in suite.does
  /\ ignoring' = TRUE
  /\ UNCHANGED <<suite, exps, call, enabled, strict, expectedOrder, actualOrder, charges, testVars>>

SetEnabled(on) ==
  /\ Using /\ "disable" \in suite.does
  /\ enabled' = on
  /\ UNCHANGED <<suite, exps, call, strict, ignoring, expectedOrder, actualOrder, charges, testVars>>

Ignored(fn) == ~enabled \/ (ignoring /\ \A i \in DOMAIN exps : exps[i].want.fn # fn)

(* The previous call is finalized first; if that fails and jumps, the new  *)
(* one is never made and the previous one stays.                           *)
ActualCall(fn) ==
  /\ Using /\ actualOrder < MaxCalls
  /\ LET f == Finalized(exps, call, Jumps)
         b == Begun(f.exps, fn, actualOrder + 1)
     IN  /\ Settle(f)
         /\ \/ /\ f.bad /\ Jumps
               /\ exps' = f.exps /\ call' = f.call
               /\ Report(TRUE, phase)
               /\ UNCHANGED actualOrder
            \/ /\ ~(f.bad /\ Jumps) /\ Ignored(fn)
               /\ exps' = f.exps /\ call' = NoCall
               /\ Report(f.bad, phase)
               /\ UNCHANGED actualOrder
            \/ /\ ~(f.bad /\ Jumps) /\ ~Ignored(fn)
               /\ exps' = b.exps /\ call' = b.call
               /\ Report(f.bad \/ b.bad, phase)
               /\ actualOrder' = actualOrder + 1
  /\ UNCHANGED <<suite, settings>>

Link(s) ==
  /\ exps' = s.exps /\ call' = s.call
  /\ Report(s.bad, phase)
  /\ UNCHANGED <<suite, settings, actualOrder, charges>>

(* A call that has failed takes no more parameters.                        *)
Passing == Using /\ call # NoCall /\ call.state # "failed" /\ Len(call.ins) + Len(call.outs) < MaxArgs

WithParameter(p) == Passing /\ Link(Passed(exps, call, p))

WithOutputParameter(p) == Passing /\ Link(PassedOut(exps, call, p))

(* A call is made on at most one object.                                   *)
OnObject(o) ==
  /\ Using /\ call # NoCall /\ call.state # "failed" /\ call.object = AnyObject
  /\ Link(PassedObject(exps, call, o))

WithName(fn) ==
  /\ Using /\ call # NoCall /\ "rename" \in suite.does
  /\ Link(Renamed(exps, call, fn))

(* Reading the return value, or asking for expectedCallsLeft().            *)
ReadReturnValue ==
  /\ Using /\ Unsettled(call)
  /\ LET f == Finalized(exps, call, Jumps)
     IN  /\ exps' = f.exps /\ call' = f.call
         /\ Settle(f)
         /\ Report(f.bad, phase)
  /\ UNCHANGED <<suite, settings, actualOrder>>

(* Mutant: an open call counts as one that has been reported.              *)
CheckExpectationsOpenFailed(next) ==
  LET lastFailed == call # NoCall /\ call.state # "succeed"
      f == Finalized(exps, call, Jumps)
      unmet == \E i \in DOMAIN exps : ~Fulfilled(f.exps[i])
      late == \E i \in DOMAIN exps : f.exps[i].late
  IN  /\ exps' = f.exps /\ call' = f.call
      /\ Settle(f)
      /\ Report(f.bad \/ (~lastFailed /\ unmet) \/ late, next)
      /\ UNCHANGED <<suite, settings, actualOrder>>

(* A call that failed has been reported: what it left unmet is not.        *)
CheckExpectations(next) ==
  LET lastFailed == call # NoCall /\ call.state = "failed"
      f == Finalized(exps, call, Jumps)
      unmet == \E i \in DOMAIN exps : ~Fulfilled(f.exps[i])
      late == \E i \in DOMAIN exps : f.exps[i].late
  IN  /\ exps' = f.exps /\ call' = f.call
      /\ Settle(f)
      /\ Report(f.bad \/ (~lastFailed /\ unmet) \/ late, next)
      /\ UNCHANGED <<suite, settings, actualOrder>>

(* Mutant: the order counter of the expectations survives.                 *)
ClearKeepsOrder ==
  /\ exps' = <<>> /\ call' = NoCall /\ charges' = <<>>
  /\ enabled' = TRUE /\ strict' = FALSE /\ ignoring' = FALSE
  /\ actualOrder' = 0 /\ UNCHANGED expectedOrder

Clear ==
  /\ exps' = <<>> /\ call' = NoCall /\ charges' = <<>>
  /\ enabled' = TRUE /\ strict' = FALSE /\ ignoring' = FALSE
  /\ expectedOrder' = 0 /\ actualOrder' = 0

CheckInTest == Using /\ "check" \in suite.does /\ CheckExpectations(phase)

ClearInTest == Using /\ "clear" \in suite.does /\ Clear /\ UNCHANGED <<suite, testVars>>

(* Another assertion of the test fails.                                    *)
OtherFailure ==
  /\ Using /\ "fail" \in suite.does
  /\ failed' = TRUE
  /\ phase' = IF Protected THEN After[phase] ELSE phase
  /\ UNCHANGED <<suite, mock, test, parked, freedTwice>>

Return ==
  /\ Using
  /\ phase' = After[phase]
  /\ UNCHANGED <<suite, mock, test, failed, parked, freedTwice>>

-------------------------------------------------------------------------------
(* MockSupportPlugin::postTestAction, outside any protected section *)

PluginCheck == phase = "plugin" /\ ~failed /\ CheckExpectations("clear")

PluginSkipsCheck ==
  /\ phase = "plugin" /\ failed
  /\ phase' = "clear"
  /\ UNCHANGED <<suite, mock, test, failed, parked, freedTwice>>

PluginClear ==
  /\ phase = "clear"
  /\ Clear
  /\ IF test < suite.tests THEN test' = test + 1 /\ phase' = "body" ELSE phase' = "over" /\ UNCHANGED test
  /\ failed' = FALSE
  /\ UNCHANGED <<suite, parked, freedTwice>>

Terminated == phase \in {"over", "dead"} /\ UNCHANGED vars

Init ==
  /\ suite \in Suites
  /\ exps = <<>> /\ call = NoCall /\ charges = <<>>
  /\ enabled = TRUE /\ strict = FALSE /\ ignoring = FALSE
  /\ expectedOrder = 0 /\ actualOrder = 0
  /\ phase = "body" /\ test = 1 /\ failed = FALSE
  /\ parked = "nothing" /\ freedTwice = FALSE

Next ==
  \/ \E w \in suite.wants, n \in suite.amounts, o \in suite.orders : Expect(w, n, o)
  \/ StrictOrder \/ IgnoreOtherCalls \/ \E on \in BOOLEAN : SetEnabled(on)
  \/ \E fn \in suite.calls : ActualCall(fn)
  \/ \E p \in suite.inputs : WithParameter(p)
  \/ \E p \in suite.outputs : WithOutputParameter(p)
  \/ \E o \in suite.objects : OnObject(o)
  \/ \E fn \in suite.calls : WithName(fn)
  \/ ReadReturnValue \/ CheckInTest \/ ClearInTest
  \/ OtherFailure \/ Return
  \/ PluginCheck \/ PluginSkipsCheck \/ PluginClear
  \/ Terminated

Spec == Init /\ [][Next]_vars

-------------------------------------------------------------------------------
(* Properties *)

(* No sequence of calls, whatever failed or was reopened in between,       *)
(* charges an expectation more often than expectNCalls allowed.            *)
NeverOvercharged == \A i \in DOMAIN exps : exps[i].calls <= exps[i].amount

(* A call is only ever charged to an expectation of its function that      *)
(* takes every input and output parameter it passed, also when it was      *)
(* reopened after a first claim.                                           *)
CallFits ==
  \A k \in DOMAIN charges :
    LET c == charges[k].call
        want == exps[charges[k].exp].want
    IN  /\ want.fn = c.fn
        /\ \A j \in DOMAIN c.ins : Accepts(want, c.ins[j])
        /\ \A j \in DOMAIN c.outs : AcceptsOut(want, <<c.outs[j].name, c.outs[j].type>>)

(* When no mark of an earlier call was left, a call that passes exactly    *)
(* what an unfulfilled expectation names goes to such an expectation, not  *)
(* to one that ignores parameters; withName() may lose such a claim.       *)
ExactFit(c, want) ==
  /\ want.fn = c.fn /\ ~want.others /\ want.object \in {AnyObject, c.object}
  /\ Len(c.ins) = Cardinality(DOMAIN want.in) /\ Len(c.outs) = Cardinality(DOMAIN want.out)
  /\ DOMAIN want.in = {c.ins[j][1] : j \in DOMAIN c.ins}
  /\ \A j \in DOMAIN c.ins : Accepts(want, c.ins[j])
  /\ DOMAIN want.out = {c.outs[j].name : j \in DOMAIN c.outs}
  /\ \A j \in DOMAIN c.outs : AcceptsOut(want, <<c.outs[j].name, c.outs[j].type>>)

ChargesBefore(k, i) == Cardinality({j \in 1..(k - 1) : charges[j].exp = i})

ExactFitWins ==
  \A k \in DOMAIN charges :
    LET c == charges[k].call
    IN  /\ c.clean
        /\ \E i \in 1..c.known : ExactFit(c, exps[i].want) /\ ChargesBefore(k, i) < exps[i].amount
        => ExactFit(c, exps[charges[k].exp].want)

(* The buffers a charged call passed hold the data of the expectation it   *)
(* is charged to, where that one names them, not those of one it had       *)
(* claimed before or that matched on the way.                              *)
OutputsFromCharged ==
  \A k \in DOMAIN charges :
    LET c == charges[k].call
        i == charges[k].exp
    IN  \A j \in Written(exps[i].want, c.outs) : c.outs[j].from = i

Green == phase = "clear" /\ ~failed

(* A test the plugin lets pass had every expectation met exactly, and      *)
(* every counted call charged to one of them.                              *)
GreenMeansMet ==
  Green => /\ \A i \in DOMAIN exps : exps[i].calls = exps[i].amount
           /\ Len(charges) = actualOrder
           /\ \A i \in DOMAIN exps : ChargesBefore(Len(charges) + 1, i) = exps[i].amount

(* If the call order windows of two expectations do not overlap, a test    *)
(* passes only if the calls came in the order of the windows.              *)
OrderKept ==
  Green => \A j, k \in DOMAIN charges :
             LET e == exps[charges[j].exp]
                 f == exps[charges[k].exp]
             IN  e.first # 0 /\ f.first # 0 /\ f.last < e.first => k < j

(* What a test finds in the mock does not depend on the tests before it.   *)
Fresh ==
  /\ exps = <<>> /\ call = NoCall
  /\ enabled /\ ~strict /\ ~ignoring /\ expectedOrder = 0 /\ actualOrder = 0

FreshMock == [][phase = "clear" => Fresh']_vars

(* mock_core.c:589-591 says that the parked message is "released on the    *)
(* next failure": it is freed once.                                        *)
MessageFreedOnce == ~freedTwice
===============================================================================
