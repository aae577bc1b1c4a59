------------------------------ MODULE TestRunner ------------------------------
(***************************************************************************)
(* The in-process test runner (src/src/core/runner.c): the loop over the   *)
(* repeated runs, the loop over the tests, the protected sections of a     *)
(* test, and runs nested inside a test (TestTestingFixture).  Code of the  *)
(* tests and the plugins may report failures, leave the section it is in,  *)
(* or start a nested run from wherever the runner calls it.                *)
(*                                                                         *)
(* The globals current_test, current_result, plugin_pre/plugin_post and    *)
(* the jmp_buf stack are shared by all the runs that are active; a frame   *)
(* stands for the locals of one of them and the result it counts in.       *)
(***************************************************************************)
EXTENDS Naturals, SequencesExt

CONSTANTS
  Depth,        \* CU_JMP_DEPTH, the size of the jmp_buf stack
  OuterTests,   \* tests of the registry
  NestedTests,  \* tests of the registry of a nested run
  Repeat,       \* -r
  Escapes,      \* whether code outside the sections of a nested run may jump
  MaxRuns,      \* bound: nested runs
  MaxFailures   \* bound: failures

ASSUME RunnerAssumption ==
  /\ Depth \in Nat \ {0}
  /\ OuterTests \in Nat /\ NestedTests \in Nat /\ Repeat \in Nat \ {0}
  /\ Escapes \in BOOLEAN /\ MaxRuns \in Nat /\ MaxFailures \in Nat

VARIABLES
  frames,         \* the active runs, outermost first
  jmp,            \* jmp_stack: for each entry, the run whose section it is
  currentTest,    \* the run whose test current_test points to, or 0
  currentResult,  \* the run whose result current_result points to, or 0
  hooks,          \* plugin_pre and plugin_post are set
  crashOnFail,    \* -f
  loop,           \* the repetition that runs
  failedTests,    \* failed_test_count
  failedRuns,     \* failed_execution_count
  status,         \* of the process
  started         \* history: nested runs started

globals == <<currentTest, currentResult, hooks>>
verdict == <<loop, failedTests, failedRuns>>
vars == <<frames, jmp, globals, crashOnFail, verdict, status, started>>

-------------------------------------------------------------------------------

(* setup, body and teardown run in a protected section each.               *)
Sections == {"setup", "body", "teardown"}

UserCode == {"pre", "create", "destroy", "post"} \cup Sections

Saved == [test : Nat, result : Nat, hooks : BOOLEAN]

(* ran, broken and raised are history: how often each part of a test was   *)
(* started, the setups that were left by a jump, and the failures that     *)
(* code run by this very run reported, in all and before the current test. *)
Frame ==
  [test : Nat, pc : UserCode \cup {"next"}, saved : Saved, runs : Nat,
   ignored : Nat, filtered : Nat, failures : Nat, hasFailed : BOOLEAN, plugins : BOOLEAN,
   ran : [UserCode -> Nat], broken : Nat, raised : Nat, before : Nat]

NewFrame(saved, plugins) ==
  [test |-> 0, pc |-> "next", saved |-> saved, runs |-> 0, ignored |-> 0, filtered |-> 0,
   failures |-> 0, hasFailed |-> FALSE, plugins |-> plugins, ran |-> [u \in UserCode |-> 0],
   broken |-> 0, raised |-> 0, before |-> 0]

TypeOK ==
  /\ frames \in Seq(Frame)
  /\ jmp \in Seq(DOMAIN frames)
  /\ currentTest \in Nat /\ currentResult \in Nat
  /\ hooks \in BOOLEAN /\ crashOnFail \in BOOLEAN
  /\ loop \in 1..Repeat /\ failedTests \in Nat /\ failedRuns \in 0..Repeat
  /\ status \in {"running", "done", "crashed", "aborted"}
  /\ started \in Nat

Depths == Len(frames)

Top == frames[Depths]

TestsOf(level) == IF level = 1 THEN OuterTests ELSE NestedTests

NothingSaved == [test |-> 0, result |-> 0, hooks |-> FALSE]

Init ==
  /\ hooks \in BOOLEAN /\ crashOnFail \in BOOLEAN
  /\ frames = <<NewFrame(NothingSaved, hooks)>>
  /\ jmp = <<>>
  /\ currentTest = 0 /\ currentResult = 1
  /\ loop = 1 /\ failedTests = 0 /\ failedRuns = 0
  /\ status = "running" /\ started = 0

-------------------------------------------------------------------------------
(* The parts of a test *)

Following(pc) ==
  CASE pc = "pre" -> "create"
    [] pc = "create" -> "setup"
    [] pc = "setup" -> "body"
    [] pc = "body" -> "teardown"
    [] pc = "teardown" -> "destroy"
    [] pc = "destroy" -> IF hooks THEN "post" ELSE "next"
    [] pc = "post" -> "next"

(* Mutant: only a failed body is followed by the teardown.                 *)
FollowingJumpFromSetup(pc) == IF pc = "body" THEN "teardown" ELSE "destroy"

(* Where the run goes on when a section is left by longjmp.                *)
FollowingJump(pc) == IF pc = "teardown" THEN "destroy" ELSE "teardown"

(* Mutant: one jmp_buf too many.                                           *)
TooDeepLate(js) == Len(js) > Depth

TooDeep(js) == Len(js) >= Depth

(* The innermost run of fs goes on with part pc, js being the jmp_bufs of  *)
(* the sections that are open.                                             *)
Enter(fs, js, pc) ==
  IF pc \in Sections /\ TooDeep(js)
  THEN status' = "aborted" /\ UNCHANGED <<frames, jmp, currentTest>>
  ELSE /\ frames' = [fs EXCEPT ![Len(fs)].pc = pc,
                               ![Len(fs)].ran = [u \in UserCode |-> @[u] + IF u = pc THEN 1 ELSE 0]]
       /\ jmp' = IF pc \in Sections THEN Append(js, Len(fs)) ELSE js
       /\ currentTest' = IF pc = "next" THEN 0 ELSE currentTest
       /\ UNCHANGED status

(* The part of the test that runs returns.                                 *)
Return ==
  /\ status = "running" /\ Top.pc \in UserCode
  /\ Enter(frames, IF Top.pc \in Sections THEN Front(jmp) ELSE jmp, Following(Top.pc))
  /\ UNCHANGED <<currentResult, hooks, crashOnFail, verdict, started>>

(* cu_longjmp_out: to the innermost open section, whose run may not be the *)
(* innermost one; the runs inside it are gone, without having restored     *)
(* anything.  Without an open section the caller goes on.                  *)
Jump(fs) ==
  IF jmp = <<>>
  THEN frames' = fs /\ UNCHANGED <<jmp, currentTest, status>>
  ELSE LET owner == Last(jmp)
           left == [SubSeq(fs, 1, owner) EXCEPT
                      ![owner].broken = @ + IF fs[owner].pc = "setup" THEN 1 ELSE 0]
       IN  Enter(left, Front(jmp), FollowingJump(fs[owner].pc))

Contained == ~Escapes /\ jmp # <<>> => Last(jmp) = Depths

(* A failure counts in the result, and for the test, that are current.     *)
Counted ==
  LET raised == [frames EXCEPT ![Depths].raised = @ + 1]
  IN  [l \in DOMAIN frames |->
         [raised[l] EXCEPT !.failures = @ + IF l = currentResult THEN 1 ELSE 0,
                           !.hasFailed = @ \/ l = currentTest]]

Failures == FoldFunction(+, 0, [l \in DOMAIN frames |-> frames[l].raised])

CanFail == status = "running" /\ Top.pc \in UserCode /\ failedTests + Failures < MaxFailures

(* cu_fail_with_message.  With -f it reports, and crashes.                 *)
Fail ==
  /\ CanFail /\ Contained
  /\ \/ /\ crashOnFail
        /\ frames' = Counted /\ status' = "crashed"
        /\ UNCHANGED <<jmp, currentTest>>
     \/ ~crashOnFail /\ Jump(Counted)
  /\ UNCHANGED <<currentResult, hooks, crashOnFail, verdict, started>>

(* cu_add_failure: reports, and goes on.                                   *)
AddFailure ==
  /\ CanFail
  /\ frames' = Counted
  /\ UNCHANGED <<jmp, globals, crashOnFail, verdict, status, started>>

(* cu_exit_current_test (TEST_EXIT).                                       *)
ExitTest ==
  /\ status = "running" /\ Top.pc \in UserCode
  /\ jmp # <<>> /\ Contained
  /\ Jump(frames)
  /\ UNCHANGED <<currentResult, hooks, crashOnFail, verdict, started>>

-------------------------------------------------------------------------------
(* Runs *)

(* The run of frame f once its next test is skipped, ignored or begun at pc. *)
Skipped(f) == [f EXCEPT !.test = @ + 1, !.filtered = @ + 1]

Ignored(f) == [f EXCEPT !.test = @ + 1, !.ignored = @ + 1]

Begun(f, pc) ==
  [f EXCEPT !.test = f.test + 1, !.runs = f.runs + 1, !.hasFailed = FALSE, !.before = f.raised,
            !.pc = pc, !.ran = [f.ran EXCEPT ![pc] = @ + 1]]

(* The next test of the innermost run is filtered out, ignored or run.     *)
NextTest ==
  /\ status = "running" /\ Top.pc = "next" /\ Top.test < TestsOf(Depths)
  /\ \/ /\ frames' = [frames EXCEPT ![Depths] = Skipped(Top)]
        /\ UNCHANGED currentTest
     \/ /\ frames' = [frames EXCEPT ![Depths] = Ignored(Top)]
        /\ currentTest' = 0
     \/ /\ frames' = [frames EXCEPT ![Depths] = Begun(Top, IF hooks THEN "pre" ELSE "create")]
        /\ currentTest' = Depths
  /\ UNCHANGED <<currentResult, hooks, jmp, status, crashOnFail, verdict, started>>

(* cu_run_registered_tests_ex, up to its loop over the tests.              *)
StartNested(plugins) ==
  /\ status = "running" /\ Top.pc \in UserCode /\ started < MaxRuns
  /\ frames' = Append(frames, NewFrame([test |-> currentTest, result |-> currentResult, hooks |-> hooks],
                                         hooks /\ plugins))
  /\ hooks' = (hooks /\ plugins)
  /\ currentResult' = Depths + 1
  /\ started' = started + 1
  /\ UNCHANGED <<jmp, currentTest, crashOnFail, verdict, status>>

(* Mutants: the plugin hooks stay off; failures go on counting in the      *)
(* result of the run that has ended.                                       *)
EndNestedKeepsHooks ==
  /\ status = "running" /\ Depths > 1
  /\ Top.pc = "next" /\ Top.test = TestsOf(Depths)
  /\ frames' = Front(frames)
  /\ currentTest' = Top.saved.test /\ currentResult' = Top.saved.result
  /\ UNCHANGED <<hooks, jmp, crashOnFail, verdict, status, started>>

EndNestedKeepsResult ==
  /\ status = "running" /\ Depths > 1
  /\ Top.pc = "next" /\ Top.test = TestsOf(Depths)
  /\ frames' = Front(frames)
  /\ currentTest' = Top.saved.test /\ hooks' = Top.saved.hooks
  /\ UNCHANGED <<currentResult, jmp, crashOnFail, verdict, status, started>>

(* ... and from its end on.                                                *)
EndNested ==
  /\ status = "running" /\ Depths > 1
  /\ Top.pc = "next" /\ Top.test = TestsOf(Depths)
  /\ frames' = Front(frames)
  /\ currentTest' = Top.saved.test /\ currentResult' = Top.saved.result /\ hooks' = Top.saved.hooks
  /\ UNCHANGED <<jmp, crashOnFail, verdict, status, started>>

IsFailure(f) == f.failures # 0 \/ f.runs + f.ignored = 0

(* The end of a repetition in cu_run_all.                                  *)
EndRun ==
  /\ status = "running" /\ Depths = 1
  /\ Top.pc = "next" /\ Top.test = TestsOf(1)
  /\ failedTests' = failedTests + Top.failures
  /\ failedRuns' = failedRuns + IF IsFailure(Top) THEN 1 ELSE 0
  /\ IF loop < Repeat
     THEN /\ loop' = loop + 1
          /\ frames' = <<NewFrame(NothingSaved, hooks)>>
          /\ UNCHANGED <<currentResult, status>>
     ELSE /\ status' = "done" /\ currentResult' = 0
          /\ UNCHANGED <<loop, frames>>
  /\ UNCHANGED <<jmp, currentTest, hooks, crashOnFail, started>>

Terminated == status # "running" /\ UNCHANGED vars

Next ==
  \/ NextTest \/ Return \/ Fail \/ AddFailure \/ ExitTest
  \/ \E plugins \in BOOLEAN : StartNested(plugins)
  \/ EndNested \/ EndRun \/ Terminated

Spec == Init /\ [][Next]_vars

-------------------------------------------------------------------------------
(* Properties *)

(* runner.c:334-337: with nested runs "all runner state is saved/restored".*)
(* While code of a test runs, the globals are those of the innermost run:  *)
(* its test, its result, and plugin hooks only if every active run wants   *)
(* them.                                                                   *)
StateOfInnermost ==
  status = "running" =>
    /\ currentResult = Depths
    /\ Top.pc \in UserCode => currentTest = Depths
    /\ hooks = Top.plugins

(* The jmp_buf stack holds the open sections of the active runs, outermost *)
(* first, and never more than it has room for: a failure can only end a    *)
(* section that is open.  The run gives up only if sections are really     *)
(* nested too deep, not for any number of failures, exits and nested runs  *)
(* one after another.                                                      *)
JumpsMatchSections ==
  /\ Len(jmp) <= Depth
  /\ status = "aborted" => Depths > Depth
  /\ status = "running" =>
       /\ {jmp[i] : i \in DOMAIN jmp} = {l \in DOMAIN frames : frames[l].pc \in Sections}
       /\ \A i, j \in DOMAIN jmp : i < j => jmp[i] < jmp[j]

(* Failures count for the run and the test whose code reported them, also  *)
(* if that code ran nested runs that had failures of their own.            *)
FailuresAttributed ==
  \A l \in DOMAIN frames :
    /\ frames[l].failures = frames[l].raised
    /\ frames[l].pc \in UserCode => frames[l].hasFailed = (frames[l].raised > frames[l].before)

(* Whatever fails in a test, or jumps out of a part of it: when the run    *)
(* goes on, everything that has to happen for each test has happened once. *)
EveryTestFinished ==
  \A l \in DOMAIN frames :
    LET f == frames[l]
    IN  f.pc = "next" =>
          /\ \A u \in {"create", "setup", "teardown", "destroy"} : f.ran[u] = f.runs
          /\ f.ran["body"] = f.runs - f.broken
          /\ \A u \in {"pre", "post"} : f.ran[u] = IF f.plugins THEN f.runs ELSE 0
===============================================================================
