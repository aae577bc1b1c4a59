---------------------------- MODULE SeparateProcess ----------------------------
(***************************************************************************)
(* A run under -p (cu_fork_run_one_test, src/src/core/fork.c): each test   *)
(* runs in a child of its own, for which the runner waits.  A child can    *)
(* end in any way, be stopped and continued from outside, and the waiting  *)
(* can be interrupted by signals; the parent learns only the status.       *)
(***************************************************************************)
EXTENDS Naturals, FiniteSets

CONSTANTS
  NTests,      \* tests of the run
  MaxRetries,  \* the 30 of `retries > 30`
  ExitCodes,   \* the codes with which a test may call exit() itself
  MaxRaised,   \* bound: failures a test reports
  MaxStops     \* bound: how often children are stopped from outside

ASSUME SeparateAssumption ==
  /\ NTests \in Nat /\ MaxRetries \in Nat /\ MaxRaised \in Nat /\ MaxStops \in Nat
  /\ ExitCodes \subseteq Nat

Tests == 1 .. NTests

VARIABLES
  ppc,       \* where the parent is
  test,      \* the test at the loop variable t
  failures,  \* res->failure_count of the parent
  retries,   \* the local of the same name
  child,     \* what has become of each test's child
  code,      \* the exit code of each child that has exited
  signalled, \* the tests whose child died of a signal
  raised,    \* failures each child has counted in its own copy of res
  stops,     \* history: how often a child was stopped
  seen,      \* history: the stops waitpid reported
  gaveUp     \* history: the tests whose child the parent no longer waits for

parent == <<ppc, test, failures, retries, seen, gaveUp>>
vars == <<parent, child, code, signalled, raised, stops>>

(* A stopped child becomes paused when waitpid has reported it; a child    *)
(* that is lost has been waited for by somebody else.                      *)
ChildStates == {"none", "running", "stopped", "paused", "exited", "killed", "reaped", "lost"}

TypeOK ==
  /\ ppc \in {"next", "wait", "continue", "done"}
  /\ test \in 1 .. NTests + 1
  /\ failures \in Nat /\ retries \in 0 .. MaxRetries + 1
  /\ child \in [Tests -> ChildStates]
  /\ code \in [Tests -> ExitCodes \cup {0, 1}]
  /\ raised \in [Tests -> 0 .. MaxRaised] /\ signalled \subseteq Tests
  /\ stops \in 0 .. MaxStops /\ seen \in Nat
  /\ gaveUp \subseteq Tests

Init ==
  /\ ppc = "next" /\ test = 1 /\ failures = 0 /\ retries = 0
  /\ child = [t \in Tests |-> "none"]
  /\ code = [t \in Tests |-> 0] /\ signalled = {} /\ raised = [t \in Tests |-> 0]
  /\ stops = 0 /\ seen = 0 /\ gaveUp = {}

-------------------------------------------------------------------------------
(* The child of test t *)

(* A check fails: the child counts it, and goes on with the teardown.      *)
Raise(t) ==
  /\ child[t] = "running" /\ raised[t] < MaxRaised
  /\ raised' = [raised EXCEPT ![t] = @ + 1]
  /\ UNCHANGED <<parent, child, code, signalled, stops>>

ExitWith(t, n) ==
  /\ child[t] = "running"
  /\ child' = [child EXCEPT ![t] = "exited"]
  /\ code' = [code EXCEPT ![t] = n]
  /\ UNCHANGED <<parent, signalled, raised, stops>>

(* The test is through: _exit(initial_failure_count < res->failure_count). *)
Finish(t) == ExitWith(t, IF raised[t] > 0 THEN 1 ELSE 0)

CallExit(t) == \E n \in ExitCodes : ExitWith(t, n)

Crash(t) ==
  /\ child[t] \in {"running", "stopped", "paused"}
  /\ child' = [child EXCEPT ![t] = "killed"]
  /\ signalled' = signalled \cup {t}
  /\ UNCHANGED <<parent, code, raised, stops>>

(* From outside: a debugger, the user, job control.                        *)
Stop(t) ==
  /\ child[t] = "running" /\ stops < MaxStops
  /\ child' = [child EXCEPT ![t] = "stopped"]
  /\ stops' = stops + 1
  /\ UNCHANGED <<parent, code, signalled, raised>>

Resume(t) ==
  /\ child[t] \in {"stopped", "paused"}
  /\ child' = [child EXCEPT ![t] = "running"]
  /\ UNCHANGED <<parent, code, signalled, raised, stops>>

-------------------------------------------------------------------------------
(* The parent *)

Fork ==
  /\ ppc = "next" /\ test <= NTests
  /\ child' = [child EXCEPT ![test] = "running"]
  /\ ppc' = "wait" /\ retries' = 0
  /\ UNCHANGED <<test, failures, seen, gaveUp, code, signalled, raised, stops>>

(* cu_fork_run_one_test returns, after n failures.                         *)
GoOn(n) ==
  /\ ppc' = "next" /\ test' = test + 1
  /\ failures' = failures + n

ForkFails ==
  /\ ppc = "next" /\ test <= NTests
  /\ GoOn(1)
  /\ UNCHANGED <<retries, seen, gaveUp, child, code, signalled, raised, stops>>

(* Mutant: a child that dies of a signal is not a failure.                 *)
FailedByCode(t) == code[t] # 0

(* set_failure_by_status_code *)
FailedByStatus(t) == t \in signalled \/ code[t] # 0

WaitEnded ==
  /\ ppc = "wait" /\ child[test] \in {"exited", "killed"}
  /\ child' = [child EXCEPT ![test] = "reaped"]
  /\ GoOn(IF FailedByStatus(test) THEN 1 ELSE 0)
  /\ UNCHANGED <<retries, seen, gaveUp, code, signalled, raised, stops>>

(* Mutant: waitpid's report of a stop ends the waiting.                    *)
WaitStoppedEnds ==
  /\ ppc = "wait" /\ child[test] = "stopped"
  /\ child' = [child EXCEPT ![test] = "paused"]
  /\ seen' = seen + 1
  /\ GoOn(1)
  /\ UNCHANGED <<retries, gaveUp, code, signalled, raised, stops>>

(* A stop is a failure too, and the child is told to continue.             *)
WaitStopped ==
  /\ ppc = "wait" /\ child[test] = "stopped"
  /\ child' = [child EXCEPT ![test] = "paused"]
  /\ failures' = failures + 1 /\ seen' = seen + 1
  /\ ppc' = "continue"
  /\ UNCHANGED <<test, retries, gaveUp, code, signalled, raised, stops>>

(* Mutant: the stopped child is not told to continue.                      *)
SendNothing ==
  /\ ppc = "continue"
  /\ ppc' = "wait"
  /\ UNCHANGED <<test, failures, retries, seen, gaveUp, child, code, signalled, raised, stops>>

SendContinue ==
  /\ ppc = "continue"
  /\ child' = [child EXCEPT ![test] = IF @ \in {"stopped", "paused"} THEN "running" ELSE @]
  /\ ppc' = "wait"
  /\ UNCHANGED <<test, failures, retries, seen, gaveUp, code, signalled, raised, stops>>

WaitInterrupted ==
  /\ ppc = "wait" /\ retries <= MaxRetries
  /\ retries' = retries + 1
  /\ UNCHANGED <<ppc, test, failures, seen, gaveUp, child, code, signalled, raised, stops>>

GiveUp ==
  /\ ppc = "wait" /\ retries > MaxRetries
  /\ gaveUp' = gaveUp \cup {test}
  /\ GoOn(1)
  /\ UNCHANGED <<retries, seen, child, code, signalled, raised, stops>>

(* Where SIGCHLD is ignored the child leaves nothing to wait for.          *)
WaitFails ==
  /\ ppc = "wait" /\ child[test] \in {"exited", "killed"}
  /\ child' = [child EXCEPT ![test] = "lost"]
  /\ GoOn(1)
  /\ UNCHANGED <<retries, seen, gaveUp, code, signalled, raised, stops>>

EndRun ==
  /\ ppc = "next" /\ test > NTests
  /\ ppc' = "done"
  /\ UNCHANGED <<test, failures, retries, seen, gaveUp, child, code, signalled, raised, stops>>

Terminated == ppc = "done" /\ UNCHANGED vars

Returning == Fork \/ WaitEnded \/ WaitStopped \/ SendContinue \/ EndRun

Next ==
  \/ Returning \/ ForkFails \/ WaitFails \/ WaitInterrupted \/ GiveUp
  \/ \E t \in Tests : Raise(t) \/ Finish(t) \/ CallExit(t) \/ Crash(t) \/ Stop(t) \/ Resume(t)
  \/ Terminated

(* A test that runs comes to its end, and the parent is scheduled; nothing *)
(* is assumed of the signals.                                              *)
Fairness == WF_vars(Returning) /\ \A t \in Tests : WF_vars(Finish(t))

Spec == Init /\ [][Next]_vars /\ Fairness

-------------------------------------------------------------------------------
(* Properties *)

Passed(t) == child[t] = "reaped" /\ t \notin signalled /\ code[t] = 0 /\ raised[t] = 0

(* A test that the run does not count as failed was waited for, and ended  *)
(* by itself without a failure: what happened in the child is not lost.    *)
(* All the failures counted are such tests, one each, and stops.  A test   *)
(* that calls exit(0) passes for one that ended: ExitCodes leaves 0 out.   *)
NotPassed == {t \in 1 .. test - 1 : ~Passed(t)}
ExactFailures ==
  ppc \in {"next", "done"} => failures = seen + Cardinality(NotPassed)

(* Tests do not overlap: when the next test begins, and at the end, the    *)
(* child of every earlier test has been waited for, unless the parent was  *)
(* interrupted too often.                                                  *)
NoneLeftBehind ==
  \A t \in 1 .. test - 1 : t \in gaveUp \/ child[t] \in {"none", "reaped", "lost"}

(* Also if children are stopped, by whomever, the run comes to an end.     *)
RunEnds == <>(ppc = "done")
===============================================================================
