--------------------------------- MODULE Outputs -------------------------------
(***************************************************************************)
(* What a test program shows of its run: the console and TeamCity output   *)
(* (src/src/core/output.c) and the JUnit reports (src/src/core/junit.c).   *)
(*                                                                         *)
(* What is printed is a sequence of parts, each a kind with what it is     *)
(* about; wording, times and escapes are left out.                         *)
(***************************************************************************)
EXTENDS Integers, SequencesExt

CONSTANTS
  Group,       \* the group of each test
  Name,        \* its name
  DotsPerLine  \* 50: marks in a line of progress

NoTest == "no test"
NoFailure == "no failure"

JUnitCreated ==
  [group |-> <<>>, test_count |-> 0, failure_count |-> 0, total_check_count |-> 0,
   cases |-> <<>>, std_output |-> <<>>]

(* The output that cu_run_all sets up.                                     *)
OutputOf(type, verbose) ==
  [type |-> type, verbose |-> verbose, also_console |-> type = "junit" /\ verbose,
   dot_count |-> 0, progress_indicator |-> "done", tc_group |-> <<>>, tc_current |-> NoTest,
   junit |-> JUnitCreated, shown |-> <<>>]

console_active(out) == out.type # "junit" \/ out.also_console

(* emit: into the sink, at the end of what is shown.                       *)
Emit(out, parts) == [out EXCEPT !.shown = @ \o parts]

-------------------------------------------------------------------------------
(* JUnit: what is recorded of a group until its report is written *)

JUnitStarted(j, t, runs) ==
  [j EXCEPT !.test_count = @ + 1, !.group = Group[t],
            !.cases = Append(j.cases, [test |-> t, ignored |-> ~runs, check_count |-> 0, failure |-> NoFailure])]

JUnitEnded(j, res) ==
  IF j.cases = <<>> THEN j ELSE [j EXCEPT !.cases[Len(j.cases)].check_count = res.check_count]

(* Mutant: the failure reported last is kept.                              *)
JUnitFailureLast(j, message) ==
  IF j.cases = <<>> THEN j
  ELSE [j EXCEPT !.failure_count = @ + 1, !.cases[Len(j.cases)].failure = message]

(* Only the first failure of a test, and none outside of one.              *)
JUnitFailure(j, message) ==
  IF j.cases = <<>> THEN j
  ELSE IF Last(j.cases).failure # NoFailure THEN j
  ELSE [j EXCEPT !.failure_count = @ + 1, !.cases[Len(j.cases)].failure = message]

ResetGroup(j) == [j EXCEPT !.group = <<>>, !.test_count = 0, !.failure_count = 0, !.cases = <<>>]

(* The check count that the assertions of a case are counted from.         *)
CountedFrom(j, i) == IF i = 1 THEN j.total_check_count ELSE j.cases[i - 1].check_count

(* cu_junit_group_ended: the file of the group, with what was printed in   *)
(* the run so far.                                                         *)
Report(j) ==
  [failures |-> j.failure_count, tests |-> j.test_count, system_out |-> j.std_output,
   cases |-> [i \in DOMAIN j.cases |->
     LET cur == j.cases[i]
     IN  [test |-> cur.test, assertions |-> cur.check_count - CountedFrom(j, i),
          failure |-> cur.failure, skipped |-> cur.failure = NoFailure /\ cur.ignored]]]

(* Where the file cannot be opened the group is forgotten, and with it the *)
(* count that the next case is to start from.                              *)
JUnitGroupEnded(j, opened) ==
  IF opened /\ j.cases # <<>>
  THEN ResetGroup([j EXCEPT !.total_check_count = Last(j.cases).check_count])
  ELSE ResetGroup(j)

-------------------------------------------------------------------------------
(* The hooks that the runner calls *)

GroupStarted(out, t) ==
  IF out.type # "teamcity" THEN out
  ELSE Emit([out EXCEPT !.tc_group = Group[t]], <<<<"suiteStarted", Group[t]>>>>)

GroupEnded(out, opened) ==
  CASE out.type = "teamcity" ->
         IF out.tc_group = <<>> THEN out ELSE Emit(out, <<<<"suiteFinished", out.tc_group>>>>)
    [] out.type = "junit" -> [out EXCEPT !.junit = JUnitGroupEnded(@, opened)]
    [] OTHER -> out

ConsoleTestStarted(out, t, runs) ==
  LET o == [out EXCEPT !.progress_indicator = IF runs THEN "." ELSE "!"]
  IN  IF out.verbose THEN Emit(o, <<<<IF runs THEN "TEST" ELSE "IGNORE_TEST", t>>>>) ELSE o

TestStarted(out, t, runs) ==
  CASE out.type = "teamcity" ->
         Emit([out EXCEPT !.tc_current = t],
              <<<<"testStarted", t>>>> \o IF runs THEN <<>> ELSE <<<<"testIgnored", t>>>>)
    [] out.type = "junit" ->
         LET o == [out EXCEPT !.junit = JUnitStarted(@, t, runs)]
         IN  IF out.also_console THEN ConsoleTestStarted(o, t, runs) ELSE o
    [] OTHER -> ConsoleTestStarted(out, t, runs)

(* A mark for each test, and a new line each DotsPerLine; or the time in a *)
(* line of its own.                                                        *)
ConsoleTestEnded(out) ==
  IF out.verbose THEN Emit(out, <<<<"ms", NoTest>>>>)
  ELSE LET o == Emit([out EXCEPT !.dot_count = @ + 1], <<<<"mark", out.progress_indicator>>>>)
       IN  IF o.dot_count % DotsPerLine = 0 THEN Emit(o, <<<<"newline", NoTest>>>>) ELSE o

TestEnded(out, res) ==
  CASE out.type = "teamcity" ->
         IF out.tc_current = NoTest THEN out ELSE Emit(out, <<<<"testFinished", out.tc_current>>>>)
    [] out.type = "junit" ->
         LET o == [out EXCEPT !.junit = JUnitEnded(@, res)]
         IN  IF out.also_console THEN ConsoleTestEnded(o) ELSE o
    [] OTHER -> ConsoleTestEnded(out)

Failure(out, t, message) ==
  IF out.type # "junit" THEN Emit(out, <<<<"failed", t>>>>)
  ELSE LET o == [out EXCEPT !.junit = JUnitFailure(@, message)]
       IN  IF out.also_console THEN Emit(o, <<<<"failed", t>>>>) ELSE o

(* A JUnit report takes the texts that are printed, but no number.         *)
PrintStr(out, text) ==
  LET o == IF out.type = "junit" THEN [out EXCEPT !.junit.std_output = Append(@, text)] ELSE out
  IN  IF console_active(out) THEN Emit(o, <<<<"text", text>>>>) ELSE o
PrintNum(out, n) == IF console_active(out) THEN Emit(out, <<<<"number", n>>>>) ELSE out

IsFailure(res) == res.failure_count # 0 \/ res.run_count + res.ignored_count = 0

Verdict(res) ==
  IF ~IsFailure(res) THEN "OK" ELSE IF res.failure_count = 0 THEN "ran nothing" ELSE "Errors"

Summary(out, res) ==
  LET o == [out EXCEPT !.dot_count = 0]
  IN  IF console_active(out) THEN Emit(o, <<<<"summary", Verdict(res)>>>>) ELSE o
===============================================================================
