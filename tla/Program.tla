--------------------------------- MODULE Program -------------------------------
(***************************************************************************)
(* A test program from its initialisers to its exit status: the registered *)
(* tests (Registry), cu_run_all with the arguments given (CommandLine) and *)
(* its loop over the tests (src/src/core/runner.c), and what it shows of   *)
(* them (Outputs).  What a test does is an outcome: TestRunner has the     *)
(* inside of a test, SeparateProcess and ParallelRun have -p and -jN.      *)
(***************************************************************************)
EXTENDS Registry, CommandLine, Outputs

CONSTANTS
  IgnoredTests,  \* the tests that are IGNORE_TESTs
  Outcomes,      \* what a test may do: its checks and its failures
  RightWishes,   \* what may be asked for: sequences of options
  WrongWishes,   \* and what is no command line of this program
  StatusRange,   \* 256: the exit statuses that the system can tell apart
  MaxUnwritable  \* bound: report files that cannot be opened, in a run

(* A test has a group, a failure a message, NoTest is none of the tests,   *)
(* and a status tells a failure from none.                                 *)
ASSUME ProgramAssumption ==
  /\ Outcomes \subseteq [checks : Nat, failures : Seq(STRING \ {NoFailure})]
  /\ \A x \in Tests : Group[x] # <<>>
  /\ NoTest \notin Tests
  /\ StatusRange \in Nat \ {0, 1}

Running == "running"
NoReport == "no report"
Nothing == [checks |-> 0, failures |-> <<>>]
NotDone == [checks |-> -1, failures |-> <<>>]
NoStatus == "no status"

VARIABLES
  args, out, res,
  phase,        \* "before", "between" repetitions, "running", "exited"
  t,            \* the test that the loop is at
  group_start,
  loop,
  failed,       \* failed_test_count and failed_execution_count
  exit,         \* the exit status
  files,        \* the report of each group, and of the group without a name
  unwritable,   \* report files that could not be opened
  asked,        \* history: the options given
  did,          \* history: the outcome of each test, in this repetition
  lost,         \* history: whether a report was lost in this repetition
  done          \* history: what each repetition came to

runVars == <<args, out, res, phase, t, group_start, loop, failed, exit, files, unwritable>>
history == <<asked, did, lost, done>>
allVars == <<vars, runVars, history>>

NoResult == [test_count |-> 0, run_count |-> 0, check_count |-> 0, failure_count |-> 0,
             ignored_count |-> 0, filtered_out_count |-> 0]

ProgramInit ==
  /\ Init
  /\ args = NoArguments /\ out = OutputOf("console", FALSE) /\ res = NoResult
  /\ phase = "before" /\ t = NIL /\ group_start = TRUE /\ loop = 0
  /\ failed = [tests |-> 0, executions |-> 0] /\ exit = NoStatus
  /\ files = [g \in {Group[x] : x \in Tests} \cup {<<>>} |-> NoReport] /\ unwritable = 0
  /\ asked = <<>> /\ did = [x \in Tests |-> NotDone] /\ lost = FALSE /\ done = <<>>

Initialise ==
  /\ \/ \E x \in Tests : Install(x) \/ \E l \in Levels : InstallOrdered(x, l)
     \/ UndoLastAdd
  /\ UNCHANGED <<runVars, history>>

-------------------------------------------------------------------------------
(* Starting *)

(* An option is a flag with its letters, a text, and whether it is glued.  *)
Rendered(options) ==
  FlattenSeq([i \in DOMAIN options |->
    LET o == options[i]
    IN  IF o.glued \/ o.text = <<>> THEN <<o.flag \o o.text>> ELSE <<o.flag, o.text>>])

Exit(status_) == phase' = "exited" /\ exit' = status_ % StatusRange

(* test_should_run *)
TestShouldRun(a, x) == FiltersMatch(a.group, Group[x]) /\ FiltersMatch(a.name, Name[x])

(* The entries of s that are in S (SelectSeq, which has no proof rules).   *)
Only(s, S) ==
  LET only[i \in 0 .. Len(s)] ==
        IF i = 0 THEN <<>> ELSE IF s[i] \in S THEN Append(only[i - 1], s[i]) ELSE only[i - 1]
  IN  only[Len(s)]

(* Each entry once, in the order of the list.                              *)
Once(s) ==
  LET once[i \in 0 .. Len(s)] ==
        IF i = 0 THEN <<>>
        ELSE IF s[i] \in ToSet(once[i - 1]) THEN once[i - 1] ELSE Append(once[i - 1], s[i])
  IN  once[Len(s)]

(* list_unique and list_locations: -lg before -ln before -ll.              *)
Listing(a) ==
  IF On(a, <<"l", "g">>) THEN Once([i \in DOMAIN Registered |-> <<Group[Registered[i]]>>])
  ELSE IF On(a, <<"l", "n">>)
  THEN LET some == Only(Registered, {x \in Tests : TestShouldRun(a, x)})
       IN  Once([i \in DOMAIN some |-> <<Group[some[i]], Name[some[i]]>>])
  ELSE [i \in DOMAIN Registered |-> <<Group[Registered[i]], Name[Registered[i]], Registered[i]>>]
Listed(a) == \E l \in {"g", "n", "l"} : On(a, <<"l", l>>)

(* Each text of a list, one after the other.                               *)
Printed(o, texts) ==
  LET after[k \in 0 .. Len(texts)] == IF k = 0 THEN o ELSE PrintStr(after[k - 1], texts[k])
  IN  after[Len(texts)]

Verbose(a) == On(a, <<"v">>) \/ On(a, <<"v", "v">>)

(* cu_run_all as far as the first repetition.                              *)
Start ==
  /\ status = "installing" /\ phase = "before"
  /\ \E options \in RightWishes \cup WrongWishes :
       LET p == Parsed(Rendered(options))
           o == OutputOf(p.args.output_type, Verbose(p.args))
       IN  /\ asked' = options
           /\ args' = p.args
           /\ IF ~p.correct THEN Begin /\ Exit(1) /\ UNCHANGED out
              ELSE IF Listed(p.args)
              THEN /\ Begin /\ Exit(0)
                   /\ out' = Printed(o, Listing(p.args))
              ELSE /\ IF On(p.args, <<"b">>) THEN BeginReversed ELSE Begin
                   /\ phase' = "between"
                   /\ out' = IF p.args.shuffling THEN PrintNum(PrintStr(o, "seed"), "seed") ELSE o
                   /\ UNCHANGED exit
  /\ UNCHANGED <<res, t, group_start, loop, failed, files, unwritable, did, lost, done>>

(* A repetition starts: a shuffle, the line of -r and results of its own.  *)
StartRepetition ==
  /\ phase = "between" /\ loop < args.repeat
  /\ IF args.shuffling THEN Shuffle ELSE UNCHANGED vars
  /\ loop' = loop + 1
  /\ out' = IF args.repeat > 1 THEN PrintNum(PrintStr(out, "Test run"), loop + 1) ELSE out
  /\ res' = NoResult /\ phase' = Running /\ t' = tests_head' /\ group_start' = TRUE
  /\ did' = [x \in Tests |-> NotDone] /\ lost' = FALSE
  /\ UNCHANGED <<args, failed, exit, files, unwritable, asked, done>>

-------------------------------------------------------------------------------
(* Running the tests *)

WillRun(x) == x \notin IgnoredTests \/ On(args, <<"r", "i">>)

group_changes(x) == next[x] = NIL \/ Group[x] # Group[next[x]]

(* The failures of x are shown one after the other.                        *)
Failures(o, x, outcome) ==
  LET after[k \in 0 .. Len(outcome.failures)] ==
        IF k = 0 THEN o ELSE Failure(after[k - 1], x, outcome.failures[k])
  IN  after[Len(outcome.failures)]

(* The results after a test that the filters let through.                  *)
Counted(x, outcome) ==
  [res EXCEPT !.test_count = @ + 1, !.check_count = @ + outcome.checks,
              !.failure_count = @ + Len(outcome.failures),
              !.run_count = IF WillRun(x) THEN @ + 1 ELSE @,
              !.ignored_count = IF WillRun(x) THEN @ ELSE @ + 1]

EndGroup(o) ==
  IF ~group_changes(t)
  THEN out' = o /\ group_start' = FALSE /\ UNCHANGED <<files, unwritable, lost>>
  ELSE \E opened \in IF o.type = "junit" /\ unwritable < MaxUnwritable THEN BOOLEAN ELSE {TRUE} :
         /\ out' = GroupEnded(o, opened) /\ group_start' = TRUE
         /\ files' = IF o.type = "junit" /\ opened
                     THEN [files EXCEPT ![o.junit.group] = Report(o.junit)] ELSE files
         /\ unwritable' = IF opened THEN unwritable ELSE unwritable + 1
         /\ lost' = (lost \/ ~opened)

(* One turn of the loop of cu_run_all_tests_internal.                      *)
RunTest ==
  /\ phase = Running /\ t # NIL
  /\ LET started == IF group_start THEN GroupStarted(out, t) ELSE out
     IN  IF TestShouldRun(args, t)
         THEN \E outcome \in IF WillRun(t) THEN Outcomes ELSE {Nothing} :
                LET o == Failures(TestStarted(started, t, WillRun(t)), t, outcome)
                IN  /\ res' = Counted(t, outcome)
                    /\ did' = [did EXCEPT ![t] = outcome]
                    /\ EndGroup(TestEnded(o, res'))
         ELSE /\ res' = [res EXCEPT !.test_count = @ + 1, !.filtered_out_count = @ + 1]
              /\ EndGroup(started)
              /\ UNCHANGED did
  /\ t' = next[t]
  /\ UNCHANGED <<vars, args, phase, loop, failed, exit, asked, done>>

(* Mutant: only the last repetition counts.                                *)
FailedOfLast ==
  [tests |-> res.failure_count, executions |-> IF IsFailure(res) THEN 1 ELSE 0]

(* What cu_run_all adds up over the repetitions.                           *)
FailedSoFar ==
  [tests |-> failed.tests + res.failure_count,
   executions |-> failed.executions + IF IsFailure(res) THEN 1 ELSE 0]

DidRun == {x \in Tests : did[x] # NotDone}
FailuresOf(S) == Cardinality(UNION {{x} \X DOMAIN did[x].failures : x \in S})

EndRepetition ==
  /\ phase = Running /\ t = NIL
  /\ out' = Summary(out, res)
  /\ failed' = FailedSoFar
  /\ done' = Append(done, [failures |-> FailuresOf(DidRun), ran |-> DidRun # {}])
  /\ phase' = "between"
  /\ UNCHANGED <<vars, args, res, t, group_start, loop, exit, files, unwritable, asked, did, lost>>

EndRun ==
  /\ phase = "between" /\ loop >= args.repeat
  /\ Exit(IF failed.tests # 0 THEN failed.tests ELSE failed.executions)
  /\ UNCHANGED <<vars, args, out, res, t, group_start, loop, failed, files, unwritable, history>>

(* Stopped: also where an initialiser has dereferenced a null pointer.     *)
Stopped == (phase = "exited" \/ status = "crashed") /\ UNCHANGED allVars

ProgramNext ==
  Initialise \/ Start \/ StartRepetition \/ RunTest \/ EndRepetition \/ EndRun \/ Stopped

ProgramSpec == ProgramInit /\ [][ProgramNext]_allVars
-------------------------------------------------------------------------------
(* Properties *)

(* What is documented of an option (docs/INTERFACE.md:378-391): s in its   *)
(* letters for an exact match, x for an exclusion, and last whether it is  *)
(* about groups, names or both; a pasted TEST(group, name) is exact.  An   *)
(* exclusion of both is one of groups and one of names (414-416, asserted  *)
(* by tests/cli/run.sh:52-55): -xt and -xst leave a test out if its group  *)
(* or its name meets them.  The program's own help says otherwise: that    *)
(* they leave out the tests whose group and name do (core/args.c:363-370). *)
(* The properties take the former reading, which is what the code does.    *)
Letters(o) == ToSet(o.flag)
IsPasted(o) == o.flag[1] # "-"
IsFilter(o) == IsPasted(o) \/ Last(o.flag) \in {"t"} \/ (Last(o.flag) \in {"g", "n"} /\ "l" \notin Letters(o))
AboutGroups(o) == IsFilter(o) /\ (IsPasted(o) \/ Last(o.flag) \in {"g", "t"})
AboutNames(o) == IsFilter(o) /\ (IsPasted(o) \/ Last(o.flag) \in {"n", "t"})
Meets(o, said, s) ==
  (IF IsPasted(o) \/ "s" \in Letters(o) THEN s = said
   ELSE \E i, j \in 0 .. Len(s) : SubSeq(s, i + 1, j) = said) # ("x" \in Letters(o))

AsksFor(options, x) ==
  LET groups == {i \in DOMAIN options : AboutGroups(options[i])}
      names == {i \in DOMAIN options : AboutNames(options[i])}
  IN  /\ groups = {} \/ \E i \in groups : Meets(options[i], options[i].group, Group[x])
      /\ names = {} \/ \E i \in names : Meets(options[i], options[i].name, Name[x])

(* What is shown since the last summary, of one kind.                      *)
Recent == LET ends == {i \in DOMAIN out.shown : out.shown[i][1] = "summary"}
          IN  IF ends = {} THEN out.shown ELSE After(out.shown, Max(ends))
Shown(kinds) ==
  LET shown[i \in 0 .. Len(Recent)] ==
        IF i = 0 THEN <<>>
        ELSE IF Recent[i][1] \in kinds THEN Append(shown[i - 1], Recent[i][2]) ELSE shown[i - 1]
  IN  shown[Len(Recent)]

(* Each TeamCity message of a test stands within the suite of its group,   *)
(* and every suite that starts is finished.                                *)
SuitesNest ==
  /\ Shown({"suiteStarted"}) = Shown({"suiteFinished"})
  /\ \A i \in DOMAIN Recent :
       Recent[i][1] \in {"testStarted", "testIgnored", "failed", "testFinished"} =>
         LET suite == Max({k \in 1 .. i : Recent[k][1] \in {"suiteStarted", "suiteFinished"}})
         IN  Recent[suite] = <<"suiteStarted", Group[Recent[i][2]]>>

AtEndOfLoop == phase = Running /\ t = NIL

(* The tests that run, in the order of the list and each once, are those   *)
(* that the options ask for, and the output shows just them; -ln lists     *)
(* them, unless -o has taken the console away.  No command line of the     *)
(* documented form is refused, and no other one is taken.                  *)
SelectedShown ==
  /\ phase # "before" => (phase = "exited" /\ exit = 1 /\ loop = 0 <=> asked \in WrongWishes)
  /\ LET wanted == Only(Registered, {x \in Tests : AsksFor(asked, x)})
     IN  /\ AtEndOfLoop =>
              /\ DidRun = ToSet(wanted)
              /\ IF out.type = "teamcity"
                 THEN Shown({"testStarted"}) = wanted /\ Shown({"testFinished"}) = wanted /\ SuitesNest
                 ELSE IF ~console_active(out) THEN out.shown = <<>>
                 ELSE IF out.verbose THEN Shown({"TEST", "IGNORE_TEST"}) = wanted
                 ELSE Shown({"mark"}) = [i \in DOMAIN wanted |-> IF WillRun(wanted[i]) THEN "." ELSE "!"]
         /\ (/\ phase = "exited" /\ exit = 0 /\ console_active(out)
             /\ On(args, <<"l", "n">>) /\ ~On(args, <<"l", "g">>)) =>
              ToSet(Shown({"text"})) = {<<Group[x], Name[x]>> : x \in ToSet(wanted)}

(* The stretch of the list around place i that is of one group.            *)
Block(i) ==
  {k \in DOMAIN Registered :
    \A m \in (IF i < k THEN i .. k ELSE k .. i) : Group[Registered[m]] = Group[Registered[i]]}

RanPlaces == {i \in DOMAIN Registered : Registered[i] \in DidRun}

(* The places of the tests that the report of a group is about: those that *)
(* ran of the last stretch of the list with a test of that group that ran; *)
(* a group that comes again, after -s, loses what it reported before.      *)
Reported(g) ==
  LET places == {i \in RanPlaces : Group[Registered[i]] = g}
  IN  Block(Max(places)) \cap places

(* The report of group g holds each of those tests once and in their       *)
(* order, with its first failure and the checks it made.                   *)
TellsTruth(g) ==
  LET mine == Reported(g)
      failing == {i \in mine : did[Registered[i]].failures # <<>>}
  IN  /\ files[g].tests = Cardinality(mine) /\ Len(files[g].cases) = Cardinality(mine)
      /\ files[g].failures = Cardinality(failing)
      /\ \A i \in mine :
           LET case == files[g].cases[Cardinality({k \in mine : k <= i})]
               x == Registered[i]
           IN  /\ case.test = x
               /\ case.failure = IF i \in failing THEN did[x].failures[1] ELSE NoFailure
               /\ case.skipped <=> ~WillRun(x)
               /\ (loop = 1 \/ i # Min(RanPlaces)) => case.assertions = did[x].checks

(* Each JUnit report of a group that ran tells the truth.  Only the first  *)
(* test of a further repetition has its checks counted from another one,   *)
(* as has, in a repetition that lost a report, the test after that.        *)
ReportsTrue ==
  (AtEndOfLoop /\ out.type = "junit" /\ ~lost) => \A g \in {Group[x] : x \in DidRun} : TellsTruth(g)

(* The exit status is 0 when every repetition ran something and none had a *)
(* failure, and otherwise only where what it counts is a multiple of the   *)
(* statuses that there are.                                                *)
ExitHonest ==
  (phase = "exited" /\ loop > 0) =>
    LET total == Cardinality(UNION {{i} \X (1 .. done[i].failures) : i \in DOMAIN done})
        idle == {i \in DOMAIN done : ~done[i].ran}
        counted == IF total # 0 THEN total ELSE Cardinality(idle)
    IN  exit = 0 <=> counted % StatusRange = 0
===============================================================================
