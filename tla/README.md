# Verification of cpputest-turbo

TLA+ models of the test framework in this repository (a C11 core with a thin
C++ facade), checked with TLC and, where marked, proved with TLAPS. Paths are
relative to the repository; `core/` is `src/core/`, `mock/` is `src/mock/`.

## 1. The system

| part | code | state it keeps | operations |
|---|---|---|---|
| test registry | `core/registry.c`, `OrderedTest.h`, `TestRegistry.h`, `Utest.h` | `tests_head`, the `next` chain; a second chain by level for `TEST_ORDERED` | install, undo, ordered install, reverse (`-b`), shuffle (`-s`) |
| test runner | `core/runner.c`, `TestTestingFixture.h` | `current_test`, `current_result`, plugin hooks, the stack of 10 `jmp_buf`s, counters | run all, one test (pre, create, setup, body, teardown, destroy, post), fail, add failure, exit test, nested run, repeat |
| separate processes | `core/fork.c` 29-96 | the child that is waited for, retries | fork, wait, continue a stopped child, judge the status |
| parallel run | `core/fork.c` 98-261 | groups, pids, one output and one stats file per worker, totals | snapshot and deal, fork, relink, run, write stats, collect, merge |
| mock | `mock/mock_core.c`, `MockSupportPlugin.h` | scopes; in each expectations, last call, order counters, settings, comparators, data | expect, call (link by link), finalize, check, clear |
| C mock interface | `mock/mock_support_c.c` | three cursors, a pool of 32 adapters | the function tables of `mock_c()` |
| leak detector | `core/memleak.c`, `newdelete.cpp`, `MemoryLeakWarningPlugin.h` | table of tracked blocks, freelists, tracking switch with saves, checking period | alloc, free, realloc, release, save and restore, judge a test, destroy |
| plugins | `TestPlugin.h`, `TestRegistry.h`, `MockSupportPlugin.h` | chain of plugins of each registry, table of 32 saved pointers, entries lent to the mock | install, remove, enable, pre and post actions |
| output | `core/output.c`, `core/junit.c` | progress counter, TeamCity cursors; the cases of the JUnit group and the checks counted so far | events of the run |
| command line | `core/args.c` | none beyond the parsed options | parse, match filters |
| assertions, C harness | `core/assert.c`, `cpputest_core/core.h`, `UtestMacros.h`, `core/harness_c.c` | none but the check count | compare and fail, inline or in the library |
| C++ mock facade | `MockSupport.h` | the call a scope's reference is bound to | getters that convert or refuse |
| SimpleString | `shim/simplestring.cpp` | a buffer and its length | search, split, replace, convert |
| platform, version | `core/platform.c`, `core/version.c` | none | values |

How they interact. The runner walks the registry's chain and calls user code
and plugins in a fixed order; an assertion or a mock failure ends in
`cu_fail_with_message`, which counts it in *the current* result and jumps to
the innermost protected section. The mock plugin checks and clears the mock in
the post action of a test, the leak plugin opens its checking period in the
pre action and judges in the post action; both run outside every protected
section. A test may start a nested run that swaps the runner's globals. Under
`-p` a test, under `-jN` a share of the groups, runs in a forked process that
sees a copy of everything and reports through its status, its output file and
its stats file.

What is hard. Jumps that skip code (state restored by code that never runs,
messages that must outlive a jump); nested runs; state of one test seen by the
next; a mock call that is settled lazily, claimed, and reopened; processes that
end, stop or die at any moment, whose counters live in their own memory; free,
realloc and switching the tracker in any order. There are no threads.

What makes each part correct, in short: the verdict of a run tells of every
test (runner, `-p`, `-jN`, exit status); a passing test had its expectations met
and used them as stated (mock); a block has one owner and wrong frees and leaks
are charged where they happened (leak detector); the chain holds each test once,
in the promised order (registry); what runs is what the options ask for, and
what is shown and reported is what ran (command line, output); an assertion
passes when what it says is true, by whichever of its two implementations
(assertions); a value comes out of the mock as it went in, through either
interface (facades); what a test changed is put back (plugins).

## 2. Modules

| module | models | main correspondence |
|---|---|---|
| `TestRun` | what a run promises, abstractly | each test runs at most once and is counted after it ran; green iff all were counted, none went wrong, nothing happened outside |
| `ParallelRun` | `cu_run_parallel` | parent: `Start*`, `Fork`/`ForkFails`, `Collect`/`SkipUnforked`, `Summarise`; worker: `Relink`/`FreopenFails`, `RunTest`, `WriteStats`/`WriteStatsFails`, `Exit`; `Kill` from outside |
| `SeparateProcess` | `cu_fork_run_one_test` | parent: `Fork`/`ForkFails`, `WaitEnded`, `WaitStopped` then `SendContinue`, `WaitInterrupted`, `GiveUp`, `WaitFails`; child: `Raise`, `Finish`, `CallExit`, `Crash`, `Stop`, `Resume` |
| `TestRunner` | `runner.c` in one process | `NextTest`, `Return` (next part of the test), `Fail`, `AddFailure`, `ExitTest`, `StartNested`/`EndNested`, `EndRun`. A frame holds the locals of one active run, `jmp` is the stack of sections |
| `MockCall` | the matching of one scope and the tests that use it | `Expect`, `ActualCall`, `WithParameter`, `WithOutputParameter`, `OnObject`, `WithName`, `ReadReturnValue`, `CheckInTest`, `ClearInTest`, settings; `Return`, `PluginCheck`/`PluginSkipsCheck`, `PluginClear` for the fixture and the plugin |
| `ScopeTree` | what the mock's scopes promise, abstractly | scopes come to be as clones of the global one and are deleted by its clear |
| `MockScopes` | the scopes and repositories of `mock_core.c`, the adapter pool of `mock_support_c.c` | `Access` (`cum_scope_get`), `Set`, `StrictOrder`, `Fill`, `Bind`, `Install`/`InstallC`, `RemoveAll`, `ClearAll`, `ClearNamed`; `TestEnds`, `PluginClear`, `PluginRemove`, `TestBegins` for the plugin |
| `MemLeak` | `memleak.c` with plugin and user | `Alloc`, `FreeTracked`, `ReleaseIfTracked`, `Realloc*`, `Overwrite`, `SetTracking`, `SaveAndDisable`/`RestoreTracking`, `PreTest` ... `PostTest` with the report's buffer (`Entries`, `Ending`), `DestroyAll` |
| `Registry` | `registry.c` and `OrderedTest.h` | `Install`, `InstallOrdered`, `UndoLastAdd`, `Begin`, `BeginReversed`, `Shuffle` |
| `CommandLine` | `args.c` | operators: `Parsed` folds the arguments by `Dispatch`, the chain of `else if` in its order; `FiltersMatch` |
| `Outputs` | `output.c`, `junit.c` | operators: each hook takes the output's record to the next one |
| `Program` | `cu_run_all` and its loop; composes the three above | `Initialise` (registry), `Start` (parse, list or begin), `StartRepetition`, `RunTest` (one turn of the loop with all its output hooks), `EndRepetition`, `EndRun` |
| `Text` | the text algorithms of `assert.c` and `simplestring.cpp` | operators on sequences of characters |
| `Assertions` | each assertion as macro (inline) and as library function, its message | `InlinePasses`, `LibraryPasses`, `FailureMessage` |
| `MockValue` | typed values of the mock: construction, comparison, getters and their conversions, in C++ and C | `ValueEquals`, `GetValue`, `CallReturn`, `ScopeReturnOrDefault`, `ActRet`, `ToMockValue` |
| `TestBody` | a test's body as a client of `Assertions`, `MockValue` and `Text` | `Macro`, `Library`, `Fail`, `Throws`, `TestExit`; `ActualCall`, `ReadCall`, `ReadC`, `MockC`, `Clear`, `SetData`, ...; `WithExpected`, `WithActual`; `Construct`, `Change`, `ReplaceText`, `SplitAt`, `Ask` |
| `Plugins` | the plugin chain and the library's three plugins, around tests that nest | `InstallPlugin`, `RemovePlugin`, `Enable`, `OfferComparator`, `StartTest`/`StartNested` (pre actions), `EndTest` (post actions), and what tests do to pointers and blocks |
| `MC*` | small instances | values of the constants only |
| `*Proofs` | theorems | see section 6 |

Variables carry the names of the code's; history variables, which only
properties read, are marked in the declarations. Definitions under a comment
"Mutant" are wrong variants of the definition behind them, used to show that
the properties notice.

`ParallelRun` instantiates `TestRun` with a refinement mapping: `counted` is
what the workers went through whose counters the parent has added, `incident`
that a fork, a worker or the directory failed, `verdict` what the summary says.

`MockScopes` instantiates `ScopeTree`: `alive` are the scopes that are not
zombies. In the code no scope is ever freed; that zombies cannot be noticed is
what the refinement says.

Abstractions. A worker's iteration of the run loop is one step, because nothing
it touches is visible to another process. In `SeparateProcess` a test is the
failures it raises and how it ends. In `MockCall` a parameter's value is
abstract (equal or not), and a whole expectation chain is one step because it
only touches the new expectation; a call chain is one step per link, because
each link may fail the test. In `MockScopes`
expectations and data are whether a scope holds any, copiers stand for
comparators (the code is the same), a type is a model value, and the installs
of the plugin's pre action are the `Install` steps a test may begin with. In
`MemLeak` an address is the block that starts there, and setup and body are one
stage. In `CommandLine` an argument is a sequence of characters whose flag is
kept letter by letter, because the options are told apart by prefixes, and whose
text is from a few abstract characters. In `Outputs` what is shown is a sequence
of parts (`<<"testStarted", t>>`); wording, colour and escapes are left out. In
`Program` a test is its outcome: checks and failures. In `MockValue` an integer
has the range of its type at a small width, and a double is a number, an
infinity or NaN. In `TestBody` a call has a state its return value can be in,
because the matching is `MockCall`'s.

How the parts of a run are divided: `Program` has the run from the command line
to the status with tests as outcomes; `TestRunner` has the inside of a test with
its jumps and nested runs; `Plugins` what stands around a test; `TestBody` what
it does between; `SeparateProcess` and `ParallelRun` replace the loop's turn and
the loop when tests run in other processes.

## 3. Runs

| run | shows | bounds |
|---|---|---|
| `parallel` | totals exact, green is complete, replay deterministic, nothing left behind, ends, implements `TestRun` | two workers; six registries: empty, one group (fewer groups than workers), two, a name that comes back, four tests dealt 2+2; with and without `-p`; five faults |
| `separate` | failures exact, no child left, ends | 2 tests, 2 stops, retries 1 (30 in the code) |
| `runner` | state of the innermost run, sections match jumps, failures attributed, every test finished | 2 tests, 2 repetitions, 2 nested runs of 1 test, jump stack of 2 (10 in the code), 2 failures |
| `runner_escape` | a jump out of a nested run restores nothing (finding) | 1 repetition |
| `program` | the list is in the promised order, what runs and is shown is what was asked for, reports are of what ran, the status tells | 3 tests: two share group A, the third is of group AB, one is ignored; two levels; 1 or 3 checks, 0 or 2 failures; progress lines of 2 marks (50 in the code), 4 exit statuses (256), 1 shuffle, 1 report that cannot be opened |
| `body` | assertions judge rightly by both routes, messages show the difference, values and both interfaces agree, strings keep their text | an int of 2 bits and a long of 3; a window of 4 (20 in the code); strings of at most 4 characters; 1 check; 1 call (2 where the C cursor may be at another than the scope's last) |
| `plugins` | pointers restored, leaks charged to their test, comparators of the plugins around the test | 3 plugins in either registry, three chains to start with; 3 tests, one level of nesting, 3 steps in all, 2 comparators, 1 change to a chain; table of 2 (32 in the code), 1 entry per plugin (32) |
| `mock` | never overcharged, charges fit, exact fit wins, outputs from the charged expectation, green means met, order kept, fresh for each test | five suites, two of them with `withName`, 2 expectations, 3 calls of at most 2 parameters, up to 2 tests |
| `mock_parked` | the parked message is freed twice (finding) | tests that leave one expectation unmet |
| `scopes` | a revived scope is as a new one (implements `ScopeTree`), bindings come from a scope that exists, every test finds fresh scopes | the global and one named scope, one type, 2 comparators, 2 entries, a pool of 2 (32 in the code), three suites of operations; any number of tests |
| `mock_adapters` | removal through `mock_c()` lets a binding's adapter be reused (finding) | two types, one suite |
| `leaks` | one owner per block, exactly the wrong frees fail, leaks charged to their test in a report with a whole ending, tracking restored | 3 addresses, 2 kinds, 2 sizes, freelists of 1 (64 in the code), 2 nested saves, 1 block at a time with overwritten guard; any number of tests |

Why the bounds are enough to meet the interesting cases. Two workers and four
groups give a worker with two groups and one without; with `pw` at either
worker the other can be in any state. Two tests under `-p` are enough for an
overlap of a child left behind with the next. A jump stack of two is full in
the body of a nested test and overflows in a run nested in that. Two
expectations are needed for a choice, three calls for one that comes too often.
One named scope can be new, alive, deleted and revived while the global one has
any settings; two entries are needed to see a reversal, a pool of two to fill it
over two tests. A freelist of one is filled and bypassed with two blocks; a
third address is needed for `realloc` next to them; size 61 fills its class to
the last byte with node and guard; 5000 is in no class, and one leak of it fills
the report's buffer.

`program`: a group whose name contains another's tells exact filters from loose
ones; two tests of one group around one of another (by order of registration,
by levels or by a shuffle) make a group that is not contiguous; the command
lines are every filter option in each of its four forms, glued and separate,
the pairs of two glued filters, the three listings, `-s`, `-b -ri`, `-r`, each
output with repetitions and filters, and seven that must be refused. Two
failures in each of two repetitions reach a status that is 0 again. `body`: at
the widths chosen every type has a value the next narrower one does not have;
`MockValue` compares all pairs of types at both ends of their ranges. Texts
have a control character, its escape, both cases and a difference before, in
and behind an escape. A window of 4 is shorter than the longest of them, with
the difference at either end. `plugins`: a table of 2 is full within one test
and over a test and one inside it; the same pointer can be set twice.

Each bound on a counter is a constant named in its module (`MaxRaised`,
`MaxStops`, `MaxRuns`, `MaxFailures`, `MaxWants`, `MaxCalls`, `MaxArgs`,
`MaxTests`, `MaxEntries`, `MaxSaves`, `MaxOverwrites`, `MaxExpected`,
`MaxShuffles`, `MaxUnwritable`, `MaxChecks`, `MaxLength`, `MaxSteps`,
`MaxOffers`, `MaxChanges`) and appears in guards.

What the passing runs leave out, because the code does otherwise there (section
5): `parallel` and `separate` have no test that calls `exit(0)`; `runner` has
`Escapes = FALSE`, so that code outside the sections of a nested run does not
jump; `scopes` does not check `BoundAsInstalled`; and the exceptions that the
properties of `program`, `body` and `plugins` name in their text.

No run checks a type invariant: `TypeOK` is a theorem where there is a proof
module (section 6).

## 4. Fairness

Only two modules claim liveness. `ParallelRun`: weak fairness of the parent and
of each worker, which the operating system's scheduler gives to every runnable
process; tests are taken to end, `Kill` is not fair. `SeparateProcess`: weak
fairness of the parent's own steps and of each running test's end; nothing is
assumed of stops, continues and interruptions from outside. A stopped child
goes on because the parent sends SIGCONT, which is what `RunEnds` shows. The
other modules are driven by user code that may stop at any time, so they claim
safety only.

## 5. Findings

1. A failure in a plugin hook, constructor or destructor of a nested run jumps
   over the restore of the runner's state (`runner_escape`,
   `core/runner.c:111`), although 334-337 says all state is restored.
2. The parked message of a mock failure is freed twice when the failure was
   reported by the plugin (`mock_parked`, `mock/mock_core.c:603`).
3. After `removeAllComparatorsAndCopiers` through `mock_c()` a binding made
   before may call a comparator installed later, for another type, in whatever
   scope (`mock_adapters`, `mock/mock_support_c.c:787`).

These were reproduced with small programs against the library: a segmentation
fault in the outer test, an abort, and a parameter compared by the other type's
function.

### Known deviations without a run

Met while modelling. The models have the behaviour of the code; the properties
name it as an exception where they would meet it. Undocumented ones are listed so
that a reader does not take a property for more than it says.

- Processes: a test that calls `exit(0)` ends its worker (or child) with status
  0 before the counters are written, so what it and the worker's other tests did
  is dropped (`core/fork.c:204`, 239, and 67 under `-p`).
- Registry: the first `TEST_ORDERED` after a plain `TEST` calls `addTest` on a
  null pointer before `main` (`OrderedTest.h:38`; `Program` reaches
  `status = "crashed"`). `removePluginByName` reaches the first two plugins only.
- Command line: several exclusions are joined by *or* like all filters, as
  documented, so that `-xg A -xg B` excludes nothing. The sources disagree on
  `-xt` and `-xst`: the program's help says that they exclude the tests "whose
  group and name contain" (or "exactly match") the two (`core/args.c:363-370`);
  `docs/INTERFACE.md:414-416` makes of them one filter of groups and one of names,
  both of which a test must pass, and `tests/cli/run.sh:52-55` asserts that all of
  the group is excluded. The code does the latter: `-xt A.x` leaves out `A.y` and
  `B.x` as well. `SelectedShown` and `SelectionIsShown` take the reading of
  `INTERFACE.md` and so do not show the help to be right.
  `-r-5` repeats about 4 thousand million times.
- Exit status: the system keeps 8 bits of the number of failures, so 256 of them
  look like none; `ExitHonest` is stated modulo that.
- JUnit: a group that comes again overwrites its first report; a group that is
  filtered out writes `cpputest_.xml`; the first case of a further repetition
  counts from the checks of the one before; a report that cannot be opened
  leaves its checks to the next case.
- Assertions: some macros count before they evaluate their operands (an operand
  that leaves the body has been counted), the library after. Texts that differ
  only in a control character and the letters of its escape look the same in a
  message. `BITS_EQUAL` shows as many bytes as the actual value has.
- Mock: two infinite expected and actual doubles are compared by their
  difference, which is NaN, unlike `DOUBLES_EQUAL`. An unsigned long read as a
  long long changes its sign. In C, `hasReturnValue` asks the scope's call while
  the getters ask the call made last; an unexpected call made through `mock_c()`,
  and a call or `clear` in C++ (the plugin's included), leave the cursor of the
  C interface at a freed call; no property speaks of that. With tracing on,
  `returnIntValueOrDefault` and its like of the traced call give zero in C++
  (`MockSupport.h:904-909`, 1036-1038) and the default in C
  (`mock/mock_support_c.c:430-435`), as the getters of the scope do in C++:
  `InterfacesAgree` leaves this comparison out.
- SimpleString: `replace` of a text that overlaps itself by a shorter one writes
  past its allocation; `replace(c, 0)` makes length and text disagree; `split` by
  several characters loses the rest of a delimiter at the end.
- Plugins in nested runs: an inner `SetPointerPlugin` restores the outer test's
  pointers, its constructor forgets them; an inner leak plugin ends the outer
  test's checking period and may charge its blocks to the inner test;
  `EXPECT_N_LEAKS` speaks to the plugin constructed first; an inner
  `MockSupportPlugin` removes the outer one's comparators.
- `withName` on a call takes back the call's claim without releasing the
  expectation it claimed: that one is no candidate any more, and a call that
  fits it exactly may go to an expectation that ignores parameters, or fail.
  `ExactFitWins` leaves renamed calls out.
- An output that the charged expectation wants unmodified may hold the data of
  an expectation that the call matched before it passed another parameter:
  what was copied then is not taken back. `OutputsFromCharged` speaks of the
  outputs that have data.
- A mark that a discarded call left on an expectation can stand in for a
  parameter that a later call does not pass, which a comment
  (`mock/mock_core.c:1665`) keeps on purpose. The adapter pool is not released
  when the plugin empties the repositories: from the 33rd install of a program
  on, comparators installed through `mock_c()` are ignored.

## 6. Theorems

Proved for every value of the constants, under the named assumptions of each
module and the hypotheses that a theorem states itself, which are these:
`Visible` and no `reap` among the faults (`ParallelRun`: the end of a worker is
reported as it was, and a status of 0 says that it left its counters; for the
code without that see section 5), `~Escapes`
(`TestRunner`; with escapes the run `runner_escape` refutes the same
properties), `LongIsWider` (`NumbersAreKept`: an `unsigned int` fits a `long`),
`ParsesAsAsked` (`SelectionIsShown`: `Parsed` refuses every wrong command line
in question and takes every right one, whose filters then let through just the
tests that are documented; a statement about constants, out of the prover's
reach because `Parsed` is a fold over the texts; the run `program`, whose
`SelectedShown` fails where the parser does not do this, finds it so for its own
command lines), and, for `LeaksToTheirTest`, that the plugin constructed first is
the only leak plugin of the program's registry, as `RunAllTests` has it (of two,
the one that acts first takes all blocks).

`ParallelRunProofs`. `TypeCorrect` is `[]TypeOK`. `RunCorrect` is the inductive
invariant `RunInv`: workers are forked in order (`ForkOrder`), what a worker
has been through is a prefix of its share and its stats are full only when it
went through all of it (`WorkerInv`), and what the parent took is from dead
workers whose share is complete, without a bad outcome while no failure is in
the totals (`CollectInv`). `GreenMeansAll` is not inductive: whether a
collected worker lost its counters is not in the totals. `RunInv` adds that a
collected worker without taken stats has left a failure there. `GreenIsComplete`
then needs that every test is dealt to some worker (lemma `EveryTestIsDealt`),
and holds if no worker can end with status 0 before its stats are written
(`Visible`: no `exit0` outside `-p`, no reaping by others).
`NothingOutlivesRun` follows from `CollectInv`.

`RunCounted` says of each single counter what the totals say of their sum
(`CountersInv`): a worker's counters are those of the tests it has been through,
each counted once, and nothing is added to the totals but counters of collected
workers. `TotalsExact` (`MergedTotals`) follows, also with workers that call
`exit(0)`: what they did is in neither side. `ReplayDeterministic` is `ReplayInWorkerOrder`: what the parent has
shown is the logs of the collected workers in the order of their numbers
(`ReplayInv`), and a log is what its worker's tests wrote (`LogInv`). It
excludes that something else in the process reaps a worker, because then the
parent does not wait for the end of that worker's output.
`ParallelKeepsPromise` is the refinement: `Spec => Abstract!Spec`, each step of
`ParallelRun` being one of `TestRun` or a stutter. The step that needs
`RunInv` is the one that gives the verdict.

`OneTestProofs`, the child under `-p`. `IInv` says that the failures are the reported stops
plus the tests behind the parent that did not pass. To keep it when the parent
leaves a test, the status must be honest (`EndedHonestly`: an exit code 0 says
that no failure was raised, for which 0 must not be among `ExitCodes`), and the
children behind the parent must not change any more while those ahead have not
begun (`OneAtATime`). `FailuresAreExact`, `TestsDoNotOverlap`, `TypeCorrect`.

`OneTestProofs`, the body of a test: every invariant of `TestBody`, for all
scopes, operands and texts over any alphabet. `CursorsTyped` is the inductive
invariant of the mock part, `MocksTyped`: what a scope's last call, its reference
and the cursor are at is a call of the test, with an answer of its type. It keeps
`InterfacesAgree` (`CReadsAsCplusplus`): the tables of coercions are the same
(`TablesAgree`), so a getter in C gives, counts and fails as the call's in C++
(`GettersAgree`); and where the scope's last call is the cursor's, the default is
given in the same states (`DefaultsAgree`). With what a scope's data hold
(`DataInv`) it keeps `ValuesKept` (`NumbersAreKept`): a
conversion that the getter allows keeps the number, where `long` is wider than
`int` (`LongIsWider`). Where the two are as wide, an `unsigned int` read as a
`long` is not kept; that is the code's own condition, so it is the theorem's
hypothesis and no assumption on the constants.
`AssertionsMeanWhatTheySay` and `FailuresAreVisible` are by cases on the kind of
the assertion: the library's scans stop at the first difference or the end
(`FirstDifference`), so they compare the characters before the NUL, all of them
or the first `n`; and texts that differ and do not look the same when written
differ first at a place that both the window and the caret are at.
`TextsAreKept` needs that the text stays one over the alphabet (`TextInv`). That
the tokens of a split put together are the text is by the number of tokens, and
the length of what `replace` writes by the place where it looks: an induction
from the end of the text, in which each occurrence that starts at or after a
place counts once if no two overlap (`Apart`).

`TestRunnerProofs`. `RunsConsistent` is the inductive `RunnerInv`: the fields of
the runner are those of the innermost frame, what an outer frame has saved is
its own state (`StateOfInnermost`), the jump stack holds exactly the sections
that the frames are in, and a frame outside a section has none open behind it.
Without escapes every jump then lands in the frame that made it, which the
proof needs in each of the steps that fail. Of each frame it says which parts
have been started for how many tests (`CountersOK`) and which failures are its
own (`FailuresOK`). `StateRestored`, `JumpsBalanced`, `FailuresTheirOwn` and
`TestsComplete` follow, and `TypeCorrect` with the bounds of the counters of
repetitions (`VerdictOK`).

`MockCallProofs`. Every link of a call (`Passed`, `PassedObject`, `Renamed`, ...)
is a composition of narrowing, marking and completing, so the lemmas are about
these and about what they leave of an expectation. The inductive `IInv` says of
the call in progress that each candidate, and the expectation it has claimed,
takes all that the call has passed so far and has calls left (`CallOK`); the
same of the calls charged (`ChargesOK`), with the data they copied; that the
charges of an expectation are as many as its calls (`ChargesTo`); that calls out
of their window have left their mark (`OrdersOK`); and that a green test met all
(`TestInv`). `NeverOvercharged` alone is not inductive: the claim of an
unsettled call is not in `calls` yet. `CallsMatched` (the invariant),
`NoneOvercharged`, `ChargesFit`, `OutputsRight`, `GreenIsMet`, `GreenInOrder`,
`TypeCorrect`, and the action property as `MockIsFresh`.
`ExactFitIsTaken` is `ExactFitWins`, of which `IInv` knows
nothing: it says what a candidate takes, and here the question is whether one
that would take all of the call was dropped on the way. `EInv` says, of a call
that began without marks, that what a candidate has ticked off is what the call
has passed of it (`HeldTrack`), that an expectation with calls left that the call
can still come to fit exactly has never lost its place (`AllHeld`; if the call
passes no name twice, as an exact fit cannot), and that the call is claimed as
soon as, and only if, one that ignores nothing has been met in full
(`ClaimedIfMet`). So at the end an exact fit is final, and the call was claimed
by one that is met as exactly. Of the calls charged it says the same with the
charges before each (`FitsOK`).

`MemLeakProofs`. `TrackingComesBack`: what a restore brings back is the saved
state, so `SavedIsWanted` adds that this is the wanted one while saves are open.
`ViewsAgree` is the invariant for the blocks: the buckets of the table, the free
lists and the user's blocks are disjoint and hold each address once (`Sound`), a
table entry says of a block what it was allocated with (`Accounts`), and a block
belongs to the test whose period it was made in (`Switched`). From it
`BlocksHaveOneOwner` (`OneOwner`), `WrongFreesNoticed` (`WrongFreesFail`, with the
cause of each failure in `CausesInv`), and `EachChargedItsOwn` (`LeaksCharged`):
what a test holds of its own is what is checked, and what the report writes stays
within its limit however many blocks of whatever sizes, descriptions and order
are in it (`Filling`), so that the ending finds the reserve that it needs. That
the set of addresses is finite is assumed.

`MockScopesProofs`. The inductive `IInv` adds to the types that every adapter an
entry leads to has been given its comparator and that the global scope is never
a zombie; for `FreshScopes`, that the plugin's first step leaves every scope
cleared and all but the global one zombies (`Cleared`), which its second keeps.
`TypeCorrect`, `BindSourceIsAlive`, `TestsFindFreshScopes`.
`ScopesKeepTree`: every step of `MockScopes` is a step of
`ScopeTree` or a stutter. What it needs of the code's state is `ZombiesEmpty`:
a zombie has no comparators and holds nothing, and its tracing is that of the
global mock, although revival does not copy it, because a clear resets both
and `cum_set_tracing` reaches zombies too.

`ProgramProofs`. `ListIsKept` is `ListKept` for any number of tests and levels.
The inductive `ListInv` names what the pointers only imply: the list is a
sequence of the installed tests without repetition (`IsList`), `next` leads along
it, its first `m` tests are plain and those behind are the chain of ordered
tests (`Parts`), and it is `Sorted` until `-b` or `-s`. Threading a test in, taking
one back and relinking are then insertions, removals and permutations of a
sequence. That following pointers (`Reached`) and shuffling place by place
(`Shuffled`) come to such a sequence is an induction on the number of steps, done
by a least counterexample on the function itself.
`ExitIsHonest` is `ExitHonest`. Failures are counted as pairs of a repetition and
a number (`AllFailures`), and in a repetition of a test and a number
(`FailurePairs`), so that a sum is the size of a set. `ExitInv` says that what is
added up so far is these sizes; to keep it, a test must not be counted twice in
a repetition, so it also says that the tests behind the one that the loop is at
have nothing recorded (`Pending`), which holds because the list repeats none
(`ListInv`).
`ReportsAreTrue` is `ReportsTrue`, for any list and any order of its groups. While
the loop is in the middle of the list, `Stands` says where: the tests of the group
at hand are those behind place `b`, where the group before changed (`Together`), and
none behind place `n` has run. The record that the JUnit output keeps then has the
tests that ran between `b` and `n`, the one at place `i` as the case whose number
is how many of them are not behind `i` (`Holds`, `Rank`); where no report was lost,
each case's checks less those of the case before, or less the total that the
last written report left, are the test's own, which needs that the next case would
be counted from what the results have now (`Base`, in `Recorded`); and the
reports of the groups up to `b` tell the truth of the last stretch of each
(`Reports`, `Mine`). A test adds one case (`HasRun`); what its failures do to the
record one after the other is again an induction by a least counterexample
(`FailuresShown`). A group that ends replaces just its own report (`GroupRecorded`),
and one of which no test ran writes only the report without a group's name, so the
theorem needs that groups have names. `ProgramAssumption` says so, and of a test's
outcome that its checks are a number and its failures messages: `TEST(group, name)`
makes its group from an identifier, and the mark that a case has not failed
(`has_failure` in the code, `NoFailure` in the model) is no message.
`SelectionIsShown` is `SelectedShown`. The inductive `ShownInv` says what has
become of the options and that nothing counts as failed before the first
repetition (`AskedInv`), and what `-ln` has written (`ListsNames`); between
repetitions nothing is shown since the last summary and no suite is open; and in
the loop (`Showing`) there is a place `n` of the list such that of the tests
before it those that the filters let through, and no others, have run and are
shown. A suite is open exactly in the middle of a group, and every message of a
test so far stands behind the start of its group's suite (`InSuite`, `Nested`).
`Shows` says what being shown means for each kind of output, in terms of its
parts of some kinds (`View`); each call of an output adds one part or none to it
(`Added`), and `Amidst` is the state between a test's start and its end.
`SelectedShown` is about the end of the loop only, where `n` is the length of
the list, so it is far from inductive. Of the constants it needs that `NoTest`,
TeamCity's `tc_current` when it is null, is no test, and that a status of 1 is
not taken for 0 (`StatusRange`). `Only`, `Once`, `Printed` and `Shown` are
recursive functions because the library has no theorem about `SelectSeq` and its
folds that needs no operator as a parameter; what a filter takes (`Taken`) is
then again known by a least counterexample.

`PluginsProofs`, for any plugins in any chains. What all the plugins of a chain do
before or after a test is a loop along the chain (`AllPreActions`,
`AllPostActions`); the lemmas `PreActions` and `PostActions` say that what every
single action keeps, the loop keeps, again by a least counterexample (`Kept`), and
each theorem names the set of states that its actions pass through. `TypesHold`
includes that a chain leads only to plugins of its registry and that tests nest
once, so that the registry that ends is that of the innermost test.
`PointersComeBackAlways` is `PointersRestored`: of every pointer that is not what
it was at first, the first entry of the table has that first value, and of every
other entry an earlier one is of the same pointer (`Restorable`), which taking
entries off from the last keeps. `AdaptersPerTestAlways` is `AdaptersPerTest`:
`AdaptersInv` adds that mock() has comparators only while a test runs around which
a `MockSupportPlugin` stands. `LeaksToTheirTestAlways` is `LeaksToTheirTest`:
while no leak plugin has come between, the plugin remembers what the outer test
announced, the blocks that are checked are exactly those of that test (`Watched`),
and a block that is checked has never been charged (`Counted`); nothing is checked
between tests. `LeaksToTheirTest` alone is not inductive: it speaks of the last
test that ended.

Only model-checked: liveness (`RunEnds`), what `Parsed` makes of a command line
(`ParsesAsAsked`), and the properties that the runs of section 5 refute. Out of
the prover's reach: liveness under fairness, `ENABLED`, and facts about a fold
that need induction with an operator as a parameter (`Parsed` in `CommandLine`).
Where an induction over numbers was needed it was done by a least counterexample
(lemmas `Least`, `RecursionExists` and `Kept`).

## 7. Not modelled

Whole parts, with reasons, are listed in `PROJECT.json`. Inside the modelled
parts:
- parallel run: the content of output lines beyond test and order, times,
  check counts, `-r` around it;
- runner: times, the trace of `-vv`, exceptions (`-e`), and the inside of a test
  together with the whole of a run (`TestRunner` and `Program` share the loop);
- `MockCall`: scopes other than the global one (a call is matched within one
  scope; `MockScopes` has the scopes without calls), duplicate parameter names,
  comparators, `crashOnFailure`, renaming an expectation,
  more than one `onObject` per call;
- `MockScopes`: what expectations and data hold, handles kept across a deletion;
- facades: output parameters and comparators by object through `MockSupport.h`,
  the text of a value in a failure message;
- leak detector: simulated out-of-memory, the allocation count,
  `crash_on_allocation_number`, calloc and sizes that wrap, the report's text
  beyond the lengths that fill its buffer. `realloc` of a block that was not obtained with `malloc` is not
  judged by the code and not by the model. What nested runs do to the checking
  period is in `Plugins`, without kinds and wrong frees;
- registry: tests of other registries than the current one;
- command line: the text of help and usage, `-h` beyond the refusal;
- output: wording, escapes of TeamCity and XML, colours, file names, times;
- assertions: the growing buffer of a message, how numbers are written,
  `CHECK_EQUAL` evaluating its operands again to see whether they change;
- SimpleString: `StringFrom` of numbers and objects, formats, `AtoI`.

## 8. Plan

Done: all modules of section 2, the proofs of section 6.

Next, in this order.
1. `MockCall` with duplicate names and comparators that depend on the installed
   repository (composed with `MockScopes`).
2. `MemLeak` with the simulated out-of-memory.
3. `TestRunner` inside the loop of `Program`.
