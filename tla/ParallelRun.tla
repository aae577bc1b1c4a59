------------------------------ MODULE ParallelRun ------------------------------
(***************************************************************************)
(* One run under -jN (cu_run_parallel, src/src/core/fork.c): the parent    *)
(* forks workers, hands each every NWorkers-th group of the registry,      *)
(* waits for them in worker order, replays what each printed and adds up   *)
(* the counters each left in its stats file.  A worker goes through the    *)
(* run loop of runner.c in its own copy of the registry, and leaves its    *)
(* output and its counters in two files of a private directory.            *)
(*                                                                         *)
(* Parent and workers interleave freely; what a worker does between two    *)
(* tests is private to it, so one iteration of the run loop is one action. *)
(***************************************************************************)
EXTENDS Integers, Sequences, FiniteSets, FiniteSetsExt

CONSTANTS
  Groups,           \* the group names
  Registries,       \* the registries considered: the group of each test, in list order
  Workers,          \* args.parallel_workers
  Separate,         \* the values of args.run_separate_process considered (-p)
  Outcomes,         \* the ways the iteration for a test may end
  Faults            \* what the environment may do to the processes

NIL == 0            \* the end of the list
WorkerIds == 0 .. Workers - 1

Bad == {"fail", "crash"}
Executed == {"pass", "fail", "crash", "exit0"}

ASSUME ParallelAssumption ==
  /\ Registries \subseteq Seq(Groups)
  /\ Workers \in Nat \ {0, 1}
  /\ Separate \subseteq BOOLEAN
  /\ Outcomes \subseteq Executed \cup {"ignored", "filtered"}
  /\ Faults \subseteq {"mkdtemp", "fork", "freopen", "stats", "kill", "reap"}

VARIABLES
  group,     \* group[t] = t->group; it and separate are fixed
  separate,  \* does each test run in a child of its worker? (-p)
  outcome,   \* history: how each test's iteration ended, "none" before it
  ppc,       \* where the parent is
  pw,        \* the parent's loop variable w
  total,     \* *total, the counters the run reports
  stdout,    \* what the parent copied to stdout, line by line
  wpc,       \* where each worker is ("nofork" is pids[w] == -1)
  cur,       \* the test at each worker's loop variable t
  res,       \* each worker's own counters
  log,       \* the contents of worker-w.out
  outFile,   \* is there a worker-w.out?
  stats,     \* worker-w.stats: absent, cut short, or holding res[w]
  status,    \* how each dead worker ended
  seen,      \* history: the tests each worker has been through
  taken      \* history: the workers whose stats the parent has added

args == <<group, separate>>
parentVars == <<ppc, pw, total, stdout, taken>>
workerVars == <<wpc, cur, res, log, outFile, stats, status, seen>>
vars == <<args, outcome, parentVars, workerVars>>
-------------------------------------------------------------------------------
(* The registered tests, named by their position in the list.              *)
Tests == DOMAIN group

(* The snapshot of the groups: maximal runs of tests with one group name,  *)
(* dealt round robin.                                                      *)
Heads == {t \in Tests : t = 1 \/ group[t] # group[t - 1]}

GroupIndex(t) == Cardinality({h \in Heads : h <= t}) - 1

NWorkers == IF Workers > Cardinality(Heads) THEN Cardinality(Heads) ELSE Workers

Mine(w) == {t \in Tests : GroupIndex(t) % NWorkers = w}

(* t->next in the list worker w relinked, and its head for t = NIL.        *)
NextIn(w, t) ==
  LET later == {s \in Mine(w) : s > t}
  IN  IF later = {} THEN NIL ELSE Min(later)

(* A cu_result holds the counters the summary prints.                      *)
Counters == {"tests", "run", "failures", "ignored", "filtered"}

ZeroResult == [tests |-> 0, run |-> 0, failures |-> 0, ignored |-> 0, filtered |-> 0]

Plus(a, b) == [c \in DOMAIN a |-> a[c] + b[c]]

OneFailure == [ZeroResult EXCEPT !.failures = 1]

(* What one iteration of the run loop adds.  Under -p the test's own       *)
(* process is the one that dies: a crash is a failure of the test, and a   *)
(* child that calls exit(0) is a child whose status is 0.                  *)
Tally(o) ==
  [tests    |-> 1,
   run      |-> IF o \in Executed THEN 1 ELSE 0,
   failures |-> IF o \in Bad THEN 1 ELSE 0,
   ignored  |-> IF o = "ignored" THEN 1 ELSE 0,
   filtered |-> IF o = "filtered" THEN 1 ELSE 0]

(* Does the test take the worker that runs it along?                       *)
EndsWorker(o) == ~ separate /\ o \in {"crash", "exit0"}

(* cu_is_failure                                                           *)
IsFailure(r) == r.failures # 0 \/ r.run + r.ignored = 0

AbnormalSignalsOnly(s) == s = "signal"

Abnormal(s) == s \in {"signal", "98", "99"}

(* A status other than 0 is seen as 0 when waitpid fails with an error     *)
(* other than EINTR (SIGCHLD ignored): status keeps its initial value.     *)
SeenStatuses(w) == {status[w]} \cup (IF "reap" \in Faults THEN {"0"} ELSE {})
-------------------------------------------------------------------------------
Init ==
  /\ group \in Registries
  /\ separate \in Separate
  /\ outcome = [t \in Tests |-> "none"]
  /\ ppc = "start"
  /\ pw = 0
  /\ total = ZeroResult
  /\ stdout = <<>>
  /\ wpc = [w \in WorkerIds |-> "unforked"]
  /\ cur = [w \in WorkerIds |-> NIL]
  /\ res = [w \in WorkerIds |-> ZeroResult]
  /\ log = [w \in WorkerIds |-> <<>>]
  /\ outFile = [w \in WorkerIds |-> FALSE]
  /\ stats = [w \in WorkerIds |-> "absent"]
  /\ status = [w \in WorkerIds |-> "none"]
  /\ seen = [w \in WorkerIds |-> {}]
  /\ taken = {}

(* An empty registry has no group: the run ends at once.  Otherwise the    *)
(* parent needs its private directory before it forks anything.            *)
StartEmpty ==
  /\ ppc = "start"
  /\ Heads = {}
  /\ ppc' = "done"
  /\ UNCHANGED <<args, outcome, pw, total, stdout, taken, workerVars>>

StartNoDir ==
  /\ ppc = "start"
  /\ Heads # {}
  /\ "mkdtemp" \in Faults
  /\ total' = Plus(total, OneFailure)
  /\ ppc' = "done"
  /\ UNCHANGED <<args, outcome, pw, stdout, taken, workerVars>>

Start ==
  /\ ppc = "start"
  /\ Heads # {}
  /\ ppc' = "fork"
  /\ UNCHANGED <<args, outcome, pw, total, stdout, taken, workerVars>>

(* The fork loop's step to the next worker, or on to collecting.           *)
NextFork ==
  /\ pw' = IF pw + 1 = NWorkers THEN 0 ELSE pw + 1
  /\ ppc' = IF pw + 1 = NWorkers THEN "collect" ELSE "fork"

Fork ==
  /\ ppc = "fork"
  /\ wpc' = [wpc EXCEPT ![pw] = "forked"]
  /\ NextFork
  /\ UNCHANGED <<args, outcome, total, stdout, taken, cur, res, log, outFile,
                 stats, status, seen>>

ForkFailsUncounted ==
  /\ ppc = "fork"
  /\ "fork" \in Faults
  /\ wpc' = [wpc EXCEPT ![pw] = "nofork"]
  /\ NextFork
  /\ UNCHANGED <<args, outcome, total, stdout, taken, cur, res, log, outFile,
                 stats, status, seen>>

ForkFails ==
  /\ ppc = "fork"
  /\ "fork" \in Faults
  /\ wpc' = [wpc EXCEPT ![pw] = "nofork"]
  /\ total' = Plus(total, OneFailure)
  /\ NextFork
  /\ UNCHANGED <<args, outcome, stdout, taken, cur, res, log, outFile,
                 stats, status, seen>>
-------------------------------------------------------------------------------
(* Worker w relinks the registry to its own groups and sends its stdout to *)
(* its file.                                                               *)
Relink(w) ==
  /\ wpc[w] = "forked"
  /\ wpc' = [wpc EXCEPT ![w] = "running"]
  /\ cur' = [cur EXCEPT ![w] = NextIn(w, NIL)]
  /\ outFile' = [outFile EXCEPT ![w] = TRUE]
  /\ UNCHANGED <<args, outcome, parentVars, res, log, stats, status, seen>>

FreopenFails(w) ==
  /\ wpc[w] = "forked"
  /\ "freopen" \in Faults
  /\ wpc' = [wpc EXCEPT ![w] = "dead"]
  /\ status' = [status EXCEPT ![w] = "99"]
  /\ UNCHANGED <<args, outcome, parentVars, cur, res, log, outFile, stats, seen>>

(* One iteration of cu_run_all_tests_internal.  A worker the test takes    *)
(* along leaves without its counters: they are in its memory only.         *)
RunTest(w, o) ==
  /\ wpc[w] = "running"
  /\ cur[w] # NIL
  /\ outcome' = [outcome EXCEPT ![cur[w]] = o]
  /\ seen' = [seen EXCEPT ![w] = @ \cup {cur[w]}]
  /\ IF EndsWorker(o)
     THEN /\ wpc' = [wpc EXCEPT ![w] = "dead"]
          /\ status' = [status EXCEPT ![w] = IF o = "crash" THEN "signal" ELSE "0"]
          /\ UNCHANGED <<cur, res, log>>
     ELSE /\ cur' = [cur EXCEPT ![w] = NextIn(w, @)]
          /\ res' = [res EXCEPT ![w] = Plus(@, Tally(o))]
          /\ log' = [log EXCEPT ![w] = IF o = "filtered" THEN @
                                       ELSE Append(@, <<w, cur[w]>>)]
          /\ UNCHANGED <<wpc, status>>
  /\ UNCHANGED <<args, parentVars, outFile, stats>>

(* Past the last test the worker writes its counters, then leaves with 0.  *)
WriteStats(w) ==
  /\ wpc[w] = "running"
  /\ cur[w] = NIL
  /\ stats' = [stats EXCEPT ![w] = "full"]
  /\ wpc' = [wpc EXCEPT ![w] = "written"]
  /\ UNCHANGED <<args, outcome, parentVars, cur, res, log, outFile, status, seen>>

WriteStatsFails(w) ==
  /\ wpc[w] = "running"
  /\ cur[w] = NIL
  /\ "stats" \in Faults
  /\ \E s \in {"absent", "short"} : stats' = [stats EXCEPT ![w] = s]
  /\ wpc' = [wpc EXCEPT ![w] = "dead"]
  /\ status' = [status EXCEPT ![w] = "98"]
  /\ UNCHANGED <<args, outcome, parentVars, cur, res, log, outFile, seen>>

Exit(w) ==
  /\ wpc[w] = "written"
  /\ wpc' = [wpc EXCEPT ![w] = "dead"]
  /\ status' = [status EXCEPT ![w] = "0"]
  /\ UNCHANGED <<args, outcome, parentVars, cur, res, log, outFile, stats, seen>>

(* Somebody else's SIGKILL.                                                *)
Kill(w) ==
  /\ "kill" \in Faults
  /\ wpc[w] \in {"forked", "running", "written"}
  /\ wpc' = [wpc EXCEPT ![w] = "dead"]
  /\ status' = [status EXCEPT ![w] = "signal"]
  /\ \/ UNCHANGED stats
     \/ /\ wpc[w] = "running" /\ cur[w] = NIL
        /\ stats' = [stats EXCEPT ![w] = "short"]
  /\ UNCHANGED <<args, outcome, parentVars, cur, res, log, outFile, seen>>
-------------------------------------------------------------------------------
(* The parent collects worker pw: it waits until the worker is dead,       *)
(* replays worker-w.out, reads worker-w.stats (zeros if that fails), adds  *)
(* a failure of its own for an abnormal end, and removes both files.       *)
StatsReadUnchecked(w) == IF stats[w] = "absent" THEN ZeroResult ELSE res[w]

StatsRead(w) == IF stats[w] = "full" THEN res[w] ELSE ZeroResult

NextCollect == pw' = pw + 1 /\ UNCHANGED ppc

Collecting == ppc = "collect" /\ pw < NWorkers

CollectWorker(w) ==
  /\ \E s \in SeenStatuses(w) :
       /\ total' = Plus(total, IF Abnormal(s) THEN Plus(StatsRead(w), OneFailure)
                                              ELSE StatsRead(w))
       /\ stdout' = stdout \o log[w] \o (IF Abnormal(s) THEN <<<<w, NIL>>>> ELSE <<>>)
  /\ taken' = IF stats[w] = "full" THEN taken \cup {w} ELSE taken
  /\ outFile' = [outFile EXCEPT ![w] = FALSE]
  /\ stats' = [stats EXCEPT ![w] = "absent"]
  /\ NextCollect
  /\ UNCHANGED <<args, outcome, wpc, cur, res, log, status, seen>>

CollectFirstDead ==
  /\ Collecting
  /\ \E w \in WorkerIds : wpc[w] = "dead" /\ outFile[w] /\ CollectWorker(w)

CollectWithoutWaiting == Collecting /\ CollectWorker(pw)

Collect == Collecting /\ wpc[pw] = "dead" /\ CollectWorker(pw)

SkipUnforkedMissing ==
  /\ Collecting
  /\ wpc[pw] = "dead"
  /\ NextCollect
  /\ UNCHANGED <<args, outcome, total, stdout, taken, workerVars>>

SkipUnforked ==
  /\ Collecting
  /\ wpc[pw] = "nofork"
  /\ NextCollect
  /\ UNCHANGED <<args, outcome, total, stdout, taken, workerVars>>

(* The merged summary is printed, the directory goes, the run is over.     *)
Summarise ==
  /\ ppc = "collect"
  /\ pw = NWorkers
  /\ ppc' = "done"
  /\ UNCHANGED <<args, outcome, pw, total, stdout, taken, workerVars>>

(* cu_run_all returns; nothing of this run happens any more.               *)
Terminated == ppc = "done" /\ UNCHANGED vars

Parent ==
  \/ StartEmpty \/ StartNoDir \/ Start
  \/ Fork \/ ForkFails
  \/ Collect \/ SkipUnforked \/ Summarise

Worker(w) ==
  \/ Relink(w) \/ FreopenFails(w)
  \/ \E o \in Outcomes : RunTest(w, o)
  \/ WriteStats(w) \/ WriteStatsFails(w) \/ Exit(w)

Next ==
  \/ Parent
  \/ \E w \in WorkerIds : Worker(w) \/ Kill(w)
  \/ Terminated

(* The operating system runs every process that can run.                   *)
Fairness == WF_vars(Parent) /\ \A w \in WorkerIds : WF_vars(Worker(w))

Spec == Init /\ [][Next]_vars /\ Fairness
-------------------------------------------------------------------------------
Collected == IF ppc \in {"collect", "done"} THEN {w \in WorkerIds : w < pw} ELSE {}

(* The tests whose counters have reached the totals.                       *)
Counted == UNION {seen[w] : w \in taken}

NoDir == ppc = "done" /\ Heads # {} /\ pw = 0

(* What went wrong outside the tests and has been noticed by the parent.   *)
DiedAbnormally == {w \in Collected : Abnormal(status[w])}
Unforked == {w \in WorkerIds : wpc[w] = "nofork"}
Mishaps == Cardinality(DiedAbnormally) + Cardinality(Unforked) + (IF NoDir THEN 1 ELSE 0)

Line == WorkerIds \X (Tests \cup {NIL})

TypeOK ==
  /\ group \in Seq(Groups)
  /\ separate \in BOOLEAN
  /\ outcome \in [Tests -> Outcomes \cup {"none"}]
  /\ ppc \in {"start", "fork", "collect", "done"}
  /\ pw \in 0 .. (IF ppc = "fork" THEN NWorkers - 1 ELSE NWorkers)
  /\ ppc = "start" => pw = 0
  /\ total \in [Counters -> Nat]
  /\ stdout \in Seq(Line)
  /\ wpc \in [WorkerIds -> {"unforked", "nofork", "forked", "running", "written", "dead"}]
  /\ cur \in [WorkerIds -> Tests \cup {NIL}]
  /\ res \in [WorkerIds -> [Counters -> Nat]]
  /\ log \in [WorkerIds -> Seq(Line)]
  /\ outFile \in [WorkerIds -> BOOLEAN]
  /\ stats \in [WorkerIds -> {"absent", "short", "full"}]
  /\ status \in [WorkerIds -> {"none", "0", "98", "99", "signal"}]
  /\ seen \in [WorkerIds -> SUBSET Tests]
  /\ taken \in SUBSET WorkerIds

(* The totals are exact at every moment: each test that reached them is    *)
(* counted once, in the counter of what became of it, whichever worker ran *)
(* it; a worker whose stats were lost adds nothing; and every refused fork *)
(* and abnormal end adds one failure.  A group dealt to two workers, or    *)
(* counters of one worker read for another, would break it.                *)
MergedTotals ==
  LET With(S) == Cardinality({t \in Counted : outcome[t] \in S})
  IN  /\ total.tests = Cardinality(Counted)
      /\ total.run = With(Executed)
      /\ total.ignored = With({"ignored"})
      /\ total.filtered = With({"filtered"})
      /\ total.failures = With(Bad) + Mishaps

(* A run that looks green has counted every registered test, and none of   *)
(* them went wrong: no group is dropped with the worker it was dealt to    *)
(* (fork.c 162-165, 202-204, 239-244).                                     *)
GreenMeansAll ==
  ppc = "done" /\ ~ IsFailure(total) =>
    /\ Counted = Tests
    /\ \A t \in Tests : outcome[t] \notin Bad

(* What has been replayed is a function of what the tests did, not of the  *)
(* order in which the workers got on: it holds exactly the lines of the    *)
(* collected workers, by worker and then in list order, each abnormal end  *)
(* announced behind its worker's lines (fork.c 209-244, README "parallel   *)
(* runs are deterministic").                                               *)
Prints(t) == outcome[t] # "filtered" /\ ~ EndsWorker(outcome[t])

ReplayLines ==
  {l \in Collected \X Tests : l[2] \in seen[l[1]] /\ Prints(l[2])}
    \cup (DiedAbnormally \X {NIL})

Precedes(a, b) ==
  \/ a[1] < b[1]
  \/ a[1] = b[1] /\ a[2] # NIL /\ (b[2] = NIL \/ a[2] < b[2])

ReplayInWorkerOrder ==
  /\ {stdout[i] : i \in DOMAIN stdout} = ReplayLines
  /\ \A i, j \in DOMAIN stdout : i < j => Precedes(stdout[i], stdout[j])

(* When the parent returns, no worker is alive and no worker's file is     *)
(* left, so rmdir finds the directory empty (fork.c 226, 237, 257).        *)
NothingLeftBehind ==
  ppc = "done" =>
    \A w \in WorkerIds : /\ wpc[w] \in {"unforked", "nofork", "dead"}
                         /\ ~ outFile[w]
                         /\ stats[w] = "absent"

(* Every run comes to its end, whatever happens to the workers.            *)
RunEnds == <>(ppc = "done")

(* The parallel run is a run: what it reports is what TestRun promises.    *)
Verdict == IF ppc # "done" THEN "none" ELSE IF IsFailure(total) THEN "red" ELSE "green"

Promise == INSTANCE TestRun WITH
  registered <- Tests,
  Attempted <- Outcomes \ {"filtered"},
  Bad <- Outcomes \cap Bad,
  counted <- Counted,
  incident <- (Mishaps > 0),
  verdict <- Verdict

KeepsPromise == Promise!Spec
===============================================================================
