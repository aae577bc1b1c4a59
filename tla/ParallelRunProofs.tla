--------------------------- MODULE ParallelRunProofs ---------------------------
(***************************************************************************)
(* What holds of ParallelRun for every registry, number of workers, mode   *)
(* and set of faults: its types, that a green run has counted every test,  *)
(* that nothing of a run outlives it, that the merged totals are exact,    *)
(* that the replay is in worker order, and that the run keeps the promise  *)
(* of TestRun.                                                             *)
(***************************************************************************)
EXTENDS ParallelRun, FiniteSetTheorems, SequenceTheorems, WellFoundedInduction, TLAPS

LEMMA PlusType ==
  ASSUME NEW a \in [Counters -> Nat], NEW b \in [Counters -> Nat]
  PROVE  /\ Plus(a, b) \in [Counters -> Nat]
         /\ Plus(a, b).failures = a.failures + b.failures
  BY DEF Plus, Counters

LEMMA ResultTypes ==
  /\ ZeroResult \in [Counters -> Nat] /\ ZeroResult.failures = 0
  /\ OneFailure \in [Counters -> Nat] /\ OneFailure.failures = 1
  BY DEF ZeroResult, OneFailure, Counters

LEMMA TallyType ==
  ASSUME NEW o
  PROVE  /\ Tally(o) \in [Counters -> Nat]
         /\ Tally(o).failures = IF o \in Bad THEN 1 ELSE 0
  BY DEF Tally, Counters

LEMMA Least ==
  ASSUME NEW S \in SUBSET Nat, S # {}
  PROVE  Min(S) \in S /\ \A s \in S : Min(S) <= s
<1>1. PICK m \in S : \A s \in S : <<s, m>> \notin OpToRel(<, Nat)
  BY NatLessThanWellFounded, WFMin
<1>2. \A s \in S : ~ (s < m)
  BY <1>1 DEF OpToRel
<1>3. \A s \in S : m <= s
  BY <1>2
<1>4. QED
  BY <1>3 DEF Min

LEMMA WorkersOfRun ==
  ASSUME group \in Seq(Groups)
  PROVE  /\ IsFiniteSet(Heads)
         /\ NWorkers \in Nat
         /\ NWorkers <= Workers
         /\ Heads # {} => NWorkers > 0
         /\ Tests # {} => Heads # {}
<1>1. Tests = 1 .. Len(group) /\ Len(group) \in Nat
  BY DEF Tests
<1>2. IsFiniteSet(Tests)
  BY <1>1, FS_Interval
<1>3. IsFiniteSet(Heads)
  BY <1>2, FS_Subset DEF Heads
<1>4. Cardinality(Heads) \in Nat /\ (Heads # {} => Cardinality(Heads) > 0)
  BY <1>3, FS_CardinalityType, FS_EmptySet
<1>5. Tests # {} => 1 \in Heads
  BY <1>1 DEF Heads
<1>6. QED
  BY <1>3, <1>4, <1>5, ParallelAssumption DEF NWorkers

LEMMA EveryTestIsDealt ==
  ASSUME group \in Seq(Groups), NEW t \in Tests
  PROVE  \E w \in WorkerIds : w < NWorkers /\ t \in Mine(w)
<1>1. NWorkers \in Nat /\ NWorkers > 0 /\ NWorkers <= Workers
  BY WorkersOfRun
<1>2. IsFiniteSet({h \in Heads : h <= t})
  BY WorkersOfRun, FS_Subset
<1>3. GroupIndex(t) \in Int
  BY <1>2, FS_CardinalityType DEF GroupIndex
<1>4. GroupIndex(t) % NWorkers \in 0 .. NWorkers - 1
  BY <1>1, <1>3
<1>5. QED
  BY <1>1, <1>4, ParallelAssumption DEF WorkerIds, Mine

LEMMA NextInList ==
  ASSUME group \in Seq(Groups), NEW w \in WorkerIds, NEW t \in Tests \cup {NIL}
  PROVE  /\ NextIn(w, t) \in Mine(w) \cup {NIL}
         /\ NextIn(w, t) # NIL => NextIn(w, t) > t
         /\ \A s \in Mine(w) : s > t => NextIn(w, t) # NIL /\ NextIn(w, t) <= s
<1> DEFINE later == {s \in Mine(w) : s > t}
<1>1. Tests \subseteq Nat \ {0}
  BY DEF Tests
<1>2. later \subseteq Nat \ {0} /\ later \subseteq Mine(w)
  BY <1>1 DEF Mine
<1>3. CASE later = {}
  BY <1>3 DEF NextIn
<1>4. CASE later # {}
  <2>1. NextIn(w, t) = Min(later)
    BY <1>4 DEF NextIn
  <2>2. Min(later) \in later /\ \A s \in later : Min(later) <= s
    BY <1>2, <1>4, Least
  <2>3. QED
    BY <2>1, <2>2, <1>2 DEF NIL
<1>5. QED
  BY <1>3, <1>4
-------------------------------------------------------------------------------
LEMMA TypeInit == Init => TypeOK
<1> SUFFICES ASSUME Init PROVE TypeOK
  OBVIOUS
<1>1. group \in Seq(Groups) /\ separate \in BOOLEAN
  BY ParallelAssumption DEF Init
<1>2. NWorkers \in Nat
  BY <1>1, WorkersOfRun
<1>3. total \in [Counters -> Nat] /\ res \in [WorkerIds -> [Counters -> Nat]]
  BY ResultTypes DEF Init
<1>4. stdout \in Seq(Line) /\ log \in [WorkerIds -> Seq(Line)]
  BY EmptySeq DEF Init
<1>5. QED
  BY <1>1, <1>2, <1>3, <1>4 DEF Init, TypeOK, NIL

(* The arguments of the run do not change, nor does what is computed from  *)
(* them alone.                                                             *)
LEMMA SameArgs ==
  ASSUME UNCHANGED args
  PROVE  /\ group' = group /\ separate' = separate
         /\ Tests' = Tests /\ Heads' = Heads /\ NWorkers' = NWorkers
         /\ Line' = Line
         /\ \A w : Mine(w)' = Mine(w)
  BY DEF args, Tests, Heads, NWorkers, Line, Mine, GroupIndex

LEMMA TypeStep == TypeOK /\ [Next]_vars => TypeOK'
<1> SUFFICES ASSUME TypeOK, [Next]_vars PROVE TypeOK'
  OBVIOUS
<1> USE DEF TypeOK
<1>0. /\ NWorkers \in Nat /\ NWorkers <= Workers
      /\ Heads # {} => NWorkers > 0
  BY WorkersOfRun
<1>1. CASE StartEmpty
  BY <1>1, <1>0, SameArgs DEF StartEmpty, workerVars
<1>2. CASE StartNoDir
  BY <1>2, <1>0, SameArgs, PlusType, ResultTypes DEF StartNoDir, workerVars
<1>3. CASE Start
  BY <1>3, <1>0, SameArgs DEF Start, workerVars
<1>F. ASSUME ppc = "fork", NextFork
      PROVE  /\ ppc' \in {"start", "fork", "collect", "done"}
             /\ pw' \in 0 .. (IF ppc' = "fork" THEN NWorkers - 1 ELSE NWorkers)
             /\ ppc' # "start"
  BY <1>F, <1>0 DEF NextFork
<1>4. CASE Fork
  <2>1. wpc' \in [WorkerIds -> {"unforked", "nofork", "forked", "running", "written", "dead"}]
    BY <1>4 DEF Fork
  <2>2. QED
    BY <1>4, <1>F, <2>1, SameArgs DEF Fork
<1>5. CASE ForkFails
  <2>1. wpc' \in [WorkerIds -> {"unforked", "nofork", "forked", "running", "written", "dead"}]
    BY <1>5 DEF ForkFails
  <2>2. Plus(total, OneFailure) \in [Counters -> Nat]
    BY PlusType, ResultTypes
  <2>3. QED
    BY <1>5, <1>F, <2>1, <2>2, SameArgs DEF ForkFails
<1>6. CASE Collect
  <2>1. pw \in WorkerIds
    BY <1>6, <1>0, ParallelAssumption DEF Collect, Collecting, WorkerIds
  <2>2. StatsRead(pw) \in [Counters -> Nat]
    BY <2>1, ResultTypes DEF StatsRead
  <2>3. total' \in [Counters -> Nat]
    <3>1. Plus(StatsRead(pw), OneFailure) \in [Counters -> Nat]
      BY <2>2, PlusType, ResultTypes
    <3>2. /\ Plus(total, StatsRead(pw)) \in [Counters -> Nat]
          /\ Plus(total, Plus(StatsRead(pw), OneFailure)) \in [Counters -> Nat]
      BY <2>2, <3>1, PlusType
    <3>3. \/ total' = Plus(total, StatsRead(pw))
          \/ total' = Plus(total, Plus(StatsRead(pw), OneFailure))
      BY <1>6 DEF Collect, CollectWorker
    <3>4. QED
      BY <3>2, <3>3
  <2>4. stdout' \in Seq(Line)
    <3>1. <<<<pw, NIL>>>> \in Seq(Line) /\ <<>> \in Seq(Line)
      BY <2>1 DEF Line
    <3>2. stdout \o log[pw] \in Seq(Line)
      BY <2>1, ConcatProperties
    <3>3. QED
      BY <1>6, <3>1, <3>2, ConcatProperties DEF Collect, CollectWorker
  <2>5. UNCHANGED <<args, outcome, wpc, cur, res, log, status, seen>>
    BY <1>6 DEF Collect, CollectWorker
  <2>6. ppc' = ppc /\ pw' \in 0 .. NWorkers /\ ppc = "collect"
    BY <1>6, <1>0 DEF Collect, Collecting, CollectWorker, NextCollect
  <2>7. /\ taken' \in SUBSET WorkerIds
        /\ outFile' \in [WorkerIds -> BOOLEAN]
        /\ stats' \in [WorkerIds -> {"absent", "short", "full"}]
    BY <1>6, <2>1 DEF Collect, CollectWorker
  <2>8. QED
    BY <2>3, <2>4, <2>5, <2>6, <2>7, SameArgs
<1>7. CASE SkipUnforked
  BY <1>7, <1>0, SameArgs DEF SkipUnforked, Collecting, NextCollect, workerVars
<1>8. CASE Summarise
  BY <1>8, <1>0, SameArgs DEF Summarise, workerVars
<1>9. ASSUME NEW w \in WorkerIds, Relink(w)
      PROVE  TypeOK'
  <2>1. NextIn(w, NIL) \in Tests \cup {NIL}
    BY NextInList DEF Mine
  <2>2. QED
    BY <1>9, <2>1, SameArgs DEF Relink, parentVars
<1>10. ASSUME NEW w \in WorkerIds, FreopenFails(w)
       PROVE  TypeOK'
  BY <1>10, SameArgs DEF FreopenFails, parentVars
<1>11. ASSUME NEW w \in WorkerIds, NEW o \in Outcomes, RunTest(w, o)
       PROVE  TypeOK'
  <2>1. cur[w] \in Tests /\ NextIn(w, cur[w]) \in Tests \cup {NIL}
    BY <1>11, NextInList DEF RunTest, Mine
  <2>2. res' \in [WorkerIds -> [Counters -> Nat]]
    <3>1. Plus(res[w], Tally(o)) \in [Counters -> Nat]
      BY TallyType, PlusType
    <3>2. QED
      BY <1>11, <3>1 DEF RunTest
  <2>3. log' \in [WorkerIds -> Seq(Line)]
    <3>1. Append(log[w], <<w, cur[w]>>) \in Seq(Line)
      BY <2>1 DEF Line
    <3>2. log' \in {log, [log EXCEPT ![w] = log[w]],
                   [log EXCEPT ![w] = Append(log[w], <<w, cur[w]>>)]}
      BY <1>11 DEF RunTest
    <3>3. QED
      BY <3>1, <3>2
  <2>4. /\ outcome' \in [Tests -> Outcomes \cup {"none"}]
        /\ seen' \in [WorkerIds -> SUBSET Tests]
    <3>1. seen[w] \cup {cur[w]} \in SUBSET Tests
      BY <2>1
    <3> QED
      BY <1>11, <2>1, <3>1 DEF RunTest
  <2>5. /\ wpc' \in [WorkerIds -> {"unforked", "nofork", "forked", "running", "written", "dead"}]
        /\ status' \in [WorkerIds -> {"none", "0", "98", "99", "signal"}]
        /\ cur' \in [WorkerIds -> Tests \cup {NIL}]
    BY <1>11, <2>1 DEF RunTest
  <2>6. QED
    BY <1>11, <2>2, <2>3, <2>4, <2>5, SameArgs DEF RunTest, parentVars
<1>12. ASSUME NEW w \in WorkerIds, WriteStats(w)
       PROVE  TypeOK'
  BY <1>12, SameArgs DEF WriteStats, parentVars
<1>13. ASSUME NEW w \in WorkerIds, WriteStatsFails(w)
       PROVE  TypeOK'
  BY <1>13, SameArgs DEF WriteStatsFails, parentVars
<1>14. ASSUME NEW w \in WorkerIds, Exit(w)
       PROVE  TypeOK'
  BY <1>14, SameArgs DEF Exit, parentVars
<1>15. ASSUME NEW w \in WorkerIds, Kill(w)
       PROVE  TypeOK'
  BY <1>15, SameArgs DEF Kill, parentVars
<1>16. CASE UNCHANGED vars
  BY <1>16, SameArgs DEF vars, parentVars, workerVars
<1>17. QED
  BY <1>1, <1>2, <1>3, <1>4, <1>5, <1>6, <1>7, <1>8, <1>9, <1>10, <1>11, <1>12,
     <1>13, <1>14, <1>15, <1>16
  DEF Next, Parent, Worker, Terminated

(* Every variable keeps its type: in particular the parent's worker index  *)
(* stays within the workers of the run, and counters stay counters.        *)
THEOREM TypeCorrect == Spec => []TypeOK
  BY TypeInit, TypeStep, PTL DEF Spec
-------------------------------------------------------------------------------
(* A worker's end tells the parent whether its counters were left: no test *)
(* ends the worker with status 0, and waitpid reports what it waited for.  *)
Visible ==
  /\ "reap" \notin Faults
  /\ "exit0" \notin Outcomes \/ FALSE \notin Separate

(* The workers are forked in order, and only those of the run.             *)
ForkOrder ==
  /\ separate \in Separate
  /\ ppc = "done" => \/ pw = NWorkers
                     \/ \A w \in WorkerIds : wpc[w] = "unforked"
  /\ ppc = "done" => Heads = {} \/ pw = NWorkers \/ total.failures # 0
  /\ \A w \in WorkerIds :
       /\ ppc = "collect" /\ w < NWorkers => wpc[w] # "unforked"
       /\ ppc = "fork" /\ w < pw => wpc[w] # "unforked"
       /\ ppc = "start" => wpc[w] = "unforked"
       /\ ppc = "fork" /\ w >= pw => wpc[w] = "unforked"
       /\ w >= NWorkers => wpc[w] = "unforked"

(* What a worker has been through, and what its counters say of it.        *)
WorkerInv(w) ==
  /\ seen[w] \subseteq Mine(w)
  /\ wpc[w] \in {"unforked", "nofork", "forked"} =>
       seen[w] = {} /\ stats[w] = "absent" /\ ~ outFile[w]
  /\ wpc[w] = "running" =>
       /\ stats[w] = "absent"
       /\ cur[w] \in Mine(w) \cup {NIL}
       /\ \A t \in Mine(w) : cur[w] = NIL \/ t < cur[w] => t \in seen[w]
  /\ wpc[w] = "written" => stats[w] = "full"
  /\ stats[w] = "full" => wpc[w] \in {"written", "dead"} /\ Mine(w) \subseteq seen[w]
  /\ (wpc[w] \in {"running", "written"} \/ stats[w] = "full") /\ res[w].failures = 0 =>
       \A t \in seen[w] : outcome[t] \notin Bad
  /\ wpc[w] = "dead" => /\ status[w] # "none"
                        /\ Visible /\ status[w] = "0" => stats[w] = "full" \/ w \in Collected

(* What the parent knows of the workers it has collected.                  *)
CollectInv(w) ==
  /\ w \in Collected => /\ wpc[w] \in {"dead", "nofork"}
                        /\ ~ outFile[w]
                        /\ stats[w] = "absent"
                        /\ Visible /\ total.failures = 0 => w \in taken
  /\ w \in taken => /\ wpc[w] = "dead"
                    /\ w \in Collected
                    /\ Mine(w) \subseteq seen[w]
                    /\ total.failures = 0 => \A t \in seen[w] : outcome[t] \notin Bad
  /\ total.failures = 0 => wpc[w] # "nofork"

RunInv ==
  /\ TypeOK
  /\ ForkOrder
  /\ \A w \in WorkerIds : WorkerInv(w) /\ CollectInv(w)
LEMMA RunInit == Init => RunInv
<1> SUFFICES ASSUME Init PROVE RunInv
  OBVIOUS
<1>1. TypeOK
  BY TypeInit
<1>2. ForkOrder
  BY <1>1 DEF Init, ForkOrder
<1>3. ASSUME NEW w \in WorkerIds
      PROVE  WorkerInv(w) /\ CollectInv(w)
  BY <1>3 DEF Init, WorkerInv, CollectInv, Collected, NIL
<1>4. QED
  BY <1>1, <1>2, <1>3 DEF RunInv

LEMMA ForkOrderStep == RunInv /\ [Next]_vars => ForkOrder'
<1> SUFFICES ASSUME RunInv, [Next]_vars PROVE ForkOrder'
  OBVIOUS
<1> USE DEF ForkOrder
<1>0. /\ TypeOK /\ ForkOrder
      /\ NWorkers \in Nat /\ NWorkers <= Workers
      /\ Heads # {} => NWorkers > 0
  BY WorkersOfRun DEF RunInv, TypeOK
<1>1. CASE StartEmpty
  BY <1>1, <1>0, SameArgs DEF StartEmpty, workerVars, TypeOK
<1>2. CASE StartNoDir
  <2>1. total.failures \in Nat /\ total'.failures = total.failures + 1
    <3>1. total \in [Counters -> Nat] /\ total' = Plus(total, OneFailure)
      BY <1>0, <1>2 DEF StartNoDir, TypeOK
    <3>2. total'.failures = total.failures + 1
      BY <3>1, PlusType, ResultTypes
    <3>3. QED
      BY <3>1, <3>2 DEF Counters
  <2>2. QED
    BY <1>2, <1>0, <2>1, SameArgs DEF StartNoDir, workerVars, TypeOK
<1>3. CASE Start
  BY <1>3, <1>0, SameArgs DEF Start, workerVars, TypeOK, WorkerIds
<1>4. CASE Fork
  BY <1>4, <1>0, SameArgs DEF Fork, NextFork, TypeOK, WorkerIds
<1>5. CASE ForkFails
  BY <1>5, <1>0, SameArgs DEF ForkFails, NextFork, TypeOK, WorkerIds
<1>6. CASE Collect
  BY <1>6, <1>0, SameArgs DEF Collect, Collecting, CollectWorker, NextCollect
<1>7. CASE SkipUnforked
  BY <1>7, <1>0, SameArgs DEF SkipUnforked, Collecting, NextCollect, workerVars
<1>8. CASE Summarise
  BY <1>8, <1>0, SameArgs DEF Summarise, workerVars
<1>9. CASE \E w \in WorkerIds : Worker(w) \/ Kill(w)
  <2>1. UNCHANGED <<args, ppc, pw, total>>
    BY <1>9 DEF Worker, Relink, FreopenFails, RunTest, WriteStats, WriteStatsFails,
                Exit, Kill, parentVars
  <2>2. \A v \in WorkerIds : wpc'[v] = "unforked" <=> wpc[v] = "unforked"
    BY <1>9, <1>0 DEF Worker, Relink, FreopenFails, RunTest, WriteStats,
                      WriteStatsFails, Exit, Kill, TypeOK
  <2>3. QED
    BY <1>0, <2>1, <2>2, SameArgs
<1>10. CASE UNCHANGED vars
  BY <1>10, <1>0, SameArgs DEF vars, parentVars, workerVars
<1>11. QED
  BY <1>1, <1>2, <1>3, <1>4, <1>5, <1>6, <1>7, <1>8, <1>9, <1>10
  DEF Next, Parent, Terminated
(* A test of one worker is not a test of another.                          *)
LEMMA MineDisjoint ==
  ASSUME NEW v \in WorkerIds, NEW w \in WorkerIds, v # w
  PROVE  Mine(v) \cap Mine(w) = {}
  BY DEF Mine

(* A worker keeps its invariant as long as nobody touches its variables,   *)
(* the outcomes of its own tests, or the list of collected workers.        *)
LEMMA WorkerFrame ==
  ASSUME NEW v \in WorkerIds, WorkerInv(v), UNCHANGED args,
         wpc'[v] = wpc[v], cur'[v] = cur[v], res'[v] = res[v],
         outFile'[v] = outFile[v], stats'[v] = stats[v],
         status'[v] = status[v], seen'[v] = seen[v],
         \A t \in Mine(v) : outcome'[t] = outcome[t],
         v \in Collected => v \in Collected'
  PROVE  WorkerInv(v)'
<1>1. Mine(v)' = Mine(v)
  BY SameArgs
<1>2. \A t \in seen[v] : outcome'[t] = outcome[t]
  BY DEF WorkerInv
<1>3. QED
  BY <1>1, <1>2 DEF WorkerInv, Visible

LEMMA WorkerStep ==
  ASSUME RunInv, [Next]_vars, NEW v \in WorkerIds
  PROVE  WorkerInv(v)'
<1>0. /\ TypeOK /\ ForkOrder /\ WorkerInv(v)
      /\ NWorkers \in Nat /\ NWorkers <= Workers
  BY WorkersOfRun DEF RunInv, TypeOK
<1>1. CASE StartEmpty \/ StartNoDir \/ Start \/ Summarise \/ UNCHANGED vars
  BY <1>1, <1>0, WorkerFrame
  DEF StartEmpty, StartNoDir, Start, Summarise, vars, parentVars, workerVars,
      Collected, TypeOK
<1>2. CASE Fork \/ ForkFails
  <2>1. ppc = "fork" /\ pw \in WorkerIds /\ wpc[pw] = "unforked"
    <3>1. ppc = "fork" /\ pw \in WorkerIds
      BY <1>2, <1>0, ParallelAssumption DEF Fork, ForkFails, TypeOK, WorkerIds
    <3>2. QED
      BY <3>1, <1>0 DEF ForkOrder, WorkerIds
  <2>2. CASE v = pw
    <3>1. wpc'[v] \in {"forked", "nofork"}
      BY <1>2, <2>1, <2>2, <1>0 DEF Fork, ForkFails, TypeOK
    <3>2. UNCHANGED <<args, stats, outFile, seen>>
      BY <1>2 DEF Fork, ForkFails
    <3>3. QED
      BY <2>1, <2>2, <3>1, <3>2, <1>0, SameArgs DEF WorkerInv
  <2>3. CASE v # pw
    <3>1. wpc'[v] = wpc[v]
      BY <1>2, <2>3, <1>0 DEF Fork, ForkFails, TypeOK
    <3>2. v \notin Collected
      BY <2>1 DEF Collected
    <3>3. UNCHANGED <<args, outcome, cur, res, outFile, stats, status, seen>>
      BY <1>2 DEF Fork, ForkFails
    <3>4. QED
      BY <1>0, <3>1, <3>2, <3>3, WorkerFrame
  <2>4. QED
    BY <2>2, <2>3
<1>3. CASE Collect
  <2>1. /\ ppc = "collect" /\ ppc' = ppc /\ pw' = pw + 1 /\ pw \in WorkerIds
        /\ wpc[pw] = "dead"
        /\ UNCHANGED <<args, outcome, wpc, cur, res, log, status, seen>>
    BY <1>3, <1>0, ParallelAssumption
    DEF Collect, Collecting, CollectWorker, NextCollect, TypeOK, WorkerIds
  <2>2. /\ outFile' = [outFile EXCEPT ![pw] = FALSE]
        /\ stats' = [stats EXCEPT ![pw] = "absent"]
    BY <1>3 DEF Collect, CollectWorker
  <2>3. v \in Collected => v \in Collected'
    BY <2>1 DEF Collected, WorkerIds
  <2>4. CASE v = pw
    <3>1. v \in Collected'
      BY <2>1, <2>4 DEF Collected, WorkerIds
    <3>2. stats'[v] = "absent" /\ wpc'[v] = "dead" /\ status'[v] = status[v]
      BY <2>1, <2>2, <2>4, <1>0 DEF TypeOK
    <3>3. QED
      BY <1>0, <2>1, <3>1, <3>2, SameArgs DEF WorkerInv
  <2>5. CASE v # pw
    BY <1>0, <2>1, <2>2, <2>3, <2>5, WorkerFrame DEF TypeOK
  <2>6. QED
    BY <2>4, <2>5
<1>4. CASE SkipUnforked
  <2>1. v \in Collected => v \in Collected'
    BY <1>4, <1>0 DEF SkipUnforked, Collecting, NextCollect, Collected, WorkerIds, TypeOK
  <2>2. QED
    BY <1>4, <1>0, <2>1, WorkerFrame DEF SkipUnforked, workerVars
<1>5. ASSUME NEW w \in WorkerIds, Worker(w) \/ Kill(w)
      PROVE  WorkerInv(v)'
  <2>0. /\ UNCHANGED <<args, ppc, pw>>
        /\ Collected' = Collected
    BY <1>5 DEF Worker, Relink, FreopenFails, RunTest, WriteStats, WriteStatsFails,
                Exit, Kill, parentVars, Collected
  <2>1. CASE v # w
    <3>1. \A t \in Mine(v) : outcome'[t] = outcome[t]
      <4>1. CASE \E o \in Outcomes : RunTest(w, o)
        <5>1. cur[w] \in Mine(w)
          BY <4>1 DEF RunTest, RunInv, WorkerInv
        <5>2. \A t \in Mine(v) : t # cur[w]
          BY <5>1, <2>1, MineDisjoint
        <5>3. QED
          BY <4>1, <5>2, <1>0 DEF RunTest, TypeOK, Mine
      <4>2. CASE ~ \E o \in Outcomes : RunTest(w, o)
        BY <1>5, <4>2 DEF Worker, Relink, FreopenFails, WriteStats, WriteStatsFails,
                          Exit, Kill
      <4>3. QED
        BY <4>1, <4>2
    <3>2. /\ wpc'[v] = wpc[v] /\ cur'[v] = cur[v] /\ res'[v] = res[v]
          /\ outFile'[v] = outFile[v] /\ stats'[v] = stats[v]
          /\ status'[v] = status[v] /\ seen'[v] = seen[v]
      BY <1>5, <2>1, <1>0 DEF Worker, Relink, FreopenFails, RunTest, WriteStats,
                              WriteStatsFails, Exit, Kill, TypeOK
    <3>3. QED
      BY <1>0, <2>0, <3>1, <3>2, WorkerFrame
  <2>2. CASE v = w
    <3>1. CASE Relink(v)
      <4>1. NextIn(v, NIL) \in Mine(v) \cup {NIL}
            /\ \A t \in Mine(v) : NextIn(v, NIL) # NIL /\ NextIn(v, NIL) <= t
        <5>1. \A t \in Mine(v) : t > NIL
          BY <1>0 DEF Mine, Tests, TypeOK, NIL
        <5>2. QED
          BY <5>1, <1>0, NextInList DEF TypeOK
      <4>2. /\ wpc'[v] = "running" /\ cur'[v] = NextIn(v, NIL)
            /\ UNCHANGED <<outcome, res, stats, status, seen>>
        BY <3>1, <1>0 DEF Relink, TypeOK
      <4>3. wpc[v] = "forked" /\ seen[v] = {} /\ stats[v] = "absent"
        BY <3>1, <1>0 DEF Relink, WorkerInv
      <4>4. \A t \in Mine(v) : ~ (cur'[v] = NIL \/ t < cur'[v])
        BY <4>1, <4>2, <1>0 DEF Mine, Tests, TypeOK, NIL
      <4>5. QED
        BY <1>0, <2>0, <4>1, <4>2, <4>3, <4>4, SameArgs DEF WorkerInv
    <3>2. CASE FreopenFails(v)
      BY <3>2, <1>0, <2>0, SameArgs DEF FreopenFails, WorkerInv, TypeOK, Visible
    <3>3. ASSUME NEW o \in Outcomes, RunTest(v, o)
          PROVE  WorkerInv(v)'
      <4> DEFINE c == cur[v]
      <4>1. /\ wpc[v] = "running" /\ c # NIL /\ c \in Mine(v) /\ c \in Tests
            /\ stats[v] = "absent" /\ stats' = stats /\ seen[v] \subseteq Mine(v)
            /\ outFile' = outFile
        BY <3>3, <1>0 DEF RunTest, WorkerInv, Mine
      <4>2. seen'[v] = seen[v] \cup {c} /\ outcome' = [outcome EXCEPT ![c] = o]
        BY <3>3, <1>0 DEF RunTest, TypeOK
      <4>3. CASE EndsWorker(o)
        <5>1. /\ wpc'[v] = "dead" /\ status'[v] \in {"signal", "0"}
              /\ status'[v] = "0" => o = "exit0" /\ ~ separate
          BY <3>3, <4>3, <1>0 DEF RunTest, TypeOK, EndsWorker
        <5>2. status'[v] = "0" => ~ Visible
          BY <5>1, <1>0 DEF Visible, ForkOrder, TypeOK
        <5>3. QED
          BY <1>0, <2>0, <4>1, <4>2, <5>1, <5>2, SameArgs DEF WorkerInv, Visible
      <4>4. CASE ~ EndsWorker(o)
        <5>1. /\ wpc'[v] = "running" /\ cur'[v] = NextIn(v, c)
              /\ res'[v] = Plus(res[v], Tally(o))
          BY <3>3, <4>4, <4>1, <1>0 DEF RunTest, TypeOK
        <5>2. /\ NextIn(v, c) \in Mine(v) \cup {NIL}
              /\ \A t \in Mine(v) : t > c => NextIn(v, c) # NIL /\ NextIn(v, c) <= t
          BY <4>1, <1>0, NextInList DEF TypeOK
        <5>3. \A t \in Mine(v) : cur'[v] = NIL \/ t < cur'[v] => t \in seen'[v]
          <6>1. SUFFICES ASSUME NEW t \in Mine(v), cur'[v] = NIL \/ t < cur'[v]
                         PROVE  t \in seen'[v]
            OBVIOUS
          <6>2. t \in Nat /\ c \in Nat
            BY <4>1, <1>0 DEF Mine, Tests, TypeOK
          <6>3. NextIn(v, c) \in Nat
            BY <5>2, <1>0 DEF Mine, Tests, TypeOK, NIL
          <6>4. t <= c
            BY <6>1, <6>2, <6>3, <5>1, <5>2
          <6>5. t = c \/ t < c
            BY <6>2, <6>4
          <6>6. QED
            BY <6>5, <4>1, <4>2, <1>0 DEF WorkerInv
        <5>4. ASSUME res'[v].failures = 0, NEW t \in seen'[v]
              PROVE  outcome'[t] \notin Bad
          <6>1. res[v] \in [Counters -> Nat]
            BY <1>0 DEF TypeOK
          <6>2. res'[v].failures = res[v].failures + Tally(o).failures
            BY <5>1, <6>1, TallyType, PlusType
          <6>3. res[v].failures \in Nat /\ Tally(o).failures \in Nat
            BY <6>1, TallyType DEF Counters
          <6>4. res[v].failures = 0 /\ Tally(o).failures = 0
            BY <5>4, <6>2, <6>3
          <6>5. o \notin Bad
            BY <6>4, TallyType
          <6>6. \A s \in seen[v] : outcome[s] \notin Bad
            BY <6>4, <4>1, <1>0 DEF WorkerInv
          <6>7. QED
            BY <6>5, <6>6, <4>1, <4>2, <1>0 DEF TypeOK, Mine
        <5>5. QED
          BY <1>0, <2>0, <4>1, <4>2, <5>1, <5>2, <5>3, <5>4, SameArgs
          DEF WorkerInv
      <4>5. QED
        BY <4>3, <4>4
    <3>4. CASE WriteStats(v)
      BY <3>4, <1>0, <2>0, SameArgs DEF WriteStats, WorkerInv, TypeOK, Visible
    <3>5. CASE WriteStatsFails(v)
      BY <3>5, <1>0, <2>0, SameArgs DEF WriteStatsFails, WorkerInv, TypeOK, Visible
    <3>6. CASE Exit(v)
      BY <3>6, <1>0, <2>0, SameArgs DEF Exit, WorkerInv, TypeOK, Visible
    <3>7. CASE Kill(v)
      BY <3>7, <1>0, <2>0, SameArgs DEF Kill, WorkerInv, TypeOK, Visible
    <3>8. QED
      BY <1>5, <2>2, <3>1, <3>2, <3>3, <3>4, <3>5, <3>6, <3>7 DEF Worker
  <2>3. QED
    BY <2>1, <2>2
<1>6. QED
  BY <1>1, <1>2, <1>3, <1>4, <1>5 DEF Next, Parent, Terminated
(* A step that collects nobody keeps what the parent knows, if it loses no *)
(* failure and leaves the collected workers alone.                         *)
LEMMA CollectFrame ==
  ASSUME NEW v \in WorkerIds, CollectInv(v), UNCHANGED <<args, taken>>,
         v \in Collected' => v \in Collected,
         v \in Collected => v \in Collected',
         total'.failures = 0 => total.failures = 0,
         v \in Collected =>
           /\ wpc'[v] = wpc[v] /\ outFile'[v] = outFile[v]
           /\ stats'[v] = stats[v] /\ seen'[v] = seen[v],
         v \in taken => \A t \in seen[v] : outcome'[t] = outcome[t],
         total'.failures = 0 => wpc'[v] # "nofork"
  PROVE  CollectInv(v)'
<1>1. Mine(v)' = Mine(v)
  BY SameArgs
<1>2. QED
  BY <1>1 DEF CollectInv, Visible

LEMMA CollectStep ==
  ASSUME RunInv, [Next]_vars, NEW v \in WorkerIds
  PROVE  CollectInv(v)'
<1>0. /\ TypeOK /\ ForkOrder /\ WorkerInv(v) /\ CollectInv(v)
      /\ NWorkers \in Nat /\ NWorkers <= Workers
      /\ total \in [Counters -> Nat] /\ total.failures \in Nat
  BY WorkersOfRun DEF RunInv, TypeOK, Counters
<1>1. CASE StartEmpty \/ Start \/ Summarise \/ UNCHANGED vars
  <2>1. Collected' = Collected
    <3>1. CASE StartEmpty \/ Start
      <4>1. pw' = 0 /\ ppc = "start"
        BY <1>0, <3>1 DEF StartEmpty, Start, TypeOK
      <4>2. \A w \in WorkerIds : ~ w < 0
        BY DEF WorkerIds
      <4>3. QED
        BY <4>1, <4>2 DEF Collected
    <3>2. CASE Summarise \/ UNCHANGED vars
      BY <3>2 DEF Summarise, vars, parentVars, Collected
    <3>3. QED
      BY <1>1, <3>1, <3>2
  <2>2. UNCHANGED <<args, outcome, total, taken, wpc, outFile, stats, seen>>
    BY <1>1 DEF StartEmpty, Start, Summarise, vars, parentVars, workerVars
  <2>3. QED
    BY <1>0, <2>1, <2>2, CollectFrame DEF CollectInv
<1>2. CASE StartNoDir
  <2>1. total'.failures = total.failures + 1
    BY <1>2, <1>0, PlusType, ResultTypes DEF StartNoDir
  <2>2. Collected' = Collected
    BY <1>2, <1>0 DEF StartNoDir, Collected, TypeOK, WorkerIds
  <2>3. QED
    BY <1>2, <1>0, <2>1, <2>2, CollectFrame DEF StartNoDir, workerVars
<1>3. CASE Fork \/ ForkFails
  <2>1. ppc = "fork" /\ pw' \in {0, pw + 1} /\ (ppc' = "collect" => pw' = 0)
        /\ ppc' \in {"fork", "collect"}
    BY <1>3, <1>0 DEF Fork, ForkFails, NextFork, TypeOK
  <2>2. Collected = {} /\ Collected' = {}
    BY <2>1 DEF Collected, WorkerIds
  <2>3. v \notin taken /\ taken' = taken
    BY <1>3, <2>2, <1>0 DEF CollectInv, Fork, ForkFails
  <2>4. total'.failures = 0 => total.failures = 0 /\ wpc'[v] # "nofork"
    <3>1. CASE Fork
      BY <3>1, <1>0 DEF Fork, TypeOK, CollectInv
    <3>2. CASE ForkFails
      BY <3>2, <1>0, PlusType, ResultTypes DEF ForkFails
    <3>3. QED
      BY <1>3, <3>1, <3>2
  <2>5. QED
    BY <1>3, <1>0, <2>2, <2>3, <2>4, CollectFrame DEF Fork, ForkFails
<1>4. CASE SkipUnforked
  <2>1. pw \in WorkerIds /\ wpc[pw] = "nofork" /\ ppc = "collect" /\ ppc' = ppc
        /\ pw' = pw + 1 /\ UNCHANGED <<args, outcome, total, taken, workerVars>>
    BY <1>4, <1>0, ParallelAssumption
    DEF SkipUnforked, Collecting, NextCollect, TypeOK, WorkerIds
  <2>2. CASE v = pw
    <3>1. total.failures # 0
      BY <2>1, <2>2, <1>0 DEF CollectInv
    <3>2. v \notin taken
      BY <2>1, <2>2, <1>0 DEF CollectInv
    <3>3. ~ outFile[v] /\ stats[v] = "absent"
      BY <2>1, <2>2, <1>0 DEF WorkerInv
    <3>4. QED
      BY <2>1, <2>2, <3>1, <3>2, <3>3 DEF CollectInv, workerVars
  <2>3. CASE v # pw
    <3>1. v \in Collected <=> v \in Collected'
      BY <2>1, <2>3, <1>0 DEF Collected, WorkerIds, TypeOK
    <3>2. QED
      BY <1>0, <2>1, <3>1, CollectFrame DEF workerVars, CollectInv
  <2>4. QED
    BY <2>2, <2>3
<1>5. CASE Collect
  <2>1. /\ pw \in WorkerIds /\ wpc[pw] = "dead" /\ ppc = "collect" /\ ppc' = ppc
        /\ pw' = pw + 1
        /\ UNCHANGED <<args, outcome, wpc, cur, res, log, status, seen>>
    BY <1>5, <1>0, ParallelAssumption
    DEF Collect, Collecting, CollectWorker, NextCollect, TypeOK, WorkerIds
  <2>2. /\ outFile' = [outFile EXCEPT ![pw] = FALSE]
        /\ stats' = [stats EXCEPT ![pw] = "absent"]
        /\ taken' = IF stats[pw] = "full" THEN taken \cup {pw} ELSE taken
    BY <1>5 DEF Collect, CollectWorker
  <2>3. StatsRead(pw) \in [Counters -> Nat]
    BY <2>1, <1>0, ResultTypes DEF StatsRead, TypeOK
  <2>4. PICK s \in SeenStatuses(pw) :
          total' = Plus(total, IF Abnormal(s) THEN Plus(StatsRead(pw), OneFailure)
                                              ELSE StatsRead(pw))
    BY <1>5 DEF Collect, CollectWorker
  <2>5. /\ StatsRead(pw).failures \in Nat
        /\ total'.failures = total.failures + StatsRead(pw).failures
                              + (IF Abnormal(s) THEN 1 ELSE 0)
    <3>1. StatsRead(pw).failures \in Nat
      BY <2>3 DEF Counters
    <3>2. CASE Abnormal(s)
      <4>1. /\ Plus(StatsRead(pw), OneFailure) \in [Counters -> Nat]
            /\ Plus(StatsRead(pw), OneFailure).failures = StatsRead(pw).failures + 1
        BY <2>3, PlusType, ResultTypes
      <4>2. total'.failures = total.failures + Plus(StatsRead(pw), OneFailure).failures
        BY <2>4, <3>2, <4>1, <1>0, PlusType
      <4>3. QED
        BY <3>1, <3>2, <4>1, <4>2, <1>0
    <3>3. CASE ~ Abnormal(s)
      <4>1. total'.failures = total.failures + StatsRead(pw).failures
        BY <2>3, <2>4, <3>3, <1>0, PlusType
      <4>2. QED
        BY <3>1, <3>3, <4>1, <1>0
    <3>4. QED
      BY <3>2, <3>3
  <2>6. total'.failures = 0 =>
          total.failures = 0 /\ StatsRead(pw).failures = 0 /\ ~ Abnormal(s)
    BY <2>5, <1>0
  <2>7. CASE v = pw
    <3>1. /\ wpc'[v] = "dead" /\ ~ outFile'[v] /\ stats'[v] = "absent" /\ seen'[v] = seen[v]
          /\ v \in Collected' /\ v \notin Collected
      BY <2>1, <2>2, <2>7, <1>0 DEF TypeOK, Collected, WorkerIds
    <3>2. v \notin taken /\ (v \in taken' <=> stats[v] = "full")
      BY <2>2, <2>7, <3>1, <1>0 DEF CollectInv
    <3>3. Visible /\ total'.failures = 0 => stats[v] = "full"
      <4>1. SUFFICES ASSUME Visible, ~ Abnormal(s) PROVE stats[v] = "full"
        BY <2>6
      <4>2. s = status[v]
        BY <2>7, <4>1 DEF SeenStatuses, Visible
      <4>3. status[v] = "0"
        BY <2>1, <2>7, <4>1, <4>2, <1>0 DEF Abnormal, TypeOK, WorkerInv
      <4>4. QED
        BY <2>1, <2>7, <3>1, <4>1, <4>3, <1>0 DEF WorkerInv
    <3>4. stats[v] = "full" =>
            /\ Mine(v) \subseteq seen[v]
            /\ total'.failures = 0 => \A t \in seen[v] : outcome[t] \notin Bad
      BY <2>6, <2>7, <1>0 DEF WorkerInv, StatsRead
    <3>5. Visible' = Visible /\ Mine(v)' = Mine(v) /\ outcome' = outcome
      BY <2>1, SameArgs DEF Visible
    <3>6. QED
      BY <3>1, <3>2, <3>3, <3>4, <3>5 DEF CollectInv
  <2>8. CASE v # pw
    <3>1. v \in Collected' <=> v \in Collected
      BY <2>1, <2>8, <1>0 DEF Collected, WorkerIds, TypeOK
    <3>2. v \in taken' <=> v \in taken
      BY <2>2, <2>8
    <3>3. wpc'[v] = wpc[v] /\ outFile'[v] = outFile[v] /\ stats'[v] = stats[v]
          /\ seen'[v] = seen[v]
      BY <2>1, <2>2, <2>8, <1>0 DEF TypeOK
    <3>4. Visible' = Visible /\ Mine(v)' = Mine(v) /\ outcome' = outcome
      BY <2>1, SameArgs DEF Visible
    <3>5. QED
      BY <1>0, <2>6, <3>1, <3>2, <3>3, <3>4 DEF CollectInv
  <2>9. QED
    BY <2>7, <2>8
<1>6. ASSUME NEW w \in WorkerIds, Worker(w) \/ Kill(w)
      PROVE  CollectInv(v)'
  <2>1. UNCHANGED <<args, ppc, pw, total, taken>> /\ Collected' = Collected
        /\ wpc[w] \in {"forked", "running", "written"}
    BY <1>6 DEF Worker, Relink, FreopenFails, RunTest, WriteStats, WriteStatsFails,
                Exit, Kill, parentVars, Collected
  <2>2. w \notin Collected /\ w \notin taken
    BY <2>1 DEF RunInv, CollectInv
  <2>3. /\ v # w => /\ wpc'[v] = wpc[v] /\ outFile'[v] = outFile[v]
                    /\ stats'[v] = stats[v] /\ seen'[v] = seen[v]
        /\ wpc'[v] = "nofork" => wpc[v] = "nofork"
    BY <1>6, <1>0 DEF Worker, Relink, FreopenFails, RunTest, WriteStats,
                      WriteStatsFails, Exit, Kill, TypeOK
  <2>4. v # w => \A t \in seen[v] : outcome'[t] = outcome[t]
    <3>1. CASE \E o \in Outcomes : RunTest(w, o)
      <4>1. cur[w] \in Mine(w)
        BY <3>1 DEF RunTest, RunInv, WorkerInv
      <4>2. v # w => \A t \in seen[v] : t # cur[w] /\ t \in Tests
        BY <4>1, <1>0, MineDisjoint DEF WorkerInv, Mine
      <4>3. QED
        BY <3>1, <4>2, <1>0 DEF RunTest, TypeOK
    <3>2. CASE ~ \E o \in Outcomes : RunTest(w, o)
      BY <1>6, <3>2 DEF Worker, Relink, FreopenFails, WriteStats, WriteStatsFails,
                        Exit, Kill
    <3>3. QED
      BY <3>1, <3>2
  <2>5. QED
    BY <1>0, <2>1, <2>2, <2>3, <2>4, CollectFrame DEF CollectInv
<1>7. QED
  BY <1>1, <1>2, <1>3, <1>4, <1>5, <1>6 DEF Next, Parent, Terminated

(* RunInv ties what the parent has added up to what the workers it         *)
(* collected have been through.                                            *)
THEOREM RunCorrect == Spec => []RunInv
<1>1. RunInv /\ [Next]_vars => RunInv'
  BY TypeStep, ForkOrderStep, WorkerStep, CollectStep DEF RunInv, WorkerIds
<1>2. QED
  BY RunInit, <1>1, PTL DEF Spec
-------------------------------------------------------------------------------
LEMMA GreenFromInv ==
  ASSUME Visible, RunInv
  PROVE  GreenMeansAll
<1> SUFFICES ASSUME ppc = "done", ~ IsFailure(total)
             PROVE  Counted = Tests /\ \A t \in Tests : outcome[t] \notin Bad
  BY DEF GreenMeansAll
<1>0. TypeOK /\ ForkOrder /\ total.failures = 0
  BY DEF RunInv, IsFailure
<1>1. ASSUME NEW t \in Tests
      PROVE  \E w \in taken : t \in seen[w]
  <2>1. PICK w \in WorkerIds : w < NWorkers /\ t \in Mine(w)
    BY <1>0, EveryTestIsDealt DEF TypeOK
  <2>2. Heads # {} /\ pw = NWorkers
    BY <1>0, <1>1, WorkersOfRun DEF ForkOrder, TypeOK
  <2>3. w \in Collected
    BY <2>1, <2>2 DEF Collected
  <2>4. w \in taken /\ Mine(w) \subseteq seen[w]
    BY <1>0, <2>1, <2>3 DEF RunInv, CollectInv
  <2>5. QED
    BY <2>1, <2>4
<1>2. \A w \in taken : seen[w] \subseteq Tests /\ \A t \in seen[w] : outcome[t] \notin Bad
  BY <1>0 DEF RunInv, CollectInv, TypeOK
<1>3. Counted = Tests
  BY <1>1, <1>2 DEF Counted
<1>4. QED
  BY <1>1, <1>2, <1>3

(* If a worker's end tells the parent whether its counters were left, then *)
(* a run of any registry on any number of workers that looks green has     *)
(* counted every registered test, and no test of it failed or crashed      *)
(* (fork.c 162-165, 202-204, 239-244).                                     *)
THEOREM GreenIsComplete ==
  ASSUME Visible
  PROVE  Spec => []GreenMeansAll
<1>1. RunInv => GreenMeansAll
  BY GreenFromInv
<1>2. QED
  BY RunCorrect, <1>1, PTL

(* Whatever becomes of the workers, when the parent returns none of them   *)
(* is alive and the private directory is empty (fork.c 211-237, 257).      *)
THEOREM NothingOutlivesRun == Spec => []NothingLeftBehind
<1>1. RunInv => NothingLeftBehind
  <2> SUFFICES ASSUME RunInv, ppc = "done", NEW w \in WorkerIds
               PROVE  /\ wpc[w] \in {"unforked", "nofork", "dead"}
                      /\ ~ outFile[w]
                      /\ stats[w] = "absent"
    BY DEF NothingLeftBehind
  <2>1. TypeOK /\ ForkOrder /\ WorkerInv(w) /\ CollectInv(w)
    BY DEF RunInv
  <2>2. CASE wpc[w] = "unforked"
    BY <2>1, <2>2 DEF WorkerInv
  <2>3. CASE wpc[w] # "unforked"
    <3>1. pw = NWorkers /\ w < NWorkers
      BY <2>1, <2>3, WorkersOfRun DEF ForkOrder, TypeOK, WorkerIds
    <3>2. w \in Collected
      BY <3>1 DEF Collected
    <3>3. QED
      BY <2>1, <3>2 DEF CollectInv
  <2>4. QED
    BY <2>2, <2>3
<1>2. QED
  BY RunCorrect, <1>1, PTL

-------------------------------------------------------------------------------
(* Counting *)

(* The outcomes that each counter of a cu_result counts.                   *)
Outs == [tests |-> Outcomes, run |-> Executed, failures |-> Bad, ignored |-> {"ignored"},
         filtered |-> {"filtered"}]

CountIn(out, S, c) == Cardinality({t \in S : out[t] \in Outs[c]})

LEMMA CountDisjoint ==
  ASSUME NEW out, NEW S, NEW T, NEW c, IsFiniteSet(S), IsFiniteSet(T),
         \A t \in S : t \notin T
  PROVE  /\ CountIn(out, S \cup T, c) = CountIn(out, S, c) + CountIn(out, T, c)
         /\ CountIn(out, S, c) \in Nat /\ CountIn(out, T, c) \in Nat
<1> DEFINE A == {t \in S : out[t] \in Outs[c]}
           B == {t \in T : out[t] \in Outs[c]}
<1>1. IsFiniteSet(A) /\ IsFiniteSet(B)
  BY FS_Subset
<1>2. A \cap B = {} /\ {t \in S \cup T : out[t] \in Outs[c]} = A \cup B
  OBVIOUS
<1>3. Cardinality(A) \in Nat /\ Cardinality(B) \in Nat /\ Cardinality({}) = 0
  BY <1>1, FS_CardinalityType, FS_EmptySet
<1>4. Cardinality(A \cup B) = Cardinality(A) + Cardinality(B) - Cardinality(A \cap B)
  BY <1>1, FS_Union
<1>5. /\ CountIn(out, S, c) = Cardinality(A) /\ CountIn(out, T, c) = Cardinality(B)
      /\ CountIn(out, S \cup T, c) = Cardinality(A \cup B)
  BY <1>2 DEF CountIn
<1> HIDE DEF A, B
<1>6. Cardinality(A \cap B) = 0
  BY <1>2, <1>3
<1> QED
  BY <1>3, <1>4, <1>5, <1>6

LEMMA CountOne ==
  ASSUME NEW out, NEW t, NEW c
  PROVE  CountIn(out, {t}, c) = IF out[t] \in Outs[c] THEN 1 ELSE 0
<1>1. CASE out[t] \in Outs[c]
  <2>1. {s \in {t} : out[s] \in Outs[c]} = {t}
    BY <1>1
  <2> QED
    BY <1>1, <2>1, FS_Singleton DEF CountIn
<1>2. CASE out[t] \notin Outs[c]
  <2>1. {s \in {t} : out[s] \in Outs[c]} = {}
    BY <1>2
  <2> QED
    BY <1>2, <2>1, FS_EmptySet DEF CountIn
<1> QED
  BY <1>1, <1>2

LEMMA CountSame ==
  ASSUME NEW out, NEW out2, NEW S, NEW c, \A t \in S : out2[t] = out[t]
  PROVE  CountIn(out2, S, c) = CountIn(out, S, c)
<1>1. {t \in S : out2[t] \in Outs[c]} = {t \in S : out[t] \in Outs[c]}
  OBVIOUS
<1> QED
  BY <1>1 DEF CountIn

LEMMA CountNone ==
  ASSUME NEW out, NEW c
  PROVE  CountIn(out, {}, c) = 0
<1>1. {t \in {} : out[t] \in Outs[c]} = {}
  OBVIOUS
<1> QED
  BY <1>1, FS_EmptySet DEF CountIn

LEMMA TallyIn ==
  ASSUME NEW o \in Outcomes, NEW c \in Counters
  PROVE  Tally(o)[c] = IF o \in Outs[c] THEN 1 ELSE 0
BY ParallelAssumption DEF Tally, Counters, Outs

LEMMA PlusIs ==
  ASSUME NEW a \in [Counters -> Nat], NEW b \in [Counters -> Nat], NEW c \in Counters
  PROVE  Plus(a, b)[c] = a[c] + b[c] /\ a[c] \in Nat /\ b[c] \in Nat
BY DEF Plus

LEMMA ZeroIs ==
  ASSUME NEW c \in Counters
  PROVE  ZeroResult[c] = 0 /\ OneFailure[c] = IF c = "failures" THEN 1 ELSE 0
BY DEF ZeroResult, OneFailure, Counters

LEMMA FiniteTests ==
  ASSUME TypeOK
  PROVE  /\ IsFiniteSet(Tests) /\ Tests \subseteq Nat \ {NIL}
         /\ \A w \in WorkerIds : IsFiniteSet(seen[w]) /\ seen[w] \subseteq Tests
         /\ IsFiniteSet(WorkerIds)
<1>1. Tests = 1 .. Len(group) /\ Len(group) \in Nat
  BY DEF Tests, TypeOK
<1>2. IsFiniteSet(Tests)
  BY <1>1, FS_Interval
<1>3. Workers - 1 \in Int /\ 0 \in Int
  BY ParallelAssumption
<1>4. IsFiniteSet(WorkerIds)
  BY <1>3, FS_Interval DEF WorkerIds
<1>5. \A w \in WorkerIds : seen[w] \subseteq Tests
  BY DEF TypeOK
<1> QED
  BY <1>1, <1>2, <1>4, <1>5, FS_Subset DEF NIL

-------------------------------------------------------------------------------
(* The counters of the workers *)

(* A worker's counters count the tests it has been through, unless one of  *)
(* them took it along.                                                     *)
CountersInv(w) ==
  /\ \A t \in seen[w] : outcome[t] \in Outcomes
  /\ \A t \in Mine(w) \ seen[w] : outcome[t] = "none"
  /\ wpc[w] \in {"unforked", "nofork", "forked"} => status[w] = "none"
  /\ wpc[w] = "running" /\ cur[w] # NIL => \A t \in seen[w] : t < cur[w]
  /\ wpc[w] # "dead" \/ stats[w] = "full" =>
       \A c \in Counters : res[w][c] = CountIn(outcome, seen[w], c)

(* What a step may do to the state of worker v.                            *)
Untouched(v) ==
  /\ wpc'[v] = wpc[v] /\ stats'[v] \in {stats[v], "absent"}
  /\ cur'[v] = cur[v] /\ res'[v] = res[v] /\ log'[v] = log[v]
  /\ status'[v] = status[v] /\ seen'[v] = seen[v]
  /\ \A t \in Mine(v) : outcome'[t] = outcome[t]

Forked(v) ==
  /\ wpc[v] = "unforked" /\ wpc'[v] \in {"forked", "nofork"}
  /\ UNCHANGED <<outcome, cur, res, log, stats, status, seen>>

LEMMA StepsOfWorker ==
  ASSUME RunInv, [Next]_vars, NEW v \in WorkerIds
  PROVE  /\ UNCHANGED args
         /\ Untouched(v) \/ Forked(v) \/ Worker(v) \/ Kill(v)
<1>0. /\ TypeOK /\ ForkOrder /\ NWorkers \in Nat /\ NWorkers <= Workers
      /\ stats \in [WorkerIds -> {"absent", "short", "full"}]
      /\ wpc \in [WorkerIds -> {"unforked", "nofork", "forked", "running", "written", "dead"}]
  BY WorkersOfRun DEF RunInv, TypeOK
<1>1. CASE StartEmpty \/ StartNoDir \/ Start \/ SkipUnforked \/ Summarise \/ UNCHANGED vars
  BY <1>1 DEF StartEmpty, StartNoDir, Start, SkipUnforked, Summarise, vars, workerVars, args,
              Untouched
<1>2. CASE Fork \/ ForkFails
  <2>1. /\ ppc = "fork" /\ wpc' \in {[wpc EXCEPT ![pw] = "forked"], [wpc EXCEPT ![pw] = "nofork"]}
        /\ UNCHANGED <<args, outcome, cur, res, log, stats, status, seen>>
    BY <1>2 DEF Fork, ForkFails
  <2>2. CASE v = pw
    <3>1. wpc[v] = "unforked"
      BY <1>0, <2>1, <2>2 DEF ForkOrder, WorkerIds
    <3>2. wpc'[v] \in {"forked", "nofork"}
      BY <1>0, <2>1, <2>2
    <3> QED
      BY <2>1, <3>1, <3>2 DEF Forked
  <2>3. CASE v # pw
    BY <1>0, <2>1, <2>3 DEF Untouched
  <2> QED
    BY <2>1, <2>2, <2>3
<1>3. CASE Collect
  BY <1>0, <1>3 DEF Collect, CollectWorker, Untouched
<1>4. ASSUME NEW w \in WorkerIds, w # v, Worker(w) \/ Kill(w)
      PROVE  UNCHANGED args /\ Untouched(v)
  <2>1. UNCHANGED args
    BY <1>4 DEF Worker, Relink, FreopenFails, RunTest, WriteStats, WriteStatsFails, Exit, Kill
  <2>2. \A t \in Mine(v) : outcome'[t] = outcome[t]
    <3>1. CASE \E o \in Outcomes : RunTest(w, o)
      <4>1. cur[w] \in Mine(w)
        BY <3>1 DEF RunTest, RunInv, WorkerInv
      <4>2. \A t \in Mine(v) : t # cur[w]
        BY <1>4, <4>1, MineDisjoint
      <4> QED
        BY <1>0, <3>1, <4>2 DEF RunTest, TypeOK, Mine
    <3>2. CASE ~ \E o \in Outcomes : RunTest(w, o)
      BY <1>4, <3>2 DEF Worker, Relink, FreopenFails, WriteStats, WriteStatsFails, Exit, Kill
    <3> QED
      BY <3>1, <3>2
  <2>3. /\ wpc'[v] = wpc[v] /\ cur'[v] = cur[v] /\ res'[v] = res[v] /\ log'[v] = log[v]
        /\ stats'[v] = stats[v] /\ status'[v] = status[v] /\ seen'[v] = seen[v]
    BY <1>0, <1>4 DEF Worker, Relink, FreopenFails, RunTest, WriteStats, WriteStatsFails, Exit,
                      Kill, TypeOK
  <2> QED
    BY <2>1, <2>2, <2>3 DEF Untouched
<1>5. Worker(v) \/ Kill(v) => UNCHANGED args
  BY DEF Worker, Relink, FreopenFails, RunTest, WriteStats, WriteStatsFails, Exit, Kill
<1> QED
  BY <1>1, <1>2, <1>3, <1>4, <1>5 DEF Next, Parent, Terminated

LEMMA CountersStep ==
  ASSUME RunInv, [Next]_vars, NEW v \in WorkerIds, CountersInv(v)
  PROVE  CountersInv(v)'
<1>0. /\ TypeOK /\ WorkerInv(v) /\ v \in WorkerIds
      /\ wpc \in [WorkerIds -> {"unforked", "nofork", "forked", "running", "written", "dead"}]
      /\ stats \in [WorkerIds -> {"absent", "short", "full"}]
      /\ UNCHANGED args /\ Mine(v)' = Mine(v)
      /\ seen[v] \subseteq Mine(v) /\ Mine(v) \subseteq Tests
  <2>1. TypeOK /\ WorkerInv(v)
    BY DEF RunInv
  <2>2. UNCHANGED args /\ Mine(v)' = Mine(v)
    BY StepsOfWorker, SameArgs
  <2> QED
    BY <2>1, <2>2 DEF TypeOK, WorkerInv, Mine
<1>1. CASE Untouched(v)
  <2>1. /\ wpc'[v] = wpc[v] /\ cur'[v] = cur[v] /\ res'[v] = res[v]
        /\ status'[v] = status[v] /\ seen'[v] = seen[v]
        /\ stats'[v] = "full" => stats[v] = "full"
        /\ \A t \in Mine(v) : outcome'[t] = outcome[t]
    BY <1>1 DEF Untouched
  <2>2. \A c \in Counters : CountIn(outcome', seen[v], c) = CountIn(outcome, seen[v], c)
    BY <1>0, <2>1, CountSame
  <2> QED
    BY <1>0, <2>1, <2>2 DEF CountersInv
<1>2. CASE Forked(v)
  <2>1. /\ UNCHANGED <<outcome, cur, res, stats, status, seen>>
        /\ wpc[v] = "unforked" /\ wpc'[v] \in {"forked", "nofork"}
    BY <1>2 DEF Forked
  <2> QED
    BY <1>0, <2>1 DEF CountersInv
<1>3. CASE Relink(v)
  <2>1. /\ UNCHANGED <<outcome, res, stats, status, seen>>
        /\ wpc[v] = "forked" /\ wpc'[v] = "running" /\ seen[v] = {}
    BY <1>0, <1>3 DEF Relink, WorkerInv
  <2> QED
    BY <1>0, <2>1 DEF CountersInv
<1>4. CASE FreopenFails(v) \/ WriteStatsFails(v)
  <2>1. /\ UNCHANGED <<outcome, cur, res, seen>> /\ wpc'[v] = "dead" /\ stats'[v] # "full"
    BY <1>0, <1>4 DEF FreopenFails, WriteStatsFails, WorkerInv
  <2> QED
    BY <1>0, <2>1 DEF CountersInv
<1>5. ASSUME NEW o \in Outcomes, RunTest(v, o)
      PROVE  CountersInv(v)'
  <2> DEFINE t == cur[v]
  <2>1. /\ wpc[v] = "running" /\ t # NIL /\ t \in Mine(v) /\ t \in Tests
        /\ stats[v] = "absent" /\ stats' = stats
        /\ seen'[v] = seen[v] \cup {t} /\ outcome' = [outcome EXCEPT ![t] = o]
    BY <1>0, <1>5 DEF RunTest, WorkerInv, TypeOK
  <2>2. Tests \subseteq Nat \ {NIL} /\ IsFiniteSet(seen[v])
    BY <1>0, FiniteTests
  <2>3. t \notin seen[v] /\ t \in Nat /\ \A s \in seen[v] : s \in Nat /\ s < t
    BY <1>0, <2>1, <2>2 DEF CountersInv
  <2>4. outcome'[t] = o /\ \A s \in Mine(v) : s # t => outcome'[s] = outcome[s]
    BY <1>0, <2>1 DEF TypeOK
  <2>5. /\ \A s \in seen'[v] : outcome'[s] \in Outcomes
        /\ \A s \in Mine(v) \ seen'[v] : outcome'[s] = "none"
    BY <1>0, <2>1, <2>4 DEF CountersInv
  <2>6. CASE EndsWorker(o)
    <3>1. wpc'[v] = "dead" /\ stats'[v] # "full"
      BY <1>0, <1>5, <2>1, <2>6 DEF RunTest
    <3> QED
      BY <1>0, <2>5, <3>1 DEF CountersInv
  <2>7. CASE ~ EndsWorker(o)
    <3>1. /\ wpc'[v] = "running" /\ cur'[v] = NextIn(v, t)
          /\ res'[v] = Plus(res[v], Tally(o)) /\ status'[v] = status[v]
      BY <1>0, <1>5, <2>1, <2>7 DEF RunTest, TypeOK
    <3>2. cur'[v] # NIL => cur'[v] > t /\ cur'[v] \in Nat
      <4>1. group \in Seq(Groups) /\ t \in Tests \cup {NIL}
        BY <1>0, <2>1 DEF TypeOK
      <4> HIDE DEF t
      <4>2. NextIn(v, t) \in Mine(v) \cup {NIL} /\ (NextIn(v, t) # NIL => NextIn(v, t) > t)
        BY <4>1, NextInList
      <4> QED
        BY <1>0, <2>2, <3>1, <4>2
    <3>3. cur'[v] # NIL => \A s \in seen'[v] : s < cur'[v]
      <4> SUFFICES ASSUME cur'[v] # NIL, NEW s \in seen'[v] PROVE s < cur'[v]
        OBVIOUS
      <4>1. s \in Nat /\ (s = t \/ s < t)
        BY <2>1, <2>3
      <4> HIDE DEF t
      <4> QED
        BY <2>3, <3>2, <4>1
    <3>4. ASSUME NEW c \in Counters PROVE res'[v][c] = CountIn(outcome', seen'[v], c)
      <4> HIDE DEF t
      <4>0. IsFiniteSet({t}) /\ \A s \in seen[v] : s \notin {t}
        BY <2>3, FS_Singleton
      <4>1. /\ CountIn(outcome', seen[v] \cup {t}, c)
                 = CountIn(outcome', seen[v], c) + CountIn(outcome', {t}, c)
            /\ CountIn(outcome', seen[v], c) \in Nat
        BY <2>2, <4>0, CountDisjoint
      <4>2. CountIn(outcome', seen[v], c) = CountIn(outcome, seen[v], c)
        BY <1>0, <2>3, <2>4, CountSame
      <4>3. CountIn(outcome', {t}, c) = Tally(o)[c]
        BY <2>4, CountOne, TallyIn
      <4>4. res[v] \in [Counters -> Nat] /\ res[v][c] = CountIn(outcome, seen[v], c)
        BY <1>0, <2>1 DEF TypeOK, CountersInv
      <4>5. res'[v][c] = res[v][c] + Tally(o)[c]
        BY <3>1, <4>4, TallyType, PlusIs
      <4> QED
        BY <2>1, <4>1, <4>2, <4>3, <4>4, <4>5
    <3> QED
      BY <1>0, <2>5, <3>1, <3>3, <3>4 DEF CountersInv
  <2> QED
    BY <2>6, <2>7
<1>6. CASE WriteStats(v)
  <2>1. /\ UNCHANGED <<outcome, cur, res, status, seen>> /\ wpc'[v] = "written" /\ wpc[v] = "running"
    BY <1>0, <1>6 DEF WriteStats
  <2> QED
    BY <1>0, <2>1 DEF CountersInv
<1>7. CASE Exit(v) \/ Kill(v)
  <2>1. /\ UNCHANGED <<outcome, cur, res, seen>> /\ wpc'[v] = "dead"
        /\ stats'[v] = "full" => stats[v] = "full"
    BY <1>0, <1>7 DEF Exit, Kill
  <2> QED
    BY <1>0, <2>1 DEF CountersInv
<1> QED
  BY <1>1, <1>2, <1>3, <1>4, <1>5, <1>6, <1>7, StepsOfWorker DEF Worker

LEMMA CountersInit ==
  ASSUME Init, NEW v \in WorkerIds
  PROVE  CountersInv(v)
<1>1. /\ seen[v] = {} /\ res[v] = ZeroResult /\ status[v] = "none" /\ wpc[v] = "unforked"
      /\ outcome = [t \in Tests |-> "none"] /\ Mine(v) \subseteq Tests
  BY DEF Init, Mine
<1>2. \A c \in Counters : res[v][c] = CountIn(outcome, seen[v], c)
  BY <1>1, ZeroIs, CountNone
<1> QED
  BY <1>1, <1>2 DEF CountersInv

-------------------------------------------------------------------------------
(* The totals *)

(* The totals count the tests of the workers whose stats were read, and    *)
(* one failure for each mishap.                                            *)
TotalsInv ==
  \A c \in Counters :
    total[c] = CountIn(outcome, Counted, c) + IF c = "failures" THEN Mishaps ELSE 0

(* Nobody but the parent touches a worker it has collected.                *)
LEMMA CollectedUntouched ==
  ASSUME RunInv, [Next]_vars, NEW v \in WorkerIds, v \in Collected \/ v \in taken
  PROVE  Untouched(v)
<1>1. wpc[v] \in {"dead", "nofork"}
  BY DEF RunInv, CollectInv
<1>2. ~ Forked(v) /\ ~ Worker(v) /\ ~ Kill(v)
  BY <1>1 DEF Forked, Worker, Kill, Relink, FreopenFails, RunTest, WriteStats, WriteStatsFails,
              Exit
<1> QED
  BY <1>2, StepsOfWorker

LEMMA CountedKept ==
  ASSUME RunInv, [Next]_vars
  PROVE  /\ \A t \in Counted : outcome'[t] = outcome[t]
         /\ \A w \in taken : seen'[w] = seen[w]
         /\ Counted = UNION {seen'[w] : w \in taken}
         /\ IsFiniteSet(Counted) /\ Counted \subseteq Tests
<1>1. ASSUME NEW w \in taken
      PROVE  /\ seen'[w] = seen[w] /\ seen[w] \subseteq Tests
             /\ \A t \in seen[w] : outcome'[t] = outcome[t]
  <2>1. w \in WorkerIds
    BY DEF RunInv, TypeOK
  <2>2. Untouched(w) /\ seen[w] \subseteq Mine(w)
    BY <2>1, CollectedUntouched DEF RunInv, WorkerInv
  <2> QED
    BY <2>2 DEF Untouched, Mine
<1>2. Counted \subseteq Tests
  BY <1>1 DEF Counted
<1>3. IsFiniteSet(Tests)
  BY FiniteTests DEF RunInv
<1>4. {seen'[w] : w \in taken} = {seen[w] : w \in taken}
  BY <1>1
<1> QED
  BY <1>1, <1>2, <1>3, <1>4, FS_Subset DEF Counted

LEMMA MishapSets ==
  ASSUME TypeOK
  PROVE  /\ IsFiniteSet(DiedAbnormally) /\ IsFiniteSet(Unforked)
         /\ Cardinality(DiedAbnormally) \in Nat /\ Cardinality(Unforked) \in Nat
         /\ Mishaps \in Nat
<1>1. DiedAbnormally \subseteq WorkerIds /\ Unforked \subseteq WorkerIds
  BY DEF DiedAbnormally, Unforked, Collected
<1>2. /\ IsFiniteSet(DiedAbnormally) /\ IsFiniteSet(Unforked)
      /\ Cardinality(DiedAbnormally) \in Nat /\ Cardinality(Unforked) \in Nat
  BY <1>1, FiniteTests, FS_Subset, FS_CardinalityType
<1>3. Mishaps \in Nat
  BY <1>2 DEF Mishaps
<1> QED
  BY <1>2, <1>3

LEMMA SameMishaps ==
  ASSUME DiedAbnormally' = DiedAbnormally, Unforked' = Unforked, NoDir' <=> NoDir
  PROVE  Mishaps' = Mishaps
BY DEF Mishaps

LEMMA SameDied ==
  ASSUME RunInv, [Next]_vars, Collected' = Collected
  PROVE  DiedAbnormally' = DiedAbnormally
<1>1. \A w \in Collected : status'[w] = status[w]
  BY CollectedUntouched DEF Collected, Untouched
<1> QED
  BY <1>1 DEF DiedAbnormally, Abnormal

Quiet ==
  \/ StartEmpty \/ Start \/ Fork \/ SkipUnforked \/ Summarise
  \/ \E w \in WorkerIds : Worker(w) \/ Kill(w)
  \/ UNCHANGED vars

(* The parent is done with one more worker when it collects or skips it.   *)
LEMMA CollectedStep ==
  ASSUME RunInv, [Next]_vars
  PROVE  /\ Collect \/ SkipUnforked =>
              /\ Collected' = Collected \cup {pw} /\ pw \in WorkerIds /\ pw \notin Collected
              /\ \A w \in Collected : w < pw
              /\ ppc' = "collect" /\ UNCHANGED <<wpc, status, seen, outcome>>
         /\ ~ (Collect \/ SkipUnforked) => Collected' = Collected
<1>0. /\ TypeOK /\ ForkOrder /\ NWorkers \in Nat /\ NWorkers <= Workers /\ pw \in Nat
  BY WorkersOfRun DEF RunInv, TypeOK
<1>1. ASSUME Collect \/ SkipUnforked
      PROVE  /\ Collected' = Collected \cup {pw} /\ pw \in WorkerIds /\ pw \notin Collected
             /\ \A w \in Collected : w < pw
             /\ ppc' = "collect" /\ UNCHANGED <<wpc, status, seen, outcome>>
  <2>1. /\ ppc = "collect" /\ ppc' = ppc /\ pw < NWorkers /\ pw' = pw + 1
        /\ UNCHANGED <<wpc, status, seen, outcome>>
    BY <1>1 DEF Collect, SkipUnforked, Collecting, CollectWorker, NextCollect, workerVars
  <2>2. pw \in WorkerIds
    BY <1>0, <2>1, ParallelAssumption DEF WorkerIds
  <2>3. \A w \in WorkerIds : w < pw + 1 <=> (w < pw \/ w = pw)
    BY <1>0 DEF WorkerIds
  <2>4. /\ Collected = {w \in WorkerIds : w < pw} /\ Collected' = {w \in WorkerIds : w < pw + 1}
        /\ ~ pw < pw
    BY <1>0, <2>1 DEF Collected
  <2>5. Collected' = Collected \cup {pw} /\ pw \notin Collected /\ \A w \in Collected : w < pw
    BY <2>2, <2>3, <2>4
  <2> QED
    BY <2>1, <2>2, <2>5
<1>2. ASSUME StartEmpty \/ Start \/ StartNoDir
      PROVE  Collected' = Collected
  <2>1. pw = 0 /\ pw' = 0
    BY <1>0, <1>2 DEF StartEmpty, Start, StartNoDir, TypeOK
  <2>2. \A w \in WorkerIds : ~ w < 0
    BY DEF WorkerIds
  <2> QED
    BY <2>1, <2>2 DEF Collected
<1>3. ASSUME Fork \/ ForkFails
      PROVE  Collected' = Collected
  <2>1. ppc = "fork" /\ (ppc' = "collect" => pw' = 0) /\ ppc' \in {"fork", "collect"}
    BY <1>3 DEF Fork, ForkFails, NextFork
  <2> QED
    BY <2>1 DEF Collected, WorkerIds
<1>4. ASSUME Summarise \/ (\E w \in WorkerIds : Worker(w) \/ Kill(w)) \/ UNCHANGED vars
      PROVE  Collected' = Collected
  BY <1>4 DEF Summarise, Worker, Relink, FreopenFails, RunTest, WriteStats, WriteStatsFails, Exit,
              Kill, parentVars, vars, Collected
<1> QED
  BY <1>1, <1>2, <1>3, <1>4 DEF Next, Parent, Terminated

(* What each step adds to the mishaps.                                     *)
LEMMA MishapsStep ==
  ASSUME RunInv, \A w \in WorkerIds : CountersInv(w), [Next]_vars
  PROVE  /\ Quiet => Mishaps' = Mishaps
         /\ StartNoDir \/ ForkFails => Mishaps' = Mishaps + 1
         /\ Collect => Mishaps' = Mishaps + IF Abnormal(status[pw]) THEN 1 ELSE 0
<1>0. /\ TypeOK /\ ForkOrder /\ NWorkers \in Nat /\ NWorkers <= Workers
      /\ Heads # {} => NWorkers > 0
      /\ wpc \in [WorkerIds -> {"unforked", "nofork", "forked", "running", "written", "dead"}]
      /\ pw \in Nat
  BY WorkersOfRun DEF RunInv, TypeOK
<1>1. /\ UNCHANGED args /\ Heads' = Heads /\ NWorkers' = NWorkers
  <2>1. 0 \in WorkerIds
    BY ParallelAssumption DEF WorkerIds
  <2> QED
    BY <2>1, StepsOfWorker, SameArgs
<1>2. /\ Cardinality(DiedAbnormally) \in Nat /\ Cardinality(Unforked) \in Nat
      /\ IsFiniteSet(DiedAbnormally) /\ IsFiniteSet(Unforked)
  BY <1>0, MishapSets
<1>3. ASSUME Collected' = Collected
      PROVE  DiedAbnormally' = DiedAbnormally
  BY <1>3, SameDied
<1>4. ASSUME StartEmpty \/ Start
      PROVE  Mishaps' = Mishaps
  <2>1. Collected' = Collected
    BY <1>4, CollectedStep DEF StartEmpty, Start, Collect, SkipUnforked, Collecting
  <2>2. ~ NoDir /\ ~ NoDir' /\ Unforked' = Unforked
    BY <1>1, <1>4 DEF StartEmpty, Start, NoDir, Unforked, workerVars
  <2> QED
    BY <1>3, <2>1, <2>2, SameMishaps
<1>5. ASSUME StartNoDir
      PROVE  Mishaps' = Mishaps + 1
  <2>1. Collected' = Collected
    BY <1>5, CollectedStep DEF StartNoDir, Collect, SkipUnforked, Collecting
  <2>2. ~ NoDir /\ NoDir' /\ Unforked' = Unforked
    BY <1>0, <1>1, <1>5 DEF StartNoDir, NoDir, Unforked, workerVars, TypeOK
  <2> QED
    BY <1>2, <1>3, <2>1, <2>2 DEF Mishaps
<1>6. ASSUME Fork \/ ForkFails
      PROVE  /\ DiedAbnormally' = DiedAbnormally /\ (NoDir' <=> NoDir)
             /\ pw \in WorkerIds /\ wpc[pw] = "unforked"
  <2>1. ppc = "fork" /\ ppc' \in {"fork", "collect"}
    BY <1>6 DEF Fork, ForkFails, NextFork
  <2>2. Collected' = Collected
    BY <1>6, <2>1, CollectedStep DEF Collect, SkipUnforked, Collecting
  <2>3. pw \in WorkerIds
    BY <1>0, <2>1, ParallelAssumption DEF TypeOK, WorkerIds
  <2> QED
    BY <1>0, <1>3, <2>1, <2>2, <2>3 DEF ForkOrder, NoDir
<1>7. ASSUME Fork
      PROVE  Mishaps' = Mishaps
  <2>1. Unforked' = Unforked
    BY <1>0, <1>6, <1>7 DEF Fork, Unforked
  <2> QED
    BY <1>6, <1>7, <2>1, SameMishaps
<1>8. ASSUME ForkFails
      PROVE  Mishaps' = Mishaps + 1
  <2>1. Unforked' = Unforked \cup {pw} /\ pw \notin Unforked
    BY <1>0, <1>6, <1>8 DEF ForkFails, Unforked
  <2>2. Cardinality(Unforked') = Cardinality(Unforked) + 1
    BY <1>2, <2>1, FS_AddElement
  <2> QED
    BY <1>2, <1>6, <1>8, <2>2 DEF Mishaps
<1>9. ASSUME Collect \/ SkipUnforked
      PROVE  /\ Collected' = Collected \cup {pw} /\ pw \in WorkerIds /\ pw \notin Collected
             /\ Unforked' = Unforked /\ status' = status /\ (NoDir' <=> NoDir)
  <2>1. ppc = "collect" /\ ppc' = "collect"
    BY <1>9, CollectedStep DEF Collect, SkipUnforked, Collecting
  <2> QED
    BY <1>9, <2>1, CollectedStep DEF Unforked, NoDir
<1>10. ASSUME SkipUnforked
       PROVE  Mishaps' = Mishaps
  <2>1. ~ Abnormal(status[pw])
    BY <1>9, <1>10 DEF SkipUnforked, CountersInv, Abnormal
  <2>2. DiedAbnormally' = DiedAbnormally
    BY <1>9, <1>10, <2>1 DEF DiedAbnormally, Abnormal
  <2> QED
    BY <1>9, <1>10, <2>2, SameMishaps
<1>11. ASSUME Collect
       PROVE  Mishaps' = Mishaps + IF Abnormal(status[pw]) THEN 1 ELSE 0
  <2>1. CASE Abnormal(status[pw])
    <3>1. DiedAbnormally' = DiedAbnormally \cup {pw} /\ pw \notin DiedAbnormally
      BY <1>9, <1>11, <2>1 DEF DiedAbnormally, Abnormal
    <3>2. Cardinality(DiedAbnormally') = Cardinality(DiedAbnormally) + 1
      BY <1>2, <3>1, FS_AddElement
    <3> QED
      BY <1>2, <1>9, <1>11, <2>1, <3>2 DEF Mishaps
  <2>2. CASE ~ Abnormal(status[pw])
    <3>1. DiedAbnormally' = DiedAbnormally
      BY <1>9, <1>11, <2>2 DEF DiedAbnormally, Abnormal
    <3>2. Mishaps' = Mishaps /\ Mishaps \in Nat
      BY <1>0, <1>9, <1>11, <3>1, SameMishaps, MishapSets
    <3> QED
      BY <2>2, <3>2
  <2> QED
    BY <2>1, <2>2
<1>12. ASSUME Summarise
       PROVE  Mishaps' = Mishaps
  <2>1. ppc = "collect" /\ pw = NWorkers /\ pw' = pw /\ wpc' = wpc
    BY <1>12 DEF Summarise, workerVars
  <2>2. Collected' = Collected
    BY <1>0, <1>12, <2>1, CollectedStep DEF Collect, SkipUnforked, Collecting
  <2>3. ~ NoDir /\ ~ NoDir' /\ Unforked' = Unforked
    BY <1>0, <1>1, <2>1 DEF NoDir, Unforked
  <2> QED
    BY <1>3, <2>2, <2>3, SameMishaps
<1>13. ASSUME (\E w \in WorkerIds : Worker(w) \/ Kill(w)) \/ UNCHANGED vars
       PROVE  Mishaps' = Mishaps
  <2>1. UNCHANGED <<ppc, pw>>
    BY <1>13 DEF Worker, Relink, FreopenFails, RunTest, WriteStats, WriteStatsFails, Exit, Kill,
                 parentVars, vars
  <2>2. \A w \in WorkerIds : wpc'[w] = "nofork" <=> wpc[w] = "nofork"
    BY <1>0, <1>13 DEF Worker, Relink, FreopenFails, RunTest, WriteStats, WriteStatsFails, Exit,
                       Kill, vars, workerVars
  <2>3. Collected' = Collected /\ Unforked' = Unforked /\ (NoDir' <=> NoDir)
    BY <1>1, <2>1, <2>2 DEF Collected, Unforked, NoDir
  <2> QED
    BY <1>3, <2>3, SameMishaps
<1>14. Quiet => Mishaps' = Mishaps
  <2> SUFFICES ASSUME Quiet PROVE Mishaps' = Mishaps
    OBVIOUS
  <2> QED
    BY <1>4, <1>7, <1>10, <1>12, <1>13 DEF Quiet
<1> QED
  BY <1>5, <1>8, <1>11, <1>14

(* A step without news for the totals.                                     *)
LEMMA QuietStep ==
  ASSUME RunInv, [Next]_vars, TotalsInv, UNCHANGED <<taken, total>>, Mishaps' = Mishaps
  PROVE  TotalsInv' /\ Counted' = Counted
<1>1. Counted' = Counted /\ \A t \in Counted : outcome'[t] = outcome[t]
  BY CountedKept DEF Counted
<1>2. \A c \in Counters : CountIn(outcome', Counted, c) = CountIn(outcome, Counted, c)
  BY <1>1, CountSame
<1> QED
  BY <1>1, <1>2 DEF TotalsInv

(* What the parent adds for a mishap.                                      *)
LEMMA OneMore ==
  ASSUME RunInv, [Next]_vars, TotalsInv, taken' = taken, total' = Plus(total, OneFailure),
         Mishaps' = Mishaps + 1
  PROVE  TotalsInv' /\ Counted' = Counted
<1>1. Counted' = Counted /\ \A t \in Counted : outcome'[t] = outcome[t]
  BY CountedKept DEF Counted
<1>2. Mishaps \in Nat /\ total \in [Counters -> Nat]
  BY MishapSets DEF RunInv, TypeOK
<1>3. ASSUME NEW c \in Counters
      PROVE  total'[c] = CountIn(outcome', Counted, c) + IF c = "failures" THEN Mishaps' ELSE 0
  <2>1. total'[c] = total[c] + (IF c = "failures" THEN 1 ELSE 0) /\ total[c] \in Nat
    BY <1>2, PlusIs, ResultTypes, ZeroIs
  <2>2. total[c] = CountIn(outcome, Counted, c) + IF c = "failures" THEN Mishaps ELSE 0
    BY DEF TotalsInv
  <2>3. CountIn(outcome', Counted, c) = CountIn(outcome, Counted, c)
    BY <1>1, CountSame
  <2>4. CountIn(outcome, Counted, c) \in Nat
    <3>1. IsFiniteSet({t \in Counted : outcome[t] \in Outs[c]})
      BY CountedKept, FS_Subset
    <3> QED
      BY <3>1, FS_CardinalityType DEF CountIn
  <2> QED
    BY <1>2, <2>1, <2>2, <2>3, <2>4
<1> QED
  BY <1>1, <1>3 DEF TotalsInv

(* What the parent adds for a worker: its counters if they are complete,   *)
(* and a failure for an abnormal end.                                      *)
LEMMA CollectTotals ==
  ASSUME RunInv, \A w \in WorkerIds : CountersInv(w), TotalsInv, "reap" \notin Faults,
         [Next]_vars, Collect
  PROVE  /\ TotalsInv'
         /\ pw \in WorkerIds
         /\ Counted' = Counted \cup (IF stats[pw] = "full" THEN seen[pw] ELSE {})
         /\ Mishaps' = Mishaps + IF Abnormal(status[pw]) THEN 1 ELSE 0
<1> DEFINE add == IF stats[pw] = "full" THEN seen[pw] ELSE {}
           more == IF Abnormal(status[pw]) THEN 1 ELSE 0
<1>0. /\ TypeOK /\ total \in [Counters -> Nat] /\ res \in [WorkerIds -> [Counters -> Nat]]
      /\ pw \in WorkerIds /\ pw \in Nat /\ ppc = "collect"
  <2>1. TypeOK /\ NWorkers \in Nat /\ NWorkers <= Workers
    BY WorkersOfRun DEF RunInv, TypeOK
  <2>2. pw < NWorkers /\ ppc = "collect"
    BY DEF Collect, Collecting
  <2>3. pw \in Nat /\ pw \in WorkerIds
    BY <2>1, <2>2, ParallelAssumption DEF TypeOK, WorkerIds
  <2> QED
    BY <2>1, <2>2, <2>3 DEF TypeOK
<1>1. Mishaps' = Mishaps + more /\ Mishaps \in Nat
  BY <1>0, MishapsStep, MishapSets
<1>2. /\ taken' = IF stats[pw] = "full" THEN taken \cup {pw} ELSE taken
      /\ UNCHANGED <<seen, outcome>>
      /\ total' = Plus(total, IF Abnormal(status[pw]) THEN Plus(StatsRead(pw), OneFailure)
                                                      ELSE StatsRead(pw))
  BY DEF Collect, CollectWorker, SeenStatuses
<1>3. Counted' = Counted \cup add
  BY <1>2 DEF Counted
<1>4. /\ IsFiniteSet(Counted) /\ IsFiniteSet(add)
      /\ \A t \in Counted : t \notin add
  <2>1. pw \notin taken
    <3>1. pw \in taken => pw \in Collected
      BY <1>0 DEF RunInv, CollectInv
    <3> QED
      BY <1>0, <3>1 DEF Collected
  <2>2. \A w \in taken : w \in WorkerIds /\ seen[w] \subseteq Mine(w)
    BY DEF RunInv, WorkerInv, TypeOK
  <2>3. seen[pw] \subseteq Mine(pw) /\ IsFiniteSet(seen[pw]) /\ IsFiniteSet({})
    BY <1>0, FiniteTests, FS_EmptySet DEF RunInv, WorkerInv
  <2>4. \A w \in taken : \A t \in seen[w] : t \notin seen[pw]
    BY <1>0, <2>1, <2>2, <2>3, MineDisjoint
  <2>5. IsFiniteSet(Counted)
    BY CountedKept
  <2> QED
    BY <2>3, <2>4, <2>5 DEF Counted
<1>5. /\ StatsRead(pw) \in [Counters -> Nat]
      /\ \A c \in Counters : StatsRead(pw)[c] = CountIn(outcome, add, c)
  <2>1. CASE stats[pw] = "full"
    BY <1>0, <2>1 DEF StatsRead, CountersInv
  <2>2. CASE stats[pw] # "full"
    BY <2>2, ResultTypes, ZeroIs, CountNone DEF StatsRead
  <2> QED
    BY <2>1, <2>2
<1> HIDE DEF add
<1>6. ASSUME NEW c \in Counters
      PROVE  total'[c] = CountIn(outcome', Counted', c) + IF c = "failures" THEN Mishaps' ELSE 0
  <2>1. /\ CountIn(outcome, Counted \cup add, c)
             = CountIn(outcome, Counted, c) + CountIn(outcome, add, c)
        /\ CountIn(outcome, Counted, c) \in Nat /\ CountIn(outcome, add, c) \in Nat
    BY <1>4, CountDisjoint
  <2>2. total'[c] = total[c] + StatsRead(pw)[c] + (IF c = "failures" THEN more ELSE 0)
    <3>1. CASE Abnormal(status[pw])
      <4>1. /\ Plus(StatsRead(pw), OneFailure) \in [Counters -> Nat]
            /\ Plus(StatsRead(pw), OneFailure)[c]
                 = StatsRead(pw)[c] + IF c = "failures" THEN 1 ELSE 0
        BY <1>5, PlusType, PlusIs, ResultTypes, ZeroIs
      <4>2. total'[c] = total[c] + Plus(StatsRead(pw), OneFailure)[c]
        BY <1>0, <1>2, <3>1, <4>1, PlusIs
      <4>3. total[c] \in Nat /\ StatsRead(pw)[c] \in Nat
        BY <1>0, <1>5
      <4> QED
        BY <3>1, <4>1, <4>2, <4>3
    <3>2. CASE ~ Abnormal(status[pw])
      <4>1. total'[c] = total[c] + StatsRead(pw)[c] /\ total[c] \in Nat /\ StatsRead(pw)[c] \in Nat
        BY <1>0, <1>2, <1>5, <3>2, PlusIs
      <4> QED
        BY <3>2, <4>1
    <3> QED
      BY <3>1, <3>2
  <2>3. total[c] = CountIn(outcome, Counted, c) + IF c = "failures" THEN Mishaps ELSE 0
    BY DEF TotalsInv
  <2>4. more \in Nat
    OBVIOUS
  <2> HIDE DEF more
  <2> QED
    BY <1>1, <1>2, <1>3, <1>5, <2>1, <2>2, <2>3, <2>4
<1>7. TotalsInv'
  BY <1>6 DEF TotalsInv
<1> QED
  BY <1>0, <1>1, <1>3, <1>7 DEF add

LEMMA TotalsStep ==
  ASSUME RunInv, \A w \in WorkerIds : CountersInv(w), TotalsInv, "reap" \notin Faults,
         [Next]_vars
  PROVE  TotalsInv'
<1>1. CASE Quiet
  <2>1. Mishaps' = Mishaps
    BY <1>1, MishapsStep
  <2>2. UNCHANGED <<taken, total>>
    BY <1>1 DEF Quiet, StartEmpty, Start, Fork, SkipUnforked, Summarise, Worker, Relink,
                FreopenFails, RunTest, WriteStats, WriteStatsFails, Exit, Kill, parentVars, vars
  <2> QED
    BY <2>1, <2>2, QuietStep
<1>2. CASE StartNoDir \/ ForkFails
  <2>1. Mishaps' = Mishaps + 1
    BY <1>2, MishapsStep
  <2>2. taken' = taken /\ total' = Plus(total, OneFailure)
    BY <1>2 DEF StartNoDir, ForkFails
  <2> QED
    BY <2>1, <2>2, OneMore
<1>3. CASE Collect
  BY <1>3, CollectTotals
<1>4. CASE Terminated
  BY <1>1, <1>4 DEF Terminated, Quiet
<1> QED
  BY <1>1, <1>2, <1>3, <1>4 DEF Next, Parent, Quiet

LEMMA TotalsInit ==
  ASSUME Init
  PROVE  TotalsInv
<1>1. /\ taken = {} /\ total = ZeroResult /\ ppc = "start"
      /\ wpc = [w \in WorkerIds |-> "unforked"]
  BY DEF Init
<1>2. Counted = {} /\ Collected = {} /\ DiedAbnormally = {} /\ Unforked = {} /\ ~ NoDir
  BY <1>1 DEF Counted, Collected, DiedAbnormally, Unforked, NoDir
<1>3. Mishaps = 0
  BY <1>2, FS_EmptySet DEF Mishaps
<1> QED
  BY <1>1, <1>2, <1>3, ZeroIs, CountNone DEF TotalsInv

(* The hypothesis: waitpid reports how a worker ended.                     *)
THEOREM RunCounted ==
  ASSUME "reap" \notin Faults
  PROVE  Spec => [](RunInv /\ (\A w \in WorkerIds : CountersInv(w)) /\ TotalsInv)
<1> DEFINE AllCounted == \A w \in WorkerIds : CountersInv(w)
<1>1. Init => AllCounted /\ TotalsInv
  BY CountersInit, TotalsInit
<1>2. RunInv /\ AllCounted /\ TotalsInv /\ [Next]_vars => AllCounted' /\ TotalsInv'
  BY CountersStep, TotalsStep DEF WorkerIds
<1> HIDE DEF AllCounted
<1>3. Spec => [](RunInv /\ AllCounted /\ TotalsInv)
  BY <1>1, <1>2, RunCorrect, PTL DEF Spec
<1> QED
  BY <1>3 DEF AllCounted

(* cu_run_parallel (fork.c 196-250): at every moment the totals count each *)
(* test that reached them once, in the counters of what became of it, and  *)
(* each refused fork and abnormal end as one failure.                      *)
THEOREM TotalsExact ==
  ASSUME "reap" \notin Faults
  PROVE  Spec => []MergedTotals
<1>1. RunInv /\ (\A w \in WorkerIds : CountersInv(w)) /\ TotalsInv => MergedTotals
  <2> SUFFICES ASSUME RunInv, \A w \in WorkerIds : CountersInv(w), TotalsInv
               PROVE  MergedTotals
    OBVIOUS
  <2>1. \A t \in Counted : outcome[t] \in Outcomes
    BY DEF Counted, CountersInv, RunInv, TypeOK
  <2>2. {t \in Counted : outcome[t] \in Outcomes} = Counted
    BY <2>1
  <2>3. Mishaps \in Nat
    BY MishapSets DEF RunInv
  <2> DEFINE N(S) == Cardinality({t \in Counted : outcome[t] \in S})
  <2>4. N(Outcomes) = Cardinality(Counted)
    BY <2>2
  <2>5. IsFiniteSet(Counted)
    <3>1. Counted \subseteq Tests /\ IsFiniteSet(Tests)
      BY FiniteTests DEF RunInv, TypeOK, Counted
    <3> QED
      BY <3>1, FS_Subset
  <2>6. \A S : N(S) \in Nat
    BY <2>5, FS_Subset, FS_CardinalityType
  <2>7. \A c \in Counters : CountIn(outcome, Counted, c) = N(Outs[c])
    BY DEF CountIn
  <2>8. MergedTotals <=> /\ total.tests = Cardinality(Counted) /\ total.run = N(Executed)
                         /\ total.ignored = N({"ignored"}) /\ total.filtered = N({"filtered"})
                         /\ total.failures = N(Bad) + Mishaps
    BY DEF MergedTotals
  <2> HIDE DEF N
  <2>9. \A c \in Counters : total[c] = N(Outs[c]) + IF c = "failures" THEN Mishaps ELSE 0
    BY <2>7 DEF TotalsInv
  <2>10. /\ total.tests = N(Outcomes) + 0 /\ total.run = N(Executed) + 0
         /\ total.ignored = N({"ignored"}) + 0 /\ total.filtered = N({"filtered"}) + 0
         /\ total.failures = N(Bad) + Mishaps
    BY <2>9 DEF Counters, Outs
  <2> QED
    BY <2>4, <2>6, <2>8, <2>10
<1> QED
  BY <1>1, RunCounted, PTL

-------------------------------------------------------------------------------
(* The replay *)

Lines(s) == {s[i] : i \in DOMAIN s}

InOrder(s) == \A i, j \in DOMAIN s : i < j => Precedes(s[i], s[j])

LEMMA OneLine ==
  ASSUME NEW s, DOMAIN s = {1}
  PROVE  Lines(s) = {s[1]} /\ InOrder(s)
<1>1. \A i \in DOMAIN s : i = 1
  OBVIOUS
<1>2. InOrder(s)
  BY <1>1 DEF InOrder
<1>3. \A l : l \in Lines(s) <=> l = s[1]
  BY <1>1 DEF Lines
<1> QED
  BY <1>2, <1>3

LEMMA ConcatInOrder ==
  ASSUME NEW S, NEW s \in Seq(S), NEW t \in Seq(S), InOrder(s), InOrder(t),
         \A a \in Lines(s), b \in Lines(t) : Precedes(a, b)
  PROVE  /\ s \o t \in Seq(S) /\ InOrder(s \o t)
         /\ Lines(s \o t) = Lines(s) \cup Lines(t)
<1> DEFINE u == s \o t
           m == Len(s)
           n == Len(t)
<1>1. /\ u \in Seq(S) /\ Len(u) = m + n /\ m \in Nat /\ n \in Nat
      /\ DOMAIN s = 1 .. m /\ DOMAIN t = 1 .. n /\ DOMAIN u = 1 .. m + n
      /\ \A i \in 1 .. m : u[i] = s[i]
      /\ \A i \in 1 .. m + n : i > m => u[i] = t[i - m]
  BY ConcatProperties
<1> HIDE DEF u, m, n
<1>2. ASSUME NEW i \in DOMAIN u
      PROVE  \/ i \in 1 .. m /\ u[i] = s[i] /\ u[i] \in Lines(s)
             \/ i > m /\ i - m \in DOMAIN t /\ u[i] = t[i - m] /\ u[i] \in Lines(t)
  <2>1. CASE i <= m
    BY <1>1, <2>1 DEF Lines
  <2>2. CASE i > m
    <3>1. i - m \in DOMAIN t
      BY <1>1, <2>2
    <3> QED
      BY <1>1, <2>2, <3>1 DEF Lines
  <2> QED
    BY <1>1, <2>1, <2>2
<1>3. Lines(u) \subseteq Lines(s) \cup Lines(t)
  <2>1. \A i \in DOMAIN u : u[i] \in Lines(s) \cup Lines(t)
    BY <1>2
  <2> QED
    BY <2>1 DEF Lines
<1>4. Lines(s) \subseteq Lines(u)
  BY <1>1 DEF Lines
<1>5. Lines(t) \subseteq Lines(u)
  <2> SUFFICES ASSUME NEW j \in DOMAIN t PROVE t[j] \in Lines(u)
    BY DEF Lines
  <2>1. m + j \in DOMAIN u /\ m + j > m /\ m + j - m = j
    BY <1>1
  <2>2. u[m + j] = t[j]
    BY <1>1, <2>1
  <2> QED
    BY <2>1, <2>2 DEF Lines
<1>6. ASSUME NEW i \in DOMAIN u, NEW j \in DOMAIN u, i < j
      PROVE  Precedes(u[i], u[j])
  <2>1. CASE i \in 1 .. m /\ j \in 1 .. m
    BY <1>1, <1>6, <2>1 DEF InOrder
  <2>2. CASE i > m /\ j > m
    <3>1. i - m \in DOMAIN t /\ j - m \in DOMAIN t /\ i - m < j - m
      BY <1>1, <1>6, <2>2
    <3>2. u[i] = t[i - m] /\ u[j] = t[j - m]
      BY <1>1, <2>2
    <3> QED
      BY <3>1, <3>2 DEF InOrder
  <2>3. CASE i \in 1 .. m /\ j > m
    <3>1. u[i] \in Lines(s) /\ u[j] \in Lines(t)
      BY <1>1, <1>2, <2>3
    <3> QED
      BY <3>1
  <2> QED
    BY <1>1, <1>6, <2>1, <2>2, <2>3
<1> QED
  BY <1>1, <1>3, <1>4, <1>5, <1>6 DEF u, InOrder

LEMMA AppendInOrder ==
  ASSUME NEW S, NEW s \in Seq(S), NEW e \in S, InOrder(s), \A a \in Lines(s) : Precedes(a, e)
  PROVE  /\ Append(s, e) \in Seq(S) /\ InOrder(Append(s, e))
         /\ Lines(Append(s, e)) = Lines(s) \cup {e}
<1>1. /\ <<e>> \in Seq(S) /\ Append(s, e) = s \o <<e>>
      /\ DOMAIN <<e>> = {1} /\ <<e>>[1] = e
  OBVIOUS
<1>2. InOrder(<<e>>) /\ Lines(<<e>>) = {e}
  BY <1>1 DEF InOrder, Lines
<1> DEFINE t == <<e>>
<1> HIDE DEF t
<1>3. t \in Seq(S) /\ InOrder(t) /\ Lines(t) = {e} /\ Append(s, e) = s \o t
  BY <1>1, <1>2 DEF t
<1>4. \A a \in Lines(s), b \in Lines(t) : Precedes(a, b)
  BY <1>3
<1> QED
  BY <1>3, <1>4, ConcatInOrder

(* The lines that worker w contributes.                                    *)
LinesOf(w) == {l \in {w} \X Tests : l[2] \in seen[w] /\ Prints(l[2])}

LastLine(w) == IF Abnormal(status[w]) THEN {<<w, NIL>>} ELSE {}

(* A worker's file has a line for each test it has been through that       *)
(* prints one, in list order.                                              *)
LogInv(w) == Lines(log[w]) = LinesOf(w) /\ InOrder(log[w])

ReplayInv ==
  /\ Lines(stdout) = ReplayLines
  /\ InOrder(stdout)

LEMMA SameLines ==
  ASSUME RunInv, [Next]_vars, NEW v \in WorkerIds,
         seen'[v] = seen[v], \A t \in Mine(v) : outcome'[t] = outcome[t]
  PROVE  LinesOf(v)' = LinesOf(v)
<1>1. Tests' = Tests /\ separate' = separate
  BY StepsOfWorker, SameArgs
<1>2. seen[v] \subseteq Mine(v)
  BY DEF RunInv, WorkerInv
<1> QED
  BY <1>1, <1>2 DEF LinesOf, Prints, EndsWorker

LEMMA LogStep ==
  ASSUME RunInv, [Next]_vars, NEW v \in WorkerIds, CountersInv(v), LogInv(v)
  PROVE  LogInv(v)'
<1>0. TypeOK /\ WorkerInv(v)
  BY DEF RunInv
<1>1. ASSUME log'[v] = log[v], seen'[v] = seen[v], \A t \in Mine(v) : outcome'[t] = outcome[t]
      PROVE  LogInv(v)'
  BY <1>1, SameLines DEF LogInv, InOrder, Lines
<1>2. CASE Untouched(v)
  BY <1>1, <1>2 DEF Untouched
<1>3. CASE Forked(v)
  BY <1>1, <1>3 DEF Forked
<1>4. CASE Relink(v) \/ FreopenFails(v) \/ WriteStats(v) \/ WriteStatsFails(v) \/ Exit(v) \/ Kill(v)
  BY <1>1, <1>4 DEF Relink, FreopenFails, WriteStats, WriteStatsFails, Exit, Kill
<1>5. ASSUME NEW o \in Outcomes, NEW t \in Tests, t = cur[v], RunTest(v, o)
      PROVE  LogInv(v)'
  <2>1. /\ wpc[v] = "running" /\ t # NIL /\ t \in Mine(v) /\ t \in Tests
        /\ seen'[v] = seen[v] \cup {t} /\ outcome' = [outcome EXCEPT ![t] = o]
        /\ seen[v] \subseteq Mine(v) /\ Mine(v) \subseteq Tests
    BY <1>0, <1>5 DEF RunTest, WorkerInv, TypeOK, Mine
  <2>2. /\ Tests \subseteq Nat \ {NIL} /\ Tests' = Tests /\ separate' = separate
    BY <1>0, FiniteTests, StepsOfWorker, SameArgs
  <2>3. \A s \in seen[v] : s \in Nat /\ s < t
    BY <1>5, <2>1, <2>2 DEF CountersInv
  <2>4. outcome'[t] = o /\ \A s \in seen[v] : s # t /\ outcome'[s] = outcome[s]
    BY <1>0, <2>1, <2>2, <2>3 DEF TypeOK
  <2>5. log \in [WorkerIds -> Seq(Line)] /\ log[v] \in Seq(Line)
    BY <1>0 DEF TypeOK
  <2>6. LinesOf(v)' = LinesOf(v) \cup (IF o # "filtered" /\ ~ EndsWorker(o) THEN {<<v, t>>} ELSE {})
    <3>1. Prints(t)' <=> o # "filtered" /\ ~ EndsWorker(o)
      BY <2>2, <2>4 DEF Prints, EndsWorker
    <3>2. \A s \in seen[v] : Prints(s)' <=> Prints(s)
      BY <2>2, <2>4 DEF Prints, EndsWorker
    <3>3. LinesOf(v)' = {l \in {v} \X Tests : l[2] \in seen[v] \cup {t} /\ Prints(l[2])'}
      BY <2>1, <2>2 DEF LinesOf
    <3>4. \A s \in Tests : <<v, s>> \in LinesOf(v) <=> s \in seen[v] /\ Prints(s)
      BY DEF LinesOf
    <3>5. \A s \in Tests : <<v, s>> \in LinesOf(v)' <=> s \in seen[v] \cup {t} /\ Prints(s)'
      BY <3>3
    <3>6. LinesOf(v) \subseteq {v} \X Tests /\ LinesOf(v)' \subseteq {v} \X Tests
      BY <3>3 DEF LinesOf
    <3> DEFINE A == LinesOf(v)
               B == LinesOf(v)'
               C == IF o # "filtered" /\ ~ EndsWorker(o) THEN {<<v, t>>} ELSE {}
    <3>7. \A s \in Tests : <<v, s>> \in B <=> <<v, s>> \in A \cup C
      BY <2>1, <2>4, <3>1, <3>2, <3>4, <3>5
    <3>8. A \cup C \subseteq {v} \X Tests /\ B \subseteq {v} \X Tests
      BY <2>1, <3>6
    <3> HIDE DEF A, B, C
    <3>9. B = A \cup C
      BY <3>7, <3>8
    <3> QED
      BY <3>9 DEF A, B, C
  <2>7. CASE o = "filtered" \/ EndsWorker(o)
    <3>1. log'[v] = log[v]
      BY <1>0, <1>5, <2>5, <2>7 DEF RunTest
    <3>2. LinesOf(v)' = LinesOf(v)
      BY <2>6, <2>7
    <3> QED
      BY <3>1, <3>2 DEF LogInv, InOrder, Lines
  <2>8. CASE o # "filtered" /\ ~ EndsWorker(o)
    <3>1. log'[v] = Append(log[v], <<v, t>>)
      BY <1>0, <1>5, <2>5, <2>8 DEF RunTest
    <3>2. <<v, t>> \in Line
      BY <2>1 DEF Line
    <3>3. \A a \in LinesOf(v) : Precedes(a, <<v, t>>)
      BY <2>1, <2>2, <2>3 DEF LinesOf, Precedes
    <3>4. /\ InOrder(Append(log[v], <<v, t>>))
          /\ Lines(Append(log[v], <<v, t>>)) = LinesOf(v) \cup {<<v, t>>}
      <4> DEFINE s == log[v]
                 e == <<v, t>>
      <4> HIDE DEF s, e
      <4>1. s \in Seq(Line) /\ e \in Line /\ InOrder(s) /\ Lines(s) = LinesOf(v)
        BY <2>5, <3>2 DEF s, e, LogInv
      <4>2. \A a \in Lines(s) : Precedes(a, e)
        BY <3>3, <4>1 DEF e
      <4>3. InOrder(Append(s, e)) /\ Lines(Append(s, e)) = Lines(s) \cup {e}
        BY <4>1, <4>2, AppendInOrder
      <4> QED
        BY <4>1, <4>3 DEF s, e
    <3> QED
      BY <2>6, <2>8, <3>1, <3>4 DEF LogInv, InOrder, Lines
  <2> QED
    BY <2>7, <2>8
<1>6. ASSUME NEW o \in Outcomes, RunTest(v, o)
      PROVE  LogInv(v)'
  <2>1. cur[v] \in Tests
    BY <1>0, <1>6 DEF RunTest, TypeOK
  <2> QED
    BY <1>5, <1>6, <2>1
<1> QED
  BY <1>2, <1>3, <1>4, <1>6, StepsOfWorker DEF Worker

LEMMA ReplayOfWorkers ==
  ReplayLines = UNION {LinesOf(w) \cup LastLine(w) : w \in Collected}
<1> DEFINE A == {l \in Collected \X Tests : l[2] \in seen[l[1]] /\ Prints(l[2])}
           B == DiedAbnormally \X {NIL}
<1>1. A = UNION {LinesOf(w) : w \in Collected}
  BY DEF LinesOf
<1>2. B = UNION {LastLine(w) : w \in Collected}
  BY DEF LastLine, DiedAbnormally
<1>3. ReplayLines = A \cup B
  BY DEF ReplayLines
<1> HIDE DEF A, B
<1> QED
  BY <1>1, <1>2, <1>3

LEMMA ReplayOfWorkersNext ==
  ReplayLines' = UNION {LinesOf(w)' \cup LastLine(w)' : w \in Collected'}
<1>1. (ReplayLines = UNION {LinesOf(w) \cup LastLine(w) : w \in Collected})'
  BY ReplayOfWorkers, PTL
<1> QED
  BY <1>1

LEMMA CollectedKept ==
  ASSUME RunInv, [Next]_vars, NEW v \in Collected
  PROVE  LinesOf(v)' = LinesOf(v) /\ LastLine(v)' = LastLine(v)
<1>1. v \in WorkerIds /\ Untouched(v)
  BY CollectedUntouched DEF Collected
<1>2. LinesOf(v)' = LinesOf(v)
  BY <1>1, SameLines DEF Untouched
<1>3. LastLine(v)' = LastLine(v)
  BY <1>1 DEF LastLine, Untouched, Abnormal
<1> QED
  BY <1>2, <1>3

LEMMA ReplayKept ==
  ASSUME RunInv, [Next]_vars, ReplayInv, stdout' = stdout, Collected' = Collected
  PROVE  ReplayInv'
<1>1. {LinesOf(w)' \cup LastLine(w)' : w \in Collected} = {LinesOf(w) \cup LastLine(w) : w \in Collected}
  BY CollectedKept
<1>2. ReplayLines' = ReplayLines
  BY <1>1, ReplayOfWorkers, ReplayOfWorkersNext
<1> QED
  BY <1>2 DEF ReplayInv, Lines, InOrder

(* The parent goes on past worker pw.                                      *)
LEMMA ReplayGrows ==
  ASSUME RunInv, [Next]_vars, Collected' = Collected \cup {pw},
         UNCHANGED <<seen, status, outcome>>, pw \in WorkerIds
  PROVE  ReplayLines' = ReplayLines \cup LinesOf(pw) \cup LastLine(pw)
<1>1. Tests' = Tests /\ separate' = separate
  BY StepsOfWorker, SameArgs
<1>2. \A w \in WorkerIds : LinesOf(w)' = LinesOf(w) /\ LastLine(w)' = LastLine(w)
  BY <1>1 DEF LinesOf, LastLine, Prints, EndsWorker, Abnormal
<1>3. Collected \cup {pw} \subseteq WorkerIds
  BY DEF Collected
<1> DEFINE b(w) == LinesOf(w) \cup LastLine(w)
<1>4. ReplayLines' = UNION {b(w) : w \in Collected \cup {pw}}
  <2>1. {LinesOf(w)' \cup LastLine(w)' : w \in Collected \cup {pw}} = {b(w) : w \in Collected \cup {pw}}
    BY <1>2, <1>3
  <2> QED
    BY <2>1, ReplayOfWorkersNext
<1>5. ReplayLines = UNION {b(w) : w \in Collected}
  BY ReplayOfWorkers
<1>6. UNION {b(w) : w \in Collected \cup {pw}} = (UNION {b(w) : w \in Collected}) \cup b(pw)
  OBVIOUS
<1> QED
  BY <1>4, <1>5, <1>6

LEMMA ReplayStep ==
  ASSUME RunInv, \A w \in WorkerIds : CountersInv(w) /\ LogInv(w), ReplayInv,
         "reap" \notin Faults, [Next]_vars
  PROVE  ReplayInv'
<1>0. /\ stdout \in Seq(Line) /\ log \in [WorkerIds -> Seq(Line)]
  BY DEF RunInv, TypeOK
<1>1. ASSUME ~ (Collect \/ SkipUnforked)
      PROVE  ReplayInv'
  <2>1. stdout' = stdout
    BY <1>1 DEF Next, Parent, StartEmpty, StartNoDir, Start, Fork, ForkFails, Summarise, Worker,
                Relink, FreopenFails, RunTest, WriteStats, WriteStatsFails, Exit, Kill, parentVars,
                Terminated, vars
  <2> QED
    BY <1>1, <2>1, CollectedStep, ReplayKept
<1>2. ASSUME Collect \/ SkipUnforked
      PROVE  /\ ReplayLines' = ReplayLines \cup LinesOf(pw) \cup LastLine(pw)
             /\ pw \in WorkerIds /\ pw \in Nat
             /\ \A l \in ReplayLines : l[1] < pw
  <2>1. /\ pw \in WorkerIds /\ \A w \in Collected : w < pw
        /\ ReplayLines' = ReplayLines \cup LinesOf(pw) \cup LastLine(pw)
    BY <1>2, CollectedStep, ReplayGrows
  <2>2. \A l \in ReplayLines : l[1] \in Collected
    BY DEF ReplayLines, DiedAbnormally
  <2> QED
    BY <2>1, <2>2 DEF WorkerIds
<1>3. CASE SkipUnforked
  <2>1. wpc[pw] = "nofork" /\ stdout' = stdout
    BY <1>3 DEF SkipUnforked
  <2>2. seen[pw] = {} /\ status[pw] = "none"
    BY <1>2, <1>3, <2>1 DEF RunInv, WorkerInv, CountersInv
  <2>3. LinesOf(pw) = {} /\ LastLine(pw) = {}
    BY <2>2 DEF LinesOf, LastLine, Abnormal
  <2> QED
    BY <1>2, <1>3, <2>1, <2>3 DEF ReplayInv, Lines, InOrder
<1>4. CASE Collect
  <2> DEFINE tail == IF Abnormal(status[pw]) THEN <<<<pw, NIL>>>> ELSE <<>>
             body == log[pw]
             both == stdout \o body
  <2>1. stdout' = both \o tail
    BY <1>4 DEF Collect, CollectWorker, SeenStatuses
  <2>2. /\ body \in Seq(Line) /\ InOrder(body) /\ Lines(body) = LinesOf(pw)
        /\ InOrder(stdout) /\ Lines(stdout) = ReplayLines
    BY <1>0, <1>2, <1>4 DEF LogInv, ReplayInv
  <2>3. tail \in Seq(Line) /\ InOrder(tail) /\ Lines(tail) = LastLine(pw)
    <3>1. CASE Abnormal(status[pw])
      <4>1. tail = <<<<pw, NIL>>>> /\ <<pw, NIL>> \in Line
        BY <1>2, <1>4, <3>1 DEF Line
      <4>2. tail \in Seq(Line) /\ DOMAIN tail = {1} /\ tail[1] = <<pw, NIL>>
        BY <4>1
      <4> HIDE DEF tail
      <4>3. Lines(tail) = {<<pw, NIL>>} /\ InOrder(tail)
        BY <4>2, OneLine
      <4> QED
        BY <3>1, <4>2, <4>3 DEF LastLine
    <3>2. CASE ~ Abnormal(status[pw])
      <4>1. tail = <<>> /\ tail \in Seq(Line) /\ DOMAIN tail = {}
        BY <3>2
      <4> HIDE DEF tail
      <4> QED
        BY <3>2, <4>1 DEF LastLine, Lines, InOrder
    <3> QED
      BY <3>1, <3>2
  <2> HIDE DEF tail, body, both
  <2>4. \A a \in Lines(stdout), b \in Lines(body) : Precedes(a, b)
    <3>1. \A b \in LinesOf(pw) : b[1] = pw
      BY DEF LinesOf
    <3> QED
      BY <1>2, <1>4, <2>2, <3>1 DEF Precedes
  <2>5. both \in Seq(Line) /\ InOrder(both) /\ Lines(both) = ReplayLines \cup LinesOf(pw)
    BY <1>0, <2>2, <2>4, ConcatInOrder DEF both
  <2>6. \A a \in Lines(both), b \in Lines(tail) : Precedes(a, b)
    <3>1. \A b \in LastLine(pw) : b[1] = pw /\ b[2] = NIL
      BY DEF LastLine
    <3>2. \A a \in LinesOf(pw) : a[1] = pw /\ a[2] # NIL
      BY FiniteTests DEF LinesOf, RunInv
    <3>3. \A b \in Lines(tail) : b[1] = pw /\ b[2] = NIL
      BY <2>3, <3>1
    <3>4. \A a \in ReplayLines, b \in Lines(tail) : Precedes(a, b)
      BY <1>2, <1>4, <3>3 DEF Precedes
    <3>5. \A a \in LinesOf(pw), b \in Lines(tail) : Precedes(a, b)
      BY <3>2, <3>3 DEF Precedes
    <3> QED
      BY <2>5, <3>4, <3>5
  <2>7. InOrder(stdout') /\ Lines(stdout') = Lines(both) \cup Lines(tail)
    <3>1. /\ InOrder(both \o tail)
          /\ Lines(both \o tail) = Lines(both) \cup Lines(tail)
      BY <2>3, <2>5, <2>6, ConcatInOrder
    <3> QED
      BY <2>1, <3>1 DEF InOrder, Lines
  <2> QED
    BY <1>2, <1>4, <2>3, <2>5, <2>7 DEF ReplayInv, Lines, InOrder
<1> QED
  BY <1>1, <1>3, <1>4

LEMMA ReplayInit ==
  ASSUME Init
  PROVE  ReplayInv /\ \A w \in WorkerIds : LogInv(w)
<1>1. /\ stdout = <<>> /\ ppc = "start" /\ seen = [w \in WorkerIds |-> {}]
      /\ log = [w \in WorkerIds |-> <<>>]
  BY DEF Init
<1>2. Collected = {} /\ DiedAbnormally = {}
  BY <1>1 DEF Collected, DiedAbnormally
<1>3. ReplayLines = {} /\ \A w \in WorkerIds : LinesOf(w) = {}
  BY <1>1, <1>2 DEF ReplayLines, LinesOf
<1>4. Lines(<<>>) = {} /\ InOrder(<<>>)
  BY DEF Lines, InOrder
<1> QED
  BY <1>1, <1>3, <1>4 DEF ReplayInv, LogInv

(* cu_run_parallel (fork.c 209-244): whatever the workers did meanwhile,   *)
(* the output is replayed worker by worker, each in list order.            *)
THEOREM ReplayDeterministic ==
  ASSUME "reap" \notin Faults
  PROVE  Spec => []ReplayInWorkerOrder
<1> DEFINE AllCounted == \A w \in WorkerIds : CountersInv(w)
           AllLogged == \A w \in WorkerIds : LogInv(w)
<1>1. Init => ReplayInv /\ AllLogged
  BY ReplayInit
<1>2. RunInv /\ AllCounted /\ ReplayInv /\ AllLogged /\ [Next]_vars => ReplayInv' /\ AllLogged'
  BY LogStep, ReplayStep DEF WorkerIds
<1>3. Spec => [](RunInv /\ AllCounted /\ TotalsInv)
  BY RunCounted
<1>4. ReplayInv => ReplayInWorkerOrder
  BY DEF ReplayInv, ReplayInWorkerOrder, Lines, InOrder
<1> HIDE DEF AllCounted, AllLogged
<1> QED
  BY <1>1, <1>2, <1>3, <1>4, PTL DEF Spec

-------------------------------------------------------------------------------
(* The promise of a run *)

(* When the parent is done, its verdict is green exactly when the promise  *)
(* says so.                                                                *)
LEMMA VerdictIsGreen ==
  ASSUME Visible, RunInv, \A w \in WorkerIds : CountersInv(w), TotalsInv, ppc = "done"
  PROVE  ~ IsFailure(total) <=> Promise!Green
<1> DEFINE N(S) == Cardinality({t \in Counted : outcome[t] \in S})
<1>1. /\ \A t \in Counted : outcome[t] \in Outcomes
      /\ Counted \subseteq Tests /\ IsFiniteSet(Counted)
  <2>1. Counted \subseteq Tests /\ IsFiniteSet(Tests)
    BY FiniteTests DEF RunInv, TypeOK, Counted
  <2> QED
    BY <2>1, FS_Subset DEF Counted, CountersInv, RunInv, TypeOK
<1>2. Mishaps \in Nat
  BY MishapSets DEF RunInv
<1>3. /\ total.run = N(Executed) /\ total.ignored = N({"ignored"})
      /\ total.failures = N(Bad) + Mishaps
      /\ \A S : N(S) \in Nat
  <2>1. \A c \in Counters : CountIn(outcome, Counted, c) = N(Outs[c])
    BY DEF CountIn
  <2>2. \A S : N(S) \in Nat
    BY <1>1, FS_Subset, FS_CardinalityType
  <2> HIDE DEF N
  <2>3. \A c \in Counters : total[c] = N(Outs[c]) + IF c = "failures" THEN Mishaps ELSE 0
    BY <2>1 DEF TotalsInv
  <2>4. /\ total.run = N(Executed) + 0 /\ total.ignored = N({"ignored"}) + 0
        /\ total.failures = N(Bad) + Mishaps
    BY <2>3 DEF Counters, Outs
  <2> QED
    BY <2>2, <2>4
<1>4. ASSUME NEW S
      PROVE  N(S) = 0 <=> \A t \in Counted : outcome[t] \notin S
  <2>1. IsFiniteSet({t \in Counted : outcome[t] \in S})
    BY <1>1, FS_Subset
  <2> QED
    BY <2>1, FS_EmptySet
<1> HIDE DEF N
<1>5. ~ IsFailure(total) <=> /\ N(Bad) = 0 /\ Mishaps = 0
                             /\ N(Executed) # 0 \/ N({"ignored"}) # 0
  BY <1>2, <1>3 DEF IsFailure
<1>6. ASSUME ~ IsFailure(total)
      PROVE  Promise!Green
  <2>1. Counted = Tests /\ \A t \in Tests : outcome[t] \notin Bad
    BY <1>6, GreenFromInv DEF GreenMeansAll
  <2>2. PICK t \in Counted : outcome[t] \in Executed \cup {"ignored"}
    BY <1>4, <1>5, <1>6
  <2>3. outcome[t] \in Outcomes \ {"filtered"}
    BY <1>1, <2>2 DEF Executed
  <2>4. ~ (Mishaps > 0)
    BY <1>5, <1>6
  <2> QED
    BY <2>1, <2>3, <2>4 DEF Promise!Green
<1>7. ASSUME Promise!Green
      PROVE  ~ IsFailure(total)
  <2>1. Counted = Tests /\ \A t \in Counted : outcome[t] \notin Bad
    BY <1>1, <1>7 DEF Promise!Green
  <2>2. N(Bad) = 0
    BY <1>4, <2>1
  <2>3. Mishaps = 0
    BY <1>2, <1>7 DEF Promise!Green
  <2>4. PICK t \in Tests : outcome[t] \in Outcomes \ {"filtered"}
    BY <1>7 DEF Promise!Green
  <2>5. outcome[t] \in Executed \/ outcome[t] \in {"ignored"}
    BY <2>4, ParallelAssumption
  <2>6. N(Executed) # 0 \/ N({"ignored"}) # 0
    BY <1>4, <2>1, <2>4, <2>5
  <2> QED
    BY <1>5, <2>2, <2>3, <2>6
<1> QED
  BY <1>6, <1>7

LEMMA VerdictIsGreenNext ==
  ASSUME Visible
  PROVE  RunInv' /\ (\A w \in WorkerIds : CountersInv(w))' /\ TotalsInv' /\ ppc' = "done"
           => (~ IsFailure(total') <=> Promise!Green')
<1> DEFINE AllCounted == \A w \in WorkerIds : CountersInv(w)
           Done == ppc = "done"
           Passed == ~ IsFailure(total)
<1>1. RunInv /\ AllCounted /\ TotalsInv /\ Done => (Passed <=> Promise!Green)
  BY VerdictIsGreen
<1>2. Passed' <=> ~ IsFailure(total')
  BY DEF IsFailure
<1> HIDE DEF AllCounted, Passed, Done
<1>3. RunInv' /\ AllCounted' /\ TotalsInv' /\ Done' => (Passed' <=> Promise!Green')
  BY <1>1, PTL
<1> QED
  BY <1>2, <1>3 DEF AllCounted, Done

(* A step that is no news to a reader of the verdict.                      *)
LEMMA StutterOfPromise ==
  ASSUME UNCHANGED <<args, outcome, total>>, Counted' = Counted, Mishaps' = Mishaps,
         ppc' = ppc \/ (ppc # "done" /\ ppc' # "done")
  PROVE  UNCHANGED Promise!vars
<1>1. Tests' = Tests
  BY SameArgs
<1>2. Verdict' = Verdict
  BY DEF Verdict, IsFailure
<1> QED
  BY <1>1, <1>2 DEF Promise!vars

LEMMA MishapsStay ==
  ASSUME NEW a \in Nat, NEW b, b = a \/ b = a + 1
  PROVE  (b > 0) \in {a > 0, TRUE}
<1>1. CASE b = a
  BY <1>1
<1>2. CASE b = a + 1
  <2>1. b > 0
    BY <1>2
  <2>2. (b > 0) = TRUE
    BY <2>1
  <2> QED
    BY <2>2
<1> QED
  BY <1>1, <1>2

(* Results reach the totals, perhaps with a mishap.                        *)
LEMMA AccountOfPromise ==
  ASSUME UNCHANGED <<args, outcome>>, ppc # "done", ppc' # "done",
         NEW S \in SUBSET Tests, \A t \in S : outcome[t] # "none", Counted' = Counted \cup S,
         Mishaps \in Nat, Mishaps' = Mishaps \/ Mishaps' = Mishaps + 1
  PROVE  Promise!Next
<1>1. Tests' = Tests /\ Verdict = "none" /\ Verdict' = "none"
  BY SameArgs DEF Verdict
<1>2. (Mishaps' > 0) \in {Mishaps > 0, TRUE}
  BY MishapsStay
<1>3. Promise!Account(S)
  BY <1>1, <1>2 DEF Promise!Account
<1> QED
  BY <1>3 DEF Promise!Next

(* The parent is done: the verdict follows from the totals.                *)
LEMMA DecideOfPromise ==
  ASSUME Visible, UNCHANGED <<args, outcome>>, ppc # "done", ppc' = "done",
         RunInv', \A w \in WorkerIds : CountersInv(w)', TotalsInv',
         Counted' = Counted, Mishaps \in Nat, Mishaps' = Mishaps \/ Mishaps' = Mishaps + 1
  PROVE  Promise!Next
<1>1. Tests' = Tests /\ Verdict = "none"
  BY SameArgs DEF Verdict
<1>2. (Mishaps' > 0) \in {Mishaps > 0, TRUE}
  BY MishapsStay
<1>3. ~ IsFailure(total') <=> Promise!Green'
  BY VerdictIsGreenNext DEF WorkerIds
<1>4. Verdict' = IF Promise!Green' THEN "green" ELSE "red"
  BY <1>3 DEF Verdict, IsFailure
<1>5. Promise!Decide
  BY <1>1, <1>2, <1>4 DEF Promise!Decide
<1> QED
  BY <1>5 DEF Promise!Next

(* While a worker lives the parent is not done.                            *)
LEMMA DoneIsLast ==
  ASSUME RunInv, NEW w \in WorkerIds, wpc[w] = "running"
  PROVE  ppc # "done"
<1> SUFFICES ASSUME ppc = "done" PROVE FALSE
  OBVIOUS
<1>1. TypeOK /\ ForkOrder /\ CollectInv(w) /\ wpc[w] # "unforked"
  BY DEF RunInv
<1>2. pw = NWorkers /\ ~ (w >= NWorkers)
  BY <1>1 DEF ForkOrder
<1>3. w < NWorkers
  BY <1>1, <1>2, WorkersOfRun DEF TypeOK, WorkerIds
<1>4. w \in Collected
  BY <1>2, <1>3 DEF Collected
<1> QED
  BY <1>1, <1>4 DEF CollectInv

LEMMA PromiseStep ==
  ASSUME Visible, RunInv, \A w \in WorkerIds : CountersInv(w), TotalsInv, [Next]_vars,
         RunInv', \A w \in WorkerIds : CountersInv(w)', TotalsInv'
  PROVE  [Promise!Next]_(Promise!vars)
<1>0. /\ TypeOK /\ "reap" \notin Faults /\ Mishaps \in Nat
      /\ "none" \notin Outcomes
  BY MishapSets, ParallelAssumption DEF RunInv, Visible, Executed
<1>1. ASSUME Quiet, UNCHANGED <<taken, total>>
      PROVE  Counted' = Counted /\ Mishaps' = Mishaps
  BY <1>1, MishapsStep, QuietStep
<1>2. CASE StartEmpty \/ Summarise
  <2>1. Counted' = Counted /\ Mishaps' = Mishaps
    BY <1>1, <1>2 DEF Quiet, StartEmpty, Summarise
  <2>2. UNCHANGED <<args, outcome>> /\ ppc # "done" /\ ppc' = "done"
    BY <1>2 DEF StartEmpty, Summarise
  <2> QED
    BY <1>0, <2>1, <2>2, DecideOfPromise
<1>3. CASE StartNoDir \/ ForkFails
  <2>1. Mishaps' = Mishaps + 1
    BY <1>3, MishapsStep
  <2>2. Counted' = Counted /\ UNCHANGED <<args, outcome>> /\ ppc # "done"
    <3>1. taken' = taken /\ total' = Plus(total, OneFailure)
      BY <1>3 DEF StartNoDir, ForkFails
    <3> QED
      BY <1>3, <2>1, <3>1, OneMore DEF StartNoDir, ForkFails
  <2>3. CASE ppc' = "done"
    BY <1>0, <2>1, <2>2, <2>3, DecideOfPromise
  <2>4. CASE ppc' # "done"
    <3>1. Counted' = Counted \cup {} /\ {} \in SUBSET Tests
      BY <2>2
    <3> QED
      BY <1>0, <2>1, <2>2, <2>4, <3>1, AccountOfPromise
  <2> QED
    BY <2>3, <2>4
<1>4. CASE Collect
  <2> DEFINE S == IF stats[pw] = "full" THEN seen[pw] ELSE {}
  <2>1. /\ pw \in WorkerIds /\ Counted' = Counted \cup S
        /\ Mishaps' = Mishaps \/ Mishaps' = Mishaps + 1
    BY <1>0, <1>4, CollectTotals
  <2>2. /\ UNCHANGED <<args, outcome>> /\ ppc # "done" /\ ppc' # "done"
    BY <1>4 DEF Collect, CollectWorker, Collecting, NextCollect
  <2>3. S \in SUBSET Tests /\ \A t \in S : outcome[t] # "none"
    BY <1>0, <2>1 DEF CountersInv, TypeOK
  <2> HIDE DEF S
  <2> QED
    BY <1>0, <2>1, <2>2, <2>3, AccountOfPromise
<1>5. CASE Start \/ Fork \/ SkipUnforked
  <2>1. /\ UNCHANGED <<args, outcome, total, taken>>
        /\ ppc # "done" /\ ppc' # "done"
    BY <1>5 DEF Start, Fork, NextFork, SkipUnforked, Collecting, NextCollect, workerVars
  <2>2. Counted' = Counted /\ Mishaps' = Mishaps
    BY <1>1, <1>5, <2>1 DEF Quiet
  <2> QED
    BY <2>1, <2>2, StutterOfPromise
<1>6. ASSUME NEW w \in WorkerIds, NEW o \in Outcomes, RunTest(w, o)
      PROVE  Promise!Next
  <2>1. UNCHANGED <<args, parentVars>> /\ wpc[w] = "running" /\ cur[w] # NIL
    BY <1>6 DEF RunTest
  <2>2. Counted' = Counted /\ Mishaps' = Mishaps
    BY <1>1, <1>6, <2>1 DEF Quiet, Worker, parentVars
  <2>3. ppc # "done" /\ ppc' = ppc
    BY <2>1, DoneIsLast DEF parentVars
  <2>4. cur[w] \in Tests /\ outcome[cur[w]] = "none"
    <3>1. cur[w] \in Mine(w) /\ \A t \in seen[w] : t < cur[w]
      BY <2>1 DEF RunInv, WorkerInv, CountersInv
    <3>2. cur[w] \in Tests /\ cur[w] \notin seen[w]
      BY <1>0, <3>1, FiniteTests DEF Mine
    <3> QED
      BY <3>1, <3>2 DEF CountersInv
  <2>5. outcome' = [outcome EXCEPT ![cur[w]] = o]
    BY <1>6 DEF RunTest
  <2>6. Verdict = "none" /\ Verdict' = "none" /\ Tests' = Tests
    BY <2>1, <2>3, SameArgs DEF Verdict
  <2>7. Promise!RunTest(cur[w], o)
    BY <2>2, <2>4, <2>5, <2>6 DEF Promise!RunTest
  <2> QED
    BY <2>4, <2>7 DEF Promise!Next
<1>7. ASSUME NEW w \in WorkerIds,
             Relink(w) \/ FreopenFails(w) \/ WriteStats(w) \/ WriteStatsFails(w) \/ Exit(w) \/ Kill(w)
      PROVE  UNCHANGED Promise!vars
  <2>1. UNCHANGED <<args, outcome, parentVars>>
    BY <1>7 DEF Relink, FreopenFails, WriteStats, WriteStatsFails, Exit, Kill
  <2>2. Counted' = Counted /\ Mishaps' = Mishaps
    BY <1>1, <1>7, <2>1 DEF Quiet, Worker, parentVars
  <2> QED
    BY <2>1, <2>2, StutterOfPromise DEF parentVars
<1>8. CASE UNCHANGED vars
  <2>1. Counted' = Counted /\ Mishaps' = Mishaps
    BY <1>1, <1>8 DEF Quiet, vars, parentVars
  <2> QED
    BY <1>8, <2>1, StutterOfPromise DEF vars, parentVars
<1> QED
  BY <1>2, <1>3, <1>4, <1>5, <1>6, <1>7, <1>8 DEF Next, Parent, Worker, Terminated

(* A run of any registry on any number of workers, whatever happens to     *)
(* them, keeps the promise of a run: each test is run at most once, counted *)
(* after it ran, and the verdict is green exactly when every registered    *)
(* test was counted, none went wrong, one at least was selected and no     *)
(* worker was lost (fork.c 129-257, runner.c 93-106).  The hypothesis:     *)
(* the end of a worker tells the parent whether its counters were left.    *)
THEOREM ParallelKeepsPromise ==
  ASSUME Visible
  PROVE  Spec => KeepsPromise
<1> DEFINE AllCounted == \A w \in WorkerIds : CountersInv(w)
<1>1. Init => Promise!Init
  <2> SUFFICES ASSUME Init PROVE Promise!Init
    OBVIOUS
  <2>1. /\ taken = {} /\ ppc = "start" /\ wpc = [w \in WorkerIds |-> "unforked"]
        /\ outcome = [t \in Tests |-> "none"]
    BY DEF Init
  <2>2. Counted = {} /\ Collected = {} /\ DiedAbnormally = {} /\ Unforked = {} /\ ~ NoDir
    BY <2>1 DEF Counted, Collected, DiedAbnormally, Unforked, NoDir
  <2>3. Mishaps = 0
    BY <2>2, FS_EmptySet DEF Mishaps
  <2> QED
    BY <2>1, <2>2, <2>3 DEF Promise!Init, Verdict
<1>2. RunInv /\ AllCounted /\ TotalsInv /\ [Next]_vars /\ RunInv' /\ AllCounted' /\ TotalsInv'
        => [Promise!Next]_(Promise!vars)
  <2> SUFFICES ASSUME RunInv, AllCounted, TotalsInv, [Next]_vars, RunInv', AllCounted', TotalsInv'
               PROVE  [Promise!Next]_(Promise!vars)
    OBVIOUS
  <2>1. \A w \in WorkerIds : CountersInv(w)'
    BY DEF WorkerIds
  <2> QED
    BY <2>1, PromiseStep
<1>3. Spec => [](RunInv /\ AllCounted /\ TotalsInv)
  BY RunCounted DEF Visible
<1> HIDE DEF AllCounted
<1> QED
  BY <1>1, <1>2, <1>3, PTL DEF Spec, KeepsPromise, Promise!Spec

================================================================================
