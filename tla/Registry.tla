------------------------------- MODULE Registry -------------------------------
(***************************************************************************)
(* The registered tests (src/src/core/registry.c): one chain of next       *)
(* pointers, built by the test installers in the order of the program's    *)
(* initialisers, into which TEST_ORDERED (OrderedTest.h) threads a second  *)
(* chain by level, and which -b and -s put into another order before and   *)
(* between the runs.                                                       *)
(***************************************************************************)
EXTENDS Naturals, SequencesExt, FiniteSetsExt

CONSTANTS
  Tests,       \* the tests of the program
  NIL,
  Levels,      \* levels of ordered tests
  MaxShuffles  \* bound: repetitions under -s

ASSUME RegistryAssumption ==
  /\ IsFiniteSet(Tests) /\ NIL \notin Tests
  /\ Levels \subseteq Nat \ {0} /\ MaxShuffles \in Nat

Pointers == Tests \cup {NIL}

(* What the level of a test is that is not an ordered one.                 *)
Plain == 0

VARIABLES
  tests_head,
  next,              \* next of each test
  orderedTestHead,
  nextOrderedTest,   \* _nextOrderedTest of each ordered test
  level,             \* its level, or Plain
  status,
  shuffles,
  installed          \* history: the tests in the order they were installed

list == <<tests_head, next>>
ordered == <<orderedTestHead, nextOrderedTest>>
vars == <<list, ordered, level, status, shuffles, installed>>

TypeOK ==
  /\ tests_head \in Pointers /\ next \in [Tests -> Pointers]
  /\ orderedTestHead \in Pointers /\ nextOrderedTest \in [Tests -> Pointers]
  /\ level \in [Tests -> Levels \cup {Plain}]
  /\ status \in {"installing", "running", "crashed"}
  /\ shuffles \in 0 .. MaxShuffles
  /\ installed \in Seq(Tests)

Init ==
  /\ tests_head = NIL /\ next = [t \in Tests |-> NIL]
  /\ orderedTestHead = NIL /\ nextOrderedTest = [t \in Tests |-> NIL]
  /\ level = [t \in Tests |-> Plain]
  /\ status = "installing" /\ shuffles = 0 /\ installed = <<>>

(* The pointer reached from p after k steps along f.                       *)
Reached(f, p) ==
  LET at[k \in Nat] == IF k = 0 THEN p
                       ELSE IF at[k - 1] = NIL THEN NIL ELSE f[at[k - 1]]
  IN  at

(* The tests on the chain from p along f, as far as there are tests.       *)
Chain(f, p) ==
  LET most == [k \in 1 .. Cardinality(Tests) |-> Reached(f, p)[k - 1]]
  IN  SubSeq(most, 1, Cardinality({k \in DOMAIN most : most[k] # NIL}))

Fresh(t) == status = "installing" /\ ~Contains(installed, t)

-------------------------------------------------------------------------------
(* Installing *)

(* cu_registry_add *)
Prepend(t) == next' = [next EXCEPT ![t] = tests_head] /\ tests_head' = t

(* TestInstaller *)
Install(t) ==
  /\ Fresh(t)
  /\ Prepend(t)
  /\ installed' = Append(installed, t)
  /\ UNCHANGED <<ordered, level, status, shuffles>>

(* unDo of the installer that came last.                                   *)
UndoLastAdd ==
  /\ status = "installing" /\ installed # <<>>
  /\ tests_head = Last(installed) /\ level[tests_head] = Plain
  /\ tests_head' = next[tests_head]
  /\ installed' = Front(installed)
  /\ UNCHANGED <<next, ordered, level, status, shuffles>>

(* getTestWithNext compares with the address of a member: for the NULL     *)
(* that stands for no ordered test it finds none.                          *)
TestsWithNext(p) == {t \in ToSet(Chain(next, tests_head)) : p # NIL /\ next[t] = p}

(* addOrderedTestToHead: in front of the ordered tests.  Where nothing     *)
(* points to them it calls addTest on a null pointer.                      *)
AddToHead(t) ==
  /\ IF tests_head \in {NIL, orderedTestHead}
     THEN Prepend(t) /\ UNCHANGED status
     ELSE IF TestsWithNext(orderedTestHead) = {}
     THEN status' = "crashed" /\ UNCHANGED list
     ELSE /\ next' = [next EXCEPT ![CHOOSE b \in TestsWithNext(orderedTestHead) : TRUE] = t,
                                  ![t] = orderedTestHead]
          /\ UNCHANGED <<tests_head, status>>
  /\ nextOrderedTest' = [nextOrderedTest EXCEPT ![t] = orderedTestHead]
  /\ orderedTestHead' = t

(* Mutant: a test goes in front of those of its own level.                 *)
BehindOfLower(c, l) == nextOrderedTest[c] = NIL \/ level[nextOrderedTest[c]] >= l

Behind(c, l) == nextOrderedTest[c] = NIL \/ level[nextOrderedTest[c]] > l

(* addOrderedTestInOrderNotAtHeadPosition: behind the first such test.     *)
AddBehind(t, l) ==
  LET chain == Chain(nextOrderedTest, orderedTestHead)
      c == chain[Min({i \in DOMAIN chain : Behind(chain[i], l)})]
  IN  /\ next' = [next EXCEPT ![t] = nextOrderedTest[c], ![c] = t]
      /\ nextOrderedTest' = [nextOrderedTest EXCEPT ![t] = nextOrderedTest[c], ![c] = t]
      /\ UNCHANGED <<tests_head, orderedTestHead, status>>

(* OrderedTestInstaller *)
InstallOrdered(t, l) ==
  /\ Fresh(t)
  /\ level' = [level EXCEPT ![t] = l]
  /\ IF orderedTestHead = NIL THEN AddToHead(t)
     ELSE IF l < level[orderedTestHead] THEN AddToHead(t)
     ELSE AddBehind(t, l)
  /\ installed' = Append(installed, t)
  /\ UNCHANGED shuffles

-------------------------------------------------------------------------------
(* Running *)

(* relink_in_order *)
Relink(array) ==
  /\ tests_head' = IF array = <<>> THEN NIL ELSE Head(array)
  /\ next' = [t \in Tests |->
       IF \E i \in DOMAIN array : array[i] = t
       THEN (Append(array, NIL))[1 + CHOOSE i \in DOMAIN array : array[i] = t]
       ELSE next[t]]

(* registry_to_array *)
Registered == Chain(next, tests_head)

Begin ==
  /\ status = "installing"
  /\ status' = "running"
  /\ UNCHANGED <<list, ordered, level, shuffles, installed>>

(* -b: cu_registry_reverse, once before the runs.                          *)
BeginReversed ==
  /\ status = "installing"
  /\ status' = "running"
  /\ Relink(Reverse(Registered))
  /\ UNCHANGED <<ordered, level, shuffles, installed>>

Swapped(array, i, j) == [array EXCEPT ![i] = array[j], ![j] = array[i]]

(* Fisher-Yates from the last place, with pick[i] for what rand gives for  *)
(* the i-th one.                                                           *)
Shuffled(array, pick) ==
  LET after[k \in 0 .. Len(array)] ==
        IF k = 0 THEN array
        ELSE LET i == Len(array) + 1 - k IN Swapped(after[k - 1], i, pick[i])
  IN  after[Len(array)]

(* -s: before each run, from the order of the last one.                    *)
Shuffle ==
  /\ status = "running" /\ shuffles < MaxShuffles
  /\ \E pick \in [DOMAIN Registered -> DOMAIN Registered] :
       /\ \A i \in DOMAIN pick : pick[i] <= i
       /\ Relink(Shuffled(Registered, pick))
  /\ shuffles' = shuffles + 1
  /\ UNCHANGED <<ordered, level, status, installed>>

-------------------------------------------------------------------------------
(* Properties *)

When(t) == CHOOSE i \in DOMAIN installed : installed[i] = t

InOrder(a, b) ==
  CASE level[a] = Plain -> level[b] # Plain \/ When(a) > When(b)
    [] level[b] = Plain -> level[a] = Plain
    [] OTHER -> level[a] < level[b] \/ (level[a] = level[b] /\ When(a) < When(b))

(* However tests are installed, taken back, threaded in and reordered, the *)
(* chain that a run follows holds every test once and comes to an end; and *)
(* until -b or -s the ordered tests are its last, in ascending order of    *)
(* level and in the order of the source within one, the plain ones before. *)
ListKept ==
  /\ status # "crashed" =>
       /\ Len(Registered) = Len(installed)
       /\ ToSet(Registered) = ToSet(installed)
  /\ status = "installing" =>
       \A i, j \in DOMAIN Registered : i < j => InOrder(Registered[i], Registered[j])
===============================================================================
