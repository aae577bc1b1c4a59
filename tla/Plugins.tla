--------------------------------- MODULE Plugins -------------------------------
(***************************************************************************)
(* The plugins around every test: the chain (TestPlugin.h, TestRegistry.h) *)
(* and the three plugins of the library, which restore function pointers   *)
(* (SetPointerPlugin), charge leaks (MemoryLeakWarningPlugin.h) and lend   *)
(* comparators to mock() (MockSupportPlugin.h).  A test may run the tests  *)
(* of another registry, with plugins of its own; the table of pointers,    *)
(* the leak detector and mock() are shared by both.                        *)
(*                                                                         *)
(* Expectations are in MockCall, jumps out of plugins in TestRunner.       *)
(***************************************************************************)
EXTENDS Integers, SequencesExt, FiniteSetsExt

CONSTANTS
  Default, Inner,   \* the registry of the program, the one of a nested run
  SetPointer,       \* the SetPointerPlugins
  LeakWarning,      \* the MemoryLeakWarningPlugins
  MockSupport,      \* the MockSupportPlugins
  FirstLeakWarning, \* the one constructed first, which getFirstPlugin gives
  Home,             \* the registry that a plugin is for
  Starts,           \* the plugins of each registry as the run may start
  Pointers,         \* function pointers that tests set
  MAX_SET,          \* 32: the pointers that can be saved
  MaxEntries,       \* 32: comparators and copiers that a plugin keeps
  NULL,
  MaxTests, MaxSteps, MaxOffers, MaxChanges  \* bounds: tests, steps in them, comparators, changes to the chain

Registries == {Default, Inner}
Plugins == SetPointer \cup LeakWarning \cup MockSupport

ASSUME PluginsAssumption ==
  /\ Default # Inner /\ IsFiniteSet(Plugins) /\ NULL \notin Plugins
  /\ SetPointer \cap LeakWarning = {} /\ (SetPointer \cup LeakWarning) \cap MockSupport = {}
  /\ FirstLeakWarning \in LeakWarning /\ Home \in [Plugins -> Registries]
  /\ Starts \subseteq [Registries -> Seq(Plugins)]
  /\ \A start \in Starts, r \in Registries : \A p \in ToSet(start[r]) : Home[p] = r
  /\ MAX_SET \in Nat /\ MaxEntries \in Nat

VARIABLES
  firstPlugin,  \* firstPlugin_ of each registry
  next_,        \* next_ of each plugin
  enabled,
  current,      \* currentSlot
  entries,      \* the comparators that a MockSupportPlugin keeps
  frames,       \* the tests that are running, outermost first
  pointer,      \* what each pointer is set to, 0 being what it was at first
  setlist,      \* CppUTestStoreList up to the index
  checking_now,
  blocks,       \* tracked blocks that are not released
  leak,         \* what each leak plugin remembers
  adapters,     \* the comparators in mock()
  tests, steps, \* history: tests started, and what was done in them
  changes,      \* history: changes to the chain
  offers,       \* history: comparators offered to a plugin
  forgotten,    \* history: whether saved pointers were given up
  ended         \* history: the test that ended last

chain == <<firstPlugin, next_, enabled>>
shared == <<pointer, setlist, checking_now, blocks, leak, adapters>>
history == <<tests, steps, changes, offers, forgotten, ended>>
vars == <<chain, current, entries, frames, shared, history>>

Forgiving == [ignore |-> FALSE, expected |-> 0, failureCount |-> 0]
NoneEnded == [watched |-> FALSE, restored |-> FALSE]

(* What comes behind p in a chain, NULL at the end and for all others.     *)
Behind(s, p) ==
  IF Contains(s, p) THEN Append(s, NULL)[1 + CHOOSE i \in DOMAIN s : s[i] = p] ELSE NULL

Init ==
  /\ \E start \in Starts :
       /\ firstPlugin = [r \in Registries |-> Append(start[r], NULL)[1]]
       /\ next_ = [p \in Plugins |-> Behind(start[Home[p]], p)]
  /\ enabled = [p \in Plugins |-> TRUE]
  /\ current = Default /\ entries = [p \in MockSupport |-> <<>>] /\ frames = <<>>
  /\ pointer = [x \in Pointers |-> 0] /\ setlist = <<>>
  /\ checking_now = FALSE /\ blocks = {} /\ leak = [p \in LeakWarning |-> Forgiving]
  /\ adapters = <<>>
  /\ tests = 0 /\ steps = 0 /\ changes = 0 /\ offers = 0 /\ forgotten = FALSE /\ ended = NoneEnded

Idle == frames = <<>>
Depth == Len(frames)
Top == frames[Depth]

(* The chain of a registry from its first plugin on; NULL stands for the   *)
(* NullTestPlugin, which ends the chain and does nothing.                  *)
ChainOf(r) ==
  LET at[k \in 0 .. Cardinality(Plugins)] ==
        IF k = 0 THEN firstPlugin[r]
        ELSE LET p == at[k - 1] IN IF p = NULL THEN NULL ELSE next_[p]
  IN  [k \in 1 .. Cardinality(Plugins) |-> at[k - 1]]

TakesPart(p) == p # NULL /\ enabled[p]

(* The plugins that act around the tests of a registry.                    *)
Active(r) == {p \in ToSet(ChainOf(r)) : TakesPart(p)}

-------------------------------------------------------------------------------
(* The chain, between tests *)

Change == Idle /\ changes < MaxChanges /\ changes' = changes + 1
UnchangedByChain == UNCHANGED <<current, entries, frames, shared, tests, steps, offers, forgotten, ended>>

InstallPlugin(p) ==
  LET r == Home[p]
  IN  /\ Change /\ ~Contains(ChainOf(r), p)
      /\ next_' = [next_ EXCEPT ![p] = firstPlugin[r]]
      /\ firstPlugin' = [firstPlugin EXCEPT ![r] = p]
      /\ UNCHANGED enabled /\ UnchangedByChain

(* removePluginByName looks at the first plugin and the one behind it.     *)
RemovePlugin(p) ==
  LET r == Home[p]
  IN  /\ Change /\ Contains(ChainOf(r), p)
      /\ IF firstPlugin[r] = p
         THEN firstPlugin' = [firstPlugin EXCEPT ![r] = next_[p]] /\ UNCHANGED next_
         ELSE /\ next_' = IF next_[firstPlugin[r]] = p
                          THEN [next_ EXCEPT ![firstPlugin[r]] = next_[p]] ELSE next_
              /\ UNCHANGED firstPlugin
      /\ UNCHANGED enabled /\ UnchangedByChain

Enable(p, how) ==
  /\ Change /\ enabled[p] # how
  /\ enabled' = [enabled EXCEPT ![p] = how]
  /\ UNCHANGED <<firstPlugin, next_>> /\ UnchangedByChain

(* addEntry: what does not fit is dropped.                                 *)
OfferComparator(p) ==
  /\ Idle /\ offers < MaxOffers
  /\ entries' = IF Len(entries[p]) >= MaxEntries THEN entries
                ELSE [entries EXCEPT ![p] = Append(@, offers + 1)]
  /\ offers' = offers + 1
  /\ UNCHANGED <<chain, current, frames, shared, tests, steps, changes, forgotten, ended>>

-------------------------------------------------------------------------------
(* What the plugins do before and after a test, to the record s of what    *)
(* they share and the failures of the run *)

State(failures) ==
  [pointer |-> pointer, setlist |-> setlist, checking_now |-> checking_now, blocks |-> blocks,
   leak |-> leak, adapters |-> adapters, failures |-> failures]

Becomes(s) ==
  /\ pointer' = s.pointer /\ setlist' = s.setlist /\ checking_now' = s.checking_now
  /\ blocks' = s.blocks /\ leak' = s.leak /\ adapters' = s.adapters

PreTestAction(s, p) ==
  IF ~TakesPart(p) THEN s
  ELSE CASE p \in LeakWarning ->
              [s EXCEPT !.checking_now = TRUE, !.leak[p].failureCount = s.failures]
         [] p \in MockSupport -> [s EXCEPT !.adapters = @ \o entries[p]]
         [] p \in SetPointer -> s

(* runAllPreTestAction *)
AllPreActions(r, s) ==
  LET c == ChainOf(r)
      after[k \in 0 .. Len(c)] == IF k = 0 THEN s ELSE PreTestAction(after[k - 1], c[k])
  IN  after[Len(c)]

Restored(values, x) == [values EXCEPT ![x.orig] = x.value]

(* Mutant: in the order in which they were saved.                          *)
RestorePointersForward(s) ==
  LET after[k \in 0 .. Len(s.setlist)] ==
        IF k = 0 THEN s.pointer ELSE Restored(after[k - 1], s.setlist[k])
  IN  [s EXCEPT !.pointer = after[Len(s.setlist)], !.setlist = <<>>]

(* What was saved last comes back first.                                   *)
RestorePointers(s) ==
  LET after[k \in 0 .. Len(s.setlist)] ==
        IF k = 0 THEN s.pointer ELSE Restored(after[k - 1], s.setlist[Len(s.setlist) + 1 - k])
  IN  [s EXCEPT !.pointer = after[Len(s.setlist)], !.setlist = <<>>]

Checked(s) == {b \in s.blocks : b.checking}

(* Mutant: blocks stay those of the test that is checked.                  *)
ChargeLeaksForGood(s, p) ==
  LET mem == s.leak[p]
      fails == ~mem.ignore /\ mem.expected # Cardinality(Checked(s)) /\ mem.failureCount = s.failures
  IN  [s EXCEPT !.checking_now = FALSE, !.leak[p] = Forgiving,
                !.failures = IF fails THEN @ + 1 ELSE @]

(* postTestAction of a leak plugin: the blocks of the checking period,     *)
(* unless another failure came first; then all are of the past.            *)
ChargeLeaks(s, p) ==
  LET mem == s.leak[p]
      fails == ~mem.ignore /\ mem.expected # Cardinality(Checked(s)) /\ mem.failureCount = s.failures
  IN  [s EXCEPT !.checking_now = FALSE, !.leak[p] = Forgiving,
                !.failures = IF fails THEN @ + 1 ELSE @,
                !.blocks = {[b EXCEPT !.checking = FALSE, !.charges =
                               IF fails /\ b.checking THEN @ + 1 ELSE @] : b \in @}]

(* Mutant: the comparators stay.                                           *)
RemoveNoAdapters(s) == s

(* removeAllComparatorsAndCopiers: those of all plugins.                   *)
RemoveAdapters(s) == [s EXCEPT !.adapters = <<>>]

PostTestAction(s, p) ==
  IF ~TakesPart(p) THEN s
  ELSE CASE p \in SetPointer -> RestorePointers(s)
         [] p \in LeakWarning -> ChargeLeaks(s, p)
         [] p \in MockSupport -> RemoveAdapters(s)

(* runAllPostTestAction: a plugin acts after those behind it.              *)
AllPostActions(r, s) ==
  LET c == ChainOf(r)
      after[k \in 0 .. Len(c)] ==
        IF k = 0 THEN s ELSE PostTestAction(after[k - 1], c[Len(c) + 1 - k])
  IN  after[Len(c)]

-------------------------------------------------------------------------------
(* Running tests *)

NewFrame(r) ==
  [registry |-> r, test |-> tests + 1, failures |-> 0, left |-> FALSE, disturbed |-> FALSE,
   lent |-> TRUE, expected |-> 0, ignore |-> FALSE]

Uses(r, kind) == Active(r) \cap kind # {}

(* A test of r starts.  History: what it shares with the test around it is *)
(* no longer that test's own, and leaks announced by a test that no leak   *)
(* plugin has checked are announced for this one.                          *)
Enters(r) ==
  LET s == AllPreActions(r, State(0))
      around == [i \in DOMAIN frames |->
                  [frames[i] EXCEPT !.disturbed = @ \/ Uses(r, LeakWarning),
                                    !.lent = @ /\ ~Uses(r, MockSupport)]]
      told == leak[FirstLeakWarning].ignore \/ leak[FirstLeakWarning].expected # 0
      mine == [NewFrame(r) EXCEPT !.disturbed = ~Idle \/ told, !.lent = Idle]
  IN  /\ tests < MaxTests
      /\ frames' = Append(around, mine)
      /\ Becomes(s)
      /\ current' = r
      /\ tests' = tests + 1
      /\ UNCHANGED <<chain, entries, steps, changes, offers, forgotten, ended>>

StartTest == Idle /\ Enters(current)

InBody == ~Idle /\ ~Top.left

(* runAllTests of the other registry: it is the current one for the time.  *)
StartNested == InBody /\ Depth = 1 /\ Enters(Inner)

Stepped(f) == [frames EXCEPT ![Depth] = f]
Step ==
  /\ steps < MaxSteps /\ steps' = steps + 1
  /\ UNCHANGED <<chain, current, entries, tests, changes, offers, ended>>

(* FAIL: the rest of the body is skipped.                                  *)
FailTest ==
  /\ InBody
  /\ frames' = Stepped([Top EXCEPT !.failures = @ + 1, !.left = TRUE])
  /\ UNCHANGED <<shared, forgotten>> /\ Step

(* UT_PTR_SET: the table has room for MAX_SET of all the running tests.    *)
PtrSet(x) ==
  /\ InBody
  /\ IF Len(setlist) >= MAX_SET
     THEN /\ frames' = Stepped([Top EXCEPT !.failures = @ + 1, !.left = TRUE])
          /\ UNCHANGED <<setlist, pointer>>
     ELSE /\ frames' = Stepped(Top)
          /\ setlist' = Append(setlist, [orig |-> x, value |-> pointer[x]])
          /\ pointer' = [pointer EXCEPT ![x] = Len(setlist) + 1]
  /\ UNCHANGED <<checking_now, blocks, leak, adapters, forgotten>> /\ Step

(* A test makes a SetPointerPlugin: its constructor empties the table.     *)
MakeSetPointerPlugin ==
  /\ InBody
  /\ frames' = Stepped(Top)
  /\ setlist' = <<>>
  /\ forgotten' = (forgotten \/ setlist # <<>>)
  /\ UNCHANGED <<pointer, checking_now, blocks, leak, adapters>> /\ Step

Leak ==
  /\ InBody
  /\ frames' = Stepped(Top)
  /\ blocks' = blocks \cup
       {[number |-> Cardinality(blocks), by |-> {frames[i].test : i \in DOMAIN frames},
         checking |-> checking_now, charges |-> 0]}
  /\ UNCHANGED <<pointer, setlist, checking_now, leak, adapters, forgotten>> /\ Step

(* EXPECT_N_LEAKS and IGNORE_ALL_LEAKS_IN_TEST speak to the plugin that    *)
(* was constructed first, also in a test run inside: it is the outer test  *)
(* that they are about.                                                    *)
Announce(n, ignore) ==
  /\ InBody
  /\ frames' = [Stepped(Top) EXCEPT ![1].expected = IF ignore THEN @ ELSE n, ![1].ignore = @ \/ ignore]
  /\ leak' = IF ignore THEN [leak EXCEPT ![FirstLeakWarning].ignore = TRUE]
             ELSE [leak EXCEPT ![FirstLeakWarning].expected = n]
  /\ UNCHANGED <<pointer, setlist, checking_now, blocks, adapters, forgotten>> /\ Step

(* The plugins of the current registry, the last one first; then the       *)
(* registry of before.                                                     *)
EndTest ==
  /\ ~Idle
  /\ LET s == AllPostActions(current, State(Top.failures))
     IN  /\ Becomes(s)
         /\ ended' = [watched |-> FirstLeakWarning \in Active(current),
                      restored |-> Uses(current, SetPointer),
                      frame |-> Top, failed |-> s.failures # Top.failures,
                      leaked |-> Cardinality({b \in blocks : Top.test \in b.by})]
  /\ frames' = Front(frames)
  /\ current' = Default
  /\ UNCHANGED <<chain, entries, tests, steps, changes, offers, forgotten>>

Finished == Idle /\ UNCHANGED vars

Next ==
  \/ \E p \in Plugins : InstallPlugin(p) \/ RemovePlugin(p) \/ \E how \in BOOLEAN : Enable(p, how)
  \/ \E p \in MockSupport : OfferComparator(p)
  \/ StartTest \/ StartNested \/ FailTest \/ MakeSetPointerPlugin \/ Leak \/ EndTest
  \/ \E x \in Pointers : PtrSet(x)
  \/ \E ignore \in BOOLEAN : Announce(1, ignore)
  \/ Finished

Spec == Init /\ [][Next]_vars
-------------------------------------------------------------------------------
(* Properties *)

(* After a test around which a SetPointerPlugin stood, every pointer is    *)
(* what it was at first, in whatever order and however often it was set,   *)
(* also by tests run inside and when the table was full; unless a test     *)
(* made such a plugin while pointers were saved.                           *)
PointersRestored ==
  (Idle /\ ended.restored /\ ~forgotten) =>
    setlist = <<>> /\ \A x \in Pointers : pointer[x] = 0

(* A test is failed for its leaks exactly if it has not failed before and  *)
(* the blocks it leaked, itself or in a test run inside, are not as many   *)
(* as were announced; unless a leak plugin took part in the run inside.  No  *)
(* block is charged to two tests.                                          *)
LeaksToTheirTest ==
  /\ (ended.watched /\ ~ended.frame.disturbed) =>
       (ended.failed <=>
          /\ ended.frame.failures = 0
          /\ ~ended.frame.ignore /\ ended.frame.expected # ended.leaked)
  /\ \A b \in blocks : b.charges <= 1

(* A test finds in mock() the comparators of the plugins around it, the    *)
(* first MaxEntries of each and no others, as long as no test inside it    *)
(* had a MockSupportPlugin; between tests there are none.                  *)
AdaptersPerTest ==
  /\ Idle => adapters = <<>>
  /\ (Depth = 1 /\ Top.lent) =>
       adapters = FlattenSeq([i \in DOMAIN ChainOf(current) |->
                    LET p == ChainOf(current)[i]
                    IN  IF TakesPart(p) /\ p \in MockSupport THEN entries[p] ELSE <<>>])
  /\ \A p \in MockSupport : Len(entries[p]) <= MaxEntries
===============================================================================
