-------------------------------- MODULE MemLeak --------------------------------
(***************************************************************************)
(* The leak tracker (src/src/core/memleak.c), the operators and functions  *)
(* that allocate through it (newdelete.cpp, the cpputest_malloc family)    *)
(* and the plugin that judges each test by it (MemoryLeakWarningPlugin.h). *)
(* A tracked block is one piece of malloc'ed memory: the node, the user's  *)
(* bytes and the guard.  An address stands for the block that starts       *)
(* there, as for the pointer into it that the user holds.                  *)
(***************************************************************************)
EXTENDS Integers, FiniteSetsExt, SequencesExt

CONSTANTS
  Addrs,         \* where malloc may put a block
  Kinds,         \* CU_MEM_NEW, CU_MEM_NEW_ARRAY, CU_MEM_MALLOC
  Sizes,         \* the sizes the user asks for
  FL_MAX_DEPTH,  \* blocks a freelist keeps
  Headline,      \* length of the lines that describe a leaked block
  MaxSaves,      \* bound: nesting of save and restore
  MaxOverwrites, \* bound: blocks with overwritten guard bytes
  MaxExpected    \* bound: the n of EXPECT_N_LEAKS

ASSUME MemLeakAssumption ==
  /\ IsFiniteSet(Addrs)
  /\ "malloc" \in Kinds
  /\ Sizes \subseteq Nat /\ FL_MAX_DEPTH \in Nat /\ Headline \in Nat
  /\ MaxSaves \in Nat /\ MaxOverwrites \in Nat /\ MaxExpected \in Nat

NODE_OFFSET == 64   \* sizeof(mem_node) = 56, rounded up to 16
GUARD_SIZE == 3
FL_GRAIN == 64
FL_CLASSES == 16

Bytes(size) == NODE_OFFSET + size + GUARD_SIZE

class_of(bytes) == (bytes + FL_GRAIN - 1) \div FL_GRAIN

Recycled(size) == class_of(Bytes(size)) < FL_CLASSES
Classes == {class_of(Bytes(size)) : size \in {s \in Sizes : Recycled(s)}}

VARIABLES
  room,         \* bytes malloc has given out at each address, 0 for none
  table,        \* the buckets: the node of each tracked block
  freelists,    \* per class, the blocks kept for the next allocation
  overwritten,  \* the blocks whose guard bytes have been overwritten
  tracking_on, save_counter, saved_tracking_state,
  checking_now,
  ignoreAllWarnings, expectedLeaks,  \* of the plugin
  stage,        \* where the run is
  causes,       \* the failures of the current test
  held,         \* what the user holds, as the user sees it
  wrong,        \* history: the test gave back what it must not
  wanted        \* history: tracking as last set outside save and restore

memory == <<room, table, freelists, overwritten>>
switches == <<tracking_on, save_counter, saved_tracking_state, wanted>>
plugin == <<checking_now, ignoreAllWarnings, expectedLeaks>>
vars == <<memory, switches, plugin, stage, causes, held, wrong>>

(* No test is current outside.  Body and teardown run in protected         *)
(* sections; the hooks of other plugins and the test's destructor do not.  *)
Stages == {"outside", "body", "teardown", "hooks", "destroyed"}
InTest == {"body", "teardown", "hooks"}

Node == [size : Sizes, type : Kinds, checking : BOOLEAN]
Nothing == [tracked |-> FALSE, kind |-> "none", own |-> FALSE]
Holding == [tracked : BOOLEAN, kind : Kinds, own : BOOLEAN] \cup {Nothing}

Listed == UNION {{freelists[c][i] : i \in DOMAIN freelists[c]} : c \in Classes}

TypeOK ==
  /\ room \in [Addrs -> Nat]
  /\ DOMAIN table \subseteq Addrs
  /\ \A p \in DOMAIN table : table[p] \in Node
  /\ DOMAIN freelists = Classes
  /\ \A c \in Classes : freelists[c] \in Seq(Addrs) /\ Len(freelists[c]) <= FL_MAX_DEPTH
  /\ overwritten \subseteq DOMAIN table
  /\ tracking_on \in BOOLEAN /\ saved_tracking_state \in BOOLEAN /\ wanted \in BOOLEAN
  /\ save_counter \in 0 .. MaxSaves
  /\ checking_now \in BOOLEAN /\ ignoreAllWarnings \in BOOLEAN
  /\ expectedLeaks \in 0 .. MaxExpected
  /\ stage \in Stages /\ causes \subseteq {"memory", "other", "leak"}
  /\ held \in [Addrs -> Holding] /\ wrong \in BOOLEAN

Init ==
  /\ room = [p \in Addrs |-> 0] /\ table = <<>>
  /\ freelists = [c \in Classes |-> <<>>] /\ overwritten = {}
  /\ tracking_on = TRUE /\ save_counter = 0 /\ saved_tracking_state = FALSE /\ wanted = TRUE
  /\ checking_now = FALSE /\ ignoreAllWarnings = FALSE /\ expectedLeaks = 0
  /\ stage = "outside" /\ causes = {}
  /\ held = [p \in Addrs |-> Nothing] /\ wrong = FALSE

-------------------------------------------------------------------------------
(* Memory: m is a record of the four variables, so that one operation can  *)
(* take several steps with it.                                             *)

Memory == [room |-> room, table |-> table, free |-> freelists, over |-> overwritten]

MemoryBecomes(m) ==
  /\ room' = m.room /\ table' = m.table /\ freelists' = m.free /\ overwritten' = m.over

Unused(m) == {p \in Addrs : m.room[p] = 0}
Restricted(f, S) == [x \in S |-> f[x]]
With(f, x, y) == [z \in DOMAIN f \cup {x} |-> IF z = x THEN y ELSE f[z]]

(* block_alloc: the blocks it may return, each with the memory after.      *)
BlockAlloc(m, size) ==
  LET c == class_of(Bytes(size))
  IN  IF Recycled(size) /\ m.free[c] # <<>>
      THEN {[at |-> Head(m.free[c]), mem |-> [m EXCEPT !.free[c] = Tail(@)]]}
      ELSE {[at |-> p, mem |-> [m EXCEPT !.room[p] =
                 IF Recycled(size) THEN c * FL_GRAIN ELSE Bytes(size)]] : p \in Unused(m)}

Freed(m, p) == [m EXCEPT !.room[p] = 0]

(* block_free of a node that is no longer in the table.                    *)
BlockFree(m, p, size) ==
  LET c == class_of(Bytes(size))
  IN  IF Recycled(size) /\ Len(m.free[c]) < FL_MAX_DEPTH
      THEN [m EXCEPT !.free[c] = <<p>> \o @]
      ELSE Freed(m, p)

(* Mutant: the node stays in the table.                                    *)
LeftInTable(m, p) == m

(* remove_node *)
Removed(m, p) == [m EXCEPT !.table = Restricted(@, DOMAIN @ \ {p}), !.over = @ \ {p}]

(* cu_mem_alloc_tracked *)
AllocTracked(m, size, kind) ==
  {[b EXCEPT !.mem.table = With(@, b.at, [size |-> size, type |-> kind, checking |-> checking_now])] :
     b \in BlockAlloc(m, size)}

(* The raw malloc of the same size; the model gives it the room of a block.*)
AllocRaw(m, size) == {[at |-> p, mem |-> [m EXCEPT !.room[p] = size + 1]] : p \in Unused(m)}

(* The user holds a block from this test, obtained under tracking or not.  *)
HeldAs(p, kind) ==
  held' = [held EXCEPT ![p] = [tracked |-> tracking_on, kind |-> kind,
                               own |-> tracking_on /\ checking_now]]

GivenBack(h, p) == [h EXCEPT ![p] = Nothing]

-------------------------------------------------------------------------------
(* Failures *)

Protected == stage \in {"body", "teardown"}

Fails(cause) ==
  IF stage \in InTest
  THEN /\ causes' = causes \cup {cause}
       /\ stage' = IF stage = "body" THEN "teardown" ELSE "hooks"
  ELSE UNCHANGED <<stage, causes>>

(* mem_fail leaves by longjmp: the free(node) behind it runs only where no *)
(* protected section is around.                                            *)
Discarded(m, p) == IF Protected THEN Removed(m, p) ELSE Freed(Removed(m, p), p)

Right(p) == held[p] # Nothing /\ held[p].tracked /\ p \notin overwritten

(* What the user does wrong under tracking, in a test.                     *)
Judged(right) == wrong' = (wrong \/ (tracking_on /\ stage \in InTest /\ ~right))

Running == stage # "destroyed"

(* operator new, new [], cpputest_malloc and its family                    *)
Alloc(kind, size) ==
  /\ Running
  /\ \E b \in IF tracking_on THEN AllocTracked(Memory, size, kind) ELSE AllocRaw(Memory, size) :
        MemoryBecomes(b.mem) /\ HeldAs(b.at, kind)
  /\ UNCHANGED <<switches, plugin, stage, causes, wrong>>

(* The user writes behind the end of a block.                              *)
Overwrite(p) ==
  /\ Running /\ held[p] # Nothing /\ p \in DOMAIN table
  /\ Cardinality(overwritten) < MaxOverwrites
  /\ overwritten' = overwritten \cup {p}
  /\ UNCHANGED <<room, table, freelists, switches, plugin, stage, causes, held, wrong>>

(* cu_mem_free_tracked: any pointer may come, also one given back before.  *)
FreeTracked(p, kind) ==
  /\ Running /\ tracking_on
  /\ Judged(Right(p) /\ held[p].kind = kind)
  /\ IF p \notin DOMAIN table
     THEN Fails("memory") /\ UNCHANGED <<memory, held>>
     ELSE /\ held' = GivenBack(held, p)
          /\ IF table[p].type # kind \/ p \in overwritten
             THEN Fails("memory") /\ MemoryBecomes(Discarded(Memory, p))
             ELSE /\ MemoryBecomes(BlockFree(Removed(Memory, p), p, table[p].size))
                  /\ UNCHANGED <<stage, causes>>
  /\ UNCHANGED <<switches, plugin>>

(* cu_mem_release_if_tracked: nothing is checked, so the user must own it. *)
ReleaseIfTracked(p) ==
  /\ Running /\ ~tracking_on /\ held[p] # Nothing
  /\ MemoryBecomes(IF p \in DOMAIN table
                   THEN BlockFree(Removed(Memory, p), p, table[p].size)
                   ELSE Freed(Memory, p))
  /\ held' = GivenBack(held, p)
  /\ UNCHANGED <<switches, plugin, stage, causes, wrong>>

(* cu_mem_realloc_tracked of a pointer that is not NULL.  The type of the  *)
(* node is not compared: what new gave may be passed, and becomes malloc's.*)
ReallocRefused(p) ==
  /\ Running /\ tracking_on
  /\ p \notin DOMAIN table \/ p \in overwritten
  /\ Judged(Right(p))
  /\ Fails("memory")
  /\ IF p \in DOMAIN table
     THEN MemoryBecomes(Discarded(Memory, p)) /\ held' = GivenBack(held, p)
     ELSE UNCHANGED <<memory, held>>
  /\ UNCHANGED <<switches, plugin>>

ReallocTracked(p, size) ==
  /\ Running /\ tracking_on
  /\ p \in DOMAIN table \ overwritten
  /\ Judged(Right(p))
  /\ \E b \in AllocTracked(Removed(Memory, p), size, "malloc") :
       /\ MemoryBecomes(BlockFree(b.mem, p, table[p].size))
       /\ held' = [GivenBack(held, p) EXCEPT ![b.at] =
                     [tracked |-> TRUE, kind |-> "malloc", own |-> checking_now]]
  /\ UNCHANGED <<switches, plugin, stage, causes>>

(* Mutant: the block that could not be enlarged is forgotten.              *)
ReallocForgets(p) ==
  /\ Running /\ p \in DOMAIN table \ overwritten
  /\ MemoryBecomes(Removed(Memory, p))
  /\ UNCHANGED <<switches, plugin, stage, causes, held, wrong>>

(* malloc refuses: the node goes back, to the front of its bucket.         *)
ReallocFails(p) ==
  /\ Running /\ p \in DOMAIN table \ overwritten
  /\ MemoryBecomes([Removed(Memory, p) EXCEPT !.table = table])
  /\ UNCHANGED <<switches, plugin, stage, causes, held, wrong>>

(* cpputest_realloc while tracking is off: a tracked block becomes a raw   *)
(* one, and a raw one stays one.                                           *)
ReallocUntracked(p, size) ==
  /\ Running /\ ~tracking_on /\ held[p] # Nothing
  /\ IF p \in DOMAIN table
     THEN \E b \in AllocRaw(Removed(Memory, p), size) :
            /\ MemoryBecomes(BlockFree(b.mem, p, table[p].size))
            /\ held' = [GivenBack(held, p) EXCEPT ![b.at] =
                          [tracked |-> FALSE, kind |-> "malloc", own |-> FALSE]]
     ELSE /\ room' = [room EXCEPT ![p] = size + 1]
          /\ held' = [held EXCEPT ![p] = [tracked |-> FALSE, kind |-> "malloc", own |-> FALSE]]
          /\ UNCHANGED <<table, freelists, overwritten>>
  /\ UNCHANGED <<switches, plugin, stage, causes, wrong>>

-------------------------------------------------------------------------------
(* Switching *)

(* turnOffNewDeleteOverloads, turnOn...: cu_mem_tracking_set               *)
SetTracking(on) ==
  /\ Running
  /\ tracking_on' = on
  /\ wanted' = IF save_counter = 0 THEN on ELSE wanted
  /\ UNCHANGED <<memory, plugin, save_counter, saved_tracking_state, stage, causes, held, wrong>>

(* Mutant: every save saves.                                               *)
SaveAlways ==
  /\ Running /\ save_counter < MaxSaves
  /\ save_counter' = save_counter + 1
  /\ saved_tracking_state' = tracking_on /\ tracking_on' = FALSE
  /\ UNCHANGED <<memory, plugin, wanted, stage, causes, held, wrong>>

SaveAndDisable ==
  /\ Running /\ save_counter < MaxSaves
  /\ save_counter' = save_counter + 1
  /\ IF save_counter = 0
     THEN saved_tracking_state' = tracking_on /\ tracking_on' = FALSE
     ELSE UNCHANGED <<saved_tracking_state, tracking_on>>
  /\ UNCHANGED <<memory, plugin, wanted, stage, causes, held, wrong>>

RestoreTracking ==
  /\ Running /\ save_counter > 0
  /\ save_counter' = save_counter - 1
  /\ tracking_on' = IF save_counter = 1 THEN saved_tracking_state ELSE tracking_on
  /\ UNCHANGED <<memory, plugin, saved_tracking_state, wanted, stage, causes, held, wrong>>

-------------------------------------------------------------------------------
(* The report of leaks, in a buffer of fixed length: of the texts added to *)
(* it only the lengths count.                                              *)

CU_MEM_BUFFER_LEN == 4096
MEM_LEAK_TOO_MUCH == 68
MEM_LEAK_FOOTER == 23
MEM_LEAK_ADDITION_MALLOC_WARNING == 272
FOUND == 22
NO_LEAKS == 30
INT_DIGITS == 10

(* rb_add: what goes beyond the limit is cut off.                          *)
rb_add(rb, length) ==
  [rb EXCEPT !.filled = Min({@ + length, rb.write_limit}),
             !.cut = @ \/ rb.filled + length > rb.write_limit]

(* rb_add_memory_dump: lines of 16 bytes, in hexadecimal and as characters.*)
Dump(size) == size + 62 * ((size + 15) \div 16)

cleared == [filled |-> 0, write_limit |-> CU_MEM_BUFFER_LEN - 1, cut |-> FALSE]

footer_reserve ==
  MEM_LEAK_FOOTER + 1 + 10 + MEM_LEAK_TOO_MUCH + 1 + MEM_LEAK_ADDITION_MALLOC_WARNING + 1

(* The entries of the blocks in S, in some order of the buckets.           *)
Entries(S) ==
  LET walk == SetToSeq(S)
      begun == rb_add([cleared EXCEPT !.write_limit = CU_MEM_BUFFER_LEN - footer_reserve], FOUND)
      after[n \in 0 .. Cardinality(S)] ==
        IF n = 0 THEN begun ELSE rb_add(after[n - 1], Headline + Dump(table[walk[n]].size))
  IN  after[Cardinality(S)]

TooMuch(S) == Entries(S).filled >= Entries(S).write_limit

(* What follows the entries, in the room that they had to leave.           *)
Ending(S) ==
  LET all == [Entries(S) EXCEPT !.write_limit = CU_MEM_BUFFER_LEN - 1, !.cut = FALSE]
      bailed == IF TooMuch(S) THEN rb_add(all, MEM_LEAK_TOO_MUCH) ELSE all
      total == rb_add(bailed, MEM_LEAK_FOOTER + 1 + INT_DIGITS + 1)
  IN  CASE S = {} -> rb_add(cleared, NO_LEAKS)
        [] \E p \in S : table[p].type = "malloc" -> rb_add(total, MEM_LEAK_ADDITION_MALLOC_WARNING)
        [] OTHER -> total

-------------------------------------------------------------------------------
(* Tests *)

(* preTestAction; what it counts from is that the test has not failed yet. *)
PreTest ==
  /\ stage = "outside"
  /\ stage' = "body" /\ causes' = {} /\ wrong' = FALSE
  /\ checking_now' = TRUE
  /\ UNCHANGED <<memory, switches, ignoreAllWarnings, expectedLeaks, held>>

GoOn ==
  /\ Protected
  /\ stage' = IF stage = "body" THEN "teardown" ELSE "hooks"
  /\ UNCHANGED <<memory, switches, plugin, causes, held, wrong>>

OtherFailure ==
  /\ stage \in InTest /\ Fails("other")
  /\ UNCHANGED <<memory, switches, plugin, held, wrong>>

IgnoreAllLeaksInTest ==
  /\ stage \in InTest
  /\ ignoreAllWarnings' = TRUE
  /\ UNCHANGED <<memory, switches, checking_now, expectedLeaks, stage, causes, held, wrong>>

ExpectLeaksInTest(n) ==
  /\ stage \in InTest
  /\ expectedLeaks' = n
  /\ UNCHANGED <<memory, switches, checking_now, ignoreAllWarnings, stage, causes, held, wrong>>

Checked == {p \in DOMAIN table : table[p].checking}
leak_count == Cardinality(Checked)

(* Mutant: blocks that outlive their test stay in the next one's account.  *)
MarkNothing(t) == t

mark_checking_as_global(t) == [p \in DOMAIN t |-> [t[p] EXCEPT !.checking = FALSE]]

(* postTestAction                                                          *)
PostTest ==
  /\ stage = "hooks"
  /\ checking_now' = FALSE
  /\ causes' = IF ~ignoreAllWarnings /\ expectedLeaks # leak_count /\ causes = {} /\ tracking_on
               THEN {"leak"} ELSE causes
  /\ table' = mark_checking_as_global(table)
  /\ ignoreAllWarnings' = FALSE /\ expectedLeaks' = 0
  /\ stage' = "outside"
  /\ held' = [p \in Addrs |-> IF held[p] = Nothing THEN Nothing ELSE [held[p] EXCEPT !.own = FALSE]]
  /\ UNCHANGED <<room, freelists, overwritten, switches, wrong>>

(* The plugin's destructor, where it destroys the detector.                *)
DestroyAll ==
  /\ stage = "outside"
  /\ stage' = "destroyed"
  /\ tracking_on' = FALSE
  /\ room' = [p \in Addrs |-> IF p \in DOMAIN table \cup Listed THEN 0 ELSE room[p]]
  /\ table' = <<>> /\ freelists' = [c \in Classes |-> <<>>] /\ overwritten' = {}
  /\ held' = [p \in Addrs |-> IF p \in DOMAIN table THEN Nothing ELSE held[p]]
  /\ UNCHANGED <<save_counter, saved_tracking_state, wanted, plugin, causes, wrong>>

Terminated == stage = "destroyed" /\ UNCHANGED vars

Next ==
  \/ \E kind \in Kinds, size \in Sizes : Alloc(kind, size)
  \/ \E p \in Addrs :
       \/ Overwrite(p) \/ ReleaseIfTracked(p) \/ ReallocRefused(p) \/ ReallocFails(p)
       \/ \E kind \in Kinds : FreeTracked(p, kind)
       \/ \E size \in Sizes : ReallocTracked(p, size) \/ ReallocUntracked(p, size)
  \/ \E on \in BOOLEAN : SetTracking(on)
  \/ SaveAndDisable \/ RestoreTracking
  \/ PreTest \/ GoOn \/ OtherFailure \/ PostTest
  \/ IgnoreAllLeaksInTest \/ \E n \in 0 .. MaxExpected : ExpectLeaksInTest(n)
  \/ DestroyAll \/ Terminated

Spec == Init /\ [][Next]_vars

-------------------------------------------------------------------------------
(* Properties *)

(* Each block has one owner: it is tracked or on one freelist, once, or    *)
(* neither; what is on a freelist is no longer anybody's, what the user    *)
(* holds has been allocated, and every block is as large as its size says. *)
OneOwner ==
  /\ DOMAIN table \cap Listed = {}
  /\ \A c \in Classes : \A i, j \in DOMAIN freelists[c] :
        freelists[c][i] = freelists[c][j] => i = j
  /\ \A p \in Listed : held[p] = Nothing
  /\ \A p \in DOMAIN table \cup Listed \cup {q \in Addrs : held[q] # Nothing} : room[p] > 0
  /\ \A p \in DOMAIN table : held[p] # Nothing /\ room[p] >= Bytes(table[p].size)

(* A free or realloc fails a test exactly if it is wrong by the user's own *)
(* account: of something not obtained under tracking and still held, of    *)
(* the wrong kind, or written over.  A failed realloc, recycling and       *)
(* switching tracking off and on change nothing about that.                *)
WrongFreesFail == stage \in InTest => (wrong <=> "memory" \in causes)

Own == {p \in Addrs : held[p].own}

(* A test that passes until the leak check fails there exactly if the      *)
(* blocks it obtained and has not given back are not as many as it said:   *)
(* blocks of earlier tests, and blocks recycled from them, do not count.   *)
ChargedRight ==
  ("leak" \in causes') <=>
    causes = {} /\ ~ignoreAllWarnings /\ tracking_on /\ Cardinality(Own) # expectedLeaks

(* The report that it fails with has their number and its notes to the     *)
(* last character, and says so if it does not show all of them, however    *)
(* large they are.                                                         *)
ReportWhole ==
  /\ ~Ending(Checked).cut
  /\ Checked # {} /\ Entries(Checked).cut => TooMuch(Checked)

(* The leak check (MemoryLeakWarningPlugin.h, memleak.c) charges each test *)
(* with its own leaks, and reports them.                                   *)
LeaksCharged ==
  [][stage = "hooks" /\ stage' = "outside" =>
       ChargedRight /\ ("leak" \in causes' => ReportWhole)]_vars

(* After the last restore, tracking is as it was before the first save.    *)
TrackingRestored == Running /\ save_counter = 0 => tracking_on = wanted
===============================================================================
