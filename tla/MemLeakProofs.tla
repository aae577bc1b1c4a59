----------------------------- MODULE MemLeakProofs -----------------------------
(***************************************************************************)
(* What holds of the leak tracker for every number of addresses, sizes,    *)
(* nested saves and expected leaks: the tracking switch comes back, every  *)
(* block has one owner, wrong frees fail their test, and each test is      *)
(* charged with its own leaks.                                             *)
(***************************************************************************)
EXTENDS MemLeak, TLAPS, FiniteSetTheorems, FunctionTheorems, WellFoundedInduction

(* TrackingRestored is not inductive: what a restore brings back is the    *)
(* saved state, so that has to be the wanted one while saves are open.     *)
SavedIsWanted ==
  /\ save_counter \in Nat
  /\ stage \in Stages
  /\ stage # "destroyed" =>
       IF save_counter = 0 THEN tracking_on = wanted ELSE saved_tracking_state = wanted

(* Whatever does not switch tracking keeps it, and destroys at most.       *)
LEMMA SwitchesKept ==
  ASSUME SavedIsWanted, UNCHANGED switches, stage' \in Stages, stage # "destroyed"
  PROVE  SavedIsWanted'
BY DEF SavedIsWanted, switches

(* A failure leads from one stage of a test to another.                    *)
LEMMA FailsStays ==
  ASSUME NEW cause, stage \in Stages, Fails(cause)
  PROVE  stage' \in Stages
BY DEF Stages, InTest, Fails

LEMMA SavedIsWantedStep ==
  ASSUME SavedIsWanted, [Next]_vars
  PROVE  SavedIsWanted'
<1> USE MemLeakAssumption
<1>0. stage \in Stages
  BY DEF SavedIsWanted
<1>1. ASSUME NEW kind \in Kinds, NEW size \in Sizes, Alloc(kind, size)
      PROVE  SavedIsWanted'
  BY <1>1, <1>0, SwitchesKept DEF Alloc, Running
<1>2. ASSUME NEW p \in Addrs, Overwrite(p)
      PROVE  SavedIsWanted'
  BY <1>2, <1>0, SwitchesKept DEF Overwrite, Running
<1>3. ASSUME NEW p \in Addrs, ReleaseIfTracked(p)
      PROVE  SavedIsWanted'
  BY <1>3, <1>0, SwitchesKept DEF ReleaseIfTracked, Running
<1>4. ASSUME NEW p \in Addrs, ReallocRefused(p)
      PROVE  SavedIsWanted'
  <2>1. stage' \in Stages
    BY <1>4, <1>0, FailsStays DEF ReallocRefused
  <2> QED
    BY <1>4, <2>1, SwitchesKept DEF ReallocRefused, Running
<1>5. ASSUME NEW p \in Addrs, ReallocFails(p)
      PROVE  SavedIsWanted'
  BY <1>5, <1>0, SwitchesKept DEF ReallocFails, Running
<1>6. ASSUME NEW p \in Addrs, NEW kind \in Kinds, FreeTracked(p, kind)
      PROVE  SavedIsWanted'
  <2>1. stage' \in Stages
    BY <1>6, <1>0, FailsStays DEF FreeTracked
  <2> QED
    BY <1>6, <2>1, SwitchesKept DEF FreeTracked, Running
<1>7. ASSUME NEW p \in Addrs, NEW size \in Sizes, ReallocTracked(p, size)
      PROVE  SavedIsWanted'
  BY <1>7, <1>0, SwitchesKept DEF ReallocTracked, Running
<1>8. ASSUME NEW p \in Addrs, NEW size \in Sizes, ReallocUntracked(p, size)
      PROVE  SavedIsWanted'
  BY <1>8, <1>0, SwitchesKept DEF ReallocUntracked, Running
<1>9. ASSUME NEW on \in BOOLEAN, SetTracking(on)
      PROVE  SavedIsWanted'
  BY <1>9 DEF SetTracking, Running, SavedIsWanted
<1>10. ASSUME SaveAndDisable
       PROVE  SavedIsWanted'
  BY <1>10 DEF SaveAndDisable, Running, SavedIsWanted
<1>11. ASSUME RestoreTracking
       PROVE  SavedIsWanted'
  BY <1>11 DEF RestoreTracking, Running, SavedIsWanted
<1>12. ASSUME PreTest \/ GoOn \/ PostTest
       PROVE  SavedIsWanted'
  BY <1>12, SwitchesKept DEF PreTest, GoOn, PostTest, Protected, Stages
<1>13. ASSUME OtherFailure
       PROVE  SavedIsWanted'
  BY <1>13, <1>0, FailsStays, SwitchesKept DEF OtherFailure, InTest
<1>14. ASSUME NEW n \in 0 .. MaxExpected, IgnoreAllLeaksInTest \/ ExpectLeaksInTest(n)
       PROVE  SavedIsWanted'
  BY <1>14, <1>0, SwitchesKept DEF IgnoreAllLeaksInTest, ExpectLeaksInTest, InTest
<1>15. ASSUME DestroyAll
       PROVE  SavedIsWanted'
  BY <1>15 DEF DestroyAll, SavedIsWanted, Stages
<1>16. ASSUME UNCHANGED vars
       PROVE  SavedIsWanted'
  BY <1>16 DEF vars, switches, SavedIsWanted
<1>17. 0 \in 0 .. MaxExpected
  BY DEF MemLeakAssumption
<1> QED
  BY <1>1, <1>2, <1>3, <1>4, <1>5, <1>6, <1>7, <1>8, <1>9, <1>10, <1>11, <1>12, <1>13,
     <1>14, <1>15, <1>16, <1>17 DEF Next, Terminated

(* However saves and restores nest, and whatever happens between them, the *)
(* last restore brings tracking back to what it was before the first save. *)
THEOREM TrackingComesBack == Spec => []TrackingRestored
<1>1. Init => SavedIsWanted
  BY DEF Init, SavedIsWanted, Stages
<1>2. SavedIsWanted => TrackingRestored
  BY DEF SavedIsWanted, TrackingRestored, Running
<1> QED
  BY <1>1, <1>2, SavedIsWantedStep, PTL DEF Spec

-------------------------------------------------------------------------------
(* Blocks *)

(* The bytes that malloc gave for a block of this size.                    *)
RoomOf(size) == IF Recycled(size) THEN class_of(Bytes(size)) * FL_GRAIN ELSE Bytes(size)

(* What the steps of an operation keep of the memory m: the types, and     *)
(* that no block is tracked and on a freelist, or on two, or there twice.  *)
Parts(m) ==
  /\ DOMAIN m = {"room", "table", "free", "over"}
  /\ m.room \in [Addrs -> Nat]
  /\ DOMAIN m.table \subseteq Addrs
  /\ \A p \in DOMAIN m.table : m.table[p] \in Node
  /\ m.free \in [Classes -> Seq(Addrs)]
  /\ \A c \in Classes : Len(m.free[c]) <= FL_MAX_DEPTH
  /\ m.over \subseteq DOMAIN m.table

ListedIn(m) == {p \in Addrs : \E c \in Classes : \E i \in DOMAIN m.free[c] : m.free[c][i] = p}

Owned(m) ==
  /\ \A p \in DOMAIN m.table : m.room[p] = RoomOf(m.table[p].size)
  /\ \A c \in Classes : \A i \in DOMAIN m.free[c] :
       m.room[m.free[c][i]] = c * FL_GRAIN /\ m.free[c][i] \notin DOMAIN m.table
  /\ \A c \in Classes : \A i, j \in DOMAIN m.free[c] : m.free[c][i] = m.free[c][j] => i = j

Sound(m) == Parts(m) /\ Owned(m)

(* Between two steps of an operation p may belong to nobody.               *)
Loose(m, p) == p \in Addrs /\ p \notin DOMAIN m.table /\ p \notin ListedIn(m)

LEMMA RoomEnough ==
  ASSUME NEW size \in Sizes
  PROVE  /\ size \in Nat /\ Bytes(size) \in Nat
         /\ RoomOf(size) \in Nat /\ RoomOf(size) >= Bytes(size) /\ RoomOf(size) > 0
<1>1. size \in Nat
  BY MemLeakAssumption
<1>2. Bytes(size) \in Nat /\ Bytes(size) > 0
  BY <1>1 DEF Bytes, NODE_OFFSET, GUARD_SIZE
<1> DEFINE b == Bytes(size)
<1> HIDE DEF b
<1>3. b \in Nat /\ b > 0
  BY <1>2 DEF b
<1>4. /\ (b + 64 - 1) \div 64 \in Nat
      /\ ((b + 64 - 1) \div 64) * 64 >= b
  BY <1>3
<1>5. RoomOf(size) = IF Recycled(size) THEN ((b + 64 - 1) \div 64) * 64 ELSE b
  BY DEF RoomOf, class_of, FL_GRAIN, b
<1> QED
  BY <1>1, <1>2, <1>3, <1>4, <1>5 DEF b

LEMMA ClassRoom ==
  ASSUME NEW c \in Classes
  PROVE  c \in Nat /\ c * FL_GRAIN > 0
<1>1. PICK size \in Sizes : Recycled(size) /\ c = class_of(Bytes(size))
  BY DEF Classes
<1>2. RoomOf(size) = c * FL_GRAIN
  BY <1>1 DEF RoomOf
<1>3. c * FL_GRAIN > 0
  BY <1>2, RoomEnough
<1>4. Bytes(size) \in Nat
  BY RoomEnough
<1>5. (Bytes(size) + 64 - 1) \div 64 \in Nat
  BY <1>4
<1> QED
  BY <1>1, <1>3, <1>5 DEF class_of, FL_GRAIN

(* What is unused belongs to nobody.                                       *)
LEMMA UnusedIsLoose ==
  ASSUME NEW m, Sound(m), NEW p \in Unused(m)
  PROVE  Loose(m, p)
<1>1. p \in Addrs /\ m.room[p] = 0
  BY DEF Unused
<1>2. ASSUME p \in DOMAIN m.table
      PROVE  FALSE
  <2>1. m.room[p] = RoomOf(m.table[p].size) /\ m.table[p].size \in Sizes
    BY <1>2 DEF Sound, Parts, Owned, Node
  <2> QED
    BY <1>1, <2>1, RoomEnough
<1>3. ASSUME p \in ListedIn(m)
      PROVE  FALSE
  <2>1. PICK c \in Classes : m.room[p] = c * FL_GRAIN
    BY <1>3 DEF ListedIn, Sound, Owned
  <2> QED
    BY <1>1, <2>1, ClassRoom
<1> QED
  BY <1>1, <1>2, <1>3 DEF Loose

LEMMA RemovedSound ==
  ASSUME NEW m, Sound(m), NEW p \in DOMAIN m.table
  PROVE  LET r == Removed(m, p)
         IN  /\ Sound(r) /\ Loose(r, p)
             /\ r.room = m.room /\ r.free = m.free /\ ListedIn(r) = ListedIn(m)
             /\ DOMAIN r.table = DOMAIN m.table \ {p}
             /\ \A q \in DOMAIN r.table : r.table[q] = m.table[q]
             /\ r.over = m.over \ {p}
<1> DEFINE r == Removed(m, p)
<1>1. /\ DOMAIN r = DOMAIN m /\ r.room = m.room /\ r.free = m.free
      /\ r.table = [q \in DOMAIN m.table \ {p} |-> m.table[q]]
      /\ r.over = m.over \ {p}
  BY DEF Sound, Parts, Removed, Restricted
<1> HIDE DEF r
<1>2. /\ DOMAIN r.table = DOMAIN m.table \ {p}
      /\ \A q \in DOMAIN r.table : r.table[q] = m.table[q]
  BY <1>1
<1>3. Parts(r)
  BY <1>1, <1>2 DEF Sound, Parts
<1>4. Owned(r)
  BY <1>1, <1>2 DEF Sound, Owned
<1>5. ListedIn(r) = ListedIn(m)
  BY <1>1 DEF ListedIn
<1>6. Loose(r, p)
  <2>1. p \in Addrs /\ p \notin ListedIn(m)
    BY DEF Sound, Parts, Owned, ListedIn
  <2> QED
    BY <1>2, <1>5, <2>1 DEF Loose
<1> QED
  BY <1>1, <1>2, <1>3, <1>4, <1>5, <1>6 DEF r, Sound

(* Blocks that malloc takes back.                                          *)
LEMMA FreedSound ==
  ASSUME NEW m, Sound(m), NEW p, Loose(m, p)
  PROVE  LET r == Freed(m, p)
         IN  /\ Sound(r) /\ Loose(r, p)
             /\ r.table = m.table /\ r.free = m.free /\ r.over = m.over
             /\ ListedIn(r) = ListedIn(m)
             /\ r.room[p] = 0 /\ \A q \in Addrs \ {p} : r.room[q] = m.room[q]
<1> DEFINE r == Freed(m, p)
<1>1. /\ DOMAIN r = DOMAIN m /\ r.table = m.table /\ r.free = m.free /\ r.over = m.over
      /\ r.room = [m.room EXCEPT ![p] = 0]
  BY DEF Sound, Parts, Freed
<1> HIDE DEF r
<1>2. /\ r.room \in [Addrs -> Nat] /\ r.room[p] = 0
      /\ \A q \in Addrs \ {p} : r.room[q] = m.room[q]
  BY <1>1 DEF Sound, Parts, Loose
<1>3. ListedIn(r) = ListedIn(m)
  BY <1>1 DEF ListedIn
<1>4. Loose(r, p)
  BY <1>1, <1>3 DEF Loose
<1>5. Parts(r)
  BY <1>1, <1>2 DEF Sound, Parts
<1>6. Owned(r)
  <2>1. \A c \in Classes : \A i \in DOMAIN m.free[c] : m.free[c][i] \in Addrs \ {p}
    BY DEF Loose, ListedIn, Sound, Parts
  <2>2. \A q \in DOMAIN m.table : q \in Addrs \ {p}
    BY DEF Loose, Sound, Parts
  <2> QED
    BY <1>1, <1>2, <2>1, <2>2 DEF Sound, Owned
<1> QED
  BY <1>1, <1>2, <1>3, <1>4, <1>5, <1>6 DEF r, Sound

(* Lists without repetition.                                               *)
Once(s) == \A i, j \in DOMAIN s : s[i] = s[j] => i = j

LEMMA PushedOnce ==
  ASSUME NEW S, NEW s \in Seq(S), Once(s), NEW e \in S, \A i \in DOMAIN s : s[i] # e
  PROVE  /\ <<e>> \o s \in Seq(S) /\ Len(<<e>> \o s) = Len(s) + 1 /\ Once(<<e>> \o s)
         /\ \A i \in DOMAIN (<<e>> \o s) :
              (<<e>> \o s)[i] = e \/ \E j \in DOMAIN s : (<<e>> \o s)[i] = s[j]
<1> DEFINE t == <<e>> \o s
<1>1. t \in Seq(S) /\ Len(t) = Len(s) + 1 /\ Len(s) \in Nat /\ DOMAIN s = 1 .. Len(s)
  OBVIOUS
<1>2. DOMAIN t = 1 .. Len(s) + 1 /\ t[1] = e /\ \A i \in 2 .. Len(s) + 1 : t[i] = s[i - 1]
  OBVIOUS
<1> HIDE DEF t
<1>3. \A i \in 2 .. Len(s) + 1 : i - 1 \in DOMAIN s
  BY <1>1
<1>4. \A i \in DOMAIN t : i = 1 \/ i \in 2 .. Len(s) + 1
  BY <1>1, <1>2
<1>5. ASSUME NEW i \in DOMAIN t, NEW j \in DOMAIN t, t[i] = t[j]
      PROVE  i = j
  <2>1. CASE i = 1 /\ j = 1
    BY <2>1
  <2>2. CASE i \in 2 .. Len(s) + 1 /\ j \in 2 .. Len(s) + 1
    <3>1. s[i - 1] = s[j - 1] /\ i - 1 \in DOMAIN s /\ j - 1 \in DOMAIN s
      BY <1>2, <1>3, <1>5, <2>2
    <3>2. i - 1 = j - 1
      BY <3>1 DEF Once
    <3> QED
      BY <1>1, <2>2, <3>2
  <2>3. CASE (i = 1 /\ j \in 2 .. Len(s) + 1) \/ (j = 1 /\ i \in 2 .. Len(s) + 1)
    BY <1>2, <1>3, <1>5, <2>3
  <2> QED
    BY <1>4, <2>1, <2>2, <2>3
<1>6. \A i \in DOMAIN t : t[i] = e \/ \E j \in DOMAIN s : t[i] = s[j]
  BY <1>2, <1>3, <1>4
<1>7. Once(t)
  BY <1>5 DEF Once
<1> QED
  BY <1>1, <1>6, <1>7 DEF t

LEMMA TailOnce ==
  ASSUME NEW S, NEW s \in Seq(S), Once(s), s # <<>>
  PROVE  /\ Head(s) = s[1] /\ 1 \in DOMAIN s
         /\ Tail(s) \in Seq(S) /\ Len(Tail(s)) = Len(s) - 1 /\ Once(Tail(s))
         /\ \A i \in DOMAIN Tail(s) :
              Tail(s)[i] # Head(s) /\ \E j \in DOMAIN s : Tail(s)[i] = s[j]
<1> DEFINE t == Tail(s)
<1>1. /\ t \in Seq(S) /\ Len(t) = Len(s) - 1 /\ Len(s) \in Nat /\ Len(s) > 0
      /\ DOMAIN s = 1 .. Len(s) /\ Head(s) = s[1]
  OBVIOUS
<1>2. DOMAIN t = 1 .. Len(s) - 1 /\ \A i \in 1 .. Len(s) - 1 : t[i] = s[i + 1]
  OBVIOUS
<1> HIDE DEF t
<1>3. \A i \in DOMAIN t : i + 1 \in DOMAIN s /\ i + 1 # 1 /\ t[i] = s[i + 1]
  BY <1>1, <1>2
<1>4. ASSUME NEW i \in DOMAIN t, NEW j \in DOMAIN t, t[i] = t[j]
      PROVE  i = j
  <2>1. i + 1 = j + 1
    BY <1>3, <1>4 DEF Once
  <2> QED
    BY <1>1, <1>2, <2>1
<1>5. 1 \in DOMAIN s
  BY <1>1
<1>6. \A i \in DOMAIN t : t[i] # s[1] /\ \E j \in DOMAIN s : t[i] = s[j]
  BY <1>3, <1>5 DEF Once
<1>7. Once(t)
  BY <1>4 DEF Once
<1> QED
  BY <1>1, <1>5, <1>6, <1>7 DEF t

(* A block that nobody tracks any more goes to the freelist of its class,  *)
(* or back to malloc.                                                      *)
LEMMA BlockFreeSound ==
  ASSUME NEW m, Sound(m), NEW p, Loose(m, p), NEW size \in Sizes, m.room[p] = RoomOf(size)
  PROVE  LET r == BlockFree(m, p, size)
         IN  /\ Sound(r) /\ r.table = m.table /\ r.over = m.over
             /\ ListedIn(r) \subseteq ListedIn(m) \cup {p}
             /\ \A q \in Addrs \ {p} : r.room[q] = m.room[q]
<1> DEFINE c == class_of(Bytes(size))
           r == BlockFree(m, p, size)
<1>1. CASE Recycled(size) /\ Len(m.free[c]) < FL_MAX_DEPTH
  <2>1. /\ c \in Classes /\ m.free[c] \in Seq(Addrs) /\ p \in Addrs
        /\ Once(m.free[c]) /\ \A i \in DOMAIN m.free[c] : m.free[c][i] # p
    BY <1>1 DEF Classes, Sound, Parts, Owned, Loose, ListedIn, Once
  <2> DEFINE s == <<p>> \o m.free[c]
  <2>2. /\ s \in Seq(Addrs) /\ Len(s) = Len(m.free[c]) + 1 /\ Once(s)
        /\ \A i \in DOMAIN s : s[i] = p \/ \E j \in DOMAIN m.free[c] : s[i] = m.free[c][j]
    BY <2>1, PushedOnce
  <2>3. /\ DOMAIN r = DOMAIN m /\ r.table = m.table /\ r.over = m.over /\ r.room = m.room
        /\ r.free = [m.free EXCEPT ![c] = s]
    BY <1>1 DEF BlockFree, Sound, Parts
  <2>4. m.room[p] = c * FL_GRAIN
    BY <1>1 DEF RoomOf
  <2> HIDE DEF s, r, c
  <2>5. r.free \in [Classes -> Seq(Addrs)] /\ r.free[c] = s /\ \A d \in Classes \ {c} : r.free[d] = m.free[d]
    BY <2>1, <2>2, <2>3 DEF Sound, Parts
  <2>6. Len(s) <= FL_MAX_DEPTH
    BY <1>1, <2>1, <2>2, MemLeakAssumption
  <2>7. Parts(r)
    BY <2>3, <2>5, <2>6 DEF Sound, Parts
  <2>8. ASSUME NEW d \in Classes, NEW i \in DOMAIN r.free[d]
        PROVE  \/ d = c /\ r.free[d][i] = p
               \/ \E j \in DOMAIN m.free[d] : r.free[d][i] = m.free[d][j]
    BY <2>2, <2>5, <2>8
  <2>9. ListedIn(r) \subseteq ListedIn(m) \cup {p}
    BY <2>8 DEF ListedIn
  <2>10. Owned(r)
    <3>1. \A d \in Classes : Once(r.free[d])
      BY <2>2, <2>5 DEF Sound, Owned, Once
    <3>2. p \notin DOMAIN m.table
      BY DEF Loose
    <3>3. \A d \in Classes : \A i \in DOMAIN r.free[d] :
             m.room[r.free[d][i]] = d * FL_GRAIN /\ r.free[d][i] \notin DOMAIN m.table
      BY <2>4, <2>8, <3>2 DEF Sound, Owned
    <3> QED
      BY <2>3, <3>1, <3>3 DEF Sound, Owned, Once
  <2> QED
    BY <2>3, <2>7, <2>9, <2>10 DEF Sound, r
<1>2. CASE ~ (Recycled(size) /\ Len(m.free[c]) < FL_MAX_DEPTH)
  <2>1. r = Freed(m, p)
    BY <1>2 DEF BlockFree
  <2> HIDE DEF r
  <2> QED
    BY <2>1, FreedSound DEF r
<1> QED
  BY <1>1, <1>2

(* What malloc gives out belongs to nobody yet.                            *)
LEMMA RoomGiven ==
  ASSUME NEW m, Sound(m), NEW p \in Unused(m), NEW n \in Nat
  PROVE  LET r == [m EXCEPT !.room[p] = n]
         IN  /\ Sound(r) /\ Loose(r, p) /\ r.room[p] = n
             /\ r.table = m.table /\ r.free = m.free /\ r.over = m.over
             /\ ListedIn(r) = ListedIn(m)
             /\ \A q \in Addrs \ {p} : r.room[q] = m.room[q]
<1> DEFINE r == [m EXCEPT !.room[p] = n]
<1>0. Loose(m, p)
  BY UnusedIsLoose
<1>1. /\ DOMAIN r = DOMAIN m /\ r.table = m.table /\ r.free = m.free /\ r.over = m.over
      /\ r.room = [m.room EXCEPT ![p] = n]
  BY DEF Sound, Parts
<1> HIDE DEF r
<1>2. /\ r.room \in [Addrs -> Nat] /\ r.room[p] = n
      /\ \A q \in Addrs \ {p} : r.room[q] = m.room[q]
  BY <1>0, <1>1 DEF Sound, Parts, Loose
<1>3. ListedIn(r) = ListedIn(m)
  BY <1>1 DEF ListedIn
<1>4. Loose(r, p)
  BY <1>0, <1>1, <1>3 DEF Loose
<1>5. Parts(r)
  BY <1>1, <1>2 DEF Sound, Parts
<1>6. Owned(r)
  <2>1. \A c \in Classes : \A i \in DOMAIN m.free[c] : m.free[c][i] \in Addrs \ {p}
    BY <1>0 DEF Loose, ListedIn, Sound, Parts
  <2>2. \A q \in DOMAIN m.table : q \in Addrs \ {p}
    BY <1>0 DEF Loose, Sound, Parts
  <2> QED
    BY <1>1, <1>2, <2>1, <2>2 DEF Sound, Owned
<1> QED
  BY <1>1, <1>2, <1>3, <1>4, <1>5, <1>6 DEF r, Sound

(* A block from the freelist or from malloc is nobody's, and large enough. *)
LEMMA BlockAllocSound ==
  ASSUME NEW m, Sound(m), NEW size \in Sizes, NEW b \in BlockAlloc(m, size)
  PROVE  /\ DOMAIN b = {"at", "mem"}
         /\ Sound(b.mem) /\ Loose(b.mem, b.at) /\ b.mem.room[b.at] = RoomOf(size)
         /\ b.at \in ListedIn(m) \cup Unused(m) /\ b.at \notin DOMAIN m.table
         /\ b.mem.table = m.table /\ b.mem.over = m.over /\ ListedIn(b.mem) \subseteq ListedIn(m)
         /\ \A q \in Addrs \ {b.at} : b.mem.room[q] = m.room[q]
<1> DEFINE c == class_of(Bytes(size))
<1>1. CASE Recycled(size) /\ m.free[c] # <<>>
  <2>1. b = [at |-> Head(m.free[c]), mem |-> [m EXCEPT !.free[c] = Tail(@)]]
    BY <1>1 DEF BlockAlloc
  <2>2. c \in Classes /\ m.free[c] \in Seq(Addrs) /\ Once(m.free[c])
    BY <1>1 DEF Classes, Sound, Parts, Owned, Once
  <2> DEFINE p == Head(m.free[c])
             s == Tail(m.free[c])
             r == [m EXCEPT !.free[c] = s]
  <2>3. /\ p = m.free[c][1] /\ 1 \in DOMAIN m.free[c]
        /\ s \in Seq(Addrs) /\ Len(s) = Len(m.free[c]) - 1 /\ Once(s)
        /\ \A i \in DOMAIN s : s[i] # p /\ \E j \in DOMAIN m.free[c] : s[i] = m.free[c][j]
    BY <1>1, <2>2, TailOnce
  <2>4. DOMAIN b = {"at", "mem"} /\ b.at = p /\ b.mem = r
    BY <2>1
  <2>5. /\ DOMAIN r = DOMAIN m /\ r.table = m.table /\ r.over = m.over /\ r.room = m.room
        /\ r.free = [m.free EXCEPT ![c] = s]
    BY DEF Sound, Parts
  <2>6. p \in Addrs /\ p \in ListedIn(m) /\ p \notin DOMAIN m.table /\ m.room[p] = c * FL_GRAIN
    BY <2>2, <2>3 DEF ListedIn, Sound, Parts, Owned
  <2>7. RoomOf(size) = c * FL_GRAIN
    BY <1>1 DEF RoomOf
  <2> HIDE DEF p, s, r, c
  <2>8. /\ r.free \in [Classes -> Seq(Addrs)] /\ r.free[c] = s
        /\ \A d \in Classes \ {c} : r.free[d] = m.free[d]
    BY <2>2, <2>3, <2>5 DEF Sound, Parts
  <2>9. Len(s) <= FL_MAX_DEPTH
    BY <2>2, <2>3, MemLeakAssumption DEF Sound, Parts
  <2>10. Parts(r)
    BY <2>5, <2>8, <2>9 DEF Sound, Parts
  <2>11. \A d \in Classes : \A i \in DOMAIN r.free[d] :
           \E j \in DOMAIN m.free[d] : r.free[d][i] = m.free[d][j]
    <3>1. ASSUME NEW d \in Classes \ {c}, NEW i \in DOMAIN r.free[d]
          PROVE  i \in DOMAIN m.free[d] /\ r.free[d][i] = m.free[d][i]
      BY <2>8, <3>1
    <3>2. \A i \in DOMAIN r.free[c] : \E j \in DOMAIN m.free[c] : r.free[c][i] = m.free[c][j]
      BY <2>3, <2>8
    <3> QED
      BY <3>1, <3>2
  <2>12. ListedIn(r) \subseteq ListedIn(m)
    BY <2>11 DEF ListedIn
  <2>13. Owned(r)
    <3>1. \A d \in Classes : Once(r.free[d])
      BY <2>3, <2>8 DEF Sound, Owned, Once
    <3>2. \A d \in Classes : \A i \in DOMAIN r.free[d] :
            m.room[r.free[d][i]] = d * FL_GRAIN /\ r.free[d][i] \notin DOMAIN m.table
      BY <2>11 DEF Sound, Owned
    <3> QED
      BY <2>5, <3>1, <3>2 DEF Sound, Owned, Once
  <2>14. p \notin ListedIn(r)
    <3>1. ASSUME NEW d \in Classes, NEW i \in DOMAIN r.free[d], r.free[d][i] = p
          PROVE  FALSE
      <4>1. PICK j \in DOMAIN m.free[d] : p = m.free[d][j]
        BY <2>11, <3>1
      <4>2. m.room[p] = d * FL_GRAIN
        BY <4>1 DEF Sound, Owned
      <4>3. d = c
        BY <2>2, <2>6, <4>2, ClassRoom DEF FL_GRAIN
      <4> QED
        BY <2>3, <2>8, <3>1, <4>3
    <3> QED
      BY <3>1 DEF ListedIn
  <2> QED
    BY <2>4, <2>5, <2>6, <2>7, <2>10, <2>12, <2>13, <2>14 DEF Sound, Loose
<1>2. CASE ~ (Recycled(size) /\ m.free[c] # <<>>)
  <2>1. PICK p \in Unused(m) : b = [at |-> p, mem |-> [m EXCEPT !.room[p] = RoomOf(size)]]
    BY <1>2 DEF BlockAlloc, RoomOf
  <2>2. RoomOf(size) \in Nat
    BY RoomEnough
  <2>3. DOMAIN b = {"at", "mem"} /\ b.at = p /\ b.mem = [m EXCEPT !.room[p] = RoomOf(size)]
    BY <2>1
  <2>4. Loose(m, p)
    BY UnusedIsLoose
  <2> QED
    BY <2>2, <2>3, <2>4, RoomGiven DEF Loose
<1> QED
  BY <1>1, <1>2

LEMMA AllocRawSound ==
  ASSUME NEW m, Sound(m), NEW size \in Sizes, NEW b \in AllocRaw(m, size)
  PROVE  /\ Sound(b.mem) /\ Loose(b.mem, b.at) /\ b.at \in Unused(m) /\ b.mem.room[b.at] > 0
         /\ b.mem.table = m.table /\ b.mem.over = m.over /\ ListedIn(b.mem) = ListedIn(m)
         /\ \A q \in Addrs \ {b.at} : b.mem.room[q] = m.room[q]
<1>1. PICK p \in Unused(m) : b = [at |-> p, mem |-> [m EXCEPT !.room[p] = size + 1]]
  BY DEF AllocRaw
<1> DEFINE n == size + 1
<1>2. b.at = p /\ b.mem = [m EXCEPT !.room[p] = n]
  BY <1>1
<1>3. n \in Nat /\ n > 0
  BY RoomEnough
<1> HIDE DEF n
<1>4. /\ Sound(b.mem) /\ Loose(b.mem, p) /\ b.mem.room[p] = n
      /\ b.mem.table = m.table /\ b.mem.over = m.over /\ ListedIn(b.mem) = ListedIn(m)
      /\ \A q \in Addrs \ {p} : b.mem.room[q] = m.room[q]
  BY <1>2, <1>3, RoomGiven
<1> QED
  BY <1>2, <1>3, <1>4

(* Recorded in the table, it has its one owner.                            *)
LEMMA AllocTrackedSound ==
  ASSUME NEW m, Sound(m), checking_now \in BOOLEAN, NEW size \in Sizes, NEW kind \in Kinds,
         NEW b \in AllocTracked(m, size, kind)
  PROVE  /\ Sound(b.mem) /\ b.at \in Addrs /\ b.at \in ListedIn(m) \cup Unused(m)
         /\ b.at \notin DOMAIN m.table /\ b.at \notin ListedIn(b.mem)
         /\ DOMAIN b.mem.table = DOMAIN m.table \cup {b.at}
         /\ b.mem.table[b.at] = [size |-> size, type |-> kind, checking |-> checking_now]
         /\ \A q \in DOMAIN m.table : b.mem.table[q] = m.table[q]
         /\ b.mem.over = m.over /\ ListedIn(b.mem) \subseteq ListedIn(m)
         /\ \A q \in Addrs \ {b.at} : b.mem.room[q] = m.room[q]
<1> DEFINE node == [size |-> size, type |-> kind, checking |-> checking_now]
<1>1. PICK a \in BlockAlloc(m, size) : b = [a EXCEPT !.mem.table = With(@, a.at, node)]
  BY DEF AllocTracked
<1>2. /\ DOMAIN a = {"at", "mem"} /\ Sound(a.mem) /\ Loose(a.mem, a.at)
      /\ a.mem.room[a.at] = RoomOf(size)
      /\ a.at \in ListedIn(m) \cup Unused(m) /\ a.at \notin DOMAIN m.table
      /\ a.mem.table = m.table /\ a.mem.over = m.over /\ ListedIn(a.mem) \subseteq ListedIn(m)
      /\ \A q \in Addrs \ {a.at} : a.mem.room[q] = m.room[q]
  BY BlockAllocSound
<1>3. node \in Node /\ node.size = size
  BY DEF Node
<1> HIDE DEF node
<1> DEFINE r == b.mem
<1>4. /\ b.at = a.at /\ DOMAIN r = DOMAIN a.mem
      /\ r.room = a.mem.room /\ r.free = a.mem.free /\ r.over = a.mem.over
      /\ r.table = With(m.table, a.at, node)
  BY <1>1, <1>2 DEF Sound, Parts
<1> HIDE DEF r
<1>5. /\ DOMAIN r.table = DOMAIN m.table \cup {a.at} /\ r.table[a.at] = node
      /\ \A q \in DOMAIN m.table : r.table[q] = m.table[q]
  BY <1>2, <1>4 DEF With
<1>6. Parts(r)
  BY <1>2, <1>3, <1>4, <1>5 DEF Sound, Parts, Loose
<1>7. ListedIn(r) = ListedIn(a.mem)
  BY <1>4 DEF ListedIn
<1>8. Owned(r)
  <2>1. \A p \in DOMAIN r.table : r.room[p] = RoomOf(r.table[p].size)
    BY <1>2, <1>3, <1>4, <1>5 DEF Sound, Owned
  <2>2. \A c \in Classes : \A i \in DOMAIN r.free[c] : r.free[c][i] \in ListedIn(a.mem)
    BY <1>2, <1>4 DEF ListedIn, Sound, Parts
  <2>3. \A c \in Classes : \A i \in DOMAIN r.free[c] :
          r.room[r.free[c][i]] = c * FL_GRAIN /\ r.free[c][i] \notin DOMAIN r.table
    BY <1>2, <1>4, <1>5, <2>2 DEF Sound, Owned, Loose
  <2> QED
    BY <1>2, <1>4, <2>1, <2>3 DEF Sound, Owned
<1> QED
  BY <1>2, <1>4, <1>5, <1>6, <1>7, <1>8 DEF r, Sound, Loose, node

-------------------------------------------------------------------------------
(* The user's account *)

(* What the user holds in h agrees with the memory m: what was obtained    *)
(* under tracking is in the table with its kind, and is the test's own     *)
(* while its node is checked; what is on a freelist is nobody's.           *)
Accounts(h, m) ==
  /\ h \in [Addrs -> Holding]
  /\ \A p \in DOMAIN m.table : h[p].tracked /\ h[p].kind = m.table[p].type
  /\ \A p \in Addrs : h[p].tracked => p \in DOMAIN m.table
  /\ \A p \in Addrs : h[p].own => p \in DOMAIN m.table /\ m.table[p].checking
  /\ \A p \in DOMAIN m.table : m.table[p].checking => h[p].own
  /\ \A p \in ListedIn(m) : h[p] = Nothing
  /\ \A p \in Addrs : h[p] # Nothing => m.room[p] > 0

(* Something obtained under tracking, and something that was not.          *)
Tracked(kind, own) == [tracked |-> TRUE, kind |-> kind, own |-> own]
Raw(kind) == [tracked |-> FALSE, kind |-> kind, own |-> FALSE]

LEMMA HoldingFields ==
  /\ Nothing \in Holding /\ ~ Nothing.tracked /\ ~ Nothing.own
  /\ \A kind \in Kinds, own \in BOOLEAN :
       /\ Tracked(kind, own) \in Holding /\ Tracked(kind, own).kind = kind
       /\ Tracked(kind, own).tracked /\ (Tracked(kind, own).own <=> own)
  /\ \A kind \in Kinds :
       Raw(kind) \in Holding /\ ~ Raw(kind).tracked /\ ~ Raw(kind).own
  BY DEF Nothing, Holding, Tracked, Raw

LEMMA TrackedHeld ==
  ASSUME NEW m, Sound(m), NEW h, Accounts(h, m), NEW p \in DOMAIN m.table
  PROVE  p \in Addrs /\ h[p].tracked /\ h[p] # Nothing /\ m.room[p] > 0 /\ p \notin ListedIn(m)
  BY HoldingFields DEF Sound, Parts, Accounts

LEMMA GiveTracked ==
  ASSUME NEW m, Sound(m), NEW h, Accounts(h, m), checking_now \in BOOLEAN, NEW size \in Sizes,
         NEW kind \in Kinds, NEW b \in AllocTracked(m, size, kind)
  PROVE  Accounts([h EXCEPT ![b.at] = Tracked(kind, checking_now)], b.mem)
<1> DEFINE k == [h EXCEPT ![b.at] = Tracked(kind, checking_now)]
           node == [size |-> size, type |-> kind, checking |-> checking_now]
<1>1. /\ Sound(b.mem) /\ b.at \in Addrs
      /\ b.at \notin DOMAIN m.table /\ b.at \notin ListedIn(b.mem)
      /\ DOMAIN b.mem.table = DOMAIN m.table \cup {b.at}
      /\ b.mem.table[b.at] = node
      /\ \A q \in DOMAIN m.table : b.mem.table[q] = m.table[q]
      /\ ListedIn(b.mem) \subseteq ListedIn(m)
      /\ \A q \in Addrs \ {b.at} : b.mem.room[q] = m.room[q]
  BY AllocTrackedSound
<1>2. b.mem.room[b.at] > 0
  <2>1. /\ b.mem.table[b.at] \in Node /\ b.mem.room[b.at] = RoomOf(b.mem.table[b.at].size)
    BY <1>1 DEF Sound, Parts, Owned
  <2> QED
    BY <2>1, RoomEnough DEF Node
<1>3. node.type = kind /\ node.checking = checking_now
  OBVIOUS
<1>4. /\ k \in [Addrs -> Holding] /\ k[b.at] = Tracked(kind, checking_now)
      /\ \A q \in Addrs \ {b.at} : k[q] = h[q]
  BY <1>1, HoldingFields DEF Accounts
<1> HIDE DEF k, node
<1>5. /\ k[b.at].tracked /\ k[b.at].kind = kind /\ (k[b.at].own <=> checking_now)
  BY <1>4, HoldingFields
<1>6. DOMAIN m.table \subseteq Addrs \ {b.at} /\ ListedIn(b.mem) \subseteq Addrs \ {b.at}
  BY <1>1 DEF Sound, Parts, ListedIn
<1>7. /\ \A p \in DOMAIN b.mem.table : k[p].tracked /\ k[p].kind = b.mem.table[p].type
      /\ \A p \in Addrs : k[p].tracked => p \in DOMAIN b.mem.table
  BY <1>1, <1>3, <1>4, <1>5, <1>6 DEF Accounts
<1>8. /\ \A p \in Addrs : k[p].own => p \in DOMAIN b.mem.table /\ b.mem.table[p].checking
      /\ \A p \in DOMAIN b.mem.table : b.mem.table[p].checking => k[p].own
  BY <1>1, <1>3, <1>4, <1>5, <1>6 DEF Accounts
<1>9. \A p \in ListedIn(b.mem) : k[p] = Nothing
  BY <1>1, <1>4, <1>6 DEF Accounts
<1>10. \A p \in Addrs : k[p] # Nothing => b.mem.room[p] > 0
  BY <1>1, <1>2, <1>4 DEF Accounts
<1> QED
  BY <1>4, <1>7, <1>8, <1>9, <1>10 DEF Accounts, k

(* Nobody holds what is unused.                                            *)
LEMMA GiveRaw ==
  ASSUME NEW m, Sound(m), NEW h, Accounts(h, m), NEW size \in Sizes,
         NEW kind \in Kinds, NEW b \in AllocRaw(m, size)
  PROVE  Accounts([h EXCEPT ![b.at] = Raw(kind)], b.mem)
<1> DEFINE k == [h EXCEPT ![b.at] = Raw(kind)]
<1>1. /\ Sound(b.mem) /\ Loose(b.mem, b.at) /\ b.at \in Addrs /\ b.mem.room[b.at] > 0
      /\ b.mem.table = m.table /\ ListedIn(b.mem) = ListedIn(m)
      /\ \A q \in Addrs \ {b.at} : b.mem.room[q] = m.room[q]
  BY AllocRawSound DEF Unused
<1>2. /\ k \in [Addrs -> Holding] /\ k[b.at] = Raw(kind)
      /\ \A q \in Addrs \ {b.at} : k[q] = h[q]
  BY <1>1, HoldingFields DEF Accounts
<1> HIDE DEF k
<1>3. ~ k[b.at].tracked /\ ~ k[b.at].own
  BY <1>2, HoldingFields
<1>4. DOMAIN m.table \subseteq Addrs \ {b.at} /\ ListedIn(m) \subseteq Addrs \ {b.at}
  BY <1>1 DEF Sound, Parts, Loose, ListedIn
<1> QED
  BY <1>1, <1>2, <1>3, <1>4 DEF Accounts, k

(* What the user gives back leaves the table.                              *)
LEMMA TakeBack ==
  ASSUME NEW m, Sound(m), NEW h, Accounts(h, m), NEW p \in DOMAIN m.table
  PROVE  /\ Sound(Removed(m, p)) /\ Loose(Removed(m, p), p)
         /\ Accounts(GivenBack(h, p), Removed(m, p)) /\ GivenBack(h, p)[p] = Nothing
<1> DEFINE r == Removed(m, p)
           k == GivenBack(h, p)
<1>1. /\ Sound(r) /\ Loose(r, p)
      /\ r.room = m.room /\ ListedIn(r) = ListedIn(m)
      /\ DOMAIN r.table = DOMAIN m.table \ {p}
      /\ \A q \in DOMAIN r.table : r.table[q] = m.table[q]
  BY RemovedSound
<1>2. /\ k \in [Addrs -> Holding] /\ k[p] = Nothing
      /\ \A q \in Addrs \ {p} : k[q] = h[q] /\ p \in Addrs
  BY HoldingFields DEF Sound, Parts, Accounts, GivenBack
<1> HIDE DEF r, k
<1>3. ~ k[p].tracked /\ ~ k[p].own
  BY <1>2, HoldingFields
<1>4. DOMAIN m.table \subseteq Addrs /\ ListedIn(m) \subseteq Addrs
  BY DEF Sound, Parts, ListedIn
<1>5. Accounts(k, r)
  BY <1>1, <1>2, <1>3, <1>4 DEF Accounts
<1> QED
  BY <1>1, <1>2, <1>5 DEF r, k

(* What nobody holds may go to a freelist or to malloc.                    *)
LEMMA LetGo ==
  ASSUME NEW m, Sound(m), NEW h, Accounts(h, m), NEW p, Loose(m, p), h[p] = Nothing
  PROVE  /\ Sound(Freed(m, p)) /\ Accounts(h, Freed(m, p))
         /\ \A size \in Sizes : m.room[p] = RoomOf(size) =>
              Sound(BlockFree(m, p, size)) /\ Accounts(h, BlockFree(m, p, size))
<1>1. ASSUME NEW r, r.table = m.table, ListedIn(r) \subseteq ListedIn(m) \cup {p},
             \A q \in Addrs \ {p} : r.room[q] = m.room[q]
      PROVE  Accounts(h, r)
  BY <1>1 DEF Accounts
<1>2. Sound(Freed(m, p)) /\ Accounts(h, Freed(m, p))
  <2> DEFINE r == Freed(m, p)
  <2>1. /\ Sound(r) /\ r.table = m.table /\ ListedIn(r) \subseteq ListedIn(m) \cup {p}
        /\ \A q \in Addrs \ {p} : r.room[q] = m.room[q]
    BY FreedSound
  <2> HIDE DEF r
  <2> QED
    BY <1>1, <2>1 DEF r
<1>3. ASSUME NEW size \in Sizes, m.room[p] = RoomOf(size)
      PROVE  Sound(BlockFree(m, p, size)) /\ Accounts(h, BlockFree(m, p, size))
  <2> DEFINE r == BlockFree(m, p, size)
  <2>1. /\ Sound(r) /\ r.table = m.table /\ ListedIn(r) \subseteq ListedIn(m) \cup {p}
        /\ \A q \in Addrs \ {p} : r.room[q] = m.room[q]
    BY <1>3, BlockFreeSound
  <2> HIDE DEF r
  <2> QED
    BY <1>1, <2>1 DEF r
<1> QED
  BY <1>2, <1>3

-------------------------------------------------------------------------------
(* The steps *)

Switched ==
  /\ tracking_on \in BOOLEAN /\ saved_tracking_state \in BOOLEAN /\ wanted \in BOOLEAN
  /\ save_counter \in 0 .. MaxSaves
  /\ checking_now \in BOOLEAN /\ ignoreAllWarnings \in BOOLEAN
  /\ expectedLeaks \in 0 .. MaxExpected
  /\ stage \in Stages /\ causes \subseteq {"memory", "other", "leak"}
  /\ wrong \in BOOLEAN

Agreed == Sound(Memory) /\ Accounts(held, Memory)

LEMMA MemoryParts ==
  /\ Memory.room = room /\ Memory.table = table
  /\ Memory.free = freelists /\ Memory.over = overwritten
  BY DEF Memory

(* What an operation has made of the memory is the memory afterwards.      *)
LEMMA AgreedAfter ==
  ASSUME NEW m, Sound(m), Accounts(held', m), MemoryBecomes(m)
  PROVE  Agreed'
<1>1. /\ Memory'.room = m.room /\ Memory'.table = m.table
      /\ Memory'.free = m.free /\ Memory'.over = m.over
      /\ DOMAIN Memory' = {"room", "table", "free", "over"}
  BY DEF Memory, MemoryBecomes
<1> DEFINE n == Memory'
<1> HIDE DEF n
<1>2. /\ n.room = m.room /\ n.table = m.table /\ n.free = m.free /\ n.over = m.over
      /\ DOMAIN n = DOMAIN m
  BY <1>1 DEF n, Sound, Parts
<1>3. ListedIn(n) = ListedIn(m)
  BY <1>2 DEF ListedIn
<1>4. Sound(n)
  BY <1>2 DEF Sound, Parts, Owned
<1>5. Accounts(held', n)
  BY <1>2, <1>3 DEF Accounts
<1> QED
  BY <1>4, <1>5 DEF Agreed, n

(* A step that leaves memory alone.                                        *)
LEMMA AgreedKept ==
  ASSUME Agreed, UNCHANGED <<memory, held>>
  PROVE  Agreed'
<1>1. MemoryBecomes(Memory)
  BY MemoryParts DEF MemoryBecomes, memory
<1> QED
  BY <1>1, AgreedAfter DEF Agreed

LEMMA AllocAgreed ==
  ASSUME Agreed, Switched, NEW kind \in Kinds, NEW size \in Sizes, Alloc(kind, size)
  PROVE  Agreed'
<1>1. CASE tracking_on
  <2>1. PICK b \in AllocTracked(Memory, size, kind) :
          /\ MemoryBecomes(b.mem)
          /\ held' = [held EXCEPT ![b.at] = [tracked |-> tracking_on, kind |-> kind,
                                             own |-> tracking_on /\ checking_now]]
    BY <1>1 DEF Alloc, HeldAs
  <2>2. [tracked |-> tracking_on, kind |-> kind, own |-> tracking_on /\ checking_now]
          = Tracked(kind, checking_now)
    <3>1. tracking_on = TRUE /\ (tracking_on /\ checking_now) = checking_now
      BY <1>1 DEF Switched
    <3> QED
      BY <3>1 DEF Tracked
  <2>3. held' = [held EXCEPT ![b.at] = Tracked(kind, checking_now)]
    BY <2>1, <2>2
  <2>4. Sound(b.mem) /\ Accounts(held', b.mem)
    BY <2>3, AllocTrackedSound, GiveTracked DEF Agreed, Switched
  <2> QED
    BY <2>1, <2>4, AgreedAfter
<1>2. CASE ~ tracking_on
  <2>1. PICK b \in AllocRaw(Memory, size) :
          /\ MemoryBecomes(b.mem)
          /\ held' = [held EXCEPT ![b.at] = [tracked |-> tracking_on, kind |-> kind,
                                             own |-> tracking_on /\ checking_now]]
    BY <1>2 DEF Alloc, HeldAs
  <2>2. [tracked |-> tracking_on, kind |-> kind, own |-> tracking_on /\ checking_now] = Raw(kind)
    <3>1. tracking_on = FALSE /\ (tracking_on /\ checking_now) = FALSE
      BY <1>2 DEF Switched
    <3> QED
      BY <3>1 DEF Raw
  <2>3. held' = [held EXCEPT ![b.at] = Raw(kind)]
    BY <2>1, <2>2
  <2>4. Sound(b.mem) /\ Accounts(held', b.mem)
    BY <2>3, AllocRawSound, GiveRaw DEF Agreed
  <2> QED
    BY <2>1, <2>4, AgreedAfter
<1> QED
  BY <1>1, <1>2

(* A tracked block that has left the table, on its way to a freelist.      *)
LEMMA TakenBlock ==
  ASSUME Agreed, NEW p \in DOMAIN table
  PROVE  LET r == Removed(Memory, p)
             k == GivenBack(held, p)
         IN  /\ Sound(r) /\ Loose(r, p) /\ Accounts(k, r) /\ k[p] = Nothing
             /\ table[p].size \in Sizes /\ r.room[p] = RoomOf(table[p].size)
<1>1. p \in DOMAIN Memory.table /\ Memory.table[p].size = table[p].size
  BY MemoryParts
<1> DEFINE r == Removed(Memory, p)
           k == GivenBack(held, p)
<1>2. Sound(r) /\ Loose(r, p) /\ Accounts(k, r) /\ k[p] = Nothing
  BY <1>1, TakeBack DEF Agreed
<1>3. table[p].size \in Sizes /\ r.room[p] = RoomOf(table[p].size)
  BY <1>1, RemovedSound DEF Agreed, Sound, Parts, Owned, Node
<1> QED
  BY <1>2, <1>3

(* A tracked block that is given back, as it should be or not.             *)
LEMMA GoneAgreed ==
  ASSUME Agreed, NEW p \in DOMAIN table, held' = GivenBack(held, p),
         \/ MemoryBecomes(Discarded(Memory, p))
         \/ MemoryBecomes(BlockFree(Removed(Memory, p), p, table[p].size))
  PROVE  Agreed'
<1> DEFINE r == Removed(Memory, p)
           k == GivenBack(held, p)
<1>2. Sound(r) /\ Loose(r, p) /\ Accounts(k, r) /\ k[p] = Nothing
  BY TakenBlock
<1>3. table[p].size \in Sizes /\ r.room[p] = RoomOf(table[p].size)
  BY TakenBlock
<1> HIDE DEF r, k
<1>4. /\ Sound(Freed(r, p)) /\ Accounts(k, Freed(r, p))
      /\ Sound(BlockFree(r, p, table[p].size)) /\ Accounts(k, BlockFree(r, p, table[p].size))
  BY <1>2, <1>3, LetGo
<1>5. CASE MemoryBecomes(Discarded(Memory, p))
  <2>1. Discarded(Memory, p) = r \/ Discarded(Memory, p) = Freed(r, p)
    BY DEF Discarded, r
  <2>2. Sound(Discarded(Memory, p)) /\ Accounts(held', Discarded(Memory, p))
    BY <1>2, <1>4, <2>1 DEF k
  <2> QED
    BY <1>5, <2>2, AgreedAfter
<1>6. CASE MemoryBecomes(BlockFree(Removed(Memory, p), p, table[p].size))
  <2>1. MemoryBecomes(BlockFree(r, p, table[p].size)) /\ held' = k
    BY <1>6 DEF r, k
  <2> QED
    BY <1>4, <2>1, AgreedAfter
<1> QED
  BY <1>5, <1>6

LEMMA ReleaseAgreed ==
  ASSUME Agreed, NEW p \in Addrs, ReleaseIfTracked(p)
  PROVE  Agreed'
<1>1. CASE p \in DOMAIN table
  BY <1>1, GoneAgreed DEF ReleaseIfTracked
<1>2. CASE p \notin DOMAIN table
  <2> DEFINE k == GivenBack(held, p)
  <2>1. held' = k /\ MemoryBecomes(Freed(Memory, p)) /\ held[p] # Nothing
    BY <1>2 DEF ReleaseIfTracked
  <2>2. Loose(Memory, p)
    BY <1>2, <2>1, MemoryParts DEF Agreed, Accounts, Loose
  <2>3. k \in [Addrs -> Holding] /\ k[p] = Nothing /\ \A q \in Addrs \ {p} : k[q] = held[q]
    BY HoldingFields DEF Agreed, Accounts, GivenBack
  <2> HIDE DEF k
  <2>4. Accounts(k, Memory)
    <3>1. DOMAIN Memory.table \subseteq Addrs \ {p} /\ ListedIn(Memory) \subseteq Addrs
      BY <1>2, MemoryParts DEF Agreed, Sound, Parts, ListedIn
    <3>2. ~ k[p].tracked /\ ~ k[p].own
      BY <2>3, HoldingFields
    <3> QED
      BY <2>3, <3>1, <3>2 DEF Agreed, Accounts
  <2>5. Sound(Freed(Memory, p)) /\ Accounts(k, Freed(Memory, p))
    BY <2>2, <2>3, <2>4, LetGo DEF Agreed
  <2> QED
    BY <2>1, <2>5, AgreedAfter
<1> QED
  BY <1>1, <1>2

LEMMA ReallocTrackedAgreed ==
  ASSUME Agreed, Switched, NEW p \in Addrs, NEW size \in Sizes, ReallocTracked(p, size)
  PROVE  Agreed'
<1> DEFINE r == Removed(Memory, p)
           k == GivenBack(held, p)
           old == table[p].size
<1>1. PICK b \in AllocTracked(r, size, "malloc") :
        /\ MemoryBecomes(BlockFree(b.mem, p, old))
        /\ held' = [k EXCEPT ![b.at] = [tracked |-> TRUE, kind |-> "malloc", own |-> checking_now]]
  BY DEF ReallocTracked
<1>3. Sound(r) /\ Loose(r, p) /\ Accounts(k, r) /\ k[p] = Nothing
  BY TakenBlock DEF ReallocTracked
<1>4. old \in Sizes /\ r.room[p] = RoomOf(old)
  BY TakenBlock DEF ReallocTracked
<1> HIDE DEF r, k, old
<1>5. held' = [k EXCEPT ![b.at] = Tracked("malloc", checking_now)]
  BY <1>1 DEF Tracked
<1>6. /\ Sound(b.mem) /\ b.at \in Addrs /\ b.at \in ListedIn(r) \cup Unused(r)
      /\ DOMAIN b.mem.table = DOMAIN r.table \cup {b.at}
      /\ ListedIn(b.mem) \subseteq ListedIn(r)
      /\ \A q \in Addrs \ {b.at} : b.mem.room[q] = r.room[q]
  BY <1>1, <1>3, AllocTrackedSound, MemLeakAssumption DEF Switched
<1>7. Accounts(held', b.mem)
  <2>1. Accounts([k EXCEPT ![b.at] = Tracked("malloc", checking_now)], b.mem)
    BY <1>1, <1>3, GiveTracked, MemLeakAssumption DEF Switched
  <2> QED
    BY <1>5, <2>1
<1>8. b.at # p
  BY <1>3, <1>4, <1>6, RoomEnough DEF Loose, Unused
<1>9. Loose(b.mem, p) /\ held'[p] = Nothing /\ b.mem.room[p] = RoomOf(old)
  BY <1>3, <1>4, <1>5, <1>6, <1>8 DEF Loose, Accounts
<1>10. Sound(BlockFree(b.mem, p, old)) /\ Accounts(held', BlockFree(b.mem, p, old))
  BY <1>4, <1>6, <1>7, <1>9, LetGo
<1> QED
  BY <1>1, <1>10, AgreedAfter

LEMMA ReallocUntrackedAgreed ==
  ASSUME Agreed, NEW p \in Addrs, NEW size \in Sizes, ReallocUntracked(p, size)
  PROVE  Agreed'
<1>1. CASE p \in DOMAIN table
  <2> DEFINE r == Removed(Memory, p)
             k == GivenBack(held, p)
             old == table[p].size
  <2>1. PICK b \in AllocRaw(r, size) :
          /\ MemoryBecomes(BlockFree(b.mem, p, old))
          /\ held' = [k EXCEPT ![b.at] = [tracked |-> FALSE, kind |-> "malloc", own |-> FALSE]]
    BY <1>1 DEF ReallocUntracked
  <2>3. Sound(r) /\ Loose(r, p) /\ Accounts(k, r) /\ k[p] = Nothing
    BY <1>1, TakenBlock
  <2>4. old \in Sizes /\ r.room[p] = RoomOf(old)
    BY <1>1, TakenBlock
  <2> HIDE DEF r, k, old
  <2>5. held' = [k EXCEPT ![b.at] = Raw("malloc")]
    BY <2>1 DEF Raw
  <2>6. /\ Sound(b.mem) /\ b.at \in Unused(r)
        /\ b.mem.table = r.table /\ ListedIn(b.mem) = ListedIn(r)
        /\ \A q \in Addrs \ {b.at} : b.mem.room[q] = r.room[q]
    BY <2>1, <2>3, AllocRawSound
  <2>7. Accounts(held', b.mem)
    <3>1. Accounts([k EXCEPT ![b.at] = Raw("malloc")], b.mem)
      BY <2>1, <2>3, GiveRaw, MemLeakAssumption
    <3> QED
      BY <2>5, <3>1
  <2>8. b.at # p /\ b.at \in Addrs
    BY <2>4, <2>6, RoomEnough DEF Unused
  <2>9. Loose(b.mem, p) /\ held'[p] = Nothing /\ b.mem.room[p] = RoomOf(old)
    BY <2>3, <2>4, <2>5, <2>6, <2>8 DEF Loose, Accounts
  <2>10. Sound(BlockFree(b.mem, p, old)) /\ Accounts(held', BlockFree(b.mem, p, old))
    BY <2>4, <2>6, <2>7, <2>9, LetGo
  <2> QED
    BY <2>1, <2>10, AgreedAfter
<1>2. CASE p \notin DOMAIN table
  <2> DEFINE r == [Memory EXCEPT !.room = [room EXCEPT ![p] = size + 1]]
  <2>1. /\ MemoryBecomes(r) /\ held[p] # Nothing
        /\ held' = [held EXCEPT ![p] = Raw("malloc")]
    BY <1>2 DEF ReallocUntracked, Memory, MemoryBecomes, Raw
  <2>2. size + 1 \in Nat /\ size + 1 > 0
    BY RoomEnough
  <2>3. /\ DOMAIN r = DOMAIN Memory
        /\ r.table = Memory.table /\ r.free = Memory.free /\ r.over = Memory.over
        /\ r.room = [Memory.room EXCEPT ![p] = size + 1]
    BY DEF Memory
  <2> HIDE DEF r
  <2>4. /\ r.room \in [Addrs -> Nat] /\ r.room[p] > 0
        /\ \A q \in Addrs \ {p} : r.room[q] = Memory.room[q]
    BY <2>2, <2>3 DEF Agreed, Sound, Parts
  <2>5. ListedIn(r) = ListedIn(Memory)
    BY <2>3 DEF ListedIn
  <2>6. p \notin ListedIn(Memory) /\ p \notin DOMAIN Memory.table
    BY <1>2, <2>1, MemoryParts DEF Agreed, Accounts
  <2>7. DOMAIN Memory.table \subseteq Addrs \ {p} /\ ListedIn(Memory) \subseteq Addrs \ {p}
    BY <2>6 DEF Agreed, Sound, Parts, ListedIn
  <2>8. /\ held' \in [Addrs -> Holding] /\ ~ held'[p].tracked /\ ~ held'[p].own
        /\ \A q \in Addrs \ {p} : held'[q] = held[q]
    BY <2>1, HoldingFields, MemLeakAssumption DEF Agreed, Accounts
  <2>9. Accounts(held', r)
    BY <2>3, <2>4, <2>5, <2>7, <2>8 DEF Agreed, Accounts
  <2>10. Sound(r)
    <3>1. Parts(r)
      BY <2>3, <2>4 DEF Agreed, Sound, Parts
    <3>2. \A c \in Classes : \A i \in DOMAIN r.free[c] : r.free[c][i] \in Addrs \ {p}
      BY <2>3, <2>7 DEF ListedIn, Agreed, Sound, Parts
    <3>3. Owned(r)
      BY <2>3, <2>4, <2>7, <3>2 DEF Agreed, Sound, Owned
    <3> QED
      BY <3>1, <3>3 DEF Sound
  <2> QED
    BY <2>1, <2>9, <2>10, AgreedAfter
<1> QED
  BY <1>1, <1>2

LEMMA FreeAgreed ==
  ASSUME Agreed, NEW p \in Addrs,
         \/ \E kind \in Kinds : FreeTracked(p, kind)
         \/ ReallocRefused(p)
  PROVE  Agreed'
<1>1. CASE p \in DOMAIN table
  <2>1. held' = GivenBack(held, p)
    BY <1>1 DEF FreeTracked, ReallocRefused
  <2>2. \/ MemoryBecomes(Discarded(Memory, p))
        \/ MemoryBecomes(BlockFree(Removed(Memory, p), p, table[p].size))
    BY <1>1 DEF FreeTracked, ReallocRefused
  <2> QED
    BY <1>1, <2>1, <2>2, GoneAgreed
<1>2. CASE p \notin DOMAIN table
  BY <1>2, AgreedKept DEF FreeTracked, ReallocRefused
<1> QED
  BY <1>1, <1>2

(* Writing over a block, and an enlargement that malloc refuses.           *)
LEMMA OverwrittenAgreed ==
  ASSUME Agreed, NEW p \in Addrs, Overwrite(p) \/ ReallocFails(p)
  PROVE  Agreed'
<1> DEFINE over == IF Overwrite(p) THEN overwritten \cup {p} ELSE overwritten \ {p}
           m == [room |-> room, table |-> table, free |-> freelists, over |-> over]
<1>1. MemoryBecomes(m) /\ held' = held
  <2>1. CASE Overwrite(p)
    BY <2>1 DEF Overwrite, MemoryBecomes
  <2>2. CASE ~ Overwrite(p)
    BY <2>2 DEF ReallocFails, MemoryBecomes, Memory, Removed
  <2> QED
    BY <2>1, <2>2
<1>2. over \subseteq DOMAIN table
  BY MemoryParts DEF Agreed, Sound, Parts, Overwrite
<1> HIDE DEF over
<1>3. Sound(m) /\ ListedIn(m) = ListedIn(Memory)
  BY <1>2 DEF Agreed, Sound, Parts, Owned, ListedIn, Memory
<1>4. Accounts(held, m)
  BY <1>3 DEF Agreed, Accounts, Memory
<1> HIDE DEF m
<1> QED
  BY <1>1, <1>3, <1>4, AgreedAfter

LEMMA PostTestAgreed ==
  ASSUME Agreed, PostTest
  PROVE  Agreed'
<1> DEFINE t == mark_checking_as_global(table)
           m == [room |-> room, table |-> t, free |-> freelists, over |-> overwritten]
           k == [p \in Addrs |-> IF held[p] = Nothing THEN Nothing ELSE [held[p] EXCEPT !.own = FALSE]]
<1>1. MemoryBecomes(m) /\ held' = k
  BY DEF PostTest, MemoryBecomes
<1>2. /\ DOMAIN t = DOMAIN table
      /\ \A p \in DOMAIN table : t[p] = [table[p] EXCEPT !.checking = FALSE]
  BY DEF mark_checking_as_global
<1>3. \A p \in DOMAIN table : table[p] \in Node
  BY MemoryParts DEF Agreed, Sound, Parts
<1>4. \A p \in DOMAIN table : /\ t[p] \in Node /\ t[p].size = table[p].size
                              /\ t[p].type = table[p].type /\ ~ t[p].checking
  BY <1>2, <1>3 DEF Node
<1> HIDE DEF t
<1>5. Sound(m) /\ ListedIn(m) = ListedIn(Memory)
  BY <1>2, <1>4 DEF Agreed, Sound, Parts, Owned, ListedIn, Memory
<1>6. \A p \in Addrs : held[p] \in Holding
  BY DEF Agreed, Accounts
<1>7. ASSUME NEW p \in Addrs
      PROVE  /\ k[p] \in Holding /\ (k[p].tracked <=> held[p].tracked) /\ k[p].kind = held[p].kind
             /\ ~ k[p].own /\ (held[p] = Nothing => k[p] = Nothing)
             /\ (k[p] # Nothing => held[p] # Nothing)
  <2>1. CASE held[p] = Nothing
    BY <2>1, HoldingFields
  <2>2. CASE held[p] # Nothing
    <3>1. held[p] \in [tracked : BOOLEAN, kind : Kinds, own : BOOLEAN]
      BY <1>6, <2>2 DEF Holding
    <3>2. k[p] = [held[p] EXCEPT !.own = FALSE]
      BY <2>2
    <3>3. /\ k[p] \in [tracked : BOOLEAN, kind : Kinds, own : BOOLEAN]
          /\ k[p].tracked = held[p].tracked /\ k[p].kind = held[p].kind /\ ~ k[p].own
      BY <3>1, <3>2
    <3> QED
      BY <2>2, <3>3 DEF Holding
  <2> QED
    BY <2>1, <2>2
<1>8. k \in [Addrs -> Holding]
  BY <1>7
<1> HIDE DEF k
<1>9. DOMAIN table \subseteq Addrs /\ ListedIn(Memory) \subseteq Addrs
  BY MemoryParts DEF Agreed, Sound, Parts, ListedIn
<1>10. /\ m.room = Memory.room /\ m.table = t /\ table = Memory.table
  BY MemoryParts
<1> HIDE DEF m
<1>11. Accounts(k, m)
  BY <1>2, <1>4, <1>5, <1>7, <1>8, <1>9, <1>10 DEF Agreed, Accounts
<1> QED
  BY <1>1, <1>5, <1>11, AgreedAfter

LEMMA DestroyedAgreed ==
  ASSUME Agreed, DestroyAll
  PROVE  Agreed'
<1> DEFINE f == [p \in Addrs |-> IF p \in DOMAIN table \cup Listed THEN 0 ELSE room[p]]
           none == [c \in Classes |-> <<>>]
           k == [p \in Addrs |-> IF p \in DOMAIN table THEN Nothing ELSE held[p]]
           m == [room |-> f, table |-> <<>>, free |-> none, over |-> {}]
<1>1. MemoryBecomes(m) /\ held' = k
  BY DEF DestroyAll, MemoryBecomes
<1>2. Listed = ListedIn(Memory)
  BY MemoryParts DEF Listed, ListedIn, Agreed, Sound, Parts
<1>3. f \in [Addrs -> Nat]
  BY MemoryParts DEF Agreed, Sound, Parts
<1>4. /\ none \in [Classes -> Seq(Addrs)]
      /\ \A c \in Classes : DOMAIN none[c] = {} /\ Len(none[c]) <= FL_MAX_DEPTH
  BY MemLeakAssumption
<1>5. ASSUME NEW p \in Addrs
      PROVE  /\ k[p] \in Holding /\ ~ k[p].tracked /\ ~ k[p].own
             /\ k[p] # Nothing => f[p] > 0
  BY <1>2, HoldingFields, MemoryParts DEF Agreed, Accounts
<1>6. k \in [Addrs -> Holding]
  BY <1>5
<1> HIDE DEF f, none, k
<1>7. /\ m.room = f /\ DOMAIN m.table = {} /\ m.free = none /\ m.over = {}
      /\ DOMAIN m = {"room", "table", "free", "over"}
  OBVIOUS
<1> HIDE DEF m
<1>8. ListedIn(m) = {}
  BY <1>4, <1>7 DEF ListedIn
<1>9. Sound(m)
  BY <1>3, <1>4, <1>7 DEF Sound, Parts, Owned
<1>10. Accounts(k, m)
  BY <1>5, <1>6, <1>7, <1>8 DEF Accounts
<1> QED
  BY <1>1, <1>9, <1>10, AgreedAfter

LEMMA AgreedStep ==
  ASSUME Agreed, Switched, [Next]_vars
  PROVE  Agreed'
<1>1. ASSUME \/ \E on \in BOOLEAN : SetTracking(on)
             \/ SaveAndDisable \/ RestoreTracking
             \/ PreTest \/ GoOn \/ OtherFailure \/ IgnoreAllLeaksInTest
             \/ \E n \in 0 .. MaxExpected : ExpectLeaksInTest(n)
             \/ UNCHANGED vars
      PROVE  Agreed'
  <2>1. UNCHANGED <<memory, held>>
    BY <1>1 DEF SetTracking, SaveAndDisable, RestoreTracking, PreTest, GoOn, OtherFailure,
                IgnoreAllLeaksInTest, ExpectLeaksInTest, vars
  <2> QED
    BY <2>1, AgreedKept
<1> QED
  BY <1>1, AllocAgreed, OverwrittenAgreed, ReleaseAgreed, FreeAgreed, ReallocTrackedAgreed,
     ReallocUntrackedAgreed, PostTestAgreed, DestroyedAgreed DEF Next, Terminated

LEMMA AgreedInit ==
  ASSUME Init
  PROVE  Agreed
<1>1. /\ Memory.room = [p \in Addrs |-> 0] /\ DOMAIN Memory.table = {}
      /\ Memory.free = [c \in Classes |-> <<>>] /\ Memory.over = {}
      /\ DOMAIN Memory = {"room", "table", "free", "over"}
  BY DEF Init, Memory
<1>2. held = [p \in Addrs |-> Nothing]
  BY DEF Init
<1> DEFINE m == Memory
<1> HIDE DEF m
<1>3. /\ m.room = [p \in Addrs |-> 0] /\ DOMAIN m.table = {}
      /\ m.free = [c \in Classes |-> <<>>] /\ m.over = {}
      /\ DOMAIN m = {"room", "table", "free", "over"}
  BY <1>1 DEF m
<1>4. Sound(m) /\ ListedIn(m) = {}
  BY <1>3, MemLeakAssumption DEF Sound, Parts, Owned, ListedIn
<1>5. Accounts(held, m)
  BY <1>2, <1>3, <1>4, HoldingFields DEF Accounts
<1> QED
  BY <1>4, <1>5 DEF Agreed, m

LEMMA ZeroInBounds == 0 \in 0 .. MaxExpected /\ 0 \in 0 .. MaxSaves
<1>1. MaxExpected \in Nat /\ MaxSaves \in Nat
  BY MemLeakAssumption
<1> QED
  BY <1>1

LEMMA SwitchedStep ==
  ASSUME Switched, [Next]_vars
  PROVE  Switched'
<1>1. ASSUME UNCHANGED <<switches, plugin>>, stage' \in Stages,
             causes' \subseteq {"memory", "other", "leak"}, wrong' \in BOOLEAN
      PROVE  Switched'
  BY <1>1 DEF Switched, switches, plugin
<1>2. ASSUME NEW cause \in {"memory", "other"}, Fails(cause)
      PROVE  stage' \in Stages /\ causes' \subseteq {"memory", "other", "leak"}
  BY <1>2, FailsStays DEF Fails, Switched
<1>3. ASSUME NEW right, Judged(right)
      PROVE  wrong' \in BOOLEAN
  BY <1>3 DEF Judged, Switched
<1>4. ASSUME \/ \E kind \in Kinds, size \in Sizes : Alloc(kind, size)
             \/ \E p \in Addrs : Overwrite(p) \/ ReleaseIfTracked(p) \/ ReallocFails(p)
             \/ \E p \in Addrs, size \in Sizes : ReallocUntracked(p, size)
             \/ GoOn
      PROVE  Switched'
  <2>1. UNCHANGED <<switches, plugin, causes, wrong>> /\ stage' \in Stages
    BY <1>4 DEF Alloc, Overwrite, ReleaseIfTracked, ReallocFails, ReallocUntracked, GoOn,
                Switched, Stages
  <2> QED
    BY <1>1, <2>1 DEF Switched
<1>5. ASSUME NEW p \in Addrs, NEW size \in Sizes, ReallocTracked(p, size)
      PROVE  Switched'
  <2>1. UNCHANGED <<switches, plugin, stage, causes>> /\ wrong' \in BOOLEAN
    BY <1>3, <1>5 DEF ReallocTracked
  <2> QED
    BY <1>1, <2>1 DEF Switched
<1>6. ASSUME NEW p \in Addrs, NEW kind \in Kinds, FreeTracked(p, kind) \/ ReallocRefused(p)
      PROVE  Switched'
  <2>1. UNCHANGED <<switches, plugin>> /\ wrong' \in BOOLEAN
    BY <1>3, <1>6 DEF FreeTracked, ReallocRefused
  <2>2. Fails("memory") \/ UNCHANGED <<stage, causes>>
    BY <1>6 DEF FreeTracked, ReallocRefused
  <2>3. stage' \in Stages /\ causes' \subseteq {"memory", "other", "leak"}
    BY <1>2, <2>2 DEF Switched
  <2> QED
    BY <1>1, <2>1, <2>3
<1>7. ASSUME OtherFailure
      PROVE  Switched'
  BY <1>1, <1>2, <1>7 DEF OtherFailure, Switched
<1>8. ASSUME \/ \E on \in BOOLEAN : SetTracking(on)
             \/ SaveAndDisable \/ RestoreTracking
      PROVE  Switched'
  <2>1. UNCHANGED <<plugin, stage, causes, wrong>>
    BY <1>8 DEF SetTracking, SaveAndDisable, RestoreTracking
  <2>2. tracking_on' \in BOOLEAN /\ saved_tracking_state' \in BOOLEAN /\ wanted' \in BOOLEAN
    BY <1>8 DEF SetTracking, SaveAndDisable, RestoreTracking, Switched
  <2>3. save_counter' \in 0 .. MaxSaves
    BY <1>8, MemLeakAssumption DEF SetTracking, SaveAndDisable, RestoreTracking, Switched
  <2> QED
    BY <2>1, <2>2, <2>3 DEF Switched, plugin
<1>9. ASSUME PreTest \/ PostTest \/ DestroyAll
      PROVE  Switched'
  <2>1. stage' \in Stages /\ wrong' \in BOOLEAN /\ causes' \subseteq {"memory", "other", "leak"}
    BY <1>9 DEF PreTest, PostTest, DestroyAll, Switched, Stages
  <2>2. /\ tracking_on' \in BOOLEAN
        /\ UNCHANGED <<save_counter, saved_tracking_state, wanted>>
    BY <1>9 DEF PreTest, PostTest, DestroyAll, switches, Switched
  <2>3. /\ checking_now' \in BOOLEAN /\ ignoreAllWarnings' \in BOOLEAN
        /\ expectedLeaks' \in 0 .. MaxExpected
    BY <1>9, ZeroInBounds DEF PreTest, PostTest, DestroyAll, plugin, Switched
  <2> QED
    BY <2>1, <2>2, <2>3 DEF Switched
<1>10. ASSUME IgnoreAllLeaksInTest \/ \E n \in 0 .. MaxExpected : ExpectLeaksInTest(n)
       PROVE  Switched'
  BY <1>10 DEF IgnoreAllLeaksInTest, ExpectLeaksInTest, switches, Switched
<1>11. ASSUME UNCHANGED vars
       PROVE  Switched'
  BY <1>11 DEF vars, switches, plugin, Switched
<1>12. ASSUME NEW p \in Addrs, ReallocRefused(p)
       PROVE  Switched'
  BY <1>6, <1>12, MemLeakAssumption
<1> QED
  BY <1>4, <1>5, <1>6, <1>7, <1>8, <1>9, <1>10, <1>11, <1>12 DEF Next, Terminated

(* In a test, what the user did wrong and the failures it has had go       *)
(* together, and the leak check is still to come.                          *)
CausesInv ==
  stage \in InTest => (wrong <=> "memory" \in causes) /\ "leak" \notin causes

(* A free or realloc is judged by the user's account and by the tables.    *)
LEMMA JudgedByTable ==
  ASSUME Agreed, NEW p \in Addrs
  PROVE  /\ Right(p) <=> p \in DOMAIN table /\ p \notin overwritten
         /\ p \in DOMAIN table => held[p].kind = table[p].type
BY HoldingFields, MemoryParts DEF Agreed, Accounts, Right

LEMMA VerdictsAgree ==
  ASSUME Switched, CausesInv, tracking_on, NEW right \in BOOLEAN, Judged(right),
         IF right THEN UNCHANGED <<stage, causes>> ELSE Fails("memory")
  PROVE  CausesInv'
<1>1. CASE right
  BY <1>1 DEF Judged, CausesInv, Switched
<1>2. CASE ~ right
  BY <1>2 DEF Judged, CausesInv, Switched, Fails, InTest
<1> QED
  BY <1>1, <1>2

LEMMA CausesStep ==
  ASSUME Agreed, Switched, CausesInv, [Next]_vars
  PROVE  CausesInv'
<1>1. ASSUME NEW p \in Addrs, NEW kind \in Kinds, FreeTracked(p, kind)
      PROVE  CausesInv'
  <2> DEFINE right == Right(p) /\ held[p].kind = kind
  <2>1. right \in BOOLEAN
    OBVIOUS
  <2>2. Judged(right) /\ tracking_on
    BY <1>1 DEF FreeTracked
  <2>3. right <=> p \in DOMAIN table /\ p \notin overwritten /\ table[p].type = kind
    BY JudgedByTable
  <2>4. IF p \notin DOMAIN table \/ table[p].type # kind \/ p \in overwritten
        THEN Fails("memory") ELSE UNCHANGED <<stage, causes>>
    BY <1>1 DEF FreeTracked
  <2>5. IF right THEN UNCHANGED <<stage, causes>> ELSE Fails("memory")
    BY <2>3, <2>4
  <2> HIDE DEF right
  <2> QED
    BY <2>1, <2>2, <2>5, VerdictsAgree
<1>2. ASSUME NEW p \in Addrs, NEW size \in Sizes,
             ReallocRefused(p) \/ ReallocTracked(p, size)
      PROVE  CausesInv'
  <2> DEFINE right == Right(p)
  <2>1. right \in BOOLEAN
    BY DEF Right
  <2>2. Judged(right) /\ tracking_on
    BY <1>2 DEF ReallocRefused, ReallocTracked
  <2>3. IF right THEN UNCHANGED <<stage, causes>> ELSE Fails("memory")
    BY <1>2, JudgedByTable DEF ReallocRefused, ReallocTracked
  <2> HIDE DEF right
  <2> QED
    BY <2>1, <2>2, <2>3, VerdictsAgree
<1>3. ASSUME OtherFailure
      PROVE  CausesInv'
  BY <1>3 DEF OtherFailure, Fails, CausesInv, InTest
<1>4. ASSUME PreTest \/ GoOn \/ PostTest \/ DestroyAll
      PROVE  CausesInv'
  BY <1>4 DEF PreTest, GoOn, PostTest, DestroyAll, CausesInv, InTest, Protected
<1>5. ASSUME UNCHANGED <<stage, causes, wrong>>
      PROVE  CausesInv'
  BY <1>5 DEF CausesInv
<1>6. ASSUME NEW p \in Addrs, ReallocRefused(p)
      PROVE  CausesInv'
  <2>1. Judged(Right(p)) /\ tracking_on /\ Right(p) \in BOOLEAN
    BY <1>6 DEF ReallocRefused, Right
  <2>2. ~ Right(p) /\ Fails("memory")
    BY <1>6, JudgedByTable DEF ReallocRefused
  <2> QED
    BY <2>1, <2>2, VerdictsAgree
<1> QED
  BY <1>1, <1>2, <1>3, <1>4, <1>5, <1>6
  DEF Next, Terminated, Alloc, Overwrite, ReleaseIfTracked, ReallocFails, ReallocUntracked,
      SetTracking, SaveAndDisable, RestoreTracking, IgnoreAllLeaksInTest, ExpectLeaksInTest, vars

IInv == Agreed /\ Switched /\ CausesInv

(* The two views of memory, the user's and the tracker's, agree whatever   *)
(* is allocated, given back, enlarged, overwritten, recycled or switched.  *)
THEOREM ViewsAgree == Spec => []IInv
<1>1. Init => IInv
  <2> SUFFICES ASSUME Init PROVE IInv
    OBVIOUS
  <2>1. Switched
    BY ZeroInBounds DEF Init, Switched, Stages
  <2>2. CausesInv
    BY DEF Init, CausesInv, InTest
  <2> QED
    BY <2>1, <2>2, AgreedInit DEF IInv
<1>2. IInv /\ [Next]_vars => IInv'
  BY AgreedStep, SwitchedStep, CausesStep DEF IInv
<1> QED
  BY <1>1, <1>2, PTL DEF Spec

LEMMA ListedIs ==
  ASSUME Agreed
  PROVE  Listed = ListedIn(Memory)
BY MemoryParts DEF Listed, ListedIn, Agreed, Sound, Parts

(* Every variable keeps its type: in particular a freelist never grows     *)
(* beyond its depth, and the table and the lists hold known addresses.     *)
THEOREM TypeCorrect == Spec => []TypeOK
<1>1. IInv => TypeOK
  BY MemoryParts DEF IInv, Agreed, Switched, Sound, Parts, Accounts, TypeOK
<1> QED
  BY <1>1, ViewsAgree, PTL

(* memleak.c 149-185, 212-250, 290-353, 515-544: at every moment a         *)
(* block is tracked, on one freelist once, or neither; what the user holds *)
(* is on no freelist and has been allocated, and a tracked block has room  *)
(* for its node, its bytes and its guard.                                  *)
THEOREM BlocksHaveOneOwner == Spec => []OneOwner
<1>1. IInv => OneOwner
  <2> SUFFICES ASSUME IInv PROVE OneOwner
    OBVIOUS
  <2> DEFINE L == Listed
  <2>1. /\ Sound(Memory) /\ Accounts(held, Memory) /\ L = ListedIn(Memory)
        /\ L \subseteq Addrs /\ DOMAIN table \subseteq Addrs
    BY ListedIs, MemoryParts DEF IInv, Agreed, ListedIn, Sound, Parts
  <2>2. DOMAIN table \cap L = {}
    BY <2>1, MemoryParts DEF ListedIn, Sound, Owned
  <2>3. \A c \in Classes : \A i, j \in DOMAIN freelists[c] :
          freelists[c][i] = freelists[c][j] => i = j
    BY <2>1, MemoryParts DEF Sound, Owned
  <2>4. \A p \in L : held[p] = Nothing /\ room[p] > 0
    <3>1. \A p \in L : held[p] = Nothing
      BY <2>1 DEF Accounts
    <3>2. \A p \in L : \E c \in Classes : room[p] = c * FL_GRAIN
      BY <2>1, MemoryParts DEF ListedIn, Sound, Owned
    <3> QED
      BY <3>1, <3>2, ClassRoom
  <2>5. ASSUME NEW p \in DOMAIN table
        PROVE  held[p] # Nothing /\ room[p] > 0 /\ room[p] >= Bytes(table[p].size)
    <3>1. held[p] # Nothing
      BY <2>1, MemoryParts, TrackedHeld
    <3>2. room[p] = RoomOf(table[p].size) /\ table[p].size \in Sizes
      BY <2>1, MemoryParts DEF Sound, Parts, Owned, Node
    <3> QED
      BY <3>1, <3>2, RoomEnough
  <2>6. \A q \in Addrs : held[q] # Nothing => room[q] > 0
    BY <2>1, MemoryParts DEF Accounts
  <2> HIDE DEF L
  <2>7. OneOwner <=> /\ DOMAIN table \cap L = {}
                     /\ \A c \in Classes : \A i, j \in DOMAIN freelists[c] :
                          freelists[c][i] = freelists[c][j] => i = j
                     /\ \A p \in L : held[p] = Nothing
                     /\ \A p \in DOMAIN table \cup L \cup {q \in Addrs : held[q] # Nothing} :
                          room[p] > 0
                     /\ \A p \in DOMAIN table : held[p] # Nothing /\ room[p] >= Bytes(table[p].size)
    BY DEF OneOwner, L
  <2> QED
    BY <2>2, <2>3, <2>4, <2>5, <2>6, <2>7
<1> QED
  BY <1>1, ViewsAgree, PTL

(* memleak.c 264-340: in every test, by any sequence of calls              *)
(* with any pointers, a free or realloc fails the test exactly if it is    *)
(* wrong by the user's own account.                                        *)
THEOREM WrongFreesNoticed == Spec => []WrongFreesFail
<1>1. IInv => WrongFreesFail
  BY DEF IInv, CausesInv, WrongFreesFail
<1> QED
  BY <1>1, ViewsAgree, PTL

-------------------------------------------------------------------------------
(* The report *)

LEMMA Least ==
  ASSUME NEW S \in SUBSET Nat, S # {}
  PROVE  \E m \in S : \A s \in S : m <= s
<1>1. PICK m \in S : \A s \in S : <<s, m>> \notin OpToRel(<, Nat)
  BY NatLessThanWellFounded, WFMin
<1>2. \A s \in S : ~ (s < m)
  BY <1>1 DEF OpToRel
<1> QED
  BY <1>2

(* A recursion along 1 .. n within S.                                      *)
Steps(n, S) == [1 .. n -> [S -> S]]

Recursion(h, n, S, b, g) ==
  h \in [0 .. n -> S] /\ h[0] = b /\ \A k \in 1 .. n : h[k] = g[k][h[k - 1]]

LEMMA RecursionExists ==
  ASSUME NEW n \in Nat, NEW S, NEW b \in S, NEW g \in Steps(n, S)
  PROVE  \E h : Recursion(h, n, S, b, g)
<1> DEFINE Recurs(h, m) == h[0] = b /\ \A k \in 1 .. m : h[k] = g[k][h[k - 1]]
           F == {m \in 0 .. n : ~ \E h \in [0 .. m -> S] : Recurs(h, m)}
<1>1. ASSUME F # {} PROVE FALSE
  <2>1. F \in SUBSET Nat
    OBVIOUS
  <2> HIDE DEF F
  <2>2. PICK m \in F : \A k \in F : m <= k
    BY <1>1, <2>1, Least
  <2>3. m \in 0 .. n /\ ~ \E h \in [0 .. m -> S] : Recurs(h, m)
    BY <2>2 DEF F
  <2>4. CASE m = 0
    <3> DEFINE h == [k \in 0 .. 0 |-> b]
    <3>1. h \in [0 .. m -> S] /\ h[0] = b /\ 1 .. m = {}
      BY <2>4
    <3> QED
      BY <2>3, <3>1
  <2>5. CASE m # 0
    <3>1. m - 1 \in 0 .. n /\ ~ (m <= m - 1) /\ m \in 1 .. n
      BY <2>3, <2>5
    <3>2. m - 1 \notin F
      BY <2>2, <3>1
    <3>3. PICK f \in [0 .. m - 1 -> S] : Recurs(f, m - 1)
      BY <3>1, <3>2 DEF F
    <3> DEFINE h == [k \in 0 .. m |-> IF k = m THEN g[m][f[m - 1]] ELSE f[k]]
    <3>4. f[m - 1] \in S /\ g[m] \in [S -> S]
      BY <3>1, <3>3 DEF Steps
    <3>5. h \in [0 .. m -> S]
      BY <3>1, <3>4
    <3>6. h[0] = b
      BY <3>1, <3>3
    <3>7. ASSUME NEW k \in 1 .. m PROVE h[k] = g[k][h[k - 1]]
      <4>1. CASE k = m
        BY <3>1, <4>1
      <4>2. CASE k # m
        <5>1. k \in 1 .. m - 1 /\ k - 1 \in 0 .. m /\ k - 1 # m /\ k \in 0 .. m
          BY <3>1, <4>2
        <5>2. f[k] = g[k][f[k - 1]]
          BY <3>3, <5>1
        <5> QED
          BY <4>2, <5>1, <5>2
      <4> QED
        BY <4>1, <4>2
    <3> QED
      BY <2>3, <3>5, <3>6, <3>7
  <2> QED
    BY <2>4, <2>5
<1>2. n \in 0 .. n
  OBVIOUS
<1> HIDE DEF F
<1>3. n \notin F
  BY <1>1
<1> QED
  BY <1>2, <1>3 DEF F, Recursion

(* Each value of f is in the set that I gives for its place.               *)
Keeps(f, n, I) == f[0] \in I[0] /\ \A k \in 1 .. n : f[k - 1] \in I[k - 1] => f[k] \in I[k]

LEMMA Kept ==
  ASSUME NEW n \in Nat, NEW f, NEW I, Keeps(f, n, I)
  PROVE  \A k \in 0 .. n : f[k] \in I[k]
<1> DEFINE F == {k \in 0 .. n : f[k] \notin I[k]}
<1>1. ASSUME F # {} PROVE FALSE
  <2>1. F \in SUBSET Nat
    OBVIOUS
  <2> HIDE DEF F
  <2>2. PICK m \in F : \A k \in F : m <= k
    BY <1>1, <2>1, Least
  <2>3. m \in 0 .. n /\ f[m] \notin I[m]
    BY <2>2 DEF F
  <2>4. m # 0
    BY <2>3 DEF Keeps
  <2>5. m \in 1 .. n /\ m - 1 \in 0 .. n /\ ~ (m <= m - 1)
    BY <2>3, <2>4
  <2>6. f[m - 1] \in I[m - 1]
    BY <2>2, <2>5 DEF F
  <2> QED
    BY <2>3, <2>5, <2>6 DEF Keeps
<1> QED
  BY <1>1

Buffer == [filled : Nat, write_limit : Nat, cut : BOOLEAN]

LEMMA Added ==
  ASSUME NEW rb \in Buffer, NEW length \in Nat, rb.filled <= rb.write_limit
  PROVE  /\ rb_add(rb, length) \in Buffer
         /\ rb_add(rb, length).write_limit = rb.write_limit
         /\ rb_add(rb, length).filled =
              IF rb.filled + length > rb.write_limit THEN rb.write_limit ELSE rb.filled + length
         /\ rb_add(rb, length).cut <=> rb.cut \/ rb.filled + length > rb.write_limit
<1> DEFINE n == rb.filled + length
           limit == rb.write_limit
           f == IF n > limit THEN limit ELSE n
           c == rb.cut \/ n > limit
<1>1. n \in Nat /\ limit \in Nat /\ rb.cut \in BOOLEAN
  BY DEF Buffer
<1> HIDE DEF n, limit
<1>2. Min({n, limit}) = f
  <2>1. {n, limit} \in SUBSET Nat /\ {n, limit} # {}
    BY <1>1
  <2>2. Min({n, limit}) = CHOOSE m \in {n, limit} : \A k \in {n, limit} : m <= k
    BY DEF Min
  <2>3. PICK m \in {n, limit} : \A k \in {n, limit} : m <= k
    BY <2>1, Least
  <2>4. Min({n, limit}) \in {n, limit} /\ \A k \in {n, limit} : Min({n, limit}) <= k
    BY <2>2, <2>3
  <2> QED
    BY <1>1, <2>4
<1>3. f \in Nat /\ c \in BOOLEAN
  BY <1>1
<1>4. rb_add(rb, length) = [rb EXCEPT !.filled = f, !.cut = c]
  BY <1>2 DEF rb_add, n, limit
<1> HIDE DEF f, c
<1>5. /\ rb_add(rb, length) \in Buffer
      /\ rb_add(rb, length).write_limit = limit
      /\ rb_add(rb, length).filled = f
      /\ rb_add(rb, length).cut = c
  BY <1>3, <1>4 DEF Buffer, limit
<1> QED
  BY <1>5 DEF f, c, n, limit

Relimit(rb, limit) == [rb EXCEPT !.write_limit = limit, !.cut = FALSE]

LEMMA Relimited ==
  ASSUME NEW rb \in Buffer, NEW limit \in Nat, NEW all, all = Relimit(rb, limit)
  PROVE  all \in Buffer /\ all.filled = rb.filled /\ all.write_limit = limit /\ ~all.cut
<1> DEFINE no == FALSE
<1>1. no \in BOOLEAN /\ all = [rb EXCEPT !.write_limit = limit, !.cut = no]
  BY DEF Relimit
<1> HIDE DEF no
<1>2. all \in Buffer /\ all.filled = rb.filled /\ all.write_limit = limit /\ all.cut = no
  BY <1>1 DEF Buffer
<1> QED
  BY <1>2 DEF no

(* While the entries are added nothing is lost before the limit is reached,*)
(* which leaves footer_reserve bytes of the buffer.                        *)
Filling ==
  {rb \in Buffer : /\ rb.write_limit = CU_MEM_BUFFER_LEN - footer_reserve
                   /\ rb.filled <= rb.write_limit
                   /\ rb.cut => rb.filled = rb.write_limit}

LEMMA FillingAdded ==
  ASSUME NEW rb \in Filling, NEW length \in Nat
  PROVE  rb_add(rb, length) \in Filling
<1>1. rb \in Buffer /\ rb.filled \in Nat /\ rb.write_limit \in Nat /\ rb.filled <= rb.write_limit
  BY DEF Filling, Buffer
<1>2. rb.cut => rb.filled = rb.write_limit
  BY DEF Filling
<1>3. rb.write_limit = CU_MEM_BUFFER_LEN - footer_reserve
  BY DEF Filling
<1> DEFINE rc == rb_add(rb, length)
<1>4. /\ rc \in Buffer
      /\ rc.write_limit = rb.write_limit
      /\ rc.filled = IF rb.filled + length > rb.write_limit THEN rb.write_limit ELSE rb.filled + length
      /\ rc.cut <=> rb.cut \/ rb.filled + length > rb.write_limit
  BY <1>1, Added
<1> HIDE DEF rc
<1>5. rc.filled <= rc.write_limit /\ (rc.cut => rc.filled = rc.write_limit)
  BY <1>1, <1>2, <1>4
<1> QED
  BY <1>3, <1>4, <1>5 DEF Filling, rc

Begun == rb_add([cleared EXCEPT !.write_limit = CU_MEM_BUFFER_LEN - footer_reserve], FOUND)

LEMMA BegunFilling == Begun \in Filling
<1> DEFINE rb == [filled |-> 0, write_limit |-> 3720, cut |-> FALSE]
<1>1. CU_MEM_BUFFER_LEN - footer_reserve = 3720
  BY DEF CU_MEM_BUFFER_LEN, footer_reserve, MEM_LEAK_FOOTER, MEM_LEAK_TOO_MUCH, MEM_LEAK_ADDITION_MALLOC_WARNING
<1>2. rb \in Filling
  BY <1>1 DEF Filling, Buffer
<1>3. [cleared EXCEPT !.write_limit = CU_MEM_BUFFER_LEN - footer_reserve] = rb
  <2> DEFINE limit == CU_MEM_BUFFER_LEN - footer_reserve
             whole == CU_MEM_BUFFER_LEN - 1
             rc == [filled |-> 0, write_limit |-> whole, cut |-> FALSE]
  <2>1. limit = 3720
    BY <1>1
  <2>2. [rc EXCEPT !.write_limit = limit] = [filled |-> 0, write_limit |-> limit, cut |-> FALSE]
    <3> HIDE DEF limit, whole
    <3> QED
      OBVIOUS
  <2>3. cleared = rc
    BY DEF cleared
  <2> HIDE DEF limit, rc
  <2>4. [cleared EXCEPT !.write_limit = limit] = rb
    BY <2>1, <2>2, <2>3
  <2> QED
    BY <2>4 DEF limit
<1> HIDE DEF rb
<1>4. FOUND \in Nat
  BY DEF FOUND
<1> QED
  BY <1>2, <1>3, <1>4, FillingAdded DEF Begun

(* What a walk over the blocks of S adds, as Entries does.                 *)
Adds(S, h) ==
  h = [n \in 0 .. Cardinality(S) |->
         IF n = 0 THEN Begun ELSE rb_add(h[n - 1], Headline + Dump(table[SetToSeq(S)[n]].size))]

LEMMA EntriesFilling ==
  ASSUME NEW S, IsFiniteSet(S), S \subseteq DOMAIN table, \A p \in DOMAIN table : table[p] \in Node
  PROVE  Entries(S) \in Filling
<1> DEFINE N == Cardinality(S)
           walk == SetToSeq(S)
           added == [k \in 1 .. N |-> Headline + Dump(table[walk[k]].size)]
           g == [k \in 1 .. N |-> [rb \in Filling |-> rb_add(rb, added[k])]]
           w == CHOOSE h : Adds(S, h)
<1>1. N \in Nat
  BY FS_CardinalityType
<1>2. walk \in [1 .. N -> S]
  <2>1. PICK f : f \in Bijection(1 .. N, S)
    BY FS_CardinalityType DEF ExistsBijection
  <2>2. f \in [1 .. N -> S] /\ IsInjective(f)
    BY <2>1 DEF Bijection, Injection
  <2> QED
    BY <2>2 DEF SetToSeq
<1> HIDE DEF walk
<1>3. ASSUME NEW k \in 1 .. N PROVE added[k] \in Nat
  <2>1. walk[k] \in DOMAIN table
    BY <1>2
  <2> DEFINE size == table[walk[k]].size
  <2>2. size \in Nat
    BY <2>1, MemLeakAssumption DEF Node
  <2> HIDE DEF size
  <2>3. Dump(size) \in Nat
    <3>1. (size + 15) \div 16 \in Nat
      BY <2>2
    <3> QED
      BY <2>2, <3>1 DEF Dump
  <2>4. added[k] = Headline + Dump(size)
    BY DEF size
  <2> QED
    BY <2>3, <2>4, MemLeakAssumption
<1>4. g \in Steps(N, Filling)
  BY <1>3, FillingAdded DEF Steps
<1>5. PICK h : Recursion(h, N, Filling, Begun, g)
  BY <1>1, <1>4, BegunFilling, RecursionExists
<1>6. Adds(S, h)
  <2>1. ASSUME NEW k \in 0 .. N
        PROVE  h[k] = IF k = 0 THEN Begun ELSE rb_add(h[k - 1], Headline + Dump(table[walk[k]].size))
    <3>1. CASE k = 0
      BY <1>5, <3>1 DEF Recursion
    <3>2. CASE k # 0
      <4>1. k \in 1 .. N /\ k - 1 \in 0 .. N
        BY <1>1, <3>2
      <4>2. h[k - 1] \in Filling /\ h[k] = g[k][h[k - 1]]
        BY <1>5, <4>1 DEF Recursion
      <4> QED
        BY <3>2, <4>1, <4>2
    <3> QED
      BY <3>1, <3>2
  <2>2. h = [k \in 0 .. N |-> h[k]]
    BY <1>5 DEF Recursion
  <2> QED
    BY <2>1, <2>2 DEF Adds, walk
<1>7. Adds(S, w)
  BY <1>6
<1>8. Entries(S) = w[N]
  BY DEF Entries, Adds, Begun
<1> HIDE DEF w
<1>9. \A k \in 0 .. N : w[k] = IF k = 0 THEN Begun
                               ELSE rb_add(w[k - 1], Headline + Dump(table[walk[k]].size))
  BY <1>7 DEF Adds, walk
<1> DEFINE I == [k \in 0 .. N |-> Filling]
<1>10. Keeps(w, N, I)
  <2>1. w[0] \in Filling /\ 0 \in 0 .. N
    BY <1>1, <1>9, BegunFilling
  <2>2. ASSUME NEW k \in 1 .. N, w[k - 1] \in Filling PROVE w[k] \in Filling
    <3>1. w[k] = rb_add(w[k - 1], added[k])
      BY <1>1, <1>9
    <3> QED
      BY <1>3, <2>2, <3>1, FillingAdded
  <2>3. \A k \in 1 .. N : k \in 0 .. N /\ k - 1 \in 0 .. N
    BY <1>1
  <2> QED
    BY <2>1, <2>2, <2>3 DEF Keeps
<1> HIDE DEF I
<1>11. w[N] \in I[N]
  BY <1>1, <1>10, Kept
<1> QED
  BY <1>1, <1>8, <1>11 DEF I

(* The reserve is exactly as long as what may follow.                      *)
LEMMA EndingFits ==
  ASSUME NEW S, Entries(S) \in Filling
  PROVE  ~Ending(S).cut /\ (S # {} /\ Entries(S).cut => TooMuch(S))
<1> DEFINE rb == Entries(S)
           all == [rb EXCEPT !.write_limit = CU_MEM_BUFFER_LEN - 1, !.cut = FALSE]
           bailed == IF TooMuch(S) THEN rb_add(all, MEM_LEAK_TOO_MUCH) ELSE all
           footer == MEM_LEAK_FOOTER + 1 + INT_DIGITS + 1
           total == rb_add(bailed, footer)
<1>1. rb \in Buffer /\ rb.filled \in Nat /\ rb.filled <= 3720 /\ rb.write_limit = 3720
      /\ (rb.cut => rb.filled = 3720)
  BY DEF Filling, Buffer, CU_MEM_BUFFER_LEN, footer_reserve, MEM_LEAK_FOOTER, MEM_LEAK_TOO_MUCH,
         MEM_LEAK_ADDITION_MALLOC_WARNING
<1>2. CU_MEM_BUFFER_LEN - 1 = 4095 /\ footer = 35
  BY DEF CU_MEM_BUFFER_LEN, MEM_LEAK_FOOTER, INT_DIGITS
<1>3. rb.cut => TooMuch(S)
  BY <1>1 DEF TooMuch
<1>4. Ending(S) = CASE S = {} -> rb_add(cleared, NO_LEAKS)
                    [] \E p \in S : table[p].type = "malloc" -> rb_add(total, MEM_LEAK_ADDITION_MALLOC_WARNING)
                    [] OTHER -> total
  BY DEF Ending
<1> HIDE DEF rb, footer
<1>5. all \in Buffer /\ all.filled = rb.filled /\ all.write_limit = 4095 /\ ~all.cut
  <2> DEFINE whole == CU_MEM_BUFFER_LEN - 1
  <2>1. whole = 4095 /\ whole \in Nat
    BY <1>2
  <2>2. all = Relimit(rb, whole)
    BY DEF Relimit
  <2> HIDE DEF all, whole
  <2>3. all \in Buffer /\ all.filled = rb.filled /\ all.write_limit = whole /\ ~all.cut
    <3>1. rb \in Buffer
      BY <1>1
    <3>2. all \in Buffer
      BY <2>1, <2>2, <3>1, Relimited
    <3>3. all.filled = rb.filled /\ all.write_limit = whole
      BY <2>1, <2>2, <3>1, Relimited
    <3>4. ~all.cut
      BY <2>1, <2>2, <3>1, Relimited
    <3> QED
      BY <3>2, <3>3, <3>4
  <2> QED
    BY <2>1, <2>3
<1> HIDE DEF all
<1>6. bailed \in Buffer /\ bailed.filled \in Nat /\ bailed.filled <= 3788 /\ bailed.write_limit = 4095 /\ ~bailed.cut
  <2>1. MEM_LEAK_TOO_MUCH = 68
    BY DEF MEM_LEAK_TOO_MUCH
  <2>2. all.filled + 68 <= 4095 /\ all.filled + 68 \in Nat /\ all.filled \in Nat
    BY <1>1, <1>5
  <2> DEFINE longer == rb_add(all, 68)
  <2>3. /\ longer \in Buffer /\ longer.write_limit = 4095
        /\ longer.filled = IF all.filled + 68 > 4095 THEN 4095 ELSE all.filled + 68
        /\ longer.cut <=> all.cut \/ all.filled + 68 > 4095
    BY <1>5, <2>2, Added
  <2> HIDE DEF longer
  <2>4. longer \in Buffer /\ longer.filled \in Nat /\ longer.filled <= 3788 /\ longer.write_limit = 4095 /\ ~longer.cut
    BY <1>1, <1>5, <2>2, <2>3
  <2>5. bailed = IF TooMuch(S) THEN longer ELSE all
    BY <2>1 DEF longer
  <2> QED
    BY <1>1, <1>5, <2>4, <2>5
<1> HIDE DEF bailed
<1>7. total \in Buffer /\ total.filled \in Nat /\ total.filled <= 3823 /\ total.write_limit = 4095 /\ ~total.cut
  <2>1. /\ total \in Buffer /\ total.write_limit = 4095
        /\ total.filled = IF bailed.filled + 35 > 4095 THEN 4095 ELSE bailed.filled + 35
        /\ total.cut <=> bailed.cut \/ bailed.filled + 35 > 4095
    BY <1>2, <1>6, Added
  <2> HIDE DEF total
  <2> QED
    BY <1>6, <2>1
<1> HIDE DEF total
<1>8. ~rb_add(total, MEM_LEAK_ADDITION_MALLOC_WARNING).cut
  <2>1. MEM_LEAK_ADDITION_MALLOC_WARNING = 272
    BY DEF MEM_LEAK_ADDITION_MALLOC_WARNING
  <2>2. rb_add(total, 272).cut <=> total.cut \/ total.filled + 272 > 4095
    BY <1>7, Added
  <2> QED
    BY <1>7, <2>1, <2>2
<1>9. ~rb_add(cleared, NO_LEAKS).cut
  <2>1. cleared = [filled |-> 0, write_limit |-> 4095, cut |-> FALSE] /\ NO_LEAKS = 30
    BY <1>2 DEF cleared, NO_LEAKS
  <2>2. cleared \in Buffer /\ cleared.filled = 0 /\ cleared.write_limit = 4095 /\ ~cleared.cut
    BY <2>1 DEF Buffer
  <2>3. rb_add(cleared, 30).cut <=> cleared.cut \/ cleared.filled + 30 > cleared.write_limit
    BY <2>2, Added
  <2> QED
    BY <2>1, <2>2, <2>3
<1>10. ~Ending(S).cut
  <2>1. CASE S = {}
    BY <1>4, <1>9, <2>1
  <2>2. CASE S # {} /\ \E p \in S : table[p].type = "malloc"
    BY <1>4, <1>8, <2>2
  <2>3. CASE S # {} /\ ~ \E p \in S : table[p].type = "malloc"
    BY <1>4, <1>7, <2>3
  <2> QED
    BY <2>1, <2>2, <2>3
<1> QED
  BY <1>3, <1>10 DEF rb

(* MemoryLeakWarningPlugin.h 54-75, memleak.c 389-449: the check fails a   *)
(* test exactly if the blocks that it obtained and has not given back are  *)
(* not as many as it announced, however blocks were recycled, enlarged and *)
(* given back between tests; its report ends whole, and says so if it does *)
(* not show every block, whatever their number, sizes and descriptions.    *)
THEOREM EachChargedItsOwn == Spec => LeaksCharged
<1>1. ASSUME IInv, [Next]_vars, stage = "hooks", stage' = "outside"
      PROVE  ChargedRight /\ ReportWhole
  <2>1. PostTest
    BY <1>1 DEF Next, Terminated, Alloc, Overwrite, ReleaseIfTracked, ReallocRefused, ReallocFails,
                FreeTracked, ReallocTracked, ReallocUntracked, SetTracking, SaveAndDisable,
                RestoreTracking, PreTest, GoOn, OtherFailure, IgnoreAllLeaksInTest,
                ExpectLeaksInTest, DestroyAll, Protected, Fails, vars
  <2>2. Own = Checked
    BY <1>1, MemoryParts DEF IInv, Agreed, Accounts, Sound, Parts, Own, Checked
  <2>3. "leak" \notin causes
    BY <1>1 DEF IInv, CausesInv, InTest
  <2> DEFINE n == Cardinality(Own)
  <2>4. causes' = IF ~ignoreAllWarnings /\ expectedLeaks # n /\ causes = {} /\ tracking_on
                  THEN {"leak"} ELSE causes
    BY <2>1, <2>2 DEF PostTest, leak_count
  <2>5. ChargedRight <=>
          (("leak" \in causes') <=>
             causes = {} /\ ~ignoreAllWarnings /\ tracking_on /\ n # expectedLeaks)
    BY DEF ChargedRight
  <2> HIDE DEF n
  <2>6. ChargedRight
    BY <2>3, <2>4, <2>5
  <2>7. Checked \subseteq DOMAIN table /\ DOMAIN table \subseteq Addrs
        /\ \A p \in DOMAIN table : table[p] \in Node
    BY <1>1, MemoryParts DEF IInv, Agreed, Sound, Parts, Checked
  <2>8. IsFiniteSet(Checked)
    BY <2>7, FS_Subset, MemLeakAssumption
  <2>9. Entries(Checked) \in Filling
    BY <2>7, <2>8, EntriesFilling
  <2> QED
    BY <2>6, <2>9, EndingFits DEF ReportWhole
<1>2. IInv /\ [Next]_vars => [stage = "hooks" /\ stage' = "outside" =>
                                ChargedRight /\ ("leak" \in causes' => ReportWhole)]_vars
  BY <1>1
<1> QED
  BY <1>2, ViewsAgree, PTL DEF Spec, LeaksCharged

================================================================================
