------------------------------ MODULE PluginsProofs ----------------------------
(***************************************************************************)
(* The plugins around tests, for any number of plugins, registries' chains,*)
(* pointers and tests: what a test leaves behind of pointers, blocks and   *)
(* comparators.                                                            *)
(***************************************************************************)
EXTENDS Plugins, TLAPS, FiniteSetTheorems, FunctionTheorems, SequenceTheorems, WellFoundedInduction

-------------------------------------------------------------------------------
(* Loops *)

LEMMA Least ==
  ASSUME NEW S \in SUBSET Nat, S # {}
  PROVE  \E m \in S : \A s \in S : m <= s
<1>1. PICK m \in S : \A s \in S : <<s, m>> \notin OpToRel(<, Nat)
  BY NatLessThanWellFounded, WFMin
<1>2. \A s \in S : ~ (s < m)
  BY <1>1 DEF OpToRel
<1> QED
  BY <1>2

(* A recursion along 1 .. n within S.                                      *)
Steps(n, S) == [1 .. n -> [S -> S]]

Recursion(h, n, S, b, g) ==
  h \in [0 .. n -> S] /\ h[0] = b /\ \A k \in 1 .. n : h[k] = g[k][h[k - 1]]

LEMMA RecursionExists ==
  ASSUME NEW n \in Nat, NEW S, NEW b \in S, NEW g \in Steps(n, S)
  PROVE  \E h : Recursion(h, n, S, b, g)
<1> DEFINE Recurs(h, m) == h[0] = b /\ \A k \in 1 .. m : h[k] = g[k][h[k - 1]]
           F == {m \in 0 .. n : ~ \E h \in [0 .. m -> S] : Recurs(h, m)}
<1>1. ASSUME F # {} PROVE FALSE
  <2>1. F \in SUBSET Nat
    OBVIOUS
  <2> HIDE DEF F
  <2>2. PICK m \in F : \A k \in F : m <= k
    BY <1>1, <2>1, Least
  <2>3. m \in 0 .. n /\ ~ \E h \in [0 .. m -> S] : Recurs(h, m)
    BY <2>2 DEF F
  <2>4. CASE m = 0
    <3> DEFINE h == [k \in 0 .. 0 |-> b]
    <3>1. h \in [0 .. m -> S] /\ h[0] = b /\ 1 .. m = {}
      BY <2>4
    <3> QED
      BY <2>3, <3>1
  <2>5. CASE m # 0
    <3>1. m - 1 \in 0 .. n /\ ~ (m <= m - 1) /\ m \in 1 .. n
      BY <2>3, <2>5
    <3>2. m - 1 \notin F
      BY <2>2, <3>1
    <3>3. PICK f \in [0 .. m - 1 -> S] : Recurs(f, m - 1)
      BY <3>1, <3>2 DEF F
    <3> DEFINE h == [k \in 0 .. m |-> IF k = m THEN g[m][f[m - 1]] ELSE f[k]]
    <3>4. f[m - 1] \in S /\ g[m] \in [S -> S]
      BY <3>1, <3>3 DEF Steps
    <3>5. h \in [0 .. m -> S]
      BY <3>1, <3>4
    <3>6. h[0] = b
      BY <3>1, <3>3
    <3>7. ASSUME NEW k \in 1 .. m PROVE h[k] = g[k][h[k - 1]]
      <4>1. CASE k = m
        BY <3>1, <4>1
      <4>2. CASE k # m
        <5>1. k \in 1 .. m - 1 /\ k - 1 \in 0 .. m /\ k - 1 # m /\ k \in 0 .. m
          BY <3>1, <4>2
        <5>2. f[k] = g[k][f[k - 1]]
          BY <3>3, <5>1
        <5> QED
          BY <4>2, <5>1, <5>2
      <4> QED
        BY <4>1, <4>2
    <3> QED
      BY <2>3, <3>5, <3>6, <3>7
  <2> QED
    BY <2>4, <2>5
<1>2. n \in 0 .. n
  OBVIOUS
<1> HIDE DEF F
<1>3. n \notin F
  BY <1>1
<1> QED
  BY <1>2, <1>3 DEF F, Recursion

(* Each value of f is in the set that I gives for its place.               *)
Keeps(f, n, I) == f[0] \in I[0] /\ \A k \in 1 .. n : f[k - 1] \in I[k - 1] => f[k] \in I[k]

LEMMA Kept ==
  ASSUME NEW n \in Nat, NEW f, NEW I, Keeps(f, n, I)
  PROVE  \A k \in 0 .. n : f[k] \in I[k]
<1> DEFINE F == {k \in 0 .. n : f[k] \notin I[k]}
<1>1. ASSUME F # {} PROVE FALSE
  <2>1. F \in SUBSET Nat
    OBVIOUS
  <2> HIDE DEF F
  <2>2. PICK m \in F : \A k \in F : m <= k
    BY <1>1, <2>1, Least
  <2>3. m \in 0 .. n /\ f[m] \notin I[m]
    BY <2>2 DEF F
  <2>4. m # 0
    BY <2>3 DEF Keeps
  <2>5. m \in 1 .. n /\ m - 1 \in 0 .. n /\ ~ (m <= m - 1)
    BY <2>3, <2>4
  <2>6. f[m - 1] \in I[m - 1]
    BY <2>2, <2>5 DEF F
  <2> QED
    BY <2>3, <2>5, <2>6 DEF Keeps
<1> QED
  BY <1>1

-------------------------------------------------------------------------------
(* Types *)

SavedType == [orig : Pointers, value : Nat]
MemType == [ignore : BOOLEAN, expected : Nat, failureCount : Nat]
BlockType == [number : Nat, by : SUBSET Nat, checking : BOOLEAN, charges : Nat]
FrameType ==
  [registry : Registries, test : Nat, failures : Nat, left : BOOLEAN, disturbed : BOOLEAN,
   lent : BOOLEAN, expected : Nat, ignore : BOOLEAN]
StateType ==
  [pointer : [Pointers -> Nat], setlist : Seq(SavedType), checking_now : BOOLEAN,
   blocks : {B \in SUBSET BlockType : IsFiniteSet(B)}, leak : [LeakWarning -> MemType], adapters : Seq(Nat),
   failures : Nat]

(* What may be in the chain of r.                                          *)
Residents(r) == {p \in Plugins : Home[p] = r} \cup {NULL}

ChainsOK ==
  /\ \A r \in Registries : firstPlugin[r] \in Residents(r)
  /\ \A p \in Plugins : next_[p] \in Residents(Home[p])

TypeOK ==
  /\ firstPlugin \in [Registries -> Plugins \cup {NULL}]
  /\ next_ \in [Plugins -> Plugins \cup {NULL}]
  /\ enabled \in [Plugins -> BOOLEAN]
  /\ current \in Registries
  /\ entries \in [MockSupport -> Seq(Nat)]
  /\ frames \in Seq(FrameType)
  /\ pointer \in [Pointers -> Nat] /\ setlist \in Seq(SavedType)
  /\ checking_now \in BOOLEAN
  /\ blocks \in SUBSET BlockType /\ IsFiniteSet(blocks)
  /\ leak \in [LeakWarning -> MemType]
  /\ adapters \in Seq(Nat)
  /\ tests \in Nat /\ offers \in Nat /\ forgotten \in BOOLEAN

(* At most one test runs inside another, and of the Inner registry.        *)
NestingOK ==
  /\ Depth \in 0 .. 2
  /\ Depth > 0 => frames[1].registry = Default
  /\ Depth > 1 => frames[2].registry = Inner
  /\ current = IF Depth = 2 THEN Inner ELSE Default

TypeInv == TypeOK /\ ChainsOK /\ NestingOK

-------------------------------------------------------------------------------
(* The chain *)

N == Cardinality(Plugins)

Walks(r, h) ==
  h = [k \in 0 .. N |-> IF k = 0 THEN firstPlugin[r]
                        ELSE LET p == h[k - 1] IN IF p = NULL THEN NULL ELSE next_[p]]

LEMMA ChainType ==
  ASSUME TypeOK, ChainsOK, NEW r \in Registries
  PROVE  /\ N \in Nat
         /\ ChainOf(r) \in [1 .. N -> Residents(r)]
         /\ Len(ChainOf(r)) = N /\ DOMAIN ChainOf(r) = 1 .. N
<1> DEFINE S == Residents(r)
           g == [k \in 1 .. N |-> [p \in S |-> IF p = NULL THEN NULL ELSE next_[p]]]
           w == CHOOSE h : Walks(r, h)
<1>1. N \in Nat
  BY FS_CardinalityType, PluginsAssumption DEF N
<1>2. g \in Steps(N, S) /\ firstPlugin[r] \in S
  BY DEF Steps, Residents, ChainsOK
<1> HIDE DEF S, g
<1>3. PICK h : Recursion(h, N, S, firstPlugin[r], g)
  BY <1>1, <1>2, RecursionExists
<1>4. Walks(r, h)
  <2>1. ASSUME NEW k \in 0 .. N
        PROVE  h[k] = IF k = 0 THEN firstPlugin[r]
                      ELSE IF h[k - 1] = NULL THEN NULL ELSE next_[h[k - 1]]
    <3>1. CASE k = 0
      BY <1>3, <3>1 DEF Recursion
    <3>2. CASE k # 0
      <4>1. k \in 1 .. N /\ k - 1 \in 0 .. N
        BY <1>1, <3>2
      <4>2. h[k - 1] \in S /\ h[k] = g[k][h[k - 1]]
        BY <1>3, <4>1 DEF Recursion
      <4> QED
        BY <3>2, <4>1, <4>2 DEF g
    <3> QED
      BY <3>1, <3>2
  <2>2. h = [k \in 0 .. N |-> h[k]]
    BY <1>3 DEF Recursion
  <2> QED
    BY <2>1, <2>2 DEF Walks
<1>5. Walks(r, w)
  BY <1>4
<1>6. ChainOf(r) = [k \in 1 .. N |-> w[k - 1]]
  BY DEF ChainOf, Walks, N
<1> HIDE DEF w
<1> DEFINE I == [k \in 0 .. N |-> S]
<1>7. \A k \in 0 .. N : w[k] = IF k = 0 THEN firstPlugin[r]
                               ELSE IF w[k - 1] = NULL THEN NULL ELSE next_[w[k - 1]]
  BY <1>5 DEF Walks
<1>8. Keeps(w, N, I)
  <2>1. w[0] \in S /\ 0 \in 0 .. N
    BY <1>1, <1>2, <1>7
  <2>2. ASSUME NEW k \in 1 .. N, w[k - 1] \in S PROVE w[k] \in S
    <3>1. w[k] = IF w[k - 1] = NULL THEN NULL ELSE next_[w[k - 1]]
      BY <1>1, <1>7
    <3> QED
      BY <2>2, <3>1 DEF S, Residents, ChainsOK
  <2>3. \A k \in 1 .. N : k \in 0 .. N /\ k - 1 \in 0 .. N
    BY <1>1
  <2> QED
    BY <2>1, <2>2, <2>3 DEF Keeps
<1>9. \A k \in 0 .. N : w[k] \in S
  <2> HIDE DEF I
  <2>1. \A k \in 0 .. N : w[k] \in I[k]
    BY <1>1, <1>8, Kept
  <2> QED
    BY <2>1 DEF I
<1>10. \A k \in 1 .. N : k - 1 \in 0 .. N
  BY <1>1
<1>11. ChainOf(r) \in [1 .. N -> S]
  BY <1>6, <1>9, <1>10
<1>12. ChainOf(r) \in Seq(S) /\ Len(ChainOf(r)) = N
  <2> HIDE DEF N
  <2> QED
    BY <1>1, <1>11
<1> QED
  BY <1>1, <1>11, <1>12 DEF S

-------------------------------------------------------------------------------
(* What a plugin does before a test *)

Lends(p) == TakesPart(p) /\ p \in MockSupport
Watches(p) == TakesPart(p) /\ p \in LeakWarning
Restores(p) == TakesPart(p) /\ p \in SetPointer

PreEffect(s, u, p) ==
  /\ u \in StateType
  /\ u.pointer = s.pointer /\ u.setlist = s.setlist /\ u.blocks = s.blocks /\ u.failures = s.failures
  /\ u.checking_now = (s.checking_now \/ Watches(p))
  /\ u.leak = IF Watches(p) THEN [s.leak EXCEPT ![p] = [@ EXCEPT !.failureCount = s.failures]] ELSE s.leak
  /\ u.adapters = s.adapters \o (IF Lends(p) THEN entries[p] ELSE <<>>)

LEMMA Kinds ==
  /\ \A p \in LeakWarning : p \notin SetPointer /\ p \notin MockSupport
  /\ \A p \in MockSupport : p \notin SetPointer /\ p \notin LeakWarning
  /\ \A p \in SetPointer : p \notin MockSupport /\ p \notin LeakWarning
BY PluginsAssumption

LEMMA PreStep ==
  ASSUME TypeOK, NEW s \in StateType, NEW p \in Plugins \cup {NULL}
  PROVE  PreEffect(s, PreTestAction(s, p), p)
<1>1. s.adapters \in Seq(Nat) /\ s.leak \in [LeakWarning -> MemType] /\ s.failures \in Nat /\ s.checking_now \in BOOLEAN
  BY DEF StateType
<1>2. s.adapters \o <<>> = s.adapters
  BY <1>1
<1>3. CASE ~TakesPart(p)
  BY <1>1, <1>2, <1>3 DEF PreEffect, PreTestAction, Lends, Watches
<1>4. CASE TakesPart(p) /\ p \in LeakWarning
  <2> DEFINE l == [s.leak EXCEPT ![p] = [@ EXCEPT !.failureCount = s.failures]]
  <2>1. l \in [LeakWarning -> MemType]
    BY <1>1, <1>4 DEF MemType
  <2>2. PreTestAction(s, p) = [s EXCEPT !.checking_now = TRUE, !.leak = l]
    BY <1>4, Kinds DEF PreTestAction
  <2> HIDE DEF l
  <2>3. [s EXCEPT !.checking_now = TRUE, !.leak = l] \in StateType
    BY <2>1 DEF StateType
  <2>4. LET u == [s EXCEPT !.checking_now = TRUE, !.leak = l]
        IN  /\ u.pointer = s.pointer /\ u.setlist = s.setlist /\ u.blocks = s.blocks
            /\ u.failures = s.failures /\ u.checking_now = TRUE /\ u.leak = l /\ u.adapters = s.adapters
    BY DEF StateType
  <2>5. Watches(p) /\ ~Lends(p)
    BY <1>4, Kinds DEF Watches, Lends
  <2> QED
    BY <1>1, <1>2, <2>2, <2>3, <2>4, <2>5 DEF PreEffect, l
<1>5. CASE TakesPart(p) /\ p \in MockSupport
  <2> DEFINE a == s.adapters \o entries[p]
  <2>1. a \in Seq(Nat)
    BY <1>1, <1>5 DEF TypeOK
  <2>2. PreTestAction(s, p) = [s EXCEPT !.adapters = a]
    BY <1>5, Kinds DEF PreTestAction
  <2> HIDE DEF a
  <2>3. [s EXCEPT !.adapters = a] \in StateType
    BY <2>1 DEF StateType
  <2>4. LET u == [s EXCEPT !.adapters = a]
        IN  /\ u.pointer = s.pointer /\ u.setlist = s.setlist /\ u.blocks = s.blocks
            /\ u.failures = s.failures /\ u.checking_now = s.checking_now /\ u.leak = s.leak
            /\ u.adapters = a
    BY DEF StateType
  <2>5. ~Watches(p) /\ Lends(p)
    BY <1>5, Kinds DEF Watches, Lends
  <2> QED
    BY <1>1, <2>2, <2>3, <2>4, <2>5 DEF PreEffect, a
<1>6. CASE TakesPart(p) /\ p \in SetPointer
  <2>1. PreTestAction(s, p) = s
    BY <1>6, Kinds DEF PreTestAction
  <2>2. ~Watches(p) /\ ~Lends(p)
    BY <1>6, Kinds DEF Watches, Lends
  <2> QED
    BY <1>1, <1>2, <2>1, <2>2 DEF PreEffect
<1> QED
  BY <1>3, <1>4, <1>5, <1>6 DEF TakesPart, Plugins

PreLoop(c, s, h) ==
  h = [k \in 0 .. Len(c) |-> IF k = 0 THEN s ELSE PreTestAction(h[k - 1], c[k])]

(* What each action before a test keeps, all of them do.                   *)
PreKeeps(c, s, I) ==
  /\ s \in I[0]
  /\ \A k \in 1 .. N : \A u \in StateType, v \in StateType :
       u \in I[k - 1] /\ PreEffect(u, v, c[k]) => v \in I[k]

LEMMA PreActions ==
  ASSUME TypeInv, NEW r \in Registries, NEW s \in StateType, NEW I, PreKeeps(ChainOf(r), s, I)
  PROVE  AllPreActions(r, s) \in StateType /\ AllPreActions(r, s) \in I[N]
<1> DEFINE c == ChainOf(r)
           g == [k \in 1 .. N |-> [u \in StateType |-> PreTestAction(u, c[k])]]
           w == CHOOSE h : PreLoop(c, s, h)
<1>1. N \in Nat /\ c \in [1 .. N -> Residents(r)] /\ Len(c) = N
  BY ChainType DEF TypeInv
<1>2. \A k \in 1 .. N : c[k] \in Plugins \cup {NULL}
  BY <1>1 DEF Residents
<1>3. AllPreActions(r, s) = w[N]
  BY <1>1 DEF AllPreActions, PreLoop
<1>4. PreKeeps(c, s, I)
  OBVIOUS
<1> HIDE DEF c
<1>5. \A k \in 1 .. N : \A u \in StateType : PreEffect(u, PreTestAction(u, c[k]), c[k])
  BY <1>2, PreStep DEF TypeInv
<1>6. \A k \in 1 .. N : \A u \in StateType : PreTestAction(u, c[k]) \in StateType
  BY <1>5 DEF PreEffect
<1>7. g \in Steps(N, StateType)
  BY <1>6 DEF Steps
<1> HIDE DEF g
<1>8. PICK h : Recursion(h, N, StateType, s, g)
  BY <1>1, <1>7, RecursionExists
<1>9. PreLoop(c, s, h)
  <2>1. ASSUME NEW k \in 0 .. N
        PROVE  h[k] = IF k = 0 THEN s ELSE PreTestAction(h[k - 1], c[k])
    <3>1. CASE k = 0
      BY <1>8, <3>1 DEF Recursion
    <3>2. CASE k # 0
      <4>1. k \in 1 .. N /\ k - 1 \in 0 .. N
        BY <1>1, <3>2
      <4>2. h[k - 1] \in StateType /\ h[k] = g[k][h[k - 1]]
        BY <1>8, <4>1 DEF Recursion
      <4> QED
        BY <3>2, <4>1, <4>2 DEF g
    <3> QED
      BY <3>1, <3>2
  <2>2. h = [k \in 0 .. N |-> h[k]]
    BY <1>8 DEF Recursion
  <2> QED
    BY <1>1, <2>1, <2>2 DEF PreLoop
<1>10. PreLoop(c, s, w)
  BY <1>9
<1> HIDE DEF w
<1> DEFINE J == [k \in 0 .. N |-> {u \in StateType : u \in I[k]}]
<1>11. \A k \in 0 .. N : w[k] = IF k = 0 THEN s ELSE PreTestAction(w[k - 1], c[k])
  BY <1>1, <1>10 DEF PreLoop
<1>12. Keeps(w, N, J)
  <2>1. 0 \in 0 .. N /\ \A k \in 1 .. N : k \in 0 .. N /\ k - 1 \in 0 .. N /\ k # 0
    BY <1>1
  <2>2. w[0] \in J[0]
    BY <1>4, <1>11, <2>1 DEF PreKeeps
  <2>3. ASSUME NEW k \in 1 .. N, w[k - 1] \in J[k - 1] PROVE w[k] \in J[k]
    <3>1. w[k - 1] \in StateType /\ w[k - 1] \in I[k - 1] /\ w[k] = PreTestAction(w[k - 1], c[k])
      BY <1>11, <2>1, <2>3
    <3>2. PreEffect(w[k - 1], w[k], c[k]) /\ w[k] \in StateType
      BY <1>5, <1>6, <3>1
    <3>3. w[k] \in I[k]
      BY <1>4, <3>1, <3>2 DEF PreKeeps
    <3> QED
      BY <2>1, <3>2, <3>3
  <2> QED
    BY <2>2, <2>3 DEF Keeps
<1> HIDE DEF J
<1>13. w[N] \in J[N]
  BY <1>1, <1>12, Kept
<1> QED
  BY <1>1, <1>3, <1>13 DEF J

-------------------------------------------------------------------------------
(* What a plugin does after a test *)

(* What is saved is enough to set every pointer to what it was at first:   *)
(* the first entry of one has that value.                                  *)
Restorable(values, saved) ==
  /\ \A x \in Pointers : values[x] = 0 \/ \E i \in 1 .. Len(saved) : saved[i].orig = x
  /\ \A i \in 1 .. Len(saved) :
       saved[i].value = 0 \/ \E j \in 1 .. Len(saved) : j < i /\ saved[j].orig = saved[i].orig

AsAtFirst(values) == \A x \in Pointers : values[x] = 0

RestoreLoop(s, h) ==
  h = [k \in 0 .. Len(s.setlist) |-> IF k = 0 THEN s.pointer
                                     ELSE Restored(h[k - 1], s.setlist[Len(s.setlist) + 1 - k])]

RestoreEffect(s, u) ==
  /\ u \in StateType
  /\ u.setlist = <<>> /\ (Restorable(s.pointer, s.setlist) => AsAtFirst(u.pointer))
  /\ u.checking_now = s.checking_now /\ u.blocks = s.blocks /\ u.leak = s.leak
  /\ u.adapters = s.adapters /\ u.failures = s.failures

LEMMA PointersComeBack ==
  ASSUME NEW s \in StateType
  PROVE  RestoreEffect(s, RestorePointers(s))
<1> DEFINE n == Len(s.setlist)
           S == [Pointers -> Nat]
           x(k) == s.setlist[n + 1 - k]
           g == [k \in 1 .. n |-> [v \in S |-> Restored(v, x(k))]]
           w == CHOOSE h : RestoreLoop(s, h)
<1>1. s.setlist \in Seq(SavedType) /\ n \in Nat /\ s.pointer \in S
  BY DEF StateType
<1>2. \A k \in 1 .. n : n + 1 - k \in 1 .. n /\ x(k) \in SavedType
  BY <1>1
<1>3. \A k \in 1 .. n : \A v \in S : Restored(v, x(k)) \in S
  BY <1>2 DEF Restored, SavedType
<1>4. g \in Steps(n, S)
  BY <1>3 DEF Steps
<1>5. PICK h : Recursion(h, n, S, s.pointer, g)
  <2> HIDE DEF g, n, S
  <2> QED
    BY <1>1, <1>4, RecursionExists
<1>6. RestoreLoop(s, h)
  <2>1. ASSUME NEW k \in 0 .. n
        PROVE  h[k] = IF k = 0 THEN s.pointer ELSE Restored(h[k - 1], x(k))
    <3>1. CASE k = 0
      BY <1>5, <3>1 DEF Recursion
    <3>2. CASE k # 0
      <4>1. k \in 1 .. n /\ k - 1 \in 0 .. n
        BY <1>1, <3>2
      <4>2. h[k - 1] \in S /\ h[k] = g[k][h[k - 1]]
        BY <1>5, <4>1 DEF Recursion
      <4> HIDE DEF S
      <4> QED
        BY <3>2, <4>1, <4>2
    <3> QED
      BY <3>1, <3>2
  <2>2. h = [k \in 0 .. n |-> h[k]]
    BY <1>5 DEF Recursion
  <2> QED
    BY <2>1, <2>2 DEF RestoreLoop
<1>7. RestoreLoop(s, w)
  BY <1>6
<1>8. RestorePointers(s) = [s EXCEPT !.pointer = w[n], !.setlist = <<>>]
  BY DEF RestorePointers, RestoreLoop
<1> HIDE DEF w, g
<1>9. \A k \in 0 .. n : w[k] = IF k = 0 THEN s.pointer ELSE Restored(w[k - 1], x(k))
  BY <1>7 DEF RestoreLoop
<1> DEFINE Left(v, k) == \A y \in Pointers : v[y] = 0 \/ \E j \in 1 .. n : j <= n - k /\ s.setlist[j].orig = y
           I == [k \in 0 .. n |-> {v \in S : Restorable(s.pointer, s.setlist) => Left(v, k)}]
<1>10. Keeps(w, n, I)
  <2>1. 0 \in 0 .. n /\ \A k \in 1 .. n : k \in 0 .. n /\ k - 1 \in 0 .. n /\ k # 0
    BY <1>1
  <2>2. w[0] \in I[0]
    <3>1. w[0] = s.pointer
      BY <1>9, <2>1
    <3>2. ASSUME Restorable(s.pointer, s.setlist) PROVE Left(s.pointer, 0)
      <4>1. \A j \in 1 .. n : j <= n - 0
        BY <1>1
      <4> QED
        BY <3>2, <4>1 DEF Restorable
    <3> HIDE DEF Left
    <3> QED
      BY <1>1, <2>1, <3>1, <3>2
  <2>3. ASSUME NEW k \in 1 .. n, w[k - 1] \in I[k - 1] PROVE w[k] \in I[k]
    <3>1. /\ w[k - 1] \in S
          /\ Restorable(s.pointer, s.setlist) => Left(w[k - 1], k - 1)
      <4> HIDE DEF Left
      <4> QED
        BY <2>1, <2>3
    <3>2. w[k] = Restored(w[k - 1], x(k))
      BY <1>9, <2>1
    <3> DEFINE i == n + 1 - k
               v == w[k - 1]
    <3>3. /\ i \in 1 .. n /\ k \in Nat /\ s.setlist[i] \in SavedType
          /\ \A j \in 1 .. n : j <= n - (k - 1) => j <= n - k \/ j = i
          /\ \A j \in 1 .. n : j < i => j <= n - k
      <4>1. s.setlist[i] \in SavedType
        BY <1>2
      <4>2. n \in Nat /\ k \in Nat /\ k \in 1 .. n
        BY <1>1
      <4> HIDE DEF n
      <4> QED
        BY <4>1, <4>2
    <3>4. w[k] = [v EXCEPT ![s.setlist[i].orig] = s.setlist[i].value]
      BY <3>2 DEF Restored
    <3>5. w[k] \in S
      BY <3>1, <3>3, <3>4 DEF SavedType
    <3>6. ASSUME Restorable(s.pointer, s.setlist) PROVE Left(w[k], k)
      <4>1. \A y \in Pointers : v[y] = 0 \/ \E j \in 1 .. n : j <= n - (k - 1) /\ s.setlist[j].orig = y
        BY <3>1, <3>6
      <4>2. s.setlist[i].value = 0 \/ \E j \in 1 .. n : j < i /\ s.setlist[j].orig = s.setlist[i].orig
        BY <3>3, <3>6 DEF Restorable
      <4> HIDE DEF i, v, n
      <4>3. ASSUME NEW y \in Pointers, w[k][y] # 0
            PROVE  \E j \in 1 .. n : j <= n - k /\ s.setlist[j].orig = y
        <5>1. CASE y = s.setlist[i].orig
          <6>1. w[k][y] = s.setlist[i].value
            BY <3>1, <3>4, <5>1 DEF v
          <6> QED
            BY <3>3, <4>2, <4>3, <5>1, <6>1
        <5>2. CASE y # s.setlist[i].orig
          <6>1. w[k][y] = v[y]
            BY <3>1, <3>4, <5>2 DEF v
          <6> QED
            BY <3>3, <4>1, <4>3, <5>2, <6>1
        <5> QED
          BY <5>1, <5>2
      <4> QED
        BY <4>3 DEF n
    <3> HIDE DEF Left
    <3> QED
      BY <2>1, <3>5, <3>6
  <2> HIDE DEF I
  <2> QED
    BY <2>2, <2>3 DEF Keeps
<1>11. w[n] \in S /\ (Restorable(s.pointer, s.setlist) => AsAtFirst(w[n]))
  <2>1. w[n] \in I[n] /\ n \in 0 .. n
    <3> HIDE DEF I, n
    <3>1. n \in 0 .. n
      BY <1>1
    <3> QED
      BY <1>1, <1>10, <3>1, Kept
  <2>2. w[n] \in S /\ (Restorable(s.pointer, s.setlist) => Left(w[n], n))
    <3> HIDE DEF Left
    <3> QED
      BY <2>1
  <2>3. \A j \in 1 .. n : ~ (j <= n - n)
    BY <1>1
  <2>4. ASSUME Left(w[n], n) PROVE AsAtFirst(w[n])
    BY <2>3, <2>4 DEF AsAtFirst
  <2> HIDE DEF Left, S
  <2> QED
    BY <2>2, <2>4
<1> HIDE DEF n, x, I
<1>12. [s EXCEPT !.pointer = w[n], !.setlist = <<>>] \in StateType
  <2> DEFINE v == w[n]
             e == <<>>
  <2>1. v \in [Pointers -> Nat] /\ e \in Seq(SavedType)
    BY <1>11
  <2> HIDE DEF v, e
  <2>2. [s EXCEPT !.pointer = v, !.setlist = e] \in StateType
    BY <2>1 DEF StateType
  <2> QED
    BY <2>2 DEF v, e
<1>13. LET u == [s EXCEPT !.pointer = w[n], !.setlist = <<>>]
       IN  /\ u.pointer = w[n] /\ u.setlist = <<>>
           /\ u.checking_now = s.checking_now /\ u.blocks = s.blocks /\ u.leak = s.leak
           /\ u.adapters = s.adapters /\ u.failures = s.failures
  BY DEF StateType
<1> QED
  BY <1>8, <1>11, <1>12, <1>13 DEF RestoreEffect

(* The blocks after a leak check.                                          *)
Charged(B, fails) ==
  {[b EXCEPT !.checking = FALSE, !.charges = IF fails /\ b.checking THEN @ + 1 ELSE @] : b \in B}

Fails(s, p) ==
  LET mem == s.leak[p]
  IN  ~mem.ignore /\ mem.expected # Cardinality(Checked(s)) /\ mem.failureCount = s.failures

PostEffect(s, u, p) ==
  /\ u \in StateType
  /\ IF Restores(p)
     THEN u.setlist = <<>> /\ (Restorable(s.pointer, s.setlist) => AsAtFirst(u.pointer))
     ELSE u.pointer = s.pointer /\ u.setlist = s.setlist
  /\ IF Watches(p)
     THEN /\ ~u.checking_now
          /\ u.leak = [s.leak EXCEPT ![p] = Forgiving]
          /\ u.failures = IF Fails(s, p) THEN s.failures + 1 ELSE s.failures
          /\ u.blocks = Charged(s.blocks, Fails(s, p))
     ELSE /\ u.checking_now = s.checking_now /\ u.leak = s.leak
          /\ u.failures = s.failures /\ u.blocks = s.blocks
  /\ u.adapters = IF Lends(p) THEN <<>> ELSE s.adapters

LEMMA ChargedType ==
  ASSUME NEW B \in SUBSET BlockType, IsFiniteSet(B), NEW fails \in BOOLEAN
  PROVE  Charged(B, fails) \in SUBSET BlockType /\ IsFiniteSet(Charged(B, fails))
<1>1. ASSUME NEW b \in B
      PROVE  [b EXCEPT !.checking = FALSE, !.charges = IF fails /\ b.checking THEN @ + 1 ELSE @] \in BlockType
  <2> DEFINE c == IF fails /\ b.checking THEN b.charges + 1 ELSE b.charges
  <2>1. b \in BlockType
    OBVIOUS
  <2>2. c \in Nat
    BY <2>1 DEF BlockType
  <2> HIDE DEF c
  <2>3. [b EXCEPT !.checking = FALSE, !.charges = c] \in BlockType
    BY <2>1, <2>2 DEF BlockType
  <2> QED
    BY <2>3 DEF c
<1>2. Charged(B, fails) \in SUBSET BlockType
  BY <1>1 DEF Charged
<1>3. IsFiniteSet(Charged(B, fails))
  <2> DEFINE f == [b \in B |-> [b EXCEPT !.checking = FALSE,
                                         !.charges = IF fails /\ b.checking THEN @ + 1 ELSE @]]
             C == Charged(B, fails)
  <2>1. C = {f[b] : b \in B} /\ f \in [B -> C]
    BY DEF Charged
  <2> HIDE DEF f
  <2>2. \A c \in C : \E b \in B : f[b] = c
    BY <2>1
  <2> HIDE DEF C
  <2>3. f \in Surjection(B, C)
    BY <2>1, <2>2, Fun_IsSurj
  <2>4. IsFiniteSet(C)
    BY <2>3, FS_Surjection
  <2> QED
    BY <2>4 DEF C
<1> QED
  BY <1>2, <1>3

LEMMA PostStep ==
  ASSUME TypeOK, NEW s \in StateType, NEW p \in Plugins \cup {NULL}
  PROVE  PostEffect(s, PostTestAction(s, p), p)
<1>1. /\ s.adapters \in Seq(Nat) /\ s.leak \in [LeakWarning -> MemType]
      /\ s.failures \in Nat /\ s.checking_now \in BOOLEAN
      /\ s.blocks \in SUBSET BlockType /\ IsFiniteSet(s.blocks)
  BY DEF StateType
<1>2. CASE ~TakesPart(p)
  BY <1>1, <1>2 DEF PostEffect, PostTestAction, Lends, Watches, Restores
<1>3. CASE TakesPart(p) /\ p \in SetPointer
  <2>1. PostTestAction(s, p) = RestorePointers(s)
    BY <1>3, Kinds DEF PostTestAction
  <2>2. ~Watches(p) /\ ~Lends(p) /\ Restores(p)
    BY <1>3, Kinds DEF Watches, Lends, Restores
  <2> QED
    BY <2>1, <2>2, PointersComeBack DEF PostEffect, RestoreEffect
<1>4. CASE TakesPart(p) /\ p \in LeakWarning
  <2> DEFINE l == [s.leak EXCEPT ![p] = Forgiving]
             f == IF Fails(s, p) THEN s.failures + 1 ELSE s.failures
             B == Charged(s.blocks, Fails(s, p))
  <2>1. l \in [LeakWarning -> MemType]
    BY <1>1, <1>4 DEF MemType, Forgiving
  <2>2. f \in Nat
    BY <1>1
  <2>3. B \in {C \in SUBSET BlockType : IsFiniteSet(C)}
    <3>1. Fails(s, p) \in BOOLEAN
      BY DEF Fails
    <3> QED
      BY <1>1, <3>1, ChargedType
  <2>4. PostTestAction(s, p) =
          [s EXCEPT !.checking_now = FALSE, !.leak = l, !.failures = f, !.blocks = B]
    <3>1. PostTestAction(s, p) = ChargeLeaks(s, p)
      BY <1>4, Kinds DEF PostTestAction
    <3>2. ChargeLeaks(s, p) =
            [s EXCEPT !.checking_now = FALSE, !.leak[p] = Forgiving,
                      !.failures = IF Fails(s, p) THEN @ + 1 ELSE @,
                      !.blocks = Charged(@, Fails(s, p))]
      BY DEF ChargeLeaks, Charged, Fails
    <3> QED
      BY <3>1, <3>2
  <2> HIDE DEF l, f, B
  <2>5. [s EXCEPT !.checking_now = FALSE, !.leak = l, !.failures = f, !.blocks = B] \in StateType
    BY <2>1, <2>2, <2>3 DEF StateType
  <2>6. LET u == [s EXCEPT !.checking_now = FALSE, !.leak = l, !.failures = f, !.blocks = B]
        IN  /\ u.pointer = s.pointer /\ u.setlist = s.setlist /\ u.blocks = B
            /\ u.failures = f /\ u.checking_now = FALSE /\ u.leak = l /\ u.adapters = s.adapters
    BY DEF StateType
  <2>7. Watches(p) /\ ~Lends(p) /\ ~Restores(p)
    BY <1>4, Kinds DEF Watches, Lends, Restores
  <2> QED
    BY <2>4, <2>5, <2>6, <2>7 DEF PostEffect, l, f, B
<1>5. CASE TakesPart(p) /\ p \in MockSupport
  <2> DEFINE e == <<>>
  <2>1. e \in Seq(Nat)
    OBVIOUS
  <2>2. PostTestAction(s, p) = [s EXCEPT !.adapters = e]
    BY <1>5, Kinds DEF PostTestAction, RemoveAdapters
  <2> HIDE DEF e
  <2>3. [s EXCEPT !.adapters = e] \in StateType
    BY <2>1 DEF StateType
  <2>4. LET u == [s EXCEPT !.adapters = e]
        IN  /\ u.pointer = s.pointer /\ u.setlist = s.setlist /\ u.blocks = s.blocks
            /\ u.failures = s.failures /\ u.checking_now = s.checking_now /\ u.leak = s.leak
            /\ u.adapters = e
    BY DEF StateType
  <2>5. ~Watches(p) /\ Lends(p) /\ ~Restores(p)
    BY <1>5, Kinds DEF Watches, Lends, Restores
  <2> QED
    BY <2>2, <2>3, <2>4, <2>5 DEF PostEffect, e
<1> QED
  BY <1>2, <1>3, <1>4, <1>5 DEF TakesPart, Plugins

PostLoop(c, s, h) ==
  h = [k \in 0 .. Len(c) |-> IF k = 0 THEN s ELSE PostTestAction(h[k - 1], c[Len(c) + 1 - k])]

(* What each action after a test keeps, all of them do.                    *)
PostKeeps(c, s, I) ==
  /\ s \in I[0]
  /\ \A k \in 1 .. N : \A u \in StateType, v \in StateType :
       u \in I[k - 1] /\ PostEffect(u, v, c[N + 1 - k]) => v \in I[k]

LEMMA PostActions ==
  ASSUME TypeInv, NEW r \in Registries, NEW s \in StateType, NEW I, PostKeeps(ChainOf(r), s, I)
  PROVE  AllPostActions(r, s) \in StateType /\ AllPostActions(r, s) \in I[N]
<1> DEFINE c == ChainOf(r)
           g == [k \in 1 .. N |-> [u \in StateType |-> PostTestAction(u, c[N + 1 - k])]]
           w == CHOOSE h : PostLoop(c, s, h)
<1>1. N \in Nat /\ c \in [1 .. N -> Residents(r)] /\ Len(c) = N
  BY ChainType DEF TypeInv
<1>2. \A k \in 1 .. N : c[N + 1 - k] \in Plugins \cup {NULL}
  <2>1. \A k \in 1 .. N : N + 1 - k \in 1 .. N
    <3> HIDE DEF N
    <3> QED
      BY <1>1
  <2> QED
    BY <1>1, <2>1 DEF Residents
<1>3. AllPostActions(r, s) = w[N]
  BY <1>1 DEF AllPostActions, PostLoop
<1>4. PostKeeps(c, s, I)
  OBVIOUS
<1> HIDE DEF c
<1>5. \A k \in 1 .. N : \A u \in StateType : PostEffect(u, PostTestAction(u, c[N + 1 - k]), c[N + 1 - k])
  BY <1>2, PostStep DEF TypeInv
<1>6. \A k \in 1 .. N : \A u \in StateType : PostTestAction(u, c[N + 1 - k]) \in StateType
  BY <1>5 DEF PostEffect
<1>7. g \in Steps(N, StateType)
  BY <1>6 DEF Steps
<1> HIDE DEF g
<1>8. PICK h : Recursion(h, N, StateType, s, g)
  BY <1>1, <1>7, RecursionExists
<1>9. PostLoop(c, s, h)
  <2>1. ASSUME NEW k \in 0 .. N
        PROVE  h[k] = IF k = 0 THEN s ELSE PostTestAction(h[k - 1], c[N + 1 - k])
    <3>1. CASE k = 0
      BY <1>8, <3>1 DEF Recursion
    <3>2. CASE k # 0
      <4>1. k \in 1 .. N /\ k - 1 \in 0 .. N
        BY <1>1, <3>2
      <4>2. h[k - 1] \in StateType /\ h[k] = g[k][h[k - 1]]
        BY <1>8, <4>1 DEF Recursion
      <4> QED
        BY <3>2, <4>1, <4>2 DEF g
    <3> QED
      BY <3>1, <3>2
  <2>2. h = [k \in 0 .. N |-> h[k]]
    BY <1>8 DEF Recursion
  <2> QED
    BY <1>1, <2>1, <2>2 DEF PostLoop
<1>10. PostLoop(c, s, w)
  BY <1>9
<1> HIDE DEF w
<1> DEFINE J == [k \in 0 .. N |-> {u \in StateType : u \in I[k]}]
<1>11. \A k \in 0 .. N : w[k] = IF k = 0 THEN s ELSE PostTestAction(w[k - 1], c[N + 1 - k])
  BY <1>1, <1>10 DEF PostLoop
<1>12. Keeps(w, N, J)
  <2>1. 0 \in 0 .. N /\ \A k \in 1 .. N : k \in 0 .. N /\ k - 1 \in 0 .. N /\ k # 0
    BY <1>1
  <2>2. w[0] \in J[0]
    BY <1>4, <1>11, <2>1 DEF PostKeeps
  <2>3. ASSUME NEW k \in 1 .. N, w[k - 1] \in J[k - 1] PROVE w[k] \in J[k]
    <3>1. w[k - 1] \in StateType /\ w[k - 1] \in I[k - 1] /\ w[k] = PostTestAction(w[k - 1], c[N + 1 - k])
      BY <1>11, <2>1, <2>3
    <3>2. PostEffect(w[k - 1], w[k], c[N + 1 - k]) /\ w[k] \in StateType
      BY <1>5, <1>6, <3>1
    <3>3. w[k] \in I[k]
      BY <1>4, <3>1, <3>2 DEF PostKeeps
    <3> QED
      BY <2>1, <3>2, <3>3
  <2> QED
    BY <2>2, <2>3 DEF Keeps
<1> HIDE DEF J
<1>13. w[N] \in J[N]
  BY <1>1, <1>12, Kept
<1> QED
  BY <1>1, <1>3, <1>13 DEF J

-------------------------------------------------------------------------------
(* Types are kept *)

LEMMA TypeInit == Init => TypeInv
<1> SUFFICES ASSUME Init PROVE TypeInv
  OBVIOUS
<1>1. PICK start \in Starts :
        /\ firstPlugin = [r \in Registries |-> Append(start[r], NULL)[1]]
        /\ next_ = [p \in Plugins |-> Behind(start[Home[p]], p)]
  BY DEF Init
<1>2. \A r \in Registries : start[r] \in Seq(Plugins) /\ \A p \in ToSet(start[r]) : Home[p] = r
  BY PluginsAssumption
<1>3. ASSUME NEW r \in Registries, NEW i \in 1 .. Len(start[r]) + 1
      PROVE  Append(start[r], NULL)[i] \in Residents(r)
  <2>1. start[r] \in Seq(Plugins)
    BY <1>2
  <2>2. CASE i = Len(start[r]) + 1
    BY <2>1, <2>2 DEF Residents
  <2>3. CASE i # Len(start[r]) + 1
    <3>1. i \in 1 .. Len(start[r]) /\ Append(start[r], NULL)[i] = start[r][i] /\ start[r][i] \in Plugins
      BY <2>1, <2>3
    <3>2. start[r][i] \in ToSet(start[r])
      BY <2>1, <3>1 DEF ToSet
    <3> QED
      BY <1>2, <3>1, <3>2 DEF Residents
  <2> QED
    BY <2>2, <2>3
<1>4. \A r \in Registries : firstPlugin[r] \in Residents(r)
  <2>1. \A r \in Registries : Len(start[r]) \in Nat
    BY <1>2
  <2>2. \A r \in Registries : 1 \in 1 .. Len(start[r]) + 1
    BY <2>1
  <2> QED
    BY <1>1, <1>3, <2>2
<1>5. ASSUME NEW p \in Plugins PROVE next_[p] \in Residents(Home[p])
  <2> DEFINE s == start[Home[p]]
             i == CHOOSE j \in DOMAIN s : s[j] = p
  <2>1. Home[p] \in Registries /\ s \in Seq(Plugins) /\ next_[p] = Behind(s, p)
    BY <1>1, <1>2, PluginsAssumption
  <2>2. CASE Contains(s, p)
    <3>1. i \in 1 .. Len(s)
      BY <2>1, <2>2 DEF Contains
    <3> HIDE DEF i
    <3>2. 1 + i \in 1 .. Len(s) + 1
      BY <2>1, <3>1
    <3>3. next_[p] = Append(s, NULL)[1 + i]
      BY <2>1, <2>2 DEF Behind, i
    <3> QED
      BY <1>3, <2>1, <3>2, <3>3
  <2>3. CASE ~Contains(s, p)
    BY <2>1, <2>3 DEF Behind, Residents
  <2> QED
    BY <2>2, <2>3
<1>6. /\ firstPlugin \in [Registries -> Plugins \cup {NULL}]
      /\ next_ \in [Plugins -> Plugins \cup {NULL}]
  BY <1>1, <1>4, <1>5 DEF Residents
<1>7. /\ enabled \in [Plugins -> BOOLEAN] /\ current \in Registries
      /\ entries \in [MockSupport -> Seq(Nat)] /\ frames = <<>> /\ frames \in Seq(FrameType)
      /\ pointer \in [Pointers -> Nat] /\ setlist \in Seq(SavedType) /\ checking_now \in BOOLEAN
      /\ blocks \in SUBSET BlockType /\ IsFiniteSet(blocks)
      /\ adapters \in Seq(Nat) /\ tests \in Nat /\ offers \in Nat /\ forgotten \in BOOLEAN
      /\ current = Default
  <2>1. /\ enabled = [p \in Plugins |-> TRUE] /\ current = Default
        /\ entries = [p \in MockSupport |-> <<>>] /\ frames = <<>>
        /\ pointer = [x \in Pointers |-> 0] /\ setlist = <<>>
        /\ checking_now = FALSE /\ blocks = {} /\ adapters = <<>>
        /\ tests = 0 /\ offers = 0 /\ forgotten = FALSE
    BY DEF Init
  <2>2. \A T : <<>> \in Seq(T)
    OBVIOUS
  <2> QED
    BY <2>1, <2>2, FS_EmptySet DEF Registries
<1>8. leak \in [LeakWarning -> MemType]
  BY DEF Init, MemType, Forgiving
<1>9. NestingOK
  BY <1>7 DEF NestingOK, Depth
<1> QED
  BY <1>4, <1>5, <1>6, <1>7, <1>8, <1>9 DEF TypeInv, TypeOK, ChainsOK

LEMMA ChainSteps ==
  ASSUME TypeInv,
         NEW p \in Plugins, InstallPlugin(p) \/ RemovePlugin(p) \/ \E how \in BOOLEAN : Enable(p, how)
  PROVE  TypeInv'
<1>1. UnchangedByChain
  BY DEF InstallPlugin, RemovePlugin, Enable
<1>2. Home[p] \in Registries
  BY PluginsAssumption
<1>3. TypeOK /\ ChainsOK
  BY DEF TypeInv
<1>4. /\ firstPlugin' \in [Registries -> Plugins \cup {NULL}]
      /\ next_' \in [Plugins -> Plugins \cup {NULL}]
      /\ enabled' \in [Plugins -> BOOLEAN]
      /\ ChainsOK'
  <2>1. CASE InstallPlugin(p)
    <3>1. /\ next_' = [next_ EXCEPT ![p] = firstPlugin[Home[p]]]
          /\ firstPlugin' = [firstPlugin EXCEPT ![Home[p]] = p] /\ UNCHANGED enabled
      BY <2>1 DEF InstallPlugin
    <3> QED
      BY <1>2, <1>3, <3>1 DEF TypeOK, ChainsOK, Residents
  <2>2. CASE RemovePlugin(p)
    <3> DEFINE r == Home[p]
               q == firstPlugin[r]
    <3>1. CASE q = p
      <4>1. firstPlugin' = [firstPlugin EXCEPT ![r] = next_[p]] /\ UNCHANGED <<next_, enabled>>
        BY <2>2, <3>1 DEF RemovePlugin
      <4> QED
        BY <1>2, <1>3, <4>1 DEF TypeOK, ChainsOK, Residents
    <3>2. CASE q # p
      <4>1. /\ next_' = IF next_[q] = p THEN [next_ EXCEPT ![q] = next_[p]] ELSE next_
            /\ UNCHANGED <<firstPlugin, enabled>>
        BY <2>2, <3>2 DEF RemovePlugin
      <4>2. q \in Plugins => Home[q] = Home[p]
        BY <1>2, <1>3, PluginsAssumption DEF ChainsOK, Residents
      <4>3. CASE next_[q] = p
        <5>1. \A x \in Plugins : next_'[x] = IF x = q THEN next_[p] ELSE next_[x]
          BY <1>3, <4>1, <4>3 DEF TypeOK
        <5> QED
          BY <1>2, <1>3, <4>1, <4>2, <4>3, <5>1 DEF TypeOK, ChainsOK, Residents
      <4>4. CASE next_[q] # p
        BY <1>3, <4>1, <4>4 DEF TypeOK, ChainsOK
      <4> QED
        BY <4>3, <4>4
    <3> QED
      BY <3>1, <3>2
  <2>3. CASE \E how \in BOOLEAN : Enable(p, how)
    <3>1. PICK how \in BOOLEAN : enabled' = [enabled EXCEPT ![p] = how] /\ UNCHANGED <<firstPlugin, next_>>
      BY <2>3 DEF Enable
    <3> QED
      BY <1>3, <3>1 DEF TypeOK, ChainsOK
  <2> QED
    BY <2>1, <2>2, <2>3
<1>5. TypeOK'
  BY <1>1, <1>3, <1>4 DEF TypeOK, UnchangedByChain, shared
<1>6. NestingOK'
  BY <1>1 DEF TypeInv, NestingOK, UnchangedByChain, Depth
<1> QED
  BY <1>4, <1>5, <1>6 DEF TypeInv

LEMMA OfferStep ==
  ASSUME TypeInv, NEW p \in MockSupport, OfferComparator(p)
  PROVE  TypeInv'
<1>1. /\ entries' = IF Len(entries[p]) >= MaxEntries THEN entries
                    ELSE [entries EXCEPT ![p] = Append(@, offers + 1)]
      /\ offers' = offers + 1
      /\ UNCHANGED <<chain, current, frames, shared, tests, forgotten>>
  BY DEF OfferComparator
<1>2. entries \in [MockSupport -> Seq(Nat)] /\ offers \in Nat
  BY DEF TypeInv, TypeOK
<1>3. offers + 1 \in Nat /\ entries[p] \in Seq(Nat)
  BY <1>2
<1>4. Append(entries[p], offers + 1) \in Seq(Nat)
  BY <1>3
<1>5. entries' \in [MockSupport -> Seq(Nat)]
  BY <1>1, <1>2, <1>4
<1>6. TypeOK'
  BY <1>1, <1>3, <1>5 DEF TypeInv, TypeOK, chain, shared
<1>7. ChainsOK' /\ NestingOK'
  BY <1>1 DEF TypeInv, ChainsOK, NestingOK, Depth, chain
<1> QED
  BY <1>6, <1>7 DEF TypeInv

LEMMA StateTypes ==
  ASSUME TypeOK, NEW f \in Nat
  PROVE  State(f) \in StateType
BY DEF TypeOK, State, StateType

LEMMA BecomesTypes ==
  ASSUME NEW s \in StateType, Becomes(s)
  PROVE  /\ pointer' \in [Pointers -> Nat] /\ setlist' \in Seq(SavedType) /\ checking_now' \in BOOLEAN
         /\ blocks' \in SUBSET BlockType /\ IsFiniteSet(blocks')
         /\ leak' \in [LeakWarning -> MemType] /\ adapters' \in Seq(Nat)
BY DEF Becomes, StateType

(* A test of the program, or one of the inner registry inside it.          *)
MayEnter(r) == (Idle /\ r = Default) \/ (Depth = 1 /\ r = Inner)

Around(f, r) ==
  [f EXCEPT !.disturbed = @ \/ Uses(r, LeakWarning), !.lent = @ /\ ~Uses(r, MockSupport)]

Told == leak[FirstLeakWarning].ignore \/ leak[FirstLeakWarning].expected # 0

EnteredFrame(r) == [NewFrame(r) EXCEPT !.disturbed = ~Idle \/ Told, !.lent = Idle]

LEMMA FramesEntered ==
  ASSUME TypeInv, NEW r \in Registries, Enters(r)
  PROVE  /\ Depth \in Nat /\ frames' \in Seq(FrameType) /\ Depth' = Depth + 1
         /\ \A i \in 1 .. Depth : frames'[i] = Around(frames[i], r)
         /\ frames'[Depth + 1] = EnteredFrame(r)
<1> DEFINE around == [i \in DOMAIN frames |-> Around(frames[i], r)]
           mine == EnteredFrame(r)
<1>1. frames \in Seq(FrameType) /\ tests \in Nat /\ leak[FirstLeakWarning] \in MemType
  BY PluginsAssumption DEF TypeInv, TypeOK
<1>2. frames' = Append(around, mine)
  BY DEF Enters, Around, EnteredFrame, Told
<1>3. ASSUME NEW i \in DOMAIN frames PROVE Around(frames[i], r) \in FrameType
  <2> DEFINE d == frames[i].disturbed \/ Uses(r, LeakWarning)
             l == frames[i].lent /\ ~Uses(r, MockSupport)
  <2>1. frames[i] \in FrameType
    BY <1>1
  <2>2. d \in BOOLEAN /\ l \in BOOLEAN
    BY <2>1 DEF FrameType, Uses
  <2> HIDE DEF d, l
  <2>3. [frames[i] EXCEPT !.disturbed = d, !.lent = l] \in FrameType
    BY <2>1, <2>2 DEF FrameType
  <2> QED
    BY <2>3 DEF Around, d, l
<1>4. mine \in FrameType
  <2> DEFINE d == ~Idle \/ Told
             l == Idle
             f == NewFrame(r)
  <2>1. f \in FrameType
    BY <1>1 DEF NewFrame, FrameType
  <2>2. d \in BOOLEAN /\ l \in BOOLEAN
    BY <1>1 DEF Idle, Told, MemType
  <2> HIDE DEF d, l, f
  <2>3. [f EXCEPT !.disturbed = d, !.lent = l] \in FrameType
    BY <2>1, <2>2 DEF FrameType
  <2> QED
    BY <2>3 DEF EnteredFrame, d, l, f
<1>5. around \in Seq(FrameType) /\ Len(around) = Len(frames) /\ Len(frames) \in Nat
  <2>1. DOMAIN frames = 1 .. Len(frames) /\ Len(frames) \in Nat
    BY <1>1
  <2>2. around \in [1 .. Len(frames) -> FrameType]
    BY <1>3, <2>1
  <2> HIDE DEF around
  <2> QED
    BY <2>1, <2>2
<1>6. \A i \in 1 .. Len(frames) : around[i] = Around(frames[i], r)
  BY <1>1
<1> HIDE DEF around, mine
<1>7. /\ frames' \in Seq(FrameType) /\ Len(frames') = Len(frames) + 1
      /\ \A i \in 1 .. Len(frames) : frames'[i] = around[i]
      /\ frames'[Len(frames) + 1] = mine
  BY <1>2, <1>4, <1>5
<1> QED
  BY <1>5, <1>6, <1>7 DEF Depth, mine

LEMMA FramesType ==
  ASSUME TypeInv
  PROVE  \A i \in 1 .. Depth : frames[i] \in FrameType
BY DEF TypeInv, TypeOK, Depth

(* What a test is, of which its steps change nothing.                      *)
SameKind(f, g) ==
  g.registry = f.registry /\ g.test = f.test /\ g.disturbed = f.disturbed /\ g.lent = f.lent

LEMMA AroundKind ==
  ASSUME NEW f \in FrameType, NEW r \in Registries
  PROVE  LET g == Around(f, r)
         IN  /\ g.registry = f.registry /\ g.test = f.test /\ g.failures = f.failures
             /\ g.expected = f.expected /\ g.ignore = f.ignore
             /\ g.disturbed = (f.disturbed \/ Uses(r, LeakWarning))
             /\ g.lent = (f.lent /\ ~Uses(r, MockSupport))
BY DEF Around, FrameType

LEMMA EntersStep ==
  ASSUME TypeInv, NEW r \in Registries, MayEnter(r), Enters(r)
  PROVE  TypeInv'
<1>1. PICK s \in StateType : s = AllPreActions(r, State(0))
  <2> DEFINE I == [k \in 0 .. N |-> StateType]
  <2>1. State(0) \in StateType
    BY StateTypes DEF TypeInv
  <2>2. N \in Nat
    BY ChainType DEF TypeInv
  <2>3. \A k \in 0 .. N : I[k] = StateType
    OBVIOUS
  <2> HIDE DEF I
  <2>4. PreKeeps(ChainOf(r), State(0), I)
    BY <2>1, <2>2, <2>3 DEF PreKeeps
  <2> QED
    BY <2>1, <2>4, PreActions
<1>2. Becomes(s) /\ current' = r /\ tests' = tests + 1 /\ UNCHANGED <<chain, entries, offers, forgotten>>
  BY <1>1 DEF Enters
<1>3. frames' \in Seq(FrameType) /\ Depth' = Depth + 1 /\ Depth \in Nat
  BY FramesEntered
<1>4. TypeOK'
  BY <1>2, <1>3, BecomesTypes DEF TypeInv, TypeOK, chain
<1>5. ChainsOK'
  BY <1>2 DEF TypeInv, ChainsOK, chain
<1>6. NestingOK'
  <2>1. CASE Idle /\ r = Default
    <3>1. Depth = 0
      BY <2>1 DEF Idle, Depth
    <3>2. Depth' = 1 /\ frames'[1] = EnteredFrame(r)
      BY <3>1, FramesEntered
    <3>3. frames'[1].registry = r
      BY <3>2 DEF EnteredFrame, NewFrame
    <3> QED
      BY <1>2, <2>1, <3>2, <3>3 DEF NestingOK
  <2>2. CASE Depth = 1 /\ r = Inner
    <3>1. Depth' = 2 /\ frames'[1] = Around(frames[1], r) /\ frames'[2] = EnteredFrame(r)
      BY <2>2, FramesEntered
    <3>2. frames'[2].registry = r
      BY <3>1 DEF EnteredFrame, NewFrame
    <3>3. frames[1] \in FrameType
      <4>1. \A i \in 1 .. Depth : frames[i] \in FrameType
        BY FramesType
      <4> QED
        BY <2>2, <4>1
    <3>4. frames'[1].registry = frames[1].registry
      BY <3>1, <3>3, AroundKind
    <3> QED
      BY <1>2, <2>2, <3>1, <3>2, <3>4 DEF NestingOK, TypeInv
  <2> QED
    BY <2>1, <2>2 DEF MayEnter
<1> QED
  BY <1>4, <1>5, <1>6 DEF TypeInv

LEMMA EnterCases ==
  ASSUME TypeInv, StartTest \/ StartNested
  PROVE  \E r \in Registries : MayEnter(r) /\ Enters(r)
<1>1. CASE StartTest
  <2>1. Idle /\ Enters(current)
    BY <1>1 DEF StartTest
  <2>2. current = Default
    BY <2>1 DEF TypeInv, NestingOK, Idle, Depth
  <2> QED
    BY <2>1, <2>2 DEF MayEnter, Registries
<1>2. CASE StartNested
  BY <1>2 DEF StartNested, MayEnter, Registries
<1> QED
  BY <1>1, <1>2

Bodies ==
  \/ FailTest \/ MakeSetPointerPlugin \/ Leak
  \/ \E x \in Pointers : PtrSet(x)
  \/ \E ignore \in BOOLEAN : Announce(1, ignore)

LEMMA SteppedFrames ==
  ASSUME TypeInv, ~Idle, NEW f \in FrameType, SameKind(Top, f)
  PROVE  LET u == Stepped(f)
         IN  /\ u \in Seq(FrameType) /\ Len(u) = Depth /\ Depth \in 1 .. 2 /\ u[Depth] = f
             /\ \A i \in 1 .. Depth : SameKind(frames[i], u[i])
             /\ \A i \in 1 .. Depth : i # Depth => u[i] = frames[i]
<1>1. frames \in Seq(FrameType) /\ Depth = Len(frames) /\ Depth \in Nat
  BY DEF TypeInv, TypeOK, Depth
<1>2. Depth # 0
  BY <1>1 DEF Idle
<1>3. Depth \in 1 .. 2
  BY <1>1, <1>2 DEF TypeInv, NestingOK
<1>4. Stepped(f) = [frames EXCEPT ![Depth] = f]
  BY DEF Stepped
<1>5. /\ Stepped(f) \in Seq(FrameType) /\ Len(Stepped(f)) = Depth
      /\ \A i \in 1 .. Depth : Stepped(f)[i] = IF i = Depth THEN f ELSE frames[i]
  BY <1>1, <1>3, <1>4
<1>6. \A i \in 1 .. Depth : SameKind(frames[i], Stepped(f)[i])
  BY <1>5 DEF SameKind, Top
<1> QED
  BY <1>3, <1>5, <1>6

LEMMA TopType ==
  ASSUME TypeInv, ~Idle
  PROVE  Top \in FrameType /\ Depth \in 1 .. 2
<1>1. frames \in Seq(FrameType) /\ Depth = Len(frames) /\ Depth \in Nat
  BY DEF TypeInv, TypeOK, Depth
<1>2. Depth # 0
  BY <1>1 DEF Idle
<1>3. Depth \in 1 .. 2
  BY <1>1, <1>2 DEF TypeInv, NestingOK
<1> QED
  BY <1>1, <1>3 DEF Top

(* What a step of a test's body does to the frames.                        *)
LEMMA BodyFrames ==
  ASSUME TypeInv, Bodies
  PROVE  /\ frames' \in Seq(FrameType) /\ Depth' = Depth /\ Depth \in 1 .. 2
         /\ \A i \in 1 .. Depth : SameKind(frames[i], frames'[i])
         /\ ~(\E ignore \in BOOLEAN : Announce(1, ignore)) =>
              \A i \in 1 .. Depth : /\ frames'[i].expected = frames[i].expected
                                    /\ frames'[i].ignore = frames[i].ignore
<1>1. ~Idle
  BY DEF Bodies, FailTest, MakeSetPointerPlugin, Leak, PtrSet, Announce, InBody
<1>2. Top \in FrameType /\ Depth \in 1 .. 2 /\ frames \in Seq(FrameType)
  BY <1>1, TopType DEF TypeInv, TypeOK
<1> DEFINE fallen == [Top EXCEPT !.failures = @ + 1, !.left = TRUE]
<1>3. /\ fallen \in FrameType /\ SameKind(Top, fallen)
      /\ fallen.expected = Top.expected /\ fallen.ignore = Top.ignore
  <2> DEFINE n == Top.failures + 1
             f == Top
  <2>1. n \in Nat /\ f \in FrameType
    BY <1>2 DEF FrameType
  <2>2. fallen = [f EXCEPT !.failures = n, !.left = TRUE]
    OBVIOUS
  <2> HIDE DEF n, f, fallen
  <2>3. fallen \in FrameType /\ SameKind(f, fallen) /\ fallen.expected = f.expected /\ fallen.ignore = f.ignore
    BY <2>1, <2>2 DEF FrameType, SameKind
  <2> QED
    BY <2>3 DEF f
<1>4. SameKind(Top, Top)
  BY DEF SameKind
<1> HIDE DEF fallen
<1>5. ASSUME NEW f \in {Top, fallen}, frames' = Stepped(f)
      PROVE  /\ frames' \in Seq(FrameType) /\ Depth' = Depth
             /\ \A i \in 1 .. Depth : SameKind(frames[i], frames'[i])
             /\ \A i \in 1 .. Depth : /\ frames'[i].expected = frames[i].expected
                                      /\ frames'[i].ignore = frames[i].ignore
  <2>1. f \in FrameType /\ SameKind(Top, f) /\ f.expected = Top.expected /\ f.ignore = Top.ignore
    BY <1>2, <1>3, <1>4
  <2>2. /\ frames' \in Seq(FrameType) /\ Len(frames') = Depth /\ frames'[Depth] = f
        /\ \A i \in 1 .. Depth : SameKind(frames[i], frames'[i])
        /\ \A i \in 1 .. Depth : i # Depth => frames'[i] = frames[i]
    BY <1>1, <1>5, <2>1, SteppedFrames
  <2> QED
    BY <2>1, <2>2 DEF Depth, Top
<1>6. CASE FailTest \/ MakeSetPointerPlugin \/ Leak \/ \E x \in Pointers : PtrSet(x)
  <2>1. frames' = Stepped(Top) \/ frames' = Stepped(fallen)
    BY <1>6 DEF FailTest, MakeSetPointerPlugin, Leak, PtrSet, fallen
  <2> QED
    BY <1>2, <1>5, <2>1
<1>7. CASE \E ignore \in BOOLEAN : Announce(1, ignore)
  <2>1. PICK ignore \in BOOLEAN :
          frames' = [Stepped(Top) EXCEPT ![1].expected = IF ignore THEN @ ELSE 1, ![1].ignore = @ \/ ignore]
    BY <1>7 DEF Announce
  <2> DEFINE u == Stepped(Top)
             e == IF ignore THEN u[1].expected ELSE 1
             g == u[1].ignore \/ ignore
             f == [u[1] EXCEPT !.expected = e, !.ignore = g]
  <2>2. /\ u \in Seq(FrameType) /\ Len(u) = Depth
        /\ \A i \in 1 .. Depth : SameKind(frames[i], u[i])
    BY <1>1, <1>2, <1>4, SteppedFrames
  <2>3. frames' = [u EXCEPT ![1] = f]
    BY <2>1
  <2> HIDE DEF u
  <2>4. 1 \in 1 .. Depth /\ u[1] \in FrameType
    BY <1>2, <2>2
  <2>5. e \in Nat /\ g \in BOOLEAN
    BY <2>4 DEF FrameType
  <2> HIDE DEF e, g
  <2>6. f \in FrameType /\ SameKind(u[1], f)
    BY <2>4, <2>5 DEF FrameType, SameKind
  <2> HIDE DEF f
  <2>7. /\ frames' \in Seq(FrameType) /\ Len(frames') = Depth
        /\ \A i \in 1 .. Depth : frames'[i] = IF i = 1 THEN f ELSE u[i]
    BY <1>2, <2>2, <2>3, <2>6
  <2>8. \A i \in 1 .. Depth : SameKind(frames[i], frames'[i])
    BY <2>2, <2>4, <2>6, <2>7 DEF SameKind
  <2>9. Depth' = Depth
    BY <2>7 DEF Depth
  <2> QED
    BY <1>2, <1>7, <2>7, <2>8, <2>9
<1> QED
  BY <1>2, <1>6, <1>7 DEF Bodies

LEMMA BodyTypes ==
  ASSUME TypeInv, Bodies
  PROVE  TypeInv'
<1>1. TypeOK /\ ChainsOK /\ NestingOK
  BY DEF TypeInv
<1>2. UNCHANGED <<chain, current, entries, tests, offers>>
  BY DEF Bodies, FailTest, MakeSetPointerPlugin, Leak, PtrSet, Announce, Step
<1>3. /\ frames' \in Seq(FrameType) /\ Depth' = Depth /\ Depth \in 1 .. 2
      /\ \A i \in 1 .. Depth : SameKind(frames[i], frames'[i])
  BY BodyFrames
<1>4. NestingOK'
  BY <1>1, <1>2, <1>3 DEF NestingOK, SameKind
<1>5. ChainsOK'
  BY <1>1, <1>2 DEF ChainsOK, chain
<1>6. /\ pointer' \in [Pointers -> Nat] /\ setlist' \in Seq(SavedType)
      /\ checking_now' \in BOOLEAN /\ adapters' \in Seq(Nat) /\ forgotten' \in BOOLEAN
      /\ blocks' \in SUBSET BlockType /\ IsFiniteSet(blocks')
      /\ leak' \in [LeakWarning -> MemType]
  <2>1. CASE FailTest
    BY <1>1, <2>1 DEF FailTest, TypeOK, shared
  <2>2. CASE MakeSetPointerPlugin
    BY <1>1, <2>2 DEF MakeSetPointerPlugin, TypeOK
  <2>3. CASE Leak
    <3> DEFINE b == [number |-> Cardinality(blocks), by |-> {frames[i].test : i \in DOMAIN frames},
                     checking |-> checking_now, charges |-> 0]
    <3>1. blocks' = blocks \cup {b} /\ UNCHANGED <<pointer, setlist, checking_now, leak, adapters, forgotten>>
      BY <2>3 DEF Leak
    <3>2. Cardinality(blocks) \in Nat
      BY <1>1, FS_CardinalityType DEF TypeOK
    <3>3. {frames[i].test : i \in DOMAIN frames} \in SUBSET Nat
      <4>1. \A i \in DOMAIN frames : frames[i] \in FrameType
        BY <1>1 DEF TypeOK
      <4> QED
        BY <4>1 DEF FrameType
    <3>4. b \in BlockType
      BY <1>1, <3>2, <3>3 DEF BlockType, TypeOK
    <3> HIDE DEF b
    <3>5. IsFiniteSet(blocks \cup {b})
      BY <1>1, FS_AddElement DEF TypeOK
    <3> QED
      BY <1>1, <3>1, <3>4, <3>5 DEF TypeOK
  <2>4. ASSUME NEW x \in Pointers, PtrSet(x)
        PROVE  /\ pointer' \in [Pointers -> Nat] /\ setlist' \in Seq(SavedType)
               /\ UNCHANGED <<checking_now, blocks, leak, adapters, forgotten>>
    <3>1. pointer \in [Pointers -> Nat] /\ setlist \in Seq(SavedType) /\ Len(setlist) \in Nat
      BY <1>1 DEF TypeOK
    <3>2. [orig |-> x, value |-> pointer[x]] \in SavedType
      BY <3>1 DEF SavedType
    <3>3. Append(setlist, [orig |-> x, value |-> pointer[x]]) \in Seq(SavedType)
      BY <3>1, <3>2
    <3>4. [pointer EXCEPT ![x] = Len(setlist) + 1] \in [Pointers -> Nat]
      BY <3>1
    <3> QED
      BY <2>4, <3>1, <3>3, <3>4 DEF PtrSet
  <2>5. ASSUME NEW ignore \in BOOLEAN, Announce(1, ignore)
        PROVE  /\ leak' \in [LeakWarning -> MemType]
               /\ UNCHANGED <<pointer, setlist, checking_now, blocks, adapters, forgotten>>
    <3>1. leak \in [LeakWarning -> MemType]
      BY <1>1 DEF TypeOK
    <3> QED
      BY <2>5, <3>1 DEF Announce, MemType
  <2> QED
    BY <1>1, <2>1, <2>2, <2>3, <2>4, <2>5 DEF Bodies, TypeOK
<1> QED
  BY <1>1, <1>2, <1>3, <1>4, <1>5, <1>6 DEF TypeInv, TypeOK, chain

LEMMA FramesLeft ==
  ASSUME TypeInv, EndTest
  PROVE  /\ ~Idle /\ Depth \in 1 .. 2 /\ frames' \in Seq(FrameType) /\ Depth' = Depth - 1
         /\ \A i \in 1 .. Depth - 1 : frames'[i] = frames[i]
         /\ Top \in FrameType /\ current \in Registries /\ Top.registry = current
<1>1. ~Idle /\ frames' = Front(frames)
  BY DEF EndTest
<1>2. Top \in FrameType /\ Depth \in 1 .. 2 /\ frames \in Seq(FrameType) /\ Depth = Len(frames)
  BY <1>1, TopType DEF TypeInv, TypeOK, Depth
<1>3. frames' = SubSeq(frames, 1, Len(frames) - 1)
  BY <1>1 DEF Front
<1>4. Len(frames) \in 1 .. 2
  BY <1>2
<1>5. /\ frames' \in Seq(FrameType) /\ Len(frames') = Len(frames) - 1
      /\ \A i \in 1 .. Len(frames) - 1 : frames'[i] = frames[i]
  BY <1>2, <1>3, <1>4
<1>6. current \in Registries /\ Top.registry = current
  <2>1. CASE Depth = 1
    BY <2>1 DEF TypeInv, NestingOK, TypeOK, Top
  <2>2. CASE Depth = 2
    BY <2>2 DEF TypeInv, NestingOK, TypeOK, Top
  <2> QED
    BY <1>2, <2>1, <2>2
<1> QED
  BY <1>1, <1>2, <1>5, <1>6 DEF Depth

(* All the actions after a test, for any set of states that each keeps.    *)
LEMMA Ends ==
  ASSUME TypeInv, EndTest, NEW I, PostKeeps(ChainOf(current), State(Top.failures), I)
  PROVE  \E s \in StateType : s \in I[N] /\ s = AllPostActions(current, State(Top.failures)) /\ Becomes(s)
<1>1. Top \in FrameType /\ current \in Registries
  BY FramesLeft
<1>2. State(Top.failures) \in StateType
  <2>1. Top.failures \in Nat
    BY <1>1 DEF FrameType
  <2> QED
    BY <2>1, StateTypes DEF TypeInv
<1>3. /\ AllPostActions(current, State(Top.failures)) \in StateType
      /\ AllPostActions(current, State(Top.failures)) \in I[N]
  BY <1>1, <1>2, PostActions
<1>4. Becomes(AllPostActions(current, State(Top.failures)))
  BY DEF EndTest
<1> QED
  BY <1>3, <1>4

LEMMA EndTypes ==
  ASSUME TypeInv, EndTest
  PROVE  TypeInv'
<1> DEFINE I == [k \in 0 .. N |-> StateType]
<1>1. \E s \in StateType : Becomes(s)
  <2>1. State(Top.failures) \in StateType
    <3>1. Top.failures \in Nat
      BY FramesLeft DEF FrameType
    <3> QED
      BY <3>1, StateTypes DEF TypeInv
  <2>2. N \in Nat
    BY ChainType DEF TypeInv, TypeOK
  <2>3. \A k \in 0 .. N : I[k] = StateType
    OBVIOUS
  <2> HIDE DEF I
  <2>4. PostKeeps(ChainOf(current), State(Top.failures), I)
    BY <2>1, <2>2, <2>3 DEF PostKeeps
  <2> QED
    BY <2>4, Ends
<1>2. PICK s \in StateType : Becomes(s)
  BY <1>1
<1>3. current' = Default /\ UNCHANGED <<chain, entries, tests, offers, forgotten>>
  BY DEF EndTest
<1>4. /\ Depth \in 1 .. 2 /\ frames' \in Seq(FrameType) /\ Depth' = Depth - 1
      /\ \A i \in 1 .. Depth - 1 : frames'[i] = frames[i]
  BY FramesLeft
<1>5. TypeOK'
  BY <1>2, <1>3, <1>4, BecomesTypes DEF TypeInv, TypeOK, chain, Registries
<1>6. ChainsOK'
  BY <1>3 DEF TypeInv, ChainsOK, chain
<1>7. NestingOK'
  <2>1. Depth' \in {0, 1} /\ (Depth' = 1 => frames'[1] = frames[1] /\ Depth > 0)
    BY <1>4
  <2> QED
    BY <1>3, <2>1 DEF TypeInv, NestingOK
<1> QED
  BY <1>5, <1>6, <1>7 DEF TypeInv

LEMMA SameTypes ==
  ASSUME TypeInv, UNCHANGED vars
  PROVE  TypeInv'
BY DEF TypeInv, TypeOK, ChainsOK, NestingOK, Depth, vars, chain, shared, history

Chains == \E p \in Plugins : InstallPlugin(p) \/ RemovePlugin(p) \/ \E how \in BOOLEAN : Enable(p, how)
Offers == \E p \in MockSupport : OfferComparator(p)

LEMMA Actions ==
  [Next]_vars => Chains \/ Offers \/ StartTest \/ StartNested \/ Bodies \/ EndTest \/ UNCHANGED vars
BY DEF Next, Chains, Offers, Bodies, Finished

LEMMA TypeNext ==
  ASSUME TypeInv, [Next]_vars
  PROVE  TypeInv'
<1>1. CASE Chains
  BY <1>1, ChainSteps DEF Chains
<1>2. CASE Offers
  BY <1>2, OfferStep DEF Offers
<1>3. CASE StartTest \/ StartNested
  BY <1>3, EnterCases, EntersStep
<1>4. CASE Bodies
  BY <1>4, BodyTypes
<1>5. CASE EndTest
  BY <1>5, EndTypes
<1>6. CASE UNCHANGED vars
  BY <1>6, SameTypes
<1> QED
  BY <1>1, <1>2, <1>3, <1>4, <1>5, <1>6, Actions

(* Every variable keeps its type, chains lead only to plugins of their     *)
(* registry (TestPlugin.h, TestRegistry.h) and one test at most runs       *)
(* inside another, under the Inner registry.                               *)
THEOREM TypesHold == Spec => []TypeInv
<1>1. Init => TypeInv
  BY TypeInit
<1>2. TypeInv /\ [Next]_vars => TypeInv'
  BY TypeNext
<1> QED
  BY <1>1, <1>2, PTL DEF Spec

-------------------------------------------------------------------------------
(* Function pointers *)

PointersInv ==
  /\ ~forgotten => Restorable(pointer, setlist)
  /\ PointersRestored

LEMMA NothingSaved ==
  ASSUME NEW values, Restorable(values, <<>>)
  PROVE  AsAtFirst(values)
BY DEF Restorable, AsAtFirst

LEMMA RestorableAppend ==
  ASSUME Restorable(pointer, setlist), pointer \in [Pointers -> Nat], setlist \in Seq(SavedType),
         NEW x \in Pointers
  PROVE  Restorable([pointer EXCEPT ![x] = Len(setlist) + 1],
                    Append(setlist, [orig |-> x, value |-> pointer[x]]))
<1> DEFINE n == Len(setlist)
           e == [orig |-> x, value |-> pointer[x]]
           l == Append(setlist, e)
           v == [pointer EXCEPT ![x] = n + 1]
<1>1. n \in Nat /\ e \in SavedType /\ e.orig = x /\ e.value = pointer[x]
  BY DEF SavedType
<1> HIDE DEF e
<1>2. Len(l) = n + 1 /\ l[n + 1] = e /\ \A i \in 1 .. n : l[i] = setlist[i]
  BY <1>1
<1>3. /\ \A y \in Pointers : pointer[y] = 0 \/ \E i \in 1 .. n : setlist[i].orig = y
      /\ \A i \in 1 .. n : setlist[i].value = 0 \/ \E j \in 1 .. n : j < i /\ setlist[j].orig = setlist[i].orig
  BY DEF Restorable
<1>4. v[x] = n + 1 /\ \A y \in Pointers : y # x => v[y] = pointer[y]
  OBVIOUS
<1> HIDE DEF n, l, v
<1>5. /\ n + 1 \in 1 .. n + 1 /\ \A i \in 1 .. n : i \in 1 .. n + 1 /\ i < n + 1
      /\ \A i \in 1 .. n + 1 : i \in 1 .. n \/ i = n + 1
  BY <1>1
<1>6. ASSUME NEW y \in Pointers PROVE v[y] = 0 \/ \E i \in 1 .. n + 1 : l[i].orig = y
  <2>1. CASE y = x
    BY <1>1, <1>2, <1>5, <2>1
  <2>2. CASE y # x
    BY <1>2, <1>3, <1>4, <1>5, <2>2
  <2> QED
    BY <2>1, <2>2
<1>7. ASSUME NEW i \in 1 .. n + 1
      PROVE  l[i].value = 0 \/ \E j \in 1 .. n + 1 : j < i /\ l[j].orig = l[i].orig
  <2>1. CASE i \in 1 .. n
    BY <1>2, <1>3, <1>5, <2>1
  <2>2. CASE i = n + 1
    BY <1>1, <1>2, <1>3, <1>5, <2>2
  <2> QED
    BY <1>5, <2>1, <2>2
<1>8. Restorable(v, l)
  BY <1>2, <1>6, <1>7 DEF Restorable
<1> QED
  BY <1>8 DEF v, l, n, e

LEMMA UsesIs ==
  ASSUME TypeInv, NEW r \in Registries, NEW kind
  PROVE  Uses(r, kind) <=> \E i \in 1 .. N : TakesPart(ChainOf(r)[i]) /\ ChainOf(r)[i] \in kind
<1>1. DOMAIN ChainOf(r) = 1 .. N
  BY ChainType DEF TypeInv
<1>2. ToSet(ChainOf(r)) = {ChainOf(r)[i] : i \in 1 .. N}
  BY <1>1 DEF ToSet
<1>3. Active(r) = {p \in {ChainOf(r)[i] : i \in 1 .. N} : TakesPart(p)}
  BY <1>2 DEF Active
<1> QED
  BY <1>3 DEF Uses

(* Counted from the end, the chain is the same chain.                      *)
LEMMA Backwards ==
  ASSUME TypeInv
  PROVE  /\ N \in Nat
         /\ \A i \in 1 .. N : N + 1 - i \in 1 .. N /\ N + 1 - (N + 1 - i) = i
         /\ 0 \in 0 .. N /\ N \in 0 .. N
         /\ \A k \in 1 .. N : k \in 0 .. N /\ k - 1 \in 0 .. N /\ \A j \in 1 .. k : j \in 1 .. k - 1 \/ j = k
<1>1. N \in Nat
  BY FS_CardinalityType, PluginsAssumption DEF N
<1> HIDE DEF N
<1> QED
  BY <1>1

(* While the actions after a test go on, what is saved stays enough, and   *)
(* nothing is saved any more once a SetPointerPlugin has acted.            *)
SavedWhile(k) ==
  {u \in StateType :
     /\ ~forgotten => Restorable(u.pointer, u.setlist)
     /\ (\E j \in 1 .. k : Restores(ChainOf(current)[N + 1 - j])) => u.setlist = <<>>}

LEMMA SavedKeeps ==
  ASSUME TypeInv, ~forgotten => Restorable(pointer, setlist), EndTest
  PROVE  PostKeeps(ChainOf(current), State(Top.failures), [k \in 0 .. N |-> SavedWhile(k)])
<1> DEFINE I == [k \in 0 .. N |-> SavedWhile(k)]
           c == ChainOf(current)
<1>1. State(Top.failures) \in StateType
  <2>1. Top.failures \in Nat
    BY FramesLeft DEF FrameType
  <2> QED
    BY <2>1, StateTypes DEF TypeInv
<1>2. State(Top.failures).pointer = pointer /\ State(Top.failures).setlist = setlist
  BY DEF State
<1>3. State(Top.failures) \in SavedWhile(0)
  BY <1>1, <1>2 DEF SavedWhile
<1>4. ASSUME NEW k \in 1 .. N, NEW u \in SavedWhile(k - 1), NEW v \in StateType, PostEffect(u, v, c[N + 1 - k])
      PROVE  v \in SavedWhile(k)
  <2> DEFINE p == c[N + 1 - k]
  <2>1. /\ u \in StateType
        /\ ~forgotten => Restorable(u.pointer, u.setlist)
        /\ (\E j \in 1 .. k - 1 : Restores(c[N + 1 - j])) => u.setlist = <<>>
    BY <1>4 DEF SavedWhile
  <2>2. IF Restores(p)
        THEN v.setlist = <<>> /\ (Restorable(u.pointer, u.setlist) => AsAtFirst(v.pointer))
        ELSE v.pointer = u.pointer /\ v.setlist = u.setlist
    BY <1>4 DEF PostEffect
  <2>3. CASE Restores(p)
    <3>1. ~forgotten => Restorable(v.pointer, v.setlist)
      BY <2>1, <2>2, <2>3 DEF Restorable, AsAtFirst
    <3> QED
      BY <1>4, <2>2, <2>3, <3>1 DEF SavedWhile
  <2>4. CASE ~Restores(p)
    <3>1. (\E j \in 1 .. k : Restores(c[N + 1 - j])) => \E j \in 1 .. k - 1 : Restores(c[N + 1 - j])
      BY <2>4, Backwards
    <3> QED
      BY <1>4, <2>1, <2>2, <2>4, <3>1 DEF SavedWhile
  <2> QED
    BY <2>3, <2>4
<1>5. \A k \in 0 .. N : I[k] = SavedWhile(k)
  OBVIOUS
<1> HIDE DEF I, c
<1>6. PostKeeps(c, State(Top.failures), I)
  BY <1>3, <1>4, <1>5, Backwards DEF PostKeeps
<1> QED
  BY <1>6 DEF I, c

LEMMA PointersEnd ==
  ASSUME TypeInv, PointersInv, EndTest
  PROVE  PointersInv'
<1>1. ~forgotten => Restorable(pointer, setlist)
  BY DEF PointersInv
<1> DEFINE I == [k \in 0 .. N |-> SavedWhile(k)]
<1>2. PostKeeps(ChainOf(current), State(Top.failures), I)
  BY <1>1, SavedKeeps
<1>3. I[N] = SavedWhile(N)
  BY Backwards
<1> HIDE DEF I
<1>4. PICK s \in StateType : s \in SavedWhile(N) /\ Becomes(s)
  BY <1>2, <1>3, Ends
<1>5. current \in Registries /\ ended'.restored = Uses(current, SetPointer) /\ forgotten' = forgotten
  <2>1. current \in Registries
    BY FramesLeft
  <2> QED
    BY <2>1 DEF EndTest
<1>6. /\ ~forgotten => Restorable(s.pointer, s.setlist)
      /\ (\E j \in 1 .. N : Restores(ChainOf(current)[N + 1 - j])) => s.setlist = <<>>
  BY <1>4 DEF SavedWhile
<1>7. pointer' = s.pointer /\ setlist' = s.setlist
  BY <1>4 DEF Becomes
<1>8. Uses(current, SetPointer) => s.setlist = <<>>
  <2> SUFFICES ASSUME Uses(current, SetPointer) PROVE \E j \in 1 .. N : Restores(ChainOf(current)[N + 1 - j])
    BY <1>6
  <2>1. PICK i \in 1 .. N : TakesPart(ChainOf(current)[i]) /\ ChainOf(current)[i] \in SetPointer
    BY <1>5, UsesIs
  <2>2. Restores(ChainOf(current)[i])
    BY <2>1 DEF Restores
  <2>3. N + 1 - i \in 1 .. N /\ N + 1 - (N + 1 - i) = i
    BY <2>1, Backwards
  <2> QED
    BY <2>2, <2>3
<1>9. PointersRestored'
  <2> SUFFICES ASSUME ended'.restored, ~forgotten' PROVE setlist' = <<>> /\ AsAtFirst(pointer')
    BY DEF PointersRestored, AsAtFirst
  <2>1. s.setlist = <<>> /\ Restorable(s.pointer, s.setlist)
    BY <1>5, <1>6, <1>8
  <2> QED
    BY <1>7, <2>1, NothingSaved
<1> QED
  BY <1>5, <1>6, <1>7, <1>9 DEF PointersInv

LEMMA PointersBody ==
  ASSUME TypeInv, PointersInv, Bodies
  PROVE  PointersInv'
<1>1. ~Idle'
  <2>1. Depth' \in 1 .. 2
    BY BodyFrames
  <2> QED
    BY <2>1 DEF Idle, Depth
<1>2. ~forgotten => Restorable(pointer, setlist)
  BY DEF PointersInv
<1>3. ~forgotten' => Restorable(pointer', setlist')
  <2>1. CASE FailTest \/ Leak \/ \E ignore \in BOOLEAN : Announce(1, ignore)
    BY <1>2, <2>1 DEF FailTest, Leak, Announce, shared
  <2>2. CASE MakeSetPointerPlugin
    BY <1>2, <2>2 DEF MakeSetPointerPlugin
  <2>3. ASSUME NEW x \in Pointers, PtrSet(x) PROVE ~forgotten' => Restorable(pointer', setlist')
    <3>1. pointer \in [Pointers -> Nat] /\ setlist \in Seq(SavedType) /\ forgotten' = forgotten
      BY <2>3 DEF TypeInv, TypeOK, PtrSet
    <3>2. CASE Len(setlist) >= MAX_SET
      BY <1>2, <2>3, <3>1, <3>2 DEF PtrSet
    <3>3. CASE ~(Len(setlist) >= MAX_SET)
      <4>1. /\ setlist' = Append(setlist, [orig |-> x, value |-> pointer[x]])
            /\ pointer' = [pointer EXCEPT ![x] = Len(setlist) + 1]
        BY <2>3, <3>3 DEF PtrSet
      <4> QED
        BY <1>2, <3>1, <4>1, RestorableAppend
    <3> QED
      BY <3>2, <3>3
  <2> QED
    BY <2>1, <2>2, <2>3 DEF Bodies
<1> QED
  BY <1>1, <1>3 DEF PointersInv, PointersRestored

LEMMA PointersStart ==
  ASSUME TypeInv, PointersInv, NEW r \in Registries, MayEnter(r), Enters(r)
  PROVE  PointersInv'
<1> DEFINE I == [k \in 0 .. N |-> {u \in StateType : u.pointer = pointer /\ u.setlist = setlist}]
<1>1. State(0) \in StateType /\ State(0).pointer = pointer /\ State(0).setlist = setlist
  <2>1. State(0) \in StateType
    BY StateTypes DEF TypeInv
  <2> QED
    BY <2>1 DEF State
<1>2. \A k \in 0 .. N : I[k] = {u \in StateType : u.pointer = pointer /\ u.setlist = setlist}
  OBVIOUS
<1> HIDE DEF I
<1>3. PreKeeps(ChainOf(r), State(0), I)
  <2>1. State(0) \in I[0]
    BY <1>1, <1>2, Backwards
  <2>2. ASSUME NEW k \in 1 .. N, NEW u \in I[k - 1], NEW v \in StateType, PreEffect(u, v, ChainOf(r)[k])
        PROVE  v \in I[k]
    <3>1. u.pointer = pointer /\ u.setlist = setlist
      BY <1>2, <2>2, Backwards
    <3>2. v.pointer = pointer /\ v.setlist = setlist
      BY <2>2, <3>1 DEF PreEffect
    <3> QED
      BY <1>2, <3>2, Backwards
  <2> QED
    BY <2>1, <2>2 DEF PreKeeps
<1>4. PICK s \in StateType : s \in I[N] /\ s = AllPreActions(r, State(0))
  BY <1>1, <1>3, PreActions
<1>5. s.pointer = pointer /\ s.setlist = setlist
  BY <1>2, <1>4, Backwards
<1>6. Becomes(s) /\ forgotten' = forgotten
  BY <1>4 DEF Enters
<1>7. UNCHANGED <<pointer, setlist, forgotten>>
  BY <1>5, <1>6 DEF Becomes
<1>8. ~Idle'
  <2>1. Depth' = Depth + 1 /\ Depth \in Nat
    BY FramesEntered
  <2> QED
    BY <2>1 DEF Idle, Depth
<1> QED
  BY <1>7, <1>8 DEF PointersInv, PointersRestored

LEMMA PointersNext ==
  ASSUME TypeInv, PointersInv, [Next]_vars
  PROVE  PointersInv'
<1>1. CASE StartTest \/ StartNested
  BY <1>1, EnterCases, PointersStart
<1>2. CASE Bodies
  BY <1>2, PointersBody
<1>3. CASE EndTest
  BY <1>3, PointersEnd
<1>4. CASE Chains \/ Offers \/ UNCHANGED vars
  <2>1. UNCHANGED <<frames, pointer, setlist, forgotten, ended>>
    BY <1>4 DEF Chains, Offers, InstallPlugin, RemovePlugin, Enable, OfferComparator,
                UnchangedByChain, shared, vars, history
  <2> QED
    BY <2>1 DEF PointersInv, PointersRestored, Idle
<1> QED
  BY <1>1, <1>2, <1>3, <1>4, Actions

(* After a test around which a SetPointerPlugin stood (TestPlugin.h), the  *)
(* table is empty and every pointer is what it was at first, whatever was  *)
(* set how often, by the test and by tests inside it, also when the table  *)
(* was full; unless a test made such a plugin while pointers were saved.   *)
THEOREM PointersComeBackAlways == Spec => []PointersRestored
<1>1. Init => PointersInv
  <2> SUFFICES ASSUME Init PROVE PointersInv
    OBVIOUS
  <2>1. pointer = [x \in Pointers |-> 0] /\ setlist = <<>> /\ ended.restored = FALSE
    BY DEF Init, NoneEnded
  <2>2. Restorable(pointer, setlist)
    BY <2>1 DEF Restorable
  <2> QED
    BY <2>1, <2>2 DEF PointersInv, PointersRestored
<1>2. TypeInv /\ PointersInv /\ [Next]_vars => PointersInv'
  BY PointersNext
<1>3. PointersInv => PointersRestored
  BY DEF PointersInv
<1> QED
  BY <1>1, <1>2, <1>3, TypesHold, PTL DEF Spec

-------------------------------------------------------------------------------
(* Comparators *)

Flattens(seqs, f) ==
  f = [i \in 1 .. Len(seqs) |-> IF i = 1 THEN seqs[i] ELSE f[i - 1] \o seqs[i]]

Concatenation(seqs, n, h) ==
  h \in [0 .. n -> Seq(Nat)] /\ h[0] = <<>> /\ \A k \in 1 .. n : h[k] = h[k - 1] \o seqs[k]

LEMMA FlattenIs ==
  ASSUME NEW n \in Nat, NEW seqs \in Seq(Seq(Nat)), Len(seqs) = n
  PROVE  \E h : Concatenation(seqs, n, h) /\ FlattenSeq(seqs) = h[n]
<1> DEFINE S == Seq(Nat)
           g == [k \in 1 .. n |-> [x \in S |-> x \o seqs[k]]]
           w == CHOOSE f : Flattens(seqs, f)
<1>1. \A k \in 1 .. n : seqs[k] \in S
  OBVIOUS
<1>2. g \in Steps(n, S) /\ <<>> \in S
  BY <1>1 DEF Steps
<1>3. PICK h : Recursion(h, n, S, <<>>, g)
  <2> DEFINE b == <<>>
  <2> HIDE DEF S, g, b
  <2>1. \E h : Recursion(h, n, S, b, g)
    BY <1>2, RecursionExists DEF b
  <2> QED
    BY <2>1 DEF b
<1>4. \A k \in 1 .. n : k \in 0 .. n /\ k - 1 \in 0 .. n /\ (k # 1 => k - 1 \in 1 .. n) /\ k # 0
  OBVIOUS
<1>5. Concatenation(seqs, n, h)
  <2>1. h \in [0 .. n -> S] /\ h[0] = <<>> /\ \A k \in 1 .. n : h[k] = g[k][h[k - 1]]
    BY <1>3 DEF Recursion
  <2>2. ASSUME NEW k \in 1 .. n PROVE h[k] = h[k - 1] \o seqs[k]
    <3>1. h[k - 1] \in S
      BY <1>4, <2>1
    <3> HIDE DEF S
    <3> QED
      BY <2>1, <3>1
  <2> QED
    BY <2>1, <2>2 DEF Concatenation
<1> DEFINE f == [i \in 1 .. n |-> h[i]]
<1>6. Flattens(seqs, f)
  <2>1. ASSUME NEW i \in 1 .. n PROVE h[i] = IF i = 1 THEN seqs[i] ELSE f[i - 1] \o seqs[i]
    <3>1. h[i] = h[i - 1] \o seqs[i] /\ h[0] = <<>>
      BY <1>5 DEF Concatenation
    <3>2. CASE i = 1
      <4>1. <<>> \o seqs[i] = seqs[i]
        BY <1>1
      <4> QED
        BY <3>1, <3>2, <4>1
    <3>3. CASE i # 1
      BY <1>4, <3>1, <3>3
    <3> QED
      BY <3>2, <3>3
  <2> QED
    BY <2>1 DEF Flattens
<1>7. Flattens(seqs, w)
  BY <1>6
<1>8. n # 0 => FlattenSeq(seqs) = w[n]
  BY DEF FlattenSeq, Flattens
<1> HIDE DEF w
<1> DEFINE v == [k \in 0 .. n |-> IF k = 0 THEN <<>> ELSE w[k]]
           I == [k \in 0 .. n |-> {h[k]}]
<1>9. Keeps(v, n, I)
  <2>1. v[0] = h[0] /\ 0 \in 0 .. n
    BY <1>5 DEF Concatenation
  <2>2. ASSUME NEW k \in 1 .. n, v[k - 1] = h[k - 1] PROVE v[k] = h[k]
    <3>1. w[k] = IF k = 1 THEN seqs[k] ELSE w[k - 1] \o seqs[k]
      BY <1>7 DEF Flattens
    <3>2. h[k] = h[k - 1] \o seqs[k] /\ h[0] = <<>>
      BY <1>5 DEF Concatenation
    <3>3. v[k] = w[k]
      BY <1>4
    <3>4. CASE k = 1
      <4>1. <<>> \o seqs[k] = seqs[k] /\ k - 1 = 0
        BY <1>1, <3>4
      <4> HIDE DEF v
      <4>2. w[k] = seqs[k]
        BY <3>1, <3>4
      <4> QED
        BY <3>2, <3>3, <4>1, <4>2
    <3>5. CASE k # 1
      <4>1. k \in 1 .. n /\ k - 1 \in 0 .. n /\ k - 1 # 0
        BY <1>4, <3>5
      <4>2. v[k - 1] = w[k - 1]
        BY <4>1
      <4> HIDE DEF v
      <4>3. w[k] = w[k - 1] \o seqs[k]
        BY <3>1, <3>5
      <4> QED
        BY <2>2, <3>2, <3>3, <4>2, <4>3
    <3> QED
      BY <3>4, <3>5
  <2>3. \A k \in 0 .. n : I[k] = {h[k]}
    OBVIOUS
  <2> HIDE DEF v, I
  <2>4. v[0] \in I[0]
    BY <2>1, <2>3
  <2>5. ASSUME NEW k \in 1 .. n, v[k - 1] \in I[k - 1] PROVE v[k] \in I[k]
    <3>1. k \in 0 .. n /\ k - 1 \in 0 .. n
      BY <1>4
    <3>2. v[k - 1] = h[k - 1]
      BY <2>3, <2>5, <3>1
    <3>3. v[k] = h[k]
      BY <2>2, <3>2
    <3> QED
      BY <2>3, <3>1, <3>3
  <2> QED
    BY <2>4, <2>5 DEF Keeps
<1>10. v[n] = h[n]
  <2>1. n \in 0 .. n /\ n \in Nat
    OBVIOUS
  <2>2. I[n] = {h[n]}
    BY <2>1
  <2> HIDE DEF v, I
  <2>3. v[n] \in I[n]
    BY <1>9, <2>1, Kept
  <2> QED
    BY <2>2, <2>3
<1>11. FlattenSeq(seqs) = h[n]
  <2>1. CASE n = 0
    <3>1. seqs = <<>> /\ FlattenSeq(seqs) = seqs
      BY <2>1 DEF FlattenSeq
    <3> QED
      BY <1>5, <2>1, <3>1 DEF Concatenation
  <2>2. CASE n # 0
    <3>1. v[n] = w[n]
      BY <2>2
    <3> QED
      BY <1>8, <1>10, <2>2, <3>1
  <2> QED
    BY <2>1, <2>2
<1> QED
  BY <1>5, <1>11

Lendings(r) == [i \in DOMAIN ChainOf(r) |->
                 LET p == ChainOf(r)[i] IN IF TakesPart(p) /\ p \in MockSupport THEN entries[p] ELSE <<>>]

(* What the plugins of a registry lend together.                           *)
LentBy(r) == FlattenSeq(Lendings(r))

LEMMA SameChain ==
  ASSUME UNCHANGED chain, NEW r \in Registries
  PROVE  /\ \A kind : Uses(r, kind)' <=> Uses(r, kind)
         /\ UNCHANGED entries => LentBy(r)' = LentBy(r)
<1>1. ChainOf(r)' = ChainOf(r) /\ enabled' = enabled
  BY DEF ChainOf, chain
<1>2. \A p : TakesPart(p)' <=> TakesPart(p)
  BY <1>1 DEF TakesPart
<1>3. Active(r)' = Active(r)
  BY <1>1, <1>2 DEF Active
<1>4. \A kind : Uses(r, kind)' <=> Uses(r, kind)
  BY <1>3 DEF Uses
<1>5. UNCHANGED entries => LentBy(r)' = LentBy(r)
  BY <1>1 DEF LentBy, Lendings, TakesPart
<1> QED
  BY <1>4, <1>5

(* Comparators are in mock() only as long as a test runs around which a    *)
(* MockSupportPlugin stands; they are those of the outer test until one    *)
(* acts inside it.                                                         *)
AdaptersInv ==
  /\ \A p \in MockSupport : Len(entries[p]) <= MaxEntries
  /\ adapters # <<>> => \E i \in 1 .. Depth : Uses(frames[i].registry, MockSupport)
  /\ (Depth \in 1 .. 2 /\ frames[1].lent) => adapters = LentBy(Default)
  /\ (Depth = 2 /\ frames[1].lent) => ~Uses(Inner, MockSupport)

LEMMA LendingsType ==
  ASSUME TypeInv, NEW r \in Registries
  PROVE  /\ Lendings(r) \in Seq(Seq(Nat)) /\ Len(Lendings(r)) = N
         /\ \A k \in 1 .. N : Lendings(r)[k] = IF Lends(ChainOf(r)[k]) THEN entries[ChainOf(r)[k]] ELSE <<>>
<1> DEFINE c == ChainOf(r)
           l == [k \in 1 .. N |-> IF Lends(c[k]) THEN entries[c[k]] ELSE <<>>]
<1>1. DOMAIN c = 1 .. N /\ N \in Nat
  BY ChainType DEF TypeInv
<1>2. Lendings(r) = l
  BY <1>1 DEF Lendings, Lends
<1>3. entries \in [MockSupport -> Seq(Nat)]
  BY DEF TypeInv, TypeOK
<1>4. \A k \in 1 .. N : l[k] \in Seq(Nat)
  BY <1>3 DEF Lends
<1> HIDE DEF N, c
<1>5. l \in [1 .. N -> Seq(Nat)]
  BY <1>4
<1>6. l \in Seq(Seq(Nat)) /\ Len(l) = N
  BY <1>1, <1>5
<1> QED
  BY <1>2, <1>6 DEF c

(* A test that starts finds what its plugins lend, if there was nothing    *)
(* before, and what was there, if none of them lends.                      *)
LEMMA PreAdapters ==
  ASSUME TypeInv, NEW r \in Registries, Enters(r)
  PROVE  /\ ~Uses(r, MockSupport) => adapters' = adapters
         /\ adapters = <<>> => adapters' = LentBy(r)
<1>1. PICK h : Concatenation(Lendings(r), N, h) /\ LentBy(r) = h[N]
  BY LendingsType, Backwards, FlattenIs DEF LentBy
<1> DEFINE Has(u, k) == /\ ~Uses(r, MockSupport) => u.adapters = adapters
                        /\ adapters = <<>> => u.adapters = h[k]
           I == [k \in 0 .. N |-> {u \in StateType : Has(u, k)}]
           c == ChainOf(r)
<1>2. \A k \in 0 .. N : I[k] = {u \in StateType : Has(u, k)}
  OBVIOUS
<1> HIDE DEF I, c
<1>3. State(0) \in StateType /\ State(0).adapters = adapters
  <2>1. State(0) \in StateType
    BY StateTypes DEF TypeInv
  <2> QED
    BY <2>1 DEF State
<1>4. State(0) \in I[0]
  BY <1>1, <1>2, <1>3, Backwards DEF Concatenation
<1>5. ASSUME NEW k \in 1 .. N, NEW u \in I[k - 1], NEW v \in StateType, PreEffect(u, v, c[k])
      PROVE  v \in I[k]
  <2> DEFINE x == IF Lends(c[k]) THEN entries[c[k]] ELSE <<>>
  <2> HIDE DEF Has
  <2>7. k \in 0 .. N /\ k - 1 \in 0 .. N
    BY Backwards
  <2>1. u \in StateType /\ Has(u, k - 1)
    BY <1>2, <2>7
  <2>2. v.adapters = u.adapters \o x
    BY <1>5 DEF PreEffect
  <2>3. h[k] = h[k - 1] \o x
    BY <1>1, LendingsType DEF Concatenation, c
  <2>4. ~Uses(r, MockSupport) => x = <<>>
    BY UsesIs DEF Lends, c
  <2>5. u.adapters \o <<>> = u.adapters
    <3>1. u.adapters \in Seq(Nat)
      BY <2>1 DEF StateType
    <3> QED
      BY <3>1
  <2> HIDE DEF x
  <2>6. Has(v, k)
    BY <2>1, <2>2, <2>3, <2>4, <2>5 DEF Has
  <2> QED
    BY <1>2, <2>6, <2>7
<1>6. PreKeeps(c, State(0), I)
  BY <1>4, <1>5 DEF PreKeeps
<1>7. AllPreActions(r, State(0)) \in StateType /\ AllPreActions(r, State(0)) \in I[N]
  BY <1>3, <1>6, PreActions DEF c
<1>8. Has(AllPreActions(r, State(0)), N)
  BY <1>2, <1>7, Backwards
<1>9. adapters' = AllPreActions(r, State(0)).adapters
  BY DEF Enters, Becomes
<1> QED
  BY <1>1, <1>8, <1>9

(* After k of the actions behind a test, one of T has acted.               *)
Acted(c, k, T) == \E j \in 1 .. k : c[N + 1 - j] \in T

LEMMA ActedStep ==
  ASSUME TypeInv, NEW c, NEW T
  PROVE  /\ ~Acted(c, 0, T)
         /\ \A k \in 1 .. N : Acted(c, k, T) <=> Acted(c, k - 1, T) \/ c[N + 1 - k] \in T
         /\ Acted(c, N, T) <=> \E i \in 1 .. N : c[i] \in T
<1>1. N \in Nat /\ \A i \in 1 .. N : N + 1 - i \in 1 .. N /\ N + 1 - (N + 1 - i) = i
  BY Backwards
<1> HIDE DEF N
<1>2. /\ 1 .. 0 = {}
      /\ \A k \in 1 .. N : k \in 1 .. k /\ \A j \in 1 .. k : j \in 1 .. k - 1 \/ j = k
      /\ \A k \in 1 .. N : \A j \in 1 .. k - 1 : j \in 1 .. k
  BY <1>1
<1>3. ~Acted(c, 0, T)
  BY <1>2 DEF Acted
<1>4. ASSUME NEW k \in 1 .. N PROVE Acted(c, k, T) <=> Acted(c, k - 1, T) \/ c[N + 1 - k] \in T
  BY <1>2 DEF Acted
<1>5. Acted(c, N, T) <=> \E i \in 1 .. N : c[i] \in T
  BY <1>1 DEF Acted
<1> QED
  BY <1>3, <1>4, <1>5

LEMMA PostAdapters ==
  ASSUME TypeInv, EndTest
  PROVE  adapters' = IF Uses(current, MockSupport) THEN <<>> ELSE adapters
<1> DEFINE c == ChainOf(current)
           Lenders == {p \in MockSupport : Lends(p)}
           Has(u, k) == u.adapters = IF Acted(c, k, Lenders) THEN <<>> ELSE adapters
           I == [k \in 0 .. N |-> {u \in StateType : Has(u, k)}]
           s == State(Top.failures)
<1>1. \A k \in 0 .. N : I[k] = {u \in StateType : Has(u, k)}
  OBVIOUS
<1> HIDE DEF I, c
<1>2. s \in StateType /\ s.adapters = adapters
  <2>1. Top.failures \in Nat
    BY FramesLeft DEF FrameType
  <2>2. s \in StateType
    BY <2>1, StateTypes DEF TypeInv
  <2> QED
    BY <2>2 DEF State
<1> HIDE DEF s
<1>3. s \in I[0]
  <2>1. ~Acted(c, 0, Lenders) /\ 0 \in 0 .. N
    BY ActedStep, Backwards
  <2> HIDE DEF Lenders
  <2> QED
    BY <1>1, <1>2, <2>1
<1>4. ASSUME NEW k \in 1 .. N, NEW u \in I[k - 1], NEW v \in StateType, PostEffect(u, v, c[N + 1 - k])
      PROVE  v \in I[k]
  <2>1. k \in 0 .. N /\ k - 1 \in 0 .. N
    BY Backwards
  <2>2. v.adapters = IF Lends(c[N + 1 - k]) THEN <<>> ELSE u.adapters
    BY <1>4 DEF PostEffect
  <2>3. Acted(c, k, Lenders) <=> Acted(c, k - 1, Lenders) \/ Lends(c[N + 1 - k])
    BY ActedStep DEF Lends
  <2> HIDE DEF Lenders
  <2>4. Has(u, k - 1)
    BY <1>1, <2>1
  <2>5. Has(v, k)
    BY <2>2, <2>3, <2>4
  <2> QED
    BY <1>1, <2>1, <2>5
<1>5. PostKeeps(c, s, I)
  BY <1>3, <1>4 DEF PostKeeps
<1>6. PICK u \in StateType : u \in I[N] /\ Becomes(u)
  BY <1>5, Ends DEF c, s
<1>7. Acted(c, N, Lenders) <=> Uses(current, MockSupport)
  <2>1. Uses(current, MockSupport) <=> \E i \in 1 .. N : Lends(c[i])
    BY FramesLeft, UsesIs DEF Lends, c
  <2> QED
    BY <2>1, ActedStep DEF Lends
<1> HIDE DEF Lenders
<1>8. Has(u, N)
  BY <1>1, <1>6, Backwards
<1> QED
  BY <1>6, <1>7, <1>8 DEF Becomes

LEMMA AdaptersStart ==
  ASSUME TypeInv, AdaptersInv, NEW r \in Registries, MayEnter(r), Enters(r)
  PROVE  AdaptersInv'
<1>1. UNCHANGED chain /\ UNCHANGED entries
  BY DEF Enters
<1>2. /\ \A q \in Registries : LentBy(q)' = LentBy(q)
      /\ \A q \in Registries : Uses(q, MockSupport)' <=> Uses(q, MockSupport)
  BY <1>1, SameChain
<1>3. /\ ~Uses(r, MockSupport) => adapters' = adapters
      /\ adapters = <<>> => adapters' = LentBy(r)
  BY PreAdapters
<1>4. \A p \in MockSupport : Len(entries'[p]) <= MaxEntries
  BY <1>1 DEF AdaptersInv
<1>5. CASE Idle /\ r = Default
  <2>1. Depth = 0
    BY <1>5 DEF Idle, Depth
  <2>2. adapters = <<>>
    BY <2>1 DEF AdaptersInv
  <2>3. Depth' = 1 /\ frames'[1] = EnteredFrame(r)
    BY <2>1, FramesEntered
  <2>4. frames'[1].registry = Default
    BY <1>5, <2>3 DEF EnteredFrame, NewFrame
  <2>5. adapters' = LentBy(Default)'
    BY <1>2, <1>3, <1>5, <2>2
  <2>6. adapters' # <<>> => Uses(Default, MockSupport)'
    BY <1>2, <1>3, <1>5, <2>2
  <2> QED
    BY <1>4, <2>3, <2>4, <2>5, <2>6 DEF AdaptersInv
<1>6. CASE Depth = 1 /\ r = Inner
  <2>1. Depth' = 2 /\ frames'[1] = Around(frames[1], r) /\ frames'[2] = EnteredFrame(r)
    BY <1>6, FramesEntered
  <2>2. frames[1] \in FrameType
    BY <1>6, FramesType
  <2>3. /\ frames'[1].registry = frames[1].registry
        /\ frames'[1].lent = (frames[1].lent /\ ~Uses(r, MockSupport))
        /\ frames'[2].registry = Inner
    BY <1>6, <2>1, <2>2, AroundKind DEF EnteredFrame, NewFrame
  <2>4. adapters' # <<>> => \E i \in 1 .. 2 : Uses(frames[i].registry, MockSupport)'
    <3>1. ASSUME adapters' # <<>>, ~Uses(Inner, MockSupport) PROVE Uses(frames[1].registry, MockSupport)
      BY <1>3, <1>6, <3>1 DEF AdaptersInv
    <3>2. frames[1].registry \in Registries
      BY <2>2 DEF FrameType
    <3> QED
      BY <1>2, <2>3, <3>1, <3>2 DEF Registries
  <2>5. ASSUME frames'[1].lent PROVE ~Uses(Inner, MockSupport)' /\ adapters' = LentBy(Default)'
    <3>1. frames[1].lent /\ ~Uses(Inner, MockSupport)
      BY <1>6, <2>3, <2>5
    <3>2. adapters = LentBy(Default)
      BY <1>6, <3>1 DEF AdaptersInv
    <3>3. adapters' = adapters
      BY <1>3, <1>6, <3>1
    <3> QED
      BY <1>2, <3>1, <3>2, <3>3 DEF Registries
  <2> QED
    BY <1>4, <2>1, <2>4, <2>5 DEF AdaptersInv
<1> QED
  BY <1>5, <1>6 DEF MayEnter

LEMMA AdaptersBody ==
  ASSUME TypeInv, AdaptersInv, Bodies
  PROVE  AdaptersInv'
<1>1. UNCHANGED <<chain, entries, adapters>>
  BY DEF Bodies, FailTest, MakeSetPointerPlugin, Leak, PtrSet, Announce, Step, shared
<1>2. /\ \A q \in Registries : LentBy(q)' = LentBy(q)
      /\ \A q \in Registries : Uses(q, MockSupport)' <=> Uses(q, MockSupport)
  BY <1>1, SameChain
<1>3. Depth' = Depth /\ Depth \in 1 .. 2 /\ \A i \in 1 .. Depth : SameKind(frames[i], frames'[i])
  BY BodyFrames
<1>4. /\ \A i \in 1 .. Depth : frames'[i].registry = frames[i].registry /\ frames[i].registry \in Registries
      /\ frames'[1].lent = frames[1].lent
  BY <1>3, FramesType DEF SameKind, FrameType
<1>5. adapters' # <<>> => \E i \in 1 .. Depth : Uses(frames[i].registry, MockSupport)'
  BY <1>1, <1>2, <1>4 DEF AdaptersInv
<1>6. /\ frames'[1].lent => adapters' = LentBy(Default)'
      /\ (Depth = 2 /\ frames'[1].lent) => ~Uses(Inner, MockSupport)'
  BY <1>1, <1>2, <1>3, <1>4 DEF AdaptersInv, Registries
<1> QED
  BY <1>1, <1>3, <1>5, <1>6 DEF AdaptersInv

LEMMA AdaptersEnd ==
  ASSUME TypeInv, AdaptersInv, EndTest
  PROVE  AdaptersInv'
<1>1. UNCHANGED <<chain, entries>>
  BY DEF EndTest
<1>2. /\ \A q \in Registries : LentBy(q)' = LentBy(q)
      /\ \A q \in Registries : Uses(q, MockSupport)' <=> Uses(q, MockSupport)
  BY <1>1, SameChain
<1>3. adapters' = IF Uses(current, MockSupport) THEN <<>> ELSE adapters
  BY PostAdapters
<1>4. /\ Depth \in 1 .. 2 /\ Depth' = Depth - 1
      /\ \A i \in 1 .. Depth - 1 : frames'[i] = frames[i]
      /\ Top.registry = current
  BY FramesLeft
<1>5. CASE Depth = 1
  <2>1. adapters' = <<>>
    <3>1. ASSUME ~Uses(current, MockSupport) PROVE adapters = <<>>
      BY <1>4, <1>5, <3>1 DEF AdaptersInv, Top
    <3> QED
      BY <1>3, <3>1
  <2>2. Depth' = 0
    BY <1>4, <1>5
  <2> QED
    BY <1>1, <2>1, <2>2 DEF AdaptersInv
<1>6. CASE Depth = 2
  <2>1. current = Inner /\ Depth' = 1 /\ frames'[1] = frames[1] /\ frames[1].registry = Default
    BY <1>4, <1>6 DEF TypeInv, NestingOK
  <2>2. adapters' # <<>> => Uses(Default, MockSupport)'
    <3>1. ASSUME adapters' # <<>> PROVE Uses(Default, MockSupport)
      <4>1. adapters # <<>> /\ ~Uses(Inner, MockSupport)
        BY <1>3, <2>1, <3>1
      <4>2. PICK i \in 1 .. 2 : Uses(frames[i].registry, MockSupport)
        BY <1>6, <4>1 DEF AdaptersInv
      <4>3. i = 1 \/ i = 2
        BY <4>2
      <4> QED
        BY <1>4, <1>6, <2>1, <4>1, <4>2, <4>3 DEF Top
    <3> QED
      BY <1>2, <3>1 DEF Registries
  <2>3. frames'[1].lent => adapters' = LentBy(Default)'
    BY <1>2, <1>3, <1>6, <2>1 DEF AdaptersInv, Registries
  <2> QED
    BY <1>1, <2>1, <2>2, <2>3 DEF AdaptersInv
<1> QED
  BY <1>4, <1>5, <1>6

LEMMA AdaptersNext ==
  ASSUME TypeInv, AdaptersInv, [Next]_vars
  PROVE  AdaptersInv'
<1>1. CASE StartTest \/ StartNested
  BY <1>1, EnterCases, AdaptersStart
<1>2. CASE Bodies
  BY <1>2, AdaptersBody
<1>3. CASE EndTest
  BY <1>3, AdaptersEnd
<1>4. CASE Chains
  <2>1. Idle /\ UNCHANGED <<frames, adapters, entries>>
    BY <1>4 DEF Chains, InstallPlugin, RemovePlugin, Enable, Change, UnchangedByChain, shared
  <2>2. Depth = 0 /\ Depth' = 0
    BY <2>1 DEF Idle, Depth
  <2> QED
    BY <2>1, <2>2 DEF AdaptersInv
<1>5. CASE Offers
  <2>1. PICK p \in MockSupport :
          /\ Idle /\ UNCHANGED <<frames, adapters>>
          /\ entries' = IF Len(entries[p]) >= MaxEntries THEN entries
                        ELSE [entries EXCEPT ![p] = Append(@, offers + 1)]
    BY <1>5 DEF Offers, OfferComparator, shared
  <2>2. Depth = 0 /\ Depth' = 0
    BY <2>1 DEF Idle, Depth
  <2>3. ASSUME NEW q \in MockSupport PROVE Len(entries'[q]) <= MaxEntries
    <3>1. entries \in [MockSupport -> Seq(Nat)] /\ offers \in Nat /\ MaxEntries \in Nat
      BY PluginsAssumption DEF TypeInv, TypeOK
    <3>2. CASE q = p /\ ~(Len(entries[p]) >= MaxEntries)
      <4>1. entries'[q] = Append(entries[p], offers + 1) /\ entries[p] \in Seq(Nat)
        BY <2>1, <3>1, <3>2
      <4>2. Len(entries'[q]) = Len(entries[p]) + 1 /\ Len(entries[p]) \in Nat
        BY <3>1, <4>1
      <4> QED
        BY <3>1, <3>2, <4>2
    <3>3. CASE ~(q = p /\ ~(Len(entries[p]) >= MaxEntries))
      BY <2>1, <3>1, <3>3 DEF AdaptersInv
    <3> QED
      BY <3>2, <3>3
  <2> QED
    BY <2>1, <2>2, <2>3 DEF AdaptersInv
<1>6. CASE UNCHANGED vars
  <2>1. UNCHANGED <<chain, entries, adapters, frames>>
    BY <1>6 DEF vars, shared
  <2>2. /\ \A q \in Registries : LentBy(q)' = LentBy(q)
        /\ \A q \in Registries : Uses(q, MockSupport)' <=> Uses(q, MockSupport)
    BY <2>1, SameChain
  <2>3. Depth' = Depth /\ \A i \in 1 .. Depth : frames'[i] = frames[i] /\ frames[i].registry \in Registries
    BY <2>1, FramesType DEF Depth, FrameType
  <2>4. adapters' # <<>> => \E i \in 1 .. Depth' : Uses(frames[i].registry, MockSupport)'
    BY <2>1, <2>2, <2>3 DEF AdaptersInv
  <2> QED
    BY <2>1, <2>2, <2>3, <2>4 DEF AdaptersInv, Registries
<1> QED
  BY <1>1, <1>2, <1>3, <1>4, <1>5, <1>6, Actions

(* What a test finds in mock() are the comparators of the plugins around   *)
(* it, at most MaxEntries of each (MockSupportPlugin.h), as long as no     *)
(* MockSupportPlugin stood around a test inside it; between tests mock()   *)
(* has none.                                                               *)
THEOREM AdaptersPerTestAlways == Spec => []AdaptersPerTest
<1>1. Init => AdaptersInv
  <2> SUFFICES ASSUME Init PROVE AdaptersInv
    OBVIOUS
  <2>1. entries = [p \in MockSupport |-> <<>>] /\ frames = <<>> /\ adapters = <<>> /\ MaxEntries \in Nat
    BY PluginsAssumption DEF Init
  <2>2. Depth = 0
    BY <2>1 DEF Depth
  <2> QED
    BY <2>1, <2>2 DEF AdaptersInv
<1>2. TypeInv /\ AdaptersInv /\ [Next]_vars => AdaptersInv'
  BY AdaptersNext
<1>3. TypeInv /\ AdaptersInv => AdaptersPerTest
  <2> SUFFICES ASSUME TypeInv, AdaptersInv PROVE AdaptersPerTest
    OBVIOUS
  <2>1. Idle => adapters = <<>>
    BY DEF AdaptersInv, Idle, Depth
  <2>2. (Depth = 1 /\ Top.lent) => adapters = LentBy(current)
    BY DEF AdaptersInv, TypeInv, NestingOK, Top
  <2> QED
    BY <2>1, <2>2 DEF AdaptersInv, AdaptersPerTest, LentBy, Lendings
<1> QED
  BY <1>1, <1>2, <1>3, TypesHold, PTL DEF Spec

-------------------------------------------------------------------------------
(* Leaks *)

Watchers == {p \in LeakWarning : Watches(p)}

(* Of the first k actions before a test, one was of T.                     *)
Started(c, k, T) == \E j \in 1 .. k : c[j] \in T

LEMMA StartedStep ==
  ASSUME TypeInv, NEW c, NEW T
  PROVE  /\ ~Started(c, 0, T)
         /\ \A k \in 1 .. N : Started(c, k, T) <=> Started(c, k - 1, T) \/ c[k] \in T
<1>1. N \in Nat
  BY Backwards
<1> HIDE DEF N
<1>2. /\ 1 .. 0 = {}
      /\ \A k \in 1 .. N : k \in 1 .. k /\ \A j \in 1 .. k : j \in 1 .. k - 1 \/ j = k
      /\ \A k \in 1 .. N : \A j \in 1 .. k - 1 : j \in 1 .. k
  BY <1>1
<1>3. ~Started(c, 0, T)
  BY <1>2 DEF Started
<1>4. ASSUME NEW k \in 1 .. N PROVE Started(c, k, T) <=> Started(c, k - 1, T) \/ c[k] \in T
  BY <1>2 DEF Started
<1> QED
  BY <1>3, <1>4

LEMMA WatchersAct ==
  ASSUME TypeInv, NEW r \in Registries
  PROVE  /\ Uses(r, LeakWarning) <=> Started(ChainOf(r), N, Watchers)
         /\ FirstLeakWarning \in Active(r) <=> Started(ChainOf(r), N, Watchers \cap {FirstLeakWarning})
<1>1. Uses(r, LeakWarning) <=> \E i \in 1 .. N : TakesPart(ChainOf(r)[i]) /\ ChainOf(r)[i] \in LeakWarning
  BY UsesIs
<1>2. Uses(r, {FirstLeakWarning}) <=>
        \E i \in 1 .. N : TakesPart(ChainOf(r)[i]) /\ ChainOf(r)[i] \in {FirstLeakWarning}
  BY UsesIs
<1>3. FirstLeakWarning \in Active(r) <=> Uses(r, {FirstLeakWarning})
  BY DEF Uses
<1> QED
  BY <1>1, <1>2, <1>3, PluginsAssumption DEF Started, Watchers, Watches

(* Before a test, no block changes; leaks are checked if a leak plugin is  *)
(* in the chain, and it alone takes the count of failures.                 *)
LEMMA PreLeaks ==
  ASSUME TypeInv, NEW r \in Registries, Enters(r)
  PROVE  /\ blocks' = blocks
         /\ checking_now' = (checking_now \/ Uses(r, LeakWarning))
         /\ ~Uses(r, LeakWarning) => leak' = leak
         /\ leak'[FirstLeakWarning].ignore = leak[FirstLeakWarning].ignore
         /\ leak'[FirstLeakWarning].expected = leak[FirstLeakWarning].expected
         /\ FirstLeakWarning \in Active(r) => leak'[FirstLeakWarning].failureCount = 0
<1> DEFINE c == ChainOf(r)
           First == Watchers \cap {FirstLeakWarning}
           Has(u, k) ==
             /\ u.blocks = blocks /\ u.failures = 0
             /\ u.checking_now = (checking_now \/ Started(c, k, Watchers))
             /\ ~Started(c, k, Watchers) => u.leak = leak
             /\ u.leak[FirstLeakWarning].ignore = leak[FirstLeakWarning].ignore
             /\ u.leak[FirstLeakWarning].expected = leak[FirstLeakWarning].expected
             /\ Started(c, k, First) => u.leak[FirstLeakWarning].failureCount = 0
           I == [k \in 0 .. N |-> {u \in StateType : Has(u, k)}]
<1>1. \A k \in 0 .. N : I[k] = {u \in StateType : Has(u, k)}
  OBVIOUS
<1> HIDE DEF I, c
<1>2. State(0) \in StateType /\ Has(State(0), 0)
  <2>1. State(0) \in StateType
    BY StateTypes DEF TypeInv
  <2>2. ~Started(c, 0, Watchers) /\ ~Started(c, 0, First)
    BY StartedStep
  <2>3. checking_now \in BOOLEAN
    BY DEF TypeInv, TypeOK
  <2> HIDE DEF First
  <2> QED
    BY <2>1, <2>2, <2>3 DEF State
<1> HIDE DEF Has
<1>3. State(0) \in I[0]
  BY <1>1, <1>2, Backwards
<1>4. ASSUME NEW k \in 1 .. N, NEW u \in I[k - 1], NEW v \in StateType, PreEffect(u, v, c[k])
      PROVE  v \in I[k]
  <2>1. k \in 0 .. N /\ k - 1 \in 0 .. N
    BY Backwards
  <2>2. u \in StateType /\ Has(u, k - 1)
    BY <1>1, <2>1
  <2> DEFINE p == c[k]
  <2>3. /\ Started(c, k, Watchers) <=> Started(c, k - 1, Watchers) \/ Watches(p)
        /\ Started(c, k, First) <=> Started(c, k - 1, First) \/ (Watches(p) /\ p = FirstLeakWarning)
    BY StartedStep DEF Watchers, Watches
  <2>4. /\ v.blocks = u.blocks /\ v.failures = u.failures
        /\ v.checking_now = (u.checking_now \/ Watches(p))
        /\ v.leak = IF Watches(p) THEN [u.leak EXCEPT ![p] = [@ EXCEPT !.failureCount = u.failures]] ELSE u.leak
    BY <1>4 DEF PreEffect
  <2>5. u.leak \in [LeakWarning -> MemType] /\ u.failures \in Nat /\ FirstLeakWarning \in LeakWarning
    BY <2>2, PluginsAssumption DEF StateType
  <2> HIDE DEF p, First
  <2>6. /\ v.leak[FirstLeakWarning].ignore = u.leak[FirstLeakWarning].ignore
        /\ v.leak[FirstLeakWarning].expected = u.leak[FirstLeakWarning].expected
        /\ v.leak[FirstLeakWarning].failureCount =
             IF Watches(p) /\ p = FirstLeakWarning THEN u.failures ELSE u.leak[FirstLeakWarning].failureCount
        /\ ~Watches(p) => v.leak = u.leak
    BY <2>4, <2>5 DEF MemType, Watches
  <2> HIDE DEF Watchers
  <2>7. Has(v, k)
    BY <2>2, <2>3, <2>4, <2>6 DEF Has
  <2> QED
    BY <1>1, <2>1, <2>7
<1>5. PreKeeps(c, State(0), I)
  BY <1>3, <1>4 DEF PreKeeps
<1>6. AllPreActions(r, State(0)) \in StateType /\ AllPreActions(r, State(0)) \in I[N]
  BY <1>2, <1>5, PreActions DEF c
<1>7. PICK s \in StateType : s = AllPreActions(r, State(0)) /\ Has(s, N)
  BY <1>1, <1>6, Backwards
<1>8. Becomes(s)
  BY <1>7 DEF Enters
<1> QED
  BY <1>7, <1>8, WatchersAct DEF Becomes, Has, c

(* Each block is of a test that ran, and was charged once at most; one     *)
(* that is still checked was not charged.                                  *)
Counted(B) ==
  \A b \in B : b.by \subseteq 1 .. tests /\ b.charges <= 1 /\ (b.checking => b.charges = 0)

NoneChecked(B) == \A b \in B : ~b.checking

(* The blocks that are checked are those of the outer test, for which the  *)
(* plugin remembers what that test announced.                              *)
Watched ==
  /\ checking_now
  /\ leak[FirstLeakWarning].ignore = frames[1].ignore
  /\ leak[FirstLeakWarning].expected = frames[1].expected
  /\ leak[FirstLeakWarning].failureCount = 0
  /\ \A b \in blocks : b.checking <=> frames[1].test \in b.by

Verdict ==
  (ended.watched /\ ~ended.frame.disturbed) =>
    (ended.failed <=>
       /\ ended.frame.failures = 0
       /\ ~ended.frame.ignore /\ ended.frame.expected # ended.leaked)

LeaksInv ==
  /\ Counted(blocks)
  /\ (checking_now \/ ~NoneChecked(blocks)) => \E i \in 1 .. Depth : Uses(frames[i].registry, LeakWarning)
  /\ (Depth \in 1 .. 2 /\ ~frames[1].disturbed /\ FirstLeakWarning \in Active(Default)) => Watched
  /\ (Depth = 2 /\ ~frames[1].disturbed) => ~Uses(Inner, LeakWarning)
  /\ \A i \in 1 .. Depth : frames[i].test \in 1 .. tests
  /\ Depth = 2 => frames[2].disturbed
  /\ Verdict

LEMMA ChargedOnce ==
  ASSUME NEW B \in SUBSET BlockType, Counted(B), NEW fails \in BOOLEAN
  PROVE  Counted(Charged(B, fails)) /\ NoneChecked(Charged(B, fails))
<1>1. ASSUME NEW d \in Charged(B, fails)
      PROVE  d.by \subseteq 1 .. tests /\ d.charges <= 1 /\ ~d.checking
  <2>1. PICK b \in B :
          d = [b EXCEPT !.checking = FALSE, !.charges = IF fails /\ b.checking THEN @ + 1 ELSE @]
    BY DEF Charged
  <2>2. b \in BlockType /\ b.by \subseteq 1 .. tests /\ b.charges <= 1 /\ (b.checking => b.charges = 0)
    BY DEF Counted
  <2> DEFINE n == IF fails /\ b.checking THEN b.charges + 1 ELSE b.charges
  <2>3. n <= 1
    BY <2>2 DEF BlockType
  <2>4. d = [b EXCEPT !.checking = FALSE, !.charges = n]
    BY <2>1
  <2> HIDE DEF n
  <2>5. d.by = b.by /\ d.charges = n /\ d.checking = FALSE
    BY <2>2, <2>4 DEF BlockType
  <2> QED
    BY <2>2, <2>3, <2>5
<1> QED
  BY <1>1 DEF Counted, NoneChecked

LEMMA NothingToCharge ==
  ASSUME NEW s \in StateType, NoneChecked(s.blocks), NEW p \in LeakWarning, s.leak[p] = Forgiving
  PROVE  ~Fails(s, p)
<1>1. Checked(s) = {}
  BY DEF Checked, NoneChecked
<1>2. Cardinality(Checked(s)) = 0
  BY <1>1, FS_EmptySet
<1> QED
  BY <1>2 DEF Fails, Forgiving

(* No leak plugin but the first is in the chain of r.                      *)
OnlyFirst(r) == \A i \in 1 .. N : Watches(ChainOf(r)[i]) => ChainOf(r)[i] = FirstLeakWarning

(* The actions after a test: nothing is checked any more once a leak       *)
(* plugin has acted, and only the check of the first one can fail the test.*)
LEMMA PostLeaks ==
  ASSUME TypeInv, Counted(blocks), EndTest
  PROVE  /\ Counted(blocks')
         /\ IF Uses(current, LeakWarning) THEN ~checking_now' /\ NoneChecked(blocks')
            ELSE UNCHANGED <<checking_now, blocks, leak>>
         /\ (Uses(current, LeakWarning) /\ OnlyFirst(current)) =>
              (ended'.failed <=> Fails(State(Top.failures), FirstLeakWarning))
<1> DEFINE c == ChainOf(current)
           s == State(Top.failures)
           Only == OnlyFirst(current)
           Has(u, k) ==
             /\ Counted(u.blocks)
             /\ IF Acted(c, k, Watchers) THEN ~u.checking_now /\ NoneChecked(u.blocks)
                ELSE u.checking_now = s.checking_now /\ u.blocks = s.blocks /\ u.leak = s.leak
                     /\ u.failures = s.failures
             /\ (Acted(c, k, Watchers) /\ Only) =>
                  /\ u.leak[FirstLeakWarning] = Forgiving
                  /\ u.failures # s.failures <=> Fails(s, FirstLeakWarning)
           I == [k \in 0 .. N |-> {u \in StateType : Has(u, k)}]
<1>1. \A k \in 0 .. N : I[k] = {u \in StateType : Has(u, k)}
  OBVIOUS
<1>2. \A i \in 1 .. N : Only /\ Watches(c[i]) => c[i] = FirstLeakWarning
  BY DEF OnlyFirst
<1> HIDE DEF I, c, Only
<1>3. /\ s \in StateType /\ s.checking_now = checking_now /\ s.blocks = blocks /\ s.leak = leak
      /\ s.failures = Top.failures
  <2>1. Top.failures \in Nat
    BY FramesLeft DEF FrameType
  <2>2. s \in StateType
    BY <2>1, StateTypes DEF TypeInv
  <2> QED
    BY <2>2 DEF State
<1> HIDE DEF s
<1>4. s \in I[0]
  <2>1. ~Acted(c, 0, Watchers)
    BY ActedStep
  <2>2. Has(s, 0)
    BY <1>3, <2>1
  <2> HIDE DEF Has
  <2> QED
    BY <1>1, <1>3, <2>2, Backwards
<1> HIDE DEF Has
<1>5. ASSUME NEW k \in 1 .. N, NEW u \in I[k - 1], NEW v \in StateType, PostEffect(u, v, c[N + 1 - k])
      PROVE  v \in I[k]
  <2> DEFINE p == c[N + 1 - k]
  <2>1. k \in 0 .. N /\ k - 1 \in 0 .. N /\ N + 1 - k \in 1 .. N
    BY Backwards
  <2>2. u \in StateType /\ Has(u, k - 1)
    BY <1>1, <2>1
  <2>3. Acted(c, k, Watchers) <=> Acted(c, k - 1, Watchers) \/ Watches(p)
    BY ActedStep DEF Watchers, Watches
  <2>4. IF Watches(p)
        THEN /\ ~v.checking_now
             /\ v.leak = [u.leak EXCEPT ![p] = Forgiving]
             /\ v.failures = IF Fails(u, p) THEN u.failures + 1 ELSE u.failures
             /\ v.blocks = Charged(u.blocks, Fails(u, p))
        ELSE /\ v.checking_now = u.checking_now /\ v.leak = u.leak
             /\ v.failures = u.failures /\ v.blocks = u.blocks
    BY <1>5 DEF PostEffect
  <2>5. Only /\ Watches(p) => p = FirstLeakWarning
    BY <1>2, <2>1
  <2> HIDE DEF p
  <2>6. /\ u.leak \in [LeakWarning -> MemType] /\ u.failures \in Nat /\ s.failures \in Nat
        /\ u.blocks \in SUBSET BlockType /\ FirstLeakWarning \in LeakWarning
    BY <1>3, <2>2, PluginsAssumption DEF StateType
  <2>7. ASSUME ~Watches(p) PROVE Has(v, k)
    BY <2>2, <2>3, <2>4, <2>7 DEF Has
  <2>8. ASSUME Watches(p) PROVE Has(v, k)
    <3>1. Fails(u, p) \in BOOLEAN /\ Counted(u.blocks)
      BY <2>2 DEF Fails, Has
    <3>2. Counted(v.blocks) /\ NoneChecked(v.blocks) /\ ~v.checking_now
      BY <2>4, <2>6, <2>8, <3>1, ChargedOnce
    <3>3. ASSUME Only
          PROVE  /\ v.leak[FirstLeakWarning] = Forgiving
                 /\ v.failures # s.failures <=> Fails(s, FirstLeakWarning)
      <4>1. p = FirstLeakWarning
        BY <2>5, <2>8, <3>3
      <4>2. v.leak[FirstLeakWarning] = Forgiving
        BY <2>4, <2>6, <2>8, <4>1
      <4>3. CASE Acted(c, k - 1, Watchers)
        <5>1. /\ NoneChecked(u.blocks) /\ u.leak[FirstLeakWarning] = Forgiving
              /\ u.failures # s.failures <=> Fails(s, FirstLeakWarning)
          BY <2>2, <3>3, <4>3 DEF Has
        <5>2. ~Fails(u, FirstLeakWarning)
          BY <2>2, <2>6, <5>1, NothingToCharge
        <5>3. v.failures = u.failures
          BY <2>4, <2>8, <4>1, <5>2
        <5> QED
          BY <4>2, <5>1, <5>3
      <4>4. CASE ~Acted(c, k - 1, Watchers)
        <5>1. u.blocks = s.blocks /\ u.leak = s.leak /\ u.failures = s.failures
          BY <2>2, <4>4 DEF Has
        <5>2. Fails(u, FirstLeakWarning) <=> Fails(s, FirstLeakWarning)
          BY <5>1 DEF Fails, Checked
        <5>3. v.failures = IF Fails(u, FirstLeakWarning) THEN u.failures + 1 ELSE u.failures
          BY <2>4, <2>8, <4>1
        <5> QED
          BY <2>6, <4>2, <5>1, <5>2, <5>3
      <4> QED
        BY <4>3, <4>4
    <3> QED
      BY <2>3, <2>8, <3>2, <3>3 DEF Has
  <2>9. Has(v, k)
    BY <2>7, <2>8
  <2> QED
    BY <1>1, <2>1, <2>9
<1>6. PostKeeps(c, s, I)
  BY <1>4, <1>5 DEF PostKeeps
<1>7. PICK u \in StateType : u \in I[N] /\ u = AllPostActions(current, s) /\ Becomes(u)
  BY <1>6, Ends DEF c, s
<1>8. Has(u, N)
  BY <1>1, <1>7, Backwards
<1>9. ended'.failed <=> u.failures # s.failures
  <2>1. ended'.failed = (AllPostActions(current, State(Top.failures)).failures # Top.failures)
    BY DEF EndTest
  <2> QED
    BY <1>3, <1>7, <2>1 DEF s
<1>10. Uses(current, LeakWarning) <=> Acted(c, N, Watchers)
  <2>1. Uses(current, LeakWarning) <=> \E i \in 1 .. N : c[i] \in Watchers
    BY FramesLeft, UsesIs DEF Watchers, Watches, c
  <2> QED
    BY <2>1, ActedStep
<1> QED
  BY <1>3, <1>7, <1>8, <1>9, <1>10 DEF Has, Becomes, s, Only

LEMMA SameWatch ==
  ASSUME UNCHANGED chain, NEW r \in Registries
  PROVE  /\ Uses(r, LeakWarning)' <=> Uses(r, LeakWarning)
         /\ FirstLeakWarning \in Active(r)' <=> FirstLeakWarning \in Active(r)
<1>1. \A kind : Uses(r, kind)' <=> Uses(r, kind)
  BY SameChain
<1>2. FirstLeakWarning \in Active(r) <=> Uses(r, {FirstLeakWarning})
  BY DEF Uses
<1>3. FirstLeakWarning \in Active(r)' <=> Uses(r, {FirstLeakWarning})'
  BY DEF Uses
<1> QED
  BY <1>1, <1>2, <1>3

LEMMA EnteredIs ==
  ASSUME NEW r \in Registries
  PROVE  LET f == EnteredFrame(r)
         IN  /\ f.registry = r /\ f.test = tests + 1 /\ f.disturbed = (~Idle \/ Told)
             /\ f.ignore = FALSE /\ f.expected = 0
BY DEF EnteredFrame, NewFrame

LEMMA LeaksStart ==
  ASSUME TypeInv, LeaksInv, NEW r \in Registries, MayEnter(r), Enters(r)
  PROVE  LeaksInv'
<1>1. UNCHANGED <<chain, ended>> /\ tests' = tests + 1 /\ tests \in Nat
  BY DEF Enters, TypeInv, TypeOK
<1>2. \A q \in Registries : /\ Uses(q, LeakWarning)' <=> Uses(q, LeakWarning)
                            /\ FirstLeakWarning \in Active(q)' <=> FirstLeakWarning \in Active(q)
  BY <1>1, SameWatch
<1> DEFINE F == FirstLeakWarning
<1>3. /\ blocks' = blocks
      /\ checking_now' = (checking_now \/ Uses(r, LeakWarning))
      /\ ~Uses(r, LeakWarning) => leak' = leak
      /\ leak'[F].ignore = leak[F].ignore /\ leak'[F].expected = leak[F].expected
      /\ F \in Active(r) => leak'[F].failureCount = 0
  BY PreLeaks
<1>4. F \in LeakWarning /\ leak[F] \in MemType /\ checking_now \in BOOLEAN
  BY PluginsAssumption DEF TypeInv, TypeOK
<1>5. F \in Active(r) => Uses(r, LeakWarning)
  BY <1>4 DEF Uses
<1>6. Counted(blocks') /\ Counted(blocks)' /\ \A i \in 1 .. tests : i \in 1 .. tests' /\ i # tests + 1
  BY <1>1, <1>3 DEF LeaksInv, Counted
<1>7. Verdict'
  BY <1>1 DEF LeaksInv, Verdict
<1>8. CASE Idle /\ r = Default
  <2>1. Depth = 0
    BY <1>8 DEF Idle, Depth
  <2>2. Depth' = 1 /\ frames'[1] = EnteredFrame(r)
    BY <2>1, FramesEntered
  <2>3. /\ frames'[1].registry = Default /\ frames'[1].test = tests + 1
        /\ frames'[1].disturbed = Told
        /\ frames'[1].ignore = FALSE /\ frames'[1].expected = 0
    <3>1. Told \in BOOLEAN
      BY <1>4 DEF Told, MemType
    <3>2. frames'[1].disturbed = (~Idle \/ Told)
      BY <1>8, <2>2, EnteredIs
    <3> QED
      BY <1>8, <2>2, <3>1, <3>2, EnteredIs
  <2>4. ~checking_now /\ NoneChecked(blocks)
    BY <2>1 DEF LeaksInv
  <2>5. (checking_now' \/ ~NoneChecked(blocks')) => Uses(Default, LeakWarning)'
    BY <1>2, <1>3, <1>8, <2>4
  <2>6. ASSUME ~frames'[1].disturbed, F \in Active(Default)' PROVE Watched'
    <3>1. leak[F].ignore = FALSE /\ leak[F].expected = 0
      BY <1>4, <2>3, <2>6 DEF Told, MemType
    <3>2. checking_now' /\ leak'[F].failureCount = 0
      BY <1>2, <1>3, <1>5, <1>8, <2>6
    <3>3. \A b \in blocks' : ~b.checking /\ tests + 1 \notin b.by
      BY <1>3, <1>6, <2>4 DEF NoneChecked, LeaksInv, Counted
    <3> QED
      BY <1>3, <2>3, <3>1, <3>2, <3>3 DEF Watched
  <2>7. tests + 1 \in 1 .. tests'
    BY <1>1
  <2> QED
    BY <1>6, <1>7, <2>2, <2>3, <2>5, <2>6, <2>7 DEF LeaksInv
<1>9. CASE Depth = 1 /\ r = Inner
  <2>1. Depth' = 2 /\ frames'[1] = Around(frames[1], r) /\ frames'[2] = EnteredFrame(r)
    BY <1>9, FramesEntered
  <2>2. frames[1] \in FrameType
    BY <1>9, FramesType
  <2>3. /\ frames'[1].registry = frames[1].registry /\ frames'[1].test = frames[1].test
        /\ frames'[1].expected = frames[1].expected /\ frames'[1].ignore = frames[1].ignore
        /\ frames'[1].disturbed = (frames[1].disturbed \/ Uses(Inner, LeakWarning))
    BY <1>9, <2>1, <2>2, AroundKind
  <2>4. frames'[2].registry = Inner /\ frames'[2].test = tests + 1 /\ frames'[2].disturbed
    <3>1. ~Idle
      BY <1>9 DEF Idle, Depth
    <3> QED
      BY <1>9, <2>1, <3>1, EnteredIs
  <2>5. (checking_now' \/ ~NoneChecked(blocks')) =>
          Uses(frames[1].registry, LeakWarning) \/ Uses(Inner, LeakWarning)
    <3>1. ASSUME checking_now \/ ~NoneChecked(blocks) PROVE Uses(frames[1].registry, LeakWarning)
      <4>1. PICK i \in 1 .. 1 : Uses(frames[i].registry, LeakWarning)
        BY <1>9, <3>1 DEF LeaksInv
      <4>2. i = 1
        OBVIOUS
      <4> QED
        BY <4>1, <4>2
    <3> QED
      BY <1>3, <1>9, <3>1
  <2>6. (checking_now' \/ ~NoneChecked(blocks')) => \E i \in 1 .. 2 : Uses(frames[i].registry, LeakWarning)'
    <3>1. frames[1].registry \in Registries /\ Inner \in Registries
      BY <2>2 DEF FrameType, Registries
    <3> QED
      BY <1>2, <2>3, <2>4, <2>5, <3>1
  <2>7. ASSUME ~frames'[1].disturbed
        PROVE  ~Uses(Inner, LeakWarning)' /\ (F \in Active(Default)' => Watched')
    <3>1. ~frames[1].disturbed /\ ~Uses(Inner, LeakWarning)
      BY <2>2, <2>3, <2>7 DEF FrameType
    <3>2. F \in Active(Default)' => Watched
      BY <1>2, <1>9, <3>1 DEF LeaksInv, Registries
    <3>3. leak' = leak /\ checking_now' = checking_now
      BY <1>3, <1>4, <1>9, <3>1
    <3> QED
      BY <1>2, <1>3, <2>3, <3>1, <3>2, <3>3 DEF Watched, Registries
  <2>8. \A i \in 1 .. 2 : frames'[i].test \in 1 .. tests'
    <3>1. frames[1].test \in 1 .. tests
      BY <1>9 DEF LeaksInv
    <3>2. tests + 1 \in 1 .. tests'
      BY <1>1
    <3> QED
      BY <1>6, <2>3, <2>4, <3>1, <3>2
  <2> QED
    BY <1>6, <1>7, <2>1, <2>4, <2>6, <2>7, <2>8 DEF LeaksInv
<1> QED
  BY <1>8, <1>9 DEF MayEnter

LEMMA LeaksEnd ==
  ASSUME TypeInv, LeaksInv, EndTest,
         \A p \in LeakWarning : Home[p] = Default => p = FirstLeakWarning
  PROVE  LeaksInv'
<1>1. UNCHANGED <<chain, tests>>
  BY DEF EndTest
<1>2. \A q \in Registries : /\ Uses(q, LeakWarning)' <=> Uses(q, LeakWarning)
                            /\ FirstLeakWarning \in Active(q)' <=> FirstLeakWarning \in Active(q)
  BY <1>1, SameWatch
<1>3. /\ Counted(blocks')
      /\ IF Uses(current, LeakWarning) THEN ~checking_now' /\ NoneChecked(blocks')
         ELSE UNCHANGED <<checking_now, blocks, leak>>
      /\ (Uses(current, LeakWarning) /\ OnlyFirst(current)) =>
           (ended'.failed <=> Fails(State(Top.failures), FirstLeakWarning))
  BY PostLeaks DEF LeaksInv
<1>4. Counted(blocks)'
  BY <1>1, <1>3 DEF Counted
<1>5. /\ Depth \in 1 .. 2 /\ Depth' = Depth - 1
      /\ \A i \in 1 .. Depth - 1 : frames'[i] = frames[i]
      /\ Top \in FrameType /\ Top.registry = current
  BY FramesLeft
<1>6. /\ ended'.watched = (FirstLeakWarning \in Active(current)) /\ ended'.frame = Top
      /\ ended'.leaked = Cardinality({b \in blocks : Top.test \in b.by})
  BY DEF EndTest
<1>7. CASE Depth = 1
  <2>1. Depth' = 0 /\ Top = frames[1] /\ current = Default
    BY <1>5, <1>7 DEF Top, TypeInv, NestingOK
  <2>2. ~checking_now' /\ NoneChecked(blocks')
    <3>1. CASE Uses(current, LeakWarning)
      BY <1>3, <3>1
    <3>2. CASE ~Uses(current, LeakWarning)
      <4>1. ~checking_now /\ NoneChecked(blocks)
        BY <1>5, <1>7, <2>1, <3>2 DEF LeaksInv
      <4> QED
        BY <1>3, <3>2, <4>1
    <3> QED
      BY <3>1, <3>2
  <2>3. Verdict'
    <3> SUFFICES ASSUME ended'.watched, ~ended'.frame.disturbed
                 PROVE  ended'.failed <=>
                          /\ ended'.frame.failures = 0
                          /\ ~ended'.frame.ignore /\ ended'.frame.expected # ended'.leaked
      BY DEF Verdict
    <3>1. FirstLeakWarning \in Active(Default) /\ ~frames[1].disturbed
      BY <1>6, <2>1
    <3>2. Watched
      BY <1>7, <3>1 DEF LeaksInv
    <3>3. Uses(current, LeakWarning)
      BY <2>1, <3>1, PluginsAssumption DEF Uses
    <3>4. OnlyFirst(current)
      <4>1. ASSUME NEW i \in 1 .. N, Watches(ChainOf(Default)[i]) PROVE ChainOf(Default)[i] = FirstLeakWarning
        <5>1. ChainOf(Default)[i] \in Residents(Default)
          BY ChainType DEF TypeInv, Registries
        <5>2. ChainOf(Default)[i] \in LeakWarning /\ ChainOf(Default)[i] # NULL
          BY <4>1 DEF Watches, TakesPart
        <5>3. Home[ChainOf(Default)[i]] = Default
          BY <5>1, <5>2 DEF Residents
        <5> QED
          BY <5>2, <5>3
      <4> QED
        BY <2>1, <4>1 DEF OnlyFirst
    <3>5. Fails(State(Top.failures), FirstLeakWarning) <=>
            /\ Top.failures = 0
            /\ ~Top.ignore /\ Top.expected # Cardinality({b \in blocks : Top.test \in b.by})
      <4>1. Checked(State(Top.failures)) = {b \in blocks : Top.test \in b.by}
        BY <2>1, <3>2 DEF Checked, State, Watched
      <4> QED
        BY <2>1, <3>2, <4>1 DEF Fails, State, Watched
    <3> QED
      BY <1>3, <1>6, <3>3, <3>4, <3>5
  <2> QED
    BY <1>4, <2>1, <2>2, <2>3 DEF LeaksInv
<1>8. CASE Depth = 2
  <2>1. /\ Depth' = 1 /\ current = Inner /\ Top = frames[2]
        /\ frames'[1] = frames[1] /\ frames[1].registry = Default
    BY <1>5, <1>8 DEF Top, TypeInv, NestingOK
  <2>2. Verdict'
    BY <1>6, <1>8, <2>1 DEF Verdict, LeaksInv
  <2>3. (checking_now' \/ ~NoneChecked(blocks')) => Uses(Default, LeakWarning)
    <3>1. CASE Uses(Inner, LeakWarning)
      BY <1>3, <2>1, <3>1
    <3>2. CASE ~Uses(Inner, LeakWarning)
      <4>1. UNCHANGED <<checking_now, blocks>>
        BY <1>3, <2>1, <3>2
      <4>2. ASSUME NEW i \in 1 .. 2, Uses(frames[i].registry, LeakWarning) PROVE Uses(Default, LeakWarning)
        <5>1. frames[2].registry = Inner /\ (i = 1 \/ i = 2)
          BY <1>5, <2>1
        <5> QED
          BY <2>1, <3>2, <4>2, <5>1
      <4> QED
        BY <1>8, <4>1, <4>2 DEF LeaksInv
    <3> QED
      BY <3>1, <3>2
  <2>4. ASSUME ~frames'[1].disturbed, FirstLeakWarning \in Active(Default)' PROVE Watched'
    <3>1. ~Uses(Inner, LeakWarning)
      BY <1>8, <2>1, <2>4 DEF LeaksInv
    <3>2. Watched
      BY <1>2, <1>8, <2>1, <2>4 DEF LeaksInv, Registries
    <3> QED
      BY <1>3, <2>1, <3>1, <3>2 DEF Watched
  <2>5. frames'[1].test \in 1 .. tests'
    BY <1>1, <1>8, <2>1 DEF LeaksInv
  <2> QED
    BY <1>2, <1>4, <2>1, <2>2, <2>3, <2>4, <2>5 DEF LeaksInv, Registries
<1> QED
  BY <1>5, <1>7, <1>8

LEMMA LeaksBody ==
  ASSUME TypeInv, LeaksInv, Bodies
  PROVE  LeaksInv'
<1>1. UNCHANGED <<chain, tests, ended, checking_now>>
  BY DEF Bodies, FailTest, MakeSetPointerPlugin, Leak, PtrSet, Announce, Step, shared
<1>2. \A q \in Registries : /\ Uses(q, LeakWarning)' <=> Uses(q, LeakWarning)
                            /\ FirstLeakWarning \in Active(q)' <=> FirstLeakWarning \in Active(q)
  BY <1>1, SameWatch
<1>3. /\ Depth' = Depth /\ Depth \in 1 .. 2 /\ \A i \in 1 .. Depth : SameKind(frames[i], frames'[i])
      /\ ~(\E ignore \in BOOLEAN : Announce(1, ignore)) =>
           \A i \in 1 .. Depth : /\ frames'[i].expected = frames[i].expected
                                 /\ frames'[i].ignore = frames[i].ignore
  BY BodyFrames
<1>4. \A i \in 1 .. Depth : /\ frames'[i].registry = frames[i].registry /\ frames[i].registry \in Registries
                            /\ frames'[i].test = frames[i].test /\ frames'[i].disturbed = frames[i].disturbed
  BY <1>3, FramesType DEF SameKind, FrameType
<1>5. 1 \in 1 .. Depth
  BY <1>3
<1> DEFINE Owns == \A b \in blocks : b.checking <=> frames[1].test \in b.by
<1>6. /\ Counted(blocks')
      /\ ~NoneChecked(blocks') => checking_now \/ ~NoneChecked(blocks)
      /\ (checking_now /\ Owns) => \A b \in blocks' : b.checking <=> frames'[1].test \in b.by
  <2>1. CASE Leak
    <3> DEFINE d == [number |-> Cardinality(blocks), by |-> {frames[i].test : i \in DOMAIN frames},
                     checking |-> checking_now, charges |-> 0]
    <3>1. blocks' = blocks \cup {d}
      BY <2>1 DEF Leak
    <3>2. DOMAIN frames = 1 .. Depth
      BY DEF Depth, TypeInv, TypeOK
    <3>3. d.by \subseteq 1 .. tests /\ frames[1].test \in d.by
      BY <1>5, <3>2 DEF LeaksInv
    <3>4. d.checking = checking_now /\ d.charges = 0
      OBVIOUS
    <3> HIDE DEF d
    <3>5. Counted(blocks')
      BY <3>1, <3>3, <3>4 DEF Counted, LeaksInv
    <3>6. ~NoneChecked(blocks') => checking_now \/ ~NoneChecked(blocks)
      BY <3>1, <3>4 DEF NoneChecked
    <3>7. (checking_now /\ Owns) => \A b \in blocks' : b.checking <=> frames'[1].test \in b.by
      BY <1>4, <1>5, <3>1, <3>3, <3>4
    <3> QED
      BY <3>5, <3>6, <3>7
  <2>2. CASE ~Leak
    <3>1. blocks' = blocks
      BY <2>2 DEF Bodies, FailTest, MakeSetPointerPlugin, PtrSet, Announce, shared
    <3> QED
      BY <1>4, <1>5, <3>1 DEF LeaksInv
  <2> QED
    BY <2>1, <2>2
<1>7. ASSUME Watched PROVE Watched'
  <2> DEFINE F == FirstLeakWarning
  <2>1. /\ leak'[F].ignore = frames'[1].ignore /\ leak'[F].expected = frames'[1].expected
        /\ leak'[F].failureCount = 0
    <3>1. CASE \E ignore \in BOOLEAN : Announce(1, ignore)
      <4>1. PICK ignore \in BOOLEAN : Announce(1, ignore)
        BY <3>1
      <4> DEFINE u == Stepped(Top)
                 e == IF ignore THEN u[1].expected ELSE 1
                 g == u[1].ignore \/ ignore
      <4>2. /\ frames' = [u EXCEPT ![1] = [@ EXCEPT !.expected = e, !.ignore = g]]
            /\ leak' = IF ignore THEN [leak EXCEPT ![F].ignore = TRUE] ELSE [leak EXCEPT ![F].expected = 1]
            /\ ~Idle
        BY <4>1 DEF Announce, InBody
      <4>3. u = frames
        BY DEF Stepped, Top, TypeInv, TypeOK
      <4> HIDE DEF u
      <4>4. frames \in Seq(FrameType) /\ 1 \in DOMAIN frames /\ frames[1] \in FrameType
        BY <1>5, FramesType DEF TypeInv, TypeOK, Depth
      <4>5. frames'[1].expected = e /\ frames'[1].ignore = g
        BY <4>2, <4>3, <4>4 DEF FrameType
      <4>6. leak \in [LeakWarning -> MemType] /\ F \in LeakWarning
        BY PluginsAssumption DEF TypeInv, TypeOK
      <4>7. /\ leak'[F].ignore = IF ignore THEN TRUE ELSE leak[F].ignore
            /\ leak'[F].expected = IF ignore THEN leak[F].expected ELSE 1
            /\ leak'[F].failureCount = leak[F].failureCount
        BY <4>2, <4>6 DEF MemType
      <4>8. frames[1].ignore \in BOOLEAN
        BY <4>4 DEF FrameType
      <4> QED
        BY <1>7, <4>3, <4>5, <4>7, <4>8 DEF Watched
    <3>2. CASE ~(\E ignore \in BOOLEAN : Announce(1, ignore))
      <4>1. leak' = leak
        BY <3>2 DEF Bodies, FailTest, MakeSetPointerPlugin, PtrSet, Leak, shared
      <4> QED
        BY <1>3, <1>5, <1>7, <3>2, <4>1 DEF Watched
    <3> QED
      BY <3>1, <3>2
  <2> QED
    BY <1>1, <1>6, <1>7, <2>1 DEF Watched
<1> HIDE DEF Owns
<1>8. (checking_now' \/ ~NoneChecked(blocks')) => \E i \in 1 .. Depth : Uses(frames[i].registry, LeakWarning)'
  BY <1>1, <1>2, <1>4, <1>6 DEF LeaksInv
<1>9. (Depth \in 1 .. 2 /\ ~frames'[1].disturbed /\ FirstLeakWarning \in Active(Default)') => Watched'
  BY <1>2, <1>4, <1>5, <1>7 DEF LeaksInv, Registries
<1>10. (Depth = 2 /\ ~frames'[1].disturbed) => ~Uses(Inner, LeakWarning)'
  BY <1>2, <1>4, <1>5 DEF LeaksInv, Registries
<1>11. /\ \A i \in 1 .. Depth : frames'[i].test \in 1 .. tests
       /\ Depth = 2 => frames'[2].disturbed
  <2>1. Depth = 2 => 2 \in 1 .. Depth
    OBVIOUS
  <2> QED
    BY <1>4, <2>1 DEF LeaksInv
<1>12. Verdict' /\ Counted(blocks)'
  BY <1>1, <1>6 DEF LeaksInv, Verdict, Counted
<1> QED
  BY <1>1, <1>3, <1>8, <1>9, <1>10, <1>11, <1>12 DEF LeaksInv

LEMMA LeaksNext ==
  ASSUME TypeInv, LeaksInv, [Next]_vars,
         \A p \in LeakWarning : Home[p] = Default => p = FirstLeakWarning
  PROVE  LeaksInv'
<1>1. CASE StartTest \/ StartNested
  BY <1>1, EnterCases, LeaksStart
<1>2. CASE Bodies
  BY <1>2, LeaksBody
<1>3. CASE EndTest
  BY <1>3, LeaksEnd
<1>4. CASE Chains \/ Offers
  <2>1. Idle /\ UNCHANGED <<frames, checking_now, blocks, tests, ended>>
    BY <1>4 DEF Chains, Offers, InstallPlugin, RemovePlugin, Enable, OfferComparator, Change,
                UnchangedByChain, shared
  <2>2. Depth = 0 /\ Depth' = 0
    BY <2>1 DEF Idle, Depth
  <2> QED
    BY <2>1, <2>2 DEF LeaksInv, Counted, Verdict
<1>5. CASE UNCHANGED vars
  <2>1. UNCHANGED <<chain, frames, checking_now, blocks, leak, tests, ended>>
    BY <1>5 DEF vars, shared, history
  <2>2. \A q \in Registries : /\ Uses(q, LeakWarning)' <=> Uses(q, LeakWarning)
                              /\ FirstLeakWarning \in Active(q)' <=> FirstLeakWarning \in Active(q)
    BY <2>1, SameWatch
  <2>3. Depth' = Depth /\ \A i \in 1 .. Depth : frames'[i] = frames[i] /\ frames[i].registry \in Registries
    BY <2>1, FramesType DEF Depth, FrameType
  <2>4. (checking_now' \/ ~NoneChecked(blocks')) => \E i \in 1 .. Depth' : Uses(frames[i].registry, LeakWarning)'
    BY <2>1, <2>2, <2>3 DEF LeaksInv
  <2>5. Watched' <=> Watched
    BY <2>1 DEF Watched
  <2>6. Verdict' /\ Counted(blocks)'
    BY <2>1 DEF LeaksInv, Verdict, Counted
  <2> QED
    BY <2>1, <2>2, <2>3, <2>4, <2>5, <2>6 DEF LeaksInv, Registries
<1> QED
  BY <1>1, <1>2, <1>3, <1>4, <1>5, Actions

(* With one leak plugin for the registry of the program, a test is failed  *)
(* for its leaks exactly if it had not failed before and what it leaked,   *)
(* tests inside it included, is not what it announced                      *)
(* (MemoryLeakWarningPlugin.h), unless a leak plugin stood around a test   *)
(* inside it; and no block is ever charged twice.                          *)
THEOREM LeaksToTheirTestAlways ==
  ASSUME \A p \in LeakWarning : Home[p] = Default => p = FirstLeakWarning
  PROVE  Spec => []LeaksToTheirTest
<1>1. Init => LeaksInv
  <2> SUFFICES ASSUME Init PROVE LeaksInv
    OBVIOUS
  <2>1. checking_now = FALSE /\ blocks = {} /\ frames = <<>> /\ ended = NoneEnded
    BY DEF Init
  <2>2. Depth = 0
    BY <2>1 DEF Depth
  <2> QED
    BY <2>1, <2>2 DEF LeaksInv, Counted, NoneChecked, Verdict, NoneEnded
<1>2. TypeInv /\ LeaksInv /\ [Next]_vars => LeaksInv'
  BY LeaksNext
<1>3. LeaksInv => LeaksToTheirTest
  BY DEF LeaksInv, Counted, Verdict, LeaksToTheirTest
<1> QED
  BY <1>1, <1>2, <1>3, TypesHold, PTL DEF Spec

================================================================================
