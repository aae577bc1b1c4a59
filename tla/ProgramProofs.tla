----------------------------- MODULE ProgramProofs -----------------------------
(***************************************************************************)
(* A test program, for any number of tests, levels, options and outcomes:  *)
(* the list that its run follows is the list of the tests that were        *)
(* installed, its exit status is honest, and its JUnit reports are true.   *)
(***************************************************************************)
EXTENDS Program, TLAPS, FiniteSetTheorems, FunctionTheorems, SequenceTheorems, WellFoundedInduction

-------------------------------------------------------------------------------
(* Chains of pointers *)

Entry(s, i) == IF i \in 1 .. Len(s) THEN s[i] ELSE NIL

OneToOne(s) == \A i, j \in 1 .. Len(s) : s[i] = s[j] => i = j

(* The pointers f lead from p along s, and end there.                      *)
Links(f, p, s) ==
  /\ s \in Seq(Tests) /\ OneToOne(s)
  /\ p = Entry(s, 1)
  /\ \A i \in 1 .. Len(s) : f[s[i]] = Entry(s, i + 1)

Walks(f, p, h) ==
  h = [k \in Nat |-> IF k = 0 THEN p ELSE IF h[k - 1] = NIL THEN NIL ELSE f[h[k - 1]]]

LEMMA Least ==
  ASSUME NEW S \in SUBSET Nat, S # {}
  PROVE  Min(S) \in S /\ \A s \in S : Min(S) <= s
<1>1. PICK m \in S : \A s \in S : <<s, m>> \notin OpToRel(<, Nat)
  BY NatLessThanWellFounded, WFMin
<1>2. \A s \in S : ~ (s < m)
  BY <1>1 DEF OpToRel
<1>3. \A s \in S : m <= s
  BY <1>2
<1> QED
  BY <1>3 DEF Min

LEMMA UpToCardinality ==
  ASSUME NEW n \in Nat
  PROVE  IsFiniteSet(1 .. n) /\ Cardinality(1 .. n) = n
BY FS_Interval

LEMMA ReachedWalks ==
  ASSUME NEW f, NEW p, NEW h, Walks(f, p, h)
  PROVE  Walks(f, p, Reached(f, p))
<1> DEFINE r == CHOOSE at : Walks(f, p, at)
<1>1. Walks(f, p, r)
  OBVIOUS
<1>2. Reached(f, p) = r
  BY DEF Reached, Walks
<1> QED
  BY <1>1, <1>2

LEMMA ReachedIsEntry ==
  ASSUME NEW f, NEW p, NEW s, Links(f, p, s)
  PROVE  \A k \in Nat : Reached(f, p)[k] = Entry(s, k + 1)
<1> DEFINE w == [k \in Nat |-> Entry(s, k + 1)]
           r == Reached(f, p)
           S == {k \in Nat : r[k] # w[k]}
<1>1. ASSUME NEW k \in Nat, k # 0
      PROVE  Entry(s, k + 1) = IF Entry(s, k) = NIL THEN NIL ELSE f[Entry(s, k)]
  <2>1. s \in Seq(Tests) /\ Len(s) \in Nat
    BY DEF Links
  <2>2. CASE k \in 1 .. Len(s)
    <3>1. s[k] \in Tests
      BY <2>1, <2>2
    <3> QED
      BY <2>2, <3>1, RegistryAssumption DEF Entry, Links
  <2>3. CASE k \notin 1 .. Len(s)
    BY <1>1, <2>1, <2>3 DEF Entry
  <2> QED
    BY <2>2, <2>3
<1>2. Walks(f, p, w)
  <2>1. \A k \in Nat : w[k] = Entry(s, k + 1)
    OBVIOUS
  <2>2. ASSUME NEW k \in Nat
        PROVE  Entry(s, k + 1) = IF k = 0 THEN p ELSE IF w[k - 1] = NIL THEN NIL ELSE f[w[k - 1]]
    <3>1. CASE k = 0
      BY <3>1 DEF Links
    <3>2. CASE k # 0
      <4>1. k - 1 \in Nat /\ (k - 1) + 1 = k
        BY <3>2
      <4>2. w[k - 1] = Entry(s, k)
        BY <4>1, <2>1
      <4> HIDE DEF w
      <4> QED
        BY <3>2, <4>2, <1>1
    <3> QED
      BY <3>1, <3>2
  <2> QED
    BY <2>2 DEF Walks
<1>3. Walks(f, p, r)
  BY <1>2, ReachedWalks
<1>4. ASSUME S # {} PROVE FALSE
  <2>1. Min(S) \in S /\ \A k \in S : Min(S) <= k
    BY <1>4, Least
  <2> DEFINE k == Min(S)
  <2>2. k \in Nat /\ r[k] # w[k]
    BY <2>1
  <2>3. r[k] = IF k = 0 THEN p ELSE IF r[k - 1] = NIL THEN NIL ELSE f[r[k - 1]]
    BY <1>3, <2>2 DEF Walks
  <2>4. w[k] = IF k = 0 THEN p ELSE IF w[k - 1] = NIL THEN NIL ELSE f[w[k - 1]]
    BY <1>2, <2>2 DEF Walks
  <2>5. k # 0 => r[k - 1] = w[k - 1]
    <3> HAVE k # 0
    <3>1. k - 1 \in Nat /\ ~ (k <= k - 1)
      BY <2>2
    <3> QED
      BY <3>1, <2>1
  <2> QED
    BY <2>2, <2>3, <2>4, <2>5
<1> QED
  BY <1>4

LEMMA ChainIs ==
  ASSUME NEW f, NEW p, NEW s, Links(f, p, s)
  PROVE  Chain(f, p) = s
<1> DEFINE N == Cardinality(Tests)
           most == [k \in 1 .. N |-> Reached(f, p)[k - 1]]
<1>1. s \in Seq(Tests) /\ Len(s) \in Nat
  BY DEF Links
<1>2. N \in Nat /\ Len(s) <= N
  <2>1. s \in Injection(1 .. Len(s), Tests)
    <3>1. s \in [1 .. Len(s) -> Tests]
      BY <1>1
    <3> QED
      BY <3>1 DEF Injection, IsInjective, Links, OneToOne
  <2>2. IsFiniteSet(Tests)
    BY RegistryAssumption
  <2>3. Cardinality(1 .. Len(s)) <= N
    BY <2>1, <2>2, FS_Injection
  <2> QED
    BY <1>1, <2>2, <2>3, FS_Interval, FS_CardinalityType
<1>3. \A k \in 1 .. N : most[k] = Entry(s, k)
  <2> TAKE k \in 1 .. N
  <2>1. k - 1 \in Nat /\ (k - 1) + 1 = k
    BY <1>2
  <2> QED
    BY <2>1, ReachedIsEntry
<1>4. {k \in DOMAIN most : most[k] # NIL} = 1 .. Len(s)
  <2>1. \A k \in 1 .. Len(s) : s[k] \in Tests /\ s[k] # NIL
    BY <1>1, RegistryAssumption
  <2>2. 1 .. Len(s) \subseteq 1 .. N
    BY <1>1, <1>2
  <2>3. DOMAIN most = 1 .. N
    OBVIOUS
  <2> HIDE DEF most
  <2>4. ASSUME NEW k \in 1 .. Len(s) PROVE k \in DOMAIN most /\ most[k] # NIL
    BY <1>3, <2>1, <2>2, <2>3 DEF Entry
  <2>5. ASSUME NEW k \in DOMAIN most, most[k] # NIL PROVE k \in 1 .. Len(s)
    BY <1>3, <2>3, <2>5 DEF Entry
  <2> QED
    BY <2>4, <2>5
<1>5. Cardinality(1 .. Len(s)) = Len(s)
  BY <1>1, UpToCardinality
<1>6. SubSeq(most, 1, Len(s)) = s
  <2>1. \A k \in 1 .. Len(s) : k \in 1 .. N /\ most[k] = s[k]
    BY <1>1, <1>2, <1>3 DEF Entry
  <2>2. SubSeq(most, 1, Len(s)) = [k \in 1 .. Len(s) |-> most[k]]
    BY <1>1, <1>2
  <2>3. s = [k \in 1 .. Len(s) |-> s[k]]
    BY <1>1
  <2> HIDE DEF most
  <2> QED
    BY <2>1, <2>2, <2>3
<1> QED
  BY <1>4, <1>5, <1>6 DEF Chain

-------------------------------------------------------------------------------
(* The list while tests are installed *)

(* s is the list, of which the first m tests are plain and the others are  *)
(* the chain of the ordered tests.                                         *)
IsList(s) ==
  /\ Links(next, tests_head, s)
  /\ ToSet(s) = ToSet(installed) /\ Len(s) = Len(installed)

Parts(s, m) ==
  /\ m \in 0 .. Len(s)
  /\ \A i \in 1 .. Len(s) : level[s[i]] = Plain <=> i <= m
  /\ orderedTestHead = Entry(s, m + 1)
  /\ \A i \in m + 1 .. Len(s) : nextOrderedTest[s[i]] = next[s[i]]

Sorted(s) == \A i, j \in 1 .. Len(s) : i < j => InOrder(s[i], s[j])

ListInv ==
  /\ TypeOK /\ OneToOne(installed)
  /\ \A x \in Tests \ ToSet(installed) : level[x] = Plain
  /\ status = "installing" => \E s \in Seq(Tests), m \in Nat : IsList(s) /\ Parts(s, m) /\ Sorted(s)
  /\ status = "running" => \E s \in Seq(Tests) : IsList(s)

(* x at place q + 1 of s.                                                  *)
Inserted(s, q, x) ==
  [i \in 1 .. Len(s) + 1 |-> IF i <= q THEN s[i] ELSE IF i = q + 1 THEN x ELSE s[i - 1]]

(* Where the entries of s are in it.                                       *)
Moved(q, i) == IF i <= q THEN i ELSE i + 1

IsInserted(u, s, q, x) ==
  /\ u \in Seq(Tests) /\ Len(u) = Len(s) + 1 /\ u[q + 1] = x
  /\ \A i \in 1 .. Len(s) :
       Moved(q, i) \in 1 .. Len(s) + 1 /\ Moved(q, i) # q + 1 /\ u[Moved(q, i)] = s[i]
  /\ \A k \in 1 .. Len(s) + 1 : k # q + 1 => \E i \in 1 .. Len(s) : k = Moved(q, i)

LEMMA InsertedEntries ==
  ASSUME NEW s \in Seq(Tests), NEW q \in 0 .. Len(s), NEW x \in Tests
  PROVE  IsInserted(Inserted(s, q, x), s, q, x)
<1>1. Len(s) \in Nat /\ q \in Nat /\ q <= Len(s)
  OBVIOUS
<1>2. \A k \in 1 .. Len(s) + 1 : Inserted(s, q, x)[k] \in Tests
  <2> TAKE k \in 1 .. Len(s) + 1
  <2>1. CASE k <= q
    BY <1>1, <2>1 DEF Inserted
  <2>2. CASE k = q + 1
    BY <1>1, <2>2 DEF Inserted
  <2>3. CASE k > q + 1
    <3>1. k - 1 \in 1 .. Len(s)
      BY <1>1, <2>3
    <3> QED
      BY <1>1, <2>3, <3>1 DEF Inserted
  <2> QED
    BY <1>1, <2>1, <2>2, <2>3
<1>3. Inserted(s, q, x) \in [1 .. Len(s) + 1 -> Tests]
  BY <1>2 DEF Inserted
<1>4. Inserted(s, q, x) \in Seq(Tests) /\ Len(Inserted(s, q, x)) = Len(s) + 1
  BY <1>1, <1>3
<1>5. Inserted(s, q, x)[q + 1] = x
  BY <1>1 DEF Inserted
<1>6. ASSUME NEW i \in 1 .. Len(s)
      PROVE  /\ Moved(q, i) \in 1 .. Len(s) + 1 /\ Moved(q, i) # q + 1
             /\ Inserted(s, q, x)[Moved(q, i)] = s[i]
  <2>1. CASE i <= q
    BY <1>1, <2>1 DEF Inserted, Moved
  <2>2. CASE i > q
    <3>1. Moved(q, i) = i + 1
      BY <1>1, <2>2 DEF Moved
    <3>2. i + 1 \in 1 .. Len(s) + 1 /\ ~ (i + 1 <= q) /\ i + 1 # q + 1 /\ (i + 1) - 1 = i
      BY <1>1, <2>2
    <3> QED
      BY <3>1, <3>2 DEF Inserted
  <2> QED
    BY <1>1, <2>1, <2>2
<1>7. ASSUME NEW k \in 1 .. Len(s) + 1, k # q + 1
      PROVE  \E i \in 1 .. Len(s) : k = Moved(q, i)
  <2>1. CASE k <= q
    BY <1>1, <2>1 DEF Moved
  <2>2. CASE k > q
    <3>1. k - 1 \in 1 .. Len(s) /\ k = Moved(q, k - 1)
      BY <1>1, <1>7, <2>2 DEF Moved
    <3> QED
      BY <3>1
  <2> QED
    BY <1>1, <2>1, <2>2
<1> QED
  BY <1>4, <1>5, <1>6, <1>7 DEF IsInserted

LEMMA InsertedOnce ==
  ASSUME NEW s \in Seq(Tests), NEW q \in 0 .. Len(s), NEW x \in Tests \ ToSet(s), OneToOne(s)
  PROVE  /\ OneToOne(Inserted(s, q, x))
         /\ ToSet(Inserted(s, q, x)) = ToSet(s) \cup {x}
<1> DEFINE u == Inserted(s, q, x)
<1>1. /\ u \in Seq(Tests) /\ Len(u) = Len(s) + 1 /\ u[q + 1] = x
      /\ \A i \in 1 .. Len(s) :
           Moved(q, i) \in 1 .. Len(s) + 1 /\ Moved(q, i) # q + 1 /\ u[Moved(q, i)] = s[i]
      /\ \A k \in 1 .. Len(s) + 1 : k # q + 1 => \E i \in 1 .. Len(s) : k = Moved(q, i)
  BY InsertedEntries DEF IsInserted
<1>2. \A i \in 1 .. Len(s) : s[i] # x
  BY DEF ToSet
<1> HIDE DEF u
<1>3. ASSUME NEW k \in 1 .. Len(u), NEW l \in 1 .. Len(u), u[k] = u[l]
      PROVE  k = l
  <2>1. CASE k # q + 1 /\ l # q + 1
    <3>1. PICK i \in 1 .. Len(s), j \in 1 .. Len(s) : k = Moved(q, i) /\ l = Moved(q, j)
      BY <1>1, <2>1
    <3>2. s[i] = s[j]
      BY <1>1, <1>3, <3>1
    <3>3. i = j
      BY <3>2 DEF OneToOne
    <3> QED
      BY <3>1, <3>3
  <2>2. CASE k = q + 1 /\ l # q + 1
    <3>1. PICK j \in 1 .. Len(s) : l = Moved(q, j)
      BY <1>1, <2>2
    <3> QED
      BY <1>1, <1>2, <1>3, <2>2, <3>1
  <2>3. CASE k # q + 1 /\ l = q + 1
    <3>1. PICK i \in 1 .. Len(s) : k = Moved(q, i)
      BY <1>1, <2>3
    <3> QED
      BY <1>1, <1>2, <1>3, <2>3, <3>1
  <2> QED
    BY <2>1, <2>2, <2>3
<1>4. ToSet(u) = {u[k] : k \in 1 .. Len(u)} /\ ToSet(s) = {s[i] : i \in 1 .. Len(s)}
  BY <1>1 DEF ToSet
<1>5. ASSUME NEW y \in ToSet(u) PROVE y \in ToSet(s) \cup {x}
  <2>1. PICK k \in 1 .. Len(s) + 1 : y = u[k]
    BY <1>1, <1>4
  <2>2. CASE k # q + 1
    <3>1. PICK i \in 1 .. Len(s) : k = Moved(q, i)
      BY <1>1, <2>2
    <3> QED
      BY <1>1, <1>4, <2>1, <3>1
  <2> QED
    BY <1>1, <2>1, <2>2
<1>6. ASSUME NEW y \in ToSet(s) \cup {x} PROVE y \in ToSet(u)
  <2>1. CASE y = x
    <3>1. q + 1 \in 1 .. Len(u)
      BY <1>1
    <3> QED
      BY <1>1, <1>4, <2>1, <3>1
  <2>2. CASE y \in ToSet(s)
    <3>1. PICK i \in 1 .. Len(s) : y = s[i]
      BY <1>4, <2>2
    <3> QED
      BY <1>1, <1>4, <3>1
  <2> QED
    BY <2>1, <2>2
<1> QED
  BY <1>3, <1>5, <1>6 DEF OneToOne, u

(* The pointers after x is threaded in behind the q-th.                    *)
LEMMA InsertedLinks ==
  ASSUME NEW f, NEW p, NEW s, Links(f, p, s), NEW q \in 0 .. Len(s), NEW x \in Tests \ ToSet(s),
         NEW g, NEW r, r = IF q = 0 THEN x ELSE p,
         g[x] = Entry(s, q + 1),
         q # 0 => g[s[q]] = x,
         \A i \in 1 .. Len(s) : i # q => g[s[i]] = f[s[i]]
  PROVE  Links(g, r, Inserted(s, q, x))
<1> DEFINE u == Inserted(s, q, x)
<1>0. s \in Seq(Tests) /\ OneToOne(s) /\ Len(s) \in Nat /\ q \in Nat /\ q <= Len(s)
  BY DEF Links
<1>1. /\ u \in Seq(Tests) /\ Len(u) = Len(s) + 1 /\ u[q + 1] = x
      /\ \A i \in 1 .. Len(s) :
           Moved(q, i) \in 1 .. Len(s) + 1 /\ Moved(q, i) # q + 1 /\ u[Moved(q, i)] = s[i]
      /\ \A k \in 1 .. Len(s) + 1 : k # q + 1 => \E i \in 1 .. Len(s) : k = Moved(q, i)
  BY <1>0, InsertedEntries DEF IsInserted
<1>2. OneToOne(u)
  BY <1>0, InsertedOnce
<1> HIDE DEF u
<1>3. r = Entry(u, 1)
  <2>1. CASE q = 0
    BY <1>0, <1>1, <2>1 DEF Entry
  <2>2. CASE q # 0
    <3>1. Moved(q, 1) = 1 /\ 1 \in 1 .. Len(s)
      BY <1>0, <2>2 DEF Moved
    <3>2. u[1] = s[1]
      BY <1>1, <3>1
    <3>3. 1 \in 1 .. Len(u)
      BY <1>0, <1>1
    <3> QED
      BY <2>2, <3>1, <3>2, <3>3 DEF Entry, Links
  <2> QED
    BY <2>1, <2>2
<1>4. ASSUME NEW i \in 1 .. Len(s) + 1
      PROVE  Entry(s, i) = Entry(u, i + 1) \/ i <= q
  <2>1. CASE i > q /\ i <= Len(s)
    <3>1. Moved(q, i) = i + 1 /\ i \in 1 .. Len(s) /\ i + 1 \in 1 .. Len(u)
      BY <1>0, <1>1, <2>1 DEF Moved
    <3>2. u[i + 1] = s[i]
      BY <1>1, <3>1
    <3> QED
      BY <3>1, <3>2 DEF Entry
  <2>2. CASE i > q /\ i > Len(s)
    BY <1>0, <1>1, <2>2 DEF Entry
  <2> QED
    BY <1>0, <2>1, <2>2
<1>5. ASSUME NEW k \in 1 .. Len(u)
      PROVE  g[u[k]] = Entry(u, k + 1)
  <2>1. CASE k = q + 1
    <3>1. q + 1 \in 1 .. Len(s) + 1 /\ ~ (q + 1 <= q)
      BY <1>0
    <3>2. Entry(s, q + 1) = Entry(u, q + 2)
      BY <1>0, <3>1, <1>4
    <3> QED
      BY <1>0, <1>1, <2>1, <3>2
  <2>2. CASE k # q + 1
    <3>1. PICK i \in 1 .. Len(s) : k = Moved(q, i)
      BY <1>1, <2>2
    <3>2. u[k] = s[i] /\ f[s[i]] = Entry(s, i + 1)
      BY <1>1, <3>1 DEF Links
    <3>3. CASE i < q
      <4>1. Moved(q, i + 1) = i + 1 /\ i + 1 \in 1 .. Len(s) /\ k = i
        BY <1>0, <3>1, <3>3 DEF Moved
      <4>2. u[i + 1] = s[i + 1]
        BY <1>1, <4>1
      <4>3. i + 1 \in 1 .. Len(u) /\ i # q
        BY <1>0, <1>1, <3>3, <4>1
      <4>4. g[s[i]] = f[s[i]]
        BY <4>3
      <4> QED
        BY <3>2, <4>1, <4>2, <4>3, <4>4 DEF Entry
    <3>4. CASE i = q
      <4>1. k = q /\ q + 1 \in 1 .. Len(u)
        BY <1>0, <1>1, <3>1, <3>4 DEF Moved
      <4> QED
        BY <1>0, <1>1, <3>2, <3>4, <4>1 DEF Entry
    <3>5. CASE i > q
      <4>1. k = i + 1 /\ i + 1 \in 1 .. Len(s) + 1 /\ ~ (i + 1 <= q) /\ i # q
        BY <1>0, <3>1, <3>5 DEF Moved
      <4>2. Entry(s, i + 1) = Entry(u, (i + 1) + 1)
        BY <4>1, <1>4
      <4>3. g[s[i]] = f[s[i]]
        BY <4>1
      <4> QED
        BY <3>2, <4>1, <4>2, <4>3
    <3> QED
      BY <1>0, <3>3, <3>4, <3>5
  <2> QED
    BY <2>1, <2>2
<1>6. Links(g, r, u)
  BY <1>1, <1>2, <1>3, <1>5 DEF Links
<1> QED
  BY <1>6 DEF u

-------------------------------------------------------------------------------
(* The order of installing *)

PlaceIn(s, x) == CHOOSE i \in DOMAIN s : s[i] = x

LEMMA PlaceIs ==
  ASSUME NEW s \in Seq(Tests), OneToOne(s), NEW i \in 1 .. Len(s)
  PROVE  PlaceIn(s, s[i]) = i
<1>1. DOMAIN s = 1 .. Len(s)
  OBVIOUS
<1>2. \A j \in DOMAIN s : s[j] = s[i] => j = i
  BY <1>1 DEF OneToOne
<1> QED
  BY <1>1, <1>2 DEF PlaceIn

LEMMA Appended ==
  ASSUME NEW s \in Seq(Tests), OneToOne(s), NEW x \in Tests \ ToSet(s)
  PROVE  /\ Append(s, x) \in Seq(Tests) /\ OneToOne(Append(s, x)) /\ Len(Append(s, x)) = Len(s) + 1
         /\ ToSet(Append(s, x)) = ToSet(s) \cup {x}
         /\ PlaceIn(Append(s, x), x) = Len(s) + 1
         /\ \A y \in ToSet(s) : PlaceIn(Append(s, x), y) = PlaceIn(s, y) /\ PlaceIn(s, y) \in 1 .. Len(s)
<1> DEFINE u == Append(s, x)
<1>1. u \in Seq(Tests) /\ Len(u) = Len(s) + 1 /\ Len(s) \in Nat
  OBVIOUS
<1>2. u[Len(s) + 1] = x /\ \A i \in 1 .. Len(s) : u[i] = s[i]
  OBVIOUS
<1>3. ToSet(s) = {s[i] : i \in 1 .. Len(s)} /\ ToSet(u) = {u[i] : i \in 1 .. Len(u)}
  BY <1>1 DEF ToSet
<1>4. \A i \in 1 .. Len(s) : s[i] # x
  BY <1>3
<1> HIDE DEF u
<1>5. \A i \in 1 .. Len(u) : i \in 1 .. Len(s) \/ i = Len(s) + 1
  BY <1>1
<1>6. OneToOne(u)
  <2> SUFFICES ASSUME NEW i \in 1 .. Len(u), NEW j \in 1 .. Len(u), u[i] = u[j] PROVE i = j
    BY DEF OneToOne
  <2> QED
    BY <1>2, <1>4, <1>5 DEF OneToOne
<1>7. ToSet(u) = ToSet(s) \cup {x}
  <2>1. ToSet(u) \subseteq ToSet(s) \cup {x}
    BY <1>2, <1>3, <1>5
  <2>2. 1 .. Len(s) \subseteq 1 .. Len(u) /\ Len(s) + 1 \in 1 .. Len(u)
    BY <1>1
  <2>3. ToSet(s) \subseteq ToSet(u) /\ x \in ToSet(u)
    BY <1>2, <1>3, <2>2
  <2> QED
    BY <2>1, <2>3
<1>8. PlaceIn(u, x) = Len(s) + 1
  <2>1. Len(s) + 1 \in 1 .. Len(u)
    BY <1>1
  <2> QED
    BY <1>1, <1>2, <1>6, <2>1, PlaceIs
<1>9. ASSUME NEW y \in ToSet(s)
      PROVE  PlaceIn(u, y) = PlaceIn(s, y) /\ PlaceIn(s, y) \in 1 .. Len(s)
  <2>1. PICK i \in 1 .. Len(s) : s[i] = y
    BY <1>3
  <2>2. PlaceIn(s, y) = i
    BY <2>1, PlaceIs
  <2>3. i \in 1 .. Len(u) /\ u[i] = y
    BY <1>1, <1>2, <2>1
  <2>4. PlaceIn(u, y) = i
    BY <1>1, <1>6, <2>3, PlaceIs
  <2> QED
    BY <2>2, <2>4
<1> QED
  BY <1>1, <1>6, <1>7, <1>8, <1>9 DEF u

LEMMA Fronts ==
  ASSUME NEW s \in Seq(Tests), OneToOne(s), s # <<>>
  PROVE  /\ Front(s) \in Seq(Tests) /\ OneToOne(Front(s)) /\ Len(Front(s)) = Len(s) - 1
         /\ ToSet(Front(s)) = ToSet(s) \ {Last(s)} /\ Last(s) \in ToSet(s)
         /\ \A y \in ToSet(Front(s)) : PlaceIn(Front(s), y) = PlaceIn(s, y)
<1> DEFINE u == Front(s)
<1>1. Len(s) \in Nat /\ Len(s) # 0 /\ Last(s) = s[Len(s)]
  BY DEF Last
<1>2. /\ u \in Seq(Tests) /\ Len(u) = Len(s) - 1
      /\ \A i \in 1 .. Len(s) - 1 : u[i] = s[i]
  <2>1. u = SubSeq(s, 1, Len(s) - 1) /\ \A i \in 1 .. Len(s) - 1 : s[i] \in Tests
    BY <1>1 DEF Front
  <2> HIDE DEF u
  <2>2. u \in Seq(Tests) /\ Len(u) = IF 1 <= Len(s) - 1 THEN (Len(s) - 1) - 1 + 1 ELSE 0
    BY <1>1, <2>1, SubSeqProperties
  <2>3. \A i \in 1 .. (Len(s) - 1) - 1 + 1 : u[i] = s[1 + i - 1]
    BY <1>1, <2>1, SubSeqProperties
  <2>4. ASSUME NEW i \in 1 .. Len(s) - 1 PROVE u[i] = s[i]
    <3>1. i \in 1 .. (Len(s) - 1) - 1 + 1 /\ 1 + i - 1 = i
      BY <1>1
    <3>2. u[i] = s[1 + i - 1]
      BY <2>3, <3>1
    <3> QED
      BY <3>1, <3>2
  <2>5. Len(u) = Len(s) - 1
    <3> DEFINE n == Len(s) - 1
    <3>1. n \in Nat
      BY <1>1
    <3>2. Len(u) = IF 1 <= n THEN n - 1 + 1 ELSE 0
      BY <2>2
    <3> HIDE DEF n
    <3>3. Len(u) = n
      BY <3>1, <3>2
    <3> QED
      BY <3>3 DEF n
  <2> QED
    BY <2>2, <2>4, <2>5
<1>3. ToSet(s) = {s[i] : i \in 1 .. Len(s)} /\ ToSet(u) = {u[i] : i \in 1 .. Len(u)}
  BY <1>2 DEF ToSet
<1> HIDE DEF u
<1>4. OneToOne(u)
  BY <1>1, <1>2 DEF OneToOne
<1>5. \A i \in 1 .. Len(s) - 1 : i \in 1 .. Len(s) /\ s[i] # s[Len(s)]
  BY <1>1 DEF OneToOne
<1>6. \A i \in 1 .. Len(s) : i = Len(s) \/ i \in 1 .. Len(s) - 1
  BY <1>1
<1>7. ToSet(u) = ToSet(s) \ {Last(s)}
  <2>1. ToSet(u) \subseteq ToSet(s) \ {Last(s)}
    BY <1>1, <1>2, <1>3, <1>5
  <2>2. ToSet(s) \ {Last(s)} \subseteq ToSet(u)
    BY <1>1, <1>2, <1>3, <1>6
  <2> QED
    BY <2>1, <2>2
<1>8. Last(s) \in ToSet(s)
  BY <1>1, <1>3
<1>9. ASSUME NEW y \in ToSet(u) PROVE PlaceIn(u, y) = PlaceIn(s, y)
  <2>1. PICK i \in 1 .. Len(u) : u[i] = y
    BY <1>3
  <2>2. i \in 1 .. Len(s) /\ s[i] = y
    BY <1>2, <1>5, <2>1
  <2>3. PlaceIn(u, y) = i
    BY <1>2, <1>4, <2>1, PlaceIs
  <2>4. PlaceIn(s, y) = i
    BY <2>2, PlaceIs
  <2> QED
    BY <2>3, <2>4
<1> QED
  BY <1>2, <1>4, <1>7, <1>8, <1>9 DEF u

(* A test that is threaded in by its level keeps the order.                *)
LEMMA InsertedSorted ==
  ASSUME TypeOK, OneToOne(installed),
         NEW s \in Seq(Tests), OneToOne(s), ToSet(s) = ToSet(installed), Sorted(s),
         NEW x \in Tests \ ToSet(s), NEW q \in 0 .. Len(s),
         installed' = Append(installed, x), TypeOK',
         \A y \in ToSet(s) : level'[y] = level[y],
         \A i \in 1 .. Len(s) : i <= q =>
           level'[x] # Plain /\ (level[s[i]] = Plain \/ level[s[i]] <= level'[x]),
         \A i \in 1 .. Len(s) : i > q =>
           level'[x] = Plain \/ (level[s[i]] # Plain /\ level'[x] < level[s[i]])
  PROVE  Sorted(Inserted(s, q, x))'
<1> DEFINE u == Inserted(s, q, x)
<1>1. IsInserted(u, s, q, x)
  BY InsertedEntries
<1>2. installed \in Seq(Tests) /\ Len(installed) \in Nat
  BY DEF TypeOK
<1>3. /\ When(x)' = Len(installed) + 1
      /\ \A y \in ToSet(s) : When(y)' = When(y) /\ When(y) \in 1 .. Len(installed)
  <2>1. x \in Tests \ ToSet(installed)
    OBVIOUS
  <2>2. /\ PlaceIn(installed', x) = Len(installed) + 1
        /\ \A y \in ToSet(installed) :
             PlaceIn(installed', y) = PlaceIn(installed, y) /\ PlaceIn(installed, y) \in 1 .. Len(installed)
    BY <1>2, <2>1, Appended
  <2>3. \A y : When(y) = PlaceIn(installed, y) /\ When(y)' = PlaceIn(installed', y)
    BY DEF When, PlaceIn
  <2> QED
    BY <2>2, <2>3
<1>4. \A y \in Tests : level[y] \in Nat /\ level'[y] \in Nat
  <2>1. level \in [Tests -> Levels \cup {Plain}] /\ level' \in [Tests -> Levels \cup {Plain}]
    BY DEF TypeOK
  <2>2. Levels \cup {Plain} \subseteq Nat
    BY RegistryAssumption DEF Plain
  <2> QED
    BY <2>1, <2>2
<1>5. \A i \in 1 .. Len(s) : s[i] \in ToSet(s) /\ s[i] \in Tests
  BY DEF ToSet
<1>6. Len(s) \in Nat /\ q \in Nat /\ q <= Len(s)
  OBVIOUS
<1> HIDE DEF u
<1>7. ASSUME NEW k \in 1 .. Len(u), NEW l \in 1 .. Len(u), k < l
      PROVE  InOrder(u[k], u[l])'
  <2>1. CASE k # q + 1 /\ l # q + 1
    <3>1. PICK i \in 1 .. Len(s), j \in 1 .. Len(s) : k = Moved(q, i) /\ l = Moved(q, j)
      BY <1>1, <2>1 DEF IsInserted
    <3>2. i < j
      BY <1>6, <1>7, <3>1 DEF Moved
    <3>3. u[k] = s[i] /\ u[l] = s[j]
      BY <1>1, <3>1 DEF IsInserted
    <3>4. InOrder(s[i], s[j])
      BY <3>2 DEF Sorted
    <3> DEFINE a == s[i]
               b == s[j]
    <3>5. a \in ToSet(s) /\ b \in ToSet(s)
      BY <1>5
    <3> HIDE DEF a, b
    <3>6. InOrder(a, b) => InOrder(a, b)'
      BY <1>3, <3>5 DEF InOrder
    <3> QED
      BY <3>3, <3>4, <3>6 DEF a, b
  <2>2. CASE k = q + 1 /\ l # q + 1
    <3>1. PICK j \in 1 .. Len(s) : l = Moved(q, j)
      BY <1>1, <2>2 DEF IsInserted
    <3>2. j > q
      BY <1>6, <1>7, <2>2, <3>1 DEF Moved
    <3>3. u[k] = x /\ u[l] = s[j]
      BY <1>1, <2>2, <3>1 DEF IsInserted
    <3> DEFINE b == s[j]
    <3>4. b \in ToSet(s) /\ level'[b] = level[b] /\ level[b] \in Nat /\ level'[x] \in Nat
      BY <1>4, <1>5
    <3>5. level'[x] = Plain \/ (level[b] # Plain /\ level'[x] < level[b])
      BY <3>2
    <3>6. When(x)' > When(b)'
      BY <1>2, <1>3, <3>4
    <3> HIDE DEF b
    <3>7. InOrder(x, b)'
      BY <3>4, <3>5, <3>6 DEF InOrder, Plain
    <3> QED
      BY <3>3, <3>7 DEF b
  <2>3. CASE k # q + 1 /\ l = q + 1
    <3>1. PICK i \in 1 .. Len(s) : k = Moved(q, i)
      BY <1>1, <2>3 DEF IsInserted
    <3>2. i <= q
      BY <1>6, <1>7, <2>3, <3>1 DEF Moved
    <3>3. u[k] = s[i] /\ u[l] = x
      BY <1>1, <2>3, <3>1 DEF IsInserted
    <3> DEFINE a == s[i]
    <3>4. a \in ToSet(s) /\ level'[a] = level[a] /\ level[a] \in Nat /\ level'[x] \in Nat
      BY <1>4, <1>5
    <3>5. level'[x] # Plain /\ (level[a] = Plain \/ level[a] <= level'[x])
      BY <3>2
    <3>6. When(a)' < When(x)'
      BY <1>2, <1>3, <3>4
    <3> HIDE DEF a
    <3>7. InOrder(a, x)'
      BY <3>4, <3>5, <3>6 DEF InOrder, Plain
    <3> QED
      BY <3>3, <3>7 DEF a
  <2>4. ~ (k = q + 1 /\ l = q + 1)
    BY <1>7
  <2> QED
    BY <2>1, <2>2, <2>3, <2>4
<1>8. Sorted(u)'
  BY <1>7 DEF Sorted
<1> QED
  BY <1>8 DEF u

-------------------------------------------------------------------------------
(* One more test is installed *)

LEMMA InsertedParts ==
  ASSUME NEW s \in Seq(Tests), NEW m \in Nat, Parts(s, m),
         NEW x \in Tests \ ToSet(s), NEW q \in 0 .. Len(s),
         NEW n, n = IF level'[x] = Plain THEN m + 1 ELSE m,
         \A y \in ToSet(s) : level'[y] = level[y],
         IF level'[x] = Plain THEN q <= m ELSE q >= m,
         orderedTestHead' = IF level'[x] # Plain /\ q = m THEN x ELSE orderedTestHead,
         \A i \in 1 .. Len(s) : i > m => nextOrderedTest'[s[i]] = next'[s[i]],
         level'[x] # Plain => nextOrderedTest'[x] = next'[x]
  PROVE  Parts(Inserted(s, q, x), n)'
<1> DEFINE u == Inserted(s, q, x)
<1>1. IsInserted(u, s, q, x)
  BY InsertedEntries
<1>2. /\ Len(s) \in Nat /\ q \in Nat /\ q <= Len(s) /\ m \in Nat /\ m <= Len(s)
      /\ n \in Nat /\ Len(u) = Len(s) + 1
  BY <1>1 DEF Parts, IsInserted
<1>3. \A i \in 1 .. Len(s) : s[i] \in ToSet(s)
  BY DEF ToSet
<1>4. level'[x] = Plain => n = m + 1 /\ q <= m
  OBVIOUS
<1>5. level'[x] # Plain => n = m /\ q >= m
  OBVIOUS
<1> HIDE DEF u
<1>6. n \in 0 .. Len(u)
  BY <1>2, <1>4, <1>5
<1>7. ASSUME NEW k \in 1 .. Len(u)
      PROVE  /\ level'[u[k]] = Plain <=> k <= n
             /\ k > n => nextOrderedTest'[u[k]] = next'[u[k]]
  <2>1. CASE k = q + 1
    <3>1. u[k] = x
      BY <1>1, <2>1 DEF IsInserted
    <3>2. level'[x] = Plain <=> k <= n
      BY <1>2, <1>4, <1>5, <2>1
    <3> QED
      BY <1>2, <3>1, <3>2
  <2>2. CASE k # q + 1
    <3>1. PICK i \in 1 .. Len(s) : k = Moved(q, i)
      BY <1>1, <1>2, <2>2 DEF IsInserted
    <3>2. u[k] = s[i]
      BY <1>1, <3>1 DEF IsInserted
    <3>3. level'[s[i]] = Plain <=> i <= m
      BY <1>3 DEF Parts
    <3>4. i <= m <=> k <= n
      BY <1>2, <1>4, <1>5, <3>1 DEF Moved
    <3> QED
      BY <1>2, <3>2, <3>3, <3>4
  <2> QED
    BY <2>1, <2>2
<1>8. orderedTestHead' = Entry(u, n + 1)
  <2>1. CASE level'[x] # Plain /\ q = m
    <3>1. n + 1 = q + 1 /\ n + 1 \in 1 .. Len(u)
      BY <1>2, <1>5, <2>1
    <3>2. u[q + 1] = x
      BY <1>1 DEF IsInserted
    <3> QED
      BY <2>1, <3>1, <3>2 DEF Entry
  <2>2. CASE ~ (level'[x] # Plain /\ q = m)
    <3>1. orderedTestHead' = Entry(s, m + 1)
      BY <2>2 DEF Parts
    <3>2. CASE m = Len(s)
      <4>1. level'[x] = Plain
        BY <1>2, <1>5, <2>2, <3>2
      <4>2. n + 1 \notin 1 .. Len(u) /\ m + 1 \notin 1 .. Len(s)
        BY <1>2, <1>4, <3>2, <4>1
      <4> QED
        BY <3>1, <4>2 DEF Entry
    <3>3. CASE m < Len(s)
      <4>1. m + 1 \in 1 .. Len(s)
        BY <1>2, <3>3
      <4>2. Moved(q, m + 1) = n + 1
        BY <1>2, <1>4, <1>5, <2>2 DEF Moved
      <4>3. u[Moved(q, m + 1)] = s[m + 1]
        BY <1>1, <4>1 DEF IsInserted
      <4>4. n + 1 \in 1 .. Len(u) /\ u[n + 1] = s[m + 1]
        BY <1>1, <1>2, <4>1, <4>2, <4>3 DEF IsInserted
      <4> QED
        BY <3>1, <4>1, <4>4 DEF Entry
    <3> QED
      BY <1>2, <3>2, <3>3
  <2> QED
    BY <2>1, <2>2
<1>9. \A i \in n + 1 .. Len(u) : nextOrderedTest'[u[i]] = next'[u[i]]
  <2> TAKE i \in n + 1 .. Len(u)
  <2>1. i \in 1 .. Len(u) /\ i > n
    BY <1>2
  <2> QED
    BY <1>7, <2>1
<1>10. Parts(u, n)'
  BY <1>6, <1>7, <1>8, <1>9 DEF Parts
<1> QED
  BY <1>10 DEF u

(* x becomes the q + 1st of the list s with m plain tests.                 *)
Threaded(s, m, x, q) ==
  /\ installed' = Append(installed, x) /\ status' = "installing"
  /\ \A y \in Tests \ {x} : level'[y] = level[y]
  /\ tests_head' = IF q = 0 THEN x ELSE tests_head
  /\ next'[x] = Entry(s, q + 1)
  /\ q # 0 => next'[s[q]] = x
  /\ \A i \in 1 .. Len(s) : i # q => next'[s[i]] = next[s[i]]
  /\ orderedTestHead' = IF level'[x] # Plain /\ q = m THEN x ELSE orderedTestHead
  /\ \A i \in 1 .. Len(s) : i > m => nextOrderedTest'[s[i]] = next'[s[i]]
  /\ level'[x] # Plain => nextOrderedTest'[x] = next'[x]
  /\ IF level'[x] = Plain THEN q = 0 ELSE q >= m
  /\ \A i \in 1 .. Len(s) :
       level'[x] # Plain /\ i > m => IF i <= q THEN level[s[i]] <= level'[x] ELSE level'[x] < level[s[i]]

LEMMA ThreadedStep ==
  ASSUME TypeOK, TypeOK', OneToOne(installed),
         \A y \in Tests \ ToSet(installed) : level[y] = Plain,
         NEW s \in Seq(Tests), NEW m \in Nat, IsList(s), Parts(s, m), Sorted(s),
         NEW x \in Tests \ ToSet(installed), NEW q \in 0 .. Len(s), Threaded(s, m, x, q)
  PROVE  ListInv'
<1> DEFINE u == Inserted(s, q, x)
<1>0. PICK n : n = IF level'[x] = Plain THEN m + 1 ELSE m
  OBVIOUS
<1>1. /\ ToSet(s) = ToSet(installed) /\ Len(s) = Len(installed) /\ OneToOne(s)
      /\ x \in Tests \ ToSet(s) /\ Links(next, tests_head, s)
  BY DEF IsList, Links
<1>2. installed \in Seq(Tests) /\ Len(s) \in Nat /\ q \in Nat /\ q <= Len(s) /\ m <= Len(s) /\ n \in Nat
  BY <1>0 DEF TypeOK, Parts
<1>3. /\ installed' \in Seq(Tests) /\ OneToOne(installed') /\ Len(installed') = Len(installed) + 1
      /\ ToSet(installed') = ToSet(installed) \cup {x}
  BY <1>2, Appended DEF Threaded
<1>4. IsInserted(u, s, q, x)
  BY InsertedEntries
<1>5. ToSet(u) = ToSet(s) \cup {x}
  BY <1>1, InsertedOnce
<1>6. Links(next', tests_head', u)
  BY <1>1, InsertedLinks DEF Threaded
<1>7. \A y \in ToSet(s) : y \in Tests /\ level'[y] = level[y]
  <2>1. \A y \in ToSet(s) : y \in Tests
    BY DEF ToSet
  <2> QED
    BY <1>1, <2>1 DEF Threaded
<1>8. IF level'[x] = Plain THEN q <= m ELSE q >= m
  BY <1>2 DEF Threaded
<1>9. Parts(u, n)'
  <2>1. /\ orderedTestHead' = IF level'[x] # Plain /\ q = m THEN x ELSE orderedTestHead
        /\ \A i \in 1 .. Len(s) : i > m => nextOrderedTest'[s[i]] = next'[s[i]]
        /\ level'[x] # Plain => nextOrderedTest'[x] = next'[x]
    BY DEF Threaded
  <2>2. \A y \in ToSet(s) : level'[y] = level[y]
    BY <1>7
  <2> QED
    BY <1>0, <1>1, <1>8, <2>1, <2>2, InsertedParts
<1>10. \A y \in Tests : level[y] \in Nat /\ level'[y] \in Nat
  <2>1. level \in [Tests -> Levels \cup {Plain}] /\ level' \in [Tests -> Levels \cup {Plain}]
    BY DEF TypeOK
  <2>2. Levels \cup {Plain} \subseteq Nat
    BY RegistryAssumption DEF Plain
  <2> QED
    BY <2>1, <2>2
<1>11. ASSUME NEW i \in 1 .. Len(s)
       PROVE  IF i <= q THEN level'[x] # Plain /\ (level[s[i]] = Plain \/ level[s[i]] <= level'[x])
              ELSE level'[x] = Plain \/ (level[s[i]] # Plain /\ level'[x] < level[s[i]])
  <2>1. level[s[i]] = Plain <=> i <= m
    BY DEF Parts
  <2>2. level'[x] = Plain => q = 0
    BY DEF Threaded
  <2>3. level'[x] # Plain =>
          /\ q >= m
          /\ i > m => IF i <= q THEN level[s[i]] <= level'[x] ELSE level'[x] < level[s[i]]
    BY DEF Threaded
  <2> QED
    BY <1>2, <2>1, <2>2, <2>3
<1>12. Sorted(u)'
  <2>1. \A i \in 1 .. Len(s) : i <= q =>
           level'[x] # Plain /\ (level[s[i]] = Plain \/ level[s[i]] <= level'[x])
    BY <1>11
  <2>2. \A i \in 1 .. Len(s) : i > q =>
           level'[x] = Plain \/ (level[s[i]] # Plain /\ level'[x] < level[s[i]])
    BY <1>2, <1>11
  <2>3. installed' = Append(installed, x)
    BY DEF Threaded
  <2> QED
    BY <1>1, <1>7, <2>1, <2>2, <2>3, InsertedSorted
<1> HIDE DEF u
<1>13. u \in Seq(Tests) /\ Len(u) = Len(s) + 1
  BY <1>4 DEF IsInserted
<1>14. IsList(u)'
  BY <1>1, <1>3, <1>5, <1>6, <1>13 DEF IsList
<1>15. \A y \in Tests \ ToSet(installed') : level'[y] = Plain
  BY <1>3 DEF Threaded
<1>16. status' # "running"
  BY DEF Threaded
<1> QED
  BY <1>2, <1>3, <1>9, <1>12, <1>13, <1>14, <1>15, <1>16 DEF ListInv

LEMMA ListFacts ==
  ASSUME NEW s \in Seq(Tests), NEW m \in Nat, IsList(s), Parts(s, m)
  PROVE  /\ Len(s) \in Nat /\ m <= Len(s)
         /\ \A i \in 1 .. Len(s) : s[i] \in Tests /\ s[i] \in ToSet(installed) /\ s[i] # NIL
         /\ \A i \in 1 .. Len(s) : next[s[i]] = Entry(s, i + 1)
         /\ \A i \in 1 .. Len(s) : i > m => nextOrderedTest[s[i]] = next[s[i]]
         /\ \A i, j \in 1 .. Len(s) : s[i] = s[j] => i = j
<1>1. Len(s) \in Nat /\ m <= Len(s) /\ DOMAIN s = 1 .. Len(s)
  BY DEF Parts
<1>2. \A i \in 1 .. Len(s) : s[i] \in Tests /\ s[i] \in ToSet(s)
  BY <1>1 DEF ToSet
<1>3. \A i \in 1 .. Len(s) : i > m => i \in m + 1 .. Len(s)
  BY <1>1
<1> QED
  BY <1>1, <1>2, <1>3, RegistryAssumption DEF IsList, Links, OneToOne, Parts

(* The levels ascend behind the plain tests.                               *)
LEMMA LevelsAscend ==
  ASSUME TypeOK, NEW s \in Seq(Tests), NEW m \in Nat, IsList(s), Parts(s, m), Sorted(s),
         NEW i \in 1 .. Len(s), NEW j \in 1 .. Len(s), i > m, i <= j
  PROVE  level[s[i]] \in Nat /\ level[s[j]] \in Nat /\ level[s[i]] <= level[s[j]]
<1> DEFINE a == s[i]
           b == s[j]
<1>1. a \in Tests /\ b \in Tests /\ Len(s) \in Nat
  BY ListFacts
<1>2. level[a] \in Nat /\ level[b] \in Nat
  <2>1. level \in [Tests -> Levels \cup {Plain}]
    BY DEF TypeOK
  <2>2. Levels \cup {Plain} \subseteq Nat
    BY RegistryAssumption DEF Plain
  <2> QED
    BY <1>1, <2>1, <2>2
<1>3. level[a] # Plain /\ level[b] # Plain
  BY DEF Parts
<1>4. i = j \/ InOrder(a, b)
  BY DEF Sorted
<1>5. a = b \/ InOrder(a, b)
  BY <1>4
<1> HIDE DEF a, b
<1>6. level[a] <= level[b]
  BY <1>2, <1>3, <1>5 DEF InOrder, Plain
<1> QED
  BY <1>2, <1>6 DEF a, b

LEMMA OrderedChain ==
  ASSUME NEW s \in Seq(Tests), NEW m \in Nat, IsList(s), Parts(s, m)
  PROVE  Chain(nextOrderedTest, orderedTestHead) = [i \in 1 .. Len(s) - m |-> s[m + i]]
<1> DEFINE o == [i \in 1 .. Len(s) - m |-> s[m + i]]
<1>1. Len(s) \in Nat /\ m <= Len(s) /\ Len(s) - m \in Nat
  BY ListFacts
<1>2. \A i \in 1 .. Len(s) - m : m + i \in 1 .. Len(s) /\ m + i > m
  BY <1>1
<1>3. o \in [1 .. Len(s) - m -> Tests]
  BY <1>2, ListFacts
<1>4. o \in Seq(Tests) /\ Len(o) = Len(s) - m /\ \A i \in 1 .. Len(o) : o[i] = s[m + i]
  BY <1>1, <1>3
<1> HIDE DEF o
<1>5. OneToOne(o)
  <2> SUFFICES ASSUME NEW i \in 1 .. Len(o), NEW j \in 1 .. Len(o), o[i] = o[j] PROVE i = j
    BY DEF OneToOne
  <2>1. s[m + i] = s[m + j] /\ m + i \in 1 .. Len(s) /\ m + j \in 1 .. Len(s)
    BY <1>2, <1>4
  <2>2. m + i = m + j
    BY <2>1, ListFacts
  <2> QED
    BY <1>1, <2>2
<1>6. \A i \in 1 .. Len(s) - m + 1 : Entry(o, i) = Entry(s, m + i)
  <2> TAKE i \in 1 .. Len(s) - m + 1
  <2>1. CASE i <= Len(s) - m
    <3>1. i \in 1 .. Len(o) /\ m + i \in 1 .. Len(s)
      BY <1>1, <1>4, <2>1
    <3> QED
      BY <1>4, <3>1 DEF Entry
  <2>2. CASE i > Len(s) - m
    <3>1. i \notin 1 .. Len(o) /\ m + i \notin 1 .. Len(s)
      BY <1>1, <1>4, <2>2
    <3> QED
      BY <3>1 DEF Entry
  <2> QED
    BY <1>1, <2>1, <2>2
<1>7. orderedTestHead = Entry(o, 1)
  <2>1. 1 \in 1 .. Len(s) - m + 1
    BY <1>1
  <2>2. Entry(o, 1) = Entry(s, m + 1)
    BY <1>6, <2>1
  <2> QED
    BY <2>2 DEF Parts
<1>8. ASSUME NEW i \in 1 .. Len(o) PROVE nextOrderedTest[o[i]] = Entry(o, i + 1)
  <2>1. m + i \in 1 .. Len(s) /\ m + i > m /\ o[i] = s[m + i]
    BY <1>2, <1>4
  <2>2. nextOrderedTest[o[i]] = Entry(s, (m + i) + 1)
    BY <2>1, ListFacts
  <2>3. i + 1 \in 1 .. Len(s) - m + 1 /\ m + (i + 1) = (m + i) + 1
    BY <1>1, <1>4
  <2>4. Entry(o, i + 1) = Entry(s, m + (i + 1))
    BY <1>6, <2>3
  <2> QED
    BY <2>2, <2>3, <2>4
<1>9. Links(nextOrderedTest, orderedTestHead, o)
  BY <1>4, <1>5, <1>7, <1>8 DEF Links
<1> QED
  BY <1>9, ChainIs DEF o

LEMMA FreshIsNew ==
  ASSUME TypeOK, NEW x \in Tests, Fresh(x)
  PROVE  x \in Tests \ ToSet(installed) /\ status = "installing"
BY DEF TypeOK, Fresh, Contains, ToSet

LEMMA InstallStep ==
  ASSUME ListInv, NEW x \in Tests, Install(x)
  PROVE  ListInv'
<1>1. /\ TypeOK /\ OneToOne(installed) /\ \A y \in Tests \ ToSet(installed) : level[y] = Plain
      /\ x \in Tests \ ToSet(installed) /\ status = "installing"
  BY FreshIsNew DEF ListInv, Install
<1>2. PICK s \in Seq(Tests), m \in Nat : IsList(s) /\ Parts(s, m) /\ Sorted(s)
  BY <1>1 DEF ListInv
<1>3. TypeOK'
  <2>1. next' \in [Tests -> Pointers] /\ tests_head' \in Pointers
    BY <1>1 DEF TypeOK, Install, Prepend, Pointers
  <2>2. installed' \in Seq(Tests)
    BY <1>1 DEF TypeOK, Install
  <2> QED
    BY <1>1, <2>1, <2>2 DEF TypeOK, Install, Pointers, ordered
<1>4. /\ Len(s) \in Nat
      /\ \A i \in 1 .. Len(s) : s[i] \in Tests /\ s[i] # x
      /\ \A i \in 1 .. Len(s) : i > m => nextOrderedTest[s[i]] = next[s[i]]
  BY <1>1, <1>2, ListFacts
<1>5. next' = [next EXCEPT ![x] = tests_head] /\ next \in [Tests -> Pointers] /\ tests_head = Entry(s, 1)
  BY <1>1, <1>2 DEF Install, Prepend, TypeOK, IsList, Links
<1>6. next'[x] = Entry(s, 1) /\ \A i \in 1 .. Len(s) : next'[s[i]] = next[s[i]]
  BY <1>4, <1>5
<1>7. level' = level /\ level[x] = Plain
  BY <1>1 DEF Install
<1>8. Threaded(s, m, x, 0)
  BY <1>1, <1>4, <1>6, <1>7 DEF Threaded, Install, Prepend, ordered
<1>9. 0 \in 0 .. Len(s)
  BY <1>4
<1> QED
  BY <1>1, <1>2, <1>3, <1>8, <1>9, ThreadedStep

LEMMA LeveledTypes ==
  ASSUME ListInv, NEW x \in Tests, NEW l \in Levels, Fresh(x), level' = [level EXCEPT ![x] = l]
  PROVE  /\ level' \in [Tests -> Levels \cup {Plain}]
         /\ level'[x] = l /\ l \in Nat /\ l # Plain
         /\ \A y \in Tests \ {x} : level'[y] = level[y]
<1>1. level \in [Tests -> Levels \cup {Plain}]
  BY DEF ListInv, TypeOK
<1>2. l \in Nat \ {0}
  BY RegistryAssumption
<1> QED
  BY <1>1, <1>2 DEF Plain

LEMMA AddToHeadStep ==
  ASSUME ListInv, NEW x \in Tests, NEW l \in Levels, InstallOrdered(x, l), AddToHead(x),
         orderedTestHead = NIL \/ l < level[orderedTestHead]
  PROVE  ListInv'
<1>1. /\ TypeOK /\ OneToOne(installed) /\ \A y \in Tests \ ToSet(installed) : level[y] = Plain
      /\ x \in Tests \ ToSet(installed) /\ status = "installing" /\ Fresh(x)
  BY FreshIsNew DEF ListInv, InstallOrdered
<1>2. PICK s \in Seq(Tests), m \in Nat : IsList(s) /\ Parts(s, m) /\ Sorted(s)
  BY <1>1 DEF ListInv
<1>3. /\ level' \in [Tests -> Levels \cup {Plain}] /\ level'[x] = l /\ l \in Nat /\ l # Plain
      /\ \A y \in Tests \ {x} : level'[y] = level[y]
  BY <1>1, LeveledTypes DEF InstallOrdered
<1>4. /\ installed' = Append(installed, x) /\ shuffles' = shuffles
      /\ orderedTestHead' = x /\ nextOrderedTest' = [nextOrderedTest EXCEPT ![x] = orderedTestHead]
  BY DEF InstallOrdered, AddToHead
<1>5. /\ next \in [Tests -> Pointers] /\ nextOrderedTest \in [Tests -> Pointers]
      /\ tests_head \in Pointers /\ orderedTestHead \in Pointers /\ installed \in Seq(Tests)
      /\ shuffles \in 0 .. MaxShuffles
  BY <1>1 DEF TypeOK
<1>6. orderedTestHead' \in Pointers /\ nextOrderedTest' \in [Tests -> Pointers] /\ installed' \in Seq(Tests)
  BY <1>4, <1>5 DEF Pointers
<1>7. /\ Len(s) \in Nat /\ m <= Len(s)
      /\ \A i \in 1 .. Len(s) : s[i] \in Tests /\ s[i] # x /\ s[i] # NIL
      /\ \A i \in 1 .. Len(s) : next[s[i]] = Entry(s, i + 1)
      /\ \A i \in 1 .. Len(s) : i > m => nextOrderedTest[s[i]] = next[s[i]]
      /\ \A i, j \in 1 .. Len(s) : s[i] = s[j] => i = j
  BY <1>1, <1>2, ListFacts
<1>8. tests_head = Entry(s, 1) /\ orderedTestHead = Entry(s, m + 1)
  BY <1>2 DEF IsList, Links, Parts
<1>9. nextOrderedTest'[x] = orderedTestHead
      /\ \A i \in 1 .. Len(s) : nextOrderedTest'[s[i]] = nextOrderedTest[s[i]]
  BY <1>4, <1>5, <1>7
<1>10. \A i \in 1 .. Len(s) : i > m => l < level[s[i]]
  <2> SUFFICES ASSUME NEW i \in 1 .. Len(s), i > m PROVE l < level[s[i]]
    OBVIOUS
  <2>1. m + 1 \in 1 .. Len(s) /\ m + 1 > m /\ m + 1 <= i
    BY <1>7
  <2>2. orderedTestHead = s[m + 1] /\ orderedTestHead # NIL
    BY <1>7, <1>8, <2>1 DEF Entry
  <2>3. level[s[m + 1]] \in Nat /\ level[s[i]] \in Nat /\ level[s[m + 1]] <= level[s[i]]
    BY <1>1, <1>2, <2>1, LevelsAscend
  <2>4. l < level[s[m + 1]]
    BY <2>2
  <2> QED
    BY <1>3, <2>3, <2>4
<1>11. ASSUME next' \in [Tests -> Pointers], tests_head' = (IF m = 0 THEN x ELSE tests_head),
              status' = status, next'[x] = Entry(s, m + 1), m # 0 => next'[s[m]] = x,
              \A i \in 1 .. Len(s) : i # m => next'[s[i]] = next[s[i]]
       PROVE  ListInv'
  <2>1. TypeOK'
    BY <1>1, <1>3, <1>4, <1>5, <1>6, <1>11 DEF TypeOK, Pointers
  <2>2. \A i \in 1 .. Len(s) : i > m => i # m
    BY <1>7
  <2>3. Threaded(s, m, x, m)
    <3>1. \A i \in 1 .. Len(s) : i > m => nextOrderedTest'[s[i]] = next'[s[i]]
      BY <1>7, <1>9, <1>11, <2>2
    <3>2. \A i \in 1 .. Len(s) : i > m => ~ (i <= m)
      BY <1>7
    <3> QED
      BY <1>1, <1>3, <1>4, <1>8, <1>9, <1>10, <1>11, <3>1, <3>2 DEF Threaded
  <2>4. m \in 0 .. Len(s)
    BY <1>7
  <2> QED
    BY <1>1, <1>2, <2>1, <2>3, <2>4, ThreadedStep
<1>12. CASE tests_head \in {NIL, orderedTestHead}
  <2>1. next' = [next EXCEPT ![x] = tests_head] /\ tests_head' = x /\ status' = status
    BY <1>12 DEF AddToHead, Prepend
  <2>2. m = 0
    <3>1. CASE tests_head = NIL
      <4>1. 1 \notin 1 .. Len(s)
        BY <1>7, <1>8, <3>1 DEF Entry
      <4> QED
        BY <1>7, <4>1
    <3>2. CASE tests_head = orderedTestHead /\ tests_head # NIL
      <4>1. 1 \in 1 .. Len(s) /\ m + 1 \in 1 .. Len(s)
        BY <1>8, <3>2 DEF Entry
      <4>2. s[1] = s[m + 1]
        BY <1>8, <3>2, <4>1 DEF Entry
      <4>3. 1 = m + 1
        BY <1>7, <4>1, <4>2
      <4> QED
        BY <4>3
    <3> QED
      BY <1>12, <3>1, <3>2
  <2>3. next' \in [Tests -> Pointers]
    BY <1>5, <2>1 DEF Pointers
  <2>4. next'[x] = Entry(s, m + 1) /\ \A i \in 1 .. Len(s) : next'[s[i]] = next[s[i]]
    BY <1>5, <1>7, <1>8, <2>1, <2>2
  <2> QED
    BY <1>11, <2>1, <2>2, <2>3, <2>4
<1>13. CASE tests_head \notin {NIL, orderedTestHead} /\ TestsWithNext(orderedTestHead) = {}
  <2>1. status' = "crashed" /\ next' = next /\ tests_head' = tests_head
    BY <1>13 DEF AddToHead, list
  <2>2. TypeOK'
    BY <1>3, <1>4, <1>5, <1>6, <2>1 DEF TypeOK, Pointers
  <2>3. /\ OneToOne(installed') /\ ToSet(installed') = ToSet(installed) \cup {x}
    BY <1>1, <1>4, <1>5, Appended
  <2>4. \A y \in Tests \ ToSet(installed') : level'[y] = Plain
    BY <1>1, <1>3, <2>3
  <2> QED
    BY <2>1, <2>2, <2>3, <2>4 DEF ListInv
<1>14. CASE tests_head \notin {NIL, orderedTestHead} /\ TestsWithNext(orderedTestHead) # {}
  <2> DEFINE b == CHOOSE c \in TestsWithNext(orderedTestHead) : TRUE
  <2>1. /\ next' = [next EXCEPT ![b] = x, ![x] = orderedTestHead]
        /\ tests_head' = tests_head /\ status' = status
    BY <1>14 DEF AddToHead
  <2>2. b \in TestsWithNext(orderedTestHead)
    BY <1>14
  <2> HIDE DEF b
  <2>3. Chain(next, tests_head) = s
    BY <1>2, ChainIs DEF IsList
  <2>4. b \in ToSet(s) /\ orderedTestHead # NIL /\ next[b] = orderedTestHead
    BY <2>2, <2>3 DEF TestsWithNext
  <2>5. PICK i \in 1 .. Len(s) : b = s[i]
    BY <2>4 DEF ToSet
  <2>6. Entry(s, i + 1) = Entry(s, m + 1) /\ Entry(s, m + 1) # NIL
    BY <1>7, <1>8, <2>4, <2>5
  <2>7. i + 1 \in 1 .. Len(s) /\ m + 1 \in 1 .. Len(s) /\ s[i + 1] = s[m + 1]
    BY <2>6 DEF Entry
  <2>8. i + 1 = m + 1
    BY <1>7, <2>7
  <2>9. i = m /\ m # 0 /\ m \in 1 .. Len(s) /\ b = s[m]
    BY <1>7, <2>5, <2>8
  <2>10. b \in Tests /\ b # x
    BY <1>7, <2>9
  <2>11. next' \in [Tests -> Pointers]
    BY <1>5, <2>1, <2>10 DEF Pointers
  <2>12. next'[x] = orderedTestHead /\ next'[b] = x
         /\ \A y \in Tests \ {x, b} : next'[y] = next[y]
    BY <1>5, <2>1, <2>10
  <2>13. \A j \in 1 .. Len(s) : j # m => next'[s[j]] = next[s[j]]
    BY <1>7, <2>9, <2>12
  <2> QED
    BY <1>8, <1>11, <2>1, <2>9, <2>11, <2>12, <2>13
<1> QED
  BY <1>12, <1>13, <1>14

LEMMA AddBehindStep ==
  ASSUME ListInv, NEW x \in Tests, NEW l \in Levels, InstallOrdered(x, l), AddBehind(x, l),
         orderedTestHead # NIL, ~ (l < level[orderedTestHead])
  PROVE  ListInv'
<1>1. /\ TypeOK /\ OneToOne(installed) /\ \A y \in Tests \ ToSet(installed) : level[y] = Plain
      /\ x \in Tests \ ToSet(installed) /\ status = "installing" /\ Fresh(x)
  BY FreshIsNew DEF ListInv, InstallOrdered
<1>2. PICK s \in Seq(Tests), m \in Nat : IsList(s) /\ Parts(s, m) /\ Sorted(s)
  BY <1>1 DEF ListInv
<1>3. /\ level' \in [Tests -> Levels \cup {Plain}] /\ level'[x] = l /\ l \in Nat /\ l # Plain
      /\ \A y \in Tests \ {x} : level'[y] = level[y]
  BY <1>1, LeveledTypes DEF InstallOrdered
<1>4. /\ installed' = Append(installed, x) /\ shuffles' = shuffles
  BY DEF InstallOrdered
<1>5. /\ next \in [Tests -> Pointers] /\ nextOrderedTest \in [Tests -> Pointers]
      /\ tests_head \in Pointers /\ orderedTestHead \in Pointers /\ installed \in Seq(Tests)
      /\ shuffles \in 0 .. MaxShuffles
  BY <1>1 DEF TypeOK
<1>6. /\ Len(s) \in Nat /\ m <= Len(s)
      /\ \A i \in 1 .. Len(s) : s[i] \in Tests /\ s[i] # x /\ s[i] # NIL
      /\ \A i \in 1 .. Len(s) : next[s[i]] = Entry(s, i + 1)
      /\ \A i \in 1 .. Len(s) : i > m => nextOrderedTest[s[i]] = next[s[i]]
      /\ \A i, j \in 1 .. Len(s) : s[i] = s[j] => i = j
  BY <1>1, <1>2, ListFacts
<1>7. orderedTestHead = Entry(s, m + 1)
  BY <1>2 DEF Parts
<1>8. m + 1 \in 1 .. Len(s) /\ orderedTestHead = s[m + 1]
  BY <1>7 DEF Entry
<1> DEFINE chain == Chain(nextOrderedTest, orderedTestHead)
           P == {i \in DOMAIN chain : Behind(chain[i], l)}
<1>9. chain = [i \in 1 .. Len(s) - m |-> s[m + i]]
  BY <1>2, OrderedChain
<1>10. /\ DOMAIN chain = 1 .. Len(s) - m /\ Len(s) - m \in Nat \ {0}
       /\ \A i \in 1 .. Len(s) - m : chain[i] = s[m + i]
  BY <1>6, <1>8, <1>9
<1> HIDE DEF chain
<1>11. \A i \in 1 .. Len(s) - m :
         m + i \in 1 .. Len(s) /\ m + i > m /\ nextOrderedTest[chain[i]] = Entry(s, (m + i) + 1)
  <2> TAKE i \in 1 .. Len(s) - m
  <2>1. m + i \in 1 .. Len(s) /\ m + i > m
    BY <1>6
  <2> QED
    BY <1>6, <1>10, <2>1
<1>12. PICK p \in 1 .. Len(s) - m : p = Min(P) /\ p \in P /\ \A i \in P : p <= i
  <2>1. Len(s) - m \in P
    <3> DEFINE i == Len(s) - m
    <3>1. i \in 1 .. Len(s) - m /\ (m + i) + 1 \notin 1 .. Len(s)
      BY <1>6, <1>10
    <3>2. nextOrderedTest[chain[i]] = NIL
      BY <1>11, <3>1 DEF Entry
    <3> QED
      BY <1>10, <3>1, <3>2 DEF Behind
  <2>2. P \in SUBSET Nat /\ P # {}
    BY <1>10, <2>1
  <2>3. P \subseteq 1 .. Len(s) - m
    BY <1>10
  <2> HIDE DEF P
  <2>4. Min(P) \in P /\ \A i \in P : Min(P) <= i
    BY <2>2, Least
  <2> QED
    BY <2>3, <2>4
<1> DEFINE q == m + p
           c == s[q]
<1>13. /\ q \in 1 .. Len(s) /\ q > m /\ c = chain[p]
       /\ nextOrderedTest[c] = Entry(s, q + 1)
  BY <1>10, <1>11
<1>14. /\ next' = [next EXCEPT ![x] = nextOrderedTest[c], ![c] = x]
       /\ nextOrderedTest' = [nextOrderedTest EXCEPT ![x] = nextOrderedTest[c], ![c] = x]
       /\ tests_head' = tests_head /\ orderedTestHead' = orderedTestHead /\ status' = status
  <2>1. chain[Min(P)] = c
    BY <1>12, <1>13
  <2> HIDE DEF P, c
  <2>2. chain[Min({i \in DOMAIN chain : Behind(chain[i], l)})] = c
    BY <2>1 DEF P
  <2> QED
    BY <2>2 DEF AddBehind, chain
<1> HIDE DEF q
<1>15. c \in Tests /\ c # x /\ nextOrderedTest[c] \in Pointers
  BY <1>5, <1>6, <1>13
<1> HIDE DEF c
<1>16. next' \in [Tests -> Pointers] /\ nextOrderedTest' \in [Tests -> Pointers]
  BY <1>5, <1>14, <1>15 DEF Pointers
<1>17. /\ next'[x] = Entry(s, q + 1) /\ next'[c] = x
       /\ nextOrderedTest'[x] = Entry(s, q + 1) /\ nextOrderedTest'[c] = x
       /\ \A y \in Tests \ {x, c} : next'[y] = next[y] /\ nextOrderedTest'[y] = nextOrderedTest[y]
  BY <1>5, <1>13, <1>14, <1>15
<1>18. \A i \in 1 .. Len(s) : i # q => s[i] \in Tests \ {x, c}
  BY <1>6, <1>13 DEF c
<1>19. TypeOK'
  <2>1. installed' \in Seq(Tests)
    BY <1>1, <1>4, <1>5
  <2> QED
    BY <1>1, <1>3, <1>4, <1>5, <1>14, <1>16, <2>1 DEF TypeOK
<1>20. level[c] \in Nat /\ level[c] <= l
  <2>1. q \in 1 .. Len(s) /\ m + 1 \in 1 .. Len(s)
    BY <1>8, <1>13
  <2>2. level[s[m + 1]] \in Nat /\ level[s[q]] \in Nat
    <3>1. m + 1 > m /\ m + 1 <= q
      BY <1>13
    <3> QED
      BY <1>1, <1>2, <2>1, <3>1, LevelsAscend
  <2>3. CASE p = 1
    <3>1. c = orderedTestHead
      BY <1>8, <2>3 DEF c, q
    <3> QED
      BY <1>3, <2>2, <3>1 DEF c
  <2>4. CASE p # 1
    <3>1. p - 1 \in 1 .. Len(s) - m /\ ~ (p <= p - 1) /\ (m + (p - 1)) + 1 = q
      BY <1>10, <2>4 DEF q
    <3>2. p - 1 \notin P
      BY <1>12, <3>1
    <3>3. ~ Behind(chain[p - 1], l)
      BY <1>10, <3>1, <3>2
    <3>4. nextOrderedTest[chain[p - 1]] = c
      <4>1. nextOrderedTest[chain[p - 1]] = Entry(s, q)
        BY <1>11, <3>1
      <4> QED
        BY <1>13, <4>1 DEF Entry, c
    <3> QED
      BY <1>3, <2>2, <3>3, <3>4 DEF Behind, c
  <2> QED
    BY <2>3, <2>4
<1>21. ASSUME NEW i \in 1 .. Len(s), i > m
       PROVE  IF i <= q THEN level[s[i]] <= l ELSE l < level[s[i]]
  <2>1. CASE i <= q
    <3>1. level[s[i]] \in Nat /\ level[s[i]] <= level[s[q]]
      BY <1>1, <1>2, <1>13, <1>21, <2>1, LevelsAscend
    <3> QED
      BY <1>3, <1>20, <2>1, <3>1 DEF c
  <2>2. CASE ~ (i <= q)
    <3>1. q + 1 \in 1 .. Len(s) /\ q + 1 > m /\ q + 1 <= i
      BY <1>6, <1>13, <2>2
    <3>2. nextOrderedTest[c] = s[q + 1] /\ s[q + 1] # NIL
      BY <1>6, <1>13, <3>1 DEF Entry
    <3>3. Behind(c, l)
      BY <1>12, <1>13
    <3>4. level[s[q + 1]] > l
      BY <3>2, <3>3 DEF Behind
    <3>5. /\ level[s[q + 1]] \in Nat /\ level[s[i]] \in Nat /\ level[s[q + 1]] <= level[s[i]]
      BY <1>1, <1>2, <3>1, LevelsAscend
    <3> QED
      BY <1>3, <2>2, <3>4, <3>5
  <2> QED
    BY <2>1, <2>2
<1>22. Threaded(s, m, x, q)
  <2>1. \A i \in 1 .. Len(s) : i # q => next'[s[i]] = next[s[i]]
    BY <1>17, <1>18
  <2>2. \A i \in 1 .. Len(s) : i > m => nextOrderedTest'[s[i]] = next'[s[i]]
    BY <1>6, <1>17, <1>18 DEF c
  <2>3. q # 0 /\ q # m /\ q >= m /\ next'[s[q]] = x
    BY <1>13, <1>17 DEF c
  <2>4. \A i \in 1 .. Len(s) : i > m => IF i <= q THEN level[s[i]] <= l ELSE l < level[s[i]]
    BY <1>21
  <2> QED
    BY <1>1, <1>3, <1>4, <1>14, <1>17, <2>1, <2>2, <2>3, <2>4 DEF Threaded
<1>23. q \in 0 .. Len(s)
  BY <1>6, <1>13
<1> QED
  BY <1>1, <1>2, <1>19, <1>22, <1>23, ThreadedStep

LEMMA InstallOrderedStep ==
  ASSUME ListInv, NEW x \in Tests, NEW l \in Levels, InstallOrdered(x, l)
  PROVE  ListInv'
<1>1. CASE orderedTestHead = NIL \/ l < level[orderedTestHead]
  BY <1>1, AddToHeadStep DEF InstallOrdered
<1>2. CASE ~ (orderedTestHead = NIL \/ l < level[orderedTestHead])
  BY <1>2, AddBehindStep DEF InstallOrdered
<1> QED
  BY <1>1, <1>2

(* The list without its first test.                                        *)
LEMMA TailFacts ==
  ASSUME NEW s \in Seq(Tests), OneToOne(s), s # <<>>
  PROVE  /\ Tail(s) \in Seq(Tests) /\ Len(Tail(s)) = Len(s) - 1 /\ OneToOne(Tail(s))
         /\ 1 \in 1 .. Len(s)
         /\ \A i \in 1 .. Len(s) - 1 : i + 1 \in 1 .. Len(s) /\ Tail(s)[i] = s[i + 1]
         /\ \A i \in 1 .. Len(s) : Entry(Tail(s), i) = Entry(s, i + 1)
         /\ ToSet(Tail(s)) = ToSet(s) \ {s[1]}
<1> DEFINE u == Tail(s)
<1>1. /\ Len(s) \in Nat \ {0} /\ u \in Seq(Tests) /\ Len(u) = Len(s) - 1
      /\ \A i \in 1 .. Len(s) - 1 : i + 1 \in 1 .. Len(s) /\ u[i] = s[i + 1]
  OBVIOUS
<1> HIDE DEF u
<1>2. OneToOne(u)
  <2> SUFFICES ASSUME NEW i \in 1 .. Len(u), NEW j \in 1 .. Len(u), u[i] = u[j] PROVE i = j
    BY DEF OneToOne
  <2>1. s[i + 1] = s[j + 1] /\ i + 1 \in 1 .. Len(s) /\ j + 1 \in 1 .. Len(s)
    BY <1>1
  <2>2. i + 1 = j + 1
    BY <2>1 DEF OneToOne
  <2> QED
    BY <1>1, <2>2
<1>3. ASSUME NEW i \in 1 .. Len(s) PROVE Entry(u, i) = Entry(s, i + 1)
  <2>1. CASE i = Len(s)
    <3>1. i \notin 1 .. Len(u) /\ i + 1 \notin 1 .. Len(s)
      BY <1>1, <2>1
    <3> QED
      BY <3>1 DEF Entry
  <2>2. CASE i # Len(s)
    <3>1. i \in 1 .. Len(s) - 1
      BY <1>1, <2>2
    <3> QED
      BY <1>1, <3>1 DEF Entry
  <2> QED
    BY <2>1, <2>2
<1>4. ToSet(s) = {s[i] : i \in 1 .. Len(s)} /\ ToSet(u) = {u[i] : i \in 1 .. Len(s) - 1}
  BY <1>1 DEF ToSet
<1>5. \A i \in 1 .. Len(s) : i = 1 \/ (i - 1 \in 1 .. Len(s) - 1 /\ (i - 1) + 1 = i)
  BY <1>1
<1>6. ToSet(u) \subseteq ToSet(s) \ {s[1]}
  <2> SUFFICES ASSUME NEW i \in 1 .. Len(s) - 1 PROVE u[i] \in ToSet(s) \ {s[1]}
    BY <1>4
  <2>1. i + 1 \in 1 .. Len(s) /\ 1 \in 1 .. Len(s) /\ i + 1 # 1 /\ u[i] = s[i + 1]
    BY <1>1
  <2>2. s[i + 1] # s[1]
    BY <2>1 DEF OneToOne
  <2> QED
    BY <1>4, <2>1, <2>2
<1>7. ToSet(s) \ {s[1]} \subseteq ToSet(u)
  <2> SUFFICES ASSUME NEW i \in 1 .. Len(s), s[i] # s[1] PROVE s[i] \in ToSet(u)
    BY <1>4
  <2>1. i - 1 \in 1 .. Len(s) - 1 /\ (i - 1) + 1 = i
    BY <1>5
  <2>2. u[i - 1] = s[i]
    BY <1>1, <2>1
  <2> QED
    BY <1>4, <2>1, <2>2
<1> QED
  BY <1>1, <1>2, <1>3, <1>6, <1>7 DEF u

LEMMA UndoStep ==
  ASSUME ListInv, UndoLastAdd
  PROVE  ListInv'
<1>1. /\ TypeOK /\ OneToOne(installed) /\ \A y \in Tests \ ToSet(installed) : level[y] = Plain
      /\ status = "installing" /\ installed # <<>> /\ installed \in Seq(Tests)
  BY DEF ListInv, UndoLastAdd, TypeOK
<1>2. PICK s \in Seq(Tests), m \in Nat : IsList(s) /\ Parts(s, m) /\ Sorted(s)
  BY <1>1 DEF ListInv
<1>3. /\ tests_head = Last(installed) /\ level[tests_head] = Plain
      /\ tests_head' = next[tests_head] /\ installed' = Front(installed)
      /\ next' = next /\ orderedTestHead' = orderedTestHead /\ nextOrderedTest' = nextOrderedTest
      /\ level' = level /\ status' = status /\ shuffles' = shuffles
  BY DEF UndoLastAdd, ordered
<1>4. /\ OneToOne(s) /\ tests_head = Entry(s, 1) /\ ToSet(s) = ToSet(installed) /\ Len(s) = Len(installed)
      /\ Len(s) \in Nat /\ m <= Len(s)
      /\ \A i \in 1 .. Len(s) : s[i] \in Tests /\ next[s[i]] = Entry(s, i + 1)
      /\ \A i \in 1 .. Len(s) : level[s[i]] = Plain <=> i <= m
      /\ orderedTestHead = Entry(s, m + 1)
      /\ \A i \in 1 .. Len(s) : i > m => nextOrderedTest[s[i]] = next[s[i]]
  BY <1>2, ListFacts DEF IsList, Links, Parts
<1>5. /\ installed' \in Seq(Tests) /\ OneToOne(installed') /\ Len(installed') = Len(installed) - 1
      /\ ToSet(installed') = ToSet(installed) \ {tests_head} /\ tests_head \in ToSet(installed)
      /\ \A y \in ToSet(installed') : PlaceIn(installed', y) = PlaceIn(installed, y)
  BY <1>1, <1>3, Fronts
<1>6. s # <<>> /\ 1 \in 1 .. Len(s)
  BY <1>1, <1>4
<1>7. tests_head = s[1] /\ m >= 1
  BY <1>3, <1>4, <1>6 DEF Entry
<1> DEFINE u == Tail(s)
<1>8. /\ u \in Seq(Tests) /\ Len(u) = Len(s) - 1 /\ OneToOne(u)
      /\ \A i \in 1 .. Len(s) - 1 : i + 1 \in 1 .. Len(s) /\ u[i] = s[i + 1]
      /\ \A i \in 1 .. Len(s) : Entry(u, i) = Entry(s, i + 1)
      /\ ToSet(u) = ToSet(s) \ {s[1]}
  BY <1>4, <1>6, TailFacts
<1> HIDE DEF u
<1>9. Links(next', tests_head', u)
  <2>1. tests_head' = Entry(u, 1)
    BY <1>3, <1>4, <1>6, <1>7, <1>8
  <2>2. ASSUME NEW i \in 1 .. Len(u) PROVE next[u[i]] = Entry(u, i + 1)
    <3>1. i + 1 \in 1 .. Len(s) /\ u[i] = s[i + 1]
      BY <1>8
    <3> QED
      BY <1>4, <1>8, <3>1
  <2> QED
    BY <1>3, <1>8, <2>1, <2>2 DEF Links
<1>10. IsList(u)'
  BY <1>4, <1>5, <1>7, <1>8, <1>9 DEF IsList
<1> DEFINE n == m - 1
<1>11. n \in Nat /\ n + 1 = m /\ n <= Len(u)
  BY <1>4, <1>7, <1>8
<1> HIDE DEF n
<1>12. Parts(u, n)'
  <2>1. ASSUME NEW i \in 1 .. Len(u) PROVE level[u[i]] = Plain <=> i <= n
    BY <1>4, <1>8, <1>11
  <2>2. orderedTestHead = Entry(u, n + 1)
    <3>1. m \in 1 .. Len(s)
      BY <1>4, <1>7
    <3> QED
      BY <1>4, <1>8, <1>11, <3>1
  <2>3. ASSUME NEW i \in n + 1 .. Len(u) PROVE nextOrderedTest[u[i]] = next[u[i]]
    <3>1. i \in 1 .. Len(s) - 1 /\ i + 1 > m
      BY <1>4, <1>8, <1>11
    <3>2. i + 1 \in 1 .. Len(s) /\ u[i] = s[i + 1]
      BY <1>8, <3>1
    <3> QED
      BY <1>4, <3>1, <3>2
  <2>4. n \in 0 .. Len(u)
    BY <1>4, <1>8, <1>11
  <2> QED
    BY <1>3, <2>1, <2>2, <2>3, <2>4 DEF Parts
<1>13. Sorted(u)'
  <2> SUFFICES ASSUME NEW i \in 1 .. Len(u), NEW j \in 1 .. Len(u), i < j
               PROVE  InOrder(u[i], u[j])'
    BY DEF Sorted
  <2>1. /\ i + 1 \in 1 .. Len(s) /\ j + 1 \in 1 .. Len(s) /\ i + 1 < j + 1
        /\ u[i] = s[i + 1] /\ u[j] = s[j + 1]
    BY <1>4, <1>8
  <2> DEFINE a == u[i]
             b == u[j]
  <2>2. InOrder(a, b)
    BY <1>2, <2>1 DEF Sorted
  <2>3. a \in ToSet(installed') /\ b \in ToSet(installed')
    <3>1. a \in ToSet(u) /\ b \in ToSet(u)
      BY <1>8 DEF ToSet
    <3> QED
      BY <1>4, <1>5, <1>7, <1>8, <3>1
  <2> HIDE DEF a, b
  <2>4. When(a)' = When(a) /\ When(b)' = When(b)
    <3>1. \A y : When(y) = PlaceIn(installed, y) /\ When(y)' = PlaceIn(installed', y)
      BY DEF When, PlaceIn
    <3> QED
      BY <1>5, <2>3, <3>1
  <2>5. InOrder(a, b)'
    BY <1>3, <2>2, <2>4 DEF InOrder
  <2> QED
    BY <2>5 DEF a, b
<1>14. TypeOK'
  <2>1. tests_head' \in Pointers
    BY <1>1, <1>3, <1>4, <1>7, <1>6 DEF TypeOK
  <2> QED
    BY <1>1, <1>3, <1>5, <2>1 DEF TypeOK
<1>15. \A y \in Tests \ ToSet(installed') : level'[y] = Plain
  BY <1>1, <1>3, <1>5
<1> QED
  BY <1>1, <1>3, <1>5, <1>8, <1>10, <1>11, <1>12, <1>13, <1>14, <1>15 DEF ListInv

-------------------------------------------------------------------------------
(* Other orders *)

LEMMA RelinkStep ==
  ASSUME NEW s \in Seq(Tests), OneToOne(s), next \in [Tests -> Pointers], Relink(s)
  PROVE  /\ Links(next', tests_head', s)
         /\ next' \in [Tests -> Pointers] /\ tests_head' \in Pointers
<1>0. Len(s) \in Nat
  OBVIOUS
<1>1. Len(s) \in Nat /\ DOMAIN s = 1 .. Len(s) /\ \A i \in 1 .. Len(s) : s[i] \in Tests
  OBVIOUS
<1>2. ASSUME NEW i \in 1 .. Len(s)
      PROVE  (Append(s, NIL))[1 + i] = Entry(s, i + 1) /\ Entry(s, i + 1) \in Pointers
  <2>1. CASE i + 1 \in 1 .. Len(s)
    BY <1>1, <2>1 DEF Entry, Pointers
  <2>2. CASE i + 1 \notin 1 .. Len(s)
    <3>1. i = Len(s)
      <4> DEFINE n == Len(s)
      <4>1. n \in Nat /\ i \in 1 .. n /\ i + 1 \notin 1 .. n
        BY <1>0, <2>2
      <4> HIDE DEF n
      <4>2. i = n
        BY <4>1
      <4> QED
        BY <4>2 DEF n
    <3> QED
      BY <1>1, <2>2, <3>1 DEF Entry, Pointers
  <2> QED
    BY <2>1, <2>2
<1>3. ASSUME NEW x \in Tests
      PROVE  next'[x] = IF \E i \in DOMAIN s : s[i] = x THEN (Append(s, NIL))[1 + PlaceIn(s, x)] ELSE next[x]
  BY DEF Relink, PlaceIn
<1>4. ASSUME NEW i \in 1 .. Len(s)
      PROVE  next'[s[i]] = Entry(s, i + 1)
  <2>1. PlaceIn(s, s[i]) = i
    BY PlaceIs
  <2> QED
    BY <1>1, <1>2, <1>3, <2>1
<1>5. ASSUME NEW x \in Tests PROVE next'[x] \in Pointers
  <2>1. CASE \E i \in DOMAIN s : s[i] = x
    <3>1. PICK i \in 1 .. Len(s) : s[i] = x
      BY <1>1, <2>1
    <3> QED
      BY <1>2, <1>4, <3>1
  <2>2. CASE ~ \E i \in DOMAIN s : s[i] = x
    BY <1>3, <2>2
  <2> QED
    BY <2>1, <2>2
<1>6. next' \in [Tests -> Pointers]
  <2>1. next' = [x \in Tests |-> next'[x]]
    BY DEF Relink
  <2> QED
    BY <1>5, <2>1
<1>7. tests_head' = Entry(s, 1) /\ tests_head' \in Pointers
  <2>1. tests_head' = IF s = <<>> THEN NIL ELSE s[1]
    BY DEF Relink
  <2>2. s = <<>> <=> 1 \notin 1 .. Len(s)
    BY <1>1
  <2> QED
    BY <1>1, <2>1, <2>2 DEF Entry, Pointers
<1> QED
  BY <1>4, <1>6, <1>7 DEF Links

(* The tests of s in any order.                                            *)
Orders(s) == {a \in Seq(Tests) : Len(a) = Len(s) /\ OneToOne(a) /\ ToSet(a) = ToSet(s)}

LEMMA ReverseOrders ==
  ASSUME NEW s \in Seq(Tests), OneToOne(s)
  PROVE  Reverse(s) \in Orders(s)
<1> DEFINE n == Len(s)
           u == Reverse(s)
<1>1. n \in Nat /\ DOMAIN s = 1 .. n /\ \A i \in 1 .. n : s[i] \in Tests
  OBVIOUS
<1>2. \A i \in 1 .. n : n - i + 1 \in 1 .. n /\ n - (n - i + 1) + 1 = i
  BY <1>1
<1>3. u = [i \in 1 .. n |-> s[n - i + 1]]
  BY DEF Reverse
<1>4. u \in [1 .. n -> Tests] /\ \A i \in 1 .. n : u[i] = s[n - i + 1]
  BY <1>1, <1>2, <1>3
<1> HIDE DEF u
<1>5. u \in Seq(Tests) /\ Len(u) = n /\ DOMAIN u = 1 .. n
  BY <1>1, <1>4
<1>6. OneToOne(u)
  <2> SUFFICES ASSUME NEW i \in 1 .. n, NEW j \in 1 .. n, u[i] = u[j] PROVE i = j
    BY <1>5 DEF OneToOne
  <2>1. n - i + 1 = n - j + 1
    BY <1>2, <1>4 DEF OneToOne
  <2> QED
    BY <1>1, <2>1
<1>7. ToSet(u) = ToSet(s)
  <2>1. ToSet(u) = {u[i] : i \in 1 .. n} /\ ToSet(s) = {s[i] : i \in 1 .. n}
    BY <1>1, <1>5 DEF ToSet
  <2>2. \A i \in 1 .. n : u[n - i + 1] = s[i]
    BY <1>2, <1>4
  <2> HIDE DEF n
  <2> QED
    BY <1>2, <1>4, <2>1, <2>2
<1> QED
  BY <1>5, <1>6, <1>7 DEF Orders, u

LEMMA SwappedOrders ==
  ASSUME NEW s \in Seq(Tests), NEW a \in Orders(s), NEW i \in 1 .. Len(s), NEW j \in 1 .. Len(s)
  PROVE  Swapped(a, i, j) \in Orders(s)
<1> DEFINE n == Len(s)
           u == Swapped(a, i, j)
           to == [k \in 1 .. n |-> IF k = i THEN j ELSE IF k = j THEN i ELSE k]
<1>1. /\ n \in Nat /\ a \in [1 .. n -> Tests] /\ Len(a) = n /\ OneToOne(a) /\ ToSet(a) = ToSet(s)
  BY DEF Orders
<1>2. \A k \in 1 .. n : to[k] \in 1 .. n /\ to[to[k]] = k
  OBVIOUS
<1>3. u \in [1 .. n -> Tests] /\ \A k \in 1 .. n : u[k] = a[to[k]]
  <2>1. u = [a EXCEPT ![i] = a[j], ![j] = a[i]]
    BY DEF Swapped
  <2> HIDE DEF u
  <2> QED
    BY <1>1, <2>1
<1> HIDE DEF u, to
<1>4. u \in Seq(Tests) /\ Len(u) = n /\ DOMAIN u = 1 .. n /\ DOMAIN a = 1 .. n
  BY <1>1, <1>3
<1>5. OneToOne(u)
  <2> SUFFICES ASSUME NEW k \in 1 .. n, NEW l \in 1 .. n, u[k] = u[l] PROVE k = l
    BY <1>4 DEF OneToOne
  <2>1. to[k] = to[l]
    BY <1>1, <1>2, <1>3 DEF OneToOne
  <2> QED
    BY <1>2, <2>1
<1>6. ToSet(u) = ToSet(a)
  <2>1. ToSet(u) = {u[k] : k \in 1 .. n} /\ ToSet(a) = {a[k] : k \in 1 .. n}
    BY <1>4 DEF ToSet
  <2>2. \A k \in 1 .. n : u[to[k]] = a[k]
    BY <1>2, <1>3
  <2> HIDE DEF n
  <2> QED
    BY <1>2, <1>3, <2>1, <2>2
<1> QED
  BY <1>1, <1>4, <1>5, <1>6 DEF Orders, u

(* A recursion along 1 .. n within S.                                      *)
Steps(n, S) == [1 .. n -> [S -> S]]

Recursion(h, n, S, b, g) ==
  h \in [0 .. n -> S] /\ h[0] = b /\ \A k \in 1 .. n : h[k] = g[k][h[k - 1]]

LEMMA RecursionExists ==
  ASSUME NEW n \in Nat, NEW S, NEW b \in S, NEW g \in Steps(n, S)
  PROVE  \E h : Recursion(h, n, S, b, g)
<1> DEFINE Recurs(h, m) == h[0] = b /\ \A k \in 1 .. m : h[k] = g[k][h[k - 1]]
           F == {m \in 0 .. n : ~ \E h \in [0 .. m -> S] : Recurs(h, m)}
<1>1. ASSUME F # {} PROVE FALSE
  <2>1. F \in SUBSET Nat
    OBVIOUS
  <2> HIDE DEF F
  <2>2. PICK m \in F : \A k \in F : m <= k
    BY <1>1, <2>1, Least
  <2>3. m \in 0 .. n /\ ~ \E h \in [0 .. m -> S] : Recurs(h, m)
    BY <2>2 DEF F
  <2>4. CASE m = 0
    <3> DEFINE h == [k \in 0 .. 0 |-> b]
    <3>1. h \in [0 .. m -> S] /\ h[0] = b /\ 1 .. m = {}
      BY <2>4
    <3> QED
      BY <2>3, <3>1
  <2>5. CASE m # 0
    <3>1. m - 1 \in 0 .. n /\ ~ (m <= m - 1) /\ m \in 1 .. n
      BY <2>3, <2>5
    <3>2. m - 1 \notin F
      BY <2>2, <3>1
    <3>3. PICK f \in [0 .. m - 1 -> S] : Recurs(f, m - 1)
      BY <3>1, <3>2 DEF F
    <3> DEFINE h == [k \in 0 .. m |-> IF k = m THEN g[m][f[m - 1]] ELSE f[k]]
    <3>4. f[m - 1] \in S /\ g[m] \in [S -> S]
      BY <3>1, <3>3 DEF Steps
    <3>5. h \in [0 .. m -> S]
      BY <3>1, <3>4
    <3>6. h[0] = b
      BY <3>1, <3>3
    <3>7. ASSUME NEW k \in 1 .. m PROVE h[k] = g[k][h[k - 1]]
      <4>1. CASE k = m
        BY <3>1, <4>1
      <4>2. CASE k # m
        <5>1. k \in 1 .. m - 1 /\ k - 1 \in 0 .. m /\ k - 1 # m /\ k \in 0 .. m
          BY <3>1, <4>2
        <5>2. f[k] = g[k][f[k - 1]]
          BY <3>3, <5>1
        <5> QED
          BY <4>2, <5>1, <5>2
      <4> QED
        BY <4>1, <4>2
    <3> QED
      BY <2>3, <3>5, <3>6, <3>7
  <2> QED
    BY <2>4, <2>5
<1>2. n \in 0 .. n
  OBVIOUS
<1> HIDE DEF F
<1>3. n \notin F
  BY <1>1
<1> QED
  BY <1>2, <1>3 DEF F, Recursion

Shuffles(s, pick, h) ==
  h = [k \in 0 .. Len(s) |-> IF k = 0 THEN s
                             ELSE LET i == Len(s) + 1 - k IN Swapped(h[k - 1], i, pick[i])]

LEMMA ShuffledOrders ==
  ASSUME NEW s \in Seq(Tests), OneToOne(s), NEW pick \in [DOMAIN s -> DOMAIN s]
  PROVE  Shuffled(s, pick) \in Orders(s)
<1> DEFINE n == Len(s)
           S == Orders(s)
           g == [k \in 1 .. n |-> [a \in S |-> Swapped(a, n + 1 - k, pick[n + 1 - k])]]
           r == CHOOSE h : Shuffles(s, pick, h)
<1>1. n \in Nat /\ DOMAIN s = 1 .. n
  OBVIOUS
<1>2. s \in S
  BY DEF Orders
<1>3. ASSUME NEW k \in 1 .. n, NEW a \in S PROVE Swapped(a, n + 1 - k, pick[n + 1 - k]) \in S
  <2>1. n + 1 - k \in 1 .. n
    BY <1>1
  <2>2. pick[n + 1 - k] \in 1 .. n
    BY <1>1, <2>1
  <2> QED
    BY <2>1, <2>2, SwappedOrders
<1>4. g \in Steps(n, S)
  BY <1>3 DEF Steps
<1> HIDE DEF S
<1>5. PICK h : Recursion(h, n, S, s, g)
  <2> HIDE DEF g, n
  <2> QED
    BY <1>1, <1>2, <1>4, RecursionExists
<1>6. Shuffles(s, pick, h)
  <2>1. ASSUME NEW k \in 0 .. n
        PROVE  h[k] = IF k = 0 THEN s ELSE Swapped(h[k - 1], n + 1 - k, pick[n + 1 - k])
    <3>1. CASE k = 0
      BY <1>5, <3>1 DEF Recursion
    <3>2. CASE k # 0
      <4>1. k \in 1 .. n /\ k - 1 \in 0 .. n
        BY <1>1, <3>2
      <4>2. h[k - 1] \in S /\ h[k] = g[k][h[k - 1]]
        BY <1>5, <4>1 DEF Recursion
      <4> QED
        BY <3>2, <4>1, <4>2
    <3> QED
      BY <3>1, <3>2
  <2>2. h = [k \in 0 .. n |-> h[k]]
    BY <1>5 DEF Recursion
  <2> QED
    BY <2>1, <2>2 DEF Shuffles
<1>7. Shuffles(s, pick, r)
  BY <1>6
<1>8. Shuffled(s, pick) = r[n]
  BY DEF Shuffled, Shuffles
<1> HIDE DEF r
<1> DEFINE F == {k \in 0 .. n : r[k] \notin S}
<1>9. ASSUME F # {} PROVE FALSE
  <2>1. F \in SUBSET Nat
    OBVIOUS
  <2> HIDE DEF F
  <2>2. PICK m \in F : \A k \in F : m <= k
    BY <1>9, <2>1, Least
  <2>3. m \in 0 .. n /\ r[m] \notin S
    BY <2>2 DEF F
  <2>4. r[m] = IF m = 0 THEN s ELSE Swapped(r[m - 1], n + 1 - m, pick[n + 1 - m])
    BY <1>7, <2>3 DEF Shuffles
  <2>5. CASE m = 0
    BY <1>2, <2>3, <2>4, <2>5
  <2>6. CASE m # 0
    <3>1. m - 1 \in 0 .. n /\ ~ (m <= m - 1) /\ m \in 1 .. n
      BY <1>1, <2>3, <2>6
    <3>2. r[m - 1] \in S
      BY <2>2, <3>1 DEF F
    <3> QED
      BY <1>3, <2>3, <2>4, <2>6, <3>1, <3>2
  <2> QED
    BY <2>5, <2>6
<1>10. n \in 0 .. n
  BY <1>1
<1> QED
  BY <1>8, <1>9, <1>10 DEF S

LEMMA NewOrder ==
  ASSUME ListInv, NEW s \in Seq(Tests), IsList(s), NEW a \in Orders(s), Relink(a),
         UNCHANGED <<ordered, level, installed>>, status' = "running", shuffles' \in 0 .. MaxShuffles
  PROVE  ListInv'
<1>1. /\ TypeOK /\ OneToOne(installed) /\ \A y \in Tests \ ToSet(installed) : level[y] = Plain
      /\ next \in [Tests -> Pointers]
  BY DEF ListInv, TypeOK
<1>2. a \in Seq(Tests) /\ OneToOne(a) /\ Len(a) = Len(s) /\ ToSet(a) = ToSet(s)
  BY DEF Orders
<1>3. /\ Links(next', tests_head', a)
      /\ next' \in [Tests -> Pointers] /\ tests_head' \in Pointers
  BY <1>1, <1>2, RelinkStep
<1>4. IsList(a)'
  BY <1>2, <1>3 DEF IsList
<1>5. TypeOK'
  BY <1>1, <1>3 DEF TypeOK, ordered
<1> QED
  BY <1>1, <1>2, <1>4, <1>5 DEF ListInv, ordered

LEMMA RegisteredIs ==
  ASSUME NEW s, IsList(s)
  PROVE  Registered = s /\ OneToOne(s)
BY ChainIs DEF IsList, Registered, Links

LEMMA BeginStep ==
  ASSUME ListInv, Begin
  PROVE  ListInv'
<1>1. /\ status' = "running" /\ UNCHANGED <<list, ordered, level, shuffles, installed>>
      /\ status = "installing"
  BY DEF Begin
<1>2. PICK s \in Seq(Tests) : IsList(s)
  BY <1>1 DEF ListInv
<1>3. IsList(s)'
  BY <1>1, <1>2 DEF IsList, list
<1>4. TypeOK'
  BY <1>1 DEF ListInv, TypeOK, list, ordered
<1> QED
  BY <1>1, <1>3, <1>4 DEF ListInv

LEMMA BeginReversedStep ==
  ASSUME ListInv, BeginReversed
  PROVE  ListInv'
<1>1. PICK s \in Seq(Tests) : IsList(s)
  BY DEF ListInv, BeginReversed
<1>2. Reverse(Registered) \in Orders(s)
  BY <1>1, RegisteredIs, ReverseOrders
<1>3. shuffles' \in 0 .. MaxShuffles
  BY DEF ListInv, TypeOK, BeginReversed
<1> QED
  BY <1>1, <1>2, <1>3, NewOrder DEF BeginReversed

LEMMA ShuffleStep ==
  ASSUME ListInv, Shuffle
  PROVE  ListInv'
<1>1. PICK s \in Seq(Tests) : IsList(s)
  BY DEF ListInv, Shuffle
<1>2. Registered = s /\ OneToOne(s)
  BY <1>1, RegisteredIs
<1>3. PICK pick \in [DOMAIN s -> DOMAIN s] : Relink(Shuffled(s, pick))
  BY <1>2 DEF Shuffle
<1>4. Shuffled(s, pick) \in Orders(s)
  BY <1>2, ShuffledOrders
<1>5. shuffles' \in 0 .. MaxShuffles
  <2>1. shuffles \in 0 .. MaxShuffles /\ shuffles < MaxShuffles /\ shuffles' = shuffles + 1
    BY DEF ListInv, TypeOK, Shuffle
  <2> QED
    BY <2>1, RegistryAssumption
<1> QED
  BY <1>1, <1>3, <1>4, <1>5, NewOrder DEF Shuffle

LEMMA SameRegistry ==
  ASSUME ListInv, UNCHANGED vars
  PROVE  ListInv'
<1>1. \A s : Sorted(s) <=> Sorted(s)'
  <2> TAKE s
  <2>1. \A x : When(x)' = When(x)
    BY DEF When, vars
  <2>2. \A x, y : InOrder(x, y) <=> InOrder(x, y)'
    BY <2>1 DEF InOrder, vars
  <2> QED
    BY <2>2 DEF Sorted
<1>2. \A s, m : (IsList(s) <=> IsList(s)') /\ (Parts(s, m) <=> Parts(s, m)')
  BY DEF IsList, Parts, vars, list, ordered
<1>3. TypeOK'
  BY DEF ListInv, TypeOK, vars, list, ordered
<1> QED
  BY <1>1, <1>2, <1>3 DEF ListInv, vars

LEMMA ListInit ==
  ASSUME ProgramInit
  PROVE  ListInv
<1>1. Init
  BY DEF ProgramInit
<1>2. TypeOK
  BY <1>1, RegistryAssumption DEF Init, TypeOK, Pointers
<1> DEFINE s == <<>>
<1>3. s \in Seq(Tests) /\ Len(s) = 0 /\ 1 .. 0 = {} /\ installed = s
  BY <1>1 DEF Init
<1> HIDE DEF s
<1>4. OneToOne(installed) /\ \A x \in Tests : level[x] = Plain
  BY <1>1, <1>3 DEF Init, OneToOne
<1>5. IsList(s) /\ Parts(s, 0) /\ Sorted(s)
  <2>1. Links(next, tests_head, s)
    BY <1>1, <1>3 DEF Init, Links, Entry, OneToOne
  <2>2. IsList(s)
    BY <1>3, <2>1 DEF IsList
  <2>3. Parts(s, 0)
    BY <1>1, <1>3 DEF Init, Parts, Entry
  <2>4. Sorted(s)
    BY <1>3 DEF Sorted
  <2> QED
    BY <2>2, <2>3, <2>4
<1>6. \E u \in Seq(Tests), m \in Nat : IsList(u) /\ Parts(u, m) /\ Sorted(u)
  <2>1. 0 \in Nat
    OBVIOUS
  <2> QED
    BY <1>3, <1>5, <2>1
<1>7. status = "installing"
  BY <1>1 DEF Init
<1> QED
  BY <1>2, <1>4, <1>6, <1>7 DEF ListInv

LEMMA ListNext ==
  ASSUME ListInv, [ProgramNext]_allVars
  PROVE  ListInv'
<1>1. CASE Initialise
  BY <1>1, InstallStep, InstallOrderedStep, UndoStep DEF Initialise
<1>2. CASE Start
  BY <1>2, BeginStep, BeginReversedStep DEF Start
<1>3. CASE StartRepetition
  BY <1>3, ShuffleStep, SameRegistry DEF StartRepetition
<1>4. CASE UNCHANGED vars
  BY <1>4, SameRegistry
<1>5. RunTest \/ EndRepetition \/ EndRun \/ Stopped \/ UNCHANGED allVars => UNCHANGED vars
  BY DEF RunTest, EndRepetition, EndRun, Stopped, allVars
<1> QED
  BY <1>1, <1>2, <1>3, <1>4, <1>5 DEF ProgramNext

THEOREM ListInvHolds == ProgramSpec => []ListInv
<1>1. ProgramInit => ListInv
  BY ListInit
<1>2. ListInv /\ [ProgramNext]_allVars => ListInv'
  BY ListNext
<1> QED
  BY <1>1, <1>2, PTL DEF ProgramSpec

(* The registry keeps its types, whatever the initialisers and the options *)
(* make of it.                                                             *)
THEOREM RegistryTypes == ProgramSpec => []TypeOK
<1>1. ListInv => TypeOK
  BY DEF ListInv
<1> QED
  BY <1>1, ListInvHolds, PTL

(* The chain that a run follows (cu_registry_add, OrderedTest.h, the       *)
(* relinking of -b and -s) holds every installed test once and ends; until *)
(* -b or -s the ordered tests are its last, by level.                      *)
THEOREM ListIsKept == ProgramSpec => []ListKept
<1>1. ListInv => ListKept
  <2> SUFFICES ASSUME ListInv PROVE ListKept
    OBVIOUS
  <2>1. ASSUME status # "crashed"
        PROVE  \E s \in Seq(Tests) : IsList(s) /\ (status = "installing" => Sorted(s))
    <3>1. status \in {"installing", "running"}
      BY <2>1 DEF ListInv, TypeOK
    <3> QED
      BY <3>1 DEF ListInv
  <2>2. CASE status = "crashed"
    BY <2>2 DEF ListKept
  <2>3. CASE status # "crashed"
    <3>1. PICK s \in Seq(Tests) : IsList(s) /\ (status = "installing" => Sorted(s))
      BY <2>1, <2>3
    <3>2. Registered = s
      BY <3>1, RegisteredIs
    <3>3. Len(Registered) = Len(installed) /\ ToSet(Registered) = ToSet(installed)
      BY <3>1, <3>2 DEF IsList
    <3>4. DOMAIN Registered = 1 .. Len(s)
      BY <3>2
    <3> QED
      BY <3>1, <3>2, <3>3, <3>4 DEF ListKept, Sorted
  <2> QED
    BY <2>2, <2>3
<1> QED
  BY <1>1, ListInvHolds, PTL

-------------------------------------------------------------------------------
(* The exit status *)

RepetitionType == [failures : Nat, ran : BOOLEAN]

(* The failures and the repetitions without success of what is done.       *)
AllFailures == UNION {{i} \X (1 .. done[i].failures) : i \in DOMAIN done}
Unsuccessful == {i \in DOMAIN done : ~done[i].ran \/ done[i].failures # 0}

FailedInv ==
  /\ done \in Seq(RepetitionType)
  /\ failed \in [tests : Nat, executions : Nat]
  /\ IsFiniteSet(AllFailures) /\ failed.tests = Cardinality(AllFailures)
  /\ IsFiniteSet(Unsuccessful) /\ failed.executions = Cardinality(Unsuccessful)

(* The tests behind the one that the loop is at have nothing recorded of   *)
(* them yet.                                                               *)
Pending ==
  \E s \in Seq(Tests), k \in Nat :
    /\ IsList(s) /\ k \in 1 .. Len(s) + 1 /\ t = Entry(s, k)
    /\ \A x \in DidRun : \E i \in 1 .. Len(s) : i < k /\ x = s[i]

FailurePairs == UNION {{x} \X DOMAIN did[x].failures : x \in DidRun}

ResultType == [test_count : Nat, run_count : Nat, check_count : Nat, failure_count : Nat,
               ignored_count : Nat, filtered_out_count : Nat]

(* The results of the repetition against what its tests did.               *)
ResultsInv ==
  /\ did \in [Tests -> Outcomes \cup {Nothing, NotDone}]
  /\ res \in ResultType
  /\ IsFiniteSet(FailurePairs) /\ res.failure_count = Cardinality(FailurePairs)
  /\ res.run_count + res.ignored_count = 0 <=> DidRun = {}

PhaseInv ==
  /\ phase \in {"before", "between", Running, "exited"}
  /\ loop \in Nat /\ (phase = "before" => loop = 0)
  /\ phase # "before" => status = "running"
  /\ phase = "exited" /\ loop > 0 =>
       exit = (IF failed.tests # 0 THEN failed.tests ELSE failed.executions) % StatusRange

ExitInv ==
  /\ PhaseInv /\ FailedInv
  /\ phase = Running => Pending /\ ResultsInv

LEMMA MoreOf ==
  ASSUME NEW S, IsFiniteSet(S), NEW x, NEW n \in Nat, \A p \in S : p[1] # x
  PROVE  /\ IsFiniteSet(S \cup ({x} \X (1 .. n)))
         /\ Cardinality(S \cup ({x} \X (1 .. n))) = Cardinality(S) + n
<1> DEFINE T == {x} \X (1 .. n)
<1>1. IsFiniteSet({x}) /\ Cardinality({x}) = 1
  BY FS_Singleton
<1>2. IsFiniteSet(1 .. n) /\ Cardinality(1 .. n) = n
  BY UpToCardinality
<1>3. IsFiniteSet(T) /\ Cardinality(T) = 1 * n
  <2> DEFINE A == {x}
             B == 1 .. n
  <2>1. IsFiniteSet(A) /\ Cardinality(A) = 1 /\ IsFiniteSet(B) /\ Cardinality(B) = n
    BY <1>1, <1>2
  <2> HIDE DEF A, B
  <2>2. IsFiniteSet(A \X B) /\ Cardinality(A \X B) = Cardinality(A) * Cardinality(B)
    BY <2>1, FS_Product
  <2>3. IsFiniteSet(A \X B) /\ Cardinality(A \X B) = 1 * n
    BY <2>1, <2>2
  <2> QED
    BY <2>3 DEF A, B
<1>4. S \cap T = {}
  <2>1. \A p \in T : p[1] = x
    OBVIOUS
  <2> HIDE DEF T
  <2> QED
    BY <2>1
<1> HIDE DEF T
<1>5. /\ IsFiniteSet(S \cup T)
      /\ Cardinality(S \cup T) = Cardinality(S) + Cardinality(T) - Cardinality(S \cap T)
  BY <1>3, FS_Union
<1>6. Cardinality(S \cap T) = 0
  BY <1>4, FS_EmptySet
<1>7. Cardinality(S) \in Nat
  BY FS_CardinalityType
<1>8. Cardinality(S \cup T) = Cardinality(S) + n
  BY <1>3, <1>5, <1>6, <1>7
<1> QED
  BY <1>5, <1>8 DEF T

LEMMA NothingTypes ==
  /\ Nothing # NotDone
  /\ \A o \in Outcomes : o # NotDone
  /\ \A o \in Outcomes \cup {Nothing, NotDone} :
       Len(o.failures) \in Nat /\ DOMAIN o.failures = 1 .. Len(o.failures)
<1>1. Nothing # NotDone
  <2>1. Nothing.checks = 0 /\ NotDone.checks = -1
    BY DEF Nothing, NotDone
  <2> QED
    BY <2>1
<1>2. ASSUME NEW o \in Outcomes PROVE o # NotDone
  <2>1. o.checks \in Nat /\ NotDone.checks = -1
    BY ProgramAssumption DEF NotDone
  <2> QED
    BY <2>1
<1>3. ASSUME NEW o \in Outcomes \cup {Nothing, NotDone} PROVE o.failures \in Seq(STRING)
  <2>1. CASE o \in Outcomes
    BY <2>1, ProgramAssumption
  <2>2. CASE o \in {Nothing, NotDone}
    <3>1. o.failures = <<>>
      BY <2>2 DEF Nothing, NotDone
    <3>2. <<>> \in Seq(STRING)
      OBVIOUS
    <3> QED
      BY <3>1, <3>2
  <2> QED
    BY <2>1, <2>2
<1> QED
  BY <1>1, <1>2, <1>3

(* A repetition is added up.                                               *)
LEMMA RepetitionAdded ==
  ASSUME FailedInv, ResultsInv, EndRepetition
  PROVE  FailedInv'
<1> DEFINE e == [failures |-> FailuresOf(DidRun), ran |-> DidRun # {}]
           n == Len(done)
<1>1. e.failures = res.failure_count /\ res.failure_count \in Nat
  BY DEF ResultsInv, FailuresOf, FailurePairs, ResultType
<1>2. e \in RepetitionType /\ e.failures \in Nat /\ e.ran \in BOOLEAN
  BY <1>1 DEF RepetitionType
<1>3. e.ran <=> res.run_count + res.ignored_count # 0
  BY DEF ResultsInv
<1> HIDE DEF e
<1>4. done' = Append(done, e) /\ done \in Seq(RepetitionType) /\ n \in Nat
  BY DEF EndRepetition, FailedInv, e
<1>5. /\ done' \in Seq(RepetitionType) /\ DOMAIN done = 1 .. n /\ DOMAIN done' = 1 .. n + 1
      /\ done'[n + 1] = e /\ \A i \in 1 .. n : done'[i] = done[i]
  BY <1>2, <1>4
<1> HIDE DEF n
<1>6. AllFailures' = AllFailures \cup ({n + 1} \X (1 .. e.failures))
  <2> DEFINE new == UNION {{i} \X (1 .. done'[i].failures) : i \in 1 .. n + 1}
             old == UNION {{i} \X (1 .. done[i].failures) : i \in 1 .. n}
             last == {n + 1} \X (1 .. done'[n + 1].failures)
  <2>1. \A i \in 1 .. n + 1 : i \in 1 .. n \/ i = n + 1
    BY <1>4
  <2>2. \A i \in 1 .. n : i \in 1 .. n + 1
    BY <1>4
  <2>3. n + 1 \in 1 .. n + 1
    BY <1>4
  <2>4. ASSUME NEW p PROVE p \in new <=> p \in old \/ p \in last
    <3>1. p \in new <=> \E i \in 1 .. n + 1 : p \in {i} \X (1 .. done'[i].failures)
      OBVIOUS
    <3>2. p \in old <=> \E i \in 1 .. n : p \in {i} \X (1 .. done[i].failures)
      OBVIOUS
    <3>3. \A i \in 1 .. n : {i} \X (1 .. done'[i].failures) = {i} \X (1 .. done[i].failures)
      BY <1>5
    <3> HIDE DEF new, old
    <3> QED
      BY <2>1, <2>2, <2>3, <3>1, <3>2, <3>3
  <2>5. AllFailures' = new /\ AllFailures = old
    BY <1>5 DEF AllFailures
  <2>6. last = {n + 1} \X (1 .. e.failures)
    BY <1>5
  <2> HIDE DEF new, old, last
  <2>7. new = old \cup last
    BY <2>4
  <2> QED
    BY <2>5, <2>6, <2>7
<1>7. \A p \in AllFailures : p[1] # n + 1
  <2>1. \A p \in AllFailures : \E i \in 1 .. n : p[1] = i
    BY <1>5 DEF AllFailures
  <2> QED
    BY <1>4, <2>1
<1>8. IsFiniteSet(AllFailures') /\ Cardinality(AllFailures') = failed.tests + e.failures
  <2> DEFINE new == {n + 1} \X (1 .. e.failures)
  <2>1. IsFiniteSet(AllFailures) /\ failed.tests = Cardinality(AllFailures)
    BY DEF FailedInv
  <2>2. /\ IsFiniteSet(AllFailures \cup new)
        /\ Cardinality(AllFailures \cup new) = Cardinality(AllFailures) + e.failures
    <3> DEFINE x == n + 1
               f == e.failures
    <3>1. f \in Nat /\ \A p \in AllFailures : p[1] # x
      BY <1>2, <1>7
    <3> HIDE DEF x, f
    <3>2. /\ IsFiniteSet(AllFailures \cup ({x} \X (1 .. f)))
          /\ Cardinality(AllFailures \cup ({x} \X (1 .. f))) = Cardinality(AllFailures) + f
      BY <2>1, <3>1, MoreOf
    <3> QED
      BY <3>2 DEF x, f
  <2> HIDE DEF new
  <2>3. AllFailures' = AllFailures \cup new
    BY <1>6 DEF new
  <2> QED
    BY <2>1, <2>2, <2>3
<1>9. Unsuccessful' = IF IsFailure(res) THEN Unsuccessful \cup {n + 1} ELSE Unsuccessful
  <2>1. IsFailure(res) <=> (~e.ran \/ e.failures # 0)
    BY <1>1, <1>3 DEF IsFailure
  <2>2. Unsuccessful' = {i \in 1 .. n + 1 : ~done'[i].ran \/ done'[i].failures # 0}
    BY <1>5 DEF Unsuccessful
  <2>3. Unsuccessful = {i \in 1 .. n : ~done[i].ran \/ done[i].failures # 0}
    BY <1>5 DEF Unsuccessful
  <2>4. \A i \in 1 .. n + 1 : i \in 1 .. n \/ i = n + 1
    BY <1>4
  <2>5. \A i \in 1 .. n : i \in 1 .. n + 1
    BY <1>4
  <2>6. n + 1 \in 1 .. n + 1
    BY <1>4
  <2> QED
    BY <1>5, <2>1, <2>2, <2>3, <2>4, <2>5, <2>6
<1>10. n + 1 \notin Unsuccessful
  BY <1>4, <1>5 DEF Unsuccessful
<1>11. /\ IsFiniteSet(Unsuccessful')
       /\ Cardinality(Unsuccessful') = failed.executions + IF IsFailure(res) THEN 1 ELSE 0
  <2>1. IsFiniteSet(Unsuccessful) /\ Cardinality(Unsuccessful) = failed.executions /\ failed.executions \in Nat
    BY DEF FailedInv
  <2>2. /\ IsFiniteSet(Unsuccessful \cup {n + 1})
        /\ Cardinality(Unsuccessful \cup {n + 1}) = Cardinality(Unsuccessful) + 1
    BY <1>10, <2>1, FS_AddElement
  <2> QED
    BY <1>9, <2>1, <2>2
<1>12. /\ failed' = [tests |-> failed.tests + res.failure_count,
                     executions |-> failed.executions + IF IsFailure(res) THEN 1 ELSE 0]
       /\ failed.tests \in Nat /\ failed.executions \in Nat
  BY DEF EndRepetition, FailedSoFar, FailedInv
<1>13. failed' \in [tests : Nat, executions : Nat]
  BY <1>1, <1>12
<1>14. /\ failed'.tests = failed.tests + res.failure_count
       /\ failed'.executions = failed.executions + IF IsFailure(res) THEN 1 ELSE 0
  BY <1>12
<1> QED
  BY <1>1, <1>5, <1>8, <1>11, <1>13, <1>14 DEF FailedInv

(* A repetition starts anew.                                               *)
LEMMA RepetitionStarts ==
  ASSUME ListInv', status' = "running", StartRepetition
  PROVE  Pending' /\ ResultsInv'
<1>1. did' = [x \in Tests |-> NotDone] /\ res' = NoResult /\ t' = tests_head'
  BY DEF StartRepetition
<1>2. DidRun' = {}
  BY <1>1 DEF DidRun
<1>3. Pending'
  <2>1. PICK s \in Seq(Tests) : IsList(s)'
    BY DEF ListInv
  <2>2. t' = Entry(s, 1) /\ 1 \in Nat /\ 1 \in 1 .. Len(s) + 1
    BY <1>1, <2>1 DEF IsList, Links
  <2> QED
    BY <1>2, <2>1, <2>2 DEF Pending
<1>4. FailurePairs' = {}
  BY <1>2 DEF FailurePairs
<1>5. IsFiniteSet({}) /\ Cardinality({}) = 0
  BY FS_EmptySet
<1>6. ResultsInv'
  BY <1>1, <1>2, <1>4, <1>5 DEF ResultsInv, NoResult, ResultType
<1> QED
  BY <1>3, <1>6

(* The loop goes on to the next test.                                      *)
LEMMA TestPending ==
  ASSUME ListInv, Pending, phase = Running, RunTest
  PROVE  /\ t \in Tests /\ did[t] = NotDone
         /\ DidRun' \subseteq DidRun \cup {t} => Pending'
<1>1. PICK s \in Seq(Tests), k \in Nat :
        /\ IsList(s) /\ k \in 1 .. Len(s) + 1 /\ t = Entry(s, k)
        /\ \A x \in DidRun : \E i \in 1 .. Len(s) : i < k /\ x = s[i]
  BY DEF Pending
<1>2. /\ Len(s) \in Nat /\ OneToOne(s) /\ \A i \in 1 .. Len(s) : s[i] \in Tests
      /\ \A i \in 1 .. Len(s) : next[s[i]] = Entry(s, i + 1)
  BY <1>1 DEF IsList, Links
<1>3. t # NIL /\ t' = next[t] /\ UNCHANGED vars
  BY DEF RunTest
<1>4. k \in 1 .. Len(s) /\ t = s[k]
  BY <1>1, <1>3 DEF Entry
<1>5. t \in Tests
  BY <1>2, <1>4
<1>6. did[t] = NotDone
  <2> SUFFICES ASSUME did[t] # NotDone PROVE FALSE
    OBVIOUS
  <2>1. t \in DidRun
    BY <1>5 DEF DidRun
  <2>2. PICK i \in 1 .. Len(s) : i < k /\ t = s[i]
    BY <1>1, <2>1
  <2>3. i = k
    BY <1>2, <1>4, <2>2 DEF OneToOne
  <2> QED
    BY <1>4, <2>2, <2>3
<1>7. ASSUME DidRun' \subseteq DidRun \cup {t} PROVE Pending'
  <2>1. IsList(s)'
    BY <1>1, <1>3 DEF IsList, vars, list
  <2>2. k + 1 \in 1 .. Len(s) + 1 /\ t' = Entry(s, k + 1) /\ k + 1 \in Nat
    BY <1>2, <1>3, <1>4
  <2>3. ASSUME NEW x \in DidRun' PROVE \E i \in 1 .. Len(s) : i < k + 1 /\ x = s[i]
    <3>1. CASE x = t
      BY <1>2, <1>4, <3>1
    <3>2. CASE x \in DidRun
      <4>1. PICK i \in 1 .. Len(s) : i < k /\ x = s[i]
        BY <1>1, <3>2
      <4> QED
        BY <1>2, <4>1
    <3> QED
      BY <1>7, <2>3, <3>1, <3>2
  <2> QED
    BY <2>1, <2>2, <2>3 DEF Pending
<1> QED
  BY <1>5, <1>6, <1>7

LEMMA FilteredFields ==
  ASSUME NEW r \in ResultType, NEW a \in Nat, NEW b \in Nat
  PROVE  LET u == [r EXCEPT !.test_count = a, !.filtered_out_count = b]
         IN  /\ u \in ResultType /\ u.failure_count = r.failure_count
             /\ u.run_count = r.run_count /\ u.ignored_count = r.ignored_count
BY DEF ResultType

(* A test counts as many failures as it has.                               *)
LEMMA TestCounted ==
  ASSUME ResultsInv, t \in Tests, did[t] = NotDone,
         NEW o \in Outcomes \cup {Nothing}, did' = [did EXCEPT ![t] = o],
         res' = Counted(t, o), o.checks \in Nat
  PROVE  ResultsInv' /\ DidRun' = DidRun \cup {t}
<1>1. /\ did \in [Tests -> Outcomes \cup {Nothing, NotDone}]
      /\ res \in ResultType
      /\ IsFiniteSet(FailurePairs) /\ res.failure_count = Cardinality(FailurePairs)
  BY DEF ResultsInv
<1>2. o # NotDone /\ Len(o.failures) \in Nat /\ DOMAIN o.failures = 1 .. Len(o.failures)
  BY NothingTypes
<1>3. /\ did' \in [Tests -> Outcomes \cup {Nothing, NotDone}] /\ did'[t] = o
      /\ \A x \in Tests \ {t} : did'[x] = did[x]
  BY <1>1
<1>4. DidRun' = DidRun \cup {t} /\ t \notin DidRun
  BY <1>2, <1>3 DEF DidRun
<1> DEFINE n == Len(o.failures)
           new == {t} \X (1 .. n)
<1>5. FailurePairs' = FailurePairs \cup new
  <2> DEFINE late == UNION {{x} \X DOMAIN did'[x].failures : x \in DidRun \cup {t}}
             old == UNION {{x} \X DOMAIN did[x].failures : x \in DidRun}
  <2>1. \A x \in DidRun : x \in Tests \ {t}
    BY <1>4 DEF DidRun
  <2>2. ASSUME NEW p PROVE p \in late <=> p \in old \/ p \in new
    <3>1. p \in late <=> \E x \in DidRun \cup {t} : p \in {x} \X DOMAIN did'[x].failures
      OBVIOUS
    <3>2. p \in old <=> \E x \in DidRun : p \in {x} \X DOMAIN did[x].failures
      OBVIOUS
    <3>3. \A x \in DidRun : {x} \X DOMAIN did'[x].failures = {x} \X DOMAIN did[x].failures
      BY <1>3, <2>1
    <3>4. {t} \X DOMAIN did'[t].failures = new
      BY <1>2, <1>3
    <3> HIDE DEF late, old, new
    <3> QED
      BY <3>1, <3>2, <3>3, <3>4
  <2>3. FailurePairs' = late /\ FailurePairs = old
    BY <1>4 DEF FailurePairs
  <2> HIDE DEF late, old, new
  <2> QED
    BY <2>2, <2>3
<1>6. \A p \in FailurePairs : p[1] # t
  <2>1. \A p \in FailurePairs : \E x \in DidRun : p[1] = x
    BY DEF FailurePairs
  <2> QED
    BY <1>4, <2>1
<1>7. IsFiniteSet(FailurePairs \cup new) /\ Cardinality(FailurePairs \cup new) = Cardinality(FailurePairs) + n
  <2>1. n \in Nat
    BY <1>2
  <2> HIDE DEF n
  <2> QED
    BY <1>1, <1>6, <2>1, MoreOf
<1> HIDE DEF new
<1>8. IsFiniteSet(FailurePairs') /\ Cardinality(FailurePairs') = res.failure_count + n
  BY <1>1, <1>5, <1>7
<1>9. /\ res' \in ResultType
      /\ res'.failure_count = res.failure_count + n
      /\ res'.run_count + res'.ignored_count # 0
  <2>1. res' = [res EXCEPT !.test_count = @ + 1, !.check_count = @ + o.checks,
                           !.failure_count = @ + n,
                           !.run_count = IF WillRun(t) THEN @ + 1 ELSE @,
                           !.ignored_count = IF WillRun(t) THEN @ ELSE @ + 1]
    BY DEF Counted
  <2>2. n \in Nat
    BY <1>2
  <2> HIDE DEF n
  <2>3. /\ res.test_count \in Nat /\ res.check_count \in Nat /\ res.failure_count \in Nat
        /\ res.run_count \in Nat /\ res.ignored_count \in Nat
    BY <1>1 DEF ResultType
  <2> DEFINE a == res.test_count + 1
             b == res.check_count + o.checks
             c == res.failure_count + n
             d == IF WillRun(t) THEN res.run_count + 1 ELSE res.run_count
             e == IF WillRun(t) THEN res.ignored_count ELSE res.ignored_count + 1
  <2>4. /\ a \in Nat /\ b \in Nat /\ c \in Nat /\ d \in Nat /\ e \in Nat
        /\ d + e # 0
    BY <2>2, <2>3
  <2>5. res' = [res EXCEPT !.test_count = a, !.check_count = b, !.failure_count = c,
                           !.run_count = d, !.ignored_count = e]
    BY <2>1
  <2>6. c = res.failure_count + n
    OBVIOUS
  <2> HIDE DEF a, b, c, d, e
  <2>7. LET u == [res EXCEPT !.test_count = a, !.check_count = b, !.failure_count = c,
                              !.run_count = d, !.ignored_count = e]
        IN  u \in ResultType /\ u.failure_count = c /\ u.run_count = d /\ u.ignored_count = e
    BY <1>1, <2>4 DEF ResultType
  <2>8. res' \in ResultType /\ res'.failure_count = c /\ res'.run_count = d /\ res'.ignored_count = e
    BY <2>5, <2>7
  <2> QED
    BY <2>4, <2>6, <2>8
<1>10. DidRun' # {}
  BY <1>4
<1> QED
  BY <1>3, <1>4, <1>8, <1>9, <1>10 DEF ResultsInv

LEMMA RunTestStep ==
  ASSUME ListInv, Pending, ResultsInv, phase = Running, RunTest
  PROVE  Pending' /\ ResultsInv'
<1>1. t \in Tests /\ did[t] = NotDone
  BY TestPending
<1>2. CASE TestShouldRun(args, t)
  <2>1. PICK o \in IF WillRun(t) THEN Outcomes ELSE {Nothing} :
          res' = Counted(t, o) /\ did' = [did EXCEPT ![t] = o]
    BY <1>2 DEF RunTest
  <2>2. o \in Outcomes \cup {Nothing} /\ o.checks \in Nat
    <3>1. o \in Outcomes => o.checks \in Nat
      BY ProgramAssumption
    <3>2. Nothing.checks \in Nat
      BY DEF Nothing
    <3> QED
      BY <3>1, <3>2
  <2>3. ResultsInv' /\ DidRun' = DidRun \cup {t}
    BY <1>1, <2>1, <2>2, TestCounted
  <2> QED
    BY <2>3, TestPending
<1>3. CASE ~TestShouldRun(args, t)
  <2>1. res' = [res EXCEPT !.test_count = @ + 1, !.filtered_out_count = @ + 1] /\ did' = did
    BY <1>3 DEF RunTest
  <2>2. DidRun' = DidRun /\ FailurePairs' = FailurePairs
    BY <2>1 DEF DidRun, FailurePairs
  <2>3. /\ res' \in ResultType
        /\ res'.failure_count = res.failure_count /\ res'.run_count = res.run_count
        /\ res'.ignored_count = res.ignored_count
    <3>1. res \in ResultType
      BY DEF ResultsInv
    <3> DEFINE a == res.test_count + 1
               b == res.filtered_out_count + 1
    <3>2. a \in Nat /\ b \in Nat
      BY <3>1 DEF ResultType
    <3>3. res' = [res EXCEPT !.test_count = a, !.filtered_out_count = b]
      BY <2>1
    <3> HIDE DEF a, b
    <3>4. LET u == [res EXCEPT !.test_count = a, !.filtered_out_count = b]
          IN  /\ u \in ResultType /\ u.failure_count = res.failure_count
              /\ u.run_count = res.run_count /\ u.ignored_count = res.ignored_count
      BY <3>1, <3>2, FilteredFields
    <3> QED
      BY <3>3, <3>4
  <2>4. ResultsInv'
    BY <2>1, <2>2, <2>3 DEF ResultsInv
  <2> QED
    BY <2>2, <2>4, TestPending
<1> QED
  BY <1>2, <1>3

LEMMA ExitInit == ProgramInit => ExitInv
<1> SUFFICES ASSUME ProgramInit PROVE ExitInv
  OBVIOUS
<1>1. /\ phase = "before" /\ loop = 0 /\ done = <<>>
      /\ failed = [tests |-> 0, executions |-> 0]
  BY DEF ProgramInit
<1>2. PhaseInv /\ phase # Running
  BY <1>1 DEF PhaseInv, Running
<1>3. AllFailures = {} /\ Unsuccessful = {}
  BY <1>1 DEF AllFailures, Unsuccessful
<1>4. done \in Seq(RepetitionType) /\ failed \in [tests : Nat, executions : Nat]
  BY <1>1
<1>5. FailedInv
  BY <1>1, <1>3, <1>4, FS_EmptySet DEF FailedInv
<1> QED
  BY <1>2, <1>5 DEF ExitInv

LEMMA SameFailed ==
  ASSUME FailedInv, UNCHANGED <<failed, done>>
  PROVE  FailedInv'
BY DEF FailedInv, AllFailures, Unsuccessful

LEMMA SameRepetition ==
  ASSUME ResultsInv, Pending, UNCHANGED <<vars, t, did, res>>
  PROVE  ResultsInv' /\ Pending'
<1>1. DidRun' = DidRun /\ FailurePairs' = FailurePairs
  BY DEF DidRun, FailurePairs
<1>2. ResultsInv'
  BY <1>1 DEF ResultsInv
<1>3. Pending'
  BY <1>1 DEF Pending, IsList, Links, Entry, vars, list
<1> QED
  BY <1>2, <1>3

LEMMA ExitNext ==
  ASSUME ListInv, ListInv', ExitInv, [ProgramNext]_allVars
  PROVE  ExitInv'
<1>1. PhaseInv /\ FailedInv /\ (phase = Running => Pending /\ ResultsInv)
  BY DEF ExitInv
<1>2. loop \in Nat
  BY <1>1 DEF PhaseInv
<1>3. ASSUME Initialise PROVE ExitInv'
  <2>1. UNCHANGED <<phase, loop, failed, exit, done>>
    BY <1>3 DEF Initialise, runVars, history
  <2>2. status = "installing"
    BY <1>3 DEF Initialise, Install, InstallOrdered, UndoLastAdd, Fresh
  <2>3. phase = "before"
    BY <1>1, <2>2 DEF PhaseInv
  <2>4. PhaseInv' /\ phase' # Running
    BY <1>1, <2>1, <2>3 DEF PhaseInv, Running
  <2>5. FailedInv'
    BY <1>1, <2>1, SameFailed
  <2> QED
    BY <2>4, <2>5 DEF ExitInv
<1>4. ASSUME Start PROVE ExitInv'
  <2>1. UNCHANGED <<loop, failed, done>> /\ phase = "before"
    BY <1>4 DEF Start
  <2>2. phase' \in {"exited", "between"} /\ status' = "running"
    BY <1>4 DEF Start, Begin, BeginReversed, Exit
  <2>3. loop' = 0
    BY <1>1, <2>1 DEF PhaseInv
  <2>4. PhaseInv' /\ phase' # Running
    BY <2>2, <2>3 DEF PhaseInv, Running
  <2>5. FailedInv'
    BY <1>1, <2>1, SameFailed
  <2> QED
    BY <2>4, <2>5 DEF ExitInv
<1>5. ASSUME StartRepetition PROVE ExitInv'
  <2>1. UNCHANGED <<failed, done>> /\ phase = "between" /\ phase' = Running /\ loop' = loop + 1
    BY <1>5 DEF StartRepetition
  <2>2. status' = status
    BY <1>5 DEF StartRepetition, Shuffle, vars
  <2>3. status' = "running"
    BY <1>1, <2>1, <2>2 DEF PhaseInv
  <2>4. PhaseInv'
    BY <1>2, <2>1, <2>3 DEF PhaseInv, Running
  <2>5. Pending' /\ ResultsInv'
    BY <1>5, <2>3, RepetitionStarts
  <2>6. FailedInv'
    BY <1>1, <2>1, SameFailed
  <2> QED
    BY <2>4, <2>5, <2>6 DEF ExitInv
<1>6. ASSUME RunTest PROVE ExitInv'
  <2>1. UNCHANGED <<failed, done, phase, loop, status, exit>> /\ phase = Running
    BY <1>6 DEF RunTest, vars
  <2>2. PhaseInv'
    BY <1>1, <2>1 DEF PhaseInv
  <2>3. Pending' /\ ResultsInv'
    BY <1>1, <1>6, <2>1, RunTestStep
  <2>4. FailedInv'
    BY <1>1, <2>1, SameFailed
  <2> QED
    BY <2>2, <2>3, <2>4 DEF ExitInv
<1>7. ASSUME EndRepetition PROVE ExitInv'
  <2>1. UNCHANGED <<loop, status>> /\ phase = Running /\ phase' = "between"
    BY <1>7 DEF EndRepetition, vars
  <2>2. status = "running"
    BY <1>1, <2>1 DEF PhaseInv, Running
  <2>3. PhaseInv' /\ phase' # Running
    BY <1>2, <2>1, <2>2 DEF PhaseInv, Running
  <2>4. FailedInv'
    BY <1>1, <1>7, <2>1, RepetitionAdded
  <2> QED
    BY <2>3, <2>4 DEF ExitInv
<1>8. ASSUME EndRun PROVE ExitInv'
  <2>1. UNCHANGED <<failed, done, loop, status>> /\ phase = "between" /\ phase' = "exited"
    BY <1>8 DEF EndRun, Exit, vars, history
  <2>2. exit' = (IF failed.tests # 0 THEN failed.tests ELSE failed.executions) % StatusRange
    BY <1>8 DEF EndRun, Exit
  <2>3. PhaseInv' /\ phase' # Running
    BY <1>1, <2>1, <2>2 DEF PhaseInv, Running
  <2>4. FailedInv'
    BY <1>1, <2>1, SameFailed
  <2> QED
    BY <2>3, <2>4 DEF ExitInv
<1>9. ASSUME UNCHANGED allVars PROVE ExitInv'
  <2>1. /\ UNCHANGED vars /\ UNCHANGED <<res, phase, t, loop, failed, exit, did, done>>
        /\ status' = status
    BY <1>9 DEF allVars, runVars, history, vars
  <2>2. PhaseInv'
    BY <1>1, <2>1 DEF PhaseInv
  <2>3. FailedInv'
    BY <1>1, <2>1, SameFailed
  <2>4. phase' = Running => Pending' /\ ResultsInv'
    BY <1>1, <2>1, SameRepetition
  <2> QED
    BY <2>2, <2>3, <2>4 DEF ExitInv
<1> QED
  BY <1>3, <1>4, <1>5, <1>6, <1>7, <1>8, <1>9 DEF ProgramNext, Stopped

LEMMA ExitInvHolds == ProgramSpec => []ExitInv
<1>1. ProgramInit => ExitInv
  BY ExitInit
<1>2. ListInv /\ ListInv' /\ ExitInv /\ [ProgramNext]_allVars => ExitInv'
  BY ExitNext
<1> QED
  BY <1>1, <1>2, ListInvHolds, PTL DEF ProgramSpec

(* The exit status (cu_run_all) is what the repetitions had of failures,   *)
(* or of repetitions that ran nothing where there was none, as far as the  *)
(* system can tell statuses apart: for any tests, filters and repetitions. *)
THEOREM ExitIsHonest == ProgramSpec => []ExitHonest
<1>1. ExitInv => ExitHonest
  <2> SUFFICES ASSUME ExitInv, phase = "exited", loop > 0
               PROVE  LET total == Cardinality(AllFailures)
                          idle == {i \in DOMAIN done : ~done[i].ran}
                          counted == IF total # 0 THEN total ELSE Cardinality(idle)
                      IN  exit = 0 <=> counted % StatusRange = 0
    BY DEF ExitHonest, AllFailures
  <2> DEFINE idle == {i \in DOMAIN done : ~done[i].ran}
  <2>1. /\ exit = (IF failed.tests # 0 THEN failed.tests ELSE failed.executions) % StatusRange
        /\ IsFiniteSet(AllFailures) /\ failed.tests = Cardinality(AllFailures)
        /\ failed.executions = Cardinality(Unsuccessful)
    BY DEF ExitInv, PhaseInv, FailedInv
  <2>2. ASSUME Cardinality(AllFailures) = 0 PROVE Unsuccessful = idle
    <3>1. AllFailures = {}
      BY <2>1, <2>2, FS_EmptySet
    <3>2. ASSUME NEW i \in DOMAIN done PROVE done[i].failures = 0
      <4>1. done[i].failures \in Nat
        <5>1. done \in Seq(RepetitionType)
          BY DEF ExitInv, FailedInv
        <5>2. done[i] \in RepetitionType
          BY <5>1
        <5> QED
          BY <5>2 DEF RepetitionType
      <4>2. {i} \X (1 .. done[i].failures) = {}
        BY <3>1 DEF AllFailures
      <4>3. ASSUME done[i].failures # 0 PROVE FALSE
        <5>1. 1 \in 1 .. done[i].failures
          BY <4>1, <4>3
        <5>2. <<i, 1>> \in {i} \X (1 .. done[i].failures)
          BY <5>1
        <5> QED
          BY <4>2, <5>2
      <4> QED
        BY <4>3
    <3> QED
      BY <3>2 DEF Unsuccessful
  <2> QED
    BY <2>1, <2>2
<1> QED
  BY <1>1, ExitInvHolds, PTL

-------------------------------------------------------------------------------
(* The JUnit reports *)

(* Outputs, and records of a group, are records with these fields.         *)
IsOut(o) ==
  o = [type |-> o.type, verbose |-> o.verbose, also_console |-> o.also_console,
       dot_count |-> o.dot_count, progress_indicator |-> o.progress_indicator,
       tc_group |-> o.tc_group, tc_current |-> o.tc_current, junit |-> o.junit, shown |-> o.shown]

(* u is an output of the same kind as o.                                   *)
SameKind(o, u) == IsOut(u) /\ u.type = o.type

(* And it has the same reports.                                            *)
SameReports(o, u) == SameKind(o, u) /\ u.junit = o.junit

LEMMA EmitSame ==
  ASSUME NEW o, IsOut(o), NEW parts
  PROVE  SameReports(o, Emit(o, parts))
<1> DEFINE all == o.shown \o parts
           u == [o EXCEPT !.shown = all]
<1>1. Emit(o, parts) = u
  BY DEF Emit
<1> HIDE DEF all
<1>2. IsOut(u) /\ u.type = o.type /\ u.junit = o.junit
  BY DEF IsOut
<1> HIDE DEF u
<1> QED
  BY <1>1, <1>2 DEF SameKind, SameReports

LEMMA ConsoleSame ==
  ASSUME NEW o, IsOut(o), NEW x, NEW runs
  PROVE  /\ SameReports(o, ConsoleTestStarted(o, x, runs))
         /\ SameReports(o, ConsoleTestEnded(o))
<1>1. SameReports(o, ConsoleTestStarted(o, x, runs))
  <2> DEFINE mark == IF runs THEN "." ELSE "!"
             word == <<<<IF runs THEN "TEST" ELSE "IGNORE_TEST", x>>>>
             u == [o EXCEPT !.progress_indicator = mark]
  <2>1. ConsoleTestStarted(o, x, runs) = IF u.verbose THEN Emit(u, word) ELSE u
    <3>1. u.verbose = o.verbose
      BY DEF IsOut
    <3>2. ConsoleTestStarted(o, x, runs) = IF o.verbose THEN Emit(u, word) ELSE u
      BY DEF ConsoleTestStarted
    <3> HIDE DEF u, word
    <3> QED
      BY <3>1, <3>2
  <2> HIDE DEF mark, word
  <2>2. SameReports(o, u)
    BY DEF IsOut, SameKind, SameReports
  <2> HIDE DEF u
  <2>3. SameReports(u, Emit(u, word))
    BY <2>2, EmitSame DEF SameReports, SameKind
  <2> QED
    BY <2>1, <2>2, <2>3 DEF SameReports, SameKind
<1>2. SameReports(o, ConsoleTestEnded(o))
  <2> DEFINE ms == <<<<"ms", NoTest>>>>
             mark == <<<<"mark", o.progress_indicator>>>>
             nl == <<<<"newline", NoTest>>>>
             n == o.dot_count + 1
             v == [o EXCEPT !.dot_count = n]
             u == Emit(v, mark)
  <2>1. ConsoleTestEnded(o) \in {Emit(o, ms), u, Emit(u, nl)}
    BY DEF ConsoleTestEnded
  <2> HIDE DEF ms, mark, nl, n
  <2>2. SameReports(o, v)
    BY DEF IsOut, SameKind, SameReports
  <2> HIDE DEF v
  <2>3. SameReports(v, u)
    BY <2>2, EmitSame DEF SameReports, SameKind
  <2> HIDE DEF u
  <2>4. SameReports(u, Emit(u, nl)) /\ SameReports(o, Emit(o, ms))
    BY <2>3, EmitSame DEF SameReports, SameKind
  <2> QED
    BY <2>1, <2>2, <2>3, <2>4 DEF SameReports, SameKind
<1> QED
  BY <1>1, <1>2

GroupNames == {Group[x] : x \in Tests} \cup {<<>>}
CaseType == [test : Tests, ignored : BOOLEAN, check_count : Nat, failure : STRING \cup {NoFailure}]

IsJUnit(j) ==
  /\ j = [group |-> j.group, test_count |-> j.test_count, failure_count |-> j.failure_count,
          total_check_count |-> j.total_check_count, cases |-> j.cases, std_output |-> j.std_output]
  /\ j.test_count \in Nat /\ j.failure_count \in Nat
  /\ j.cases \in Seq(CaseType)

(* What a group's record is between groups.                                *)
Idle(j) == j.group = <<>> /\ j.test_count = 0 /\ j.failure_count = 0 /\ j.cases = <<>>

LEMMA CaseStarted ==
  ASSUME NEW j, IsJUnit(j), NEW x \in Tests, NEW runs \in BOOLEAN, NEW u, u = JUnitStarted(j, x, runs)
  PROVE  /\ IsJUnit(u) /\ u.group = Group[x]
         /\ u.test_count = j.test_count + 1 /\ u.failure_count = j.failure_count
         /\ u.total_check_count = j.total_check_count
         /\ u.cases = Append(j.cases, [test |-> x, ignored |-> ~runs, check_count |-> 0, failure |-> NoFailure])
<1> DEFINE g == Group[x]
           n == j.test_count + 1
           c == [test |-> x, ignored |-> ~runs, check_count |-> 0, failure |-> NoFailure]
           cs == Append(j.cases, c)
<1>1. c \in CaseType
  <2> DEFINE b == ~runs
  <2>1. b \in BOOLEAN
    OBVIOUS
  <2> HIDE DEF b
  <2>2. [test |-> x, ignored |-> b, check_count |-> 0, failure |-> NoFailure] \in CaseType
    BY <2>1 DEF CaseType
  <2> QED
    BY <2>2 DEF b
<1>2. u = [j EXCEPT !.test_count = n, !.group = g, !.cases = cs]
  BY Zenon DEF JUnitStarted
<1> HIDE DEF c
<1>3. n \in Nat /\ cs \in Seq(CaseType)
  BY <1>1 DEF IsJUnit
<1> HIDE DEF g, n, cs
<1>4. /\ u.group = g /\ u.test_count = n /\ u.failure_count = j.failure_count
      /\ u.total_check_count = j.total_check_count /\ u.cases = cs /\ u.std_output = j.std_output
  BY <1>2 DEF IsJUnit
<1>5. u = [group |-> u.group, test_count |-> u.test_count, failure_count |-> u.failure_count,
           total_check_count |-> u.total_check_count, cases |-> u.cases, std_output |-> u.std_output]
  BY <1>2 DEF IsJUnit
<1>6. IsJUnit(u)
  BY <1>3, <1>4, <1>5 DEF IsJUnit
<1> QED
  BY <1>4, <1>6 DEF g, n, cs, c

LEMMA CaseFailed ==
  ASSUME NEW j, IsJUnit(j), j.cases # <<>>, NEW message \in STRING, NEW u, u = JUnitFailure(j, message)
  PROVE  /\ IsJUnit(u)
         /\ Last(j.cases).failure # NoFailure => u = j
         /\ Last(j.cases).failure = NoFailure =>
              /\ u.failure_count = j.failure_count + 1
              /\ u.cases = [j.cases EXCEPT ![Len(j.cases)].failure = message]
              /\ u.group = j.group /\ u.test_count = j.test_count
              /\ u.total_check_count = j.total_check_count
<1>1. CASE Last(j.cases).failure # NoFailure
  BY <1>1 DEF JUnitFailure
<1>2. CASE Last(j.cases).failure = NoFailure
  <2> DEFINE n == j.failure_count + 1
             m == Len(j.cases)
             cs == [j.cases EXCEPT ![m].failure = message]
  <2>1. u = [j EXCEPT !.failure_count = n, !.cases = cs]
    BY <1>2 DEF JUnitFailure
  <2>2. j.cases \in Seq(CaseType) /\ m \in 1 .. Len(j.cases)
    BY DEF IsJUnit
  <2>3. n \in Nat /\ cs \in Seq(CaseType)
    <3>1. j.cases[m] \in CaseType
      BY <2>2
    <3> DEFINE c == [j.cases[m] EXCEPT !.failure = message]
    <3>2. c \in CaseType
      BY <3>1 DEF CaseType
    <3>3. cs = [j.cases EXCEPT ![m] = c]
      OBVIOUS
    <3> HIDE DEF c, cs
    <3>4. cs \in Seq(CaseType)
      BY <2>2, <3>2, <3>3
    <3> QED
      BY <3>4 DEF IsJUnit
  <2> HIDE DEF n, cs
  <2>4. /\ u.group = j.group /\ u.test_count = j.test_count /\ u.failure_count = n
        /\ u.total_check_count = j.total_check_count /\ u.cases = cs /\ u.std_output = j.std_output
    BY <2>1 DEF IsJUnit
  <2>5. u = [group |-> u.group, test_count |-> u.test_count, failure_count |-> u.failure_count,
             total_check_count |-> u.total_check_count, cases |-> u.cases, std_output |-> u.std_output]
    BY <2>1 DEF IsJUnit
  <2>6. IsJUnit(u)
    BY <2>3, <2>4, <2>5 DEF IsJUnit
  <2> QED
    BY <1>2, <2>4, <2>6 DEF n, cs
<1> QED
  BY <1>1, <1>2

(* u is the record j with the checks of its last test counted up to c.     *)
CountedUp(j, u, c) ==
  /\ IsJUnit(u)
  /\ u.cases = [j.cases EXCEPT ![Len(j.cases)].check_count = c]
  /\ u.failure_count = j.failure_count /\ u.group = j.group /\ u.test_count = j.test_count
  /\ u.total_check_count = j.total_check_count

LEMMA CaseEnded ==
  ASSUME NEW j, IsJUnit(j), j.cases # <<>>, NEW r, r.check_count \in Nat
  PROVE  CountedUp(j, JUnitEnded(j, r), r.check_count)
<1> DEFINE u == JUnitEnded(j, r)
           n == r.check_count
           m == Len(j.cases)
           cs == [j.cases EXCEPT ![m].check_count = n]
<1>1. u = [j EXCEPT !.cases = cs]
  <2>1. [j EXCEPT !.cases[m].check_count = n] = [j EXCEPT !.cases = cs]
    OBVIOUS
  <2> QED
    BY <2>1 DEF JUnitEnded
<1>2. j.cases \in Seq(CaseType) /\ m \in 1 .. Len(j.cases)
  BY DEF IsJUnit
<1>3. cs \in Seq(CaseType)
  <2>1. j.cases[m] \in CaseType
    BY <1>2
  <2> DEFINE c == [j.cases[m] EXCEPT !.check_count = n]
  <2>2. c \in CaseType
    BY <2>1 DEF CaseType
  <2>3. cs = [j.cases EXCEPT ![m] = c]
    OBVIOUS
  <2> HIDE DEF c, cs
  <2> QED
    BY <1>2, <2>2, <2>3
<1> HIDE DEF cs, u
<1>4. /\ u.group = j.group /\ u.test_count = j.test_count /\ u.failure_count = j.failure_count
      /\ u.total_check_count = j.total_check_count /\ u.cases = cs /\ u.std_output = j.std_output
  BY <1>1 DEF IsJUnit
<1>5. u = [group |-> u.group, test_count |-> u.test_count, failure_count |-> u.failure_count,
           total_check_count |-> u.total_check_count, cases |-> u.cases, std_output |-> u.std_output]
  BY <1>1 DEF IsJUnit
<1>6. IsJUnit(u)
  BY <1>3, <1>4, <1>5 DEF IsJUnit
<1> QED
  BY <1>4, <1>6 DEF cs, u, CountedUp

LEMMA KindSame ==
  ASSUME NEW o, NEW u, NEW v, SameKind(o, u), SameReports(u, v)
  PROVE  SameKind(o, v) /\ v.junit = u.junit
BY DEF SameKind, SameReports

LEMMA JUnitSet ==
  ASSUME NEW o, IsOut(o), NEW j, NEW u, u = [o EXCEPT !.junit = j]
  PROVE  SameKind(o, u) /\ u.junit = j /\ IsOut(u)
BY DEF IsOut, SameKind

LEMMA GroupStartedShown ==
  ASSUME NEW o, IsOut(o), NEW x
  PROVE  /\ SameKind(o, GroupStarted(o, x))
         /\ o.type = "junit" => GroupStarted(o, x) = o
<1> DEFINE g == Group[x]
           parts == <<<<"suiteStarted", g>>>>
           v == [o EXCEPT !.tc_group = g]
<1>1. GroupStarted(o, x) = IF o.type # "teamcity" THEN o ELSE Emit(v, parts)
  BY DEF GroupStarted
<1> HIDE DEF g, parts
<1>2. SameReports(o, v) /\ IsOut(v)
  BY DEF IsOut, SameKind, SameReports
<1> HIDE DEF v
<1>3. SameReports(v, Emit(v, parts))
  BY <1>2, EmitSame
<1>4. SameKind(o, o)
  BY DEF SameKind
<1> QED
  BY <1>1, <1>2, <1>3, <1>4 DEF SameKind, SameReports

LEMMA TestStartedShown ==
  ASSUME NEW o, IsOut(o), NEW x, NEW runs
  PROVE  /\ SameKind(o, TestStarted(o, x, runs))
         /\ o.type = "junit" => TestStarted(o, x, runs).junit = JUnitStarted(o.junit, x, runs)
<1>1. CASE o.type = "teamcity"
  <2> DEFINE parts == <<<<"testStarted", x>>>> \o IF runs THEN <<>> ELSE <<<<"testIgnored", x>>>>
             v == [o EXCEPT !.tc_current = x]
  <2>1. TestStarted(o, x, runs) = Emit(v, parts)
    BY <1>1 DEF TestStarted
  <2> HIDE DEF parts
  <2>2. SameReports(o, v) /\ IsOut(v)
    BY DEF IsOut, SameKind, SameReports
  <2> HIDE DEF v
  <2>3. SameReports(v, Emit(v, parts))
    BY <2>2, EmitSame
  <2> QED
    BY <1>1, <2>1, <2>2, <2>3 DEF SameKind, SameReports
<1>2. CASE o.type = "junit"
  <2> DEFINE j == JUnitStarted(o.junit, x, runs)
             v == [o EXCEPT !.junit = j]
  <2>1. TestStarted(o, x, runs) = IF o.also_console THEN ConsoleTestStarted(v, x, runs) ELSE v
    BY <1>2 DEF TestStarted
  <2> HIDE DEF j
  <2>2. SameKind(o, v) /\ v.junit = j /\ IsOut(v)
    BY JUnitSet
  <2> HIDE DEF v
  <2>3. SameReports(v, ConsoleTestStarted(v, x, runs))
    BY <2>2, ConsoleSame
  <2>4. SameKind(o, ConsoleTestStarted(v, x, runs)) /\ ConsoleTestStarted(v, x, runs).junit = j
    BY <2>2, <2>3, KindSame
  <2> QED
    BY <2>1, <2>2, <2>4 DEF j
<1>3. CASE o.type # "teamcity" /\ o.type # "junit"
  <2>1. TestStarted(o, x, runs) = ConsoleTestStarted(o, x, runs)
    BY <1>3 DEF TestStarted
  <2> QED
    BY <1>3, <2>1, ConsoleSame DEF SameReports
<1> QED
  BY <1>1, <1>2, <1>3

LEMMA TestEndedShown ==
  ASSUME NEW o, IsOut(o), NEW r
  PROVE  /\ SameKind(o, TestEnded(o, r))
         /\ o.type = "junit" => TestEnded(o, r).junit = JUnitEnded(o.junit, r)
<1>1. CASE o.type = "teamcity"
  <2> DEFINE parts == <<<<"testFinished", o.tc_current>>>>
  <2>1. TestEnded(o, r) \in {o, Emit(o, parts)}
    BY <1>1 DEF TestEnded
  <2> HIDE DEF parts
  <2>2. SameReports(o, Emit(o, parts))
    BY EmitSame
  <2> QED
    BY <1>1, <2>1, <2>2 DEF SameKind, SameReports
<1>2. CASE o.type = "junit"
  <2> DEFINE j == JUnitEnded(o.junit, r)
             v == [o EXCEPT !.junit = j]
  <2>1. TestEnded(o, r) = IF o.also_console THEN ConsoleTestEnded(v) ELSE v
    BY <1>2 DEF TestEnded
  <2> HIDE DEF j
  <2>2. SameKind(o, v) /\ v.junit = j /\ IsOut(v)
    BY JUnitSet
  <2> HIDE DEF v
  <2>3. SameReports(v, ConsoleTestEnded(v))
    BY <2>2, ConsoleSame
  <2>4. SameKind(o, ConsoleTestEnded(v)) /\ ConsoleTestEnded(v).junit = j
    BY <2>2, <2>3, KindSame
  <2> QED
    BY <2>1, <2>2, <2>4 DEF j
<1>3. CASE o.type # "teamcity" /\ o.type # "junit"
  <2>1. TestEnded(o, r) = ConsoleTestEnded(o)
    BY <1>3 DEF TestEnded
  <2> QED
    BY <1>3, <2>1, ConsoleSame DEF SameReports
<1> QED
  BY <1>1, <1>2, <1>3

LEMMA FailureShown ==
  ASSUME NEW o, IsOut(o), NEW x, NEW message
  PROVE  /\ SameKind(o, Failure(o, x, message))
         /\ o.type = "junit" => Failure(o, x, message).junit = JUnitFailure(o.junit, message)
<1> DEFINE parts == <<<<"failed", x>>>>
<1>1. CASE o.type # "junit"
  <2>1. Failure(o, x, message) = Emit(o, parts)
    BY <1>1 DEF Failure
  <2> HIDE DEF parts
  <2> QED
    BY <1>1, <2>1, EmitSame DEF SameReports
<1>2. CASE o.type = "junit"
  <2> DEFINE j == JUnitFailure(o.junit, message)
             v == [o EXCEPT !.junit = j]
  <2>1. Failure(o, x, message) = IF o.also_console THEN Emit(v, parts) ELSE v
    BY <1>2 DEF Failure
  <2> HIDE DEF j, parts
  <2>2. SameKind(o, v) /\ v.junit = j /\ IsOut(v)
    BY JUnitSet
  <2> HIDE DEF v
  <2>3. SameReports(v, Emit(v, parts))
    BY <2>2, EmitSame
  <2>4. SameKind(o, Emit(v, parts)) /\ Emit(v, parts).junit = j
    BY <2>2, <2>3, KindSame
  <2> QED
    BY <2>1, <2>2, <2>4 DEF j
<1> QED
  BY <1>1, <1>2

LEMMA GroupEndedShown ==
  ASSUME NEW o, IsOut(o), NEW opened
  PROVE  /\ SameKind(o, GroupEnded(o, opened))
         /\ o.type = "junit" => GroupEnded(o, opened).junit = JUnitGroupEnded(o.junit, opened)
<1>1. CASE o.type = "teamcity"
  <2> DEFINE parts == <<<<"suiteFinished", o.tc_group>>>>
  <2>1. GroupEnded(o, opened) \in {o, Emit(o, parts)}
    BY <1>1 DEF GroupEnded
  <2> HIDE DEF parts
  <2>2. SameReports(o, Emit(o, parts))
    BY EmitSame
  <2> QED
    BY <1>1, <2>1, <2>2 DEF SameKind, SameReports
<1>2. CASE o.type = "junit"
  <2> DEFINE j == JUnitGroupEnded(o.junit, opened)
             v == [o EXCEPT !.junit = j]
  <2>1. GroupEnded(o, opened) = v
    BY <1>2 DEF GroupEnded
  <2> HIDE DEF j
  <2>2. SameKind(o, v) /\ v.junit = j
    BY JUnitSet
  <2> QED
    BY <2>1, <2>2 DEF j
<1>3. CASE o.type # "teamcity" /\ o.type # "junit"
  <2>1. GroupEnded(o, opened) = o
    BY <1>3 DEF GroupEnded
  <2> QED
    BY <1>3, <2>1 DEF SameKind
<1> QED
  BY <1>1, <1>2, <1>3

(* Printing adds to what is shown, and to the output of the report.        *)
SamePrint(o, u) ==
  SameKind(o, u) /\ (o.type = "junit" =>
    /\ IsJUnit(o.junit) => IsJUnit(u.junit)
    /\ u.junit.group = o.junit.group /\ u.junit.test_count = o.junit.test_count
    /\ u.junit.failure_count = o.junit.failure_count /\ u.junit.cases = o.junit.cases
    /\ u.junit.total_check_count = o.junit.total_check_count)

LEMMA PrintShown ==
  ASSUME NEW o, IsOut(o), o.type = "junit" => IsJUnit(o.junit), NEW text, NEW n
  PROVE  /\ SamePrint(o, PrintStr(o, text))
         /\ SameReports(o, PrintNum(o, n))
<1>1. SameReports(o, PrintNum(o, n))
  <2> DEFINE parts == <<<<"number", n>>>>
  <2>1. PrintNum(o, n) \in {o, Emit(o, parts)}
    BY DEF PrintNum
  <2> HIDE DEF parts
  <2> QED
    BY <2>1, EmitSame DEF SameReports, SameKind
<1>2. SamePrint(o, PrintStr(o, text))
  <2> DEFINE parts == <<<<"text", text>>>>
             all == Append(o.junit.std_output, text)
             j == [o.junit EXCEPT !.std_output = all]
             v == IF o.type = "junit" THEN [o EXCEPT !.junit = j] ELSE o
  <2>1. PrintStr(o, text) \in {v, Emit(v, parts)}
    <3>1. o.type = "junit" => [o EXCEPT !.junit.std_output = Append(@, text)] = [o EXCEPT !.junit = j]
      OBVIOUS
    <3> QED
      BY <3>1 DEF PrintStr
  <2> HIDE DEF all, parts
  <2>2. SamePrint(o, v)
    <3>1. CASE o.type # "junit"
      BY <3>1 DEF SamePrint, SameKind
    <3>2. CASE o.type = "junit"
      <4>1. SameKind(o, v) /\ v.junit = j
        BY <3>2, JUnitSet
      <4>2. /\ j.group = o.junit.group /\ j.test_count = o.junit.test_count
            /\ j.failure_count = o.junit.failure_count /\ j.cases = o.junit.cases
            /\ j.total_check_count = o.junit.total_check_count
        BY <3>2 DEF IsJUnit
      <4>3. j = [group |-> j.group, test_count |-> j.test_count, failure_count |-> j.failure_count,
                 total_check_count |-> j.total_check_count, cases |-> j.cases, std_output |-> j.std_output]
        BY <3>2 DEF IsJUnit
      <4> HIDE DEF j
      <4>4. IsJUnit(j)
        BY <3>2, <4>2, <4>3 DEF IsJUnit
      <4> HIDE DEF v
      <4> QED
        BY <4>1, <4>2, <4>4 DEF SamePrint
    <3> QED
      BY <3>1, <3>2
  <2> HIDE DEF v
  <2>3. SameReports(v, Emit(v, parts))
    BY <2>2, EmitSame DEF SamePrint, SameKind
  <2>4. SamePrint(o, Emit(v, parts))
    BY <2>2, <2>3, KindSame DEF SamePrint
  <2> QED
    BY <2>1, <2>2, <2>4
<1> QED
  BY <1>1, <1>2

LEMMA SummaryShown ==
  ASSUME NEW o, IsOut(o), NEW r
  PROVE  SameReports(o, Summary(o, r))
<1> DEFINE parts == <<<<"summary", Verdict(r)>>>>
           v == [o EXCEPT !.dot_count = 0]
<1>1. Summary(o, r) \in {v, Emit(v, parts)}
  BY DEF Summary
<1> HIDE DEF parts
<1>2. SameReports(o, v) /\ IsOut(v)
  BY DEF IsOut, SameKind, SameReports
<1> HIDE DEF v
<1>3. SameReports(v, Emit(v, parts))
  BY <1>2, EmitSame
<1> QED
  BY <1>1, <1>2, <1>3 DEF SameKind, SameReports

(* What showing the failures of x goes through, one after the other.       *)
FailWalk(o, x, fs, h) ==
  h = [k \in 0 .. Len(fs) |-> IF k = 0 THEN o ELSE Failure(h[k - 1], x, fs[k])]

LEMMA FailWalkExists ==
  ASSUME NEW o, NEW x, NEW fs, Len(fs) \in Nat
  PROVE  \E h : FailWalk(o, x, fs, h)
<1> DEFINE n == Len(fs)
           Walked(h, m) == h = [k \in 0 .. m |-> IF k = 0 THEN o ELSE Failure(h[k - 1], x, fs[k])]
           F == {m \in 0 .. n : ~ \E h : Walked(h, m)}
<1>1. ASSUME F # {} PROVE FALSE
  <2>1. F \in SUBSET Nat
    OBVIOUS
  <2> HIDE DEF F
  <2>2. PICK m \in F : \A k \in F : m <= k
    BY <1>1, <2>1, Least
  <2>3. m \in 0 .. n /\ ~ \E h : Walked(h, m)
    BY <2>2 DEF F
  <2>4. CASE m = 0
    <3> DEFINE h == [k \in 0 .. 0 |-> o]
    <3>1. h = [k \in 0 .. 0 |-> IF k = 0 THEN o ELSE Failure(h[k - 1], x, fs[k])]
      OBVIOUS
    <3> QED
      BY <2>3, <2>4, <3>1
  <2>5. CASE m # 0
    <3>1. m - 1 \in 0 .. n /\ ~ (m <= m - 1) /\ m \in 1 .. n
      BY <2>3, <2>5
    <3>2. m - 1 \notin F
      BY <2>2, <3>1
    <3>3. PICK f : Walked(f, m - 1)
      BY <3>1, <3>2 DEF F
    <3> DEFINE last == Failure(f[m - 1], x, fs[m])
               h == [k \in 0 .. m |-> IF k = m THEN last ELSE f[k]]
    <3>4. ASSUME NEW k \in 0 .. m
          PROVE  h[k] = IF k = 0 THEN o ELSE Failure(h[k - 1], x, fs[k])
      <4>1. CASE k = m
        <5>1. m - 1 \in 0 .. m /\ m - 1 # m /\ m # 0
          BY <3>1
        <5> QED
          BY <4>1, <5>1
      <4>2. CASE k # m
        <5>1. k \in 0 .. m - 1 /\ (k # 0 => k - 1 \in 0 .. m /\ k - 1 # m)
          BY <3>1, <4>2
        <5>2. f[k] = IF k = 0 THEN o ELSE Failure(f[k - 1], x, fs[k])
          BY <3>3, <5>1
        <5> QED
          BY <4>2, <5>1, <5>2
      <4> QED
        BY <4>1, <4>2
    <3>5. h = [k \in 0 .. m |-> h[k]]
      OBVIOUS
    <3> HIDE DEF h
    <3>6. Walked(h, m)
      BY <3>4, <3>5
    <3> QED
      BY <2>3, <3>6
  <2> QED
    BY <2>4, <2>5
<1>2. n \in 0 .. n
  OBVIOUS
<1> HIDE DEF F
<1>3. n \notin F
  BY <1>1
<1> QED
  BY <1>2, <1>3 DEF F, FailWalk

(* The case of the test that runs is the last.                             *)
LastCase(j) == j.cases[Len(j.cases)]

(* u is the record j after k of the failures fs of its last test.          *)
AfterFailures(j, u, fs, k) ==
  /\ IsJUnit(u) /\ Len(u.cases) = Len(j.cases)
  /\ u.group = j.group /\ u.test_count = j.test_count /\ u.total_check_count = j.total_check_count
  /\ \A i \in 1 .. Len(j.cases) - 1 : u.cases[i] = j.cases[i]
  /\ LastCase(u).test = LastCase(j).test /\ LastCase(u).ignored = LastCase(j).ignored
  /\ u.failure_count = j.failure_count + (IF k = 0 THEN 0 ELSE 1)
  /\ LastCase(u).failure = IF k = 0 THEN NoFailure ELSE fs[1]

LEMMA OneMoreFailure ==
  ASSUME NEW j, IsJUnit(j), j.cases # <<>>, NEW fs \in Seq(STRING \ {NoFailure}),
         NEW k \in 1 .. Len(fs), NEW u, AfterFailures(j, u, fs, k - 1)
  PROVE  AfterFailures(j, JUnitFailure(u, fs[k]), fs, k)
<1> DEFINE m == Len(j.cases)
           v == JUnitFailure(u, fs[k])
<1>1. j.cases \in Seq(CaseType) /\ u.cases \in Seq(CaseType) /\ Len(u.cases) = m /\ m \in Nat \ {0}
  BY DEF IsJUnit, AfterFailures
<1>2. u.cases # <<>> /\ IsJUnit(u)
  BY <1>1 DEF AfterFailures
<1>3. fs[k] \in STRING /\ fs[1] # NoFailure
  <2>1. k \in DOMAIN fs /\ 1 \in DOMAIN fs
    OBVIOUS
  <2>2. fs[k] \in STRING \ {NoFailure} /\ fs[1] \in STRING \ {NoFailure}
    BY <2>1
  <2> QED
    BY <2>2
<1>4. Last(u.cases) = LastCase(u)
  BY DEF Last, LastCase
<1>5. /\ IsJUnit(v)
      /\ Last(u.cases).failure # NoFailure => v = u
      /\ Last(u.cases).failure = NoFailure =>
           /\ v.failure_count = u.failure_count + 1
           /\ v.cases = [u.cases EXCEPT ![Len(u.cases)].failure = fs[k]]
           /\ v.group = u.group /\ v.test_count = u.test_count
           /\ v.total_check_count = u.total_check_count
  BY <1>2, <1>3, CaseFailed
<1> HIDE DEF v
<1>6. CASE k = 1
  <2>1. LastCase(u).failure = NoFailure /\ u.failure_count = j.failure_count + 0
    BY <1>6 DEF AfterFailures
  <2>2. /\ v.failure_count = u.failure_count + 1
        /\ v.cases = [u.cases EXCEPT ![m].failure = fs[k]]
        /\ v.group = u.group /\ v.test_count = u.test_count
        /\ v.total_check_count = u.total_check_count
    BY <1>1, <1>4, <1>5, <2>1
  <2>3. u.cases[m] \in CaseType /\ m \in 1 .. Len(u.cases)
    BY <1>1
  <2> DEFINE c == [u.cases[m] EXCEPT !.failure = fs[k]]
  <2>4. c.test = u.cases[m].test /\ c.ignored = u.cases[m].ignored /\ c.failure = fs[k]
    BY <2>3 DEF CaseType
  <2>5. v.cases = [u.cases EXCEPT ![m] = c]
    BY <2>2
  <2> HIDE DEF c
  <2>6. Len(v.cases) = m /\ v.cases[m] = c /\ \A i \in 1 .. m - 1 : v.cases[i] = u.cases[i]
    BY <1>1, <2>3, <2>5
  <2>7. LastCase(v) = c /\ LastCase(u) = u.cases[m]
    BY <1>1, <2>6 DEF LastCase
  <2>8. v.failure_count = j.failure_count + 1 /\ LastCase(v).failure = fs[1]
    <3>1. j.failure_count \in Nat
      BY DEF IsJUnit
    <3> QED
      BY <1>6, <2>1, <2>2, <2>4, <2>7, <3>1
  <2>9. /\ Len(v.cases) = Len(j.cases)
        /\ v.group = j.group /\ v.test_count = j.test_count /\ v.total_check_count = j.total_check_count
        /\ \A i \in 1 .. Len(j.cases) - 1 : v.cases[i] = j.cases[i]
        /\ LastCase(v).test = LastCase(j).test /\ LastCase(v).ignored = LastCase(j).ignored
    BY <2>2, <2>4, <2>6, <2>7 DEF AfterFailures
  <2>10. k # 0
    BY <1>6
  <2> QED
    BY <1>5, <2>8, <2>9, <2>10 DEF AfterFailures, v
<1>7. CASE k # 1
  <2>1. k - 1 # 0 /\ k # 0
    BY <1>7
  <2>2. LastCase(u).failure # NoFailure
    BY <1>3, <2>1 DEF AfterFailures
  <2>3. v = u
    BY <1>4, <1>5, <2>2
  <2> QED
    BY <2>1, <2>3 DEF AfterFailures, v
<1> QED
  BY <1>6, <1>7

LEMMA FailuresShown ==
  ASSUME NEW o, IsOut(o), NEW x, NEW outcome, outcome.failures \in Seq(STRING \ {NoFailure}),
         o.type = "junit" => IsJUnit(o.junit) /\ o.junit.cases # <<>> /\ LastCase(o.junit).failure = NoFailure
  PROVE  /\ SameKind(o, Failures(o, x, outcome))
         /\ o.type = "junit" =>
              AfterFailures(o.junit, Failures(o, x, outcome).junit, outcome.failures, Len(outcome.failures))
<1> DEFINE fs == outcome.failures
           n == Len(fs)
           w == CHOOSE h : FailWalk(o, x, fs, h)
           j == o.junit
<1>1. n \in Nat
  OBVIOUS
<1>2. FailWalk(o, x, fs, w)
  BY <1>1, FailWalkExists
<1>3. Failures(o, x, outcome) = w[n]
  BY DEF Failures, FailWalk
<1> HIDE DEF w
<1>4. \A k \in 0 .. n : w[k] = IF k = 0 THEN o ELSE Failure(w[k - 1], x, fs[k])
  BY <1>2 DEF FailWalk
<1> DEFINE OK(u, k) == SameKind(o, u) /\ (o.type = "junit" => AfterFailures(j, u.junit, fs, k))
           F == {k \in 0 .. n : ~ OK(w[k], k)}
<1>5. OK(o, 0)
  <2>1. SameKind(o, o)
    BY DEF SameKind
  <2>2. o.type = "junit" => j.failure_count \in Nat
    BY DEF IsJUnit
  <2>3. o.type = "junit" => AfterFailures(j, j, fs, 0)
    BY <2>2 DEF AfterFailures
  <2> QED
    BY <2>1, <2>3
<1>6. ASSUME NEW k \in 1 .. n, NEW u, OK(u, k - 1) PROVE OK(Failure(u, x, fs[k]), k)
  <2>1. IsOut(u) /\ u.type = o.type
    BY <1>6 DEF SameKind
  <2> DEFINE v == Failure(u, x, fs[k])
  <2>2. SameKind(u, v) /\ (u.type = "junit" => v.junit = JUnitFailure(u.junit, fs[k]))
    BY <2>1, FailureShown
  <2> HIDE DEF v
  <2>3. SameKind(o, v)
    BY <2>1, <2>2 DEF SameKind
  <2>4. o.type = "junit" => AfterFailures(j, JUnitFailure(u.junit, fs[k]), fs, k)
    BY <1>6, OneMoreFailure
  <2> QED
    BY <2>1, <2>2, <2>3, <2>4 DEF v
<1> HIDE DEF OK
<1>7. ASSUME F # {} PROVE FALSE
  <2>1. F \in SUBSET Nat
    OBVIOUS
  <2> HIDE DEF F
  <2>2. PICK m \in F : \A k \in F : m <= k
    BY <1>7, <2>1, Least
  <2>3. m \in 0 .. n /\ ~ OK(w[m], m)
    BY <2>2 DEF F
  <2>4. m # 0
    BY <1>1, <1>4, <1>5, <2>3
  <2>5. m \in 1 .. n /\ m - 1 \in 0 .. n /\ ~ (m <= m - 1)
    BY <1>1, <2>3, <2>4
  <2>6. OK(w[m - 1], m - 1)
    BY <2>2, <2>5 DEF F
  <2>7. w[m] = Failure(w[m - 1], x, fs[m])
    BY <1>4, <2>3, <2>4
  <2> QED
    BY <1>6, <2>3, <2>5, <2>6, <2>7
<1>8. OK(w[n], n)
  <2>1. n \in 0 .. n
    BY <1>1
  <2> QED
    BY <1>7, <2>1
<1> QED
  BY <1>3, <1>8 DEF OK

(* u is the record j after x, with its failures fs and checks counted up   *)
(* to c.                                                                   *)
WithCase(j, u, x, runs, fs, c) ==
  /\ IsJUnit(u) /\ Len(u.cases) = Len(j.cases) + 1
  /\ u.group = Group[x] /\ u.test_count = j.test_count + 1 /\ u.total_check_count = j.total_check_count
  /\ \A i \in 1 .. Len(j.cases) : u.cases[i] = j.cases[i]
  /\ LastCase(u).test = x /\ LastCase(u).ignored = ~runs /\ LastCase(u).check_count = c
  /\ u.failure_count = j.failure_count + (IF Len(fs) = 0 THEN 0 ELSE 1)
  /\ LastCase(u).failure = IF Len(fs) = 0 THEN NoFailure ELSE fs[1]

LEMMA TestShown ==
  ASSUME NEW o, IsOut(o), NEW x \in Tests, NEW runs \in BOOLEAN, NEW outcome,
         outcome.failures \in Seq(STRING \ {NoFailure}), NEW r, r.check_count \in Nat,
         o.type = "junit" => IsJUnit(o.junit),
         NEW u, u = TestEnded(Failures(TestStarted(o, x, runs), x, outcome), r)
  PROVE  /\ SameKind(o, u)
         /\ o.type = "junit" => WithCase(o.junit, u.junit, x, runs, outcome.failures, r.check_count)
<1> DEFINE a == TestStarted(o, x, runs)
           b == Failures(a, x, outcome)
           fs == outcome.failures
           j == o.junit
<1>1. SameKind(o, a) /\ (o.type = "junit" => a.junit = JUnitStarted(j, x, runs))
  BY TestStartedShown
<1> HIDE DEF a
<1>2. IsOut(a) /\ a.type = o.type
  BY <1>1 DEF SameKind
<1> DEFINE c == [test |-> x, ignored |-> ~runs, check_count |-> 0, failure |-> NoFailure]
<1>3. ASSUME o.type = "junit"
      PROVE  /\ IsJUnit(a.junit) /\ a.junit.group = Group[x]
             /\ a.junit.test_count = j.test_count + 1 /\ a.junit.failure_count = j.failure_count
             /\ a.junit.total_check_count = j.total_check_count
             /\ a.junit.cases = Append(j.cases, c)
  BY <1>1, <1>3, CaseStarted
<1>4. c.test = x /\ c.ignored = ~runs /\ c.failure = NoFailure
  OBVIOUS
<1> HIDE DEF c
<1>5. ASSUME o.type = "junit"
      PROVE  /\ j.cases \in Seq(CaseType)
             /\ Len(a.junit.cases) = Len(j.cases) + 1 /\ LastCase(a.junit) = c
             /\ \A i \in 1 .. Len(j.cases) : a.junit.cases[i] = j.cases[i]
             /\ a.junit.cases # <<>> /\ LastCase(a.junit).failure = NoFailure
  <2>1. j.cases \in Seq(CaseType)
    BY <1>5 DEF IsJUnit
  <2>2. /\ Len(a.junit.cases) = Len(j.cases) + 1 /\ a.junit.cases[Len(j.cases) + 1] = c
        /\ \A i \in 1 .. Len(j.cases) : a.junit.cases[i] = j.cases[i]
    BY <1>3, <1>5, <2>1
  <2>3. LastCase(a.junit) = c /\ a.junit.cases # <<>>
    BY <2>1, <2>2 DEF LastCase
  <2> QED
    BY <1>4, <2>1, <2>2, <2>3
<1>6. /\ SameKind(a, b)
      /\ o.type = "junit" => AfterFailures(a.junit, b.junit, fs, Len(fs))
  BY <1>2, <1>3, <1>5, FailuresShown
<1> HIDE DEF b
<1>7. IsOut(b) /\ b.type = o.type
  BY <1>2, <1>6 DEF SameKind
<1>8. SameKind(b, u) /\ (b.type = "junit" => u.junit = JUnitEnded(b.junit, r))
  BY <1>7, TestEndedShown DEF a, b
<1>9. ASSUME o.type = "junit"
      PROVE  WithCase(j, u.junit, x, runs, fs, r.check_count)
  <2> DEFINE m == Len(j.cases) + 1
             q == b.junit
             e == u.junit
  <2>1. m \in Nat \ {0}
    BY <1>5, <1>9
  <2>2. /\ IsJUnit(q) /\ Len(q.cases) = m
        /\ q.group = Group[x] /\ q.test_count = j.test_count + 1 /\ q.total_check_count = j.total_check_count
        /\ \A i \in 1 .. Len(j.cases) : q.cases[i] = j.cases[i]
        /\ LastCase(q).test = x /\ LastCase(q).ignored = ~runs
        /\ q.failure_count = j.failure_count + (IF Len(fs) = 0 THEN 0 ELSE 1)
        /\ LastCase(q).failure = IF Len(fs) = 0 THEN NoFailure ELSE fs[1]
    <3>1. j.cases \in Seq(CaseType)
      BY <1>5, <1>9
    <3>2. Len(a.junit.cases) = m /\ Len(a.junit.cases) - 1 = Len(j.cases)
      BY <1>5, <1>9, <3>1
    <3> QED
      BY <1>3, <1>4, <1>5, <1>6, <1>9, <3>2 DEF AfterFailures
  <2>3. q.cases \in Seq(CaseType) /\ q.cases # <<>>
    BY <2>1, <2>2 DEF IsJUnit
  <2>4. e = JUnitEnded(q, r) /\ IsJUnit(q)
    BY <1>7, <1>8, <1>9, <2>2
  <2> HIDE DEF q, e
  <2>5. /\ IsJUnit(e)
        /\ e.cases = [q.cases EXCEPT ![m].check_count = r.check_count]
        /\ e.failure_count = q.failure_count /\ e.group = q.group /\ e.test_count = q.test_count
        /\ e.total_check_count = q.total_check_count
    <3>1. CountedUp(q, e, r.check_count)
      BY <2>3, <2>4, CaseEnded
    <3>2. Len(q.cases) = m
      BY <2>2
    <3> QED
      BY <3>1, <3>2 DEF CountedUp
  <2> DEFINE d == [q.cases[m] EXCEPT !.check_count = r.check_count]
  <2>6. q.cases[m] \in CaseType /\ m \in 1 .. Len(q.cases)
    BY <2>1, <2>2, <2>3
  <2>7. /\ d.test = q.cases[m].test /\ d.ignored = q.cases[m].ignored
        /\ d.failure = q.cases[m].failure /\ d.check_count = r.check_count
    BY <2>6 DEF CaseType
  <2>8. e.cases = [q.cases EXCEPT ![m] = d]
    BY <2>5
  <2> HIDE DEF d
  <2>9. Len(e.cases) = m /\ e.cases[m] = d /\ \A i \in 1 .. m : i # m => e.cases[i] = q.cases[i]
    BY <2>2, <2>3, <2>6, <2>8
  <2>10. LastCase(e) = d /\ LastCase(q) = q.cases[m]
    BY <2>2, <2>9 DEF LastCase
  <2>11. \A i \in 1 .. Len(j.cases) : e.cases[i] = j.cases[i]
    <3>1. \A i \in 1 .. Len(j.cases) : i \in 1 .. m /\ i # m
      BY <1>5, <1>9
    <3> QED
      BY <2>2, <2>9, <3>1
  <2>12. WithCase(j, e, x, runs, fs, r.check_count)
    BY <2>2, <2>5, <2>7, <2>9, <2>10, <2>11 DEF WithCase
  <2> QED
    BY <2>12 DEF e
<1>10. SameKind(o, u)
  BY <1>7, <1>8 DEF SameKind
<1> QED
  BY <1>9, <1>10

(* The places of s from a + 1 to b whose tests ran, where d is what each   *)
(* test did.                                                               *)
Ran(s, d, a, b) == {i \in a + 1 .. b : d[s[i]] # NotDone}

Rank(M, i) == Cardinality({k \in M : k <= i})

Failing(s, d, M) == {i \in M : d[s[i]].failures # <<>>}

(* A recorded case c of the test x that did o, where w are the tests that  *)
(* run their bodies.                                                       *)
IsCaseOf(c, x, o, w) ==
  /\ c.test = x
  /\ c.failure = IF o.failures # <<>> THEN o.failures[1] ELSE NoFailure
  /\ c.ignored /\ c.failure = NoFailure <=> x \notin w

(* The record j has the tests at the places M.                             *)
Holds(s, d, w, M, j) ==
  /\ IsFiniteSet(M) /\ j.test_count = Cardinality(M) /\ Len(j.cases) = Cardinality(M)
  /\ j.failure_count = Cardinality(Failing(s, d, M))
  /\ \A i \in M : IsCaseOf(j.cases[Rank(M, i)], s[i], d[s[i]], w)

(* In the l-th repetition the checks of the test at place i are counted    *)
(* from those of another of the same repetition, or from zero.             *)
Exact(s, d, l, i) == l = 1 \/ \E k \in 1 .. i - 1 : d[s[k]] # NotDone

ChecksHeld(s, d, l, M, j) ==
  \A i \in M : Exact(s, d, l, i) =>
    j.cases[Rank(M, i)].check_count - CountedFrom(j, Rank(M, i)) = d[s[i]].checks

(* Where the next case of j is counted from.                               *)
Base(j) == IF Len(j.cases) = 0 THEN j.total_check_count ELSE LastCase(j).check_count

(* A report f tells the truth of the tests at the places M.                *)
Tells(f, s, d, w, l, M) ==
  /\ f.tests = Cardinality(M) /\ Len(f.cases) = Cardinality(M)
  /\ f.failures = Cardinality(Failing(s, d, M))
  /\ \A i \in M :
       LET c == f.cases[Rank(M, i)]
       IN  /\ c.test = s[i]
           /\ c.failure = IF d[s[i]].failures # <<>> THEN d[s[i]].failures[1] ELSE NoFailure
           /\ c.skipped <=> s[i] \notin w
           /\ Exact(s, d, l, i) => c.assertions = d[s[i]].checks

LEMMA RankGrows ==
  ASSUME NEW M \in SUBSET Nat, IsFiniteSet(M), NEW p \in Nat, \A k \in M : k < p
  PROVE  /\ IsFiniteSet(M \cup {p}) /\ Cardinality(M \cup {p}) = Cardinality(M) + 1
         /\ Cardinality(M) \in Nat
         /\ Rank(M \cup {p}, p) = Cardinality(M) + 1
         /\ \A i \in M : Rank(M \cup {p}, i) = Rank(M, i) /\ Rank(M, i) \in 1 .. Cardinality(M)
<1>1. p \notin M
  OBVIOUS
<1>2. IsFiniteSet(M \cup {p}) /\ Cardinality(M \cup {p}) = Cardinality(M) + 1
  BY <1>1, FS_AddElement
<1>3. Cardinality(M) \in Nat
  BY FS_CardinalityType
<1>4. {k \in M \cup {p} : k <= p} = M \cup {p}
  <2>1. \A k \in M \cup {p} : k <= p
    OBVIOUS
  <2> QED
    BY <2>1
<1>5. ASSUME NEW i \in M
      PROVE  Rank(M \cup {p}, i) = Rank(M, i) /\ Rank(M, i) \in 1 .. Cardinality(M)
  <2> DEFINE low == {k \in M : k <= i}
  <2>1. {k \in M \cup {p} : k <= i} = low
    OBVIOUS
  <2>2. low \subseteq M /\ i \in low
    OBVIOUS
  <2> HIDE DEF low
  <2>3. IsFiniteSet(low) /\ Cardinality(low) <= Cardinality(M)
    BY <2>2, FS_Subset
  <2>4. Cardinality(low) \in Nat /\ Cardinality(low) # 0
    BY <2>2, <2>3, FS_CardinalityType, FS_EmptySet
  <2>5. Rank(M \cup {p}, i) = Cardinality(low) /\ Rank(M, i) = Cardinality(low)
    BY <2>1 DEF Rank, low
  <2> QED
    BY <1>3, <2>3, <2>4, <2>5
<1> QED
  BY <1>2, <1>3, <1>4, <1>5 DEF Rank

(* What a record or a report says of some places is about these only.      *)
LEMMA SamePlaces ==
  ASSUME NEW s, NEW d, NEW e, NEW w, NEW l, NEW M,
         \A i \in M : e[s[i]] = d[s[i]] /\ (Exact(s, e, l, i) <=> Exact(s, d, l, i))
  PROVE  /\ \A j : Holds(s, d, w, M, j) => Holds(s, e, w, M, j)
         /\ \A j : ChecksHeld(s, d, l, M, j) => ChecksHeld(s, e, l, M, j)
         /\ \A f : Tells(f, s, d, w, l, M) => Tells(f, s, e, w, l, M)
<1>1. Failing(s, e, M) = Failing(s, d, M)
  BY DEF Failing
<1>2. ASSUME NEW j, Holds(s, d, w, M, j) PROVE Holds(s, e, w, M, j)
  BY <1>1, <1>2 DEF Holds
<1>3. ASSUME NEW j, ChecksHeld(s, d, l, M, j) PROVE ChecksHeld(s, e, l, M, j)
  BY <1>3 DEF ChecksHeld
<1>4. ASSUME NEW f, Tells(f, s, d, w, l, M) PROVE Tells(f, s, e, w, l, M)
  BY <1>1, <1>4 DEF Tells
<1> QED
  BY <1>2, <1>3, <1>4

(* u has the test at place p besides those of j, and c checks are counted. *)
OneMore(s, d, w, l, M, p, j, u, c) ==
  /\ Holds(s, d, w, M \cup {p}, u)
  /\ Base(u) = c
  /\ ChecksHeld(s, d, l, M, j) /\ (Exact(s, d, l, p) => c - Base(j) = d[s[p]].checks)
     => ChecksHeld(s, d, l, M \cup {p}, u)

LEMMA CaseAdded ==
  ASSUME NEW s, NEW d, NEW w, NEW l, NEW M \in SUBSET Nat, NEW p \in Nat, \A k \in M : k < p,
         NEW j, IsJUnit(j), Holds(s, d, w, M, j), NEW runs \in BOOLEAN, runs <=> s[p] \in w,
         d[s[p]].failures \in Seq(STRING \ {NoFailure}), ~runs => d[s[p]].failures = <<>>,
         NEW c, NEW u, WithCase(j, u, s[p], runs, d[s[p]].failures, c)
  PROVE  OneMore(s, d, w, l, M, p, j, u, c)
<1> DEFINE x == s[p]
           o == d[x]
           fs == o.failures
           N == M \cup {p}
           m == Cardinality(M)
<1>1. IsFiniteSet(M) /\ Len(j.cases) = m
  BY DEF Holds
<1>2. /\ IsFiniteSet(N) /\ Cardinality(N) = m + 1 /\ m \in Nat /\ Rank(N, p) = m + 1
      /\ \A i \in M : Rank(N, i) = Rank(M, i) /\ Rank(M, i) \in 1 .. m
  BY <1>1, RankGrows
<1> HIDE DEF N, m
<1>3. /\ Len(u.cases) = m + 1 /\ u.test_count = m + 1
      /\ u.total_check_count = j.total_check_count
      /\ \A i \in 1 .. m : u.cases[i] = j.cases[i]
      /\ LastCase(u) = u.cases[m + 1]
  <2>1. Len(u.cases) = m + 1 /\ u.test_count = m + 1 /\ u.total_check_count = j.total_check_count
    BY <1>1 DEF WithCase, Holds, m
  <2>2. \A i \in 1 .. m : u.cases[i] = j.cases[i]
    BY <1>1 DEF WithCase
  <2> QED
    BY <2>1, <2>2 DEF LastCase
<1>4. Len(fs) \in Nat /\ (Len(fs) = 0 <=> fs = <<>>)
  BY EmptySeq
<1>5. /\ LastCase(u).test = x /\ LastCase(u).ignored = ~runs /\ LastCase(u).check_count = c
      /\ u.failure_count = j.failure_count + (IF fs = <<>> THEN 0 ELSE 1)
      /\ LastCase(u).failure = IF fs = <<>> THEN NoFailure ELSE fs[1]
  BY <1>4 DEF WithCase
<1>6. u.failure_count = Cardinality(Failing(s, d, N))
  <2>1. Failing(s, d, M) \subseteq M
    BY DEF Failing
  <2>2. IsFiniteSet(Failing(s, d, M)) /\ p \notin Failing(s, d, M)
    BY <1>1, <2>1, FS_Subset
  <2>3. j.failure_count = Cardinality(Failing(s, d, M)) /\ j.failure_count \in Nat
    BY DEF Holds, IsJUnit
  <2>4. CASE fs = <<>>
    <3>1. Failing(s, d, N) = Failing(s, d, M)
      BY <2>4 DEF Failing, N
    <3> QED
      BY <1>5, <2>3, <2>4, <3>1
  <2>5. CASE fs # <<>>
    <3>1. Failing(s, d, N) = Failing(s, d, M) \cup {p}
      BY <2>5 DEF Failing, N
    <3>2. Cardinality(Failing(s, d, M) \cup {p}) = Cardinality(Failing(s, d, M)) + 1
      BY <2>2, FS_AddElement
    <3> QED
      BY <1>5, <2>3, <2>5, <3>1, <3>2
  <2> QED
    BY <2>4, <2>5
<1>7. IsCaseOf(u.cases[m + 1], x, o, w)
  <2>1. fs # <<>> => runs
    OBVIOUS
  <2>2. ~runs => LastCase(u).failure = NoFailure
    BY <1>5, <2>1
  <2>3. LastCase(u).ignored <=> ~runs
    BY <1>5
  <2>4. LastCase(u).ignored /\ LastCase(u).failure = NoFailure <=> x \notin w
    BY <2>2, <2>3
  <2> QED
    BY <1>3, <1>5, <2>4 DEF IsCaseOf
<1>8. ASSUME NEW i \in N PROVE IsCaseOf(u.cases[Rank(N, i)], s[i], d[s[i]], w)
  <2>1. CASE i = p
    BY <1>2, <1>7, <2>1
  <2>2. CASE i \in M
    <3>1. IsCaseOf(j.cases[Rank(M, i)], s[i], d[s[i]], w)
      BY <2>2 DEF Holds
    <3> QED
      BY <1>2, <1>3, <2>2, <3>1
  <2> QED
    BY <1>8, <2>1, <2>2 DEF N
<1>9. Holds(s, d, w, N, u)
  BY <1>2, <1>3, <1>6, <1>8 DEF Holds
<1>10. Base(u) = c
  BY <1>2, <1>3, <1>5 DEF Base
<1>11. ASSUME ChecksHeld(s, d, l, M, j), Exact(s, d, l, p) => c - Base(j) = d[s[p]].checks
       PROVE  ChecksHeld(s, d, l, N, u)
  <2> SUFFICES ASSUME NEW i \in N, Exact(s, d, l, i)
               PROVE  u.cases[Rank(N, i)].check_count - CountedFrom(u, Rank(N, i)) = d[s[i]].checks
    BY DEF ChecksHeld
  <2>1. CASE i = p
    <3>1. u.cases[m + 1].check_count = c
      BY <1>3, <1>5
    <3>2. CountedFrom(u, m + 1) = Base(j)
      <4>1. CASE m = 0
        BY <1>1, <1>3, <4>1 DEF CountedFrom, Base
      <4>2. CASE m # 0
        <5>1. m \in 1 .. m /\ m + 1 # 1 /\ m + 1 - 1 = m
          BY <1>2, <4>2
        <5>2. CountedFrom(u, m + 1) = u.cases[m].check_count
          BY <5>1 DEF CountedFrom
        <5>3. Base(j) = j.cases[m].check_count
          BY <1>1, <4>2 DEF Base, LastCase
        <5> QED
          BY <1>3, <5>1, <5>2, <5>3
      <4> QED
        BY <4>1, <4>2
    <3> QED
      BY <1>2, <1>11, <2>1, <3>1, <3>2
  <2>2. CASE i \in M
    <3> DEFINE r == Rank(M, i)
    <3>1. j.cases[r].check_count - CountedFrom(j, r) = d[s[i]].checks
      BY <1>11, <2>2 DEF ChecksHeld
    <3>2. r \in 1 .. m /\ Rank(N, i) = r
      BY <1>2, <2>2
    <3> HIDE DEF r
    <3>3. u.cases[r] = j.cases[r] /\ (r # 1 => u.cases[r - 1] = j.cases[r - 1])
      <4>1. r # 1 => r - 1 \in 1 .. m
        BY <1>2, <3>2
      <4> QED
        BY <1>3, <3>2, <4>1
    <3>4. CountedFrom(u, r) = CountedFrom(j, r)
      BY <1>3, <3>3 DEF CountedFrom
    <3> QED
      BY <3>1, <3>2, <3>3, <3>4
  <2> QED
    BY <2>1, <2>2 DEF N
<1> QED
  BY <1>9, <1>10, <1>11 DEF N, OneMore

LEMMA ReportTells ==
  ASSUME NEW s, NEW d, NEW w, NEW l, NEW M \in SUBSET Nat, NEW j, IsJUnit(j),
         Holds(s, d, w, M, j), ChecksHeld(s, d, l, M, j)
  PROVE  Tells(Report(j), s, d, w, l, M)
<1> DEFINE f == Report(j)
           cs == [i \in DOMAIN j.cases |->
                    LET cur == j.cases[i]
                    IN  [test |-> cur.test, assertions |-> cur.check_count - CountedFrom(j, i),
                         failure |-> cur.failure, skipped |-> cur.failure = NoFailure /\ cur.ignored]]
<1>1. f.tests = j.test_count /\ f.failures = j.failure_count /\ f.cases = cs
  BY DEF Report
<1> HIDE DEF f
<1>2. j.cases \in Seq(CaseType) /\ Len(j.cases) \in Nat /\ DOMAIN j.cases = 1 .. Len(j.cases)
  BY DEF IsJUnit
<1>3. Len(cs) = Len(j.cases)
  BY <1>2
<1>4. ASSUME NEW i \in M
      PROVE  LET c == f.cases[Rank(M, i)]
             IN  /\ c.test = s[i]
                 /\ c.failure = IF d[s[i]].failures # <<>> THEN d[s[i]].failures[1] ELSE NoFailure
                 /\ c.skipped <=> s[i] \notin w
                 /\ Exact(s, d, l, i) => c.assertions = d[s[i]].checks
  <2> DEFINE r == Rank(M, i)
             cur == j.cases[r]
  <2>1. r \in DOMAIN j.cases
    <3> DEFINE low == {k \in M : k <= i}
    <3>1. low \subseteq M /\ i \in low
      OBVIOUS
    <3>2. r = Cardinality(low)
      BY DEF Rank
    <3> HIDE DEF low, r
    <3>3. IsFiniteSet(M) /\ Len(j.cases) = Cardinality(M)
      BY DEF Holds
    <3>4. IsFiniteSet(low) /\ Cardinality(low) <= Cardinality(M)
      BY <3>1, <3>3, FS_Subset
    <3>5. Cardinality(low) \in Nat /\ Cardinality(low) # 0
      BY <3>1, <3>4, FS_CardinalityType, FS_EmptySet
    <3> QED
      BY <1>2, <3>2, <3>3, <3>4, <3>5
  <2>2. cs[r] = [test |-> cur.test, assertions |-> cur.check_count - CountedFrom(j, r),
                 failure |-> cur.failure, skipped |-> cur.failure = NoFailure /\ cur.ignored]
    BY <2>1
  <2>3. IsCaseOf(cur, s[i], d[s[i]], w)
    BY DEF Holds
  <2>4. Exact(s, d, l, i) => cur.check_count - CountedFrom(j, r) = d[s[i]].checks
    BY DEF ChecksHeld
  <2> DEFINE no == cur.failure = NoFailure /\ cur.ignored
             a == cur.check_count - CountedFrom(j, r)
             b == cur.test
             e == cur.failure
  <2> HIDE DEF no, a, b, e, cs, r
  <2>5. cs[r] = [test |-> b, assertions |-> a, failure |-> e, skipped |-> no]
    BY <2>2 DEF no, a, b, e
  <2>6. cs[r].test = b /\ cs[r].failure = e /\ cs[r].assertions = a /\ cs[r].skipped = no
    BY <2>5
  <2>7. cs[r].skipped <=> s[i] \notin w
    BY <2>3, <2>6 DEF IsCaseOf, no
  <2> QED
    BY <1>1, <2>3, <2>4, <2>7, <2>6 DEF IsCaseOf, r, a, b, e
<1>5. f.tests = Cardinality(M) /\ Len(f.cases) = Cardinality(M) /\ f.failures = Cardinality(Failing(s, d, M))
  BY <1>1, <1>3 DEF Holds
<1> QED
  BY <1>4, <1>5 DEF Tells, f

(* Of the places R those that the report of group g is about.              *)
Mine(s, R, g) ==
  {i \in R : Group[s[i]] = g /\ \A k \in R : k > i /\ Group[s[k]] = g => \A m \in i .. k : Group[s[m]] = g}

(* The reports f of the groups up to place b.                              *)
Reports(s, d, w, l, f, b) ==
  \A i \in Ran(s, d, 0, b) : Tells(f[Group[s[i]]], s, d, w, l, Mine(s, Ran(s, d, 0, b), Group[s[i]]))

(* Group by group: b is where the group at hand begins, whose tests are    *)
(* all those up to place n.                                                *)
Together(s, n, b) ==
  /\ b \in 0 .. n
  /\ b = 0 \/ b = Len(s) \/ Group[s[b]] # Group[s[b + 1]]
  /\ \A i \in b + 1 .. n : Group[s[i]] = Group[s[b + 1]]

(* What is recorded and reported after the first n tests of the list: the  *)
(* record j and the reports f, with c checks counted, where no report was  *)
(* lost.                                                                   *)
Recorded(s, n, b, d, w, l, j, f, gone, c) ==
  /\ IsJUnit(j) /\ DOMAIN f = GroupNames /\ c \in Nat
  /\ Holds(s, d, w, Ran(s, d, b, n), j)
  /\ j.group = IF Ran(s, d, b, n) = {} THEN <<>> ELSE Group[s[b + 1]]
  /\ gone \/ /\ ChecksHeld(s, d, l, Ran(s, d, b, n), j)
             /\ Exact(s, d, l, n + 1) => Base(j) = c
             /\ Reports(s, d, w, l, f, b)

LEMMA NotRan ==
  ASSUME NEW s, NEW n \in Nat, NEW b \in 0 .. n, NEW d, NEW w, NEW l, NEW j, NEW f, NEW gone, NEW c,
         d[s[n + 1]] = NotDone, Recorded(s, n, b, d, w, l, j, f, gone, c)
  PROVE  Recorded(s, n + 1, b, d, w, l, j, f, gone, c)
<1>1. Ran(s, d, b, n + 1) = Ran(s, d, b, n)
  BY DEF Ran
<1>2. Exact(s, d, l, n + 1 + 1) => Exact(s, d, l, n + 1)
  BY DEF Exact
<1> QED
  BY <1>1, <1>2 DEF Recorded

LEMMA HasRun ==
  ASSUME NEW s \in Seq(Tests), OneToOne(s), NEW n \in Nat, n + 1 \in 1 .. Len(s),
         NEW b, b # n + 1, Together(s, n + 1, b),
         NEW d, NEW e, e[s[n + 1]] # NotDone, \A x \in Tests : x # s[n + 1] => e[x] = d[x],
         NEW w, NEW l, NEW j, NEW f, NEW gone, NEW c, Recorded(s, n, b, d, w, l, j, f, gone, c),
         NEW runs \in BOOLEAN, runs <=> s[n + 1] \in w,
         e[s[n + 1]].failures \in Seq(STRING \ {NoFailure}), ~runs => e[s[n + 1]].failures = <<>>,
         e[s[n + 1]].checks \in Nat,
         NEW u, WithCase(j, u, s[n + 1], runs, e[s[n + 1]].failures, c + e[s[n + 1]].checks)
  PROVE  Recorded(s, n + 1, b, e, w, l, u, f, gone, c + e[s[n + 1]].checks)
<1> DEFINE M == Ran(s, d, b, n)
           N == Ran(s, e, b, n + 1)
           p == n + 1
           v == c + e[s[p]].checks
<1>1. b \in Nat /\ b \in 0 .. n /\ Len(s) \in Nat /\ \A i \in 1 .. Len(s) : s[i] \in Tests
  BY DEF Together
<1>2. \A i \in 1 .. n : e[s[i]] = d[s[i]]
  <2> TAKE i \in 1 .. n
  <2>1. i \in 1 .. Len(s) /\ i # p
    BY <1>1
  <2>2. s[i] # s[p] /\ s[i] \in Tests
    BY <1>1, <2>1 DEF OneToOne
  <2> QED
    BY <2>2
<1>3. Ran(s, e, b, n) = M /\ N = M \cup {p} /\ M \in SUBSET (b + 1 .. n)
  BY <1>1, <1>2 DEF Ran
<1>4. \A i \in 1 .. p : Exact(s, e, l, i) <=> Exact(s, d, l, i)
  <2> TAKE i \in 1 .. p
  <2>1. \A k \in 1 .. i - 1 : k \in 1 .. n
    BY <1>1
  <2>2. \A k \in 1 .. i - 1 : e[s[k]] = d[s[k]]
    BY ONLY <1>2, <2>1
  <2> QED
    BY ONLY <2>2 DEF Exact
<1>5. Ran(s, e, 0, b) = Ran(s, d, 0, b) /\ Ran(s, d, 0, b) \in SUBSET (1 .. n)
  BY <1>1, <1>2 DEF Ran
<1>6. /\ IsJUnit(j) /\ DOMAIN f = GroupNames /\ c \in Nat
      /\ Holds(s, d, w, M, j)
      /\ gone \/ /\ ChecksHeld(s, d, l, M, j)
                 /\ Exact(s, d, l, p) => Base(j) = c
                 /\ Reports(s, d, w, l, f, b)
  BY DEF Recorded
<1> HIDE DEF M
<1>7. M \in SUBSET Nat /\ (\A k \in M : k < p) /\ M \in SUBSET (1 .. n)
  BY <1>1, <1>3
<1>8. Holds(s, e, w, M, j) /\ (ChecksHeld(s, d, l, M, j) => ChecksHeld(s, e, l, M, j))
  <2>1. \A i \in M : e[s[i]] = d[s[i]] /\ (Exact(s, e, l, i) <=> Exact(s, d, l, i))
    BY <1>2, <1>4, <1>7
  <2> QED
    BY <1>6, <2>1, SamePlaces
<1> HIDE DEF N
<1>9. /\ Holds(s, e, w, M \cup {p}, u)
      /\ Base(u) = v
      /\ ChecksHeld(s, e, l, M, j) /\ (Exact(s, e, l, p) => v - Base(j) = e[s[p]].checks)
         => ChecksHeld(s, e, l, M \cup {p}, u)
  <2>1. WithCase(j, u, s[p], runs, e[s[p]].failures, v) /\ p \in Nat /\ (runs <=> s[p] \in w)
    OBVIOUS
  <2>2. e[s[p]].failures \in Seq(STRING \ {NoFailure}) /\ (~runs => e[s[p]].failures = <<>>)
    OBVIOUS
  <2> HIDE DEF p, v
  <2>3. OneMore(s, e, w, l, M, p, j, u, v)
    BY <1>6, <1>7, <1>8, <2>1, <2>2, CaseAdded
  <2> QED
    BY <2>3 DEF OneMore
<1>10. IsJUnit(u) /\ u.group = Group[s[p]] /\ v \in Nat
  BY <1>6 DEF WithCase
<1>11. u.group = IF M \cup {p} = {} THEN <<>> ELSE Group[s[b + 1]]
  <2>1. Group[s[p]] = Group[s[b + 1]]
    BY <1>1 DEF Together
  <2> QED
    BY <1>10, <2>1
<1>12. Reports(s, d, w, l, f, b) => Reports(s, e, w, l, f, b)
  <2> SUFFICES ASSUME Reports(s, d, w, l, f, b), NEW i \in Ran(s, d, 0, b)
               PROVE  Tells(f[Group[s[i]]], s, e, w, l, Mine(s, Ran(s, d, 0, b), Group[s[i]]))
    BY <1>5 DEF Reports
  <2> DEFINE S == Mine(s, Ran(s, d, 0, b), Group[s[i]])
  <2>1. S \subseteq 1 .. n
    BY <1>5 DEF Mine
  <2>2. Tells(f[Group[s[i]]], s, d, w, l, S)
    BY DEF Reports
  <2> HIDE DEF S
  <2>3. \A k \in S : e[s[k]] = d[s[k]] /\ (Exact(s, e, l, k) <=> Exact(s, d, l, k))
    BY <1>2, <1>4, <2>1
  <2> QED
    BY <2>2, <2>3, SamePlaces DEF S
<1>13. gone \/ /\ ChecksHeld(s, e, l, M \cup {p}, u)
               /\ Exact(s, e, l, p + 1) => Base(u) = v
               /\ Reports(s, e, w, l, f, b)
  <2> SUFFICES ASSUME ~gone
               PROVE  ChecksHeld(s, e, l, M \cup {p}, u) /\ Base(u) = v /\ Reports(s, e, w, l, f, b)
    OBVIOUS
  <2>1. Exact(s, e, l, p) => v - Base(j) = e[s[p]].checks
    BY <1>4, <1>6
  <2> QED
    BY <1>3, <1>6, <1>8, <1>9, <1>12, <2>1
<1> QED
  BY <1>3, <1>6, <1>9, <1>10, <1>11, <1>13 DEF Recorded, N

LEMMA RecordReset ==
  ASSUME NEW j, IsJUnit(j), NEW opened \in BOOLEAN
  PROVE  LET u == JUnitGroupEnded(j, opened)
         IN  IsJUnit(u) /\ Idle(u) /\ (opened => u.total_check_count = Base(j))
<1> DEFINE n == IF opened /\ j.cases # <<>> THEN Last(j.cases).check_count ELSE j.total_check_count
           u == JUnitGroupEnded(j, opened)
           a == [j EXCEPT !.total_check_count = n]
<1>1. j.cases \in Seq(CaseType) /\ Len(j.cases) \in Nat /\ (Len(j.cases) = 0 <=> j.cases = <<>>)
  BY EmptySeq DEF IsJUnit
<1>2. opened => n = Base(j)
  BY <1>1 DEF Base, LastCase, Last
<1>3. u = ResetGroup(a)
  <2>1. CASE opened /\ j.cases # <<>>
    BY <2>1 DEF JUnitGroupEnded
  <2>2. CASE ~(opened /\ j.cases # <<>>)
    <3>1. a = j
      BY <2>2 DEF IsJUnit
    <3>2. u = ResetGroup(j)
      BY <2>2 DEF JUnitGroupEnded
    <3> QED
      BY <3>1, <3>2
  <2> QED
    BY <2>1, <2>2
<1> HIDE DEF n, u
<1> DEFINE z == <<>>
           o == 0
           v == [a EXCEPT !.group = z, !.test_count = o, !.failure_count = o, !.cases = z]
<1>4. u = v
  BY <1>3 DEF ResetGroup
<1>5. z \in Seq(CaseType)
  OBVIOUS
<1> HIDE DEF z, o
<1>6. a = [group |-> j.group, test_count |-> j.test_count, failure_count |-> j.failure_count,
           total_check_count |-> n, cases |-> j.cases, std_output |-> j.std_output]
  BY DEF IsJUnit
<1> HIDE DEF a
<1>7. v = [group |-> v.group, test_count |-> v.test_count, failure_count |-> v.failure_count,
           total_check_count |-> v.total_check_count, cases |-> v.cases, std_output |-> v.std_output]
  <2>1. a = [group |-> a.group, test_count |-> a.test_count, failure_count |-> a.failure_count,
             total_check_count |-> a.total_check_count, cases |-> a.cases, std_output |-> a.std_output]
    BY <1>6
  <2>2. v = [a EXCEPT !.group = z, !.test_count = o, !.failure_count = o, !.cases = z]
    OBVIOUS
  <2> HIDE DEF v
  <2> QED
    BY <2>1, <2>2
<1>8. v.group = z /\ v.test_count = o /\ v.failure_count = o /\ v.cases = z /\ v.total_check_count = n
  BY <1>6
<1> HIDE DEF v
<1>9. IsJUnit(v) /\ Idle(v)
  BY <1>5, <1>7, <1>8 DEF IsJUnit, Idle, z, o
<1> QED
  BY <1>2, <1>4, <1>8, <1>9 DEF u

(* The report of the group that ends at place n is about its places, and   *)
(* that of another one about those it was about.                           *)
LEMMA PlacesSplit ==
  ASSUME NEW s, NEW n \in Nat, NEW b \in 0 .. n, NEW d
  PROVE  Ran(s, d, 0, n) = Ran(s, d, 0, b) \cup Ran(s, d, b, n)
BY DEF Ran

LEMMA MineAre ==
  ASSUME NEW s \in Seq(Tests), NEW n \in 1 .. Len(s), NEW b \in 0 .. n - 1, Together(s, n, b),
         NEW d, NEW g
  PROVE  LET B == Ran(s, d, b, n)
             R == Ran(s, d, 0, n)
         IN  /\ g # Group[s[b + 1]] => Mine(s, R, g) = Mine(s, Ran(s, d, 0, b), g)
             /\ g = Group[s[b + 1]] /\ B # {} => Mine(s, R, g) = B
<1> DEFINE B == Ran(s, d, b, n)
           R == Ran(s, d, 0, n)
           O == Ran(s, d, 0, b)
<1>0. n \in Nat /\ b \in Nat /\ Len(s) \in Nat
  OBVIOUS
<1>1. R = O \cup B /\ O \in SUBSET (1 .. b) /\ B \in SUBSET (b + 1 .. n)
  BY <1>0 DEF Ran
<1>2. \A i \in B : Group[s[i]] = Group[s[b + 1]]
  BY <1>1 DEF Together
<1> HIDE DEF B, R, O
<1>3. ASSUME g # Group[s[b + 1]] PROVE Mine(s, R, g) = Mine(s, O, g)
  BY <1>1, <1>2, <1>3 DEF Mine
<1>4. ASSUME g = Group[s[b + 1]], B # {} PROVE Mine(s, R, g) = B
  <2>1. ASSUME NEW i \in B PROVE i \in Mine(s, R, g)
    <3>1. i \in R /\ Group[s[i]] = g
      BY <1>1, <1>2, <1>4
    <3>2. ASSUME NEW k \in R, k > i, NEW m \in i .. k PROVE Group[s[m]] = g
      <4>1. i \in b + 1 .. n
        BY <1>1
      <4>2. k \in 1 .. b \/ k \in b + 1 .. n
        BY <1>1
      <4>3. m \in b + 1 .. n
        BY <1>0, <3>2, <4>1, <4>2
      <4> QED
        BY <1>4, <4>3 DEF Together
    <3> QED
      BY <3>1, <3>2 DEF Mine
  <2>2. ASSUME NEW i \in Mine(s, R, g), i \notin B PROVE FALSE
    <3>1. PICK k \in B : TRUE
      BY <1>4
    <3>2. i \in 1 .. b /\ k \in b + 1 .. n /\ k \in R /\ Group[s[k]] = g
      BY <1>1, <1>2, <1>4, <2>2 DEF Mine
    <3>3. b \in i .. k /\ k > i /\ b # 0 /\ b # Len(s)
      BY <1>0, <3>2
    <3>4. Group[s[b]] = g
      BY <2>2, <3>2, <3>3 DEF Mine
    <3> QED
      BY <1>4, <3>3, <3>4 DEF Together
  <2> QED
    BY <2>1, <2>2
<1> QED
  BY <1>1, <1>3, <1>4 DEF B, R, O

(* The group at hand ends, and its file can be opened or cannot.           *)
LEMMA GroupRecorded ==
  ASSUME NEW s \in Seq(Tests), NEW n \in 1 .. Len(s), NEW b \in 0 .. n - 1, Together(s, n, b),
         NEW d, NEW w, NEW l, NEW j, NEW f, NEW gone, NEW c, Recorded(s, n, b, d, w, l, j, f, gone, c),
         NEW opened \in BOOLEAN, NEW h,
         h = IF opened THEN [f EXCEPT ![j.group] = Report(j)] ELSE f
  PROVE  Recorded(s, n, n, d, w, l, JUnitGroupEnded(j, opened), h, gone \/ ~opened, c)
<1> DEFINE u == JUnitGroupEnded(j, opened)
           B == Ran(s, d, b, n)
           R == Ran(s, d, 0, n)
           g == Group[s[b + 1]]
<1>0. n \in Nat /\ b \in Nat /\ Len(s) \in Nat
  OBVIOUS
<1>1. /\ IsJUnit(j) /\ DOMAIN f = GroupNames /\ c \in Nat
      /\ Holds(s, d, w, B, j)
      /\ j.group = IF B = {} THEN <<>> ELSE g
      /\ gone \/ /\ ChecksHeld(s, d, l, B, j)
                 /\ Exact(s, d, l, n + 1) => Base(j) = c
                 /\ Reports(s, d, w, l, f, b)
  BY DEF Recorded
<1>2. IsJUnit(u) /\ Idle(u) /\ (opened => u.total_check_count = Base(j))
  BY <1>1, RecordReset
<1> HIDE DEF u
<1>3. Ran(s, d, n, n) = {}
  BY <1>0 DEF Ran
<1>4. Holds(s, d, w, {}, u) /\ ChecksHeld(s, d, l, {}, u)
  <2>1. Failing(s, d, {}) = {}
    BY DEF Failing
  <2>2. Cardinality({}) = 0 /\ IsFiniteSet({}) /\ Len(<<>>) = 0
    BY FS_EmptySet
  <2> QED
    BY <1>2, <2>1, <2>2 DEF Holds, ChecksHeld, Idle
<1>5. Base(u) = u.total_check_count
  BY <1>2 DEF Base, Idle
<1>6. \A i \in 1 .. n : Group[s[i]] \in GroupNames /\ Group[s[i]] # <<>>
  <2>1. \A i \in 1 .. n : s[i] \in Tests
    BY <1>0
  <2> QED
    BY <2>1, ProgramAssumption DEF GroupNames
<1>7. g \in GroupNames /\ g # <<>> /\ <<>> \in GroupNames /\ B \in SUBSET (b + 1 .. n) /\ R \in SUBSET (1 .. n)
  <2>1. b + 1 \in 1 .. n
    BY <1>0
  <2> QED
    BY <1>0, <1>6, <2>1 DEF GroupNames, Ran
<1>8. DOMAIN h = GroupNames
  BY <1>1
<1>9. ASSUME ~gone, opened PROVE Reports(s, d, w, l, h, n)
  <2>1. h = [f EXCEPT ![j.group] = Report(j)] /\ j.group \in DOMAIN f
    BY <1>1, <1>7, <1>9
  <2>2. h[j.group] = Report(j) /\ \A q \in GroupNames : q # j.group => h[q] = f[q]
    BY <1>1, <2>1
  <2> SUFFICES ASSUME NEW i \in R
               PROVE  Tells(h[Group[s[i]]], s, d, w, l, Mine(s, R, Group[s[i]]))
    BY DEF Reports
  <2> DEFINE q == Group[s[i]]
  <2>3. q \in GroupNames /\ q # <<>>
    BY <1>6, <1>7
  <2>4. /\ q # g => Mine(s, R, q) = Mine(s, Ran(s, d, 0, b), q)
        /\ q = g /\ B # {} => Mine(s, R, q) = B
        /\ B = {} => R = Ran(s, d, 0, b)
        /\ i \notin B => i \in Ran(s, d, 0, b)
    <3> HIDE DEF q
    <3>1. q # g => Mine(s, R, q) = Mine(s, Ran(s, d, 0, b), q)
      BY MineAre
    <3>2. q = g /\ B # {} => Mine(s, R, q) = B
      BY MineAre
    <3>3. b \in 0 .. n /\ n \in Nat
      BY <1>0
    <3>4. R = Ran(s, d, 0, b) \cup B
      BY <3>3, PlacesSplit
    <3> QED
      BY <3>1, <3>2, <3>4
  <2>5. i \in B => q = g
    BY <1>7 DEF Together
  <2> HIDE DEF B, R
  <2>6. CASE B # {} /\ q = g
    <3>1. h[q] = Report(j) /\ Mine(s, R, q) = B
      BY <1>1, <2>2, <2>4, <2>6
    <3>2. Tells(Report(j), s, d, w, l, B)
      <4>1. B \in SUBSET Nat
        BY <1>0, <1>7
      <4> QED
        BY <1>1, <1>9, <4>1, ReportTells
    <3> QED
      BY <3>1, <3>2
  <2>7. CASE B = {} \/ q # g
    <3>1. i \in Ran(s, d, 0, b) /\ Mine(s, R, q) = Mine(s, Ran(s, d, 0, b), q)
      BY <2>4, <2>5, <2>7
    <3>2. q # j.group
      BY <1>1, <2>3, <2>7
    <3>3. h[q] = f[q]
      BY <2>2, <2>3, <3>2
    <3> QED
      BY <1>1, <1>9, <3>1, <3>3 DEF Reports
  <2> QED
    BY <2>6, <2>7
<1>10. u.group = <<>>
  BY <1>2 DEF Idle
<1>11. (gone \/ ~opened) \/ /\ ChecksHeld(s, d, l, {}, u)
                            /\ Exact(s, d, l, n + 1) => Base(u) = c
                            /\ Reports(s, d, w, l, h, n)
  BY <1>1, <1>2, <1>4, <1>5, <1>9
<1> QED
  BY <1>1, <1>2, <1>3, <1>4, <1>8, <1>10, <1>11 DEF Recorded, u

(* The tests that run their bodies.                                        *)
Willing == {x \in Tests : WillRun(x)}

(* The loop is before the test at place n + 1 of the list s.               *)
AtPlace(s, n) ==
  /\ IsList(s) /\ n \in 0 .. Len(s) /\ t = Entry(s, n + 1)
  /\ \A x \in DidRun : \E i \in 1 .. n : x = s[i]

(* And in the group that begins after place b.                             *)
Amid(s, n, b) ==
  IF group_start THEN b = n ELSE b < n /\ n < Len(s) /\ Group[s[n + 1]] = Group[s[b + 1]]

Stands(s, n, b) ==
  /\ AtPlace(s, n) /\ Together(s, n, b) /\ Amid(s, n, b)
  /\ Recorded(s, n, b, did, Willing, loop, out.junit, files, lost, res.check_count)

ReportInv ==
  /\ DOMAIN files = GroupNames
  /\ phase \in {"between", Running} => IsOut(out) /\ (out.type = "junit" => IsJUnit(out.junit))
  /\ out.type = "junit" /\ phase = "between" =>
       Idle(out.junit) /\ (loop = 0 => out.junit.total_check_count = 0)
  /\ phase = Running => loop # 0
  /\ out.type = "junit" /\ phase = Running =>
       \E s \in Seq(Tests), n \in Nat, b \in Nat : Stands(s, n, b)

(* What a turn of the loop has done before it ends the group.              *)
Turned(u) ==
  /\ SameKind(out, u) /\ (out.type = "junit" => IsJUnit(u.junit))
  /\ \/ /\ did' = did /\ res'.check_count = res.check_count
        /\ out.type = "junit" => u.junit = out.junit
     \/ \E o \in Outcomes \cup {Nothing} :
          /\ did' = [did EXCEPT ![t] = o] /\ res'.check_count = res.check_count + o.checks
          /\ WillRun(t) \/ o = Nothing
          /\ out.type = "junit" => WithCase(out.junit, u.junit, t, WillRun(t), o.failures, res'.check_count)

LEMMA OutcomeTypes ==
  ASSUME NEW o \in Outcomes \cup {Nothing}
  PROVE  o.failures \in Seq(STRING \ {NoFailure}) /\ o.checks \in Nat /\ o # NotDone
<1>1. CASE o \in Outcomes
  BY <1>1, ProgramAssumption, NothingTypes
<1>2. CASE o = Nothing
  <2>1. o.failures = <<>> /\ o.checks = 0
    BY <1>2 DEF Nothing
  <2>2. <<>> \in Seq(STRING \ {NoFailure})
    OBVIOUS
  <2> QED
    BY <1>2, <2>1, <2>2, NothingTypes
<1> QED
  BY <1>1, <1>2

LEMMA TurnIs ==
  ASSUME Pending, ListInv, ResultsInv, ReportInv, phase = Running, RunTest
  PROVE  \E u : EndGroup(u) /\ Turned(u)
<1> DEFINE a == IF group_start THEN GroupStarted(out, t) ELSE out
<1>1. t \in Tests
  BY TestPending
<1>2. IsOut(out) /\ (out.type = "junit" => IsJUnit(out.junit)) /\ res \in ResultType
  BY DEF ReportInv, ResultsInv
<1>3. /\ SameKind(out, a) /\ (out.type = "junit" => a = out)
      /\ IsOut(a) /\ a.type = out.type /\ (a.type = "junit" => IsJUnit(a.junit))
  BY <1>2, GroupStartedShown DEF SameKind
<1>4. CASE ~TestShouldRun(args, t)
  <2>1. /\ res' = [res EXCEPT !.test_count = @ + 1, !.filtered_out_count = @ + 1]
        /\ EndGroup(a) /\ did' = did
    BY <1>4 DEF RunTest
  <2>2. res'.check_count = res.check_count
    BY <1>2, <2>1 DEF ResultType
  <2> HIDE DEF a
  <2>3. Turned(a)
    BY <1>2, <1>3, <2>1, <2>2 DEF Turned
  <2> QED
    BY <2>1, <2>3
<1>5. CASE TestShouldRun(args, t)
  <2>1. PICK o \in IF WillRun(t) THEN Outcomes ELSE {Nothing} :
          /\ res' = Counted(t, o) /\ did' = [did EXCEPT ![t] = o]
          /\ EndGroup(TestEnded(Failures(TestStarted(a, t, WillRun(t)), t, o), res'))
    BY <1>5 DEF RunTest
  <2>2. o \in Outcomes \cup {Nothing} /\ (WillRun(t) \/ o = Nothing)
    OBVIOUS
  <2>3. o.failures \in Seq(STRING \ {NoFailure}) /\ o.checks \in Nat
    BY <2>2, OutcomeTypes
  <2>4. WillRun(t) \in BOOLEAN
    BY DEF WillRun
  <2>5. res'.check_count = res.check_count + o.checks /\ res'.check_count \in Nat
    <3> DEFINE c == res.check_count + o.checks
               n == Len(o.failures)
    <3>1. res' = [res EXCEPT !.test_count = @ + 1, !.check_count = c,
                             !.failure_count = @ + n,
                             !.run_count = IF WillRun(t) THEN @ + 1 ELSE @,
                             !.ignored_count = IF WillRun(t) THEN @ ELSE @ + 1]
      BY <2>1 DEF Counted
    <3>2. c \in Nat
      BY <1>2, <2>3 DEF ResultType
    <3> HIDE DEF c, n
    <3>3. res'.check_count = c
      BY <1>2, <3>1 DEF ResultType
    <3> QED
      BY <3>2, <3>3 DEF c
  <2>6. PICK r : r = res'
    OBVIOUS
  <2>7. PICK u : u = TestEnded(Failures(TestStarted(a, t, WillRun(t)), t, o), r)
    OBVIOUS
  <2> HIDE DEF a
  <2>8. /\ SameKind(a, u)
        /\ a.type = "junit" => WithCase(a.junit, u.junit, t, WillRun(t), o.failures, r.check_count)
    <3>1. r.check_count \in Nat
      BY <2>5, <2>6
    <3> QED
      BY <1>1, <1>3, <2>3, <2>4, <2>7, <3>1, TestShown
  <2>9. SameKind(out, u) /\ (out.type = "junit" => IsJUnit(u.junit))
    BY <1>3, <2>8 DEF SameKind, WithCase
  <2>10. out.type = "junit" => WithCase(out.junit, u.junit, t, WillRun(t), o.failures, r.check_count)
    BY <1>3, <2>8
  <2>11. Turned(u)
    BY <2>1, <2>2, <2>5, <2>6, <2>9, <2>10 DEF Turned
  <2>12. EndGroup(u)
    BY <2>1, <2>6, <2>7
  <2> QED
    BY <2>11, <2>12
<1> QED
  BY <1>4, <1>5

(* The record and the reports after a turn, before the group ends.         *)
LEMMA TurnRecorded ==
  ASSUME ListInv, ResultsInv, Pending, phase = Running, RunTest, out.type = "junit",
         NEW s \in Seq(Tests), NEW n \in Nat, NEW b \in Nat, Stands(s, n, b), NEW u, Turned(u)
  PROVE  /\ n + 1 \in 1 .. Len(s) /\ t = s[n + 1] /\ b \in 0 .. n /\ Together(s, n + 1, b)
         /\ Recorded(s, n + 1, b, did', Willing, loop, u.junit, files, lost, res'.check_count)
<1>1. /\ IsList(s) /\ n \in 0 .. Len(s) /\ t = Entry(s, n + 1) /\ t # NIL
      /\ Together(s, n, b) /\ Amid(s, n, b)
      /\ Recorded(s, n, b, did, Willing, loop, out.junit, files, lost, res.check_count)
  BY DEF Stands, AtPlace, RunTest
<1>2. Len(s) \in Nat /\ OneToOne(s) /\ \A i \in 1 .. Len(s) : s[i] \in Tests
  BY <1>1 DEF IsList, Links
<1>3. n + 1 \in 1 .. Len(s) /\ t = s[n + 1]
  BY <1>1, <1>2 DEF Entry
<1>4. b \in 0 .. n /\ Together(s, n + 1, b)
  <2>1. Group[s[n + 1]] = Group[s[b + 1]]
    BY <1>1 DEF Amid
  <2> QED
    BY <1>1, <2>1 DEF Together
<1>5. did[t] = NotDone /\ did \in [Tests -> Outcomes \cup {Nothing, NotDone}] /\ t \in Tests
  BY TestPending DEF ResultsInv
<1>6. PICK e, c : e = did' /\ c = res'.check_count
  OBVIOUS
<1>7. CASE /\ did' = did /\ res'.check_count = res.check_count
           /\ u.junit = out.junit
  <2>1. e = did /\ c = res.check_count /\ did[s[n + 1]] = NotDone
    BY <1>3, <1>5, <1>6, <1>7
  <2>2. Recorded(s, n + 1, b, did, Willing, loop, out.junit, files, lost, res.check_count)
    BY <1>1, <1>4, <2>1, NotRan
  <2> QED
    BY <1>3, <1>4, <1>6, <1>7, <2>1, <2>2
<1>8. ASSUME NEW o \in Outcomes \cup {Nothing},
             did' = [did EXCEPT ![t] = o], res'.check_count = res.check_count + o.checks,
             WillRun(t) \/ o = Nothing,
             WithCase(out.junit, u.junit, t, WillRun(t), o.failures, res'.check_count)
      PROVE  Recorded(s, n + 1, b, e, Willing, loop, u.junit, files, lost, c)
  <2> DEFINE p == n + 1
             runs == WillRun(t)
             w == Willing
             j == out.junit
             v == u.junit
             k == res.check_count
  <2>1. o.failures \in Seq(STRING \ {NoFailure}) /\ o.checks \in Nat /\ o # NotDone
    BY OutcomeTypes
  <2>2. e[s[p]] = o /\ \A x \in Tests : x # s[p] => e[x] = did[x]
    BY <1>3, <1>5, <1>6, <1>8
  <2>3. runs \in BOOLEAN /\ (runs <=> s[p] \in w)
    BY <1>3, <1>5 DEF WillRun, Willing
  <2>4. ~runs => e[s[p]].failures = <<>>
    BY <1>8, <2>2 DEF Nothing
  <2>5. c = k + e[s[p]].checks /\ WithCase(j, v, s[p], runs, e[s[p]].failures, k + e[s[p]].checks)
    BY <1>3, <1>6, <1>8, <2>2
  <2>6. Recorded(s, n, b, did, w, loop, j, files, lost, k)
    BY <1>1
  <2>7. b # p
    BY <1>4
  <2> HIDE DEF runs, w, j, v, k
  <2>8. Recorded(s, n + 1, b, e, w, loop, v, files, lost, k + e[s[n + 1]].checks)
    BY <1>2, <1>3, <1>4, <2>1, <2>2, <2>3, <2>4, <2>5, <2>6, <2>7, HasRun
  <2> QED
    BY <2>5, <2>8 DEF w, v
<1>9. \/ did' = did /\ res'.check_count = res.check_count /\ u.junit = out.junit
      \/ \E o \in Outcomes \cup {Nothing} :
          /\ did' = [did EXCEPT ![t] = o] /\ res'.check_count = res.check_count + o.checks
          /\ WillRun(t) \/ o = Nothing
          /\ WithCase(out.junit, u.junit, t, WillRun(t), o.failures, res'.check_count)
  BY DEF Turned
<1> QED
  BY <1>3, <1>4, <1>6, <1>7, <1>8, <1>9

LEMMA TurnEnds ==
  ASSUME ListInv, ResultsInv, Pending, ReportInv, phase = Running, RunTest
  PROVE  ReportInv'
<1>1. PICK u : EndGroup(u) /\ Turned(u)
  BY TurnIs
<1>2. /\ phase' = Running /\ UNCHANGED <<vars, args, loop>> /\ t' = next[t] /\ loop # 0 /\ t # NIL
      /\ DOMAIN files = GroupNames
  BY DEF RunTest, ReportInv
<1>3. IsOut(u) /\ u.type = out.type /\ (out.type = "junit" => IsJUnit(u.junit))
  BY <1>1 DEF Turned, SameKind
<1>4. Willing' = Willing
  BY <1>2 DEF Willing, WillRun
<1>5. t \in Tests
  BY TestPending
<1>6. DidRun' \subseteq DidRun \cup {t}
  BY <1>1, <1>5 DEF Turned, DidRun, ResultsInv
<1>7. ASSUME NEW s \in Seq(Tests), NEW n \in Nat, NEW b \in Nat, Stands(s, n, b), n + 1 \in 1 .. Len(s), t = s[n + 1]
      PROVE  AtPlace(s, n + 1)'
  <2>1. IsList(s) /\ \A x \in DidRun : \E i \in 1 .. n : x = s[i]
    BY <1>7 DEF Stands, AtPlace
  <2>2. IsList(s)' /\ next[s[n + 1]] = Entry(s, n + 1 + 1) /\ Len(s) \in Nat
    BY <1>2, <1>7, <2>1 DEF IsList, Links, vars, list
  <2>3. ASSUME NEW x \in DidRun' PROVE \E i \in 1 .. n + 1 : x = s[i]
    <3>1. CASE x = t
      <4>1. n + 1 \in 1 .. n + 1
        OBVIOUS
      <4> QED
        BY <1>7, <3>1, <4>1
    <3>2. CASE x \in DidRun
      <4>1. PICK i \in 1 .. n : x = s[i]
        BY <2>1, <3>2
      <4>2. i \in 1 .. n + 1
        OBVIOUS
      <4> QED
        BY <4>1, <4>2
    <3> QED
      BY <1>6, <2>3, <3>1, <3>2
  <2>4. t' = Entry(s, n + 1 + 1) /\ n + 1 \in 0 .. Len(s)
    BY <1>2, <1>7, <2>2
  <2> QED
    BY <2>2, <2>3, <2>4 DEF AtPlace
<1>8. CASE ~group_changes(t)
  <2>1. out' = u /\ group_start' = FALSE /\ UNCHANGED <<files, lost>>
    BY <1>1, <1>8 DEF EndGroup
  <2>2. ASSUME out'.type = "junit"
        PROVE  (\E s \in Seq(Tests), n \in Nat, b \in Nat : Stands(s, n, b))'
    <3>1. PICK s \in Seq(Tests), n \in Nat, b \in Nat : Stands(s, n, b)
      BY <1>3, <2>1, <2>2 DEF ReportInv
    <3>2. /\ n + 1 \in 1 .. Len(s) /\ t = s[n + 1] /\ b \in 0 .. n /\ Together(s, n + 1, b)
          /\ Recorded(s, n + 1, b, did', Willing, loop, u.junit, files, lost, res'.check_count)
      BY <1>1, <1>3, <2>1, <2>2, <3>1, TurnRecorded
    <3>3. AtPlace(s, n + 1)'
      BY <1>7, <3>1, <3>2
    <3>4. Amid(s, n + 1, b)'
      <4>1. next[t] # NIL /\ Group[t] = Group[next[t]] /\ next[t] = Entry(s, n + 1 + 1)
        BY <1>2, <1>8, <3>3 DEF group_changes, AtPlace
      <4>2. n + 1 + 1 \in 1 .. Len(s) /\ next[t] = s[n + 1 + 1]
        BY <4>1 DEF Entry
      <4>3. Group[s[n + 1 + 1]] = Group[s[b + 1]]
        BY <3>2, <4>1, <4>2 DEF Together
      <4>4. b < n + 1 /\ n + 1 < Len(s)
        BY <3>2, <4>2
      <4> QED
        BY <2>1, <4>3, <4>4 DEF Amid
    <3>5. Stands(s, n + 1, b)'
      BY <1>2, <1>4, <2>1, <3>2, <3>3, <3>4 DEF Stands
    <3>6. n + 1 \in Nat
      OBVIOUS
    <3> QED
      BY <3>5, <3>6
  <2> QED
    BY <1>2, <1>3, <2>1, <2>2 DEF ReportInv, Running
<1>9. CASE group_changes(t)
  <2>1. PICK opened \in BOOLEAN :
          /\ out' = GroupEnded(u, opened) /\ group_start' = TRUE
          /\ files' = IF u.type = "junit" /\ opened
                      THEN [files EXCEPT ![u.junit.group] = Report(u.junit)] ELSE files
          /\ lost' = (lost \/ ~opened)
    BY <1>1, <1>9 DEF EndGroup
  <2>2. /\ SameKind(u, out')
        /\ u.type = "junit" => out'.junit = JUnitGroupEnded(u.junit, opened)
    BY <1>3, <2>1, GroupEndedShown
  <2>3. IsOut(out') /\ out'.type = out.type
    BY <1>3, <2>2 DEF SameKind
  <2>4. out'.type = "junit" => IsJUnit(out'.junit)
    BY <1>3, <2>2, <2>3, RecordReset
  <2>5. DOMAIN files' = GroupNames
    BY <1>2, <2>1
  <2>6. ASSUME out'.type = "junit"
        PROVE  (\E s \in Seq(Tests), n \in Nat, b \in Nat : Stands(s, n, b))'
    <3>1. PICK s \in Seq(Tests), n \in Nat, b \in Nat : Stands(s, n, b)
      BY <2>3, <2>6 DEF ReportInv
    <3>2. /\ n + 1 \in 1 .. Len(s) /\ t = s[n + 1] /\ b \in 0 .. n /\ Together(s, n + 1, b)
          /\ Recorded(s, n + 1, b, did', Willing, loop, u.junit, files, lost, res'.check_count)
      BY <1>1, <2>3, <2>6, <3>1, TurnRecorded
    <3>3. AtPlace(s, n + 1)'
      BY <1>7, <3>1, <3>2
    <3>4. Amid(s, n + 1, n + 1)'
      BY <2>1 DEF Amid
    <3>5. Together(s, n + 1, n + 1)
      <4>1. n + 1 = Len(s) \/ Group[s[n + 1]] # Group[s[n + 1 + 1]]
        <5> SUFFICES ASSUME n + 1 # Len(s) PROVE Group[s[n + 1]] # Group[s[n + 1 + 1]]
          OBVIOUS
        <5>1. n + 1 + 1 \in 1 .. Len(s)
          BY <3>2
        <5>2. next[t] = s[n + 1 + 1]
          BY <1>2, <3>3, <5>1 DEF AtPlace, Entry
        <5>3. next[t] # NIL
          BY <5>1, <5>2, RegistryAssumption
        <5> QED
          BY <1>9, <3>2, <5>2, <5>3 DEF group_changes
      <4> QED
        BY <4>1 DEF Together
    <3>6. PICK d, c, j, h : d = did' /\ c = res'.check_count /\ j = u.junit /\ h = files'
      OBVIOUS
    <3>7. h = IF opened THEN [files EXCEPT ![j.group] = Report(j)] ELSE files
      BY <1>3, <2>1, <2>3, <2>6, <3>6
    <3>8. Recorded(s, n + 1, b, d, Willing, loop, j, files, lost, c)
      BY <3>2, <3>6
    <3>9. n + 1 \in 1 .. Len(s) /\ b \in 0 .. (n + 1) - 1
      BY <3>2
    <3>10. Recorded(s, n + 1, n + 1, d, Willing, loop, JUnitGroupEnded(j, opened), h, lost \/ ~opened, c)
      BY <3>2, <3>7, <3>8, <3>9, GroupRecorded
    <3>11. /\ out'.junit = JUnitGroupEnded(j, opened) /\ lost' = (lost \/ ~opened)
           /\ Willing' = Willing /\ loop' = loop
      BY <1>2, <1>3, <1>4, <2>1, <2>2, <2>3, <2>6, <3>6
    <3>12. Recorded(s, n + 1, n + 1, did', Willing', loop', out'.junit, files', lost', res'.check_count)
      BY <3>6, <3>10, <3>11
    <3>13. Stands(s, n + 1, n + 1)'
      BY <3>3, <3>4, <3>5, <3>12 DEF Stands
    <3>14. n + 1 \in Nat
      OBVIOUS
    <3> QED
      BY <3>13, <3>14
  <2> QED
    BY <1>2, <2>3, <2>4, <2>5, <2>6 DEF ReportInv, Running
<1> QED
  BY <1>8, <1>9

(* Where the loop has come to its end, the last group has ended too.       *)
LEMMA LoopDone ==
  ASSUME NEW s \in Seq(Tests), NEW n \in Nat, NEW b \in Nat, Stands(s, n, b), t = NIL
  PROVE  n = Len(s) /\ b = n
<1>1. n \in 0 .. Len(s) /\ NIL = Entry(s, n + 1) /\ Len(s) \in Nat /\ Amid(s, n, b)
  BY DEF Stands, AtPlace
<1>2. n = Len(s)
  <2> SUFFICES ASSUME n # Len(s) PROVE FALSE
    OBVIOUS
  <2>1. n + 1 \in 1 .. Len(s)
    BY <1>1
  <2>2. s[n + 1] \in Tests
    BY <2>1
  <2> QED
    BY <1>1, <2>1, <2>2, RegistryAssumption DEF Entry
<1> QED
  BY <1>1, <1>2 DEF Amid

LEMMA RepetitionReported ==
  ASSUME ReportInv, phase = Running, EndRepetition
  PROVE  ReportInv'
<1>1. /\ out' = Summary(out, res) /\ t = NIL /\ phase' = "between" /\ UNCHANGED <<files, loop>>
      /\ IsOut(out) /\ loop # 0 /\ DOMAIN files = GroupNames
      /\ out.type = "junit" => IsJUnit(out.junit)
  BY DEF EndRepetition, ReportInv
<1>2. SameReports(out, out')
  BY <1>1, SummaryShown
<1>3. IsOut(out') /\ out'.type = out.type /\ out'.junit = out.junit
  BY <1>2 DEF SameReports, SameKind
<1>4. ASSUME out.type = "junit" PROVE Idle(out.junit)
  <2>1. PICK s \in Seq(Tests), n \in Nat, b \in Nat : Stands(s, n, b)
    BY <1>4 DEF ReportInv
  <2>2. b = n
    BY <1>1, <2>1, LoopDone
  <2> DEFINE M == Ran(s, did, b, n)
             j == out.junit
  <2>3. Holds(s, did, Willing, M, j) /\ j.group = IF M = {} THEN <<>> ELSE Group[s[b + 1]]
    BY <2>1 DEF Stands, Recorded
  <2>4. M = {}
    BY <2>2 DEF Ran
  <2> HIDE DEF M
  <2>5. Cardinality(M) = 0 /\ Failing(s, did, M) = {} /\ Cardinality({}) = 0
    BY <2>4, FS_EmptySet DEF Failing
  <2>6. j.cases \in Seq(CaseType) /\ Len(j.cases) = 0
    BY <1>1, <1>4, <2>3, <2>5 DEF IsJUnit, Holds
  <2>7. j.cases = <<>>
    BY <2>6, EmptySeq
  <2> QED
    BY <2>3, <2>4, <2>5, <2>7 DEF Holds, Idle
<1> QED
  BY <1>1, <1>3, <1>4 DEF ReportInv, Running

LEMMA RepetitionBegins ==
  ASSUME ListInv', status' = "running", ReportInv, loop \in Nat, StartRepetition
  PROVE  ReportInv'
<1>1. /\ phase = "between" /\ phase' = Running /\ loop' = loop + 1
      /\ res' = NoResult /\ t' = tests_head' /\ group_start' = TRUE
      /\ did' = [x \in Tests |-> NotDone] /\ lost' = FALSE /\ files' = files
  BY DEF StartRepetition
<1>2. /\ IsOut(out) /\ DOMAIN files = GroupNames
      /\ out.type = "junit" =>
           IsJUnit(out.junit) /\ Idle(out.junit) /\ (loop = 0 => out.junit.total_check_count = 0)
  BY <1>1 DEF ReportInv
<1>3. SamePrint(out, out')
  <2> DEFINE o == PrintStr(out, "Test run")
  <2>1. SamePrint(out, o)
    BY <1>2, PrintShown
  <2> HIDE DEF o
  <2>2. SameReports(o, PrintNum(o, loop + 1))
    BY <1>2, <2>1, PrintShown DEF SamePrint, SameKind
  <2>3. SamePrint(out, PrintNum(o, loop + 1))
    BY <2>1, <2>2, KindSame DEF SamePrint
  <2>4. SamePrint(out, out)
    BY <1>2 DEF SamePrint, SameKind
  <2>5. out' = IF args.repeat > 1 THEN PrintNum(o, loop + 1) ELSE out
    BY DEF o, StartRepetition
  <2> QED
    BY <2>3, <2>4, <2>5
<1>4. /\ IsOut(out') /\ out'.type = out.type
      /\ out.type = "junit" =>
           /\ IsJUnit(out'.junit) /\ Idle(out'.junit)
           /\ loop' = 1 => out'.junit.total_check_count = 0
  <2>1. loop' = 1 => loop = 0
    BY <1>1
  <2> QED
    BY <1>2, <1>3, <2>1 DEF SamePrint, SameKind, Idle
<1>5. ASSUME out'.type = "junit"
      PROVE  (\E s \in Seq(Tests), n \in Nat, b \in Nat : Stands(s, n, b))'
  <2>1. PICK s \in Seq(Tests) : IsList(s)'
    BY DEF ListInv
  <2>2. AtPlace(s, 0)'
    <3>1. t' = Entry(s, 1) /\ Len(s) \in Nat
      BY <1>1, <2>1 DEF IsList, Links
    <3>2. DidRun' = {}
      BY <1>1 DEF DidRun
    <3> QED
      BY <2>1, <3>1, <3>2 DEF AtPlace
  <2>3. Amid(s, 0, 0)' /\ Together(s, 0, 0)
    BY <1>1 DEF Amid, Together
  <2>4. PICK d, j : d = did' /\ j = out'.junit
    OBVIOUS
  <2>5. Ran(s, d, 0, 0) = {}
    BY DEF Ran
  <2>6. Holds(s, d, Willing', {}, j) /\ ChecksHeld(s, d, loop', {}, j)
    <3>1. Failing(s, d, {}) = {}
      BY DEF Failing
    <3>2. Cardinality({}) = 0 /\ IsFiniteSet({}) /\ Len(<<>>) = 0
      BY FS_EmptySet
    <3> QED
      BY <1>4, <1>5, <2>4, <3>1, <3>2 DEF Holds, ChecksHeld, Idle
  <2>7. j.group = <<>> /\ Base(j) = j.total_check_count
    BY <1>4, <1>5, <2>4 DEF Idle, Base
  <2>8. Exact(s, d, loop', 0 + 1) => Base(j) = 0
    BY <1>4, <1>5, <2>4, <2>7 DEF Exact
  <2>9. Reports(s, d, Willing', loop', files', 0)
    BY <2>5 DEF Reports
  <2>10. res'.check_count = 0
    BY <1>1 DEF NoResult
  <2>11. Recorded(s, 0, 0, d, Willing', loop', j, files', lost', 0)
    BY <1>1, <1>2, <1>4, <1>5, <2>4, <2>5, <2>6, <2>7, <2>8, <2>9 DEF Recorded
  <2>12. Stands(s, 0, 0)'
    BY <2>2, <2>3, <2>4, <2>10, <2>11 DEF Stands
  <2>13. 0 \in Nat
    OBVIOUS
  <2> QED
    BY <2>12, <2>13
<1> QED
  BY <1>1, <1>2, <1>4, <1>5 DEF ReportInv, Running

LEMMA OutputCreated ==
  ASSUME NEW type, NEW verbose
  PROVE  LET o == OutputOf(type, verbose)
         IN  IsOut(o) /\ IsJUnit(o.junit) /\ Idle(o.junit) /\ o.junit.total_check_count = 0
<1> DEFINE o == OutputOf(type, verbose)
<1>1. IsOut(o)
  <2> DEFINE both == type = "junit" /\ verbose
             b == <<>>
             j == JUnitCreated
  <2>1. o = [type |-> type, verbose |-> verbose, also_console |-> both, dot_count |-> 0,
             progress_indicator |-> "done", tc_group |-> b, tc_current |-> NoTest,
             junit |-> j, shown |-> b]
    BY DEF OutputOf
  <2> HIDE DEF both, b, j, o
  <2> QED
    BY <2>1 DEF IsOut
<1>2. o.junit = JUnitCreated
  BY DEF OutputOf
<1>3. IsJUnit(JUnitCreated) /\ Idle(JUnitCreated) /\ JUnitCreated.total_check_count = 0
  BY DEF JUnitCreated, IsJUnit, Idle
<1> QED
  BY <1>1, <1>2, <1>3

LEMMA RunBegins ==
  ASSUME ReportInv, Start
  PROVE  ReportInv'
<1>1. files' = files /\ DOMAIN files = GroupNames
  BY DEF Start, ReportInv
<1>2. phase' \in {"exited", "between"}
  BY DEF Start, Exit
<1>3. CASE phase' = "exited"
  BY <1>1, <1>3 DEF ReportInv, Running
<1>4. CASE phase' = "between"
  <2>1. PICK p : LET o == OutputOf(p.args.output_type, Verbose(p.args))
                 IN  out' = IF p.args.shuffling THEN PrintNum(PrintStr(o, "seed"), "seed") ELSE o
    BY <1>4 DEF Start, Exit
  <2> DEFINE o == OutputOf(p.args.output_type, Verbose(p.args))
             v == PrintStr(o, "seed")
  <2>2. out' = IF p.args.shuffling THEN PrintNum(v, "seed") ELSE o
    BY <2>1
  <2>3. IsOut(o) /\ IsJUnit(o.junit) /\ Idle(o.junit) /\ o.junit.total_check_count = 0
    BY OutputCreated
  <2> HIDE DEF o
  <2>4. SamePrint(o, v)
    BY <2>3, PrintShown
  <2> HIDE DEF v
  <2>5. SameReports(v, PrintNum(v, "seed"))
    BY <2>3, <2>4, PrintShown DEF SamePrint, SameKind
  <2>6. SamePrint(o, PrintNum(v, "seed"))
    BY <2>4, <2>5, KindSame DEF SamePrint
  <2>7. SamePrint(o, o)
    BY <2>3 DEF SamePrint, SameKind
  <2>8. SamePrint(o, out')
    BY <2>2, <2>6, <2>7
  <2>9. /\ IsOut(out')
        /\ out'.type = "junit" => IsJUnit(out'.junit) /\ Idle(out'.junit) /\ out'.junit.total_check_count = 0
    BY <2>3, <2>8 DEF SamePrint, SameKind, Idle
  <2> QED
    BY <1>1, <1>4, <2>9 DEF ReportInv, Running
<1> QED
  BY <1>2, <1>3, <1>4

LEMMA ReportInit == ProgramInit => ReportInv
<1> SUFFICES ASSUME ProgramInit PROVE ReportInv
  OBVIOUS
<1>1. phase = "before" /\ DOMAIN files = GroupNames
  BY DEF ProgramInit, GroupNames
<1> QED
  BY <1>1 DEF ReportInv, Running

LEMMA ReportNext ==
  ASSUME ListInv, ListInv', ExitInv, ReportInv, [ProgramNext]_allVars
  PROVE  ReportInv'
<1>1. /\ PhaseInv /\ loop \in Nat
      /\ phase = Running => Pending /\ ResultsInv
  BY DEF ExitInv, PhaseInv
<1>2. ASSUME Initialise PROVE ReportInv'
  <2>1. UNCHANGED <<phase, files>> /\ status = "installing"
    BY <1>2 DEF Initialise, runVars, Install, InstallOrdered, UndoLastAdd, Fresh
  <2>2. phase = "before"
    BY <1>1, <2>1 DEF PhaseInv
  <2> QED
    BY <2>1, <2>2 DEF ReportInv, Running
<1>3. ASSUME Start PROVE ReportInv'
  BY <1>3, RunBegins
<1>4. ASSUME StartRepetition PROVE ReportInv'
  <2>1. status' = status /\ phase = "between"
    BY <1>4 DEF StartRepetition, Shuffle, vars
  <2>2. status' = "running"
    BY <1>1, <2>1 DEF PhaseInv
  <2> QED
    BY <1>1, <1>4, <2>2, RepetitionBegins
<1>5. ASSUME RunTest PROVE ReportInv'
  <2>1. phase = Running
    BY <1>5 DEF RunTest
  <2> QED
    BY <1>1, <1>5, <2>1, TurnEnds
<1>6. ASSUME EndRepetition PROVE ReportInv'
  <2>1. phase = Running
    BY <1>6 DEF EndRepetition
  <2> QED
    BY <1>6, <2>1, RepetitionReported
<1>7. ASSUME EndRun PROVE ReportInv'
  <2>1. phase' = "exited" /\ files' = files
    BY <1>7 DEF EndRun, Exit
  <2> QED
    BY <2>1 DEF ReportInv, Running
<1>8. ASSUME UNCHANGED allVars PROVE ReportInv'
  <2>1. UNCHANGED <<out, res, phase, t, group_start, loop, files, args, did, lost, vars>>
    BY <1>8 DEF allVars, runVars, history
  <2>2. ASSUME NEW s, NEW n, NEW b, Stands(s, n, b) PROVE Stands(s, n, b)'
    <3>1. Willing' = Willing /\ DidRun' = DidRun
      BY <2>1 DEF Willing, WillRun, DidRun
    <3>2. IsList(s) => IsList(s)'
      BY <2>1 DEF IsList, Links, vars, list
    <3> QED
      BY <2>1, <2>2, <3>1, <3>2 DEF Stands, AtPlace, Amid
  <2> QED
    BY <2>1, <2>2 DEF ReportInv
<1> QED
  BY <1>2, <1>3, <1>4, <1>5, <1>6, <1>7, <1>8 DEF ProgramNext, Stopped

LEMMA ReportInvHolds == ProgramSpec => []ReportInv
<1>1. ProgramInit => ReportInv
  BY ReportInit
<1>2. ListInv /\ ListInv' /\ ExitInv /\ ReportInv /\ [ProgramNext]_allVars => ReportInv'
  BY ReportNext
<1> QED
  BY <1>1, <1>2, ListInvHolds, ExitInvHolds, PTL DEF ProgramSpec

LEMMA Greatest ==
  ASSUME NEW n \in Nat, NEW S \in SUBSET (1 .. n), S # {}
  PROVE  Max(S) \in S /\ \A i \in S : i <= Max(S)
<1> DEFINE U == {m \in 0 .. n : \A i \in S : i <= m}
<1>1. U \in SUBSET Nat /\ n \in U
  OBVIOUS
<1>2. PICK m \in U : \A k \in U : m <= k
  BY <1>1, Least
<1>3. m \in S
  <2> SUFFICES ASSUME m \notin S PROVE FALSE
    OBVIOUS
  <2>1. PICK i \in S : TRUE
    OBVIOUS
  <2>2. m \in Nat /\ i \in 1 .. n /\ i <= m
    BY <1>2
  <2>3. \A k \in S : k \in Nat /\ k <= m /\ k # m
    BY <1>2
  <2>4. m - 1 \in U
    <3>1. m - 1 \in 0 .. n
      BY <1>2, <2>2
    <3>2. \A k \in S : k <= m - 1
      BY <2>2, <2>3
    <3> QED
      BY <3>1, <3>2
  <2> HIDE DEF U
  <2>5. m <= m - 1
    BY <1>2, <2>4
  <2> QED
    BY <2>2, <2>5
<1>4. \A i \in S : m >= i
  BY <1>2
<1>5. \E x \in S : \A y \in S : x >= y
  BY <1>3, <1>4
<1>6. Max(S) \in S /\ \A i \in S : Max(S) >= i
  BY <1>5 DEF Max
<1>7. \A i, k \in S : k >= i => i <= k
  OBVIOUS
<1> QED
  BY <1>6, <1>7

(* After the loop, the places that Reported names are those that are mine. *)
LEMMA ReportedAre ==
  ASSUME NEW s \in Seq(Tests), IsList(s), NEW R, R = Ran(s, did, 0, Len(s)),
         NEW g, \E i \in R : Group[s[i]] = g
  PROVE  RanPlaces = R /\ Reported(g) = Mine(s, R, g)
<1>1. Registered = s /\ Len(s) \in Nat /\ DOMAIN s = 1 .. Len(s)
  BY RegisteredIs
<1>2. RanPlaces = R
  <2>1. \A i \in 1 .. Len(s) : s[i] \in Tests
    OBVIOUS
  <2> QED
    BY <1>1, <2>1 DEF RanPlaces, DidRun, Ran
<1> DEFINE S == {i \in R : Group[s[i]] = g}
           top == Max(S)
<1>3. S \in SUBSET (1 .. Len(s)) /\ S # {} /\ R \in SUBSET (1 .. Len(s))
  BY <1>1 DEF Ran
<1>4. top \in S /\ \A i \in S : i <= top
  <2> HIDE DEF S
  <2> QED
    BY <1>1, <1>3, Greatest
<1>5. Reported(g) = Block(top) \cap S
  BY <1>1, <1>2 DEF Reported
<1> HIDE DEF top
<1>6. top \in R /\ Group[s[top]] = g /\ top \in 1 .. Len(s)
  BY <1>3, <1>4
<1>7. ASSUME NEW i \in S, i \in Block(top) PROVE i \in Mine(s, R, g)
  <2>1. i \in 1 .. Len(s) /\ i <= top /\ Group[s[i]] = g /\ i \in R
    BY <1>3, <1>4
  <2>2. \A m \in i .. top : Group[s[m]] = g
    <3>1. ~ (top < i)
      BY <1>6, <2>1
    <3> QED
      BY <1>1, <1>6, <1>7, <3>1 DEF Block
  <2>3. ASSUME NEW k \in R, k > i, Group[s[k]] = g, NEW m \in i .. k PROVE Group[s[m]] = g
    <3>1. k \in 1 .. Len(s) /\ k <= top
      BY <1>3, <1>4, <2>3
    <3>2. m \in i .. top
      BY <1>6, <2>1, <3>1
    <3> QED
      BY <2>2, <3>2
  <2> QED
    BY <2>1, <2>3 DEF Mine
<1>8. ASSUME NEW i \in Mine(s, R, g) PROVE i \in S /\ i \in Block(top)
  <2>1. i \in R /\ Group[s[i]] = g /\ i \in S
    BY DEF Mine
  <2>2. i \in 1 .. Len(s) /\ i <= top
    BY <1>3, <1>4, <2>1
  <2>3. \A m \in i .. top : Group[s[m]] = g
    <3>1. CASE i = top
      BY <1>6, <2>2, <3>1
    <3>2. CASE i # top
      <4>1. top > i
        BY <1>6, <2>2, <3>2
      <4> QED
        BY <1>6, <4>1 DEF Mine
    <3> QED
      BY <3>1, <3>2
  <2>4. \A m \in (IF top < i THEN top .. i ELSE i .. top) : Group[s[m]] = Group[s[top]]
    <3>1. ~ (top < i)
      BY <1>6, <2>2
    <3> QED
      BY <1>6, <2>3, <3>1
  <2> QED
    BY <1>1, <2>1, <2>2, <2>4 DEF Block
<1> HIDE DEF S
<1>9. Reported(g) = Mine(s, R, g)
  BY <1>5, <1>7, <1>8
<1> QED
  BY <1>2, <1>9

(* A JUnit report (cu_junit_group_ended) is of the tests of its group that *)
(* ran, each once, in their order, with its first failure and its own      *)
(* checks, for any tests, orders, filters, repetitions and outcomes; and   *)
(* the report of a group that comes again is of its last stretch.          *)
THEOREM ReportsAreTrue == ProgramSpec => []ReportsTrue
<1>1. ASSUME ReportInv PROVE ReportsTrue
  <2> SUFFICES ASSUME AtEndOfLoop, out.type = "junit", ~lost, NEW x \in DidRun
               PROVE  TellsTruth(Group[x])
    BY DEF ReportsTrue
  <2> DEFINE g == Group[x]
             mine == Reported(g)
             failing == {i \in mine : did[Registered[i]].failures # <<>>}
  <2>1. PICK s \in Seq(Tests), n \in Nat, b \in Nat : Stands(s, n, b)
    BY <1>1 DEF ReportInv, AtEndOfLoop
  <2>2. n = Len(s) /\ b = n
    BY <2>1, LoopDone DEF AtEndOfLoop
  <2>3. IsList(s) /\ (\E i \in 1 .. n : x = s[i]) /\ Reports(s, did, Willing, loop, files, n)
    BY <2>1, <2>2 DEF Stands, AtPlace, Recorded
  <2>4. Registered = s /\ \A i \in 1 .. Len(s) : s[i] \in Tests
    BY <2>3, RegisteredIs
  <2> DEFINE R == Ran(s, did, 0, n)
             M == Mine(s, R, g)
  <2>5. PICK p \in R : x = s[p]
    BY <2>3 DEF Ran, DidRun
  <2>6. RanPlaces = R /\ mine = M
    <3> HIDE DEF R
    <3>1. R = Ran(s, did, 0, Len(s)) /\ \E i \in R : Group[s[i]] = g
      BY <2>2, <2>5 DEF R
    <3> HIDE DEF g
    <3> QED
      BY <2>3, <3>1, ReportedAre
  <2>7. Tells(files[g], s, did, Willing, loop, M)
    BY <2>3, <2>5 DEF Reports
  <2>8. R \in SUBSET (1 .. Len(s)) /\ M \subseteq R /\ Len(s) \in Nat
    BY <2>2 DEF Ran, Mine
  <2>9. \A i \in R : did[s[i]] # NotDone
    BY DEF Ran
  <2> HIDE DEF R, M, mine
  <2>10. failing = Failing(s, did, M)
    BY <2>4, <2>6 DEF Failing
  <2>11. /\ files[g].tests = Cardinality(mine)
         /\ Len(files[g].cases) = Cardinality(mine)
         /\ files[g].failures = Cardinality(failing)
    BY <2>6, <2>7, <2>10 DEF Tells
  <2>12. ASSUME NEW i \in mine
         PROVE  LET case == files[g].cases[Cardinality({k \in mine : k <= i})]
                    y == Registered[i]
                IN  /\ case.test = y
                    /\ case.failure = IF i \in failing THEN did[y].failures[1] ELSE NoFailure
                    /\ case.skipped <=> ~WillRun(y)
                    /\ (loop = 1 \/ i # Min(RanPlaces)) => case.assertions = did[y].checks
    <3> DEFINE case == files[g].cases[Cardinality({k \in mine : k <= i})]
    <3>1. case = files[g].cases[Rank(M, i)] /\ i \in M /\ i \in R /\ i \in 1 .. Len(s)
      BY <2>6, <2>8 DEF Rank
    <3> HIDE DEF case
    <3>2. /\ case.test = s[i]
          /\ case.failure = IF did[s[i]].failures # <<>> THEN did[s[i]].failures[1] ELSE NoFailure
          /\ case.skipped <=> s[i] \notin Willing
          /\ Exact(s, did, loop, i) => case.assertions = did[s[i]].checks
      BY <2>7, <3>1 DEF Tells
    <3>3. s[i] \notin Willing <=> ~WillRun(s[i])
      BY <2>4, <3>1 DEF Willing
    <3>4. i \in failing <=> did[s[i]].failures # <<>>
      BY <2>4
    <3>5. ASSUME loop = 1 \/ i # Min(RanPlaces) PROVE Exact(s, did, loop, i)
      <4>1. CASE loop = 1
        BY <4>1 DEF Exact
      <4>2. CASE i # Min(R)
        <5>1. R \in SUBSET Nat /\ R # {}
          BY <2>8, <3>1
        <5>2. Min(R) \in R /\ \A k \in R : Min(R) <= k
          BY <5>1, Least
        <5>3. PICK k \in R : k <= i /\ k # i
          BY <3>1, <4>2, <5>2
        <5>4. k \in 1 .. i - 1
          BY <2>8, <3>1, <5>3
        <5> QED
          BY <2>9, <5>3, <5>4 DEF Exact
      <4> QED
        BY <2>6, <3>5, <4>1, <4>2
    <3> HIDE DEF failing
    <3> QED
      BY <2>4, <3>2, <3>3, <3>4, <3>5 DEF case
  <2> QED
    BY <2>11, <2>12 DEF mine, TellsTruth
<1>2. ReportInv => ReportsTrue
  BY <1>1
<1> QED
  BY <1>2, ReportInvHolds, PTL

-------------------------------------------------------------------------------
(* Selections from a sequence *)

IsSeq(s) == s = [i \in 1 .. Len(s) |-> s[i]] /\ Len(s) \in Nat

(* u is s with e at its end.                                               *)
Longer(u, s, e) ==
  /\ IsSeq(u) /\ Len(u) = Len(s) + 1
  /\ \A i \in 1 .. Len(s) : u[i] = s[i]
  /\ u[Len(s) + 1] = e

LEMMA AnySeq ==
  ASSUME NEW T, NEW s \in Seq(T)
  PROVE  IsSeq(s)
BY DEF IsSeq

LEMMA IsSeqOf ==
  ASSUME NEW s, IsSeq(s), NEW e
  PROVE  \E T : s \in Seq(T) /\ e \in T
<1> DEFINE T == {s[i] : i \in 1 .. Len(s)} \cup {e}
<1>1. \A i \in 1 .. Len(s) : s[i] \in T
  OBVIOUS
<1> HIDE DEF T
<1>2. s \in [1 .. Len(s) -> T] /\ Len(s) \in Nat
  BY <1>1 DEF IsSeq
<1>3. s \in Seq(T)
  BY <1>2
<1>4. e \in T
  BY DEF T
<1> QED
  BY <1>3, <1>4

LEMMA EmptyIsSeq == IsSeq(<<>>) /\ Len(<<>>) = 0
BY DEF IsSeq

LEMMA AppendLonger ==
  ASSUME NEW s, IsSeq(s), NEW e
  PROVE  Longer(Append(s, e), s, e) /\ s \o <<e>> = Append(s, e) /\ s \o <<>> = s
<1>1. PICK T : s \in Seq(T) /\ e \in T
  BY IsSeqOf
<1>2. Append(s, e) \in Seq(T) /\ Len(Append(s, e)) = Len(s) + 1
  BY <1>1
<1>3. Longer(Append(s, e), s, e)
  <2>1. IsSeq(Append(s, e))
    BY <1>2, AnySeq
  <2>2. Append(s, e)[Len(s) + 1] = e /\ \A i \in 1 .. Len(s) : Append(s, e)[i] = s[i]
    BY <1>1
  <2> QED
    BY <1>2, <2>1, <2>2 DEF Longer
<1> QED
  BY <1>1, <1>3

LEMMA LongerIsOne ==
  ASSUME NEW s, IsSeq(s), NEW u, NEW v, NEW e, Longer(u, s, e), Longer(v, s, e)
  PROVE  u = v
<1>1. /\ Len(s) \in Nat /\ Len(u) = Len(s) + 1 /\ Len(v) = Len(s) + 1
      /\ u = [i \in 1 .. Len(s) + 1 |-> u[i]] /\ v = [i \in 1 .. Len(s) + 1 |-> v[i]]
  BY DEF Longer, IsSeq
<1>2. ASSUME NEW i \in 1 .. Len(s) + 1 PROVE u[i] = v[i]
  <2>1. i \in 1 .. Len(s) \/ i = Len(s) + 1
    BY <1>1
  <2> QED
    BY <2>1 DEF Longer
<1> QED
  BY <1>1, <1>2

(* The entries that Only has taken from the first i of s.                  *)
Takes(h, s, S) ==
  h = [i \in 0 .. Len(s) |->
        IF i = 0 THEN <<>> ELSE IF s[i] \in S THEN Append(h[i - 1], s[i]) ELSE h[i - 1]]
Taken(s, S) == CHOOSE h : Takes(h, s, S)

LEMMA TakenIs ==
  ASSUME NEW T, NEW s \in Seq(T), NEW S
  PROVE  /\ Only(s, S) = Taken(s, S)[Len(s)]
         /\ Takes(Taken(s, S), s, S)
         /\ Taken(s, S) \in [0 .. Len(s) -> Seq(T)]
<1> DEFINE n == Len(s)
           Q == Seq(T)
           g == [k \in 1 .. n |-> [u \in Q |-> IF s[k] \in S THEN Append(u, s[k]) ELSE u]]
<1>1. n \in Nat /\ \A k \in 1 .. n : s[k] \in T
  OBVIOUS
<1>2. g \in Steps(n, Q) /\ <<>> \in Q
  BY <1>1 DEF Steps
<1>3. \A k \in 1 .. n, u \in Q : g[k][u] = IF s[k] \in S THEN Append(u, s[k]) ELSE u
  OBVIOUS
<1> HIDE DEF g, Q
<1>4. PICK h : Recursion(h, n, Q, <<>>, g)
  BY <1>1, <1>2, RecursionExists
<1>5. ASSUME NEW f, Takes(f, s, S) PROVE f \in [0 .. n -> Q]
  <2> DEFINE F == {k \in 0 .. n : f[k] \notin Q}
  <2>1. ASSUME F # {} PROVE FALSE
    <3>1. PICK m \in F : \A k \in F : m <= k
      <4>1. F \in SUBSET Nat
        OBVIOUS
      <4> HIDE DEF F
      <4> QED
        BY <2>1, <4>1, Least
    <3>2. m # 0
      BY <1>1, <1>2, <1>5, <3>1 DEF Takes
    <3>3. m - 1 \in 0 .. n /\ m \in 1 .. n /\ ~ (m <= m - 1)
      BY <1>1, <3>1, <3>2
    <3>4. f[m - 1] \in Q
      BY <3>1, <3>3
    <3>5. f[m] = IF s[m] \in S THEN Append(f[m - 1], s[m]) ELSE f[m - 1]
      BY <1>5, <3>2, <3>3 DEF Takes
    <3>6. s[m] \in T
      BY <1>1, <3>3
    <3>7. f[m] \in Q
      BY <3>4, <3>5, <3>6 DEF Q
    <3> QED
      BY <3>1, <3>7
  <2>2. \A k \in 0 .. n : f[k] \in Q
    BY <2>1
  <2> QED
    BY <1>5, <2>2 DEF Takes
<1>6. Takes(h, s, S)
  <2>1. h = [k \in 0 .. n |-> h[k]]
    BY <1>4 DEF Recursion
  <2>2. ASSUME NEW k \in 0 .. n
        PROVE  h[k] = IF k = 0 THEN <<>> ELSE IF s[k] \in S THEN Append(h[k - 1], s[k]) ELSE h[k - 1]
    <3>1. CASE k = 0
      BY <1>4, <3>1 DEF Recursion
    <3>2. CASE k # 0
      <4>1. k \in 1 .. n /\ k - 1 \in 0 .. n
        BY <1>1, <3>2
      <4>2. h[k] = g[k][h[k - 1]] /\ h[k - 1] \in Q
        BY <1>4, <4>1 DEF Recursion
      <4> QED
        BY <1>3, <3>2, <4>1, <4>2
    <3> QED
      BY <3>1, <3>2
  <2> QED
    BY <2>1, <2>2 DEF Takes
<1>7. Takes(Taken(s, S), s, S)
  BY <1>6 DEF Taken
<1>8. Only(s, S) = Taken(s, S)[Len(s)]
  BY DEF Only, Taken, Takes
<1> QED
  BY <1>5, <1>7, <1>8 DEF Q

LEMMA TakenStep ==
  ASSUME NEW T, NEW s \in Seq(T), NEW S
  PROVE  /\ Taken(s, S)[0] = <<>>
         /\ \A i \in 1 .. Len(s) :
              Taken(s, S)[i] = IF s[i] \in S THEN Append(Taken(s, S)[i - 1], s[i]) ELSE Taken(s, S)[i - 1]
<1> DEFINE h == Taken(s, S)
<1>1. Takes(h, s, S)
  BY TakenIs
<1>2. Len(s) \in Nat
  OBVIOUS
<1> HIDE DEF h
<1>3. h[0] = <<>>
  BY <1>1, <1>2 DEF Takes
<1>4. ASSUME NEW i \in 1 .. Len(s)
      PROVE  h[i] = IF s[i] \in S THEN Append(h[i - 1], s[i]) ELSE h[i - 1]
  <2>1. i \in 0 .. Len(s) /\ i # 0
    BY <1>2
  <2> QED
    BY <1>1, <2>1 DEF Takes
<1> QED
  BY <1>3, <1>4 DEF h

LEMMA AppendToSet ==
  ASSUME NEW s, IsSeq(s), NEW e
  PROVE  ToSet(Append(s, e)) = ToSet(s) \cup {e}
<1> DEFINE u == Append(s, e)
<1>1. Longer(u, s, e)
  BY AppendLonger
<1> HIDE DEF u
<1>2. Len(s) \in Nat /\ DOMAIN s = 1 .. Len(s) /\ DOMAIN u = 1 .. Len(s) + 1
  BY <1>1 DEF Longer, IsSeq
<1>3. \A i \in DOMAIN u : i \in 1 .. Len(s) \/ i = Len(s) + 1
  BY <1>2
<1>4. Len(s) + 1 \in DOMAIN u /\ \A i \in DOMAIN s : i \in DOMAIN u
  BY <1>2
<1>5. /\ u[Len(s) + 1] = e
      /\ \A i \in DOMAIN s : u[i] = s[i]
  BY <1>1, <1>2 DEF Longer
<1>6. ToSet(u) = {u[i] : i \in DOMAIN u} /\ ToSet(s) = {s[i] : i \in DOMAIN s}
  BY DEF ToSet
<1>7. ASSUME NEW x \in ToSet(u) PROVE x \in ToSet(s) \cup {e}
  BY <1>2, <1>3, <1>5, <1>6
<1>8. ASSUME NEW x \in ToSet(s) \cup {e} PROVE x \in ToSet(u)
  BY <1>4, <1>5, <1>6
<1> QED
  BY <1>7, <1>8 DEF u

(* What was taken of the first n of s are those of them that are in S.     *)
LEMMA TakenAre ==
  ASSUME NEW T, NEW s \in Seq(T), NEW S, NEW n \in 0 .. Len(s)
  PROVE  ToSet(Taken(s, S)[n]) = {s[i] : i \in 1 .. n} \cap S
<1> DEFINE h == Taken(s, S)
           A(k) == {s[i] : i \in 1 .. k} \cap S
           F == {k \in 0 .. Len(s) : ToSet(h[k]) # A(k)}
<1>1. Len(s) \in Nat /\ h \in [0 .. Len(s) -> Seq(T)] /\ h[0] = <<>>
  BY TakenIs, TakenStep
<1>2. \A i \in 1 .. Len(s) : h[i] = IF s[i] \in S THEN Append(h[i - 1], s[i]) ELSE h[i - 1]
  BY TakenStep
<1> HIDE DEF h
<1>3. ASSUME F # {} PROVE FALSE
  <2>1. PICK m \in F : \A k \in F : m <= k
    <3>1. F \in SUBSET Nat
      OBVIOUS
    <3> HIDE DEF F
    <3> QED
      BY <1>3, <3>1, Least
  <2>2. m # 0
    <3>1. ToSet(<<>>) = {} /\ A(0) = {}
      BY DEF ToSet
    <3> QED
      BY <1>1, <2>1, <3>1
  <2>3. m \in 1 .. Len(s) /\ m - 1 \in 0 .. Len(s) /\ ~ (m <= m - 1)
    BY <1>1, <2>1, <2>2
  <2>4. ToSet(h[m - 1]) = A(m - 1)
    BY <2>1, <2>3
  <2>5. IsSeq(h[m - 1])
    BY <1>1, <2>3, AnySeq
  <2>6. A(m) = A(m - 1) \cup ({s[m]} \cap S)
    <3>1. \A i \in 1 .. m : i \in 1 .. m - 1 \/ i = m
      BY <2>3
    <3>2. m \in 1 .. m /\ \A i \in 1 .. m - 1 : i \in 1 .. m
      BY <2>3
    <3>3. {s[i] : i \in 1 .. m} = {s[i] : i \in 1 .. m - 1} \cup {s[m]}
      BY <3>1, <3>2
    <3> QED
      BY <3>3
  <2>7. CASE s[m] \in S
    <3>1. ToSet(h[m]) = ToSet(h[m - 1]) \cup {s[m]}
      BY <1>2, <2>3, <2>5, <2>7, AppendToSet
    <3> HIDE DEF A
    <3>2. ToSet(h[m]) = A(m)
      BY <2>4, <2>6, <2>7, <3>1
    <3> QED
      BY <2>1, <3>2 DEF F
  <2>8. CASE s[m] \notin S
    <3>1. h[m] = h[m - 1]
      BY <1>2, <2>3, <2>8
    <3> HIDE DEF A
    <3>2. ToSet(h[m]) = A(m)
      BY <2>4, <2>6, <2>8, <3>1
    <3> QED
      BY <2>1, <3>2 DEF F
  <2> QED
    BY <2>7, <2>8
<1> QED
  BY <1>3 DEF h

(* What Shown has picked of the first i parts of r, and of all of them.    *)
Picks(h, r, K) ==
  h = [i \in 0 .. Len(r) |->
        IF i = 0 THEN <<>> ELSE IF r[i][1] \in K THEN Append(h[i - 1], r[i][2]) ELSE h[i - 1]]
Picked(r, K) == CHOOSE h : Picks(h, r, K)
OfKinds(r, K) == Picked(r, K)[Len(r)]

LEMMA PickedIs ==
  ASSUME NEW r, IsSeq(r), NEW K
  PROVE  Picks(Picked(r, K), r, K) /\ \A i \in 0 .. Len(r) : IsSeq(Picked(r, K)[i])
<1> DEFINE n == Len(r)
           T == {r[i][2] : i \in 1 .. n}
           Q == Seq(T)
           g == [k \in 1 .. n |-> [u \in Q |-> IF r[k][1] \in K THEN Append(u, r[k][2]) ELSE u]]
<1>1. n \in Nat /\ \A k \in 1 .. n : r[k][2] \in T
  BY DEF IsSeq
<1> HIDE DEF T
<1>2. g \in Steps(n, Q) /\ <<>> \in Q
  BY <1>1 DEF Steps
<1>3. \A k \in 1 .. n, u \in Q : g[k][u] = IF r[k][1] \in K THEN Append(u, r[k][2]) ELSE u
  OBVIOUS
<1> HIDE DEF g, Q
<1>4. PICK h : Recursion(h, n, Q, <<>>, g)
  BY <1>1, <1>2, RecursionExists
<1>5. ASSUME NEW f, Picks(f, r, K) PROVE \A k \in 0 .. n : f[k] \in Q
  <2> DEFINE F == {k \in 0 .. n : f[k] \notin Q}
  <2>1. ASSUME F # {} PROVE FALSE
    <3>1. PICK m \in F : \A k \in F : m <= k
      <4>1. F \in SUBSET Nat
        OBVIOUS
      <4> HIDE DEF F
      <4> QED
        BY <2>1, <4>1, Least
    <3>2. m # 0
      BY <1>1, <1>2, <1>5, <3>1 DEF Picks
    <3>3. m - 1 \in 0 .. n /\ m \in 1 .. n /\ ~ (m <= m - 1)
      BY <1>1, <3>1, <3>2
    <3>4. f[m - 1] \in Q
      BY <3>1, <3>3
    <3>5. f[m] = IF r[m][1] \in K THEN Append(f[m - 1], r[m][2]) ELSE f[m - 1]
      BY <1>5, <3>2, <3>3 DEF Picks
    <3>6. r[m][2] \in T
      BY <1>1, <3>3
    <3>7. f[m] \in Q
      BY <3>4, <3>5, <3>6 DEF Q
    <3> QED
      BY <3>1, <3>7
  <2> QED
    BY <2>1
<1>6. Picks(h, r, K)
  <2>1. h = [k \in 0 .. n |-> h[k]]
    BY <1>4 DEF Recursion
  <2>2. ASSUME NEW k \in 0 .. n
        PROVE  h[k] = IF k = 0 THEN <<>> ELSE IF r[k][1] \in K THEN Append(h[k - 1], r[k][2]) ELSE h[k - 1]
    <3>1. CASE k = 0
      BY <1>4, <3>1 DEF Recursion
    <3>2. CASE k # 0
      <4>1. k \in 1 .. n /\ k - 1 \in 0 .. n
        BY <1>1, <3>2
      <4>2. h[k] = g[k][h[k - 1]] /\ h[k - 1] \in Q
        BY <1>4, <4>1 DEF Recursion
      <4> QED
        BY <1>3, <3>2, <4>1, <4>2
    <3> QED
      BY <3>1, <3>2
  <2> QED
    BY <2>1, <2>2 DEF Picks
<1>7. Picks(Picked(r, K), r, K)
  BY <1>6 DEF Picked
<1>8. \A i \in 0 .. n : Picked(r, K)[i] \in Seq(T)
  BY <1>5, <1>7 DEF Q
<1> QED
  BY <1>7, <1>8, AnySeq

LEMMA OfKindsEmpty ==
  ASSUME NEW K
  PROVE  OfKinds(<<>>, K) = <<>>
<1>1. Picks(Picked(<<>>, K), <<>>, K)
  BY PickedIs, EmptyIsSeq
<1>2. 0 \in 0 .. Len(<<>>) /\ Len(<<>>) = 0
  OBVIOUS
<1>3. Picked(<<>>, K)[0] = <<>>
  BY <1>1, <1>2 DEF Picks
<1> QED
  BY <1>2, <1>3 DEF OfKinds

(* One part more.                                                          *)
LEMMA OfKindsLonger ==
  ASSUME NEW r, IsSeq(r), NEW e, NEW K
  PROVE  /\ IsSeq(OfKinds(r, K))
         /\ OfKinds(Append(r, e), K) =
              IF e[1] \in K THEN Append(OfKinds(r, K), e[2]) ELSE OfKinds(r, K)
<1> DEFINE u == Append(r, e)
           f == Picked(r, K)
           h == Picked(u, K)
           n == Len(r)
<1>1. Longer(u, r, e) /\ n \in Nat
  BY AppendLonger DEF IsSeq
<1> HIDE DEF u
<1>2. IsSeq(u) /\ Len(u) = n + 1 /\ u[n + 1] = e /\ \A i \in 1 .. n : u[i] = r[i]
  BY <1>1 DEF Longer
<1>3. Picks(f, r, K) /\ Picks(h, u, K) /\ IsSeq(f[n])
  <2>1. n \in 0 .. n
    BY <1>1
  <2> QED
    BY <1>2, <2>1, PickedIs
<1> HIDE DEF f, h
<1>4. ASSUME NEW i \in 0 .. n
      PROVE  /\ i = 0 => f[i] = <<>> /\ h[i] = <<>>
             /\ i # 0 => /\ f[i] = IF r[i][1] \in K THEN Append(f[i - 1], r[i][2]) ELSE f[i - 1]
                         /\ h[i] = IF r[i][1] \in K THEN Append(h[i - 1], r[i][2]) ELSE h[i - 1]
  <2>1. i \in 0 .. Len(r) /\ i \in 0 .. Len(u) /\ (i # 0 => u[i] = r[i])
    BY <1>1, <1>2
  <2>2. f[i] = IF i = 0 THEN <<>> ELSE IF r[i][1] \in K THEN Append(f[i - 1], r[i][2]) ELSE f[i - 1]
    BY <1>3, <2>1 DEF Picks
  <2>3. h[i] = IF i = 0 THEN <<>> ELSE IF u[i][1] \in K THEN Append(h[i - 1], u[i][2]) ELSE h[i - 1]
    BY <1>3, <2>1 DEF Picks
  <2> QED
    BY <2>1, <2>2, <2>3
<1> DEFINE F == {i \in 0 .. n : h[i] # f[i]}
<1>5. ASSUME F # {} PROVE FALSE
  <2>1. PICK m \in F : \A k \in F : m <= k
    <3>1. F \in SUBSET Nat
      OBVIOUS
    <3> HIDE DEF F
    <3> QED
      BY <1>5, <3>1, Least
  <2>2. m # 0 /\ m \in 0 .. n
    BY <2>1, <1>4
  <2>3. m - 1 \in 0 .. n /\ ~ (m <= m - 1)
    BY <1>1, <2>2
  <2>4. h[m - 1] = f[m - 1]
    BY <2>1, <2>3
  <2> QED
    BY <1>4, <2>1, <2>2, <2>4
<1>6. h[n] = f[n]
  <2>1. n \in 0 .. n
    BY <1>1
  <2> QED
    BY <1>5, <2>1
<1>7. h[n + 1] = IF u[n + 1][1] \in K THEN Append(h[n], u[n + 1][2]) ELSE h[n]
  <2>1. PICK j \in 0 .. Len(u) : j = n + 1 /\ j # 0 /\ j - 1 = n
    BY <1>1, <1>2
  <2>2. h[j] = IF u[j][1] \in K THEN Append(h[j - 1], u[j][2]) ELSE h[j - 1]
    BY <1>3, <2>1 DEF Picks
  <2> QED
    BY <2>1, <2>2
<1>8. OfKinds(u, K) = h[n + 1] /\ OfKinds(r, K) = f[n]
  BY <1>2 DEF OfKinds, h, f
<1> QED
  BY <1>2, <1>3, <1>6, <1>7, <1>8 DEF u

-------------------------------------------------------------------------------
(* What is shown since the last summary *)

Summaries(s) == {i \in DOMAIN s : s[i][1] = "summary"}
RecentOf(s) == IF Summaries(s) = {} THEN s ELSE After(s, Max(Summaries(s)))

LEMMA ShownIs ==
  ASSUME NEW K
  PROVE  Recent = RecentOf(out.shown) /\ Shown(K) = OfKinds(Recent, K)
<1>1. Recent = RecentOf(out.shown)
  BY DEF Recent, RecentOf, Summaries
<1>2. Shown(K) = OfKinds(Recent, K)
  BY DEF Shown, OfKinds, Picked, Picks
<1> QED
  BY <1>1, <1>2

LEMMA RecentLonger ==
  ASSUME NEW s, IsSeq(s), NEW e
  PROVE  /\ IsSeq(RecentOf(s))
         /\ RecentOf(Append(s, e)) = IF e[1] = "summary" THEN <<>> ELSE Append(RecentOf(s), e)
<1> DEFINE u == Append(s, e)
           n == Len(s)
           A == Summaries(s)
           B == Summaries(u)
<1>1. Longer(u, s, e) /\ n \in Nat
  BY AppendLonger DEF IsSeq
<1>2. PICK T : s \in Seq(T) /\ e \in T
  BY IsSeqOf
<1>3. u \in Seq(T)
  BY <1>2
<1> HIDE DEF u
<1>4. IsSeq(u) /\ Len(u) = n + 1 /\ u[n + 1] = e /\ \A i \in 1 .. n : u[i] = s[i]
  BY <1>1 DEF Longer
<1>5. DOMAIN s = 1 .. n /\ DOMAIN u = 1 .. n + 1
  BY <1>4 DEF IsSeq
<1>6. A = {i \in 1 .. n : s[i][1] = "summary"} /\ B = {i \in 1 .. n + 1 : u[i][1] = "summary"}
  BY <1>5 DEF Summaries
<1>7. \A i \in 1 .. n + 1 : i \in 1 .. n \/ i = n + 1
  BY <1>1
<1>8. n + 1 \in 1 .. n + 1 /\ n + 1 \notin 1 .. n /\ \A i \in 1 .. n : i \in 1 .. n + 1
  BY <1>1
<1>9. B = IF e[1] = "summary" THEN A \cup {n + 1} ELSE A
  <2>1. \A i \in 1 .. n : i \in B <=> i \in A
    BY <1>4, <1>6, <1>8
  <2>2. n + 1 \in B <=> e[1] = "summary"
    BY <1>4, <1>6, <1>8
  <2>3. A \subseteq 1 .. n /\ B \subseteq 1 .. n + 1
    BY <1>6
  <2> HIDE DEF A, B
  <2>4. CASE e[1] = "summary"
    BY <1>7, <1>8, <2>1, <2>2, <2>3, <2>4
  <2>5. CASE e[1] # "summary"
    <3>1. \A i \in B : i \in A
      BY <1>7, <2>1, <2>2, <2>3, <2>5
    <3>2. \A i \in A : i \in B
      BY <2>1, <2>3
    <3>3. B = A
      BY <3>1, <3>2
    <3> QED
      BY <2>5, <3>3
  <2> QED
    BY <2>4, <2>5
<1> HIDE DEF A, B
<1>10. A \in SUBSET (1 .. n) /\ (A # {} => Max(A) \in 1 .. n)
  <2>1. A \in SUBSET (1 .. n)
    BY <1>6
  <2> QED
    BY <1>1, <2>1, Greatest
<1>11. IsSeq(RecentOf(s))
  <2>1. CASE A = {}
    BY <2>1 DEF RecentOf, A
  <2>2. CASE A # {}
    <3>1. SubSeq(s, Max(A) + 1, n) \in Seq(T)
      <4>1. PICK m \in 1 .. n : m = Max(A)
        BY <1>10, <2>2
      <4>2. \A i \in m + 1 .. n : i \in 1 .. n
        BY <1>1
      <4>3. SubSeq(s, m + 1, n) \in Seq(T)
        BY <1>2, <4>2
      <4> QED
        BY <4>1, <4>3
    <3>2. RecentOf(s) = SubSeq(s, Max(A) + 1, n)
      BY <2>2 DEF RecentOf, A, After
    <3> QED
      BY <3>1, <3>2, AnySeq
  <2> QED
    BY <2>1, <2>2
<1>12. ASSUME e[1] = "summary" PROVE RecentOf(u) = <<>>
  <2>1. B \in SUBSET (1 .. n + 1) /\ n + 1 \in B /\ n + 1 \in Nat
    BY <1>1, <1>6, <1>9, <1>12
  <2>2. Max(B) \in B /\ n + 1 <= Max(B) /\ B # {}
    BY <2>1, Greatest
  <2>3. Max(B) = n + 1
    <3>1. PICK m \in 1 .. n + 1 : m = Max(B)
      BY <2>1, <2>2
    <3>2. n + 1 <= m
      BY <2>2, <3>1
    <3>3. m = n + 1
      BY <1>1, <3>2
    <3> QED
      BY <3>1, <3>3
  <2>4. RecentOf(u) = SubSeq(u, n + 1 + 1, n + 1)
    BY <1>4, <2>2, <2>3 DEF RecentOf, B, After
  <2>5. SubSeq(u, n + 1 + 1, n + 1) = <<>>
    BY <1>1, <1>3, <1>4
  <2> QED
    BY <2>4, <2>5
<1>13. ASSUME e[1] # "summary" PROVE RecentOf(u) = Append(RecentOf(s), e)
  <2>1. B = A
    BY <1>9, <1>13
  <2>2. CASE A = {}
    BY <2>1, <2>2 DEF RecentOf, A, B, u
  <2>3. CASE A # {}
    <3>1. PICK m \in 1 .. n : m = Max(A)
      BY <1>10, <2>3
    <3>2. RecentOf(s) = SubSeq(s, m + 1, n) /\ RecentOf(u) = SubSeq(u, m + 1, n + 1)
      BY <1>4, <2>1, <2>3, <3>1 DEF RecentOf, A, B, After
    <3>3. SubSeq(u, m + 1, n + 1) = Append(SubSeq(s, m + 1, n), e)
      <4> DEFINE v == SubSeq(u, m + 1, n + 1)
                 w == SubSeq(s, m + 1, n)
      <4>1. \A i \in m + 1 .. n : i \in 1 .. n
        BY <1>1
      <4>2. \A i \in m + 1 .. n + 1 : i \in 1 .. n + 1
        BY <1>1
      <4>3. w \in Seq(T) /\ Len(w) = n - m /\ \A i \in 1 .. n - m : w[i] = s[m + i]
        BY <1>1, <1>2, <4>1
      <4>4. v \in Seq(T) /\ Len(v) = n + 1 - m /\ \A i \in 1 .. n + 1 - m : v[i] = u[m + i]
        BY <1>1, <1>3, <1>4, <4>2
      <4> HIDE DEF v, w
      <4>5. IsSeq(v) /\ IsSeq(w)
        BY <4>3, <4>4, AnySeq
      <4>6. Longer(v, w, e)
        <5>1. Len(v) = Len(w) + 1 /\ n + 1 - m \in 1 .. n + 1 - m /\ m + (n + 1 - m) = n + 1
          BY <1>1, <4>3, <4>4
        <5>2. v[Len(w) + 1] = e
          BY <1>1, <1>4, <4>3, <4>4, <5>1
        <5>3. ASSUME NEW i \in 1 .. Len(w) PROVE v[i] = w[i]
          <6>1. i \in 1 .. n - m /\ i \in 1 .. n + 1 - m /\ m + i \in 1 .. n
            BY <1>1, <4>3
          <6> QED
            BY <1>4, <4>3, <4>4, <6>1
        <5> QED
          BY <4>5, <5>1, <5>2, <5>3 DEF Longer
      <4>7. v = Append(w, e)
        BY <4>5, <4>6, AppendLonger, LongerIsOne
      <4> QED
        BY <4>7 DEF v, w
    <3> QED
      BY <3>2, <3>3
  <2> QED
    BY <2>2, <2>3
<1> QED
  BY <1>11, <1>12, <1>13 DEF u

Suites == {"suiteStarted", "suiteFinished"}
OfTest == {"testStarted", "testIgnored", "failed", "testFinished"}

(* Part k starts the suite of g, and it is open up to part i.              *)
Opens(r, k, i, g) == r[k] = <<"suiteStarted", g>> /\ \A m \in k + 1 .. i : r[m][1] \notin Suites
Within(r, g) == \E k \in 1 .. Len(r) : Opens(r, k, Len(r), g)
Nested(r) ==
  \A i \in 1 .. Len(r) :
    r[i][1] \in OfTest => \E k \in 1 .. i : Opens(r, k, i, Group[r[i][2]])

LEMMA NestedLonger ==
  ASSUME NEW r, IsSeq(r), NEW u, NEW e, Longer(u, r, e)
  PROVE  /\ Nested(r) /\ (e[1] \in OfTest => Within(r, Group[e[2]])) => Nested(u)
         /\ \A g : Within(r, g) /\ e[1] \notin Suites => Within(u, g)
         /\ \A g : e = <<"suiteStarted", g>> => Within(u, g)
<1> DEFINE n == Len(r)
<1>1. /\ n \in Nat /\ Len(u) = n + 1 /\ u[n + 1] = e
      /\ \A i \in 1 .. n : u[i] = r[i]
  BY DEF IsSeq, Longer
<1> HIDE DEF n
<1>2. ASSUME NEW i \in 1 .. n, NEW k \in 1 .. i, NEW g, Opens(r, k, i, g) PROVE Opens(u, k, i, g)
  <2>1. k \in 1 .. n /\ \A m \in k + 1 .. i : m \in 1 .. n
    BY <1>1
  <2> QED
    BY <1>1, <1>2, <2>1 DEF Opens
<1>3. ASSUME NEW k \in 1 .. n, NEW g, Opens(r, k, n, g), e[1] \notin Suites PROVE Opens(u, k, n + 1, g)
  <2>1. \A m \in k + 1 .. n + 1 : m \in k + 1 .. n \/ m = n + 1
    BY <1>1
  <2>2. n \in 1 .. n /\ k \in 1 .. n
    BY <1>1
  <2>3. Opens(u, k, n, g)
    BY <1>2, <1>3, <2>2
  <2> QED
    BY <1>1, <1>3, <2>1, <2>3 DEF Opens
<1>4. ASSUME NEW g, Within(r, g), e[1] \notin Suites PROVE Within(u, g)
  <2>1. PICK k \in 1 .. n : Opens(r, k, n, g)
    BY <1>4 DEF Within, n
  <2>2. k \in 1 .. Len(u) /\ Opens(u, k, Len(u), g)
    BY <1>1, <1>3, <1>4, <2>1
  <2> QED
    BY <2>2 DEF Within
<1>5. ASSUME NEW g, e = <<"suiteStarted", g>> PROVE Within(u, g)
  <2>1. n + 1 \in 1 .. Len(u) /\ n + 1 + 1 .. Len(u) = {}
    BY <1>1
  <2>2. Opens(u, n + 1, Len(u), g)
    BY <1>1, <1>5, <2>1 DEF Opens
  <2> QED
    BY <2>1, <2>2 DEF Within
<1>6. ASSUME Nested(r), e[1] \in OfTest => Within(r, Group[e[2]]) PROVE Nested(u)
  <2> SUFFICES ASSUME NEW i \in 1 .. Len(u), u[i][1] \in OfTest
               PROVE  \E k \in 1 .. i : Opens(u, k, i, Group[u[i][2]])
    BY DEF Nested
  <2>1. CASE i \in 1 .. n
    <3>1. r[i][1] \in OfTest /\ u[i] = r[i]
      BY <1>1, <2>1
    <3>2. PICK k \in 1 .. i : Opens(r, k, i, Group[r[i][2]])
      BY <1>6, <2>1, <3>1 DEF Nested, n
    <3> QED
      BY <1>2, <2>1, <3>1, <3>2
  <2>2. CASE i = n + 1
    <3>1. u[i] = e /\ e[1] \in OfTest
      BY <1>1, <2>2
    <3>2. PICK k \in 1 .. n : Opens(r, k, n, Group[e[2]])
      BY <1>6, <3>1 DEF Within, n
    <3>3. e[1] \notin Suites
      BY <3>1 DEF OfTest, Suites
    <3>4. Opens(u, k, n + 1, Group[e[2]]) /\ k \in 1 .. i
      BY <1>1, <1>3, <2>2, <3>2, <3>3
    <3> QED
      BY <2>2, <3>1, <3>4
  <2>3. i \in 1 .. n \/ i = n + 1
    BY <1>1
  <2> QED
    BY <2>1, <2>2, <2>3
<1> QED
  BY <1>4, <1>5, <1>6

(* What the parts shown say in the form of the property.                   *)
LEMMA NestedMeans ==
  ASSUME IsSeq(Recent), Nested(Recent), Shown({"suiteStarted"}) = Shown({"suiteFinished"})
  PROVE  SuitesNest
<1> SUFFICES ASSUME NEW i \in DOMAIN Recent, Recent[i][1] \in OfTest
             PROVE  LET suite == Max({k \in 1 .. i : Recent[k][1] \in Suites})
                    IN  Recent[suite] = <<"suiteStarted", Group[Recent[i][2]]>>
  BY DEF SuitesNest, OfTest, Suites
<1>1. PICK r : r = Recent
  OBVIOUS
<1> DEFINE S == {k \in 1 .. i : r[k][1] \in Suites}
<1>2. i \in 1 .. Len(r) /\ Len(r) \in Nat
  BY <1>1 DEF IsSeq
<1>3. PICK k \in 1 .. i : Opens(r, k, i, Group[r[i][2]])
  BY <1>1, <1>2 DEF Nested
<1>4. r[k] = <<"suiteStarted", Group[r[i][2]]>> /\ r[k][1] \in Suites /\ k \in S
  BY <1>3 DEF Opens, Suites
<1>5. \A m \in S : m <= k
  <2> SUFFICES ASSUME NEW m \in S, ~ (m <= k) PROVE FALSE
    OBVIOUS
  <2>1. m \in k + 1 .. i
    BY <1>2
  <2> QED
    BY <1>3, <2>1 DEF Opens
<1>6. S \in SUBSET (1 .. i) /\ S # {} /\ i \in Nat
  BY <1>2, <1>4
<1> HIDE DEF S
<1>7. Max(S) \in S /\ k <= Max(S)
  BY <1>4, <1>6, Greatest
<1>8. Max(S) = k
  <2>1. Max(S) <= k /\ Max(S) \in 1 .. i
    BY <1>5, <1>6, <1>7
  <2> QED
    BY <1>2, <1>7, <2>1
<1> QED
  BY <1>1, <1>4, <1>8 DEF S

-------------------------------------------------------------------------------
(* What an output shows of tests, step by step *)

IsShowing(o) == IsOut(o) /\ IsSeq(o.shown)
Like(o, u) == u.type = o.type /\ u.verbose = o.verbose /\ u.also_console = o.also_console
Cursors(o) == <<o.tc_group, o.tc_current, o.progress_indicator>>

(* The parts of some kinds shown since the last summary.                   *)
View(o, K) == OfKinds(RecentOf(o.shown), K)

(* u shows the part e more than o, and nothing else changed of it here.    *)
Added(o, u, e) ==
  /\ IsShowing(u) /\ Like(o, u) /\ u.shown = Append(o.shown, e) /\ Cursors(u) = Cursors(o)

LEMMA Emitted ==
  ASSUME NEW o, IsShowing(o), NEW e
  PROVE  Added(o, Emit(o, <<e>>), e)
<1> DEFINE all == o.shown \o <<e>>
           u == [o EXCEPT !.shown = all]
<1>1. Emit(o, <<e>>) = u
  BY DEF Emit
<1>2. all = Append(o.shown, e) /\ IsSeq(all)
  <2>1. IsSeq(o.shown)
    BY DEF IsShowing
  <2>2. PICK s : s = o.shown
    OBVIOUS
  <2>3. Longer(Append(s, e), s, e) /\ s \o <<e>> = Append(s, e)
    BY <2>1, <2>2, AppendLonger
  <2>4. all = Append(s, e)
    BY <2>2, <2>3
  <2>5. IsSeq(Append(s, e))
    BY <2>3 DEF Longer
  <2> HIDE DEF all
  <2> QED
    BY <2>2, <2>4, <2>5
<1> HIDE DEF all
<1>3. IsOut(u) /\ u.shown = all /\ Like(o, u)
  BY DEF IsShowing, IsOut, Like
<1>4. Cursors(u) = Cursors(o)
  BY DEF IsShowing, IsOut, Cursors
<1> HIDE DEF u
<1> QED
  BY <1>1, <1>2, <1>3, <1>4 DEF Added, IsShowing

LEMMA AddedView ==
  ASSUME NEW o, IsShowing(o), NEW u, NEW e, Added(o, u, e), e[1] # "summary"
  PROVE  /\ \A K : View(u, K) = IF e[1] \in K THEN Append(View(o, K), e[2]) ELSE View(o, K)
         /\ IsSeq(RecentOf(o.shown)) /\ Longer(RecentOf(u.shown), RecentOf(o.shown), e)
<1>1. IsSeq(o.shown) /\ u.shown = Append(o.shown, e)
  BY DEF IsShowing, Added
<1>2. IsSeq(RecentOf(o.shown)) /\ RecentOf(u.shown) = Append(RecentOf(o.shown), e)
  BY <1>1, RecentLonger
<1> DEFINE r == RecentOf(o.shown)
           v == RecentOf(u.shown)
<1>3. IsSeq(r) /\ v = Append(r, e)
  BY <1>2
<1> HIDE DEF r, v
<1>4. Longer(v, r, e)
  BY <1>3, AppendLonger
<1>5. \A K : OfKinds(v, K) = IF e[1] \in K THEN Append(OfKinds(r, K), e[2]) ELSE OfKinds(r, K)
  BY <1>3, OfKindsLonger
<1> QED
  BY <1>3, <1>4, <1>5 DEF View, r, v

LEMMA ViewIsSeq ==
  ASSUME NEW o, IsShowing(o), NEW K
  PROVE  IsSeq(View(o, K)) /\ IsSeq(RecentOf(o.shown))
<1>1. IsSeq(o.shown)
  BY DEF IsShowing
<1> QED
  BY <1>1, RecentLonger, OfKindsLonger DEF View

(* A field set that is not shown.                                          *)
Reset(o, u) == IsShowing(u) /\ Like(o, u) /\ u.shown = o.shown

LEMMA FieldSet ==
  ASSUME NEW o, IsShowing(o), NEW v
  PROVE  /\ LET u == [o EXCEPT !.tc_group = v]
            IN  Reset(o, u) /\ Cursors(u) = <<v, o.tc_current, o.progress_indicator>>
         /\ LET u == [o EXCEPT !.tc_current = v]
            IN  Reset(o, u) /\ Cursors(u) = <<o.tc_group, v, o.progress_indicator>>
         /\ LET u == [o EXCEPT !.progress_indicator = v]
            IN  Reset(o, u) /\ Cursors(u) = <<o.tc_group, o.tc_current, v>>
         /\ LET u == [o EXCEPT !.dot_count = v]
            IN  Reset(o, u) /\ Cursors(u) = Cursors(o)
         /\ LET u == [o EXCEPT !.junit = v]
            IN  Reset(o, u) /\ Cursors(u) = Cursors(o)
<1>1. IsOut(o) /\ IsSeq(o.shown)
  BY DEF IsShowing
<1>2. LET u == [o EXCEPT !.tc_group = v]
      IN  Reset(o, u) /\ Cursors(u) = <<v, o.tc_current, o.progress_indicator>>
  BY <1>1 DEF IsShowing, IsOut, Like, Cursors, Reset
<1>3. LET u == [o EXCEPT !.tc_current = v]
      IN  Reset(o, u) /\ Cursors(u) = <<o.tc_group, v, o.progress_indicator>>
  BY <1>1 DEF IsShowing, IsOut, Like, Cursors, Reset
<1>4. LET u == [o EXCEPT !.progress_indicator = v]
      IN  Reset(o, u) /\ Cursors(u) = <<o.tc_group, o.tc_current, v>>
  BY <1>1 DEF IsShowing, IsOut, Like, Cursors, Reset
<1>5. LET u == [o EXCEPT !.dot_count = v]
      IN  Reset(o, u) /\ Cursors(u) = Cursors(o)
  BY <1>1 DEF IsShowing, IsOut, Like, Cursors, Reset
<1>6. LET u == [o EXCEPT !.junit = v]
      IN  Reset(o, u) /\ Cursors(u) = Cursors(o)
  BY <1>1 DEF IsShowing, IsOut, Like, Cursors, Reset
<1> QED
  BY <1>2, <1>3, <1>4, <1>5, <1>6

LEMMA AddedShown ==
  ASSUME NEW o, IsShowing(o), NEW u, NEW e, Added(o, u, e), e[1] # "summary"
  PROVE  /\ \A K : View(u, K) = IF e[1] \in K THEN Append(View(o, K), e[2]) ELSE View(o, K)
         /\ Nested(RecentOf(o.shown)) /\ (e[1] \in OfTest => Within(RecentOf(o.shown), Group[e[2]]))
              => Nested(RecentOf(u.shown))
         /\ \A g : Within(RecentOf(o.shown), g) /\ e[1] \notin Suites => Within(RecentOf(u.shown), g)
         /\ \A g : e = <<"suiteStarted", g>> => Within(RecentOf(u.shown), g)
<1> DEFINE r == RecentOf(o.shown)
           v == RecentOf(u.shown)
<1>1. IsSeq(r) /\ Longer(v, r, e)
  BY AddedView
<1>2. \A K : View(u, K) = IF e[1] \in K THEN Append(View(o, K), e[2]) ELSE View(o, K)
  BY AddedView
<1> HIDE DEF r, v
<1>3. /\ Nested(r) /\ (e[1] \in OfTest => Within(r, Group[e[2]])) => Nested(v)
      /\ \A g : Within(r, g) /\ e[1] \notin Suites => Within(v, g)
      /\ \A g : e = <<"suiteStarted", g>> => Within(v, g)
  BY <1>1, NestedLonger
<1> QED
  BY <1>2, <1>3 DEF r, v

(* Of the tests those in W run.                                            *)
Mark(x, W) == IF x \in W THEN "." ELSE "!"
Marks(w, W) == [i \in DOMAIN w |-> Mark(w[i], W)]

Lines == {"TEST", "IGNORE_TEST"}

(* The output o shows the tests w.                                         *)
Shows(o, w, W) ==
  /\ IsShowing(o)
  /\ IF o.type = "teamcity"
     THEN /\ Nested(RecentOf(o.shown))
          /\ View(o, {"testStarted"}) = w /\ View(o, {"testFinished"}) = w
     ELSE IF ~console_active(o) THEN o.shown = <<>>
     ELSE IF o.verbose THEN View(o, Lines) = w
     ELSE View(o, {"mark"}) = Marks(w, W)

(* It shows the tests w and that x has started.                            *)
Amidst(o, w, x, W) ==
  /\ IsShowing(o)
  /\ IF o.type = "teamcity"
     THEN /\ Nested(RecentOf(o.shown)) /\ o.tc_current = x
          /\ View(o, {"testStarted"}) = Append(w, x) /\ View(o, {"testFinished"}) = w
     ELSE IF ~console_active(o) THEN o.shown = <<>>
     ELSE IF o.verbose THEN View(o, Lines) = Append(w, x)
     ELSE View(o, {"mark"}) = Marks(w, W) /\ o.progress_indicator = Mark(x, W)

(* No suite is open, or that of group g is.                                *)
Free(o) == o.type = "teamcity" => View(o, {"suiteStarted"}) = View(o, {"suiteFinished"})
InSuite(o, g) ==
  o.type = "teamcity" =>
    /\ o.tc_group = g /\ Within(RecentOf(o.shown), g)
    /\ View(o, {"suiteStarted"}) = Append(View(o, {"suiteFinished"}), g)

(* u differs from o in nothing that is shown.                              *)
Same(o, u) == Reset(o, u) /\ Cursors(u) = Cursors(o)

LEMMA SameShows ==
  ASSUME NEW o, NEW u, Same(o, u), NEW w, NEW W
  PROVE  /\ Shows(o, w, W) => Shows(u, w, W)
         /\ \A x : Amidst(o, w, x, W) => Amidst(u, w, x, W)
         /\ Free(o) => Free(u)
         /\ \A g : InSuite(o, g) => InSuite(u, g)
<1>1. /\ IsShowing(u) /\ u.type = o.type /\ u.verbose = o.verbose /\ u.also_console = o.also_console
      /\ u.shown = o.shown
      /\ u.tc_group = o.tc_group /\ u.tc_current = o.tc_current
      /\ u.progress_indicator = o.progress_indicator
  BY DEF Same, Reset, Like, Cursors
<1>2. \A K : View(u, K) = View(o, K)
  BY <1>1 DEF View
<1>3. console_active(u) <=> console_active(o)
  BY <1>1 DEF console_active
<1>4. Shows(o, w, W) => Shows(u, w, W)
  BY <1>1, <1>2, <1>3 DEF Shows
<1>5. ASSUME NEW x, Amidst(o, w, x, W) PROVE Amidst(u, w, x, W)
  BY <1>1, <1>2, <1>3, <1>5 DEF Amidst
<1>6. Free(o) => Free(u)
  BY <1>1, <1>2 DEF Free
<1>7. ASSUME NEW g, InSuite(o, g) PROVE InSuite(u, g)
  BY <1>1, <1>2, <1>7 DEF InSuite
<1> QED
  BY <1>4, <1>5, <1>6, <1>7

LEMMA GroupStartedShows ==
  ASSUME NEW o, NEW x, NEW w, NEW W, Shows(o, w, W), Free(o)
  PROVE  LET u == GroupStarted(o, x) IN Shows(u, w, W) /\ InSuite(u, Group[x])
<1>1. IsShowing(o)
  BY DEF Shows
<1>2. CASE o.type # "teamcity"
  BY <1>2 DEF GroupStarted, InSuite
<1>3. CASE o.type = "teamcity"
  <2> DEFINE g == Group[x]
             v == [o EXCEPT !.tc_group = g]
             e == <<"suiteStarted", g>>
             u == Emit(v, <<e>>)
  <2>1. GroupStarted(o, x) = u
    BY <1>3 DEF GroupStarted
  <2>2. Reset(o, v) /\ Cursors(v) = <<g, o.tc_current, o.progress_indicator>>
    BY <1>1, FieldSet
  <2>3. e[1] = "suiteStarted" /\ e[2] = g /\ e[1] # "summary" /\ e[1] \notin OfTest
    BY DEF OfTest
  <2>4. e = <<"suiteStarted", g>>
    OBVIOUS
  <2> HIDE DEF v, e, g
  <2>5. IsShowing(v)
    BY <2>2 DEF Reset
  <2>6. Added(v, u, e)
    BY <2>5, Emitted
  <2> HIDE DEF u
  <2>7. /\ \A K : View(u, K) = IF e[1] \in K THEN Append(View(v, K), e[2]) ELSE View(v, K)
        /\ Nested(RecentOf(v.shown)) => Nested(RecentOf(u.shown))
        /\ Within(RecentOf(u.shown), g)
    BY <2>3, <2>4, <2>5, <2>6, AddedShown
  <2>8. /\ v.shown = o.shown /\ v.type = o.type /\ u.type = o.type /\ IsShowing(u)
        /\ u.tc_group = g
    BY <2>2, <2>6 DEF Reset, Like, Added, Cursors
  <2>9. \A K : View(v, K) = View(o, K)
    BY <2>8 DEF View
  <2>10. /\ View(u, {"testStarted"}) = View(o, {"testStarted"})
         /\ View(u, {"testFinished"}) = View(o, {"testFinished"})
         /\ View(u, {"suiteFinished"}) = View(o, {"suiteFinished"})
         /\ View(u, {"suiteStarted"}) = Append(View(o, {"suiteStarted"}), g)
    BY <2>3, <2>7, <2>9
  <2>11. Shows(u, w, W)
    BY <1>3, <2>7, <2>8, <2>10 DEF Shows
  <2>12. InSuite(u, g)
    BY <1>3, <2>7, <2>8, <2>10 DEF InSuite, Free
  <2> QED
    BY <2>1, <2>11, <2>12 DEF g
<1> QED
  BY <1>2, <1>3

LEMMA GroupEndedShows ==
  ASSUME NEW o, NEW opened, NEW g, g # <<>>, NEW w, NEW W, Shows(o, w, W), InSuite(o, g)
  PROVE  LET u == GroupEnded(o, opened) IN Shows(u, w, W) /\ Free(u)
<1>1. IsShowing(o)
  BY DEF Shows
<1>2. CASE o.type # "teamcity"
  <2> DEFINE u == GroupEnded(o, opened)
             j == JUnitGroupEnded(o.junit, opened)
             v == [o EXCEPT !.junit = j]
  <2>1. Same(o, v)
    <3> HIDE DEF j
    <3> QED
      BY <1>1, FieldSet DEF Same
  <2>2. Same(o, o)
    BY <1>1 DEF Same, Reset, Like
  <2>3. u \in {o, v}
    BY <1>2 DEF GroupEnded
  <2> HIDE DEF u, v
  <2>4. Same(o, u)
    BY <2>1, <2>2, <2>3
  <2>5. Shows(u, w, W) /\ u.type = o.type
    BY <2>4, SameShows DEF Same, Reset, Like
  <2>6. Free(u)
    BY <1>2, <2>5 DEF Free
  <2> QED
    BY <2>5, <2>6 DEF u
<1>3. CASE o.type = "teamcity"
  <2> DEFINE e == <<"suiteFinished", g>>
             u == Emit(o, <<e>>)
  <2>0. o.tc_group = g
    BY <1>3 DEF InSuite
  <2>1. GroupEnded(o, opened) = u
    BY <1>3, <2>0 DEF GroupEnded
  <2>2. e[1] = "suiteFinished" /\ e[2] = g /\ e[1] # "summary" /\ e[1] \notin OfTest
    BY DEF OfTest
  <2> HIDE DEF e
  <2>3. Added(o, u, e)
    BY <1>1, Emitted
  <2> HIDE DEF u
  <2>4. /\ \A K : View(u, K) = IF e[1] \in K THEN Append(View(o, K), e[2]) ELSE View(o, K)
        /\ Nested(RecentOf(o.shown)) => Nested(RecentOf(u.shown))
    BY <1>1, <2>2, <2>3, AddedShown
  <2>5. u.type = o.type /\ IsShowing(u)
    BY <2>3 DEF Like, Added
  <2>6. /\ View(u, {"testStarted"}) = View(o, {"testStarted"})
        /\ View(u, {"testFinished"}) = View(o, {"testFinished"})
        /\ View(u, {"suiteStarted"}) = View(o, {"suiteStarted"})
        /\ View(u, {"suiteFinished"}) = Append(View(o, {"suiteFinished"}), g)
    BY <2>2, <2>4
  <2>7. Shows(u, w, W)
    BY <1>3, <2>4, <2>5, <2>6 DEF Shows
  <2>8. Free(u)
    BY <1>3, <2>6 DEF InSuite, Free
  <2> QED
    BY <2>1, <2>7, <2>8
<1> QED
  BY <1>2, <1>3

LEMMA EmittedTwo ==
  ASSUME NEW o, IsShowing(o), NEW e, NEW f
  PROVE  \E v : Added(o, v, e) /\ Added(v, Emit(o, <<e>> \o <<f>>), f)
<1> DEFINE v == Emit(o, <<e>>)
           u == Emit(v, <<f>>)
           s == o.shown
<1>1. Added(o, v, e)
  BY Emitted
<1>2. IsShowing(v) /\ IsSeq(s)
  BY <1>1 DEF Added, IsShowing
<1>3. Added(v, u, f)
  <2> HIDE DEF v
  <2> QED
    BY <1>2, Emitted
<1>4. s \o (<<e>> \o <<f>>) = Append(Append(s, e), f)
  <2> HIDE DEF s
  <2>1. PICK A : s \in Seq(A) /\ e \in A
    BY <1>2, IsSeqOf
  <2> DEFINE T == A \cup {f}
  <2>2. s \in Seq(T) /\ e \in T /\ f \in T
    BY <2>1
  <2> HIDE DEF T
  <2>3. <<e>> \in Seq(T) /\ <<f>> \in Seq(T)
    BY <2>2
  <2>4. s \o (<<e>> \o <<f>>) = (s \o <<e>>) \o <<f>>
    BY <2>2, <2>3, ConcatAssociative
  <2>5. PICK a : a = Append(s, e)
    OBVIOUS
  <2>6. IsSeq(a) /\ s \o <<e>> = a
    <3>1. Longer(Append(s, e), s, e) /\ s \o <<e>> = Append(s, e)
      BY <1>2, AppendLonger
    <3> QED
      BY <2>5, <3>1 DEF Longer
  <2>7. a \o <<f>> = Append(a, f)
    BY <2>6, AppendLonger
  <2> QED
    BY <2>4, <2>5, <2>6, <2>7
<1>5. u = Emit(o, <<e>> \o <<f>>)
  <2> DEFINE a == Append(s, e)
             b == Append(a, f)
  <2>1. v.shown = a
    BY <1>1 DEF Added
  <2>2. IsSeq(a)
    BY <1>2, <2>1 DEF IsShowing
  <2> HIDE DEF a
  <2>3. a \o <<f>> = b
    BY <2>2, AppendLonger
  <2>4. u = [v EXCEPT !.shown = b]
    BY <2>1, <2>3 DEF Emit
  <2>5. v = [o EXCEPT !.shown = a]
    <3>1. v = [o EXCEPT !.shown = s \o <<e>>]
      BY DEF Emit
    <3>2. s \o <<e>> = a
      BY <1>2, AppendLonger DEF a
    <3> QED
      BY <3>1, <3>2
  <2>6. Emit(o, <<e>> \o <<f>>) = [o EXCEPT !.shown = b]
    BY <1>4 DEF Emit, a
  <2>7. PICK c, d : c = a /\ d = b
    OBVIOUS
  <2> HIDE DEF b, u, v
  <2>8. v = [o EXCEPT !.shown = c] /\ u = [v EXCEPT !.shown = d]
    BY <2>4, <2>5, <2>7
  <2>9. u = [o EXCEPT !.shown = d]
    BY <1>2, <2>8 DEF IsShowing, IsOut
  <2> QED
    BY <2>6, <2>7, <2>9
<1> QED
  BY <1>1, <1>3, <1>5

(* x starts on the console.                                                *)
LEMMA ConsoleStartedShows ==
  ASSUME NEW o, o.type # "teamcity", console_active(o), NEW x, NEW runs \in BOOLEAN,
         NEW w, NEW W, runs <=> x \in W, Shows(o, w, W)
  PROVE  Amidst(ConsoleTestStarted(o, x, runs), w, x, W)
<1> DEFINE mark == IF runs THEN "." ELSE "!"
           e == <<IF runs THEN "TEST" ELSE "IGNORE_TEST", x>>
           v == [o EXCEPT !.progress_indicator = mark]
           u == Emit(v, <<e>>)
<1>1. ConsoleTestStarted(o, x, runs) = IF v.verbose THEN u ELSE v
  <2>1. v.verbose = o.verbose
    BY DEF Shows, IsShowing, IsOut
  <2>2. ConsoleTestStarted(o, x, runs) = IF o.verbose THEN u ELSE v
    BY DEF ConsoleTestStarted
  <2> HIDE DEF u, v
  <2> QED
    BY <2>1, <2>2
<1>2. mark = Mark(x, W)
  BY DEF Mark
<1>3. e[1] \in Lines /\ e[1] # "summary" /\ e[2] = x
  BY DEF Lines
<1> HIDE DEF mark, e
<1>4. Reset(o, v) /\ v.progress_indicator = mark
  <2>1. IsShowing(o)
    BY DEF Shows
  <2>2. Reset(o, v) /\ Cursors(v) = <<o.tc_group, o.tc_current, mark>>
    BY <2>1, FieldSet
  <2> HIDE DEF v
  <2> QED
    BY <2>2 DEF Cursors
<1> HIDE DEF v
<1>5. /\ IsShowing(v) /\ v.type = o.type /\ v.verbose = o.verbose
      /\ (console_active(v) <=> console_active(o)) /\ v.shown = o.shown
  BY <1>4 DEF Reset, Like, console_active
<1>6. \A K : View(v, K) = View(o, K)
  BY <1>5 DEF View
<1>7. CASE v.verbose
  <2>1. Added(v, u, e)
    BY <1>5, Emitted
  <2> HIDE DEF u
  <2>2. View(u, Lines) = Append(View(v, Lines), x)
    BY <1>3, <1>5, <2>1, AddedShown
  <2>3. /\ IsShowing(u) /\ u.type = v.type /\ u.verbose = v.verbose
        /\ console_active(u) <=> console_active(v)
    BY <2>1 DEF Added, Like, console_active
  <2>4. View(v, Lines) = w
    BY <1>5, <1>6, <1>7 DEF Shows
  <2>5. Amidst(u, w, x, W)
    BY <1>5, <1>7, <2>2, <2>3, <2>4 DEF Amidst
  <2> QED
    BY <1>1, <1>7, <2>5
<1>8. CASE ~v.verbose
  <2>1. View(v, {"mark"}) = Marks(w, W)
    BY <1>5, <1>6, <1>8 DEF Shows
  <2>2. Amidst(v, w, x, W)
    BY <1>2, <1>4, <1>5, <1>8, <2>1 DEF Amidst
  <2> QED
    BY <1>1, <1>8, <2>2
<1> QED
  BY <1>7, <1>8

LEMMA TestStartedShows ==
  ASSUME NEW o, NEW x, NEW runs \in BOOLEAN, NEW w, NEW W, runs <=> x \in W,
         Shows(o, w, W), InSuite(o, Group[x])
  PROVE  LET u == TestStarted(o, x, runs) IN Amidst(u, w, x, W) /\ InSuite(u, Group[x])
<1>1. IsShowing(o)
  BY DEF Shows
<1>2. CASE o.type = "junit"
  <2> DEFINE j == JUnitStarted(o.junit, x, runs)
             v == [o EXCEPT !.junit = j]
             u == TestStarted(o, x, runs)
  <2>1. Same(o, v)
    <3> HIDE DEF j
    <3> QED
      BY <1>1, FieldSet DEF Same
  <2>2. u = IF o.also_console THEN ConsoleTestStarted(v, x, runs) ELSE v
    BY <1>2 DEF TestStarted
  <2> HIDE DEF v, u
  <2>3. v.type = o.type /\ v.also_console = o.also_console /\ v.shown = o.shown /\ Shows(v, w, W)
    BY <2>1, SameShows DEF Same, Reset, Like
  <2>4. CASE o.also_console
    <3>1. console_active(v) /\ v.type # "teamcity"
      BY <1>2, <2>3, <2>4 DEF console_active
    <3>2. Amidst(u, w, x, W)
      BY <2>2, <2>3, <2>4, <3>1, ConsoleStartedShows
    <3>3. u.type = v.type
      <4>1. IsOut(v)
        BY <2>3 DEF Shows, IsShowing
      <4>2. SameReports(v, ConsoleTestStarted(v, x, runs))
        BY <4>1, ConsoleSame
      <4> QED
        BY <2>2, <2>4, <4>2 DEF SameReports, SameKind
    <3> QED
      BY <1>2, <2>3, <3>2, <3>3 DEF u, InSuite
  <2>5. CASE ~o.also_console
    <3>1. ~console_active(v) /\ v.type # "teamcity" /\ u = v /\ IsShowing(v)
      BY <1>2, <2>2, <2>3, <2>5 DEF console_active, Shows
    <3>2. v.shown = <<>>
      BY <2>3, <3>1 DEF Shows
    <3>3. Amidst(u, w, x, W)
      BY <3>1, <3>2 DEF Amidst
    <3> QED
      BY <3>1, <3>3 DEF u, InSuite
  <2> QED
    BY <2>4, <2>5
<1>3. CASE o.type \notin {"teamcity", "junit"}
  <2> DEFINE u == TestStarted(o, x, runs)
  <2>1. u = ConsoleTestStarted(o, x, runs)
    BY <1>3 DEF TestStarted
  <2>2. console_active(o) /\ o.type # "teamcity"
    BY <1>3 DEF console_active
  <2> HIDE DEF u
  <2>3. Amidst(u, w, x, W)
    BY <2>1, <2>2, ConsoleStartedShows
  <2>4. u.type = o.type
    BY <1>1, <2>1, ConsoleSame DEF SameReports, SameKind, IsShowing
  <2> QED
    BY <2>2, <2>3, <2>4 DEF u, InSuite
<1>4. CASE o.type = "teamcity"
  <2> DEFINE g == Group[x]
             v == [o EXCEPT !.tc_current = x]
             e == <<"testStarted", x>>
             f == <<"testIgnored", x>>
             u == TestStarted(o, x, runs)
  <2>1. u = Emit(v, <<e>> \o IF runs THEN <<>> ELSE <<f>>)
    BY <1>4 DEF TestStarted
  <2>2. Reset(o, v) /\ Cursors(v) = <<o.tc_group, x, o.progress_indicator>>
    BY <1>1, FieldSet
  <2>3. /\ e[1] = "testStarted" /\ e[2] = x /\ e[1] # "summary" /\ e[1] \notin Suites
        /\ f[1] = "testIgnored" /\ f[2] = x /\ f[1] # "summary" /\ f[1] \notin Suites
    BY DEF Suites
  <2> HIDE DEF v, e, f, u
  <2>4. IsShowing(v)
    BY <2>2 DEF Reset
  <2>5. PICK m : Added(v, m, e) /\ (u = m \/ Added(m, u, f))
    <3>1. CASE runs
      <4>1. <<e>> \o <<>> = <<e>>
        OBVIOUS
      <4>2. Added(v, Emit(v, <<e>>), e)
        BY <2>4, Emitted
      <4> QED
        BY <2>1, <3>1, <4>1, <4>2
    <3>2. CASE ~runs
      <4>1. \E m : Added(v, m, e) /\ Added(m, Emit(v, <<e>> \o <<f>>), f)
        BY <2>4, EmittedTwo
      <4> QED
        BY <2>1, <3>2, <4>1
    <3> QED
      BY <3>1, <3>2
  <2>6. /\ IsShowing(m) /\ m.type = "teamcity" /\ m.tc_group = g /\ m.tc_current = x
        /\ v.shown = o.shown
    BY <1>4, <2>2, <2>5 DEF Reset, Like, Added, Cursors, InSuite
  <2>7. \A K : View(v, K) = View(o, K)
    BY <2>6 DEF View
  <2>8. /\ Nested(RecentOf(o.shown)) /\ Within(RecentOf(o.shown), g)
        /\ View(o, {"testStarted"}) = w /\ View(o, {"testFinished"}) = w
        /\ View(o, {"suiteStarted"}) = Append(View(o, {"suiteFinished"}), g)
    BY <1>4 DEF Shows, InSuite
  <2>9. /\ Nested(RecentOf(m.shown)) /\ Within(RecentOf(m.shown), g)
        /\ View(m, {"testStarted"}) = Append(w, x) /\ View(m, {"testFinished"}) = w
        /\ View(m, {"suiteStarted"}) = Append(View(m, {"suiteFinished"}), g)
    <3>1. /\ \A K : View(m, K) = IF e[1] \in K THEN Append(View(v, K), e[2]) ELSE View(v, K)
          /\ Nested(RecentOf(v.shown)) /\ (e[1] \in OfTest => Within(RecentOf(v.shown), Group[e[2]]))
                => Nested(RecentOf(m.shown))
          /\ \A h : Within(RecentOf(v.shown), h) /\ e[1] \notin Suites => Within(RecentOf(m.shown), h)
      BY <2>3, <2>4, <2>5, AddedShown
    <3>2. Nested(RecentOf(m.shown)) /\ Within(RecentOf(m.shown), g)
      BY <2>3, <2>6, <2>8, <3>1
    <3>3. /\ View(m, {"testStarted"}) = Append(View(v, {"testStarted"}), x)
          /\ View(m, {"testFinished"}) = View(v, {"testFinished"})
          /\ View(m, {"suiteStarted"}) = View(v, {"suiteStarted"})
          /\ View(m, {"suiteFinished"}) = View(v, {"suiteFinished"})
      BY <2>3, <3>1
    <3> QED
      BY <2>7, <2>8, <3>2, <3>3
  <2>10. Amidst(m, w, x, W) /\ InSuite(m, g)
    BY <2>6, <2>9 DEF Amidst, InSuite
  <2>11. ASSUME Added(m, u, f) PROVE Amidst(u, w, x, W) /\ InSuite(u, g)
    <3>1. IsShowing(u) /\ u.type = "teamcity" /\ u.tc_group = g /\ u.tc_current = x
      BY <2>6, <2>11 DEF Like, Added, Cursors
    <3>2. /\ \A K : View(u, K) = IF f[1] \in K THEN Append(View(m, K), f[2]) ELSE View(m, K)
          /\ Nested(RecentOf(m.shown)) /\ (f[1] \in OfTest => Within(RecentOf(m.shown), Group[f[2]]))
                => Nested(RecentOf(u.shown))
          /\ \A h : Within(RecentOf(m.shown), h) /\ f[1] \notin Suites => Within(RecentOf(u.shown), h)
      BY <2>3, <2>6, <2>11, AddedShown
    <3>3. Nested(RecentOf(u.shown)) /\ Within(RecentOf(u.shown), g)
      BY <2>3, <2>9, <3>2
    <3>4. /\ View(u, {"testStarted"}) = View(m, {"testStarted"})
          /\ View(u, {"testFinished"}) = View(m, {"testFinished"})
          /\ View(u, {"suiteStarted"}) = View(m, {"suiteStarted"})
          /\ View(u, {"suiteFinished"}) = View(m, {"suiteFinished"})
      BY <2>3, <3>2
    <3> QED
      BY <2>9, <3>1, <3>3, <3>4 DEF Amidst, InSuite
  <2>12. Amidst(u, w, x, W) /\ InSuite(u, g)
    BY <2>5, <2>10, <2>11
  <2> QED
    BY <2>12 DEF u
<1> QED
  BY <1>2, <1>3, <1>4

LEMMA FailureShows ==
  ASSUME NEW o, NEW x, NEW message, NEW w, NEW W, Amidst(o, w, x, W), InSuite(o, Group[x])
  PROVE  LET u == Failure(o, x, message) IN Amidst(u, w, x, W) /\ InSuite(u, Group[x])
<1> DEFINE e == <<"failed", x>>
<1>1. IsShowing(o)
  BY DEF Amidst
<1>2. /\ e[1] = "failed" /\ e[2] = x /\ e[1] # "summary" /\ e[1] \notin Suites
      /\ e[1] \notin Lines /\ e[1] # "mark"
  BY DEF Suites, Lines
<1> HIDE DEF e
<1>3. ASSUME NEW v, Amidst(v, w, x, W), InSuite(v, Group[x]), console_active(v)
      PROVE  Amidst(Emit(v, <<e>>), w, x, W) /\ InSuite(Emit(v, <<e>>), Group[x])
  <2> DEFINE u == Emit(v, <<e>>)
             g == Group[x]
  <2>1. IsShowing(v)
    BY <1>3 DEF Amidst
  <2>2. Added(v, u, e)
    BY <2>1, Emitted
  <2> HIDE DEF u
  <2>3. /\ IsShowing(u) /\ u.type = v.type /\ u.verbose = v.verbose
        /\ u.tc_group = v.tc_group /\ u.tc_current = v.tc_current
        /\ u.progress_indicator = v.progress_indicator
        /\ console_active(u)
    BY <1>3, <2>2 DEF Added, Like, Cursors, console_active
  <2>4. /\ \A K : View(u, K) = IF e[1] \in K THEN Append(View(v, K), e[2]) ELSE View(v, K)
        /\ Nested(RecentOf(v.shown)) /\ (e[1] \in OfTest => Within(RecentOf(v.shown), Group[e[2]]))
              => Nested(RecentOf(u.shown))
        /\ \A h : Within(RecentOf(v.shown), h) /\ e[1] \notin Suites => Within(RecentOf(u.shown), h)
    BY <1>2, <2>1, <2>2, AddedShown
  <2>5. /\ View(u, {"testStarted"}) = View(v, {"testStarted"})
        /\ View(u, {"testFinished"}) = View(v, {"testFinished"})
        /\ View(u, {"suiteStarted"}) = View(v, {"suiteStarted"})
        /\ View(u, {"suiteFinished"}) = View(v, {"suiteFinished"})
        /\ View(u, Lines) = View(v, Lines) /\ View(u, {"mark"}) = View(v, {"mark"})
    BY <1>2, <2>4
  <2>6. CASE v.type = "teamcity"
    <3>1. /\ Nested(RecentOf(v.shown)) /\ Within(RecentOf(v.shown), g) /\ v.tc_current = x
          /\ v.tc_group = g
          /\ View(v, {"testStarted"}) = Append(w, x) /\ View(v, {"testFinished"}) = w
          /\ View(v, {"suiteStarted"}) = Append(View(v, {"suiteFinished"}), g)
      BY <1>3, <2>6 DEF Amidst, InSuite
    <3>2. Nested(RecentOf(u.shown)) /\ Within(RecentOf(u.shown), g)
      BY <1>2, <2>4, <3>1
    <3>3. Amidst(u, w, x, W)
      BY <2>3, <2>5, <2>6, <3>1, <3>2 DEF Amidst
    <3>4. InSuite(u, g)
      BY <2>3, <2>5, <2>6, <3>1, <3>2 DEF InSuite
    <3> QED
      BY <3>3, <3>4 DEF u
  <2>7. CASE v.type # "teamcity"
    <3>1. Amidst(u, w, x, W)
      BY <1>3, <2>3, <2>5, <2>7 DEF Amidst
    <3> QED
      BY <2>3, <2>7, <3>1 DEF InSuite, u
  <2> QED
    BY <2>6, <2>7 DEF u
<1>4. CASE o.type # "junit"
  <2>1. console_active(o) /\ Failure(o, x, message) = Emit(o, <<e>>)
    BY <1>4 DEF console_active, Failure, e
  <2> QED
    BY <1>3, <2>1
<1>5. CASE o.type = "junit"
  <2> DEFINE j == JUnitFailure(o.junit, message)
             v == [o EXCEPT !.junit = j]
  <2>1. Same(o, v)
    <3> HIDE DEF j
    <3> QED
      BY <1>1, FieldSet DEF Same
  <2>2. Failure(o, x, message) = IF o.also_console THEN Emit(v, <<e>>) ELSE v
    BY <1>5 DEF Failure, e
  <2> HIDE DEF v
  <2>3. Amidst(v, w, x, W) /\ InSuite(v, Group[x]) /\ v.also_console = o.also_console
    BY <2>1, SameShows DEF Same, Reset, Like
  <2>4. CASE o.also_console
    <3>1. console_active(v)
      BY <2>3, <2>4 DEF console_active
    <3> QED
      BY <1>3, <2>2, <2>3, <2>4, <3>1
  <2>5. CASE ~o.also_console
    BY <2>2, <2>3, <2>5
  <2> QED
    BY <2>4, <2>5
<1> QED
  BY <1>4, <1>5

LEMMA FailuresShows ==
  ASSUME NEW o, NEW x, NEW outcome, Len(outcome.failures) \in Nat,
         NEW w, NEW W, Amidst(o, w, x, W), InSuite(o, Group[x])
  PROVE  LET u == Failures(o, x, outcome) IN Amidst(u, w, x, W) /\ InSuite(u, Group[x])
<1> DEFINE fs == outcome.failures
           n == Len(fs)
           h == CHOOSE a : FailWalk(o, x, fs, a)
           OK(u) == Amidst(u, w, x, W) /\ InSuite(u, Group[x])
           F == {k \in 0 .. n : ~ OK(h[k])}
<1>1. FailWalk(o, x, fs, h)
  BY FailWalkExists
<1>2. Failures(o, x, outcome) = h[n]
  BY DEF Failures, FailWalk
<1> HIDE DEF h
<1>3. \A k \in 0 .. n : h[k] = IF k = 0 THEN o ELSE Failure(h[k - 1], x, fs[k])
  BY <1>1 DEF FailWalk
<1>4. ASSUME NEW u, OK(u), NEW m PROVE OK(Failure(u, x, m))
  BY <1>4, FailureShows
<1>5. OK(o)
  OBVIOUS
<1> HIDE DEF OK
<1>6. ASSUME F # {} PROVE FALSE
  <2>1. F \in SUBSET Nat
    OBVIOUS
  <2> HIDE DEF F
  <2>2. PICK m \in F : \A k \in F : m <= k
    BY <1>6, <2>1, Least
  <2>3. m \in 0 .. n /\ ~ OK(h[m])
    BY <2>2 DEF F
  <2>4. m # 0
    BY <1>3, <1>5, <2>3
  <2>5. m - 1 \in 0 .. n /\ ~ (m <= m - 1)
    BY <2>3, <2>4
  <2>6. OK(h[m - 1])
    BY <2>2, <2>5 DEF F
  <2>7. h[m] = Failure(h[m - 1], x, fs[m])
    BY <1>3, <2>3, <2>4
  <2> QED
    BY <1>4, <2>3, <2>6, <2>7
<1>7. OK(h[n])
  <2>1. n \in 0 .. n
    OBVIOUS
  <2> QED
    BY <1>6, <2>1
<1> QED
  BY <1>2, <1>7 DEF OK

LEMMA MarksLonger ==
  ASSUME NEW w, IsSeq(w), NEW x, NEW W
  PROVE  Marks(Append(w, x), W) = Append(Marks(w, W), Mark(x, W))
<1> DEFINE v == Append(w, x)
           a == Marks(w, W)
           b == Marks(v, W)
           n == Len(w)
<1>1. Longer(v, w, x) /\ n \in Nat
  BY AppendLonger DEF IsSeq
<1> HIDE DEF v
<1>2. Len(v) = n + 1 /\ v[n + 1] = x /\ IsSeq(v) /\ \A i \in 1 .. n : v[i] = w[i]
  BY <1>1 DEF Longer
<1>3. DOMAIN w = 1 .. n /\ DOMAIN v = 1 .. n + 1
  BY <1>2 DEF IsSeq
<1>4. a = [i \in 1 .. n |-> Mark(w[i], W)] /\ b = [i \in 1 .. n + 1 |-> Mark(v[i], W)]
  BY <1>3 DEF Marks
<1> HIDE DEF a, b
<1>5. Len(a) = n /\ Len(b) = n + 1 /\ IsSeq(a) /\ IsSeq(b)
  <2>1. a \in Seq({".", "!"}) /\ b \in Seq({".", "!"})
    <3>1. \A y : Mark(y, W) \in {".", "!"}
      BY DEF Mark
    <3> QED
      BY <1>1, <1>4, <3>1
  <2>2. Len(a) = n /\ Len(b) = n + 1
    BY <1>1, <1>4, <2>1
  <2>3. IsSeq(a) /\ IsSeq(b)
    BY <2>1, AnySeq
  <2> QED
    BY <2>2, <2>3
<1>6. \A i \in 1 .. n : b[i] = a[i]
  <2> SUFFICES ASSUME NEW i \in 1 .. n PROVE b[i] = a[i]
    OBVIOUS
  <2>1. i \in 1 .. n + 1
    BY <1>1
  <2> QED
    BY <1>2, <1>4, <2>1
<1>7. b[n + 1] = Mark(x, W)
  <2>1. PICK k \in 1 .. n + 1 : k = n + 1
    BY <1>1
  <2> QED
    BY <1>2, <1>4, <2>1
<1>8. Longer(b, a, Mark(x, W))
  BY <1>5, <1>6, <1>7 DEF Longer
<1>9. Longer(Append(a, Mark(x, W)), a, Mark(x, W))
  BY <1>5, AppendLonger
<1> QED
  BY <1>5, <1>8, <1>9, LongerIsOne DEF a, b, v

LEMMA ConsoleEndedShows ==
  ASSUME NEW o, o.type # "teamcity", console_active(o), NEW x,
         NEW w, IsSeq(w), NEW W, Amidst(o, w, x, W)
  PROVE  Shows(ConsoleTestEnded(o), Append(w, x), W)
<1>1. IsShowing(o)
  BY DEF Amidst
<1>2. CASE o.verbose
  <2> DEFINE e == <<"ms", NoTest>>
             u == Emit(o, <<e>>)
  <2>1. ConsoleTestEnded(o) = u
    BY <1>2 DEF ConsoleTestEnded
  <2>2. e[1] \notin Lines /\ e[1] # "summary"
    BY DEF Lines
  <2> HIDE DEF e
  <2>3. Added(o, u, e)
    BY <1>1, Emitted
  <2> HIDE DEF u
  <2>4. View(u, Lines) = View(o, Lines)
    BY <1>1, <2>2, <2>3, AddedShown
  <2>5. IsShowing(u) /\ u.type = o.type /\ u.verbose = o.verbose /\ console_active(u)
    BY <2>3 DEF Added, Like, console_active
  <2> QED
    BY <1>2, <2>1, <2>4, <2>5 DEF Amidst, Shows
<1>3. CASE ~o.verbose
  <2> DEFINE n == o.dot_count + 1
             v == [o EXCEPT !.dot_count = n]
             e == <<"mark", o.progress_indicator>>
             f == <<"newline", NoTest>>
             u == Emit(v, <<e>>)
             c == ConsoleTestEnded(o)
  <2>1. c \in {u, Emit(u, <<f>>)}
    BY <1>3 DEF ConsoleTestEnded
  <2>2. /\ e[1] = "mark" /\ e[2] = o.progress_indicator /\ e[1] # "summary"
        /\ f[1] # "mark" /\ f[1] # "summary"
    OBVIOUS
  <2> HIDE DEF n, e, f
  <2>3. Same(o, v)
    BY <1>1, FieldSet DEF Same
  <2> HIDE DEF v, c
  <2>4. Amidst(v, w, x, W) /\ v.type = o.type /\ v.verbose = o.verbose /\ console_active(v)
    BY <2>3, SameShows DEF Same, Reset, Like, console_active
  <2>5. /\ View(v, {"mark"}) = Marks(w, W) /\ v.progress_indicator = Mark(x, W)
        /\ v.progress_indicator = o.progress_indicator /\ IsShowing(v)
    BY <1>3, <2>3, <2>4 DEF Amidst, Same, Cursors
  <2>6. Added(v, u, e)
    BY <2>5, Emitted
  <2> HIDE DEF u
  <2>7. View(u, {"mark"}) = Append(Marks(w, W), Mark(x, W))
    BY <2>2, <2>5, <2>6, AddedShown
  <2>8. IsShowing(u) /\ u.type = o.type /\ u.verbose = o.verbose /\ console_active(u)
    BY <2>4, <2>6 DEF Added, Like, console_active
  <2>9. Added(u, Emit(u, <<f>>), f)
    BY <2>8, Emitted
  <2>10. ASSUME NEW a, Added(u, a, f) PROVE View(a, {"mark"}) = View(u, {"mark"})
    BY <2>2, <2>8, <2>10, AddedShown
  <2>11. ASSUME NEW a, Added(u, a, f)
         PROVE  IsShowing(a) /\ a.type = o.type /\ a.verbose = o.verbose /\ console_active(a)
    BY <2>8, <2>11 DEF Added, Like, console_active
  <2>12. /\ View(c, {"mark"}) = Append(Marks(w, W), Mark(x, W))
         /\ IsShowing(c) /\ c.type = o.type /\ c.verbose = o.verbose /\ console_active(c)
    BY <2>1, <2>7, <2>8, <2>9, <2>10, <2>11
  <2>13. View(c, {"mark"}) = Marks(Append(w, x), W)
    BY <2>12, MarksLonger
  <2>14. Shows(c, Append(w, x), W)
    BY <1>3, <2>12, <2>13 DEF Shows
  <2> QED
    BY <2>14 DEF c
<1> QED
  BY <1>2, <1>3

LEMMA TestEndedShows ==
  ASSUME NEW o, NEW x \in Tests, NEW r, NEW w, IsSeq(w), NEW W,
         Amidst(o, w, x, W), InSuite(o, Group[x])
  PROVE  LET u == TestEnded(o, r) IN Shows(u, Append(w, x), W) /\ InSuite(u, Group[x])
<1>1. IsShowing(o)
  BY DEF Amidst
<1>2. CASE o.type = "junit"
  <2> DEFINE j == JUnitEnded(o.junit, r)
             v == [o EXCEPT !.junit = j]
             u == TestEnded(o, r)
  <2>1. Same(o, v)
    <3> HIDE DEF j
    <3> QED
      BY <1>1, FieldSet DEF Same
  <2>2. u = IF o.also_console THEN ConsoleTestEnded(v) ELSE v
    BY <1>2 DEF TestEnded
  <2> HIDE DEF v, u
  <2>3. v.type = o.type /\ v.also_console = o.also_console /\ Amidst(v, w, x, W)
    BY <2>1, SameShows DEF Same, Reset, Like
  <2>4. CASE o.also_console
    <3>1. console_active(v) /\ v.type # "teamcity"
      BY <1>2, <2>3, <2>4 DEF console_active
    <3>2. Shows(u, Append(w, x), W)
      BY <2>2, <2>3, <2>4, <3>1, ConsoleEndedShows
    <3>3. u.type = v.type
      <4>1. IsOut(v)
        BY <2>3 DEF Amidst, IsShowing
      <4>2. SameReports(v, ConsoleTestEnded(v))
        BY <4>1, ConsoleSame
      <4> QED
        BY <2>2, <2>4, <4>2 DEF SameReports, SameKind
    <3> QED
      BY <1>2, <2>3, <3>2, <3>3 DEF u, InSuite
  <2>5. CASE ~o.also_console
    <3>1. ~console_active(v) /\ v.type # "teamcity" /\ u = v /\ IsShowing(v)
      BY <1>2, <2>2, <2>3, <2>5 DEF console_active, Amidst
    <3>2. v.shown = <<>>
      BY <2>3, <3>1 DEF Amidst
    <3>3. Shows(u, Append(w, x), W)
      BY <3>1, <3>2 DEF Shows
    <3> QED
      BY <3>1, <3>3 DEF u, InSuite
  <2> QED
    BY <2>4, <2>5
<1>3. CASE o.type \notin {"teamcity", "junit"}
  <2> DEFINE u == TestEnded(o, r)
  <2>1. u = ConsoleTestEnded(o)
    BY <1>3 DEF TestEnded
  <2>2. console_active(o) /\ o.type # "teamcity"
    BY <1>3 DEF console_active
  <2> HIDE DEF u
  <2>3. Shows(u, Append(w, x), W)
    BY <2>1, <2>2, ConsoleEndedShows
  <2>4. u.type = o.type
    BY <1>1, <2>1, ConsoleSame DEF SameReports, SameKind, IsShowing
  <2> QED
    BY <2>2, <2>3, <2>4 DEF u, InSuite
<1>4. CASE o.type = "teamcity"
  <2> DEFINE g == Group[x]
             e == <<"testFinished", x>>
             u == Emit(o, <<e>>)
  <2>1. /\ Nested(RecentOf(o.shown)) /\ Within(RecentOf(o.shown), g)
        /\ o.tc_current = x /\ o.tc_group = g
        /\ View(o, {"testStarted"}) = Append(w, x) /\ View(o, {"testFinished"}) = w
        /\ View(o, {"suiteStarted"}) = Append(View(o, {"suiteFinished"}), g)
    BY <1>4 DEF Amidst, InSuite
  <2>2. TestEnded(o, r) = u
    <3>1. x # NoTest
      BY ProgramAssumption
    <3> QED
      BY <1>4, <2>1, <3>1 DEF TestEnded
  <2>3. e[1] = "testFinished" /\ e[2] = x /\ e[1] # "summary" /\ e[1] \notin Suites
    BY DEF Suites
  <2> HIDE DEF e
  <2>4. Added(o, u, e)
    BY <1>1, Emitted
  <2> HIDE DEF u
  <2>5. IsShowing(u) /\ u.type = "teamcity" /\ u.tc_group = g
    BY <1>4, <2>1, <2>4 DEF Added, Like, Cursors
  <2>6. /\ \A K : View(u, K) = IF e[1] \in K THEN Append(View(o, K), e[2]) ELSE View(o, K)
        /\ Nested(RecentOf(o.shown)) /\ (e[1] \in OfTest => Within(RecentOf(o.shown), Group[e[2]]))
              => Nested(RecentOf(u.shown))
        /\ \A h : Within(RecentOf(o.shown), h) /\ e[1] \notin Suites => Within(RecentOf(u.shown), h)
    BY <1>1, <2>3, <2>4, AddedShown
  <2>7. Nested(RecentOf(u.shown)) /\ Within(RecentOf(u.shown), g)
    BY <2>1, <2>3, <2>6
  <2>8. /\ View(u, {"testStarted"}) = View(o, {"testStarted"})
        /\ View(u, {"testFinished"}) = Append(View(o, {"testFinished"}), x)
        /\ View(u, {"suiteStarted"}) = View(o, {"suiteStarted"})
        /\ View(u, {"suiteFinished"}) = View(o, {"suiteFinished"})
    BY <2>3, <2>6
  <2>9. Shows(u, Append(w, x), W)
    BY <2>1, <2>5, <2>7, <2>8 DEF Shows
  <2>10. InSuite(u, g)
    BY <2>1, <2>5, <2>7, <2>8 DEF InSuite
  <2> QED
    BY <2>2, <2>9, <2>10
<1> QED
  BY <1>2, <1>3, <1>4

(* Of an output that shows nothing.                                        *)
LEMMA NothingShown ==
  ASSUME NEW o, RecentOf(o.shown) = <<>>
  PROVE  Nested(RecentOf(o.shown)) /\ \A K : View(o, K) = <<>>
<1>1. \A K : View(o, K) = <<>>
  BY OfKindsEmpty DEF View
<1>2. Nested(<<>>)
  <2>1. 1 .. Len(<<>>) = {}
    OBVIOUS
  <2> QED
    BY <2>1 DEF Nested
<1> QED
  BY <1>1, <1>2

LEMMA NoMarks == ASSUME NEW W PROVE Marks(<<>>, W) = <<>>
BY DEF Marks

LEMMA EmptyShows ==
  ASSUME NEW o, IsShowing(o), RecentOf(o.shown) = <<>>, o.shown = <<>> \/ console_active(o), NEW W
  PROVE  Shows(o, <<>>, W) /\ Free(o)
<1>1. Nested(RecentOf(o.shown)) /\ \A K : View(o, K) = <<>>
  BY NothingShown
<1>2. Marks(<<>>, W) = <<>>
  BY NoMarks
<1>3. Shows(o, <<>>, W)
  BY <1>1, <1>2 DEF Shows
<1> QED
  BY <1>1, <1>3 DEF Free

LEMMA CreatedShows ==
  ASSUME NEW type, NEW verbose, NEW W
  PROVE  LET o == OutputOf(type, verbose)
         IN  IsShowing(o) /\ o.shown = <<>> /\ Shows(o, <<>>, W) /\ Free(o) /\ View(o, {"text"}) = <<>>
<1> DEFINE o == OutputOf(type, verbose)
<1>1. o.shown = <<>>
  BY DEF OutputOf
<1>2. IsOut(o)
  BY OutputCreated
<1> HIDE DEF o
<1>3. IsShowing(o)
  BY <1>1, <1>2, EmptyIsSeq DEF IsShowing
<1>4. RecentOf(o.shown) = <<>>
  <2>1. Summaries(<<>>) = {}
    BY DEF Summaries
  <2> QED
    BY <1>1, <2>1 DEF RecentOf
<1> QED
  BY <1>1, <1>3, <1>4, EmptyShows, NothingShown DEF o

LEMMA SummaryShows ==
  ASSUME NEW o, NEW r, NEW w, NEW W, Shows(o, w, W)
  PROVE  Shows(Summary(o, r), <<>>, W) /\ Free(Summary(o, r))
<1> DEFINE v == [o EXCEPT !.dot_count = 0]
           e == <<"summary", Verdict(r)>>
           u == Emit(v, <<e>>)
<1>1. IsShowing(o)
  BY DEF Shows
<1>2. Summary(o, r) = IF console_active(o) THEN u ELSE v
  BY DEF Summary
<1>3. e[1] = "summary"
  OBVIOUS
<1> HIDE DEF e
<1>4. Same(o, v)
  BY <1>1, FieldSet DEF Same
<1> HIDE DEF v
<1>5. IsShowing(v) /\ v.shown = o.shown /\ (console_active(v) <=> console_active(o)) /\ v.type = o.type
  BY <1>4 DEF Same, Reset, Like, console_active
<1>6. CASE console_active(o)
  <2>1. Added(v, u, e)
    BY <1>5, Emitted
  <2> HIDE DEF u
  <2>2. IsShowing(u) /\ u.shown = Append(v.shown, e) /\ console_active(u) /\ IsSeq(v.shown)
    BY <1>5, <1>6, <2>1 DEF Added, Like, console_active, IsShowing
  <2>3. RecentOf(u.shown) = <<>>
    BY <1>3, <2>2, RecentLonger
  <2>4. Shows(u, <<>>, W) /\ Free(u)
    BY <2>2, <2>3, EmptyShows
  <2> QED
    BY <1>2, <1>6, <2>4
<1>7. CASE ~console_active(o)
  <2>1. o.type = "junit" /\ o.shown = <<>>
    BY <1>7 DEF Shows, console_active
  <2>2. RecentOf(v.shown) = <<>>
    <3>1. Summaries(<<>>) = {}
      BY DEF Summaries
    <3> QED
      BY <1>5, <2>1, <3>1 DEF RecentOf
  <2>3. Shows(v, <<>>, W) /\ Free(v)
    BY <1>5, <2>1, <2>2, EmptyShows
  <2> QED
    BY <1>2, <1>7, <2>3
<1> QED
  BY <1>6, <1>7

(* What is shown of the tests stays where something else is shown.         *)
LEMMA OtherShown ==
  ASSUME NEW o, NEW u, NEW e, Added(o, u, e), e[1] \in {"text", "number"},
         IsShowing(o), console_active(o), NEW w, NEW W
  PROVE  Shows(o, w, W) /\ Free(o) => Shows(u, w, W) /\ Free(u)
<1> SUFFICES ASSUME Shows(o, w, W), Free(o) PROVE Shows(u, w, W) /\ Free(u)
  OBVIOUS
<1>1. /\ e[1] # "summary" /\ e[1] \notin OfTest /\ e[1] \notin Lines /\ e[1] # "mark"
      /\ e[1] \notin {"suiteStarted", "suiteFinished", "testStarted", "testFinished"}
  BY DEF OfTest, Lines
<1>2. /\ \A K : View(u, K) = IF e[1] \in K THEN Append(View(o, K), e[2]) ELSE View(o, K)
      /\ Nested(RecentOf(o.shown)) => Nested(RecentOf(u.shown))
  BY <1>1, AddedShown
<1>3. /\ View(u, {"testStarted"}) = View(o, {"testStarted"})
      /\ View(u, {"testFinished"}) = View(o, {"testFinished"})
      /\ View(u, {"suiteStarted"}) = View(o, {"suiteStarted"})
      /\ View(u, {"suiteFinished"}) = View(o, {"suiteFinished"})
      /\ View(u, Lines) = View(o, Lines) /\ View(u, {"mark"}) = View(o, {"mark"})
  BY <1>1, <1>2
<1>4. IsShowing(u) /\ u.type = o.type /\ u.verbose = o.verbose /\ console_active(u)
  BY DEF Added, Like, console_active
<1>5. Shows(u, w, W)
  BY <1>2, <1>3, <1>4 DEF Shows
<1>6. Free(u)
  BY <1>3, <1>4 DEF Free
<1> QED
  BY <1>5, <1>6

(* u shows the text that s is, where the console is active.                *)
Texts(o, u, s) ==
  /\ IsShowing(u) /\ Like(o, u)
  /\ console_active(o) => View(u, {"text"}) = Append(View(o, {"text"}), s)

LEMMA PrintStrShows ==
  ASSUME NEW o, IsShowing(o), NEW s
  PROVE  /\ Texts(o, PrintStr(o, s), s)
         /\ \A w, W : Shows(o, w, W) /\ Free(o) => Shows(PrintStr(o, s), w, W) /\ Free(PrintStr(o, s))
<1> DEFINE j == [o.junit EXCEPT !.std_output = Append(@, s)]
           v == [o EXCEPT !.junit = j]
           a == IF o.type = "junit" THEN v ELSE o
           e == <<"text", s>>
           u == Emit(a, <<e>>)
           p == PrintStr(o, s)
<1>1. p = IF console_active(o) THEN u ELSE a
  BY DEF PrintStr
<1>2. e[1] = "text" /\ e[2] = s
  OBVIOUS
<1> HIDE DEF j, e, p
<1>3. Same(o, v) /\ Same(o, o)
  <2>1. Same(o, v)
    BY FieldSet DEF Same
  <2> QED
    BY <2>1 DEF Same, Reset, Like
<1> HIDE DEF v
<1>4. Same(o, a)
  BY <1>3
<1> HIDE DEF a
<1>5. /\ IsShowing(a) /\ a.shown = o.shown /\ Like(o, a) /\ (console_active(a) <=> console_active(o))
  BY <1>4 DEF Same, Reset, Like, console_active
<1>6. \A K : View(a, K) = View(o, K)
  BY <1>5 DEF View
<1>7. \A w, W : Shows(o, w, W) /\ Free(o) => Shows(a, w, W) /\ Free(a)
  BY <1>4, SameShows
<1>8. CASE console_active(o)
  <2>1. Added(a, u, e)
    BY <1>5, Emitted
  <2> HIDE DEF u
  <2>2. View(u, {"text"}) = Append(View(a, {"text"}), s)
    BY <1>2, <1>5, <2>1, AddedShown
  <2>3. Texts(o, u, s)
    BY <1>5, <1>6, <2>1, <2>2 DEF Texts, Added, Like
  <2>4. \A w, W : Shows(a, w, W) /\ Free(a) => Shows(u, w, W) /\ Free(u)
    BY <1>2, <1>5, <1>8, <2>1, OtherShown
  <2> QED
    BY <1>1, <1>7, <1>8, <2>3, <2>4 DEF p
<1>9. CASE ~console_active(o)
  <2>1. Texts(o, a, s)
    BY <1>5, <1>9 DEF Texts
  <2> QED
    BY <1>1, <1>7, <1>9, <2>1 DEF p
<1> QED
  BY <1>8, <1>9

LEMMA PrintNumShows ==
  ASSUME NEW o, NEW n, NEW w, NEW W, Shows(o, w, W), Free(o)
  PROVE  Shows(PrintNum(o, n), w, W) /\ Free(PrintNum(o, n))
<1> DEFINE e == <<"number", n>>
           u == Emit(o, <<e>>)
<1>1. IsShowing(o)
  BY DEF Shows
<1>2. PrintNum(o, n) = IF console_active(o) THEN u ELSE o
  BY DEF PrintNum
<1>3. e[1] = "number"
  OBVIOUS
<1> HIDE DEF e
<1>4. Added(o, u, e)
  BY <1>1, Emitted
<1> HIDE DEF u
<1>5. console_active(o) => Shows(u, w, W) /\ Free(u)
  BY <1>1, <1>3, <1>4, OtherShown
<1> QED
  BY <1>2, <1>5

(* What printing the texts fs goes through, one after the other.           *)
PrintWalk(o, fs, h) ==
  h = [k \in 0 .. Len(fs) |-> IF k = 0 THEN o ELSE PrintStr(h[k - 1], fs[k])]

LEMMA PrintWalkExists ==
  ASSUME NEW o, NEW fs, Len(fs) \in Nat
  PROVE  \E h : PrintWalk(o, fs, h)
<1> DEFINE n == Len(fs)
           Walked(h, m) == h = [k \in 0 .. m |-> IF k = 0 THEN o ELSE PrintStr(h[k - 1], fs[k])]
           F == {m \in 0 .. n : ~ \E h : Walked(h, m)}
<1>1. ASSUME F # {} PROVE FALSE
  <2>1. F \in SUBSET Nat
    OBVIOUS
  <2> HIDE DEF F
  <2>2. PICK m \in F : \A k \in F : m <= k
    BY <1>1, <2>1, Least
  <2>3. m \in 0 .. n /\ ~ \E h : Walked(h, m)
    BY <2>2 DEF F
  <2>4. CASE m = 0
    <3> DEFINE h == [k \in 0 .. 0 |-> o]
    <3>1. h = [k \in 0 .. 0 |-> IF k = 0 THEN o ELSE PrintStr(h[k - 1], fs[k])]
      OBVIOUS
    <3> QED
      BY <2>3, <2>4, <3>1
  <2>5. CASE m # 0
    <3>1. m - 1 \in 0 .. n /\ ~ (m <= m - 1) /\ m \in 1 .. n
      BY <2>3, <2>5
    <3>2. m - 1 \notin F
      BY <2>2, <3>1
    <3>3. PICK f : Walked(f, m - 1)
      BY <3>1, <3>2 DEF F
    <3> DEFINE last == PrintStr(f[m - 1], fs[m])
               h == [k \in 0 .. m |-> IF k = m THEN last ELSE f[k]]
    <3>4. ASSUME NEW k \in 0 .. m
          PROVE  h[k] = IF k = 0 THEN o ELSE PrintStr(h[k - 1], fs[k])
      <4>1. CASE k = m
        <5>1. m - 1 \in 0 .. m /\ m - 1 # m /\ m # 0
          BY <3>1
        <5> QED
          BY <4>1, <5>1
      <4>2. CASE k # m
        <5>1. k \in 0 .. m - 1 /\ (k # 0 => k - 1 \in 0 .. m /\ k - 1 # m)
          BY <3>1, <4>2
        <5>2. f[k] = IF k = 0 THEN o ELSE PrintStr(f[k - 1], fs[k])
          BY <3>3, <5>1
        <5> QED
          BY <4>2, <5>1, <5>2
      <4> QED
        BY <4>1, <4>2
    <3>5. h = [k \in 0 .. m |-> h[k]]
      OBVIOUS
    <3> HIDE DEF h
    <3>6. Walked(h, m)
      BY <3>4, <3>5
    <3> QED
      BY <2>3, <3>6
  <2> QED
    BY <2>4, <2>5
<1>2. n \in 0 .. n
  OBVIOUS
<1> HIDE DEF F
<1>3. n \notin F
  BY <1>1
<1> QED
  BY <1>2, <1>3 DEF F, PrintWalk

LEMMA PrintedShows ==
  ASSUME NEW o, IsShowing(o), View(o, {"text"}) = <<>>, NEW texts, IsSeq(texts)
  PROVE  LET u == Printed(o, texts)
         IN  Like(o, u) /\ (console_active(o) => ToSet(View(u, {"text"})) = ToSet(texts))
<1> DEFINE n == Len(texts)
           h == CHOOSE a : PrintWalk(o, texts, a)
           A(k) == {texts[i] : i \in 1 .. k}
           OK(u, k) == /\ IsShowing(u) /\ Like(o, u)
                       /\ console_active(o) => ToSet(View(u, {"text"})) = A(k)
           F == {k \in 0 .. n : ~ OK(h[k], k)}
<1>1. n \in Nat /\ DOMAIN texts = 1 .. n
  BY DEF IsSeq
<1>2. PrintWalk(o, texts, h)
  BY <1>1, PrintWalkExists
<1>3. Printed(o, texts) = h[n]
  BY DEF Printed, PrintWalk
<1> HIDE DEF h
<1>4. \A k \in 0 .. n : h[k] = IF k = 0 THEN o ELSE PrintStr(h[k - 1], texts[k])
  BY <1>2 DEF PrintWalk
<1>5. OK(o, 0)
  <2>1. A(0) = {} /\ ToSet(<<>>) = {}
    BY DEF ToSet
  <2>2. Like(o, o)
    BY DEF Like
  <2> HIDE DEF A
  <2> QED
    BY <2>1, <2>2
<1>6. ASSUME NEW u, NEW k \in 1 .. n, OK(u, k - 1) PROVE OK(PrintStr(u, texts[k]), k)
  <2> DEFINE v == PrintStr(u, texts[k])
  <2>1. A(k) = A(k - 1) \cup {texts[k]}
    <3>1. \A i \in 1 .. k : i \in 1 .. k - 1 \/ i = k
      BY <1>1
    <3>2. k \in 1 .. k /\ \A i \in 1 .. k - 1 : i \in 1 .. k
      BY <1>1
    <3> QED
      BY <3>1, <3>2
  <2> HIDE DEF A
  <2>2. Texts(u, v, texts[k])
    BY <1>6, PrintStrShows
  <2>3. IsSeq(View(u, {"text"}))
    BY <1>6, ViewIsSeq
  <2> HIDE DEF v
  <2>4. IsShowing(v) /\ Like(o, v) /\ (console_active(u) <=> console_active(o))
    BY <1>6, <2>2 DEF Texts, Like, console_active
  <2>5. ASSUME console_active(o) PROVE ToSet(View(v, {"text"})) = A(k)
    <3>1. View(v, {"text"}) = Append(View(u, {"text"}), texts[k])
      BY <2>2, <2>4, <2>5 DEF Texts
    <3>2. ToSet(View(v, {"text"})) = ToSet(View(u, {"text"})) \cup {texts[k]}
      BY <2>3, <3>1, AppendToSet
    <3> QED
      BY <1>6, <2>1, <2>5, <3>2
  <2> QED
    BY <2>4, <2>5 DEF v
<1> HIDE DEF OK
<1>7. ASSUME F # {} PROVE FALSE
  <2>1. F \in SUBSET Nat
    OBVIOUS
  <2> HIDE DEF F
  <2>2. PICK m \in F : \A k \in F : m <= k
    BY <1>7, <2>1, Least
  <2>3. m \in 0 .. n /\ ~ OK(h[m], m)
    BY <2>2 DEF F
  <2>4. m # 0
    BY <1>4, <1>5, <2>3
  <2>5. m - 1 \in 0 .. n /\ ~ (m <= m - 1) /\ m \in 1 .. n
    BY <1>1, <2>3, <2>4
  <2>6. OK(h[m - 1], m - 1)
    BY <2>2, <2>5 DEF F
  <2>7. h[m] = PrintStr(h[m - 1], texts[m])
    BY <1>4, <2>3, <2>4
  <2> QED
    BY <1>6, <2>3, <2>5, <2>6, <2>7
<1>8. OK(h[n], n)
  <2>1. n \in 0 .. n
    BY <1>1
  <2> QED
    BY <1>7, <2>1
<1>9. ToSet(texts) = A(n)
  BY <1>1 DEF ToSet
<1> QED
  BY <1>3, <1>8, <1>9 DEF OK

(* Each entry once: which ones they are stays.                             *)
LEMMA OnceSame ==
  ASSUME NEW T, NEW s \in Seq(T)
  PROVE  Once(s) \in Seq(T) /\ ToSet(Once(s)) = ToSet(s)
<1> DEFINE n == Len(s)
           Q == Seq(T)
           g == [k \in 1 .. n |-> [u \in Q |-> IF s[k] \in ToSet(u) THEN u ELSE Append(u, s[k])]]
           Is(h) == h = [i \in 0 .. n |->
                          IF i = 0 THEN <<>>
                          ELSE IF s[i] \in ToSet(h[i - 1]) THEN h[i - 1] ELSE Append(h[i - 1], s[i])]
           c == CHOOSE h : Is(h)
           A(k) == {s[i] : i \in 1 .. k}
           OK(u, k) == u \in Q /\ ToSet(u) = A(k)
           F == {k \in 0 .. n : ~ OK(c[k], k)}
<1>1. n \in Nat /\ \A k \in 1 .. n : s[k] \in T
  OBVIOUS
<1>2. g \in Steps(n, Q) /\ <<>> \in Q
  BY <1>1 DEF Steps
<1>3. \A k \in 1 .. n, u \in Q : g[k][u] = IF s[k] \in ToSet(u) THEN u ELSE Append(u, s[k])
  OBVIOUS
<1> HIDE DEF g, Q
<1>4. PICK h : Recursion(h, n, Q, <<>>, g)
  BY <1>1, <1>2, RecursionExists
<1>5. Is(h)
  <2>1. h = [k \in 0 .. n |-> h[k]]
    BY <1>4 DEF Recursion
  <2>2. ASSUME NEW k \in 0 .. n
        PROVE  h[k] = IF k = 0 THEN <<>>
                      ELSE IF s[k] \in ToSet(h[k - 1]) THEN h[k - 1] ELSE Append(h[k - 1], s[k])
    <3>1. CASE k = 0
      BY <1>4, <3>1 DEF Recursion
    <3>2. CASE k # 0
      <4>1. k \in 1 .. n /\ k - 1 \in 0 .. n
        BY <1>1, <3>2
      <4>2. h[k] = g[k][h[k - 1]] /\ h[k - 1] \in Q
        BY <1>4, <4>1 DEF Recursion
      <4> QED
        BY <1>3, <3>2, <4>1, <4>2
    <3> QED
      BY <3>1, <3>2
  <2> QED
    BY <2>1, <2>2
<1>6. Is(c)
  BY <1>5
<1>7. Once(s) = c[n]
  BY DEF Once
<1> HIDE DEF c
<1>8. \A k \in 0 .. n : c[k] = IF k = 0 THEN <<>>
                               ELSE IF s[k] \in ToSet(c[k - 1]) THEN c[k - 1] ELSE Append(c[k - 1], s[k])
  BY <1>6
<1> HIDE DEF Is
<1>9. OK(<<>>, 0)
  <2>1. A(0) = {} /\ ToSet(<<>>) = {}
    BY DEF ToSet
  <2> HIDE DEF A
  <2> QED
    BY <1>2, <2>1
<1>10. ASSUME NEW k \in 1 .. n, NEW u, OK(u, k - 1)
       PROVE  OK(IF s[k] \in ToSet(u) THEN u ELSE Append(u, s[k]), k)
  <2>1. A(k) = A(k - 1) \cup {s[k]}
    <3>1. \A i \in 1 .. k : i \in 1 .. k - 1 \/ i = k
      BY <1>1
    <3>2. k \in 1 .. k /\ \A i \in 1 .. k - 1 : i \in 1 .. k
      BY <1>1
    <3> QED
      BY <3>1, <3>2
  <2> HIDE DEF A
  <2>2. CASE s[k] \in ToSet(u)
    BY <1>10, <2>1, <2>2
  <2>3. CASE s[k] \notin ToSet(u)
    <3>1. u \in Seq(T) /\ s[k] \in T
      BY <1>1, <1>10 DEF Q
    <3>2. Append(u, s[k]) \in Q
      BY <3>1 DEF Q
    <3>3. ToSet(Append(u, s[k])) = ToSet(u) \cup {s[k]}
      <4>1. IsSeq(u)
        BY <3>1, AnySeq
      <4> QED
        BY <4>1, AppendToSet
    <3> QED
      BY <1>10, <2>1, <2>3, <3>2, <3>3
  <2> QED
    BY <2>2, <2>3
<1> HIDE DEF OK
<1>11. ASSUME F # {} PROVE FALSE
  <2>1. F \in SUBSET Nat
    OBVIOUS
  <2> HIDE DEF F
  <2>2. PICK m \in F : \A k \in F : m <= k
    BY <1>11, <2>1, Least
  <2>3. m \in 0 .. n /\ ~ OK(c[m], m)
    BY <2>2 DEF F
  <2>4. m # 0
    BY <1>8, <1>9, <2>3
  <2>5. m - 1 \in 0 .. n /\ ~ (m <= m - 1) /\ m \in 1 .. n
    BY <1>1, <2>3, <2>4
  <2>6. OK(c[m - 1], m - 1)
    BY <2>2, <2>5 DEF F
  <2>7. c[m] = IF s[m] \in ToSet(c[m - 1]) THEN c[m - 1] ELSE Append(c[m - 1], s[m])
    BY <1>8, <2>3, <2>4
  <2> QED
    BY <1>10, <2>3, <2>5, <2>6, <2>7
<1>12. OK(c[n], n)
  <2>1. n \in 0 .. n
    BY <1>1
  <2> QED
    BY <1>11, <2>1
<1>13. ToSet(s) = A(n)
  BY DEF ToSet
<1> QED
  BY <1>7, <1>12, <1>13 DEF OK, Q

-------------------------------------------------------------------------------
(* What the options select *)

(* The tests that the filters let through.                                 *)
Runnable == {x \in Tests : TestShouldRun(args, x)}

(* The loop is before place n + 1 of the list s: those of the tests before *)
(* it that the filters let through have run and are shown.                 *)
Showing(s, n) ==
  LET w == Taken(s, Runnable)[n]
  IN  /\ AtPlace(s, n) /\ DidRun = ToSet(w) /\ Shows(out, w, Willing)
      /\ IF group_start THEN Free(out) ELSE t # NIL /\ InSuite(out, Group[t])

LEMMA PlaceOf ==
  ASSUME NEW s \in Seq(Tests), NEW n \in Nat, AtPlace(s, n)
  PROVE  IF t = NIL THEN n = Len(s) ELSE n + 1 \in 1 .. Len(s) /\ t = s[n + 1]
<1>1. n \in 0 .. Len(s) /\ t = Entry(s, n + 1) /\ Len(s) \in Nat
  BY DEF AtPlace
<1>2. CASE n = Len(s)
  <2>1. n + 1 \notin 1 .. Len(s)
    BY <1>1, <1>2
  <2> QED
    BY <1>1, <1>2, <2>1 DEF Entry
<1>3. CASE n # Len(s)
  <2>1. n + 1 \in 1 .. Len(s)
    BY <1>1, <1>3
  <2>2. s[n + 1] \in Tests
    BY <2>1
  <2> QED
    BY <1>1, <2>1, <2>2, RegistryAssumption DEF Entry
<1> QED
  BY <1>2, <1>3

(* What a turn of the loop has done before it ends the group.              *)
LEMMA TurnShown ==
  ASSUME ResultsInv, t \in Tests, RunTest, NEW w \in Seq(Tests),
         DidRun = ToSet(w), Shows(out, w, Willing),
         IF group_start THEN Free(out) ELSE InSuite(out, Group[t])
  PROVE  \E u : LET v == IF t \in Runnable THEN Append(w, t) ELSE w
                IN  /\ EndGroup(u) /\ DidRun' = ToSet(v)
                    /\ Shows(u, v, Willing) /\ InSuite(u, Group[t])
<1> DEFINE a == IF group_start THEN GroupStarted(out, t) ELSE out
<1>1. Shows(a, w, Willing) /\ InSuite(a, Group[t])
  BY GroupStartedShows
<1>2. t \in Runnable <=> TestShouldRun(args, t)
  BY DEF Runnable
<1>3. CASE ~TestShouldRun(args, t)
  <2>1. EndGroup(a) /\ did' = did
    BY <1>3 DEF RunTest
  <2>2. DidRun' = DidRun
    BY <2>1 DEF DidRun
  <2> HIDE DEF a
  <2> QED
    BY <1>1, <1>2, <1>3, <2>1, <2>2
<1>4. CASE TestShouldRun(args, t)
  <2>1. PICK o \in IF WillRun(t) THEN Outcomes ELSE {Nothing} :
          /\ res' = Counted(t, o) /\ did' = [did EXCEPT ![t] = o]
          /\ EndGroup(TestEnded(Failures(TestStarted(a, t, WillRun(t)), t, o), res'))
    BY <1>4 DEF RunTest
  <2>2. o \in Outcomes \cup {Nothing}
    OBVIOUS
  <2>3. o.failures \in Seq(STRING \ {NoFailure}) /\ o # NotDone
    BY <2>2, OutcomeTypes
  <2>4. Len(o.failures) \in Nat
    BY <2>3
  <2>5. WillRun(t) \in BOOLEAN /\ (WillRun(t) <=> t \in Willing)
    BY DEF WillRun, Willing
  <2>6. DidRun' = ToSet(Append(w, t))
    <3>1. DidRun' = DidRun \cup {t}
      BY <2>1, <2>3 DEF ResultsInv, DidRun
    <3>2. IsSeq(w)
      BY AnySeq
    <3>3. ToSet(Append(w, t)) = ToSet(w) \cup {t}
      BY <3>2, AppendToSet
    <3> QED
      BY <3>1, <3>3
  <2>7. PICK r : r = res'
    OBVIOUS
  <2> DEFINE b == TestStarted(a, t, WillRun(t))
             c == Failures(b, t, o)
             u == TestEnded(c, r)
  <2>8. EndGroup(u)
    BY <2>1, <2>7
  <2> HIDE DEF a
  <2>9. Amidst(b, w, t, Willing) /\ InSuite(b, Group[t])
    BY <1>1, <2>5, TestStartedShows
  <2> HIDE DEF b
  <2>10. Amidst(c, w, t, Willing) /\ InSuite(c, Group[t])
    BY <2>4, <2>9, FailuresShows
  <2> HIDE DEF c
  <2>11. Shows(u, Append(w, t), Willing) /\ InSuite(u, Group[t])
    <3>1. IsSeq(w)
      BY AnySeq
    <3> QED
      BY <2>10, <3>1, TestEndedShows
  <2> HIDE DEF u
  <2> QED
    BY <1>2, <1>4, <2>6, <2>8, <2>11
<1> QED
  BY <1>3, <1>4

LEMMA TurnShows ==
  ASSUME ListInv, ResultsInv, Pending, phase = Running, RunTest,
         NEW s \in Seq(Tests), NEW n \in Nat, Showing(s, n)
  PROVE  Showing(s, n + 1)' /\ n + 1 \in Nat
<1>1. UNCHANGED <<vars, args>> /\ t' = next[t] /\ t # NIL /\ t \in Tests
  BY TestPending DEF RunTest
<1>2. Willing' = Willing /\ Runnable' = Runnable
  BY <1>1 DEF Willing, WillRun, Runnable
<1>3. AtPlace(s, n) /\ n + 1 \in 1 .. Len(s) /\ t = s[n + 1]
  BY <1>1, PlaceOf DEF Showing
<1>4. PICK w, v, R : w = Taken(s, R)[n] /\ v = Taken(s, R)[n + 1] /\ R = Runnable
  OBVIOUS
<1>5. w \in Seq(Tests) /\ v = IF t \in R THEN Append(w, t) ELSE w
  <2>1. PICK k \in 1 .. Len(s) : k = n + 1 /\ k - 1 = n /\ n \in 0 .. Len(s)
    BY <1>3
  <2>2. Taken(s, R)[k] = IF s[k] \in R THEN Append(Taken(s, R)[k - 1], s[k]) ELSE Taken(s, R)[k - 1]
    BY TakenStep
  <2>3. Taken(s, R) \in [0 .. Len(s) -> Seq(Tests)]
    BY TakenIs
  <2> QED
    BY <1>3, <1>4, <2>1, <2>2, <2>3
<1>6. PICK u : EndGroup(u) /\ DidRun' = ToSet(v) /\ Shows(u, v, Willing) /\ InSuite(u, Group[t])
  <2>1. DidRun = ToSet(w) /\ Shows(out, w, Willing)
    BY <1>4 DEF Showing
  <2>2. IF group_start THEN Free(out) ELSE InSuite(out, Group[t])
    BY DEF Showing
  <2> QED
    BY <1>1, <1>4, <1>5, <2>1, <2>2, TurnShown
<1>7. AtPlace(s, n + 1)'
  <2>1. IsList(s) /\ \A x \in DidRun : \E i \in 1 .. n : x = s[i]
    BY <1>3 DEF AtPlace
  <2>2. IsList(s)' /\ next[s[n + 1]] = Entry(s, n + 1 + 1) /\ Len(s) \in Nat
    BY <1>1, <1>3, <2>1 DEF IsList, Links, vars, list
  <2>3. PICK k \in 0 .. Len(s) : k = n + 1
    BY <1>3
  <2>4. \A x \in DidRun' : \E i \in 1 .. n + 1 : x = s[i]
    <3>1. ToSet(Taken(s, R)[k]) = {s[i] : i \in 1 .. k} \cap R
      <4>1. k \in 0 .. Len(s) /\ s \in Seq(Tests)
        BY <2>3
      <4> QED
        BY ONLY <4>1, TakenAre
    <3>2. \A x \in ToSet(Taken(s, R)[k]) : \E i \in 1 .. k : x = s[i]
      BY <3>1
    <3>3. Taken(s, R)[k] = v
      BY <1>4, <2>3
    <3>4. \A x \in ToSet(v) : \E i \in 1 .. k : x = s[i]
      BY <3>2, <3>3
    <3> QED
      BY <1>6, <2>3, <3>4
  <2>5. t' = Entry(s, n + 1 + 1) /\ n + 1 \in 0 .. Len(s)
    BY <1>1, <1>3, <2>2
  <2> QED
    BY <2>2, <2>4, <2>5 DEF AtPlace
<1>8. Shows(out', v, Willing) /\ (IF group_start' THEN Free(out') ELSE t' # NIL /\ InSuite(out', Group[t']))
  <2>1. CASE ~group_changes(t)
    <3>1. out' = u /\ group_start' = FALSE
      BY <1>6, <2>1 DEF EndGroup
    <3>2. t' # NIL /\ Group[t'] = Group[t]
      BY <1>1, <2>1 DEF group_changes
    <3> QED
      BY <1>6, <3>1, <3>2
  <2>2. CASE group_changes(t)
    <3>1. PICK opened : out' = GroupEnded(u, opened) /\ group_start' = TRUE
      BY <1>6, <2>2 DEF EndGroup
    <3>2. Group[t] # <<>>
      BY <1>1, ProgramAssumption
    <3>3. Shows(GroupEnded(u, opened), v, Willing) /\ Free(GroupEnded(u, opened))
      BY <1>6, <3>2, GroupEndedShows
    <3> QED
      BY <3>1, <3>3
  <2> QED
    BY <2>1, <2>2
<1>9. Showing(s, n + 1)'
  BY <1>2, <1>4, <1>6, <1>7, <1>8 DEF Showing
<1> QED
  BY <1>9

(* The options as they were given, and what has become of them.            *)
AskedInv ==
  /\ loop = 0 => failed.tests = 0 /\ failed.executions = 0
  /\ phase # "before" =>
       /\ asked \in RightWishes \cup WrongWishes /\ args = Parsed(Rendered(asked)).args
       /\ asked \in WrongWishes => phase = "exited" /\ exit = 1 /\ loop = 0
       /\ asked \notin WrongWishes /\ phase = "exited" /\ loop = 0 => exit = 0
       /\ Listed(args) => phase = "exited"

Named(S) == {<<Group[x], Name[x]>> : x \in S}

ListsNames ==
  (/\ phase = "exited" /\ exit = 0 /\ console_active(out)
   /\ On(args, <<"l", "n">>) /\ ~On(args, <<"l", "g">>)) =>
     ToSet(View(out, {"text"})) = Named(ToSet(Registered) \cap Runnable)

ShownInv ==
  /\ AskedInv /\ ListsNames
  /\ phase = "between" => Shows(out, <<>>, Willing) /\ Free(out)
  /\ phase = Running => \E s \in Seq(Tests), n \in Nat : Showing(s, n)

(* The options are taken as docs/INTERFACE.md has them (AsksFor; of -xt    *)
(* and -xst the help of the program says something else).                  *)
ParsesAsAsked ==
  /\ \A o \in WrongWishes : ~Parsed(Rendered(o)).correct
  /\ \A o \in RightWishes :
       /\ Parsed(Rendered(o)).correct
       /\ \A x \in Tests : TestShouldRun(Parsed(Rendered(o)).args, x) <=> AsksFor(o, x)

LEMMA OnlyAre ==
  ASSUME NEW T, NEW s \in Seq(T), NEW S
  PROVE  Only(s, S) \in Seq(T) /\ ToSet(Only(s, S)) = ToSet(s) \cap S
<1> DEFINE n == Len(s)
<1>1. n \in 0 .. n /\ DOMAIN s = 1 .. n
  OBVIOUS
<1>2. Only(s, S) = Taken(s, S)[n] /\ Taken(s, S) \in [0 .. n -> Seq(T)]
  BY TakenIs
<1>3. ToSet(Taken(s, S)[n]) = {s[i] : i \in 1 .. n} \cap S
  BY <1>1, TakenAre
<1> QED
  BY <1>1, <1>2, <1>3 DEF ToSet

LEMMA NamesListed ==
  ASSUME Registered \in Seq(Tests), NEW a, On(a, <<"l", "n">>), ~On(a, <<"l", "g">>)
  PROVE  /\ IsSeq(Listing(a))
         /\ ToSet(Listing(a)) = Named(ToSet(Registered) \cap {x \in Tests : TestShouldRun(a, x)})
<1> DEFINE S == {x \in Tests : TestShouldRun(a, x)}
           some == Only(Registered, S)
           names == [i \in DOMAIN some |-> <<Group[some[i]], Name[some[i]]>>]
           T == Named(Tests)
<1>1. Listing(a) = Once(names)
  BY DEF Listing
<1> HIDE DEF S
<1>2. some \in Seq(Tests) /\ ToSet(some) = ToSet(Registered) \cap S
  BY OnlyAre
<1> HIDE DEF some
<1>3. \A i \in DOMAIN some : <<Group[some[i]], Name[some[i]]>> \in T
  BY <1>2 DEF Named
<1> HIDE DEF T
<1>4. names \in Seq(T)
  <2>1. DOMAIN some = 1 .. Len(some) /\ Len(some) \in Nat
    BY <1>2
  <2>2. names \in [1 .. Len(some) -> T]
    BY <1>3, <2>1
  <2> QED
    BY <2>1, <2>2
<1>5. ToSet(names) = Named(ToSet(some))
  <2>1. DOMAIN names = DOMAIN some
    OBVIOUS
  <2>2. \A i \in DOMAIN some : names[i] = <<Group[some[i]], Name[some[i]]>>
    OBVIOUS
  <2> HIDE DEF names
  <2> QED
    BY <2>1, <2>2 DEF ToSet, Named
<1> HIDE DEF names
<1>6. Once(names) \in Seq(T) /\ ToSet(Once(names)) = ToSet(names)
  BY <1>4, OnceSame
<1> QED
  BY <1>1, <1>2, <1>5, <1>6, AnySeq DEF S

LEMMA ShownInit == ProgramInit => ShownInv
<1> SUFFICES ASSUME ProgramInit PROVE ShownInv
  OBVIOUS
<1>1. phase = "before" /\ failed = [tests |-> 0, executions |-> 0]
  BY DEF ProgramInit
<1>2. failed.tests = 0 /\ failed.executions = 0
  BY <1>1
<1> QED
  BY <1>1, <1>2 DEF ShownInv, AskedInv, ListsNames, Running

LEMMA StatusOne == 1 % StatusRange = 1 /\ 0 % StatusRange = 0
<1>1. StatusRange \in Nat /\ StatusRange # 0 /\ StatusRange # 1
  BY ProgramAssumption
<1> QED
  BY <1>1

(* What Start does with the options.                                       *)
LEMMA Started ==
  ASSUME Start
  PROVE  /\ asked' \in RightWishes \cup WrongWishes /\ args' = Parsed(Rendered(asked')).args
         /\ LET o == OutputOf(args'.output_type, Verbose(args'))
            IN  IF ~Parsed(Rendered(asked')).correct THEN Exit(1)
                ELSE IF Listed(args') THEN Begin /\ Exit(0) /\ out' = Printed(o, Listing(args'))
                ELSE /\ phase' = "between"
                     /\ out' = IF args'.shuffling THEN PrintNum(PrintStr(o, "seed"), "seed") ELSE o
<1>1. PICK options \in RightWishes \cup WrongWishes :
        LET p == Parsed(Rendered(options))
            o == OutputOf(p.args.output_type, Verbose(p.args))
        IN  /\ asked' = options /\ args' = p.args
            /\ IF ~p.correct THEN Begin /\ Exit(1) /\ UNCHANGED out
               ELSE IF Listed(p.args)
               THEN Begin /\ Exit(0) /\ out' = Printed(o, Listing(p.args))
               ELSE /\ IF On(p.args, <<"b">>) THEN BeginReversed ELSE Begin
                    /\ phase' = "between"
                    /\ out' = IF p.args.shuffling THEN PrintNum(PrintStr(o, "seed"), "seed") ELSE o
                    /\ UNCHANGED exit
  BY DEF Start
<1> DEFINE p == Parsed(Rendered(options))
           o == OutputOf(p.args.output_type, Verbose(p.args))
<1>2. /\ asked' = options /\ args' = p.args
      /\ IF ~p.correct THEN Exit(1)
         ELSE IF Listed(p.args) THEN Begin /\ Exit(0) /\ out' = Printed(o, Listing(p.args))
         ELSE /\ phase' = "between"
              /\ out' = IF p.args.shuffling THEN PrintNum(PrintStr(o, "seed"), "seed") ELSE o
  BY <1>1
<1> QED
  BY <1>2

LEMMA StartAsks ==
  ASSUME ParsesAsAsked, PhaseInv, AskedInv, Start
  PROVE  AskedInv'
<1>1. PICK options, a, p : options = asked' /\ a = args' /\ p = Parsed(Rendered(options))
  OBVIOUS
<1>2. /\ options \in RightWishes \cup WrongWishes /\ a = p.args
      /\ IF ~p.correct THEN Exit(1) ELSE IF Listed(a) THEN Exit(0) ELSE phase' = "between"
  BY <1>1, Started
<1>3. /\ options \in WrongWishes => ~p.correct
      /\ options \in RightWishes => p.correct
  BY <1>1 DEF ParsesAsAsked
<1>4. loop' = 0 /\ failed' = failed /\ failed.tests = 0 /\ failed.executions = 0
  BY DEF PhaseInv, Start, AskedInv
<1>5. Listed(args') <=> Listed(a)
  BY <1>1
<1>6. CASE ~p.correct
  <2>1. phase' = "exited" /\ exit' = 1
    BY <1>2, <1>6, StatusOne DEF Exit
  <2>2. options \in WrongWishes
    BY <1>2, <1>3, <1>6
  <2> QED
    BY <1>1, <1>2, <1>4, <2>1, <2>2 DEF AskedInv
<1>7. CASE p.correct /\ Listed(a)
  <2>1. phase' = "exited" /\ exit' = 0
    BY <1>2, <1>7, StatusOne DEF Exit
  <2>2. options \notin WrongWishes
    BY <1>3, <1>7
  <2> QED
    BY <1>1, <1>2, <1>4, <2>1, <2>2 DEF AskedInv
<1>8. CASE p.correct /\ ~Listed(a)
  <2>1. phase' = "between"
    BY <1>2, <1>8
  <2>2. options \notin WrongWishes /\ ~Listed(args')
    BY <1>3, <1>5, <1>8
  <2> QED
    BY <1>1, <1>2, <1>4, <2>1, <2>2 DEF AskedInv
<1> QED
  BY <1>6, <1>7, <1>8

LEMMA AskedNext ==
  ASSUME ParsesAsAsked, ExitInv, ReportInv, AskedInv, [ProgramNext]_allVars
  PROVE  AskedInv'
<1>1. PhaseInv /\ loop \in Nat
  BY DEF ExitInv, PhaseInv
<1>2. ASSUME Initialise PROVE AskedInv'
  <2>1. UNCHANGED <<phase, loop, failed>> /\ status = "installing"
    BY <1>2 DEF Initialise, runVars, Install, InstallOrdered, UndoLastAdd, Fresh
  <2>2. phase = "before"
    BY <1>1, <2>1 DEF PhaseInv
  <2> QED
    BY <2>1, <2>2 DEF AskedInv
<1>3. ASSUME Start PROVE AskedInv'
  BY <1>1, <1>3, StartAsks
<1>4. ASSUME StartRepetition PROVE AskedInv'
  <2>1. UNCHANGED <<asked, args, failed>> /\ phase = "between" /\ phase' = Running /\ loop' = loop + 1
    BY <1>4 DEF StartRepetition
  <2>2. loop' # 0 /\ (Listed(args') <=> Listed(args))
    BY <1>1, <2>1
  <2> QED
    BY <2>1, <2>2 DEF AskedInv, Running
<1>5. ASSUME RunTest PROVE AskedInv'
  <2>1. UNCHANGED <<asked, args, failed, phase, loop, exit>> /\ phase = Running
    BY <1>5 DEF RunTest
  <2> QED
    BY <2>1 DEF AskedInv, Listed, On
<1>6. ASSUME EndRepetition PROVE AskedInv'
  <2>1. UNCHANGED <<asked, args, loop>> /\ phase = Running /\ phase' = "between"
    BY <1>6 DEF EndRepetition
  <2>2. loop' # 0 /\ (Listed(args') <=> Listed(args))
    BY <2>1 DEF ReportInv
  <2> QED
    BY <2>1, <2>2 DEF AskedInv, Running
<1>7. ASSUME EndRun PROVE AskedInv'
  <2>1. UNCHANGED <<asked, args, loop, failed>> /\ phase = "between" /\ phase' = "exited"
    BY <1>7 DEF EndRun, Exit, history
  <2>2. exit' = (IF failed.tests # 0 THEN failed.tests ELSE failed.executions) % StatusRange
    BY <1>7 DEF EndRun, Exit
  <2>3. loop' = 0 => exit' = 0
    BY <2>1, <2>2, StatusOne DEF AskedInv
  <2> QED
    BY <2>1, <2>3 DEF AskedInv, Listed, On
<1>8. ASSUME UNCHANGED allVars PROVE AskedInv'
  <2>1. UNCHANGED <<asked, args, failed, phase, loop, exit>>
    BY <1>8 DEF allVars, runVars, history
  <2> QED
    BY <2>1 DEF AskedInv, Listed, On
<1> QED
  BY <1>2, <1>3, <1>4, <1>5, <1>6, <1>7, <1>8 DEF ProgramNext, Stopped

LEMMA InOrderOf ==
  ASSUME ListInv, status # "crashed"
  PROVE  Registered \in Seq(Tests)
<1>1. PICK s \in Seq(Tests) : IsList(s)
  BY DEF ListInv, TypeOK
<1> QED
  BY <1>1, RegisteredIs

LEMMA StartLists ==
  ASSUME ListInv, Start
  PROVE  /\ ListsNames'
         /\ phase' = "between" => Shows(out', <<>>, Willing') /\ Free(out')
         /\ phase' # Running
<1> DEFINE a == args'
           o == OutputOf(args'.output_type, Verbose(args'))
           c == Parsed(Rendered(asked')).correct
<1>1. IF ~c THEN Exit(1)
      ELSE IF Listed(args') THEN Begin /\ Exit(0) /\ out' = Printed(o, Listing(args'))
      ELSE /\ phase' = "between"
           /\ out' = IF args'.shuffling THEN PrintNum(PrintStr(o, "seed"), "seed") ELSE o
  BY Started
<1>2. PICK W : W = Willing'
  OBVIOUS
<1>3. IsShowing(o) /\ Shows(o, <<>>, W) /\ Free(o) /\ View(o, {"text"}) = <<>>
  BY CreatedShows
<1> HIDE DEF c
<1>4. CASE ~c
  <2>1. phase' = "exited" /\ exit' = 1
    BY <1>1, <1>4, StatusOne DEF Exit
  <2> QED
    BY <2>1 DEF ListsNames, Running
<1>5. CASE c /\ Listed(args')
  <2>1. Begin /\ phase' = "exited" /\ out' = Printed(o, Listing(args'))
    BY <1>1, <1>5 DEF Exit
  <2>2. Registered \in Seq(Tests) /\ Registered' = Registered
    <3>1. status # "crashed" /\ UNCHANGED <<tests_head, next>>
      BY <2>1 DEF Begin, list
    <3> QED
      BY <3>1, InOrderOf DEF Registered
  <2>3. ASSUME console_active(out'), On(args', <<"l", "n">>), ~On(args', <<"l", "g">>)
        PROVE  ToSet(View(out', {"text"})) = Named(ToSet(Registered) \cap {x \in Tests : TestShouldRun(args', x)})
    <3>1. PICK b, v, u : b = args' /\ v = o /\ u = out'
      OBVIOUS
    <3> HIDE DEF o
    <3>2. /\ IsSeq(Listing(b))
          /\ ToSet(Listing(b)) = Named(ToSet(Registered) \cap {x \in Tests : TestShouldRun(b, x)})
      BY <2>2, <2>3, <3>1, NamesListed
    <3>3. u = Printed(v, Listing(b)) /\ IsShowing(v) /\ View(v, {"text"}) = <<>>
      BY <1>3, <2>1, <3>1
    <3>4. Like(v, u) /\ (console_active(v) => ToSet(View(u, {"text"})) = ToSet(Listing(b)))
      BY <3>2, <3>3, PrintedShows
    <3>5. console_active(v)
      BY <2>3, <3>1, <3>4 DEF Like, console_active
    <3> QED
      BY <3>1, <3>2, <3>4, <3>5
  <2> HIDE DEF o
  <2>4. ListsNames'
    BY <2>2, <2>3 DEF ListsNames, Runnable
  <2> QED
    BY <2>1, <2>4 DEF Running
<1>6. CASE c /\ ~Listed(args')
  <2> DEFINE v == PrintStr(o, "seed")
             u == PrintNum(v, "seed")
  <2>1. phase' = "between" /\ out' \in {o, u}
    BY <1>1, <1>6
  <2> HIDE DEF o
  <2>2. Shows(v, <<>>, W) /\ Free(v)
    BY <1>3, PrintStrShows
  <2> HIDE DEF v
  <2>3. Shows(u, <<>>, W) /\ Free(u)
    BY <2>2, PrintNumShows
  <2> HIDE DEF u
  <2>4. Shows(out', <<>>, W) /\ Free(out')
    BY <1>3, <2>1, <2>3
  <2> QED
    BY <1>2, <2>1, <2>4 DEF ListsNames, Running
<1> QED
  BY <1>4, <1>5, <1>6

LEMMA RepetitionShown ==
  ASSUME ListInv', status' = "running", ShownInv, StartRepetition
  PROVE  (\E s \in Seq(Tests), n \in Nat : Showing(s, n))'
<1>1. /\ phase = "between" /\ t' = tests_head' /\ group_start' = TRUE
      /\ did' = [x \in Tests |-> NotDone] /\ UNCHANGED args
  BY DEF StartRepetition
<1>2. PICK s \in Seq(Tests) : IsList(s)'
  BY DEF ListInv
<1>3. DidRun' = {}
  BY <1>1 DEF DidRun
<1>4. AtPlace(s, 0)'
  <2>1. t' = Entry(s, 1) /\ Len(s) \in Nat
    BY <1>1, <1>2 DEF IsList, Links
  <2> QED
    BY <1>2, <1>3, <2>1 DEF AtPlace
<1>5. Shows(out', <<>>, Willing) /\ Free(out')
  <2> DEFINE v == PrintStr(out, "Test run")
             u == PrintNum(v, loop + 1)
  <2>1. out' \in {out, u}
    BY DEF StartRepetition
  <2>2. Shows(out, <<>>, Willing) /\ Free(out) /\ IsShowing(out)
    BY <1>1 DEF ShownInv, Shows
  <2>3. Shows(v, <<>>, Willing) /\ Free(v)
    BY <2>2, PrintStrShows
  <2> HIDE DEF v
  <2>4. Shows(u, <<>>, Willing) /\ Free(u)
    BY <2>3, PrintNumShows
  <2> HIDE DEF u
  <2> QED
    BY <2>1, <2>2, <2>4
<1>6. Willing' = Willing
  BY <1>1 DEF Willing, WillRun
<1>7. PICK R : R = Runnable'
  OBVIOUS
<1>8. Taken(s, R)[0] = <<>>
  BY TakenStep
<1>9. ToSet(<<>>) = {}
  BY DEF ToSet
<1>10. Showing(s, 0)'
  BY <1>1, <1>3, <1>4, <1>5, <1>6, <1>7, <1>8, <1>9 DEF Showing
<1> QED
  BY <1>10

LEMMA ShownNext ==
  ASSUME ParsesAsAsked, ListInv, ListInv', ExitInv, ReportInv, ShownInv, [ProgramNext]_allVars
  PROVE  ShownInv'
<1>1. /\ PhaseInv
      /\ phase = Running => Pending /\ ResultsInv
  BY DEF ExitInv
<1>2. AskedInv'
  BY AskedNext DEF ShownInv
<1>3. ASSUME Initialise PROVE ShownInv'
  <2>1. UNCHANGED phase /\ status = "installing"
    BY <1>3 DEF Initialise, runVars, Install, InstallOrdered, UndoLastAdd, Fresh
  <2>2. phase' = "before"
    BY <1>1, <2>1 DEF PhaseInv
  <2> QED
    BY <1>2, <2>2 DEF ShownInv, ListsNames, Running
<1>4. ASSUME Start PROVE ShownInv'
  BY <1>2, <1>4, StartLists DEF ShownInv
<1>5. ASSUME StartRepetition PROVE ShownInv'
  <2>1. phase = "between" /\ phase' = Running /\ status' = status
    BY <1>5 DEF StartRepetition, Shuffle, vars
  <2>2. status' = "running"
    BY <1>1, <2>1 DEF PhaseInv
  <2>3. (\E s \in Seq(Tests), n \in Nat : Showing(s, n))'
    BY <1>5, <2>2, RepetitionShown
  <2> QED
    BY <1>2, <2>1, <2>3 DEF ShownInv, ListsNames, Running
<1>6. ASSUME RunTest PROVE ShownInv'
  <2>1. phase = Running /\ phase' = Running
    BY <1>6 DEF RunTest
  <2>2. PICK s \in Seq(Tests), n \in Nat : Showing(s, n)
    BY <2>1 DEF ShownInv
  <2>3. Showing(s, n + 1)' /\ n + 1 \in Nat
    BY <1>1, <1>6, <2>1, <2>2, TurnShows
  <2> QED
    BY <1>2, <2>1, <2>3 DEF ShownInv, ListsNames, Running
<1>7. ASSUME EndRepetition PROVE ShownInv'
  <2>1. phase = Running /\ phase' = "between" /\ out' = Summary(out, res) /\ UNCHANGED args
    BY <1>7 DEF EndRepetition
  <2>2. PICK w : Shows(out, w, Willing)
    BY <2>1 DEF ShownInv, Showing
  <2>3. Willing' = Willing
    BY <2>1 DEF Willing, WillRun
  <2>4. Shows(out', <<>>, Willing') /\ Free(out')
    BY <2>1, <2>2, <2>3, SummaryShows
  <2> QED
    BY <1>2, <2>1, <2>4 DEF ShownInv, ListsNames, Running
<1>8. ASSUME EndRun PROVE ShownInv'
  <2>1. phase = "between" /\ phase' = "exited" /\ UNCHANGED args
    BY <1>8 DEF EndRun, Exit
  <2>2. ~On(args, <<"l", "n">>)
    BY <2>1 DEF ShownInv, AskedInv, Listed
  <2> QED
    BY <1>2, <2>1, <2>2 DEF ShownInv, ListsNames, Running
<1>9. ASSUME UNCHANGED allVars PROVE ShownInv'
  <2>1. /\ UNCHANGED <<phase, exit, args, out, t, group_start, did>>
        /\ UNCHANGED <<tests_head, next, installed>>
    BY <1>9 DEF allVars, runVars, history, vars, list
  <2>2. Registered' = Registered /\ Runnable' = Runnable /\ Willing' = Willing /\ DidRun' = DidRun
    BY <2>1 DEF Registered, Runnable, Willing, WillRun, DidRun
  <2>3. ListsNames'
    BY <2>1, <2>2 DEF ShownInv, ListsNames
  <2>4. ASSUME NEW s, NEW n, Showing(s, n) PROVE Showing(s, n)'
    BY <2>1, <2>2, <2>4 DEF Showing, AtPlace, IsList, Links
  <2> QED
    BY <1>2, <2>1, <2>2, <2>3, <2>4 DEF ShownInv
<1> QED
  BY <1>3, <1>4, <1>5, <1>6, <1>7, <1>8, <1>9 DEF ProgramNext, Stopped

LEMMA ShownInvHolds ==
  ASSUME ParsesAsAsked
  PROVE  ProgramSpec => []ShownInv
<1>1. ProgramInit => ShownInv
  BY ShownInit
<1>2. ListInv /\ ListInv' /\ ExitInv /\ ReportInv /\ ShownInv /\ [ProgramNext]_allVars => ShownInv'
  BY ShownNext
<1> QED
  BY <1>1, <1>2, ListInvHolds, ExitInvHolds, ReportInvHolds, PTL DEF ProgramSpec

(* At the end of the loop all of the list is shown.                        *)
LEMMA LoopShown ==
  ASSUME ShownInv, AtEndOfLoop
  PROVE  /\ DidRun = ToSet(Only(Registered, Runnable)) /\ Only(Registered, Runnable) \in Seq(Tests)
         /\ Shows(out, Only(Registered, Runnable), Willing) /\ Free(out)
<1>1. phase = Running /\ t = NIL
  BY DEF AtEndOfLoop
<1>2. PICK s \in Seq(Tests), n \in Nat : Showing(s, n)
  BY <1>1 DEF ShownInv
<1>3. AtPlace(s, n) /\ n = Len(s)
  BY <1>1, <1>2, PlaceOf DEF Showing
<1>4. Registered = s
  BY <1>3, RegisteredIs DEF AtPlace
<1>5. PICK R : R = Runnable
  OBVIOUS
<1>6. Only(s, R) = Taken(s, R)[n] /\ Only(s, R) \in Seq(Tests)
  BY <1>3, TakenIs, OnlyAre
<1> QED
  BY <1>1, <1>2, <1>4, <1>5, <1>6 DEF Showing

LEMMA ShownMeans ==
  ASSUME ParsesAsAsked, ListInv, ExitInv, ShownInv
  PROVE  SelectedShown
<1>1. PhaseInv /\ AskedInv
  BY DEF ExitInv, ShownInv
<1>2. phase # "before" => ((phase = "exited" /\ exit = 1 /\ loop = 0) <=> asked \in WrongWishes)
  <2>1. ASSUME phase = "exited", exit = 1, loop = 0 PROVE asked \in WrongWishes
    BY <1>1, <2>1 DEF AskedInv
  <2> QED
    BY <1>1, <2>1 DEF AskedInv
<1> DEFINE wanted == Only(Registered, {x \in Tests : AsksFor(asked, x)})
<1>3. ASSUME phase # "before", asked \notin WrongWishes
      PROVE  {x \in Tests : AsksFor(asked, x)} = Runnable
  <2>1. asked \in RightWishes /\ args = Parsed(Rendered(asked)).args
    BY <1>1, <1>3 DEF AskedInv
  <2> QED
    BY <2>1 DEF ParsesAsAsked, Runnable
<1>4. PICK W : W = wanted
  OBVIOUS
<1>5. ASSUME AtEndOfLoop
      PROVE  /\ DidRun = ToSet(W)
             /\ IF out.type = "teamcity"
                THEN Shown({"testStarted"}) = W /\ Shown({"testFinished"}) = W /\ SuitesNest
                ELSE IF ~console_active(out) THEN out.shown = <<>>
                ELSE IF out.verbose THEN Shown({"TEST", "IGNORE_TEST"}) = W
                ELSE Shown({"mark"}) = [i \in DOMAIN W |-> IF WillRun(W[i]) THEN "." ELSE "!"]
  <2>1. phase # "before" /\ asked \notin WrongWishes
    <3>1. phase = Running
      BY <1>5 DEF AtEndOfLoop
    <3> QED
      BY <1>1, <3>1 DEF AskedInv, Running
  <2>2. W = Only(Registered, Runnable)
    BY <1>3, <1>4, <2>1
  <2>3. DidRun = ToSet(W) /\ Shows(out, W, Willing) /\ Free(out) /\ W \in Seq(Tests)
    BY <1>5, <2>2, LoopShown
  <2>4. \A K : Shown(K) = View(out, K)
    BY ShownIs DEF View
  <2>5. Marks(W, Willing) = [i \in DOMAIN W |-> IF WillRun(W[i]) THEN "." ELSE "!"]
    <3>1. \A i \in DOMAIN W : W[i] \in Tests
      BY <2>3
    <3>2. \A i \in DOMAIN W : Mark(W[i], Willing) = IF WillRun(W[i]) THEN "." ELSE "!"
      BY <3>1 DEF Mark, Willing
    <3> QED
      BY <3>2 DEF Marks
  <2>6. out.type = "teamcity" => SuitesNest
    <3>1. Recent = RecentOf(out.shown) /\ IsSeq(Recent)
      BY <2>3, ShownIs, ViewIsSeq DEF Shows
    <3> QED
      BY <2>3, <2>4, <3>1, NestedMeans DEF Shows, Free
  <2> QED
    BY <2>3, <2>4, <2>5, <2>6 DEF Shows, Lines
<1>6. ASSUME phase = "exited", exit = 0, console_active(out), On(args, <<"l", "n">>), ~On(args, <<"l", "g">>)
      PROVE  ToSet(Shown({"text"})) = {<<Group[x], Name[x]>> : x \in ToSet(W)}
  <2>1. phase # "before" /\ asked \notin WrongWishes
    <3>1. exit # 1
      BY <1>6
    <3> QED
      BY <1>1, <1>6, <3>1 DEF AskedInv
  <2>2. W = Only(Registered, Runnable)
    BY <1>3, <1>4, <2>1
  <2>3. Registered \in Seq(Tests)
    <3>1. status # "crashed"
      BY <1>1, <1>6 DEF PhaseInv
    <3> QED
      BY <3>1, InOrderOf
  <2>4. ToSet(W) = ToSet(Registered) \cap Runnable
    BY <2>2, <2>3, OnlyAre
  <2>5. ToSet(View(out, {"text"})) = Named(ToSet(Registered) \cap Runnable)
    BY <1>6 DEF ShownInv, ListsNames
  <2>6. Shown({"text"}) = View(out, {"text"})
    BY ShownIs DEF View
  <2> QED
    BY <2>4, <2>5, <2>6 DEF Named
<1> HIDE DEF wanted
<1> QED
  BY <1>2, <1>4, <1>5, <1>6 DEF SelectedShown, wanted

(* The tests that cu_run_all runs are those that test_should_run lets      *)
(* through, in the order of the list and each once, and the output, of     *)
(* each kind, shows just them with their suites nested; -ln lists them;    *)
(* and it exits with 1 before any test where the options are wrong: for    *)
(* any tests, order and options that are taken as they are documented.     *)
THEOREM SelectionIsShown ==
  ASSUME ParsesAsAsked
  PROVE  ProgramSpec => []SelectedShown
<1>1. ListInv /\ ExitInv /\ ShownInv => SelectedShown
  BY ShownMeans
<1> QED
  BY <1>1, ListInvHolds, ExitInvHolds, ShownInvHolds, PTL
================================================================================
