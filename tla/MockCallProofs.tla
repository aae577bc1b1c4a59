---------------------------- MODULE MockCallProofs -----------------------------
(***************************************************************************)
(* The matching of calls, for every set of expectations, parameters,       *)
(* objects and copiers, and for tests that use all of the mock.            *)
(***************************************************************************)
EXTENDS MockCall, FiniteSetTheorems, SequenceTheorems, WellFoundedInduction, TLAPS

(* The expectation e takes the call c as far as it has been made.          *)
Takes(e, c) ==
  /\ e.want.fn = c.fn
  /\ \A j \in DOMAIN c.ins : Accepts(e.want, c.ins[j])
  /\ \A j \in DOMAIN c.outs : AcceptsOut(e.want, <<c.outs[j].name, c.outs[j].type>>)

(* Only what takes the call and has calls left is a candidate or claimed.  *)
CandidatesTake(es, c) ==
  \A i \in DOMAIN es : es[i].cand => Takes(es[i], c) /\ es[i].calls < es[i].amount

Eligible(es, c) ==
  /\ CandidatesTake(es, c)
  /\ c.state = "succeed" =>
       /\ c.matching \in DOMAIN es
       /\ Takes(es[c.matching], c)
       /\ ~c.checked => es[c.matching].calls < es[c.matching].amount

(* The outputs hold the data of the expectation that would be charged now. *)
CopiedFrom(es, c, i) == \A j \in Written(es[i].want, c.outs) : c.outs[j].from = i

Matching(es) == First({i \in DOMAIN es : IsMatching(es[i])})

Copied(es, c) ==
  ~c.checked => /\ c.state = "succeed" => CopiedFrom(es, c, c.matching)
                /\ c.state = "open" /\ Matching(es) # 0 => CopiedFrom(es, c, Matching(es))

CallOK(es, c) ==
  /\ es \in Seq(ExpType)
  /\ \A i \in DOMAIN es : es[i].calls <= es[i].amount
  /\ c \in CallType \cup {NoCall}
  /\ c # NoCall => Eligible(es, c) /\ Copied(es, c)

(* Each charge is counted where it went, and fits.                         *)
ChargesTo(ch, i) == {j \in DOMAIN ch : ch[j].exp = i}

ChargesOK(es, ch) ==
  /\ ch \in Seq([exp : DOMAIN es, call : CallType])
  /\ \A k \in DOMAIN ch :
        /\ Takes(es[ch[k].exp], ch[k].call)
        /\ CopiedFrom(es, ch[k].call, ch[k].exp)
        /\ Late(es[ch[k].exp], ch[k].call.order) => es[ch[k].exp].late
  /\ \A i \in DOMAIN es : es[i].calls = Cardinality(ChargesTo(ch, i))

(* Charged calls are in the order in which they were made; the call in     *)
(* progress is the last of those made.                                     *)
OrdersOK(c, ch, made) ==
  /\ made \in Nat
  /\ \A k \in DOMAIN ch : ch[k].call.order <= made
  /\ \A j, k \in DOMAIN ch : j < k => ch[j].call.order < ch[k].call.order
  /\ Unsettled(c) => c.order = made /\ \A k \in DOMAIN ch : ch[k].call.order < made

(* A test that has not failed has charged every call but the one it is     *)
(* making, and what the plugin lets pass is settled, met and in order.     *)
Unfailed == phase # "dead" /\ ~failed

TestInv ==
  /\ suite \in Suites
  /\ expectedOrder \in Nat
  /\ phase \in Phases /\ failed \in BOOLEAN
  /\ Unfailed =>
       /\ call # NoCall => call.state # "failed"
       /\ Len(charges) + (IF Unsettled(call) THEN 1 ELSE 0) = actualOrder
  /\ Green => /\ ~Unsettled(call)
              /\ \A i \in DOMAIN exps : exps[i].calls = exps[i].amount /\ ~exps[i].late

IInv ==
  /\ CallOK(exps, call)
  /\ ChargesOK(exps, charges)
  /\ OrdersOK(call, charges, actualOrder)
  /\ TestInv

-------------------------------------------------------------------------------
(* What a step on the expectations leaves alone.                           *)
Same(es, fs) ==
  /\ DOMAIN fs = DOMAIN es
  /\ \A i \in DOMAIN es :
       /\ fs[i].want = es[i].want /\ fs[i].amount = es[i].amount /\ fs[i].calls = es[i].calls
       /\ fs[i].first = es[i].first /\ fs[i].last = es[i].last /\ fs[i].late = es[i].late

LEMMA FunctionIsSeq ==
  ASSUME NEW S, NEW n \in Nat, NEW f \in [1 .. n -> S]
  PROVE  f \in Seq(S) /\ Len(f) = n /\ DOMAIN f = 1 .. n
OBVIOUS

LEMMA SeqElement ==
  ASSUME NEW S, NEW s \in Seq(S), NEW i \in DOMAIN s
  PROVE  s[i] \in S /\ i \in Nat /\ i > 0
OBVIOUS

LEMMA ExpFields ==
  ASSUME NEW e \in ExpType
  PROVE  /\ e.want \in Wants /\ e.amount \in Amounts /\ e.amount \in Nat /\ e.calls \in Nat
         /\ e.first \in Nat /\ e.last \in Nat /\ e.late \in BOOLEAN
         /\ e.marks \in SUBSET (InNames \cup OutNames)
         /\ e.onObject \in BOOLEAN /\ e.cand \in BOOLEAN
BY WantsAssumption DEF ExpType

LEMMA MappedType ==
  ASSUME NEW es \in Seq(ExpType), NEW fs, fs = [i \in DOMAIN es |-> fs[i]],
         \A i \in DOMAIN es : fs[i] \in ExpType
  PROVE  fs \in Seq(ExpType) /\ DOMAIN fs = DOMAIN es
<1>1. DOMAIN es = 1 .. Len(es) /\ Len(es) \in Nat
  OBVIOUS
<1> QED
  BY <1>1, FunctionIsSeq

LEMMA ResetFields ==
  ASSUME NEW e \in ExpType
  PROVE  /\ Reset(e) \in ExpType
         /\ Reset(e).want = e.want /\ Reset(e).amount = e.amount /\ Reset(e).calls = e.calls
         /\ Reset(e).first = e.first /\ Reset(e).last = e.last /\ Reset(e).late = e.late
         /\ Reset(e).cand = e.cand /\ Reset(e).marks = {}
         /\ Reset(e).onObject = (e.want.object = AnyObject)
BY DEF Reset, ExpType

LEMMA CandField ==
  ASSUME NEW e \in ExpType, NEW b \in BOOLEAN
  PROVE  LET f == [e EXCEPT !.cand = b]
         IN  /\ f \in ExpType
             /\ f.want = e.want /\ f.amount = e.amount /\ f.calls = e.calls
             /\ f.first = e.first /\ f.last = e.last /\ f.late = e.late
             /\ f.cand = b /\ f.marks = e.marks /\ f.onObject = e.onObject
BY DEF ExpType

LEMMA ClearedFields ==
  ASSUME NEW es \in Seq(ExpType)
  PROVE  /\ ClearCandidates(es) \in Seq(ExpType)
         /\ Same(es, ClearCandidates(es))
         /\ \A i \in DOMAIN es : ~ClearCandidates(es)[i].cand
<1> DEFINE fs == ClearCandidates(es)
<1>1. fs = [i \in DOMAIN es |-> fs[i]]
  BY DEF ClearCandidates
<1>2. ASSUME NEW i \in DOMAIN es
      PROVE  /\ fs[i] \in ExpType /\ ~fs[i].cand
             /\ fs[i].want = es[i].want /\ fs[i].amount = es[i].amount /\ fs[i].calls = es[i].calls
             /\ fs[i].first = es[i].first /\ fs[i].last = es[i].last /\ fs[i].late = es[i].late
  <2>1. es[i] \in ExpType /\ es[i].cand \in BOOLEAN
    BY SeqElement, ExpFields
  <2> DEFINE f == [es[i] EXCEPT !.cand = FALSE]
  <2>2. /\ f \in ExpType /\ ~f.cand
        /\ f.want = es[i].want /\ f.amount = es[i].amount /\ f.calls = es[i].calls
        /\ f.first = es[i].first /\ f.last = es[i].last /\ f.late = es[i].late
    BY <2>1 DEF ExpType
  <2>3. fs[i] = IF es[i].cand THEN Reset(f) ELSE es[i]
    BY DEF ClearCandidates
  <2> HIDE DEF f, fs
  <2>4. CASE es[i].cand
    BY <2>2, <2>3, <2>4, ResetFields
  <2>5. CASE ~es[i].cand
    BY <2>1, <2>3, <2>5
  <2> QED
    BY <2>4, <2>5
<1> HIDE DEF fs
<1>3. fs \in Seq(ExpType) /\ DOMAIN fs = DOMAIN es
  BY <1>1, <1>2, MappedType
<1> QED
  BY <1>2, <1>3 DEF Same, fs

LEMMA KeptFields ==
  ASSUME NEW es \in Seq(ExpType), NEW S
  PROVE  /\ Keep(es, S) \in Seq(ExpType)
         /\ Same(es, Keep(es, S))
         /\ \A i \in DOMAIN es : Keep(es, S)[i].cand <=> es[i].cand /\ i \in S
<1> DEFINE fs == Keep(es, S)
<1>1. fs = [i \in DOMAIN es |-> fs[i]]
  BY DEF Keep
<1>2. ASSUME NEW i \in DOMAIN es
      PROVE  /\ fs[i] \in ExpType /\ (fs[i].cand <=> es[i].cand /\ i \in S)
             /\ fs[i].want = es[i].want /\ fs[i].amount = es[i].amount /\ fs[i].calls = es[i].calls
             /\ fs[i].first = es[i].first /\ fs[i].last = es[i].last /\ fs[i].late = es[i].late
  <2>1. es[i] \in ExpType /\ es[i].cand \in BOOLEAN
    BY SeqElement, ExpFields
  <2> DEFINE b == es[i].cand /\ i \in S
  <2>2. b \in BOOLEAN
    OBVIOUS
  <2>3. fs[i] = [es[i] EXCEPT !.cand = b]
    BY <2>1 DEF Keep, ExpType
  <2> HIDE DEF b, fs
  <2>4. fs[i] \in ExpType /\ fs[i].cand = b
    BY <2>1, <2>2, <2>3 DEF ExpType
  <2>5. /\ fs[i].want = es[i].want /\ fs[i].amount = es[i].amount /\ fs[i].calls = es[i].calls
        /\ fs[i].first = es[i].first /\ fs[i].last = es[i].last /\ fs[i].late = es[i].late
    BY <2>1, <2>2, <2>3 DEF ExpType
  <2> QED
    BY <2>4, <2>5 DEF b
<1> HIDE DEF fs
<1>3. fs \in Seq(ExpType) /\ DOMAIN fs = DOMAIN es
  BY <1>1, <1>2, MappedType
<1> QED
  BY <1>2, <1>3 DEF Same, fs

LEMMA MarkedFields ==
  ASSUME NEW es \in Seq(ExpType), NEW n
  PROVE  /\ Mark(es, n) \in Seq(ExpType)
         /\ Same(es, Mark(es, n))
         /\ \A i \in DOMAIN es : Mark(es, n)[i].cand = es[i].cand
<1> DEFINE fs == Mark(es, n)
<1>1. fs = [i \in DOMAIN es |-> fs[i]]
  BY DEF Mark
<1>2. ASSUME NEW i \in DOMAIN es
      PROVE  /\ fs[i] \in ExpType /\ fs[i].cand = es[i].cand
             /\ fs[i].want = es[i].want /\ fs[i].amount = es[i].amount /\ fs[i].calls = es[i].calls
             /\ fs[i].first = es[i].first /\ fs[i].last = es[i].last /\ fs[i].late = es[i].late
  <2>1. es[i] \in ExpType /\ es[i].want \in Wants
    BY SeqElement, ExpFields
  <2>2. Names(es[i].want) \subseteq InNames \cup OutNames
    BY <2>1, WantsAssumption DEF Names
  <2>3. CASE es[i].cand /\ n \in Names(es[i].want)
    <3>1. fs[i] = [es[i] EXCEPT !.marks = @ \cup {n}]
      BY <2>3 DEF Mark
    <3>2. es[i].marks \cup {n} \in SUBSET (InNames \cup OutNames)
      BY <2>1, <2>2, <2>3 DEF ExpType
    <3> QED
      BY <2>1, <3>1, <3>2 DEF ExpType
  <2>4. CASE ~(es[i].cand /\ n \in Names(es[i].want))
    BY <2>1, <2>4 DEF Mark
  <2> QED
    BY <2>3, <2>4
<1> HIDE DEF fs
<1>3. fs \in Seq(ExpType) /\ DOMAIN fs = DOMAIN es
  BY <1>1, <1>2, MappedType
<1> QED
  BY <1>2, <1>3 DEF Same, fs

LEMMA ReplacedAt ==
  ASSUME NEW S, NEW s \in Seq(S), NEW m \in DOMAIN s, NEW e \in S
  PROVE  LET t == [s EXCEPT ![m] = e]
         IN  /\ t \in Seq(S) /\ DOMAIN t = DOMAIN s
             /\ t[m] = e
             /\ \A i \in DOMAIN s : i # m => t[i] = s[i]
OBVIOUS

LEMMA UnclaimedFields ==
  ASSUME NEW es \in Seq(ExpType), NEW m \in DOMAIN es
  PROVE  LET fs == [es EXCEPT ![m].cand = FALSE]
         IN  /\ fs \in Seq(ExpType)
             /\ Same(es, fs)
             /\ \A i \in DOMAIN es : fs[i].cand => es[i].cand
<1> DEFINE e == [es[m] EXCEPT !.cand = FALSE]
           fs == [es EXCEPT ![m] = e]
<1>1. es[m] \in ExpType
  BY SeqElement
<1>2. /\ e \in ExpType /\ ~e.cand
      /\ e.want = es[m].want /\ e.amount = es[m].amount /\ e.calls = es[m].calls
      /\ e.first = es[m].first /\ e.last = es[m].last /\ e.late = es[m].late
  BY <1>1 DEF ExpType
<1>3. [es EXCEPT ![m].cand = FALSE] = fs
  OBVIOUS
<1> HIDE DEF e
<1>4. /\ fs \in Seq(ExpType) /\ DOMAIN fs = DOMAIN es
      /\ fs[m] = e
      /\ \A i \in DOMAIN es : i # m => fs[i] = es[i]
  BY <1>2, ReplacedAt
<1> HIDE DEF fs
<1>5. Same(es, fs) /\ \A i \in DOMAIN es : fs[i].cand => es[i].cand
  BY <1>2, <1>4 DEF Same
<1> QED
  BY <1>3, <1>4, <1>5

LEMMA Least ==
  ASSUME NEW S \in SUBSET Nat, S # {}
  PROVE  Min(S) \in S /\ \A s \in S : Min(S) <= s
<1>1. PICK m \in S : \A s \in S : <<s, m>> \notin OpToRel(<, Nat)
  BY NatLessThanWellFounded, WFMin
<1>2. \A s \in S : ~ (s < m)
  BY <1>1 DEF OpToRel
<1>3. \A s \in S : m <= s
  BY <1>2
<1> QED
  BY <1>3 DEF Min

LEMMA FirstOf ==
  ASSUME NEW S \in SUBSET (Nat \ {0})
  PROVE  /\ First(S) # 0 => First(S) \in S
         /\ S # {} => First(S) \in S
  BY Least DEF First

LEMMA FirstWhere ==
  ASSUME NEW s \in Seq(ExpType), NEW P \in SUBSET DOMAIN s
  PROVE  /\ First(P) # 0 => First(P) \in P
         /\ P # {} => First(P) \in P
<1>1. P \in SUBSET (Nat \ {0})
  BY SeqElement
<1> QED
  BY <1>1, FirstOf

-------------------------------------------------------------------------------
(* A link of the call chain *)

OutType == [name : OutNames, type : {p[2] : p \in Outputs}, from : Nat]

LEMMA CallFields ==
  ASSUME NEW c \in CallType
  PROVE  /\ c.fn \in Functions /\ c.state \in {"open", "succeed", "failed"}
         /\ c.checked \in BOOLEAN /\ c.matching \in Nat /\ c.order \in Nat
         /\ c.outs \in Seq(OutType)
         /\ c.ins \in Seq(Inputs) /\ c.object \in Objects \cup {AnyObject}
         /\ c.known \in Nat /\ c.clean \in BOOLEAN
BY DEF CallType, OutType

(* The calls c and d pass the same, under the same name.                   *)
SamePassed(c, d) ==
  /\ d.fn = c.fn /\ d.ins = c.ins
  /\ DOMAIN d.outs = DOMAIN c.outs
  /\ \A j \in DOMAIN c.outs : d.outs[j].name = c.outs[j].name /\ d.outs[j].type = c.outs[j].type

LEMMA TakesSame ==
  ASSUME NEW c, NEW d, SamePassed(c, d), NEW e, NEW f, e.want = f.want
  PROVE  Takes(e, c) <=> Takes(f, d)
BY DEF Takes, SamePassed

LEMMA WrittenSame ==
  ASSUME NEW c, NEW d, SamePassed(c, d), NEW want
  PROVE  Written(want, c.outs) = Written(want, d.outs)
BY DEF Written, SamePassed

LEMMA FromField ==
  ASSUME NEW N, NEW T, NEW o \in [name : N, type : T, from : Nat], NEW i \in Nat
  PROVE  LET q == [o EXCEPT !.from = i]
         IN  /\ q \in [name : N, type : T, from : Nat]
             /\ q.name = o.name /\ q.type = o.type /\ q.from = i
OBVIOUS

LEMMA CopyStep ==
  ASSUME NEW es, NEW c \in CallType, NEW i \in Nat
  PROVE  LET r == CopyOutputs(es, c, i)
         IN  /\ r.exps = es /\ r.bad \in BOOLEAN
             /\ r.call \in CallType /\ SamePassed(c, r.call)
             /\ r.call.checked = c.checked /\ r.call.order = c.order
             /\ r.call.matching = c.matching
             /\ r.bad => r.call.state = "failed"
             /\ ~r.bad => r.call.state = c.state /\ CopiedFrom(es, r.call, i)
<1> DEFINE stop == Uncopyable(es[i].want, c.outs)
           to == {j \in Written(es[i].want, c.outs) : j > stop}
           outs == [j \in DOMAIN c.outs |-> IF j \in to THEN [c.outs[j] EXCEPT !.from = i] ELSE c.outs[j]]
           copied == [c EXCEPT !.outs = outs]
           r == CopyOutputs(es, c, i)
<1>1. r = IF stop = 0 THEN Step(es, copied, FALSE) ELSE FailedStep(es, copied)
  BY DEF CopyOutputs
<1>2. c.outs \in Seq(OutType) /\ DOMAIN c.outs = 1 .. Len(c.outs) /\ Len(c.outs) \in Nat
  BY CallFields
<1>3. ASSUME NEW j \in DOMAIN c.outs
      PROVE  outs[j] \in OutType /\ outs[j].name = c.outs[j].name /\ outs[j].type = c.outs[j].type
  <2>1. c.outs[j] \in OutType
    BY <1>2, SeqElement
  <2>2. outs[j] = IF j \in to THEN [c.outs[j] EXCEPT !.from = i] ELSE c.outs[j]
    OBVIOUS
  <2> HIDE DEF outs, to
  <2>3. CASE j \in to
    BY <2>1, <2>2, <2>3, FromField DEF OutType
  <2>4. CASE j \notin to
    BY <2>1, <2>2, <2>4
  <2> QED
    BY <2>3, <2>4
<1>4. stop = 0 => \A j \in Written(es[i].want, c.outs) : outs[j].from = i
  <2> SUFFICES ASSUME stop = 0, NEW j \in Written(es[i].want, c.outs) PROVE outs[j].from = i
    OBVIOUS
  <2>1. j \in DOMAIN c.outs
    BY DEF Written
  <2>2. j \in to
    BY <1>2, <2>1
  <2>3. c.outs[j] \in OutType
    BY <1>2, <2>1, SeqElement
  <2>4. outs[j] = [c.outs[j] EXCEPT !.from = i]
    BY <2>1, <2>2
  <2> HIDE DEF outs, to, stop
  <2> QED
    BY <2>3, <2>4, FromField DEF OutType
<1>5. DOMAIN outs = DOMAIN c.outs
  OBVIOUS
<1>6. outs = [j \in DOMAIN c.outs |-> outs[j]]
  OBVIOUS
<1> HIDE DEF outs, stop
<1>7. outs \in Seq(OutType)
  BY <1>2, <1>3, <1>6, FunctionIsSeq
<1>8. /\ copied \in CallType /\ copied.outs = outs /\ copied.fn = c.fn /\ copied.ins = c.ins
      /\ copied.checked = c.checked /\ copied.order = c.order /\ copied.matching = c.matching
      /\ copied.state = c.state
  BY <1>7 DEF CallType, OutType
<1>9. SamePassed(c, copied)
  BY <1>3, <1>5, <1>8 DEF SamePassed
<1>10. CASE stop = 0
  <2>1. r.exps = es /\ r.call = copied /\ r.bad = FALSE
    BY <1>1, <1>10 DEF Step
  <2>2. Written(es[i].want, c.outs) = Written(es[i].want, copied.outs)
    BY <1>9, WrittenSame
  <2>3. CopiedFrom(es, copied, i)
    BY <1>4, <1>8, <1>10, <2>2 DEF CopiedFrom
  <2> QED
    BY <1>8, <1>9, <2>1, <2>3
<1>11. CASE stop # 0
  <2> DEFINE d == [copied EXCEPT !.state = "failed"]
  <2>1. r.exps = es /\ r.call = d /\ r.bad = TRUE
    BY <1>1, <1>11 DEF FailedStep, Step
  <2> HIDE DEF copied
  <2>2. /\ d \in CallType /\ d.outs = copied.outs /\ d.fn = copied.fn /\ d.ins = copied.ins
        /\ d.checked = copied.checked /\ d.order = copied.order /\ d.matching = copied.matching
        /\ d.state = "failed"
    BY <1>8 DEF CallType
  <2>3. SamePassed(c, d)
    BY <1>9, <2>2 DEF SamePassed
  <2> QED
    BY <1>8, <2>1, <2>2, <2>3
<1> QED
  BY <1>10, <1>11

(* What a link of the chain makes of the expectations es and the call c.   *)
Linked(es, c, r) ==
  /\ r.exps \in Seq(ExpType) /\ Same(es, r.exps)
  /\ r.call \in CallType
  /\ r.call.checked = c.checked /\ r.call.order = c.order
  /\ r.bad \in BOOLEAN /\ (r.bad <=> r.call.state = "failed")
  /\ Eligible(r.exps, r.call) /\ Copied(r.exps, r.call)

LEMMA SameCandidates ==
  ASSUME NEW es, NEW fs, Same(es, fs), NEW c, NEW d, SamePassed(c, d),
         CandidatesTake(es, c),
         \A i \in DOMAIN es : fs[i].cand => es[i].cand
  PROVE  CandidatesTake(fs, d)
BY TakesSame DEF CandidatesTake, Same

LEMMA LinkedFrom ==
  ASSUME NEW es, NEW fs, Same(es, fs), NEW c, NEW d, NEW r, Linked(fs, d, r),
         c.checked = d.checked, c.order = d.order
  PROVE  Linked(es, c, r)
BY DEF Linked, Same

LEMMA FailedLink ==
  ASSUME NEW es, NEW fs \in Seq(ExpType), Same(es, fs), NEW c \in CallType, CandidatesTake(fs, c)
  PROVE  Linked(es, c, FailedStep(fs, c))
<1> DEFINE d == [c EXCEPT !.state = "failed"]
           r == FailedStep(fs, c)
<1>1. r.exps = fs /\ r.call = d /\ r.bad = TRUE
  BY DEF FailedStep, Step
<1>2. /\ d \in CallType /\ d.outs = c.outs /\ d.fn = c.fn /\ d.ins = c.ins
      /\ d.checked = c.checked /\ d.order = c.order /\ d.state = "failed"
  BY DEF CallType
<1> HIDE DEF d, r
<1>3. SamePassed(c, d)
  BY <1>2 DEF SamePassed
<1>4. CandidatesTake(fs, d)
  BY <1>3, SameCandidates DEF Same
<1> QED
  BY <1>1, <1>2, <1>4 DEF Linked, Eligible, Copied, r

LEMMA CompleteStep ==
  ASSUME NEW es \in Seq(ExpType), NEW c \in CallType, c.state = "open", CandidatesTake(es, c)
  PROVE  Linked(es, c, Complete(es, c))
<1> DEFINE finals == {i \in DOMAIN es : IsFinal(es[i])}
           matches == {i \in DOMAIN es : IsMatching(es[i])}
           r == Complete(es, c)
<1>1. CASE First(finals) # 0
  <2> DEFINE m == First(finals)
             fs == [es EXCEPT ![m].cand = FALSE]
             d == [c EXCEPT !.matching = m, !.state = "succeed"]
  <2>1. m \in finals
    BY <1>1, FirstWhere
  <2>2. m \in DOMAIN es /\ es[m].cand /\ m \in Nat
    BY <2>1, SeqElement DEF IsFinal, IsMatching
  <2>3. r = CopyOutputs(fs, d, m)
    BY <1>1 DEF Complete
  <2> HIDE DEF m
  <2>4. fs \in Seq(ExpType) /\ Same(es, fs) /\ \A i \in DOMAIN es : fs[i].cand => es[i].cand
    BY <2>2, UnclaimedFields
  <2>5. /\ d \in CallType /\ d.outs = c.outs /\ d.fn = c.fn /\ d.ins = c.ins
        /\ d.checked = c.checked /\ d.order = c.order /\ d.state = "succeed" /\ d.matching = m
    BY <2>2 DEF CallType
  <2> HIDE DEF d, fs, r
  <2>6. SamePassed(c, d)
    BY <2>5 DEF SamePassed
  <2>7. /\ r.exps = fs /\ r.bad \in BOOLEAN
        /\ r.call \in CallType /\ SamePassed(d, r.call)
        /\ r.call.checked = d.checked /\ r.call.order = d.order /\ r.call.matching = m
        /\ r.bad => r.call.state = "failed"
        /\ ~r.bad => r.call.state = "succeed" /\ CopiedFrom(fs, r.call, m)
    BY <2>2, <2>3, <2>5, CopyStep
  <2>8. SamePassed(c, r.call)
    BY <2>6, <2>7 DEF SamePassed
  <2>9. CandidatesTake(fs, r.call)
    BY <2>4, <2>8, SameCandidates
  <2>10. Takes(es[m], c) /\ es[m].calls < es[m].amount
    BY <2>2 DEF CandidatesTake
  <2>11. m \in DOMAIN fs /\ Takes(fs[m], r.call) /\ fs[m].calls < fs[m].amount
    BY <2>2, <2>4, <2>8, <2>10, TakesSame DEF Same
  <2>12. Eligible(fs, r.call)
    BY <2>7, <2>9, <2>11 DEF Eligible
  <2>13. Copied(fs, r.call)
    BY <2>7 DEF Copied
  <2> QED
    BY <2>4, <2>5, <2>7, <2>12, <2>13 DEF Linked, r
<1>2. CASE First(finals) = 0 /\ First(matches) # 0
  <2> DEFINE m == First(matches)
  <2>1. m \in matches
    BY <1>2, FirstWhere
  <2>2. m \in DOMAIN es /\ m \in Nat
    BY <2>1, SeqElement
  <2>3. r = CopyOutputs(es, c, m)
    BY <1>2 DEF Complete
  <2>4. m = Matching(es)
    BY DEF Matching
  <2> HIDE DEF m, r
  <2>5. /\ r.exps = es /\ r.bad \in BOOLEAN
        /\ r.call \in CallType /\ SamePassed(c, r.call)
        /\ r.call.checked = c.checked /\ r.call.order = c.order
        /\ r.bad => r.call.state = "failed"
        /\ ~r.bad => r.call.state = "open" /\ CopiedFrom(es, r.call, m)
    BY <2>2, <2>3, CopyStep
  <2>6. Same(es, es)
    BY DEF Same
  <2>7. CandidatesTake(es, r.call)
    BY <2>5, <2>6, SameCandidates
  <2> QED
    BY <2>4, <2>5, <2>6, <2>7 DEF Linked, Eligible, Copied, r
<1>3. CASE First(finals) = 0 /\ First(matches) = 0
  <2>1. r.exps = es /\ r.call = c /\ r.bad = FALSE
    BY <1>3 DEF Complete, Step
  <2>2. Same(es, es) /\ Matching(es) = 0
    BY <1>3 DEF Same, Matching
  <2> HIDE DEF r
  <2> QED
    BY <2>1, <2>2 DEF Linked, Eligible, Copied, r
<1> QED
  BY <1>1, <1>2, <1>3

LEMMA NarrowedStep ==
  ASSUME NEW es \in Seq(ExpType), NEW c \in CallType, c.state = "open", NEW S, NEW name,
         \A i \in DOMAIN es : es[i].cand /\ i \in S => Takes(es[i], c) /\ es[i].calls < es[i].amount
  PROVE  Linked(es, c, Narrowed(es, c, S, name))
<1> DEFINE kept == Keep(es, S)
           marked == Mark(kept, name)
<1>1. /\ kept \in Seq(ExpType) /\ Same(es, kept)
      /\ \A i \in DOMAIN es : kept[i].cand <=> es[i].cand /\ i \in S
  BY KeptFields
<1>2. Narrowed(es, c, S, name) = IF Candidates(kept) = {} THEN FailedStep(kept, c)
                                 ELSE Complete(marked, c)
  BY DEF Narrowed
<1> HIDE DEF kept
<1>3. CandidatesTake(kept, c)
  <2> SUFFICES ASSUME NEW i \in DOMAIN kept, kept[i].cand
               PROVE  Takes(kept[i], c) /\ kept[i].calls < kept[i].amount
    BY DEF CandidatesTake
  <2>1. i \in DOMAIN es /\ es[i].cand /\ i \in S
    BY <1>1 DEF Same
  <2>2. SamePassed(c, c)
    BY DEF SamePassed
  <2> QED
    BY <1>1, <2>1, <2>2, TakesSame DEF Same
<1>4. /\ marked \in Seq(ExpType) /\ Same(kept, marked)
      /\ \A i \in DOMAIN kept : marked[i].cand = kept[i].cand
  BY <1>1, MarkedFields
<1> HIDE DEF marked
<1>5. CandidatesTake(marked, c)
  <2>1. SamePassed(c, c)
    BY DEF SamePassed
  <2> QED
    BY <1>3, <1>4, <2>1, SameCandidates
<1>6. Linked(es, c, FailedStep(kept, c))
  BY <1>1, <1>3, FailedLink
<1>7. Linked(marked, c, Complete(marked, c))
  BY <1>4, <1>5, CompleteStep
<1>8. Same(es, marked)
  BY <1>1, <1>4 DEF Same
<1>9. Linked(es, c, Complete(marked, c))
  BY <1>7, <1>8, LinkedFrom
<1> QED
  BY <1>2, <1>6, <1>9

LEMMA ReopenedFields ==
  ASSUME NEW es \in Seq(ExpType), NEW c
  PROVE  /\ Reopened(es, c) \in Seq(ExpType)
         /\ Same(es, Reopened(es, c))
         /\ \A i \in DOMAIN es : Reopened(es, c)[i].cand => es[i].cand
<1> DEFINE fs == Reopened(es, c)
<1>1. fs = [i \in DOMAIN es |-> fs[i]]
  BY DEF Reopened
<1>2. ASSUME NEW i \in DOMAIN es
      PROVE  /\ fs[i] \in ExpType /\ (fs[i].cand => es[i].cand)
             /\ fs[i].want = es[i].want /\ fs[i].amount = es[i].amount /\ fs[i].calls = es[i].calls
             /\ fs[i].first = es[i].first /\ fs[i].last = es[i].last /\ fs[i].late = es[i].late
  <2> DEFINE e == [es[i] EXCEPT !.cand = FALSE]
  <2>1. es[i] \in ExpType
    BY SeqElement
  <2>2. /\ e \in ExpType /\ ~e.cand
        /\ e.want = es[i].want /\ e.amount = es[i].amount /\ e.calls = es[i].calls
        /\ e.first = es[i].first /\ e.last = es[i].last /\ e.late = es[i].late
    BY <2>1 DEF ExpType
  <2>3. fs[i] = IF i = c.matching THEN Reset(es[i]) ELSE IF IsFinal(es[i]) THEN Reset(e) ELSE es[i]
    BY DEF Reopened
  <2> HIDE DEF e, fs
  <2>4. CASE i = c.matching
    BY <2>1, <2>3, <2>4, ResetFields
  <2>5. CASE i # c.matching /\ IsFinal(es[i])
    BY <2>2, <2>3, <2>5, ResetFields
  <2>6. CASE i # c.matching /\ ~IsFinal(es[i])
    BY <2>1, <2>3, <2>6
  <2> QED
    BY <2>4, <2>5, <2>6
<1> HIDE DEF fs
<1>3. fs \in Seq(ExpType) /\ DOMAIN fs = DOMAIN es
  BY <1>1, <1>2, MappedType
<1> QED
  BY <1>2, <1>3 DEF Same, fs

LEMMA Appended ==
  ASSUME NEW S, NEW s \in Seq(S), NEW e \in S
  PROVE  LET t == Append(s, e)
         IN  /\ t \in Seq(S) /\ Len(t) = Len(s) + 1 /\ Len(s) \in Nat
             /\ DOMAIN t = DOMAIN s \cup {Len(s) + 1} /\ Len(s) + 1 \notin DOMAIN s
             /\ \A i \in DOMAIN s : t[i] = s[i]
             /\ t[Len(s) + 1] = e
OBVIOUS

(* The next parameter: only who accepts it, and took what came before,     *)
(* takes the call that now includes it.                                    *)
LEMMA PassedStep ==
  ASSUME NEW es \in Seq(ExpType), NEW c \in CallType, CandidatesTake(es, c), NEW p \in Inputs
  PROVE  Linked(es, c, Passed(es, c, p))
<1> DEFINE fs == Reopened(es, c)
           d == [c EXCEPT !.state = "open", !.matching = 0, !.ins = Append(@, p)]
           S == {i \in DOMAIN es : Accepts(es[i].want, p)}
<1>1. /\ fs \in Seq(ExpType) /\ Same(es, fs)
      /\ \A i \in DOMAIN es : fs[i].cand => es[i].cand
  BY ReopenedFields
<1>2. c.ins \in Seq(Inputs)
  BY CallFields
<1>3. /\ Append(c.ins, p) \in Seq(Inputs)
      /\ DOMAIN Append(c.ins, p) = DOMAIN c.ins \cup {Len(c.ins) + 1}
      /\ \A j \in DOMAIN c.ins : Append(c.ins, p)[j] = c.ins[j]
      /\ Append(c.ins, p)[Len(c.ins) + 1] = p
  BY <1>2, Appended
<1>4. /\ d \in CallType /\ d.state = "open" /\ d.fn = c.fn /\ d.outs = c.outs
      /\ d.ins = Append(c.ins, p) /\ d.checked = c.checked /\ d.order = c.order
  BY <1>3 DEF CallType
<1>5. Passed(es, c, p) = Narrowed(fs, d, S, p[1])
  BY DEF Passed
<1> HIDE DEF fs, d
<1>6. ASSUME NEW i \in DOMAIN fs, fs[i].cand, i \in S
      PROVE  Takes(fs[i], d) /\ fs[i].calls < fs[i].amount
  <2>1. i \in DOMAIN es /\ es[i].cand /\ fs[i].want = es[i].want
    BY <1>1, <1>6 DEF Same
  <2>2. Takes(es[i], c) /\ es[i].calls < es[i].amount
    BY <2>1 DEF CandidatesTake
  <2>3. \A j \in DOMAIN d.ins : Accepts(fs[i].want, d.ins[j])
    BY <1>3, <1>4, <1>6, <2>1, <2>2 DEF Takes
  <2> QED
    BY <1>1, <1>4, <2>1, <2>2, <2>3 DEF Takes, Same
<1>7. Linked(fs, d, Narrowed(fs, d, S, p[1]))
  BY <1>1, <1>4, <1>6, NarrowedStep
<1> QED
  BY <1>1, <1>4, <1>5, <1>7, LinkedFrom

LEMMA PassedOutStep ==
  ASSUME NEW es \in Seq(ExpType), NEW c \in CallType, CandidatesTake(es, c), NEW p \in Outputs
  PROVE  Linked(es, c, PassedOut(es, c, p))
<1> DEFINE fs == Reopened(es, c)
           o == [name |-> p[1], type |-> p[2], from |-> 0]
           d == [c EXCEPT !.state = "open", !.matching = 0, !.outs = Append(@, o)]
           S == {i \in DOMAIN es : AcceptsOut(es[i].want, p)}
<1>1. /\ fs \in Seq(ExpType) /\ Same(es, fs)
      /\ \A i \in DOMAIN es : fs[i].cand => es[i].cand
  BY ReopenedFields
<1>2. c.outs \in Seq(OutType) /\ o \in OutType /\ o.name = p[1] /\ o.type = p[2]
  BY CallFields DEF OutType, OutNames
<1>3. PassedOut(es, c, p) = Narrowed(fs, d, S, p[1])
  BY DEF PassedOut
<1> HIDE DEF o
<1>4. /\ Append(c.outs, o) \in Seq(OutType)
      /\ DOMAIN Append(c.outs, o) = DOMAIN c.outs \cup {Len(c.outs) + 1}
      /\ \A j \in DOMAIN c.outs : Append(c.outs, o)[j] = c.outs[j]
      /\ Append(c.outs, o)[Len(c.outs) + 1] = o
  BY <1>2, Appended
<1>5. /\ d \in CallType /\ d.state = "open" /\ d.fn = c.fn /\ d.ins = c.ins
      /\ d.outs = Append(c.outs, o) /\ d.checked = c.checked /\ d.order = c.order
  BY <1>4 DEF CallType, OutType
<1> HIDE DEF fs, d
<1>6. ASSUME NEW i \in DOMAIN fs, fs[i].cand, i \in S
      PROVE  Takes(fs[i], d) /\ fs[i].calls < fs[i].amount
  <2>1. i \in DOMAIN es /\ es[i].cand /\ fs[i].want = es[i].want
    BY <1>1, <1>6 DEF Same
  <2>2. Takes(es[i], c) /\ es[i].calls < es[i].amount
    BY <2>1 DEF CandidatesTake
  <2>3. AcceptsOut(fs[i].want, <<o.name, o.type>>)
    BY <1>2, <1>6, <2>1 DEF AcceptsOut
  <2>4. \A j \in DOMAIN d.outs : AcceptsOut(fs[i].want, <<d.outs[j].name, d.outs[j].type>>)
    BY <1>4, <1>5, <2>1, <2>2, <2>3 DEF Takes
  <2> QED
    BY <1>1, <1>5, <2>1, <2>2, <2>4 DEF Takes, Same
<1>7. Linked(fs, d, Narrowed(fs, d, S, p[1]))
  BY <1>1, <1>5, <1>6, NarrowedStep
<1> QED
  BY <1>1, <1>3, <1>5, <1>7, LinkedFrom

LEMMA PassedObjectStep ==
  ASSUME NEW es \in Seq(ExpType), NEW c \in CallType, c.state # "failed",
         Eligible(es, c), Copied(es, c), NEW o \in Objects
  PROVE  Linked(es, c, PassedObject(es, c, o))
<1> DEFINE on == [c EXCEPT !.object = o]
           kept == Keep(es, {i \in DOMAIN es : AcceptsObject(es[i].want, o)})
           told == [i \in DOMAIN es |-> [kept[i] EXCEPT !.onObject = @ \/ kept[i].cand]]
           r == PassedObject(es, c, o)
<1>1. /\ kept \in Seq(ExpType) /\ Same(es, kept)
      /\ \A i \in DOMAIN es : kept[i].cand => es[i].cand
  BY KeptFields
<1>2. r = IF c.state = "succeed" THEN Step(told, on, FALSE)
          ELSE IF Candidates(kept) = {} THEN FailedStep(kept, on)
          ELSE Complete(told, on)
  BY DEF PassedObject
<1>3. told = [i \in DOMAIN es |-> told[i]]
  OBVIOUS
<1>4. ASSUME NEW i \in DOMAIN es
      PROVE  /\ told[i] \in ExpType /\ told[i].cand = kept[i].cand
             /\ told[i].want = kept[i].want /\ told[i].amount = kept[i].amount
             /\ told[i].calls = kept[i].calls /\ told[i].first = kept[i].first
             /\ told[i].last = kept[i].last /\ told[i].late = kept[i].late
  <2> DEFINE b == kept[i].onObject \/ kept[i].cand
  <2>1. kept[i] \in ExpType
    BY <1>1, SeqElement DEF Same
  <2>2. b \in BOOLEAN
    OBVIOUS
  <2>3. told[i] = [kept[i] EXCEPT !.onObject = b]
    OBVIOUS
  <2> HIDE DEF b, told, kept
  <2> QED
    BY <2>1, <2>2, <2>3 DEF ExpType
<1>5. /\ on \in CallType /\ on.state = c.state /\ on.fn = c.fn /\ on.ins = c.ins /\ on.outs = c.outs
      /\ on.checked = c.checked /\ on.order = c.order /\ on.matching = c.matching
  BY DEF CallType
<1> HIDE DEF on, kept, told, r
<1>6. told \in Seq(ExpType) /\ DOMAIN told = DOMAIN es
  BY <1>3, <1>4, MappedType
<1>7. Same(es, told) /\ \A i \in DOMAIN es : told[i].cand => es[i].cand
  BY <1>1, <1>4, <1>6 DEF Same
<1>8. SamePassed(c, on)
  BY <1>5 DEF SamePassed
<1>9. CandidatesTake(told, on) /\ CandidatesTake(kept, on)
  BY <1>1, <1>7, <1>8, SameCandidates DEF Eligible
<1>10. CASE c.state = "succeed"
  <2>1. r.exps = told /\ r.call = on /\ r.bad = FALSE
    BY <1>2, <1>10 DEF Step
  <2>2. c.matching \in DOMAIN es /\ Takes(told[c.matching], on)
    BY <1>7, <1>8, <1>10, TakesSame DEF Eligible, Same
  <2>3. Eligible(told, on)
    BY <1>5, <1>7, <1>9, <1>10, <2>2 DEF Eligible, Same
  <2>4. ~c.checked => CopiedFrom(told, on, c.matching)
    BY <1>5, <1>7, <1>10, <2>2 DEF Copied, CopiedFrom, Same
  <2>5. Copied(told, on)
    BY <1>5, <1>10, <2>4 DEF Copied
  <2> QED
    BY <1>5, <1>6, <1>7, <1>10, <2>1, <2>3, <2>5 DEF Linked, r
<1>11. CASE c.state # "succeed"
  <2>1. on.state = "open"
    BY <1>5, <1>11, CallFields
  <2>2. Linked(es, on, FailedStep(kept, on))
    BY <1>1, <1>5, <1>9, FailedLink
  <2>3. Linked(told, on, Complete(told, on))
    BY <1>5, <1>6, <1>9, <2>1, CompleteStep
  <2>4. Linked(es, on, Complete(told, on))
    BY <1>7, <2>3, LinkedFrom
  <2>5. Linked(es, on, r)
    BY <1>2, <1>11, <2>2, <2>4
  <2> QED
    BY <1>5, <2>5 DEF Linked, r
<1> QED
  BY <1>10, <1>11

LEMMA RenamedStep ==
  ASSUME NEW es \in Seq(ExpType), NEW c \in CallType, CandidatesTake(es, c), NEW fn \in Functions
  PROVE  Linked(es, c, Renamed(es, c, fn))
<1> DEFINE S == {i \in DOMAIN es : es[i].want.fn = fn}
           kept == Keep(es, S)
           open == [c EXCEPT !.fn = fn, !.state = "open", !.clean = FALSE]
           r == Renamed(es, c, fn)
<1>1. /\ kept \in Seq(ExpType) /\ Same(es, kept)
      /\ \A i \in DOMAIN es : kept[i].cand <=> es[i].cand /\ i \in S
  BY KeptFields
<1>2. r = IF Candidates(kept) = {} THEN FailedStep(kept, open) ELSE Complete(kept, open)
  BY DEF Renamed
<1>3. /\ open \in CallType /\ open.state = "open" /\ open.fn = fn /\ open.ins = c.ins
      /\ open.outs = c.outs /\ open.checked = c.checked /\ open.order = c.order
  BY DEF CallType
<1> HIDE DEF kept, open, r
<1>4. CandidatesTake(kept, open)
  <2> SUFFICES ASSUME NEW i \in DOMAIN kept, kept[i].cand
               PROVE  Takes(kept[i], open) /\ kept[i].calls < kept[i].amount
    BY DEF CandidatesTake
  <2>1. i \in DOMAIN es /\ es[i].cand /\ es[i].want.fn = fn /\ kept[i].want = es[i].want
    BY <1>1 DEF Same
  <2>2. Takes(es[i], c) /\ es[i].calls < es[i].amount
    BY <2>1 DEF CandidatesTake
  <2> QED
    BY <1>1, <1>3, <2>1, <2>2 DEF Takes, Same
<1>5. Linked(es, open, FailedStep(kept, open))
  BY <1>1, <1>3, <1>4, FailedLink
<1>6. Linked(es, open, Complete(kept, open))
  BY <1>1, <1>3, <1>4, CompleteStep, LinkedFrom
<1>7. Linked(es, open, r)
  BY <1>2, <1>5, <1>6
<1> QED
  BY <1>3, <1>7 DEF Linked, r

(* A new call has passed nothing, so every unfulfilled expectation of its  *)
(* name takes it.                                                          *)
LEMMA BegunStep ==
  ASSUME NEW es \in Seq(ExpType), \A i \in DOMAIN es : es[i].calls <= es[i].amount,
         NEW fn \in Functions, NEW order \in Nat
  PROVE  LET r == Begun(es, fn, order)
         IN  /\ Linked(es, r.call, r)
             /\ ~r.call.checked /\ r.call.order = order
<1> DEFINE c == [fn |-> fn, state |-> "open", checked |-> FALSE, matching |-> 0, order |-> order,
                 outs |-> <<>>, ins |-> <<>>, object |-> AnyObject, known |-> Len(es),
                 clean |-> \A i \in DOMAIN es : es[i] = Reset(es[i])]
           cleared == ClearCandidates(es)
           related == {i \in DOMAIN es : es[i].want.fn = fn /\ ~Fulfilled(es[i])}
           fs == [i \in DOMAIN es |-> [cleared[i] EXCEPT !.cand = i \in related]]
           r == Begun(es, fn, order)
<1>1. /\ cleared \in Seq(ExpType) /\ Same(es, cleared)
      /\ \A i \in DOMAIN es : ~cleared[i].cand
  BY ClearedFields
<1>2. r = IF related = {} THEN FailedStep(cleared, c) ELSE Complete(fs, c)
  BY DEF Begun
<1>3. fs = [i \in DOMAIN es |-> fs[i]]
  OBVIOUS
<1>4. ASSUME NEW i \in DOMAIN es
      PROVE  /\ fs[i] \in ExpType /\ (fs[i].cand <=> i \in related)
             /\ fs[i].want = cleared[i].want /\ fs[i].amount = cleared[i].amount
             /\ fs[i].calls = cleared[i].calls /\ fs[i].first = cleared[i].first
             /\ fs[i].last = cleared[i].last /\ fs[i].late = cleared[i].late
  <2> DEFINE b == i \in related
  <2>1. cleared[i] \in ExpType
    BY <1>1, SeqElement DEF Same
  <2>2. b \in BOOLEAN
    OBVIOUS
  <2>3. fs[i] = [cleared[i] EXCEPT !.cand = b]
    OBVIOUS
  <2> HIDE DEF b, fs, cleared
  <2>4. fs[i] \in ExpType /\ fs[i].cand = b
    BY <2>1, <2>2, <2>3 DEF ExpType
  <2>5. /\ fs[i].want = cleared[i].want /\ fs[i].amount = cleared[i].amount
        /\ fs[i].calls = cleared[i].calls /\ fs[i].first = cleared[i].first
        /\ fs[i].last = cleared[i].last /\ fs[i].late = cleared[i].late
    BY <2>1, <2>2, <2>3 DEF ExpType
  <2> QED
    BY <2>4, <2>5 DEF b
<1>5. /\ c.fn = fn /\ c.state = "open" /\ ~c.checked /\ c.order = order
      /\ c.outs = <<>> /\ c.ins = <<>>
  OBVIOUS
<1>6. c \in CallType
  <2> DEFINE b == \A i \in DOMAIN es : es[i] = Reset(es[i])
  <2>1. b \in BOOLEAN /\ Len(es) \in Nat
    OBVIOUS
  <2>2. <<>> \in Seq(Inputs) /\ <<>> \in Seq(OutType)
    OBVIOUS
  <2> HIDE DEF b
  <2> QED
    BY <2>1, <2>2 DEF CallType, OutType, b
<1> HIDE DEF c, cleared, fs, r
<1>7. fs \in Seq(ExpType) /\ DOMAIN fs = DOMAIN es
  BY <1>3, <1>4, MappedType
<1>8. Same(es, fs)
  BY <1>1, <1>4, <1>7 DEF Same
<1>9. CandidatesTake(cleared, c)
  BY <1>1 DEF CandidatesTake, Same
<1>10. CandidatesTake(fs, c)
  <2> SUFFICES ASSUME NEW i \in DOMAIN fs, fs[i].cand
               PROVE  Takes(fs[i], c) /\ fs[i].calls < fs[i].amount
    BY DEF CandidatesTake
  <2>1. i \in DOMAIN es /\ es[i].want.fn = fn /\ es[i].calls # es[i].amount
    BY <1>4, <1>7 DEF Fulfilled
  <2>2. es[i].calls \in Nat /\ es[i].amount \in Nat
    BY <2>1, SeqElement, ExpFields
  <2> QED
    BY <1>5, <1>8, <2>1, <2>2 DEF Takes, Same
<1>11. Linked(es, c, FailedStep(cleared, c))
  BY <1>1, <1>6, <1>9, FailedLink
<1>12. Linked(es, c, Complete(fs, c))
  BY <1>5, <1>6, <1>7, <1>8, <1>10, CompleteStep, LinkedFrom
<1>13. Linked(es, c, r)
  BY <1>2, <1>11, <1>12
<1> QED
  BY <1>5, <1>13 DEF Linked, r

-------------------------------------------------------------------------------
(* The end of a call *)

(* What the end of a call may change of the expectations.                  *)
Later(es, fs) ==
  /\ DOMAIN fs = DOMAIN es
  /\ \A i \in DOMAIN es :
       /\ fs[i].want = es[i].want /\ fs[i].amount = es[i].amount
       /\ fs[i].first = es[i].first /\ fs[i].last = es[i].last
       /\ es[i].late => fs[i].late

LEMMA NoCallIsNone == NoCall \notin CallType
BY DEF NoCall, CallType

LEMMA ChargedFields ==
  ASSUME NEW es \in Seq(ExpType), NEW c \in CallType, NEW i \in DOMAIN es
  PROVE  LET fs == Charged(es, c, i)
         IN  /\ fs \in Seq(ExpType) /\ Later(es, fs)
             /\ \A k \in DOMAIN es : ~fs[k].cand
             /\ \A k \in DOMAIN es : k # i => fs[k].calls = es[k].calls
             /\ fs[i].calls = es[i].calls + 1
             /\ Late(es[i], c.order) => fs[i].late
<1> DEFINE e == [es[i] EXCEPT !.cand = FALSE]
           n == e.calls + 1
           b == e.late \/ Late(e, c.order)
           d == [e EXCEPT !.calls = n, !.late = b]
           gs == [es EXCEPT ![i] = Reset(d)]
           fs == Charged(es, c, i)
<1>1. es[i] \in ExpType
  BY SeqElement
<1>2. /\ e \in ExpType /\ e.calls = es[i].calls /\ e.late = es[i].late /\ e.want = es[i].want
      /\ e.amount = es[i].amount /\ e.first = es[i].first /\ e.last = es[i].last
  BY <1>1 DEF ExpType
<1>3. fs = ClearCandidates(gs)
  BY DEF Charged, Charge
<1>4. n \in Nat /\ n = es[i].calls + 1
  BY <1>1, <1>2, ExpFields
<1>5. b \in BOOLEAN /\ (es[i].late => b) /\ (Late(es[i], c.order) => b)
  BY <1>2 DEF Late
<1> HIDE DEF e, n, b
<1>6. /\ d \in ExpType /\ d.calls = n /\ d.late = b /\ d.want = e.want
      /\ d.amount = e.amount /\ d.first = e.first /\ d.last = e.last
  BY <1>2, <1>4, <1>5 DEF ExpType
<1> HIDE DEF d
<1>7. /\ Reset(d) \in ExpType /\ Reset(d).calls = n /\ Reset(d).late = b
      /\ Reset(d).want = es[i].want /\ Reset(d).amount = es[i].amount
      /\ Reset(d).first = es[i].first /\ Reset(d).last = es[i].last
  BY <1>2, <1>6, ResetFields
<1>8. /\ gs \in Seq(ExpType) /\ DOMAIN gs = DOMAIN es /\ gs[i] = Reset(d)
      /\ \A k \in DOMAIN es : k # i => gs[k] = es[k]
  BY <1>7, ReplacedAt
<1> HIDE DEF gs
<1>9. /\ ClearCandidates(gs) \in Seq(ExpType) /\ Same(gs, ClearCandidates(gs))
      /\ \A k \in DOMAIN gs : ~ClearCandidates(gs)[k].cand
  BY <1>8, ClearedFields
<1> HIDE DEF fs
<1>10. fs \in Seq(ExpType) /\ Same(gs, fs) /\ \A k \in DOMAIN es : ~fs[k].cand
  BY <1>3, <1>8, <1>9
<1>11. Later(es, fs)
  BY <1>5, <1>7, <1>8, <1>10 DEF Later, Same
<1>12. /\ \A k \in DOMAIN es : k # i => fs[k].calls = es[k].calls
       /\ fs[i].calls = es[i].calls + 1
       /\ Late(es[i], c.order) => fs[i].late
  BY <1>4, <1>5, <1>7, <1>8, <1>10 DEF Same
<1> QED
  BY <1>10, <1>11, <1>12 DEF fs

(* What the end of the call c makes of it.                                 *)
Ended(es, c, f) ==
  /\ f.call \in CallType /\ SamePassed(c, f.call) /\ f.call.outs = c.outs
  /\ f.call.checked /\ f.call.order = c.order
  /\ \/ /\ f.call.state = "succeed" /\ f.bad = FALSE
        /\ f.call.matching \in DOMAIN es
        /\ f.exps = Charged(es, c, f.call.matching)
        /\ Takes(es[f.call.matching], c)
        /\ es[f.call.matching].calls < es[f.call.matching].amount
        /\ CopiedFrom(es, c, f.call.matching)
     \/ /\ f.call.state = "failed" /\ f.exps \in {es, ClearCandidates(es)}
        /\ f.bad \in BOOLEAN /\ (f.bad \/ c.state = "failed")

LEMMA FinalizedCases ==
  ASSUME NEW es, NEW c, CallOK(es, c), NEW jumps
  PROVE  LET f == Finalized(es, c, jumps)
         IN  \/ ~Unsettled(c) /\ f.exps = es /\ f.call = c /\ f.bad = FALSE
             \/ Unsettled(c) /\ c \in CallType /\ Ended(es, c, f)
<1> DEFINE f == Finalized(es, c, jumps)
           done == [c EXCEPT !.checked = TRUE]
           match == First({i \in DOMAIN es : IsMatching(es[i])})
           won == [done EXCEPT !.matching = match, !.state = "succeed"]
           lost == [done EXCEPT !.state = "failed"]
<1>1. CASE ~Unsettled(c)
  BY <1>1 DEF Finalized, Step
<1>2. CASE Unsettled(c)
  <2>1. /\ c \in CallType /\ ~c.checked /\ es \in Seq(ExpType)
        /\ Eligible(es, c) /\ Copied(es, c)
    BY <1>2 DEF Unsettled, CallOK
  <2>2. /\ done \in CallType /\ done.checked /\ done.state = c.state /\ done.matching = c.matching
        /\ done.order = c.order /\ done.fn = c.fn /\ done.ins = c.ins /\ done.outs = c.outs
    BY <2>1 DEF CallType
  <2>3. SamePassed(c, done)
    BY <2>2 DEF SamePassed
  <2>4. c.state \in {"open", "succeed", "failed"}
    BY <2>1, CallFields
  <2>5. match # 0 => /\ match \in DOMAIN es /\ match \in Nat /\ match = Matching(es)
                     /\ es[match].cand
    <3>1. match # 0 => match \in {i \in DOMAIN es : IsMatching(es[i])}
      BY <2>1, FirstWhere
    <3> QED
      BY <2>1, <3>1, SeqElement DEF Matching, IsMatching
  <2>6. CASE c.state = "succeed"
    <3>1. c.matching \in DOMAIN es /\ c.matching # 0
      BY <2>1, <2>6, SeqElement DEF Eligible
    <3>2. f.exps = Charged(es, c, c.matching) /\ f.call = done /\ f.bad = FALSE
      BY <1>2, <2>6, <3>1 DEF Finalized, Step
    <3> HIDE DEF f, done
    <3> QED
      BY <1>2, <2>1, <2>2, <2>3, <2>6, <3>1, <3>2 DEF Ended, Eligible, Copied, f
  <2>7. CASE c.state = "failed"
    <3>1. f.exps = ClearCandidates(es) /\ f.call = done /\ f.bad = FALSE
      BY <1>2, <2>7 DEF Finalized, Step
    <3> HIDE DEF f, done
    <3> QED
      BY <1>2, <2>1, <2>2, <2>3, <2>7, <3>1 DEF Ended, f
  <2>8. CASE c.state = "open" /\ match # 0
    <3>1. f.exps = Charged(es, c, match) /\ f.call = won /\ f.bad = FALSE
      BY <1>2, <2>8 DEF Finalized, Step
    <3> HIDE DEF f, done, match
    <3>2. /\ won \in CallType /\ won.checked /\ won.state = "succeed" /\ won.matching = match
          /\ won.order = c.order /\ won.fn = c.fn /\ won.ins = c.ins /\ won.outs = c.outs
      BY <2>2, <2>5, <2>8 DEF CallType
    <3> HIDE DEF won
    <3>3. SamePassed(c, won)
      BY <3>2 DEF SamePassed
    <3>4. Takes(es[match], c) /\ es[match].calls < es[match].amount /\ CopiedFrom(es, c, match)
      BY <2>1, <2>5, <2>8 DEF Eligible, CandidatesTake, Copied
    <3> QED
      BY <1>2, <2>1, <2>5, <2>8, <3>1, <3>2, <3>3, <3>4 DEF Ended, f
  <2>9. CASE c.state = "open" /\ match = 0
    <3>1. f.exps \in {es, ClearCandidates(es)} /\ f.call = lost /\ f.bad = TRUE
      BY <1>2, <2>9 DEF Finalized, FailedStep, Step
    <3> HIDE DEF f, done, match
    <3>2. /\ lost \in CallType /\ lost.checked /\ lost.state = "failed"
          /\ lost.order = c.order /\ lost.fn = c.fn /\ lost.ins = c.ins /\ lost.outs = c.outs
      BY <2>2 DEF CallType
    <3> HIDE DEF lost
    <3>3. SamePassed(c, lost)
      BY <3>2 DEF SamePassed
    <3> QED
      BY <1>2, <2>1, <3>1, <3>2, <3>3 DEF Ended, f
  <2> QED
    BY <2>4, <2>6, <2>7, <2>8, <2>9
<1> QED
  BY <1>1, <1>2

LEMMA LaterSame ==
  ASSUME NEW es, NEW fs, Same(es, fs)
  PROVE  Later(es, fs)
BY DEF Same, Later

LEMMA ChargesToAppended ==
  ASSUME NEW S, NEW ch \in Seq(S), NEW e \in S, NEW i
  PROVE  LET dh == Append(ch, e)
         IN  /\ Cardinality(ChargesTo(ch, i)) \in Nat
             /\ Cardinality(ChargesTo(dh, i)) = Cardinality(ChargesTo(ch, i)) + (IF e.exp = i THEN 1 ELSE 0)
<1> DEFINE dh == Append(ch, e)
<1>1. /\ DOMAIN dh = DOMAIN ch \cup {Len(ch) + 1} /\ Len(ch) + 1 \notin DOMAIN ch
      /\ \A j \in DOMAIN ch : dh[j] = ch[j]
      /\ dh[Len(ch) + 1] = e
  BY Appended
<1>2. DOMAIN ch = 1 .. Len(ch) /\ Len(ch) \in Nat
  OBVIOUS
<1>3. IsFiniteSet(DOMAIN ch)
  BY <1>2, FS_Interval
<1>4. IsFiniteSet(ChargesTo(ch, i))
  BY <1>3, FS_Subset DEF ChargesTo
<1> HIDE DEF dh
<1>5. CASE e.exp = i
  <2>1. ChargesTo(dh, i) = ChargesTo(ch, i) \cup {Len(ch) + 1} /\ Len(ch) + 1 \notin ChargesTo(ch, i)
    BY <1>1, <1>5 DEF ChargesTo
  <2> QED
    BY <1>4, <1>5, <2>1, FS_AddElement, FS_CardinalityType DEF dh
<1>6. CASE e.exp # i
  <2>1. ChargesTo(dh, i) = ChargesTo(ch, i)
    BY <1>1, <1>6 DEF ChargesTo
  <2> QED
    BY <1>4, <1>6, <2>1, FS_CardinalityType DEF dh
<1> QED
  BY <1>5, <1>6

(* Steps that charge nothing keep what the charges say.                    *)
LEMMA ChargesKept ==
  ASSUME NEW es, NEW fs, Same(es, fs), NEW ch, ChargesOK(es, ch)
  PROVE  ChargesOK(fs, ch)
<1>1. ASSUME NEW k \in DOMAIN ch
      PROVE  /\ Takes(fs[ch[k].exp], ch[k].call)
             /\ CopiedFrom(fs, ch[k].call, ch[k].exp)
             /\ Late(fs[ch[k].exp], ch[k].call.order) => fs[ch[k].exp].late
  <2> DEFINE i == ch[k].exp
  <2>1. ch[k] \in [exp : DOMAIN es, call : CallType]
    BY SeqElement DEF ChargesOK
  <2>2. i \in DOMAIN es
    BY <2>1
  <2>3. /\ fs[i].want = es[i].want /\ fs[i].first = es[i].first /\ fs[i].last = es[i].last
        /\ fs[i].late = es[i].late
    BY <2>2 DEF Same
  <2>4. /\ Takes(es[i], ch[k].call) /\ CopiedFrom(es, ch[k].call, i)
        /\ Late(es[i], ch[k].call.order) => es[i].late
    BY DEF ChargesOK
  <2> QED
    BY <2>3, <2>4 DEF Takes, CopiedFrom, Late
<1> QED
  BY <1>1 DEF ChargesOK, Same

LEMMA ChargedCharges ==
  ASSUME NEW es \in Seq(ExpType), NEW ch, ChargesOK(es, ch), NEW c \in CallType,
         NEW d \in CallType, SamePassed(c, d), d.outs = c.outs, d.order = c.order,
         NEW i \in DOMAIN es,
         Takes(es[i], c), CopiedFrom(es, c, i)
  PROVE  ChargesOK(Charged(es, c, i), Append(ch, [exp |-> i, call |-> d]))
<1> DEFINE fs == Charged(es, c, i)
           e == [exp |-> i, call |-> d]
           dh == Append(ch, e)
           S == [exp : DOMAIN es, call : CallType]
<1>1. /\ fs \in Seq(ExpType) /\ Later(es, fs)
      /\ \A k \in DOMAIN es : k # i => fs[k].calls = es[k].calls
      /\ fs[i].calls = es[i].calls + 1
      /\ Late(es[i], c.order) => fs[i].late
  BY ChargedFields
<1>2. e \in S /\ ch \in Seq(S) /\ e.exp = i /\ e.call = d
  BY DEF ChargesOK
<1> HIDE DEF e, S, fs, dh
<1>3. /\ dh \in Seq(S) /\ DOMAIN dh = DOMAIN ch \cup {Len(ch) + 1}
      /\ \A k \in DOMAIN ch : dh[k] = ch[k]
      /\ dh[Len(ch) + 1] = e
  BY <1>2, Appended DEF dh
<1>4. ASSUME NEW k \in DOMAIN dh
      PROVE  /\ Takes(fs[dh[k].exp], dh[k].call)
             /\ CopiedFrom(fs, dh[k].call, dh[k].exp)
             /\ Late(fs[dh[k].exp], dh[k].call.order) => fs[dh[k].exp].late
  <2>1. CASE k \in DOMAIN ch
    <3> DEFINE m == ch[k].exp
    <3>1. m \in DOMAIN es
      <4>1. ch[k] \in S
        BY <1>2, <2>1, SeqElement
      <4> QED
        BY <4>1 DEF S
    <3>2. /\ fs[m].want = es[m].want /\ fs[m].first = es[m].first /\ fs[m].last = es[m].last
          /\ es[m].late => fs[m].late
      BY <1>1, <3>1 DEF Later
    <3>3. /\ Takes(es[m], ch[k].call) /\ CopiedFrom(es, ch[k].call, m)
          /\ Late(es[m], ch[k].call.order) => es[m].late
      BY <2>1 DEF ChargesOK
    <3>4. dh[k] = ch[k]
      BY <1>3, <2>1
    <3>5. Takes(fs[m], ch[k].call)
      BY <3>2, <3>3 DEF Takes
    <3>6. CopiedFrom(fs, ch[k].call, m)
      BY <3>2, <3>3 DEF CopiedFrom
    <3>7. Late(fs[m], ch[k].call.order) => fs[m].late
      BY <3>2, <3>3 DEF Late
    <3> QED
      BY <3>4, <3>5, <3>6, <3>7
  <2>2. CASE k = Len(ch) + 1
    <3>1. dh[k].exp = i /\ dh[k].call = d
      BY <1>2, <1>3, <2>2
    <3>2. fs[i].want = es[i].want /\ fs[i].first = es[i].first /\ fs[i].last = es[i].last
      BY <1>1 DEF Later
    <3>3. Takes(fs[i], d)
      BY <3>2, TakesSame
    <3>4. CopiedFrom(fs, d, i)
      BY <3>2 DEF CopiedFrom
    <3>5. Late(fs[i], d.order) => fs[i].late
      BY <1>1, <3>2 DEF Late
    <3> QED
      BY <3>1, <3>3, <3>4, <3>5
  <2> QED
    BY <1>3, <2>1, <2>2
<1>5. ASSUME NEW k \in DOMAIN fs
      PROVE  fs[k].calls = Cardinality(ChargesTo(dh, k))
  <2>1. k \in DOMAIN es /\ es[k].calls = Cardinality(ChargesTo(ch, k))
    BY <1>1 DEF Later, ChargesOK
  <2>2. Cardinality(ChargesTo(dh, k)) = Cardinality(ChargesTo(ch, k)) + (IF i = k THEN 1 ELSE 0)
    BY <1>2, ChargesToAppended DEF dh
  <2>3. Cardinality(ChargesTo(ch, k)) \in Nat
    BY <2>1, SeqElement, ExpFields
  <2> QED
    BY <1>1, <2>1, <2>2, <2>3
<1>6. dh \in Seq([exp : DOMAIN fs, call : CallType])
  BY <1>1, <1>3 DEF S, Later
<1>7. ChargesOK(fs, dh)
  BY <1>4, <1>5, <1>6 DEF ChargesOK
<1> QED
  BY <1>7 DEF dh, fs, e

LEMMA EndedCall ==
  ASSUME NEW es, NEW c, CallOK(es, c), c \in CallType, NEW f, Ended(es, c, f)
  PROVE  CallOK(f.exps, f.call) /\ Later(es, f.exps) /\ ~Unsettled(f.call)
<1> DEFINE fs == f.exps
           d == f.call
<1>1. /\ es \in Seq(ExpType) /\ \A i \in DOMAIN es : es[i].calls <= es[i].amount
      /\ CandidatesTake(es, c)
  BY NoCallIsNone DEF CallOK, Eligible
<1>2. d \in CallType /\ d.checked /\ SamePassed(c, d)
  BY DEF Ended
<1>3. ~Unsettled(d) /\ Copied(fs, d)
  BY <1>2 DEF Unsettled, Copied
<1>4. CASE d.state = "succeed"
  <2> DEFINE m == d.matching
  <2>1. m \in DOMAIN es /\ fs = Charged(es, c, m) /\ Takes(es[m], c) /\ es[m].calls < es[m].amount
    BY <1>4 DEF Ended
  <2> HIDE DEF fs, d, m
  <2>2. /\ fs \in Seq(ExpType) /\ Later(es, fs)
        /\ \A k \in DOMAIN es : ~fs[k].cand
        /\ \A k \in DOMAIN es : k # m => fs[k].calls = es[k].calls
        /\ fs[m].calls = es[m].calls + 1
    BY <1>1, <2>1, ChargedFields
  <2>3. \A i \in DOMAIN fs : fs[i].calls <= fs[i].amount
    <3> SUFFICES ASSUME NEW i \in DOMAIN fs PROVE fs[i].calls <= fs[i].amount
      OBVIOUS
    <3>1. i \in DOMAIN es /\ fs[i].amount = es[i].amount
      BY <2>2 DEF Later
    <3>2. es[i].calls \in Nat /\ es[i].amount \in Nat
      BY <1>1, <3>1, SeqElement, ExpFields
    <3> QED
      BY <1>1, <2>1, <2>2, <3>1, <3>2
  <2>4. m \in DOMAIN fs /\ Takes(fs[m], d)
    BY <1>2, <2>1, <2>2, TakesSame DEF Later
  <2>5. Eligible(fs, d)
    BY <1>2, <2>2, <2>4 DEF Eligible, CandidatesTake, Later, m
  <2> QED
    BY <1>2, <1>3, <2>2, <2>3, <2>5 DEF CallOK, fs, d
<1>5. CASE d.state # "succeed"
  <2>1. d.state = "failed" /\ fs \in {es, ClearCandidates(es)}
    BY <1>5 DEF Ended
  <2> HIDE DEF fs, d
  <2>2. Same(es, es)
    BY DEF Same
  <2>3. fs \in Seq(ExpType) /\ Same(es, fs) /\ \A i \in DOMAIN es : fs[i].cand => es[i].cand
    BY <1>1, <2>1, <2>2, ClearedFields
  <2>4. CandidatesTake(fs, d)
    BY <1>1, <1>2, <2>3, SameCandidates
  <2>5. Eligible(fs, d)
    BY <2>1, <2>4 DEF Eligible
  <2>6. \A i \in DOMAIN fs : fs[i].calls <= fs[i].amount
    BY <1>1, <2>3 DEF Same
  <2> QED
    BY <1>2, <1>3, <2>3, <2>5, <2>6, LaterSame DEF CallOK, fs, d
<1> QED
  BY <1>4, <1>5

(* The charges when the call c has become what f says.                     *)
ChargesAfter(ch, c, f) ==
  IF Unsettled(c) /\ f.call.state = "succeed"
  THEN Append(ch, [exp |-> f.call.matching, call |-> f.call]) ELSE ch

LEMMA EndedCharges ==
  ASSUME NEW es, NEW c, CallOK(es, c), c \in CallType, Unsettled(c), NEW f, Ended(es, c, f),
         NEW ch, ChargesOK(es, ch), NEW made, OrdersOK(c, ch, made)
  PROVE  LET dh == ChargesAfter(ch, c, f)
         IN  /\ ChargesOK(f.exps, dh)
             /\ OrdersOK(f.call, dh, made)
             /\ f.call.state # "failed" => Len(dh) = Len(ch) + 1
<1> DEFINE d == f.call
           dh == ChargesAfter(ch, c, f)
<1>1. es \in Seq(ExpType)
  BY DEF CallOK
<1>2. d \in CallType /\ SamePassed(c, d) /\ d.outs = c.outs /\ d.order = c.order /\ ~Unsettled(d)
  BY DEF Ended, Unsettled
<1>3. /\ made \in Nat /\ c.order = made
      /\ \A k \in DOMAIN ch : ch[k].call.order < made
      /\ \A j, k \in DOMAIN ch : j < k => ch[j].call.order < ch[k].call.order
  BY DEF OrdersOK
<1>4. CASE d.state = "succeed"
  <2> DEFINE m == d.matching
             e == [exp |-> m, call |-> d]
  <2>1. m \in DOMAIN es /\ f.exps = Charged(es, c, m) /\ Takes(es[m], c) /\ CopiedFrom(es, c, m)
    BY <1>4 DEF Ended
  <2>2. dh = Append(ch, e)
    BY <1>4 DEF ChargesAfter
  <2>3. ch \in Seq([exp : DOMAIN es, call : CallType])
    BY DEF ChargesOK
  <2> HIDE DEF d, m, dh
  <2>4. ChargesOK(Charged(es, c, m), Append(ch, e))
    BY <1>1, <1>2, <2>1, ChargedCharges
  <2>5. e \in [exp : DOMAIN es, call : CallType] /\ e.call = d
    BY <1>2, <2>1
  <2> HIDE DEF e
  <2>6. /\ DOMAIN dh = DOMAIN ch \cup {Len(ch) + 1} /\ Len(dh) = Len(ch) + 1 /\ Len(ch) \in Nat
        /\ \A k \in DOMAIN ch : dh[k] = ch[k]
        /\ dh[Len(ch) + 1] = e
        /\ DOMAIN ch = 1 .. Len(ch)
    BY <2>2, <2>3, <2>5, Appended
  <2>7. ASSUME NEW j \in DOMAIN dh, NEW k \in DOMAIN dh, j < k
        PROVE  dh[j].call.order < dh[k].call.order
    <3>1. j \in DOMAIN ch
      BY <2>6, <2>7
    <3>2. CASE k \in DOMAIN ch
      BY <1>3, <2>6, <2>7, <3>1, <3>2
    <3>3. CASE k = Len(ch) + 1
      BY <1>2, <1>3, <2>5, <2>6, <3>1, <3>3
    <3> QED
      BY <2>6, <3>2, <3>3
  <2>8. \A k \in DOMAIN dh : dh[k].call.order <= made
    <3> SUFFICES ASSUME NEW k \in DOMAIN dh PROVE dh[k].call.order <= made
      OBVIOUS
    <3>1. CASE k \in DOMAIN ch
      <4>1. ch[k] \in [exp : DOMAIN es, call : CallType]
        BY <2>3, <3>1, SeqElement
      <4>2. ch[k].call.order \in Nat
        BY <4>1, CallFields
      <4> QED
        BY <1>3, <2>6, <3>1, <4>2
    <3>2. CASE k = Len(ch) + 1
      BY <1>2, <1>3, <2>5, <2>6, <3>2
    <3> QED
      BY <2>6, <3>1, <3>2
  <2>9. OrdersOK(d, dh, made)
    BY <1>2, <1>3, <2>7, <2>8 DEF OrdersOK
  <2> QED
    BY <2>1, <2>2, <2>4, <2>6, <2>9 DEF d, dh
<1>5. CASE d.state # "succeed"
  <2>1. d.state = "failed" /\ f.exps \in {es, ClearCandidates(es)} /\ dh = ch
    BY <1>5 DEF Ended, ChargesAfter
  <2>2. Same(es, es)
    BY DEF Same
  <2>3. Same(es, f.exps)
    BY <1>1, <2>1, <2>2, ClearedFields
  <2>4. ChargesOK(f.exps, ch)
    BY <2>3, ChargesKept
  <2>5. OrdersOK(d, ch, made)
    BY <1>2 DEF OrdersOK
  <2> QED
    BY <2>1, <2>4, <2>5
<1> QED
  BY <1>4, <1>5

LEMMA FinalStep ==
  ASSUME NEW es, NEW c, CallOK(es, c), NEW ch, ChargesOK(es, ch), NEW made, OrdersOK(c, ch, made),
         NEW jumps
  PROVE  LET f == Finalized(es, c, jumps)
             dh == ChargesAfter(ch, c, f)
         IN  /\ CallOK(f.exps, f.call) /\ Later(es, f.exps) /\ ~Unsettled(f.call)
             /\ ChargesOK(f.exps, dh) /\ OrdersOK(f.call, dh, made)
             /\ f.bad \in BOOLEAN
             /\ ~f.bad /\ (c # NoCall => c.state # "failed") =>
                  /\ f.call # NoCall => f.call.state # "failed"
                  /\ Len(dh) = Len(ch) + (IF Unsettled(c) THEN 1 ELSE 0)
<1> DEFINE f == Finalized(es, c, jumps)
           dh == ChargesAfter(ch, c, f)
<1>1. CASE ~Unsettled(c) /\ f.exps = es /\ f.call = c /\ f.bad = FALSE
  <2>1. dh = ch
    BY <1>1 DEF ChargesAfter
  <2>2. Len(ch) \in Nat
    BY DEF ChargesOK
  <2>3. Later(es, es)
    BY DEF Later
  <2> HIDE DEF f, dh
  <2>4. Len(dh) = Len(ch) + (IF Unsettled(c) THEN 1 ELSE 0)
    BY <1>1, <2>1, <2>2
  <2>5. /\ CallOK(f.exps, f.call) /\ Later(es, f.exps) /\ ~Unsettled(f.call)
        /\ ChargesOK(f.exps, dh) /\ OrdersOK(f.call, dh, made)
    BY <1>1, <2>1, <2>3
  <2>6. f.bad \in BOOLEAN /\ ((c # NoCall => c.state # "failed") => (f.call # NoCall => f.call.state # "failed"))
    BY <1>1
  <2>7. f.bad \in BOOLEAN /\ (~f.bad /\ (c # NoCall => c.state # "failed") =>
                  /\ f.call # NoCall => f.call.state # "failed"
                  /\ Len(dh) = Len(ch) + (IF Unsettled(c) THEN 1 ELSE 0))
    BY <2>4, <2>6
  <2> QED
    BY <2>5, <2>7 DEF f, dh
<1>2. CASE Unsettled(c) /\ c \in CallType /\ Ended(es, c, f)
  <2> HIDE DEF f
  <2>1. CallOK(f.exps, f.call) /\ Later(es, f.exps) /\ ~Unsettled(f.call)
    BY <1>2, EndedCall
  <2>2. /\ ChargesOK(f.exps, dh) /\ OrdersOK(f.call, dh, made)
        /\ f.call.state # "failed" => Len(dh) = Len(ch) + 1
    BY <1>2, EndedCharges
  <2>3. f.bad \in BOOLEAN /\ (~f.bad /\ c.state # "failed" => f.call.state # "failed")
    BY <1>2 DEF Ended
  <2> HIDE DEF dh
  <2> QED
    BY <1>2, <2>1, <2>2, <2>3, NoCallIsNone DEF f, dh
<1>3. \/ ~Unsettled(c) /\ f.exps = es /\ f.call = c /\ f.bad = FALSE
      \/ Unsettled(c) /\ c \in CallType /\ Ended(es, c, f)
  BY FinalizedCases
<1> QED
  BY <1>1, <1>2, <1>3

LEMMA ReportCases ==
  ASSUME NEW bad \in BOOLEAN, NEW next \in Phases, failed \in BOOLEAN, phase \in Phases,
         Report(bad, next)
  PROVE  /\ phase' \in Phases /\ failed' \in BOOLEAN
         /\ Unfailed' => ~failed /\ ~bad /\ phase' = next
<1>1. CASE bad /\ ~failed
  <2>1. \/ failed' = TRUE /\ phase' = IF Protected THEN After[phase] ELSE next
        \/ phase' = "dead" /\ UNCHANGED failed
    BY <1>1 DEF Report
  <2>2. Protected => After[phase] \in Phases
    BY DEF Protected, After, Phases
  <2>3. "dead" \in Phases
    BY DEF Phases
  <2> QED
    BY <1>1, <2>1, <2>2, <2>3 DEF Unfailed
<1>2. CASE ~(bad /\ ~failed)
  BY <1>2 DEF Report, Unfailed
<1> QED
  BY <1>1, <1>2

-------------------------------------------------------------------------------
(* The steps of a test *)

LEMMA InitInv ==
  ASSUME Init
  PROVE  IInv
<1>1. CallOK(exps, call)
  BY DEF CallOK, Init
<1>2. exps = <<>> /\ charges = <<>>
  BY DEF Init
<1>3. ChargesOK(exps, charges)
  BY <1>2 DEF ChargesOK
<1>4. OrdersOK(call, charges, actualOrder)
  BY DEF OrdersOK, Unsettled, Init
<1>5. ~Unsettled(call) /\ Len(charges) = 0
  BY <1>2 DEF Unsettled, Init
<1>6. suite \in Suites /\ expectedOrder = 0 /\ phase = "body" /\ failed = FALSE /\ actualOrder = 0
      /\ call = NoCall
  BY DEF Init
<1>7. TestInv
  <2>1. phase \in Phases /\ ~Green /\ failed \in BOOLEAN /\ expectedOrder \in Nat
    BY <1>6 DEF Phases, Green
  <2>2. Len(charges) + (IF Unsettled(call) THEN 1 ELSE 0) = actualOrder
    BY <1>5, <1>6
  <2> QED
    BY <1>6, <2>1, <2>2 DEF TestInv
<1> QED
  BY <1>1, <1>3, <1>4, <1>7 DEF IInv

(* Whatever leaves the mock alone and fails the test or goes on.           *)
LEMMA MockUnchanged ==
  ASSUME IInv, UNCHANGED <<suite, exps, call, charges, actualOrder, expectedOrder>>,
         phase' \in Phases, failed' \in BOOLEAN, Unfailed' => Unfailed, Green' => Green
  PROVE  IInv'
<1>1. /\ CallOK(exps', call') /\ ChargesOK(exps', charges')
      /\ OrdersOK(call', charges', actualOrder')
  BY DEF IInv
<1>2. TestInv'
  BY DEF IInv, TestInv
<1> QED
  BY <1>1, <1>2 DEF IInv

LEMMA LinkStep ==
  ASSUME IInv, Using, call \in CallType, NEW s, Linked(exps, call, s), Link(s)
  PROVE  IInv'
<1> USE NoCallIsNone
<1>1. /\ exps' = s.exps /\ call' = s.call /\ charges' = charges /\ actualOrder' = actualOrder
      /\ suite' = suite /\ expectedOrder' = expectedOrder /\ Report(s.bad, phase)
  BY DEF Link, settings
<1>2. /\ s.exps \in Seq(ExpType) /\ Same(exps, s.exps)
      /\ s.call \in CallType /\ s.call.checked = call.checked /\ s.call.order = call.order
      /\ s.bad \in BOOLEAN /\ (s.bad <=> s.call.state = "failed")
      /\ Eligible(s.exps, s.call) /\ Copied(s.exps, s.call)
  BY DEF Linked
<1>3. Unsettled(s.call) <=> Unsettled(call)
  BY <1>2 DEF Unsettled
<1>4. CallOK(s.exps, s.call)
  BY <1>2 DEF CallOK, Same, IInv
<1>5. ChargesOK(s.exps, charges)
  BY <1>2, ChargesKept DEF IInv
<1>6. OrdersOK(s.call, charges, actualOrder)
  BY <1>2, <1>3 DEF OrdersOK, IInv
<1>7. /\ phase' \in Phases /\ failed' \in BOOLEAN
      /\ Unfailed' => ~failed /\ ~s.bad /\ phase' = phase
  BY <1>1, <1>2, ReportCases DEF IInv, TestInv
<1>8. TestInv'
  <2>1. ~Green'
    BY <1>7 DEF Green, Unfailed, Using
  <2>2. Unfailed' => Unfailed /\ s.call.state # "failed"
    BY <1>2, <1>7 DEF Unfailed, Using
  <2> QED
    BY <1>1, <1>3, <1>7, <2>1, <2>2 DEF IInv, TestInv
<1> QED
  BY <1>1, <1>4, <1>5, <1>6, <1>8 DEF IInv

LEMMA WiderSeq ==
  ASSUME NEW S, NEW T, S \subseteq T, NEW s \in Seq(S)
  PROVE  s \in Seq(T)
OBVIOUS

(* A new expectation is no candidate, and nothing is charged to it yet.    *)
LEMMA ExpectStep ==
  ASSUME IInv, NEW want \in Wants, NEW n \in Amounts, NEW window \in Orders,
         Expect(want, n, window)
  PROVE  IInv'
<1> DEFINE given == IF strict /\ window = <<0, 0>>
                    THEN <<expectedOrder + 1, expectedOrder + n>> ELSE window
           e == [want |-> want, amount |-> n, calls |-> 0, first |-> given[1], last |-> given[2],
                 late |-> FALSE, marks |-> {}, onObject |-> want.object = AnyObject, cand |-> FALSE]
           fs == Append(exps, e)
<1> USE NoCallIsNone
<1>1. /\ Using /\ exps' = fs /\ call' = call /\ charges' = charges /\ actualOrder' = actualOrder
      /\ suite' = suite /\ phase' = phase /\ failed' = failed
      /\ expectedOrder' = IF strict THEN expectedOrder + n ELSE expectedOrder
  BY DEF Expect, testVars
<1>2. n \in Nat /\ expectedOrder \in Nat
  BY WantsAssumption DEF IInv, TestInv
<1>3. given[1] \in Nat /\ given[2] \in Nat
  BY <1>2, WantsAssumption
<1> HIDE DEF given
<1>4. e \in ExpType /\ e.calls = 0 /\ e.amount = n /\ ~e.cand
  BY <1>3 DEF ExpType
<1>5. exps \in Seq(ExpType)
  BY DEF IInv, CallOK
<1> HIDE DEF e
<1>6. /\ fs \in Seq(ExpType) /\ DOMAIN fs = DOMAIN exps \cup {Len(exps) + 1}
      /\ Len(exps) + 1 \notin DOMAIN exps
      /\ \A i \in DOMAIN exps : fs[i] = exps[i]
      /\ fs[Len(exps) + 1] = e
  BY <1>4, <1>5, Appended
<1> HIDE DEF fs
<1>7. CallOK(fs, call)
  <2>1. \A i \in DOMAIN fs : fs[i].calls <= fs[i].amount
    BY <1>2, <1>4, <1>6 DEF IInv, CallOK
  <2>2. ASSUME call # NoCall PROVE Eligible(fs, call)
    BY <1>4, <1>6, <2>2 DEF IInv, CallOK, Eligible, CandidatesTake
  <2>3. ASSUME call # NoCall PROVE Copied(fs, call)
    <3>1. {i \in DOMAIN fs : IsMatching(fs[i])} = {i \in DOMAIN exps : IsMatching(exps[i])}
      BY <1>4, <1>6 DEF IsMatching
    <3>2. Matching(fs) = Matching(exps)
      BY <3>1 DEF Matching
    <3>3. Matching(exps) # 0 => Matching(exps) \in DOMAIN exps
      <4>1. Matching(exps) # 0 => Matching(exps) \in {i \in DOMAIN exps : IsMatching(exps[i])}
        BY <1>5, FirstWhere DEF Matching
      <4> QED
        BY <4>1
    <3>4. Copied(exps, call) /\ Eligible(exps, call)
      BY <2>3 DEF IInv, CallOK
    <3>5. call.state = "succeed" => fs[call.matching] = exps[call.matching]
      BY <1>6, <3>4 DEF Eligible
    <3>6. Matching(exps) # 0 => fs[Matching(exps)] = exps[Matching(exps)]
      BY <1>6, <3>3
    <3> QED
      BY <3>2, <3>4, <3>5, <3>6 DEF Copied, CopiedFrom
  <2> QED
    BY <1>6, <2>1, <2>2, <2>3 DEF IInv, CallOK
<1>8. ChargesOK(fs, charges)
  <2> DEFINE S == [exp : DOMAIN exps, call : CallType]
             T == [exp : DOMAIN fs, call : CallType]
  <2>1. charges \in Seq(S) /\ S \subseteq T
    BY <1>6 DEF IInv, ChargesOK
  <2>2. charges \in Seq(T)
    BY <2>1, WiderSeq
  <2>3. ASSUME NEW k \in DOMAIN charges PROVE charges[k].exp \in DOMAIN exps
    <3>1. charges[k] \in S
      BY <2>1, SeqElement
    <3> QED
      BY <3>1
  <2>4. ASSUME NEW k \in DOMAIN charges
        PROVE  /\ Takes(fs[charges[k].exp], charges[k].call)
               /\ CopiedFrom(fs, charges[k].call, charges[k].exp)
               /\ Late(fs[charges[k].exp], charges[k].call.order) => fs[charges[k].exp].late
    <3>1. fs[charges[k].exp] = exps[charges[k].exp]
      BY <1>6, <2>3
    <3>2. /\ Takes(exps[charges[k].exp], charges[k].call)
          /\ CopiedFrom(exps, charges[k].call, charges[k].exp)
          /\ Late(exps[charges[k].exp], charges[k].call.order) => exps[charges[k].exp].late
      BY DEF IInv, ChargesOK
    <3> QED
      BY <3>1, <3>2 DEF CopiedFrom
  <2>5. ASSUME NEW i \in DOMAIN fs PROVE fs[i].calls = Cardinality(ChargesTo(charges, i))
    <3>1. CASE i \in DOMAIN exps
      BY <1>6, <3>1 DEF IInv, ChargesOK
    <3>2. CASE i = Len(exps) + 1
      <4>1. ChargesTo(charges, i) = {}
        BY <1>6, <2>3, <3>2 DEF ChargesTo
      <4> QED
        BY <1>4, <1>6, <3>2, <4>1, FS_EmptySet
    <3> QED
      BY <1>6, <3>1, <3>2
  <2> QED
    BY <2>2, <2>4, <2>5 DEF ChargesOK
<1>9. TestInv'
  <2>1. ~Green'
    BY <1>1 DEF Green, Using
  <2> QED
    BY <1>1, <1>2, <2>1 DEF IInv, TestInv, Unfailed
<1>10. OrdersOK(call, charges, actualOrder)
  BY DEF IInv
<1> QED
  BY <1>1, <1>7, <1>8, <1>9, <1>10 DEF IInv

(* The end of a call, for the reading of its return value or the check of  *)
(* the expectations, of which more may be found wrong than the call.       *)
LEMMA EndStep ==
  ASSUME IInv, phase # "dead", NEW jumps, NEW next \in Phases, NEW bad \in BOOLEAN,
         LET f == Finalized(exps, call, jumps)
         IN  /\ exps' = f.exps /\ call' = f.call
             /\ Settle(f)
             /\ Report(bad, next)
             /\ f.bad => bad
             /\ next = "clear" /\ ~bad =>
                  failed \/ \A i \in DOMAIN f.exps : f.exps[i].calls = f.exps[i].amount /\ ~f.exps[i].late,
         UNCHANGED <<suite, settings, actualOrder>>
  PROVE  IInv'
<1> DEFINE f == Finalized(exps, call, jumps)
           dh == ChargesAfter(charges, call, f)
<1>1. /\ exps' = f.exps /\ call' = f.call /\ charges' = dh
      /\ f.bad => bad
      /\ next = "clear" /\ ~bad =>
           failed \/ \A i \in DOMAIN f.exps : f.exps[i].calls = f.exps[i].amount /\ ~f.exps[i].late
      /\ suite' = suite /\ expectedOrder' = expectedOrder /\ actualOrder' = actualOrder
  BY DEF Settle, ChargesAfter, settings
<1>2. /\ phase' \in Phases /\ failed' \in BOOLEAN
      /\ Unfailed' => ~failed /\ ~bad /\ phase' = next
  BY ReportCases DEF IInv, TestInv
<1>3. /\ CallOK(exps, call) /\ ChargesOK(exps, charges) /\ OrdersOK(call, charges, actualOrder)
  BY DEF IInv
<1>4. /\ CallOK(f.exps, f.call) /\ ~Unsettled(f.call)
      /\ ChargesOK(f.exps, dh) /\ OrdersOK(f.call, dh, actualOrder)
      /\ f.bad \in BOOLEAN
      /\ ~f.bad /\ (call # NoCall => call.state # "failed") =>
           /\ f.call # NoCall => f.call.state # "failed"
           /\ Len(dh) = Len(charges) + (IF Unsettled(call) THEN 1 ELSE 0)
  BY <1>3, FinalStep
<1> HIDE DEF f, dh
<1>5. ASSUME Unfailed'
      PROVE  /\ f.call # NoCall => f.call.state # "failed"
             /\ Len(dh) + (IF Unsettled(f.call) THEN 1 ELSE 0) = actualOrder
  <2>1. /\ call # NoCall => call.state # "failed"
        /\ Len(charges) + (IF Unsettled(call) THEN 1 ELSE 0) = actualOrder
    BY <1>2, <1>5 DEF IInv, TestInv, Unfailed
  <2>2. actualOrder \in Nat
    BY <1>3 DEF OrdersOK
  <2> QED
    BY <1>1, <1>2, <1>4, <1>5, <2>1, <2>2
<1>6. ASSUME Green'
      PROVE  \A i \in DOMAIN f.exps : f.exps[i].calls = f.exps[i].amount /\ ~f.exps[i].late
  <2>1. ~failed /\ ~bad /\ next = "clear"
    BY <1>2, <1>6 DEF Green, Unfailed
  <2> QED
    BY <1>1, <2>1
<1>7. TestInv'
  BY <1>1, <1>2, <1>4, <1>5, <1>6 DEF TestInv, IInv
<1> QED
  BY <1>1, <1>4, <1>7 DEF IInv

LEMMA ActualCallStep ==
  ASSUME IInv, NEW fn \in Functions, ActualCall(fn)
  PROVE  IInv'
<1> DEFINE f == Finalized(exps, call, Jumps)
           b == Begun(f.exps, fn, actualOrder + 1)
           dh == ChargesAfter(charges, call, f)
<1> USE NoCallIsNone
<1>1. /\ Using /\ charges' = dh /\ suite' = suite /\ expectedOrder' = expectedOrder
      /\ \/ /\ f.bad /\ exps' = f.exps /\ call' = f.call
            /\ Report(TRUE, phase) /\ actualOrder' = actualOrder
         \/ /\ exps' = f.exps /\ call' = NoCall
            /\ Report(f.bad, phase) /\ actualOrder' = actualOrder
         \/ /\ exps' = b.exps /\ call' = b.call
            /\ Report(f.bad \/ b.bad, phase) /\ actualOrder' = actualOrder + 1
  BY DEF ActualCall, Settle, ChargesAfter, settings
<1>2. /\ CallOK(exps, call) /\ ChargesOK(exps, charges) /\ OrdersOK(call, charges, actualOrder)
      /\ actualOrder \in Nat /\ phase \in Phases /\ failed \in BOOLEAN
  BY DEF IInv, OrdersOK, TestInv
<1>3. /\ CallOK(f.exps, f.call) /\ ~Unsettled(f.call)
      /\ ChargesOK(f.exps, dh) /\ OrdersOK(f.call, dh, actualOrder)
      /\ f.bad \in BOOLEAN
      /\ ~f.bad /\ (call # NoCall => call.state # "failed") =>
           /\ f.call # NoCall => f.call.state # "failed"
           /\ Len(dh) = Len(charges) + (IF Unsettled(call) THEN 1 ELSE 0)
  BY <1>2, FinalStep
<1>4. /\ Linked(f.exps, b.call, b) /\ ~b.call.checked /\ b.call.order = actualOrder + 1
  BY <1>2, <1>3, BegunStep DEF CallOK
<1> HIDE DEF f, b, dh
<1>5. ASSUME Unfailed, ~f.bad
      PROVE  Len(dh) = actualOrder
  BY <1>2, <1>3, <1>5 DEF IInv, TestInv
<1>6. Using => phase # "dead" /\ phase # "clear"
  BY DEF Using
<1>7. CASE f.bad /\ exps' = f.exps /\ call' = f.call /\ Report(TRUE, phase) /\ actualOrder' = actualOrder
  <2>1. phase' \in Phases /\ failed' \in BOOLEAN /\ ~Unfailed'
    BY <1>2, <1>7, ReportCases
  <2>2. TestInv'
    BY <1>1, <2>1 DEF IInv, TestInv, Unfailed, Green
  <2> QED
    BY <1>1, <1>3, <1>7, <2>2 DEF IInv
<1>8. CASE exps' = f.exps /\ call' = NoCall /\ Report(f.bad, phase) /\ actualOrder' = actualOrder
  <2>1. /\ phase' \in Phases /\ failed' \in BOOLEAN
        /\ Unfailed' => ~failed /\ ~f.bad /\ phase' = phase
    BY <1>2, <1>3, <1>8, ReportCases
  <2>2. ~Unsettled(NoCall)
    BY DEF Unsettled
  <2>3. Unfailed' => Unfailed /\ Len(dh) = actualOrder
    BY <1>1, <1>5, <1>6, <2>1 DEF Unfailed
  <2>4. ~Green'
    BY <1>1, <1>6, <2>1 DEF Green, Unfailed
  <2>5. TestInv'
    BY <1>1, <1>2, <1>8, <2>1, <2>2, <2>3, <2>4 DEF IInv, TestInv
  <2>6. CallOK(f.exps, NoCall) /\ OrdersOK(NoCall, dh, actualOrder)
    BY <1>3, <2>2 DEF CallOK, OrdersOK
  <2> QED
    BY <1>1, <1>3, <1>8, <2>5, <2>6 DEF IInv
<1>9. CASE /\ exps' = b.exps /\ call' = b.call
           /\ Report(f.bad \/ b.bad, phase) /\ actualOrder' = actualOrder + 1
  <2>1. /\ b.exps \in Seq(ExpType) /\ Same(f.exps, b.exps) /\ b.call \in CallType
        /\ b.bad \in BOOLEAN /\ (b.bad <=> b.call.state = "failed")
        /\ Eligible(b.exps, b.call) /\ Copied(b.exps, b.call)
    BY <1>4 DEF Linked
  <2>2. /\ phase' \in Phases /\ failed' \in BOOLEAN
        /\ Unfailed' => ~failed /\ ~(f.bad \/ b.bad) /\ phase' = phase
    BY <1>2, <1>3, <1>9, <2>1, ReportCases
  <2>3. Unsettled(b.call)
    BY <1>4, <2>1 DEF Unsettled
  <2>4. Unfailed' => Unfailed /\ Len(dh) = actualOrder /\ b.call.state # "failed"
    BY <1>1, <1>5, <1>6, <2>1, <2>2 DEF Unfailed
  <2>5. ~Green'
    BY <1>1, <1>6, <2>2 DEF Green, Unfailed
  <2>6. TestInv'
    BY <1>1, <1>2, <1>9, <2>2, <2>3, <2>4, <2>5 DEF IInv, TestInv
  <2>7. CallOK(b.exps, b.call)
    BY <1>3, <2>1 DEF CallOK, Same
  <2>8. ChargesOK(b.exps, dh)
    BY <1>3, <2>1, ChargesKept
  <2>9. \A k \in DOMAIN dh : dh[k].call.order \in Nat
    <3> SUFFICES ASSUME NEW k \in DOMAIN dh PROVE dh[k].call.order \in Nat
      OBVIOUS
    <3>1. dh \in Seq([exp : DOMAIN f.exps, call : CallType])
      BY <1>3 DEF ChargesOK
    <3>2. dh[k] \in [exp : DOMAIN f.exps, call : CallType]
      BY <3>1, SeqElement
    <3> QED
      BY <3>2, CallFields
  <2>10. OrdersOK(b.call, dh, actualOrder + 1)
    BY <1>2, <1>3, <1>4, <2>9 DEF OrdersOK
  <2> QED
    BY <1>1, <1>9, <2>6, <2>7, <2>8, <2>10 DEF IInv
<1> QED
  BY <1>1, <1>7, <1>8, <1>9

(* Checking the expectations finds the late and, unless the last call has  *)
(* been reported, the unmet ones.                                          *)
LEMMA CheckStep ==
  ASSUME IInv, NEW next \in Phases, phase # "dead", next = "clear" => ~failed /\ phase = "plugin",
         CheckExpectations(next)
  PROVE  IInv'
<1> DEFINE f == Finalized(exps, call, Jumps)
           lastFailed == call # NoCall /\ call.state = "failed"
           unmet == \E i \in DOMAIN exps : ~Fulfilled(f.exps[i])
           late == \E i \in DOMAIN exps : f.exps[i].late
           bad == f.bad \/ (~lastFailed /\ unmet) \/ late
<1>1. /\ exps' = f.exps /\ call' = f.call /\ Settle(f) /\ Report(bad, next)
      /\ UNCHANGED <<suite, settings, actualOrder>>
  BY DEF CheckExpectations
<1>2. CallOK(exps, call) /\ ChargesOK(exps, charges) /\ OrdersOK(call, charges, actualOrder)
  BY DEF IInv
<1>3. CallOK(f.exps, f.call) /\ Later(exps, f.exps) /\ f.bad \in BOOLEAN
  BY <1>2, FinalStep
<1>4. ASSUME next = "clear", ~bad
      PROVE  \A i \in DOMAIN f.exps : f.exps[i].calls = f.exps[i].amount /\ ~f.exps[i].late
  <2>1. Unfailed
    BY <1>4 DEF Unfailed
  <2>2. ~lastFailed
    BY <2>1 DEF IInv, TestInv
  <2>3. ~unmet /\ ~late
    BY <1>4, <2>2
  <2> QED
    BY <1>3, <2>3 DEF Later, Fulfilled
<1>5. bad \in BOOLEAN
  <2>1. \A i \in DOMAIN exps : f.exps[i].late \in BOOLEAN
    BY <1>3, SeqElement, ExpFields DEF CallOK, Later
  <2> HIDE DEF f
  <2> QED
    BY <1>3, <2>1
<1>6. f.bad => bad
  OBVIOUS
<1> HIDE DEF bad
<1> QED
  BY <1>1, <1>4, <1>5, <1>6, EndStep

LEMMA ClearStep ==
  ASSUME IInv, Clear, suite' = suite, phase' \in Phases, failed' \in BOOLEAN
  PROVE  IInv'
<1>1. /\ exps' = <<>> /\ call' = NoCall /\ charges' = <<>> /\ expectedOrder' = 0 /\ actualOrder' = 0
  BY DEF Clear
<1>2. CallOK(exps', call')
  BY <1>1 DEF CallOK
<1>3. ChargesOK(exps', charges')
  BY <1>1 DEF ChargesOK
<1>4. ~Unsettled(call') /\ Len(charges') = 0
  BY <1>1 DEF Unsettled
<1>5. OrdersOK(call', charges', actualOrder')
  BY <1>1, <1>4 DEF OrdersOK
<1>6. TestInv'
  <2>1. Len(charges') + (IF Unsettled(call') THEN 1 ELSE 0) = actualOrder'
    BY <1>1, <1>4
  <2>2. call' = NoCall /\ expectedOrder' \in Nat /\ DOMAIN exps' = {}
    BY <1>1
  <2> QED
    BY <1>4, <2>1, <2>2 DEF IInv, TestInv
<1> QED
  BY <1>2, <1>3, <1>5, <1>6 DEF IInv

LEMMA NextStep ==
  ASSUME IInv, Next
  PROVE  IInv'
<1> USE NoCallIsNone
<1>1. /\ suite \in Suites /\ phase \in Phases /\ failed \in BOOLEAN
      /\ call \in CallType \cup {NoCall} /\ (call # NoCall => Eligible(exps, call) /\ Copied(exps, call))
  BY DEF IInv, TestInv, CallOK
<1>2. /\ suite.wants \subseteq Wants /\ suite.amounts \subseteq Amounts /\ suite.orders \subseteq Orders
      /\ suite.calls \subseteq Functions /\ suite.inputs \subseteq Inputs
      /\ suite.outputs \subseteq Outputs /\ suite.objects \subseteq Objects
  BY <1>1, SuitesAssumption
<1>3. CASE \E w \in suite.wants, n \in suite.amounts, o \in suite.orders : Expect(w, n, o)
  BY <1>2, <1>3, ExpectStep
<1>4. CASE \E fn \in suite.calls : ActualCall(fn)
  BY <1>2, <1>4, ActualCallStep
<1>5. CASE \E p \in suite.inputs : WithParameter(p)
  <2>1. PICK p \in Inputs : WithParameter(p)
    BY <1>2, <1>5
  <2>2. Using /\ call \in CallType /\ CandidatesTake(exps, call) /\ Link(Passed(exps, call, p))
    BY <1>1, <2>1 DEF WithParameter, Passing, Eligible
  <2>3. Linked(exps, call, Passed(exps, call, p))
    BY <2>2, PassedStep DEF IInv, CallOK
  <2> QED
    BY <2>2, <2>3, LinkStep
<1>6. CASE \E p \in suite.outputs : WithOutputParameter(p)
  <2>1. PICK p \in Outputs : WithOutputParameter(p)
    BY <1>2, <1>6
  <2>2. Using /\ call \in CallType /\ CandidatesTake(exps, call) /\ Link(PassedOut(exps, call, p))
    BY <1>1, <2>1 DEF WithOutputParameter, Passing, Eligible
  <2>3. Linked(exps, call, PassedOut(exps, call, p))
    BY <2>2, PassedOutStep DEF IInv, CallOK
  <2> QED
    BY <2>2, <2>3, LinkStep
<1>7. CASE \E o \in suite.objects : OnObject(o)
  <2>1. PICK o \in Objects : OnObject(o)
    BY <1>2, <1>7
  <2>2. /\ Using /\ call \in CallType /\ call.state # "failed"
        /\ Eligible(exps, call) /\ Copied(exps, call) /\ Link(PassedObject(exps, call, o))
    BY <1>1, <2>1 DEF OnObject
  <2>3. Linked(exps, call, PassedObject(exps, call, o))
    BY <2>2, PassedObjectStep DEF IInv, CallOK
  <2> QED
    BY <2>2, <2>3, LinkStep
<1>8. CASE \E fn \in suite.calls : WithName(fn)
  <2>1. PICK fn \in Functions : WithName(fn)
    BY <1>2, <1>8
  <2>2. Using /\ call \in CallType /\ CandidatesTake(exps, call) /\ Link(Renamed(exps, call, fn))
    BY <1>1, <2>1 DEF WithName, Eligible
  <2>3. Linked(exps, call, Renamed(exps, call, fn))
    BY <2>2, RenamedStep DEF IInv, CallOK
  <2> QED
    BY <2>2, <2>3, LinkStep
<1>9. CASE ReadReturnValue
  <2> DEFINE f == Finalized(exps, call, Jumps)
  <2>1. /\ exps' = f.exps /\ call' = f.call /\ Settle(f) /\ Report(f.bad, phase) /\ Using
        /\ UNCHANGED <<suite, settings, actualOrder>>
    BY <1>9 DEF ReadReturnValue
  <2>2. CallOK(exps, call) /\ ChargesOK(exps, charges) /\ OrdersOK(call, charges, actualOrder)
    BY DEF IInv
  <2>3. f.bad \in BOOLEAN
    BY <2>2, FinalStep
  <2>4. phase # "dead" /\ phase # "clear"
    BY <2>1 DEF Using
  <2> QED
    BY <1>1, <2>1, <2>3, <2>4, EndStep
<1>10. CASE CheckInTest
  <2>1. CheckExpectations(phase) /\ phase # "dead" /\ phase # "clear"
    BY <1>10 DEF CheckInTest, Using
  <2> QED
    BY <1>1, <2>1, CheckStep
<1>11. CASE PluginCheck
  <2>1. phase = "plugin" /\ ~failed /\ CheckExpectations("clear") /\ "clear" \in Phases
    BY <1>11 DEF PluginCheck, Phases
  <2> QED
    BY <2>1, CheckStep
<1>12. CASE ClearInTest
  BY <1>1, <1>12, ClearStep DEF ClearInTest, testVars
<1>13. CASE PluginClear
  <2>1. Clear /\ suite' = suite /\ failed' = FALSE /\ phase' \in {"body", "over"}
    BY <1>13 DEF PluginClear
  <2> QED
    BY <2>1, ClearStep DEF Phases
<1>14. ASSUME UNCHANGED <<exps, call, charges, actualOrder, expectedOrder, suite>>,
              phase' \in Phases, failed' \in BOOLEAN, Unfailed' => Unfailed, Green' => Green
       PROVE  IInv'
  BY <1>14, MockUnchanged
<1>15. CASE StrictOrder \/ IgnoreOtherCalls \/ \E on \in BOOLEAN : SetEnabled(on)
  <2>1. UNCHANGED <<suite, exps, call, charges, actualOrder, expectedOrder, phase, failed>>
    BY <1>15 DEF StrictOrder, IgnoreOtherCalls, SetEnabled, testVars
  <2> QED
    BY <1>1, <1>14, <2>1 DEF Unfailed, Green
<1>16. CASE OtherFailure \/ Return
  <2>1. After[phase] \in {"teardown", "destroy", "plugin"} /\ phase # "dead" /\ phase \in Phases \ {"clear"}
    BY <1>16 DEF OtherFailure, Return, Using, After, Phases
  <2>2. /\ UNCHANGED <<suite, exps, call, charges, actualOrder, expectedOrder>>
        /\ (failed' = TRUE \/ failed' = failed) /\ phase' \in {phase, After[phase]}
    BY <1>16 DEF OtherFailure, Return, mock
  <2>3. phase' \in Phases /\ phase' # "clear"
    BY <2>1, <2>2 DEF Phases
  <2>4. ~Green' /\ failed' \in BOOLEAN
    BY <1>1, <2>2, <2>3 DEF Green
  <2>5. ~failed' => ~failed
    BY <2>2
  <2>6. Unfailed' => Unfailed
    BY <2>1, <2>5 DEF Unfailed
  <2> QED
    BY <1>14, <2>2, <2>3, <2>4, <2>6
<1>17. CASE PluginSkipsCheck
  <2>1. /\ UNCHANGED <<suite, exps, call, charges, actualOrder, expectedOrder, failed>>
        /\ failed /\ phase' = "clear"
    BY <1>17 DEF PluginSkipsCheck, mock
  <2> QED
    BY <1>1, <1>14, <2>1 DEF Phases, Green, Unfailed
<1>18. CASE Terminated
  <2>1. UNCHANGED <<suite, exps, call, charges, actualOrder, expectedOrder, phase, failed>>
    BY <1>18 DEF Terminated, vars, mock, testVars
  <2> QED
    BY <1>1, <1>14, <2>1 DEF Unfailed, Green
<1> QED
  BY <1>3, <1>4, <1>5, <1>6, <1>7, <1>8, <1>9, <1>10, <1>11, <1>12, <1>13, <1>15, <1>16, <1>17, <1>18
     DEF Next

LEMMA StutterStep ==
  ASSUME IInv, UNCHANGED vars
  PROVE  IInv'
<1>1. UNCHANGED <<suite, exps, call, charges, actualOrder, expectedOrder, phase, failed>>
  BY DEF vars, mock, testVars
<1>2. Unfailed' = Unfailed /\ Green' = Green
  BY <1>1 DEF Unfailed, Green
<1>3. phase' \in Phases /\ failed' \in BOOLEAN
  BY <1>1 DEF IInv, TestInv
<1> QED
  BY <1>1, <1>2, <1>3, MockUnchanged

(* The settings, the fixture and what mock_fail parked are what they may   *)
(* be.                                                                     *)
FixtureOK ==
  /\ enabled \in BOOLEAN /\ strict \in BOOLEAN /\ ignoring \in BOOLEAN
  /\ test \in 1..MaxTests
  /\ parked \in {"nothing", "message", "freed"} /\ freedTwice \in BOOLEAN

LEMMA ReportTypes ==
  ASSUME FixtureOK, NEW bad, NEW next, Report(bad, next)
  PROVE  /\ test' = test /\ freedTwice' \in BOOLEAN
         /\ parked' \in {"nothing", "message", "freed"}
<1>1. CASE bad /\ ~failed
  BY <1>1 DEF Report, FixtureOK
<1>2. CASE ~(bad /\ ~failed)
  BY <1>2 DEF Report, FixtureOK
<1> QED
  BY <1>1, <1>2

LEMMA FixtureStep ==
  ASSUME IInv, FixtureOK, Next
  PROVE  FixtureOK'
<1>1. ASSUME UNCHANGED <<enabled, strict, ignoring>>, NEW bad, NEW next, Report(bad, next)
      PROVE  FixtureOK'
  BY <1>1, ReportTypes DEF FixtureOK
<1>2. ASSUME NEW s, Link(s) PROVE FixtureOK'
  BY <1>1, <1>2 DEF Link, settings
<1>3. ASSUME NEW next, CheckExpectations(next) PROVE FixtureOK'
  <2>1. /\ \E bad : Report(bad, next)
        /\ UNCHANGED <<enabled, strict, ignoring>>
    BY <1>3 DEF CheckExpectations, settings
  <2> QED
    BY <1>1, <2>1
<1>4. CASE \E w \in suite.wants, n \in suite.amounts, o \in suite.orders : Expect(w, n, o)
  BY <1>4 DEF Expect, FixtureOK, testVars
<1>5. CASE StrictOrder \/ IgnoreOtherCalls \/ \E on \in BOOLEAN : SetEnabled(on)
  BY <1>5 DEF StrictOrder, IgnoreOtherCalls, SetEnabled, FixtureOK, testVars
<1>6. CASE \E fn \in suite.calls : ActualCall(fn)
  <2>1. /\ \E bad : Report(bad, phase)
        /\ UNCHANGED <<enabled, strict, ignoring>>
    BY <1>6 DEF ActualCall, settings
  <2> QED
    BY <1>1, <2>1
<1>7. CASE \/ \E p \in suite.inputs : WithParameter(p)
           \/ \E p \in suite.outputs : WithOutputParameter(p)
           \/ \E o \in suite.objects : OnObject(o)
           \/ \E fn \in suite.calls : WithName(fn)
  BY <1>2, <1>7 DEF WithParameter, WithOutputParameter, OnObject, WithName
<1>8. CASE ReadReturnValue
  <2>1. /\ \E bad : Report(bad, phase)
        /\ UNCHANGED <<enabled, strict, ignoring>>
    BY <1>8 DEF ReadReturnValue, settings
  <2> QED
    BY <1>1, <2>1
<1>9. CASE CheckInTest \/ PluginCheck
  BY <1>3, <1>9 DEF CheckInTest, PluginCheck
<1>10. CASE ClearInTest
  BY <1>10 DEF ClearInTest, Clear, testVars, FixtureOK
<1>11. CASE OtherFailure \/ Return \/ PluginSkipsCheck \/ Terminated
  BY <1>11 DEF OtherFailure, Return, PluginSkipsCheck, Terminated, vars, mock, testVars, FixtureOK
<1>12. CASE PluginClear
  <2>1. /\ enabled' = TRUE /\ strict' = FALSE /\ ignoring' = FALSE
        /\ parked' = parked /\ freedTwice' = freedTwice
        /\ test' = test \/ (test < suite.tests /\ test' = test + 1)
    BY <1>12 DEF PluginClear, Clear
  <2>2. suite.tests \in 1..MaxTests /\ MaxTests \in Nat
    BY SuitesAssumption DEF IInv, TestInv
  <2>3. test' \in 1..MaxTests
    BY <2>1, <2>2 DEF FixtureOK
  <2> QED
    BY <2>1, <2>3 DEF FixtureOK
<1> QED
  BY <1>4, <1>5, <1>6, <1>7, <1>8, <1>9, <1>10, <1>11, <1>12 DEF Next

-------------------------------------------------------------------------------
(* The candidates of the call in progress, the one it has claimed and the  *)
(* calls charged so far stay as IInv says, whatever the test does.         *)
THEOREM CallsMatched == Spec => []IInv
<1>1. IInv /\ [Next]_vars => IInv'
  BY NextStep, StutterStep
<1> QED
  BY InitInv, <1>1, PTL DEF Spec

(* Everything keeps its type; what is charged is an expectation there is.  *)
THEOREM TypeCorrect == Spec => []TypeOK
<1>1. Init => FixtureOK
  <2> SUFFICES ASSUME Init PROVE FixtureOK
    OBVIOUS
  <2>1. suite.tests \in 1..MaxTests /\ MaxTests \in Nat
    BY SuitesAssumption DEF Init
  <2>2. 1 \in 1..MaxTests
    BY <2>1
  <2> QED
    BY <2>2 DEF Init, FixtureOK
<1>2. IInv /\ FixtureOK /\ [Next]_vars => FixtureOK'
  BY FixtureStep DEF FixtureOK, vars, mock, testVars
<1>3. IInv /\ FixtureOK => TypeOK
  BY DEF IInv, CallOK, ChargesOK, OrdersOK, TestInv, FixtureOK, TypeOK
<1> QED
  BY CallsMatched, <1>1, <1>2, <1>3, PTL DEF Spec

(* No expectation is ever charged more often than it was set up for.       *)
THEOREM NoneOvercharged == Spec => []NeverOvercharged
<1>1. IInv => NeverOvercharged
  BY DEF IInv, CallOK, NeverOvercharged
<1> QED
  BY CallsMatched, <1>1, PTL

(* Every call that is charged fits the expectation it is charged to.       *)
THEOREM ChargesFit == Spec => []CallFits
<1>1. IInv => CallFits
  BY DEF IInv, ChargesOK, CallFits, Takes
<1> QED
  BY CallsMatched, <1>1, PTL

(* The output buffers of a charged call hold what its own expectation      *)
(* returns.                                                                *)
THEOREM OutputsRight == Spec => []OutputsFromCharged
<1>1. IInv => OutputsFromCharged
  BY DEF IInv, ChargesOK, OutputsFromCharged, CopiedFrom
<1> QED
  BY CallsMatched, <1>1, PTL

(* A test that passes met every expectation as often as it was set up for, *)
(* and every call it made was charged.                                     *)
THEOREM GreenIsMet == Spec => []GreenMeansMet
<1>1. ASSUME IInv, Green
      PROVE  /\ \A i \in DOMAIN exps : exps[i].calls = exps[i].amount
             /\ Len(charges) = actualOrder
             /\ \A i \in DOMAIN exps : ChargesBefore(Len(charges) + 1, i) = exps[i].amount
  <2>1. Unfailed /\ ~Unsettled(call) /\ \A i \in DOMAIN exps : exps[i].calls = exps[i].amount
    BY <1>1 DEF IInv, TestInv, Green, Unfailed
  <2>2. Len(charges) \in Nat /\ DOMAIN charges = 1 .. Len(charges)
    BY <1>1 DEF IInv, ChargesOK
  <2>3. Len(charges) = actualOrder
    BY <1>1, <2>1, <2>2 DEF IInv, TestInv
  <2>4. \A i \in DOMAIN exps : exps[i].calls = Cardinality(ChargesTo(charges, i))
    BY <1>1 DEF IInv, ChargesOK
  <2>5. \A i : ChargesBefore(Len(charges) + 1, i) = Cardinality(ChargesTo(charges, i))
    <3>1. 1 .. (Len(charges) + 1) - 1 = DOMAIN charges
      BY <2>2
    <3> QED
      BY <3>1 DEF ChargesBefore, ChargesTo
  <2> QED
    BY <2>1, <2>3, <2>4, <2>5
<1>2. IInv => GreenMeansMet
  BY <1>1 DEF GreenMeansMet
<1> QED
  BY CallsMatched, <1>2, PTL

(* A test that passes made its calls in the order of their windows.        *)
THEOREM GreenInOrder == Spec => []OrderKept
<1>1. ASSUME IInv, Green, NEW j \in DOMAIN charges, NEW k \in DOMAIN charges,
             exps[charges[j].exp].first # 0, exps[charges[k].exp].first # 0,
             exps[charges[k].exp].last < exps[charges[j].exp].first
      PROVE  k < j
  <2> DEFINE e == exps[charges[j].exp]
             g == exps[charges[k].exp]
             o == charges[j].call.order
             q == charges[k].call.order
  <2>1. charges \in Seq([exp : DOMAIN exps, call : CallType]) /\ exps \in Seq(ExpType)
    BY <1>1 DEF IInv, CallOK, ChargesOK
  <2>2. /\ charges[j] \in [exp : DOMAIN exps, call : CallType] /\ j \in Nat
        /\ charges[k] \in [exp : DOMAIN exps, call : CallType] /\ k \in Nat
    BY <2>1, SeqElement
  <2>3. e \in ExpType /\ g \in ExpType /\ o \in Nat /\ q \in Nat
    BY <2>1, <2>2, SeqElement, CallFields
  <2>4. ~e.late /\ ~g.late
    BY <1>1, <2>2 DEF IInv, TestInv
  <2>5. ~Late(e, o) /\ ~Late(g, q)
    BY <1>1, <2>4 DEF IInv, ChargesOK
  <2>6. e.first \in Nat /\ e.last \in Nat /\ g.first \in Nat /\ g.last \in Nat
    BY <2>3, ExpFields
  <2> HIDE DEF e, g, o, q
  <2>7. o >= e.first /\ q <= g.last
    BY <1>1, <2>3, <2>5, <2>6 DEF Late, e, g
  <2>8. q < o
    BY <1>1, <2>3, <2>6, <2>7 DEF e, g
  <2>9. j < k => o < q
    BY <1>1 DEF IInv, OrdersOK, o, q
  <2>10. j # k
    BY <2>3, <2>8 DEF o, q
  <2> QED
    BY <2>2, <2>3, <2>8, <2>9, <2>10
<1>2. IInv => OrderKept
  BY <1>1 DEF OrderKept
<1> QED
  BY CallsMatched, <1>2, PTL

(* Whatever a test did with the mock, the plugin leaves it as new.         *)
THEOREM MockIsFresh == Spec => FreshMock
<1>1. ASSUME Next, phase = "clear" PROVE Fresh'
  <2>1. ~Using /\ ~ CheckInTest /\ ~ClearInTest
    BY <1>1 DEF Using, CheckInTest, ClearInTest
  <2>2. PluginClear \/ Terminated
    BY <1>1, <2>1 DEF Next, Expect, StrictOrder, IgnoreOtherCalls, SetEnabled, ActualCall,
       WithParameter, WithOutputParameter, Passing, OnObject, WithName, ReadReturnValue,
       OtherFailure, Return, PluginCheck, PluginSkipsCheck
  <2>3. Clear
    BY <1>1, <2>2 DEF PluginClear, Terminated
  <2> QED
    BY <2>3 DEF Clear, Fresh
<1>2. [Next]_vars => [phase = "clear" => Fresh']_vars
  BY <1>1
<1> QED
  BY <1>2, PTL DEF Spec, FreshMock

-------------------------------------------------------------------------------
(* Of the expectations that a call fits, one that it fits exactly wins:    *)
(* what the candidates have ticked off of the call, and why none that fits *)
(* exactly is ever dropped (mock_core.c).                                  *)

PassedNames(c) == {c.ins[j][1] : j \in DOMAIN c.ins} \cup {c.outs[j].name : j \in DOMAIN c.outs}

(* The call passes no name twice.                                          *)
Distinct(c) ==
  /\ \A j, k \in DOMAIN c.ins : c.ins[j][1] = c.ins[k][1] => j = k
  /\ \A j, k \in DOMAIN c.outs : c.outs[j].name = c.outs[k].name => j = k

Suits(want, c) == c.object # AnyObject => want.object \in {AnyObject, c.object}

(* The expectation e has ticked off what the call c has passed of it.      *)
Tracks(e, c) ==
  /\ e.marks = PassedNames(c) \cap Names(e.want)
  /\ e.onObject <=> e.want.object = AnyObject \/ c.object # AnyObject
  /\ Suits(e.want, c)

(* The call c can still become one that fits the expectation e exactly.    *)
Viable(e, c) == Takes(e, c) /\ ~e.want.others /\ Suits(e.want, c)

(* A candidate, or what the call has claimed.                              *)
Held(es, c, i) == es[i].cand \/ (c.state = "succeed" /\ i = c.matching)

AllHeld(es, c) ==
  Distinct(c) =>
    \A i \in 1 .. c.known : Viable(es[i], c) /\ es[i].calls < es[i].amount => Held(es, c, i)

HeldTrack(es, c) == \A i \in DOMAIN es : Held(es, c, i) => Tracks(es[i], c)

(* A call is claimed as soon as, and only if, an expectation that ignores  *)
(* no parameters has been met in full.                                     *)
ClaimedIfMet(es, c) ==
  /\ c.state = "open" => c.matching = 0 /\ \A i \in DOMAIN es : ~IsFinal(es[i])
  /\ c.state = "succeed" =>
       /\ c.matching \in DOMAIN es
       /\ ~es[c.matching].cand /\ ~es[c.matching].want.others
       /\ AllMatched(es[c.matching]) /\ es[c.matching].onObject

Tracked(es, c) == ClaimedIfMet(es, c) /\ HeldTrack(es, c) /\ AllHeld(es, c)

Exact(es, c) ==
  c # NoCall => /\ c.known <= Len(es)
                /\ ~c.checked /\ c.state # "failed" /\ c.clean => Tracked(es, c)

-------------------------------------------------------------------------------
(* What the parts of a link leave of an expectation *)

LEMMA SameLength ==
  ASSUME NEW S, NEW es \in Seq(S), NEW fs \in Seq(S), Same(es, fs)
  PROVE  Len(fs) = Len(es)
BY DEF Same

LEMMA KeptExact ==
  ASSUME NEW es \in Seq(ExpType), NEW S, NEW i \in DOMAIN es
  PROVE  /\ Keep(es, S)[i].marks = es[i].marks
         /\ Keep(es, S)[i].onObject = es[i].onObject
<1>1. es[i] \in ExpType
  BY SeqElement
<1>2. Keep(es, S)[i] = [es[i] EXCEPT !.cand = @ /\ i \in S]
  BY DEF Keep
<1> QED
  BY <1>1, <1>2 DEF ExpType

LEMMA MarkedExact ==
  ASSUME NEW es \in Seq(ExpType), NEW n, NEW i \in DOMAIN es
  PROVE  /\ es[i].cand => Mark(es, n)[i].marks = es[i].marks \cup ({n} \cap Names(es[i].want))
         /\ Mark(es, n)[i].onObject = es[i].onObject
<1>1. es[i] \in ExpType
  BY SeqElement
<1>2. CASE es[i].cand /\ n \in Names(es[i].want)
  <2>1. Mark(es, n)[i] = [es[i] EXCEPT !.marks = @ \cup {n}]
    BY <1>2 DEF Mark
  <2>2. {n} \cap Names(es[i].want) = {n}
    BY <1>2
  <2> QED
    BY <1>1, <2>1, <2>2 DEF ExpType
<1>3. CASE ~(es[i].cand /\ n \in Names(es[i].want))
  <2>1. Mark(es, n)[i] = es[i]
    BY <1>3 DEF Mark
  <2>2. es[i].cand => {n} \cap Names(es[i].want) = {}
    BY <1>3
  <2> QED
    BY <2>1, <2>2
<1> QED
  BY <1>2, <1>3

LEMMA ReopenedExact ==
  ASSUME NEW es \in Seq(ExpType), NEW c, NEW i \in DOMAIN es
  PROVE  /\ i # c.matching /\ ~IsFinal(es[i]) => Reopened(es, c)[i] = es[i]
         /\ i # c.matching /\ IsFinal(es[i]) => ~Reopened(es, c)[i].cand
<1> DEFINE e == [es[i] EXCEPT !.cand = FALSE]
<1>1. es[i] \in ExpType
  BY SeqElement
<1>2. e \in ExpType /\ ~e.cand
  BY <1>1, CandField
<1>3. i # c.matching => Reopened(es, c)[i] = IF IsFinal(es[i]) THEN Reset(e) ELSE es[i]
  BY DEF Reopened
<1> HIDE DEF e
<1>4. ~Reset(e).cand
  BY <1>2, ResetFields
<1> QED
  BY <1>3, <1>4

LEMMA UnclaimedExact ==
  ASSUME NEW es \in Seq(ExpType), NEW m \in DOMAIN es
  PROVE  LET fs == [es EXCEPT ![m].cand = FALSE]
         IN  /\ fs \in Seq(ExpType) /\ DOMAIN fs = DOMAIN es /\ Len(fs) = Len(es)
             /\ \A i \in DOMAIN es : i # m => fs[i] = es[i]
             /\ ~fs[m].cand /\ fs[m].want = es[m].want /\ fs[m].marks = es[m].marks
             /\ fs[m].onObject = es[m].onObject
             /\ fs[m].calls = es[m].calls /\ fs[m].amount = es[m].amount
<1> DEFINE e == [es[m] EXCEPT !.cand = FALSE]
           fs == [es EXCEPT ![m] = e]
<1>1. es[m] \in ExpType
  BY SeqElement
<1>2. /\ e \in ExpType /\ ~e.cand /\ e.want = es[m].want /\ e.marks = es[m].marks
      /\ e.onObject = es[m].onObject /\ e.calls = es[m].calls /\ e.amount = es[m].amount
  BY <1>1, CandField
<1>3. [es EXCEPT ![m].cand = FALSE] = fs
  OBVIOUS
<1> HIDE DEF e
<1>4. /\ fs \in Seq(ExpType) /\ DOMAIN fs = DOMAIN es /\ Len(fs) = Len(es)
      /\ fs[m] = e
      /\ \A i \in DOMAIN es : i # m => fs[i] = es[i]
  BY <1>2, ReplacedAt
<1> QED
  BY <1>2, <1>3, <1>4

(* Calls that pass the same, on the same object, are tracked alike.        *)
LEMMA SameCall ==
  ASSUME NEW c, NEW d, SamePassed(c, d), d.object = c.object
  PROVE  /\ PassedNames(d) = PassedNames(c)
         /\ Distinct(d) <=> Distinct(c)
         /\ \A e : Viable(e, d) <=> Viable(e, c)
         /\ \A e : Tracks(e, d) <=> Tracks(e, c)
<1>1. PassedNames(d) = PassedNames(c)
  BY DEF SamePassed, PassedNames
<1>2. Distinct(d) <=> Distinct(c)
  BY DEF SamePassed, Distinct
<1>3. ASSUME NEW e PROVE Takes(e, d) <=> Takes(e, c)
  BY TakesSame
<1>4. ASSUME NEW w PROVE Suits(w, d) <=> Suits(w, c)
  BY DEF Suits
<1> QED
  BY <1>1, <1>2, <1>3, <1>4 DEF Viable, Tracks

(* Of an expectation, these are what tracking is about.                    *)
LEMMA SameExp ==
  ASSUME NEW e, NEW f, NEW c, f.want = e.want
  PROVE  /\ Viable(f, c) <=> Viable(e, c)
         /\ f.marks = e.marks /\ f.onObject = e.onObject => (Tracks(f, c) <=> Tracks(e, c))
BY DEF Viable, Tracks, Takes

LEMMA CopyKeeps ==
  ASSUME NEW es, NEW c \in CallType, NEW i \in Nat
  PROVE  LET d == CopyOutputs(es, c, i).call
         IN  d.object = c.object /\ d.known = c.known /\ d.clean = c.clean
BY DEF CopyOutputs, Step, FailedStep, CallType

LEMMA FailedKeeps ==
  ASSUME NEW es, NEW c \in CallType
  PROVE  LET r == FailedStep(es, c)
         IN  /\ r.exps = es /\ r.call.state = "failed"
             /\ r.call.object = c.object /\ r.call.known = c.known /\ r.call.clean = c.clean
             /\ r.call \in CallType
BY DEF FailedStep, Step, CallType

-------------------------------------------------------------------------------
(* A link of the call chain *)

(* Before a link completes the call, nothing is claimed.                   *)
OpenTracked(es, c) ==
  /\ c.matching = 0
  /\ \A i \in DOMAIN es : es[i].cand => Tracks(es[i], c)
  /\ Distinct(c) =>
       \A i \in 1 .. c.known : Viable(es[i], c) /\ es[i].calls < es[i].amount => es[i].cand

(* What a link makes of a call, as far as tracking is concerned; ok says   *)
(* that the call is tracked so far.                                        *)
LinkExact(ok, c, r) ==
  /\ r.call \in CallType /\ r.call.known = c.known /\ r.call.clean = c.clean
  /\ ok /\ r.call.state # "failed" => Tracked(r.exps, r.call)

LEMMA FailedExact ==
  ASSUME NEW ok, NEW es, NEW c \in CallType
  PROVE  LinkExact(ok, c, FailedStep(es, c))
BY FailedKeeps DEF LinkExact

LEMMA CompleteExact ==
  ASSUME NEW ok, NEW es \in Seq(ExpType), NEW c \in CallType, c.state = "open", c.known <= Len(es),
         ok => OpenTracked(es, c)
  PROVE  LinkExact(ok, c, Complete(es, c))
<1> DEFINE finals == {i \in DOMAIN es : IsFinal(es[i])}
           matches == {i \in DOMAIN es : IsMatching(es[i])}
           r == Complete(es, c)
<1>0. 1 .. c.known \subseteq DOMAIN es
  BY CallFields
<1>1. CASE First(finals) # 0
  <2> DEFINE m == First(finals)
             fs == [es EXCEPT ![m].cand = FALSE]
             d == [c EXCEPT !.matching = m, !.state = "succeed"]
  <2>1. m \in finals
    BY <1>1, FirstWhere
  <2>2. m \in DOMAIN es /\ IsFinal(es[m]) /\ m \in Nat
    BY <2>1, SeqElement
  <2>3. r = CopyOutputs(fs, d, m)
    BY <1>1 DEF Complete
  <2> HIDE DEF m
  <2>4. /\ fs \in Seq(ExpType) /\ DOMAIN fs = DOMAIN es /\ Len(fs) = Len(es)
        /\ \A i \in DOMAIN es : i # m => fs[i] = es[i]
        /\ ~fs[m].cand /\ fs[m].want = es[m].want /\ fs[m].marks = es[m].marks
        /\ fs[m].onObject = es[m].onObject
        /\ fs[m].calls = es[m].calls /\ fs[m].amount = es[m].amount
    BY <2>2, UnclaimedExact
  <2>5. /\ d \in CallType /\ d.outs = c.outs /\ d.fn = c.fn /\ d.ins = c.ins
        /\ d.state = "succeed" /\ d.matching = m
        /\ d.object = c.object /\ d.known = c.known /\ d.clean = c.clean
    BY <2>2 DEF CallType
  <2> HIDE DEF d, fs, r
  <2>6. /\ r.exps = fs /\ r.call \in CallType /\ SamePassed(d, r.call) /\ r.call.matching = m
        /\ r.call.state # "failed" => r.call.state = "succeed"
        /\ r.call.object = c.object /\ r.call.known = c.known /\ r.call.clean = c.clean
    BY <2>2, <2>3, <2>5, CopyStep, CopyKeeps
  <2>7. SamePassed(c, r.call)
    BY <2>5, <2>6 DEF SamePassed
  <2>8. ASSUME r.call.state = "succeed", ok PROVE Tracked(fs, r.call)
    <3>0. OpenTracked(es, c)
      BY <2>8
    <3>1. es[m].cand /\ AllMatched(es[m]) /\ es[m].onObject /\ ~es[m].want.others
      BY <2>2 DEF IsFinal, IsMatching
    <3>2. ClaimedIfMet(fs, r.call)
      BY <2>2, <2>4, <2>6, <2>8, <3>1 DEF ClaimedIfMet, AllMatched
    <3>3. ASSUME NEW i \in DOMAIN es, Held(fs, r.call, i) PROVE Tracks(fs[i], r.call)
      <4>1. es[i].cand
        BY <2>4, <2>6, <3>1, <3>3 DEF Held
      <4>2. Tracks(es[i], c)
        BY <3>0, <4>1 DEF OpenTracked
      <4>3. Tracks(es[i], r.call)
        BY <2>6, <2>7, <4>2, SameCall
      <4>4. fs[i].want = es[i].want /\ fs[i].marks = es[i].marks /\ fs[i].onObject = es[i].onObject
        BY <2>4
      <4> QED
        BY <4>3, <4>4, SameExp
    <3>4. ASSUME Distinct(r.call), NEW i \in 1 .. r.call.known, Viable(fs[i], r.call),
                 fs[i].calls < fs[i].amount
          PROVE  Held(fs, r.call, i)
      <4>1. i \in DOMAIN es /\ i \in 1 .. c.known
        BY <1>0, <2>6
      <4>2. fs[i].want = es[i].want /\ fs[i].calls = es[i].calls /\ fs[i].amount = es[i].amount
        BY <2>4, <4>1
      <4>3. Viable(es[i], r.call)
        BY <3>4, <4>2, SameExp
      <4>4. Viable(es[i], c) /\ Distinct(c)
        BY <2>6, <2>7, <3>4, <4>3, SameCall
      <4>5. es[i].cand
        BY <3>0, <3>4, <4>1, <4>2, <4>4 DEF OpenTracked
      <4> QED
        BY <2>4, <2>6, <2>8, <4>1, <4>5 DEF Held
    <3> QED
      BY <2>4, <3>2, <3>3, <3>4 DEF Tracked, HeldTrack, AllHeld
  <2> QED
    BY <2>6, <2>8 DEF LinkExact, r
<1>2. CASE First(finals) = 0
  <2>1. \A i \in DOMAIN es : ~IsFinal(es[i])
    <3>1. 0 \notin finals
      BY SeqElement
    <3>2. finals = {}
      BY <1>2, <3>1, FirstWhere
    <3> QED
      BY <3>2
  <2>2. ASSUME ok, NEW d \in CallType, SamePassed(c, d), d.object = c.object,
               d.known = c.known, d.matching = c.matching, d.state = "open"
        PROVE  Tracked(es, d)
    <3>0. OpenTracked(es, c)
      BY <2>2
    <3>1. \A i \in DOMAIN es : Held(es, d, i) => es[i].cand
      BY <2>2 DEF Held
    <3>2. HeldTrack(es, d)
      BY <2>2, <3>0, <3>1, SameCall DEF HeldTrack, OpenTracked
    <3>3. AllHeld(es, d)
      BY <2>2, <3>0, SameCall DEF AllHeld, OpenTracked, Held
    <3> QED
      BY <2>1, <2>2, <3>0, <3>2, <3>3 DEF Tracked, ClaimedIfMet, OpenTracked
  <2>4. CASE First(matches) # 0
    <3> DEFINE m == First(matches)
    <3>1. m \in matches
      BY <2>4, FirstWhere
    <3>2. m \in Nat
      BY <3>1, SeqElement
    <3>3. r = CopyOutputs(es, c, m)
      BY <1>2, <2>4 DEF Complete
    <3> HIDE DEF m, r
    <3>4. /\ r.exps = es /\ r.call \in CallType /\ SamePassed(c, r.call)
          /\ r.call.matching = c.matching
          /\ r.call.state # "failed" => r.call.state = "open"
          /\ r.call.object = c.object /\ r.call.known = c.known /\ r.call.clean = c.clean
      BY <3>2, <3>3, CopyStep, CopyKeeps
    <3> QED
      BY <2>2, <3>4 DEF LinkExact, r
  <2>5. CASE First(matches) = 0
    <3>1. r.exps = es /\ r.call = c
      BY <1>2, <2>5 DEF Complete, Step
    <3>2. SamePassed(c, c)
      BY DEF SamePassed
    <3> HIDE DEF r
    <3> QED
      BY <2>2, <3>1, <3>2 DEF LinkExact, r
  <2> QED
    BY <2>4, <2>5
<1> QED
  BY <1>1, <1>2

(* The call d passes one name more than c.  What cannot take it is kept    *)
(* out, what was claimed or met without it is given up.                    *)
LEMMA ReopenedTracked ==
  ASSUME NEW es \in Seq(ExpType), NEW c \in CallType, c.state # "failed", c.known <= Len(es),
         Tracked(es, c),
         NEW n, NEW S, NEW d \in CallType,
         d.matching = 0, d.object = c.object, d.known = c.known,
         PassedNames(d) = PassedNames(c) \cup {n},
         Distinct(d) => Distinct(c) /\ n \notin PassedNames(c),
         \A i \in DOMAIN es : Viable(es[i], d) => Viable(es[i], c) /\ i \in S /\ n \in Names(es[i].want)
  PROVE  OpenTracked(Mark(Keep(Reopened(es, c), S), n), d)
<1> DEFINE fs == Reopened(es, c)
           kept == Keep(fs, S)
           gs == Mark(kept, n)
<1>1. fs \in Seq(ExpType) /\ Same(es, fs) /\ \A i \in DOMAIN es : fs[i].cand => es[i].cand
  BY ReopenedFields
<1>2. /\ kept \in Seq(ExpType) /\ Same(fs, kept)
      /\ \A i \in DOMAIN fs : kept[i].cand <=> fs[i].cand /\ i \in S
  BY <1>1, KeptFields
<1>3. /\ gs \in Seq(ExpType) /\ Same(kept, gs)
      /\ \A i \in DOMAIN kept : gs[i].cand = kept[i].cand
  BY <1>2, MarkedFields
<1>4. ASSUME NEW i \in DOMAIN es
      PROVE  /\ gs[i].want = es[i].want /\ gs[i].calls = es[i].calls /\ gs[i].amount = es[i].amount
             /\ gs[i].cand <=> fs[i].cand /\ i \in S
             /\ gs[i].cand => gs[i].marks = fs[i].marks \cup ({n} \cap Names(es[i].want))
             /\ gs[i].onObject = fs[i].onObject
  <2>1. i \in DOMAIN fs /\ i \in DOMAIN kept
    BY <1>1, <1>2 DEF Same
  <2>2. /\ gs[i].want = kept[i].want /\ kept[i].want = fs[i].want /\ fs[i].want = es[i].want
        /\ gs[i].calls = kept[i].calls /\ kept[i].calls = fs[i].calls /\ fs[i].calls = es[i].calls
        /\ gs[i].amount = kept[i].amount /\ kept[i].amount = fs[i].amount
        /\ fs[i].amount = es[i].amount
    BY <1>1, <1>2, <1>3, <2>1 DEF Same
  <2>3. gs[i].cand = kept[i].cand /\ (kept[i].cand <=> fs[i].cand /\ i \in S)
    BY <1>2, <1>3, <2>1
  <2>4. kept[i].marks = fs[i].marks /\ kept[i].onObject = fs[i].onObject
    BY <1>1, <2>1, KeptExact
  <2>5. /\ kept[i].cand => gs[i].marks = kept[i].marks \cup ({n} \cap Names(kept[i].want))
        /\ gs[i].onObject = kept[i].onObject
    BY <1>2, <2>1, MarkedExact
  <2> HIDE DEF gs, kept, fs
  <2> QED
    BY <2>2, <2>3, <2>4, <2>5
<1>5. ASSUME NEW i \in DOMAIN es
      PROVE  /\ i # c.matching /\ ~IsFinal(es[i]) => fs[i] = es[i]
             /\ i # c.matching /\ IsFinal(es[i]) => ~fs[i].cand
  BY ReopenedExact
<1>6. DOMAIN gs = DOMAIN es
  BY <1>1, <1>2, <1>3 DEF Same
<1> HIDE DEF gs, kept, fs
<1>7. c.state \in {"open", "succeed"}
  BY CallFields
<1>8. ASSUME NEW i \in DOMAIN es, es[i].cand PROVE i # c.matching /\ Tracks(es[i], c)
  <2>1. i # 0
    BY SeqElement
  <2> QED
    BY <1>7, <1>8, <2>1 DEF Tracked, ClaimedIfMet, HeldTrack, Held
<1>9. ASSUME NEW i \in DOMAIN es, gs[i].cand PROVE Tracks(gs[i], d)
  <2>1. fs[i].cand /\ es[i].cand
    BY <1>1, <1>4, <1>9
  <2>2. i # c.matching /\ Tracks(es[i], c)
    BY <1>8, <2>1
  <2>3. fs[i] = es[i]
    BY <1>5, <2>1, <2>2
  <2>4. gs[i].marks = PassedNames(d) \cap Names(gs[i].want)
    BY <1>4, <1>9, <2>2, <2>3 DEF Tracks
  <2> QED
    BY <1>4, <2>2, <2>3, <2>4 DEF Tracks, Suits
<1>10. ASSUME Distinct(d), NEW i \in 1 .. d.known, Viable(gs[i], d), gs[i].calls < gs[i].amount
       PROVE  gs[i].cand
  <2>1. i \in DOMAIN es /\ i \in 1 .. c.known
    BY <1>10, CallFields
  <2>2. Viable(es[i], d) /\ es[i].calls < es[i].amount
    BY <1>4, <1>10, <2>1, SameExp
  <2>3. Viable(es[i], c) /\ i \in S /\ n \in Names(es[i].want)
    BY <2>1, <2>2
  <2>4. Held(es, c, i)
    BY <1>10, <2>1, <2>2, <2>3 DEF Tracked, AllHeld
  <2>5. Tracks(es[i], c)
    BY <2>1, <2>4 DEF Tracked, HeldTrack
  <2>6. ~AllMatched(es[i])
    BY <1>10, <2>3, <2>5 DEF Tracks, AllMatched
  <2>7. es[i].cand
    BY <2>4, <2>6 DEF Held, Tracked, ClaimedIfMet
  <2>8. i # c.matching /\ ~IsFinal(es[i])
    BY <1>8, <2>1, <2>6, <2>7 DEF IsFinal, IsMatching
  <2> QED
    BY <1>4, <1>5, <2>1, <2>3, <2>7, <2>8
<1>11. OpenTracked(gs, d)
  BY <1>6, <1>9, <1>10 DEF OpenTracked
<1> QED
  BY <1>11 DEF gs, kept, fs

LEMMA NarrowedExact ==
  ASSUME NEW ok, NEW es \in Seq(ExpType), NEW c \in CallType, c.state = "open", c.known <= Len(es),
         NEW S, NEW n,
         ok => OpenTracked(Mark(Keep(es, S), n), c)
  PROVE  LinkExact(ok, c, Narrowed(es, c, S, n))
<1> DEFINE kept == Keep(es, S)
           marked == Mark(kept, n)
<1>1. kept \in Seq(ExpType) /\ Same(es, kept)
  BY KeptFields
<1>2. marked \in Seq(ExpType) /\ Same(kept, marked)
  BY <1>1, MarkedFields
<1>3. Narrowed(es, c, S, n) = IF Candidates(kept) = {} THEN FailedStep(kept, c)
                              ELSE Complete(marked, c)
  BY DEF Narrowed
<1>4. ok => OpenTracked(marked, c)
  OBVIOUS
<1> HIDE DEF kept, marked
<1>5. Len(marked) = Len(es)
  BY <1>1, <1>2, SameLength
<1>6. LinkExact(ok, c, Complete(marked, c))
  BY <1>2, <1>4, <1>5, CompleteExact
<1>7. LinkExact(ok, c, FailedStep(kept, c))
  BY FailedExact
<1> QED
  BY <1>3, <1>6, <1>7

LEMMA PassedExact ==
  ASSUME NEW ok, NEW es \in Seq(ExpType), NEW c \in CallType, c.state # "failed", c.known <= Len(es),
         ok => Tracked(es, c), NEW p \in Inputs
  PROVE  LinkExact(ok, c, Passed(es, c, p))
<1> DEFINE fs == Reopened(es, c)
           d == [c EXCEPT !.state = "open", !.matching = 0, !.ins = Append(@, p)]
           S == {i \in DOMAIN es : Accepts(es[i].want, p)}
           n == p[1]
<1>1. fs \in Seq(ExpType) /\ Same(es, fs)
  BY ReopenedFields
<1>2. Len(fs) = Len(es)
  BY <1>1, SameLength
<1>3. c.ins \in Seq(Inputs)
  BY CallFields
<1> DEFINE k == Len(c.ins) + 1
<1>4. /\ Append(c.ins, p) \in Seq(Inputs)
      /\ DOMAIN Append(c.ins, p) = DOMAIN c.ins \cup {k} /\ k \notin DOMAIN c.ins
      /\ \A j \in DOMAIN c.ins : Append(c.ins, p)[j] = c.ins[j]
      /\ Append(c.ins, p)[k] = p
  BY <1>3, Appended
<1>5. /\ d \in CallType /\ d.state = "open" /\ d.matching = 0 /\ d.fn = c.fn /\ d.outs = c.outs
      /\ d.ins = Append(c.ins, p)
      /\ d.object = c.object /\ d.known = c.known /\ d.clean = c.clean
  BY <1>4 DEF CallType
<1>6. Passed(es, c, p) = Narrowed(fs, d, S, n)
  BY DEF Passed
<1> HIDE DEF fs, d, k
<1>7. PassedNames(d) = PassedNames(c) \cup {n}
  <2>1. {d.ins[j][1] : j \in DOMAIN d.ins} = {c.ins[j][1] : j \in DOMAIN c.ins} \cup {n}
    BY <1>4, <1>5
  <2> QED
    BY <1>5, <2>1 DEF PassedNames
<1>8. ASSUME Distinct(d) PROVE Distinct(c) /\ n \notin PassedNames(c)
  <2>1. Distinct(c)
    BY <1>4, <1>5, <1>8 DEF Distinct
  <2>2. \A j \in DOMAIN c.ins : c.ins[j][1] # n
    BY <1>4, <1>5, <1>8 DEF Distinct
  <2>3. \A j \in DOMAIN c.outs : c.outs[j].name \in OutNames
    <3>1. c.outs \in Seq(OutType)
      BY CallFields
    <3>2. \A j \in DOMAIN c.outs : c.outs[j] \in OutType
      BY <3>1, SeqElement
    <3> QED
      BY <3>2 DEF OutType
  <2>4. n \notin OutNames
    BY WantsAssumption DEF InNames
  <2> QED
    BY <2>1, <2>2, <2>3, <2>4 DEF PassedNames
<1>9. ASSUME NEW i \in DOMAIN es, Viable(es[i], d)
      PROVE  Viable(es[i], c) /\ i \in S /\ n \in Names(es[i].want)
  <2>1. Accepts(es[i].want, d.ins[k])
    BY <1>4, <1>5, <1>9 DEF Viable, Takes
  <2>2. Accepts(es[i].want, p) /\ ~es[i].want.others
    BY <1>4, <1>5, <1>9, <2>1 DEF Viable
  <2>3. n \in DOMAIN es[i].want.in
    BY <2>2 DEF Accepts
  <2>4. \A j \in DOMAIN c.ins : Accepts(es[i].want, c.ins[j])
    BY <1>4, <1>5, <1>9 DEF Viable, Takes
  <2>5. Viable(es[i], c)
    BY <1>5, <1>9, <2>4 DEF Viable, Takes, Suits
  <2> QED
    BY <2>2, <2>3, <2>5 DEF Names
<1>10. ok => OpenTracked(Mark(Keep(fs, S), n), d)
  BY <1>5, <1>7, <1>8, <1>9, ReopenedTracked DEF fs
<1>11. LinkExact(ok, d, Narrowed(fs, d, S, n))
  BY <1>1, <1>2, <1>5, <1>10, NarrowedExact
<1> QED
  BY <1>5, <1>6, <1>11 DEF LinkExact

LEMMA PassedOutExact ==
  ASSUME NEW ok, NEW es \in Seq(ExpType), NEW c \in CallType, c.state # "failed", c.known <= Len(es),
         ok => Tracked(es, c), NEW p \in Outputs
  PROVE  LinkExact(ok, c, PassedOut(es, c, p))
<1> DEFINE fs == Reopened(es, c)
           o == [name |-> p[1], type |-> p[2], from |-> 0]
           d == [c EXCEPT !.state = "open", !.matching = 0, !.outs = Append(@, o)]
           S == {i \in DOMAIN es : AcceptsOut(es[i].want, p)}
           n == p[1]
<1>1. fs \in Seq(ExpType) /\ Same(es, fs)
  BY ReopenedFields
<1>2. Len(fs) = Len(es)
  BY <1>1, SameLength
<1>3. c.outs \in Seq(OutType) /\ o \in OutType /\ o.name = p[1] /\ o.type = p[2]
  BY CallFields DEF OutType, OutNames
<1>4. PassedOut(es, c, p) = Narrowed(fs, d, S, n)
  BY DEF PassedOut
<1> HIDE DEF o
<1> DEFINE k == Len(c.outs) + 1
<1>5. /\ Append(c.outs, o) \in Seq(OutType)
      /\ DOMAIN Append(c.outs, o) = DOMAIN c.outs \cup {k} /\ k \notin DOMAIN c.outs
      /\ \A j \in DOMAIN c.outs : Append(c.outs, o)[j] = c.outs[j]
      /\ Append(c.outs, o)[k] = o
  BY <1>3, Appended
<1>6. /\ d \in CallType /\ d.state = "open" /\ d.matching = 0 /\ d.fn = c.fn /\ d.ins = c.ins
      /\ d.outs = Append(c.outs, o)
      /\ d.object = c.object /\ d.known = c.known /\ d.clean = c.clean
  BY <1>5 DEF CallType, OutType
<1> HIDE DEF fs, d, k
<1>7. PassedNames(d) = PassedNames(c) \cup {n}
  <2>1. {d.outs[j].name : j \in DOMAIN d.outs} = {c.outs[j].name : j \in DOMAIN c.outs} \cup {n}
    BY <1>3, <1>5, <1>6
  <2> QED
    BY <1>6, <2>1 DEF PassedNames
<1>8. ASSUME Distinct(d) PROVE Distinct(c) /\ n \notin PassedNames(c)
  <2>1. Distinct(c)
    BY <1>5, <1>6, <1>8 DEF Distinct
  <2>2. \A j \in DOMAIN c.outs : c.outs[j].name # n
    BY <1>3, <1>5, <1>6, <1>8 DEF Distinct
  <2>3. \A j \in DOMAIN c.ins : c.ins[j][1] \in InNames
    <3>1. c.ins \in Seq(Inputs)
      BY CallFields
    <3>2. \A j \in DOMAIN c.ins : c.ins[j] \in Inputs
      BY <3>1, SeqElement
    <3> QED
      BY <3>2 DEF InNames
  <2>4. n \notin InNames
    BY WantsAssumption DEF OutNames
  <2> QED
    BY <2>1, <2>2, <2>3, <2>4 DEF PassedNames
<1>9. ASSUME NEW i \in DOMAIN es, Viable(es[i], d)
      PROVE  Viable(es[i], c) /\ i \in S /\ n \in Names(es[i].want)
  <2>1. AcceptsOut(es[i].want, <<d.outs[k].name, d.outs[k].type>>)
    BY <1>5, <1>6, <1>9 DEF Viable, Takes
  <2>2. AcceptsOut(es[i].want, p) /\ ~es[i].want.others
    BY <1>3, <1>5, <1>6, <1>9, <2>1 DEF Viable, AcceptsOut
  <2>3. n \in DOMAIN es[i].want.out
    BY <2>2 DEF AcceptsOut
  <2>4. \A j \in DOMAIN c.outs : AcceptsOut(es[i].want, <<c.outs[j].name, c.outs[j].type>>)
    BY <1>5, <1>6, <1>9 DEF Viable, Takes
  <2>5. Viable(es[i], c)
    BY <1>6, <1>9, <2>4 DEF Viable, Takes, Suits
  <2> QED
    BY <2>2, <2>3, <2>5 DEF Names
<1>10. ok => OpenTracked(Mark(Keep(fs, S), n), d)
  BY <1>6, <1>7, <1>8, <1>9, ReopenedTracked DEF fs
<1>11. LinkExact(ok, d, Narrowed(fs, d, S, n))
  BY <1>1, <1>2, <1>6, <1>10, NarrowedExact
<1> QED
  BY <1>4, <1>6, <1>11 DEF LinkExact

(* What the candidates have ticked off is not touched; those that accept   *)
(* the object are told of it.                                              *)
LEMMA PassedObjectExact ==
  ASSUME NEW ok, NEW es \in Seq(ExpType), NEW c \in CallType, c.state # "failed", c.known <= Len(es),
         c.object = AnyObject, ok => Tracked(es, c), NEW o \in Objects
  PROVE  LinkExact(ok, c, PassedObject(es, c, o))
<1> DEFINE on == [c EXCEPT !.object = o]
           S == {i \in DOMAIN es : AcceptsObject(es[i].want, o)}
           kept == Keep(es, S)
           told == [i \in DOMAIN es |-> [kept[i] EXCEPT !.onObject = @ \/ kept[i].cand]]
           r == PassedObject(es, c, o)
<1>1. /\ kept \in Seq(ExpType) /\ Same(es, kept)
      /\ \A i \in DOMAIN es : kept[i].cand <=> es[i].cand /\ i \in S
  BY KeptFields
<1>2. \A i \in DOMAIN es : kept[i].marks = es[i].marks /\ kept[i].onObject = es[i].onObject
  BY KeptExact
<1>3. r = IF c.state = "succeed" THEN Step(told, on, FALSE)
          ELSE IF Candidates(kept) = {} THEN FailedStep(kept, on)
          ELSE Complete(told, on)
  BY DEF PassedObject
<1>4. told = [i \in DOMAIN es |-> told[i]]
  OBVIOUS
<1>5. ASSUME NEW i \in DOMAIN es
      PROVE  /\ told[i] \in ExpType /\ told[i].cand = kept[i].cand /\ told[i].marks = kept[i].marks
             /\ told[i].want = kept[i].want /\ told[i].amount = kept[i].amount
             /\ told[i].calls = kept[i].calls
             /\ told[i].onObject <=> kept[i].onObject \/ kept[i].cand
  <2> DEFINE b == kept[i].onObject \/ kept[i].cand
  <2>1. kept[i] \in ExpType
    BY <1>1, SeqElement DEF Same
  <2>2. b \in BOOLEAN
    OBVIOUS
  <2>3. told[i] = [kept[i] EXCEPT !.onObject = b]
    OBVIOUS
  <2> HIDE DEF b, told, kept
  <2>4. /\ told[i] \in ExpType /\ told[i].cand = kept[i].cand /\ told[i].marks = kept[i].marks
        /\ told[i].want = kept[i].want /\ told[i].amount = kept[i].amount
        /\ told[i].calls = kept[i].calls /\ told[i].onObject = b
    BY <2>1, <2>2, <2>3 DEF ExpType
  <2> QED
    BY <2>4 DEF b
<1>6. /\ on \in CallType /\ on.state = c.state /\ on.fn = c.fn /\ on.ins = c.ins /\ on.outs = c.outs
      /\ on.matching = c.matching /\ on.object = o /\ on.known = c.known /\ on.clean = c.clean
  BY DEF CallType
<1> HIDE DEF on, kept, told, r
<1>7. told \in Seq(ExpType) /\ DOMAIN told = DOMAIN es
  BY <1>4, <1>5, MappedType
<1>8. Len(told) = Len(es)
  BY <1>7
<1>9. o # AnyObject
  BY WantsAssumption
<1>10. ASSUME NEW i \in DOMAIN es
       PROVE  /\ told[i].want = es[i].want /\ told[i].marks = es[i].marks
              /\ told[i].calls = es[i].calls /\ told[i].amount = es[i].amount
              /\ told[i].cand <=> es[i].cand /\ es[i].want.object \in {AnyObject, o}
              /\ told[i].onObject <=> es[i].onObject \/ told[i].cand
  <2>1. /\ kept[i].want = es[i].want /\ kept[i].calls = es[i].calls
        /\ kept[i].amount = es[i].amount
    BY <1>1 DEF Same
  <2>2. kept[i].cand <=> es[i].cand /\ es[i].want.object \in {AnyObject, o}
    BY <1>1 DEF AcceptsObject
  <2> QED
    BY <1>2, <1>5, <2>1, <2>2
<1>11. PassedNames(on) = PassedNames(c) /\ (Distinct(on) <=> Distinct(c))
  BY <1>6 DEF PassedNames, Distinct
<1>12. ASSUME NEW i \in DOMAIN es, told[i].cand, ok PROVE Tracks(told[i], on)
  <2>1. Tracks(es[i], c)
    BY <1>10, <1>12 DEF Tracked, HeldTrack, Held
  <2> QED
    BY <1>6, <1>9, <1>10, <1>11, <1>12, <2>1 DEF Tracks, Suits
<1>13. ASSUME ok, Distinct(on), NEW i \in 1 .. on.known, Viable(told[i], on),
              told[i].calls < told[i].amount
       PROVE  /\ i \in DOMAIN es /\ Held(es, c, i)
              /\ es[i].cand => told[i].cand
  <2>1. i \in DOMAIN es /\ i \in 1 .. c.known
    BY <1>6, <1>13, CallFields
  <2>2. Viable(es[i], on)
    BY <1>10, <1>13, <2>1, SameExp
  <2>3. Viable(es[i], c) /\ es[i].want.object \in {AnyObject, o}
    BY <1>6, <1>9, <2>2 DEF Viable, Takes, Suits
  <2> QED
    BY <1>10, <1>11, <1>13, <2>1, <2>3 DEF Tracked, AllHeld
<1>14. CASE c.state = "succeed"
  <2>1. r.exps = told /\ r.call = on
    BY <1>3, <1>14 DEF Step
  <2>2. ASSUME ok PROVE Tracked(told, on)
    <3> DEFINE m == c.matching
    <3>1. /\ m \in DOMAIN es /\ ~es[m].cand /\ ~es[m].want.others
          /\ AllMatched(es[m]) /\ es[m].onObject
      BY <1>14, <2>2 DEF Tracked, ClaimedIfMet
    <3>2. Tracks(es[m], c)
      BY <1>14, <2>2, <3>1 DEF Tracked, HeldTrack, Held
    <3>3. es[m].want.object = AnyObject
      BY <3>1, <3>2 DEF Tracks
    <3>4. ~told[m].cand /\ told[m].onObject
      BY <1>10, <3>1
    <3>5. ClaimedIfMet(told, on)
      BY <1>6, <1>7, <1>10, <1>14, <3>1, <3>4 DEF ClaimedIfMet, AllMatched
    <3>6. Tracks(told[m], on)
      BY <1>6, <1>9, <1>10, <1>11, <3>1, <3>2, <3>3, <3>4 DEF Tracks, Suits
    <3>7. HeldTrack(told, on)
      BY <1>6, <1>7, <1>12, <2>2, <3>6 DEF HeldTrack, Held
    <3>8. AllHeld(told, on)
      BY <1>6, <1>13, <2>2 DEF AllHeld, Held
    <3> QED
      BY <3>5, <3>7, <3>8 DEF Tracked
  <2> QED
    BY <1>6, <2>1, <2>2 DEF LinkExact, r
<1>15. CASE c.state # "succeed"
  <2>1. c.state = "open"
    BY <1>15, CallFields
  <2>2. ASSUME ok PROVE OpenTracked(told, on)
    <3>1. on.matching = 0
      BY <1>6, <2>1, <2>2 DEF Tracked, ClaimedIfMet
    <3>2. \A i \in DOMAIN es : Held(es, c, i) => es[i].cand
      BY <2>1 DEF Held
    <3> QED
      BY <1>7, <1>12, <1>13, <2>2, <3>1, <3>2 DEF OpenTracked
  <2>3. LinkExact(ok, on, Complete(told, on))
    BY <1>6, <1>7, <1>8, <2>1, <2>2, CompleteExact
  <2>4. LinkExact(ok, on, FailedStep(kept, on))
    BY <1>6, FailedExact
  <2>5. LinkExact(ok, on, r)
    BY <1>3, <1>15, <2>3, <2>4
  <2> QED
    BY <1>6, <2>5 DEF LinkExact, r
<1> QED
  BY <1>14, <1>15

(* A renamed call is not claimed to be tracked: it keeps what it had       *)
(* claimed before.                                                         *)
LEMMA RenamedExact ==
  ASSUME NEW es \in Seq(ExpType), NEW c \in CallType, c.known <= Len(es), NEW fn \in Functions
  PROVE  LET r == Renamed(es, c, fn)
         IN  r.call \in CallType /\ r.call.known = c.known /\ ~r.call.clean
<1> DEFINE kept == Keep(es, {i \in DOMAIN es : es[i].want.fn = fn})
           open == [c EXCEPT !.fn = fn, !.state = "open", !.clean = FALSE]
<1>1. Renamed(es, c, fn) = IF Candidates(kept) = {} THEN FailedStep(kept, open) ELSE Complete(kept, open)
  BY DEF Renamed
<1>2. kept \in Seq(ExpType) /\ Same(es, kept)
  BY KeptFields
<1>3. open \in CallType /\ open.state = "open" /\ open.known = c.known /\ open.clean = FALSE
  BY DEF CallType
<1> HIDE DEF kept, open
<1>4. Len(kept) = Len(es)
  BY <1>2, SameLength
<1>5. LinkExact(FALSE, open, Complete(kept, open))
  BY <1>2, <1>3, <1>4, CompleteExact
<1>6. LinkExact(FALSE, open, FailedStep(kept, open))
  BY <1>3, FailedExact
<1> QED
  BY <1>1, <1>3, <1>5, <1>6 DEF LinkExact

(* When no mark of an earlier call is left, the unfulfilled expectations   *)
(* of its name track a new call.                                           *)
LEMMA BegunExact ==
  ASSUME NEW es \in Seq(ExpType), NEW fn \in Functions, NEW order \in Nat
  PROVE  LET r == Begun(es, fn, order)
         IN  /\ r.call.known = Len(es)
             /\ r.call.clean /\ r.call.state # "failed" => Tracked(r.exps, r.call)
<1> DEFINE c == [fn |-> fn, state |-> "open", checked |-> FALSE, matching |-> 0, order |-> order,
                 outs |-> <<>>, ins |-> <<>>, object |-> AnyObject, known |-> Len(es),
                 clean |-> \A i \in DOMAIN es : es[i] = Reset(es[i])]
           cleared == ClearCandidates(es)
           related == {i \in DOMAIN es : es[i].want.fn = fn /\ ~Fulfilled(es[i])}
           fs == [i \in DOMAIN es |-> [cleared[i] EXCEPT !.cand = i \in related]]
           r == Begun(es, fn, order)
<1>1. r = IF related = {} THEN FailedStep(cleared, c) ELSE Complete(fs, c)
  BY DEF Begun
<1>2. cleared \in Seq(ExpType) /\ Same(es, cleared)
  BY ClearedFields
<1>3. Len(es) \in Nat /\ DOMAIN es = 1 .. Len(es)
  OBVIOUS
<1>4. <<>> \in Seq(Inputs) /\ <<>> \in Seq(OutType)
  OBVIOUS
<1>5. /\ c.fn = fn /\ c.state = "open" /\ c.matching = 0 /\ c.ins = <<>> /\ c.outs = <<>>
      /\ c.object = AnyObject /\ c.known = Len(es)
      /\ c.clean <=> \A i \in DOMAIN es : es[i] = Reset(es[i])
  OBVIOUS
<1>6. c \in CallType
  BY <1>3, <1>4 DEF CallType, OutType
<1>7. PassedNames(c) = {} /\ c.object = AnyObject
  BY <1>5 DEF PassedNames
<1>8. ASSUME NEW i \in DOMAIN es
      PROVE  /\ fs[i] \in ExpType /\ fs[i].want = es[i].want
             /\ fs[i].calls = es[i].calls /\ fs[i].amount = es[i].amount
             /\ fs[i].cand <=> i \in related
             /\ fs[i].marks = cleared[i].marks /\ fs[i].onObject = cleared[i].onObject
  <2> DEFINE b == i \in related
  <2>1. /\ cleared[i] \in ExpType /\ cleared[i].want = es[i].want
        /\ cleared[i].calls = es[i].calls /\ cleared[i].amount = es[i].amount
    BY <1>2, SeqElement DEF Same
  <2>2. b \in BOOLEAN
    OBVIOUS
  <2>3. fs[i] = [cleared[i] EXCEPT !.cand = b]
    OBVIOUS
  <2> HIDE DEF b, cleared, fs
  <2>4. /\ fs[i] \in ExpType /\ fs[i].want = cleared[i].want
        /\ fs[i].calls = cleared[i].calls /\ fs[i].amount = cleared[i].amount
        /\ fs[i].cand = b
        /\ fs[i].marks = cleared[i].marks /\ fs[i].onObject = cleared[i].onObject
    BY <2>1, <2>2, <2>3, CandField
  <2> QED
    BY <2>1, <2>4 DEF b
<1>9. ASSUME c.clean, NEW i \in DOMAIN es
      PROVE  cleared[i].marks = {} /\ cleared[i].onObject = (es[i].want.object = AnyObject)
  <2>1. es[i] \in ExpType /\ es[i] = Reset(es[i])
    BY <1>5, <1>9, SeqElement
  <2>2. es[i].marks = {} /\ es[i].onObject = (es[i].want.object = AnyObject)
    BY <2>1, ResetFields
  <2> DEFINE e == [es[i] EXCEPT !.cand = FALSE]
  <2>3. e \in ExpType /\ e.want = es[i].want
    BY <2>1, CandField
  <2>4. cleared[i] = IF es[i].cand THEN Reset(e) ELSE es[i]
    BY DEF ClearCandidates
  <2> HIDE DEF e, cleared
  <2>5. Reset(e).marks = {} /\ Reset(e).onObject = (es[i].want.object = AnyObject)
    BY <2>3, ResetFields
  <2> QED
    BY <2>2, <2>4, <2>5
<1>10. fs = [i \in DOMAIN es |-> fs[i]]
  OBVIOUS
<1> HIDE DEF c, cleared, fs, r
<1>11. fs \in Seq(ExpType) /\ DOMAIN fs = DOMAIN es
  BY <1>8, <1>10, MappedType
<1>12. Len(fs) = Len(es)
  BY <1>11
<1>13. ASSUME c.clean PROVE OpenTracked(fs, c)
  <2>1. \A i \in DOMAIN fs : Tracks(fs[i], c)
    BY <1>7, <1>8, <1>9, <1>11, <1>13 DEF Tracks, Suits
  <2>2. ASSUME NEW i \in 1 .. c.known, Viable(fs[i], c), fs[i].calls < fs[i].amount
        PROVE  fs[i].cand
    <3>1. i \in DOMAIN es
      BY <1>3, <1>5
    <3>2. es[i].want.fn = fn
      BY <1>5, <1>8, <2>2, <3>1 DEF Viable, Takes
    <3>3. es[i].calls \in Nat /\ es[i].amount \in Nat /\ es[i].calls < es[i].amount
      BY <1>8, <2>2, <3>1, SeqElement, ExpFields
    <3>4. i \in related
      BY <3>1, <3>2, <3>3 DEF Fulfilled
    <3> QED
      BY <1>8, <3>1, <3>4
  <2> QED
    BY <1>5, <2>1, <2>2 DEF OpenTracked
<1>14. LinkExact(c.clean, c, Complete(fs, c))
  BY <1>3, <1>5, <1>6, <1>11, <1>12, <1>13, CompleteExact
<1>15. LinkExact(c.clean, c, FailedStep(cleared, c))
  BY <1>6, FailedExact
<1>16. LinkExact(c.clean, c, r)
  BY <1>1, <1>14, <1>15
<1> QED
  BY <1>5, <1>16 DEF LinkExact, r

-------------------------------------------------------------------------------
(* Calls that fit exactly *)

LEMMA NamedOnce ==
  ASSUME NEW T, NEW n \in Nat, NEW f \in Surjection(1 .. n, T), Cardinality(T) = n
  PROVE  IsInjective(f) /\ DOMAIN f = 1 .. n
<1>1. IsFiniteSet(1 .. n) /\ Cardinality(1 .. n) = n
  BY FS_Interval
<1>2. f \in Injection(1 .. n, T)
  BY <1>1, FS_SurjSameCardinalityImpliesInj
<1> QED
  BY <1>2 DEF Injection

(* It can only be a call that passes each name of the expectation once.    *)
LEMMA ExactIsViable ==
  ASSUME NEW c \in CallType, NEW e, ExactFit(c, e.want)
  PROVE  Distinct(c) /\ Viable(e, c) /\ PassedNames(c) = Names(e.want)
<1> DEFINE f == [j \in DOMAIN c.ins |-> c.ins[j][1]]
           g == [j \in DOMAIN c.outs |-> c.outs[j].name]
           F == DOMAIN e.want.in
           G == DOMAIN e.want.out
<1>1. /\ DOMAIN c.ins = 1 .. Len(c.ins) /\ Len(c.ins) \in Nat
      /\ DOMAIN c.outs = 1 .. Len(c.outs) /\ Len(c.outs) \in Nat
  BY CallFields
<1>2. /\ F = {c.ins[j][1] : j \in DOMAIN c.ins} /\ Cardinality(F) = Len(c.ins)
      /\ G = {c.outs[j].name : j \in DOMAIN c.outs} /\ Cardinality(G) = Len(c.outs)
  BY DEF ExactFit
<1>3. f \in Surjection(1 .. Len(c.ins), F)
  BY <1>1, <1>2 DEF Surjection
<1>4. g \in Surjection(1 .. Len(c.outs), G)
  BY <1>1, <1>2 DEF Surjection
<1> HIDE DEF F, G, f, g
<1>5. IsInjective(f) /\ DOMAIN f = 1 .. Len(c.ins)
  BY <1>1, <1>2, <1>3, NamedOnce
<1>6. IsInjective(g) /\ DOMAIN g = 1 .. Len(c.outs)
  BY <1>1, <1>2, <1>4, NamedOnce
<1>7. Distinct(c)
  BY <1>1, <1>5, <1>6 DEF Distinct, IsInjective, f, g
<1>8. Viable(e, c)
  BY DEF ExactFit, Viable, Takes, Suits
<1> QED
  BY <1>2, <1>7, <1>8 DEF PassedNames, Names, F, G

(* What the call has met in full, it fits exactly, if it fits anything so. *)
LEMMA MetIsExact ==
  ASSUME NEW e \in ExpType, NEW c \in CallType, Takes(e, c), Tracks(e, c),
         AllMatched(e), e.onObject, ~e.want.others,
         NEW want, ExactFit(c, want)
  PROVE  ExactFit(c, e.want)
<1> DEFINE I == {c.ins[j][1] : j \in DOMAIN c.ins}
           O == {c.outs[j].name : j \in DOMAIN c.outs}
<1>1. Names(e.want) \subseteq I \cup O
  BY DEF AllMatched, Tracks, PassedNames
<1>2. I \subseteq DOMAIN e.want.in /\ O \subseteq DOMAIN e.want.out
  BY DEF Takes, Accepts, AcceptsOut
<1>3. DOMAIN e.want.in \subseteq InNames /\ DOMAIN e.want.out \subseteq OutNames
  BY WantsAssumption, ExpFields
<1>4. DOMAIN e.want.in = I /\ DOMAIN e.want.out = O
  <2>1. \A n \in InNames : n \notin OutNames
    BY WantsAssumption
  <2>2. \A n \in I : n \in InNames
    BY <1>2, <1>3
  <2>3. \A n \in O : n \in OutNames
    BY <1>2, <1>3
  <2> HIDE DEF I, O
  <2> QED
    BY <1>1, <1>2, <1>3, <2>1, <2>2, <2>3 DEF Names
<1>5. DOMAIN want.in = I /\ DOMAIN want.out = O
  BY DEF ExactFit
<1>6. Len(c.ins) = Cardinality(DOMAIN want.in) /\ Len(c.outs) = Cardinality(DOMAIN want.out)
  BY DEF ExactFit
<1>7. Len(c.ins) = Cardinality(DOMAIN e.want.in) /\ Len(c.outs) = Cardinality(DOMAIN e.want.out)
  BY <1>4, <1>5, <1>6
<1>8. e.want.object \in {AnyObject, c.object}
  BY DEF Tracks, Suits
<1> QED
  BY <1>4, <1>7, <1>8 DEF ExactFit, Takes

(* What the call fits exactly and still tracks, it has met in full.        *)
LEMMA ExactIsMet ==
  ASSUME NEW e \in ExpType, NEW c \in CallType, Tracks(e, c), ExactFit(c, e.want)
  PROVE  AllMatched(e) /\ e.onObject /\ ~e.want.others
<1>1. PassedNames(c) = Names(e.want)
  BY ExactIsViable
<1>2. AllMatched(e)
  BY <1>1 DEF Tracks, AllMatched
<1>3. e.onObject
  BY ExpFields DEF Tracks, ExactFit
<1> QED
  BY <1>2, <1>3 DEF ExactFit

LEMMA SameFit ==
  ASSUME NEW c, NEW d, d.fn = c.fn, d.ins = c.ins, d.outs = c.outs, d.object = c.object, NEW want
  PROVE  ExactFit(d, want) <=> ExactFit(c, want)
BY DEF ExactFit

LEMMA FinalizedKeeps ==
  ASSUME NEW es, NEW c \in CallType, Unsettled(c), NEW jumps
  PROVE  LET d == Finalized(es, c, jumps).call
         IN  /\ d.object = c.object /\ d.known = c.known /\ d.clean = c.clean
             /\ d.state = "succeed" =>
                  \/ c.state = "succeed" /\ d.matching = c.matching
                  \/ c.state = "open"
<1> DEFINE done == [c EXCEPT !.checked = TRUE]
           match == First({i \in DOMAIN es : IsMatching(es[i])})
           won == [done EXCEPT !.matching = match, !.state = "succeed"]
           lost == [done EXCEPT !.state = "failed"]
           d == Finalized(es, c, jumps).call
<1>1. /\ done.object = c.object /\ done.known = c.known /\ done.clean = c.clean
      /\ done.state = c.state /\ done.matching = c.matching
  BY DEF CallType
<1>2. won.object = c.object /\ won.known = c.known /\ won.clean = c.clean
  BY DEF CallType
<1>3. lost.object = c.object /\ lost.known = c.known /\ lost.clean = c.clean
  BY DEF CallType
<1>4. lost.state = "failed"
  BY DEF CallType
<1>5. d = IF c.state = "succeed" /\ c.matching # 0 THEN done
          ELSE IF c.state # "open" THEN done
          ELSE IF match # 0 THEN won ELSE lost
  BY DEF Finalized, Step, FailedStep
<1>6. c.state \in {"open", "succeed", "failed"}
  BY CallFields
<1> HIDE DEF done, won, lost, match, d
<1>7. d.object = c.object /\ d.known = c.known /\ d.clean = c.clean
  BY <1>1, <1>2, <1>3, <1>5
<1>8. d.state = "succeed" => \/ c.state = "succeed" /\ d.matching = c.matching
                             \/ c.state = "open"
  BY <1>1, <1>5, <1>6
<1> QED
  BY <1>7, <1>8 DEF d

(* A call that ends charged to an expectation is charged to one that it    *)
(* fits exactly, if one that it knew of and that has calls left is so.     *)
LEMMA FinalExact ==
  ASSUME NEW es, NEW c \in CallType, CallOK(es, c), Unsettled(c), Exact(es, c), NEW jumps,
         LET f == Finalized(es, c, jumps)
         IN  /\ f.call.state = "succeed" /\ f.call.clean
             /\ \E i \in 1 .. f.call.known : ExactFit(f.call, es[i].want) /\ es[i].calls < es[i].amount
  PROVE  LET f == Finalized(es, c, jumps)
         IN  ExactFit(f.call, es[f.call.matching].want)
<1> DEFINE f == Finalized(es, c, jumps)
           d == f.call
           m == d.matching
<1>0. /\ d.object = c.object /\ d.known = c.known /\ d.clean = c.clean
      /\ d.state = "succeed" => \/ c.state = "succeed" /\ d.matching = c.matching
                               \/ c.state = "open"
  BY FinalizedKeeps
<1>2. Ended(es, c, f)
  BY FinalizedCases
<1> HIDE DEF f
<1>1. /\ d.object = c.object /\ d.known = c.known /\ d.clean = c.clean /\ d.state = "succeed"
      /\ \/ c.state = "succeed" /\ d.matching = c.matching
         \/ c.state = "open"
  BY <1>0 DEF f
<1>3. /\ d.fn = c.fn /\ d.ins = c.ins /\ d.outs = c.outs
      /\ m \in DOMAIN es /\ Takes(es[m], c)
  BY <1>2 DEF Ended, SamePassed, f
<1>4. \A want : ExactFit(d, want) <=> ExactFit(c, want)
  BY <1>1, <1>3, SameFit
<1>5. PICK i \in 1 .. c.known : ExactFit(c, es[i].want) /\ es[i].calls < es[i].amount
  BY <1>1, <1>4 DEF f
<1>6. Unsettled(c) /\ c # NoCall /\ c.state # "failed" /\ c.clean
  BY <1>1, NoCallIsNone DEF f
<1>7. Tracked(es, c) /\ c.known <= Len(es)
  BY <1>6 DEF Exact, Unsettled
<1>8. es \in Seq(ExpType)
  BY DEF CallOK
<1>9. i \in DOMAIN es /\ es[i] \in ExpType
  BY <1>7, <1>8, CallFields, SeqElement
<1>10. Held(es, c, i)
  BY <1>5, <1>7, ExactIsViable DEF Tracked, AllHeld
<1>11. Tracks(es[i], c)
  BY <1>7, <1>9, <1>10 DEF Tracked, HeldTrack
<1>12. CASE c.state = "open"
  <2>1. es[i].cand
    BY <1>10, <1>12 DEF Held
  <2>2. IsFinal(es[i])
    BY <1>5, <1>9, <1>11, <2>1, ExactIsMet DEF IsFinal, IsMatching
  <2> QED
    BY <1>7, <1>9, <1>12, <2>2 DEF Tracked, ClaimedIfMet
<1>13. CASE c.state = "succeed" /\ m = c.matching
  <2>1. ~es[m].want.others /\ AllMatched(es[m]) /\ es[m].onObject
    BY <1>7, <1>13 DEF Tracked, ClaimedIfMet
  <2>2. Tracks(es[m], c)
    BY <1>3, <1>7, <1>13 DEF Tracked, HeldTrack, Held
  <2>3. es[m] \in ExpType
    BY <1>3, <1>8, SeqElement
  <2>4. ExactFit(c, es[m].want)
    BY <1>3, <1>5, <2>1, <2>2, <2>3, MetIsExact
  <2> QED
    BY <1>4, <2>4 DEF f
<1> QED
  BY <1>1, <1>12, <1>13 DEF f

-------------------------------------------------------------------------------
(* The charged calls *)

Before(ch, k, i) == Cardinality({j \in 1 .. (k - 1) : ch[j].exp = i})

(* The k-th charged call could have gone to one that it fits exactly.      *)
CouldFit(es, ch, k) ==
  LET c == ch[k].call
  IN  c.clean /\ \E i \in 1 .. c.known : ExactFit(c, es[i].want) /\ Before(ch, k, i) < es[i].amount

FitsOK(es, ch) ==
  \A k \in DOMAIN ch : /\ ch[k].call.known <= Len(es)
                       /\ CouldFit(es, ch, k) => ExactFit(ch[k].call, es[ch[k].exp].want)

LEMMA FitsKept ==
  ASSUME NEW es \in Seq(ExpType), NEW fs \in Seq(ExpType), Len(es) <= Len(fs),
         \A i \in DOMAIN es : fs[i].want = es[i].want /\ fs[i].amount = es[i].amount,
         NEW ch \in Seq([exp : DOMAIN es, call : CallType]), FitsOK(es, ch)
  PROVE  FitsOK(fs, ch)
<1> SUFFICES ASSUME NEW k \in DOMAIN ch
             PROVE  /\ ch[k].call.known <= Len(fs)
                    /\ CouldFit(fs, ch, k) => ExactFit(ch[k].call, fs[ch[k].exp].want)
  BY DEF FitsOK
<1> DEFINE c == ch[k].call
<1>1. ch[k] \in [exp : DOMAIN es, call : CallType]
  BY SeqElement
<1>2. ch[k].exp \in DOMAIN es /\ c \in CallType
  BY <1>1
<1>3. c.known \in Nat /\ c.known <= Len(es)
  BY <1>2, CallFields DEF FitsOK
<1>4. Len(es) \in Nat /\ Len(fs) \in Nat /\ DOMAIN es = 1 .. Len(es)
  OBVIOUS
<1> HIDE DEF c
<1>5. \A i \in 1 .. c.known : fs[i].want = es[i].want /\ fs[i].amount = es[i].amount
  <2>1. 1 .. c.known \subseteq DOMAIN es
    BY <1>3, <1>4
  <2> QED
    BY <2>1
<1>6. CouldFit(fs, ch, k) => CouldFit(es, ch, k)
  BY <1>5 DEF CouldFit, c
<1>7. c.known <= Len(fs)
  BY <1>3, <1>4
<1>8. fs[ch[k].exp].want = es[ch[k].exp].want
  BY <1>2
<1> QED
  BY <1>6, <1>7, <1>8 DEF FitsOK, c

LEMMA FitsCharged ==
  ASSUME NEW es \in Seq(ExpType), NEW ch, ChargesOK(es, ch), FitsOK(es, ch),
         NEW d \in CallType, NEW m \in DOMAIN es, d.known <= Len(es),
         d.clean /\ (\E i \in 1 .. d.known : ExactFit(d, es[i].want) /\ es[i].calls < es[i].amount)
           => ExactFit(d, es[m].want)
  PROVE  FitsOK(es, Append(ch, [exp |-> m, call |-> d]))
<1> DEFINE S == [exp : DOMAIN es, call : CallType]
           e == [exp |-> m, call |-> d]
           dh == Append(ch, e)
           n == Len(ch) + 1
<1>1. e \in S /\ ch \in Seq(S) /\ e.exp = m /\ e.call = d
  BY DEF ChargesOK
<1>2. DOMAIN ch = 1 .. Len(ch) /\ Len(ch) \in Nat
  BY <1>1
<1> HIDE DEF e, S
<1>3. /\ DOMAIN dh = DOMAIN ch \cup {n} /\ n \notin DOMAIN ch
      /\ \A k \in DOMAIN ch : dh[k] = ch[k]
      /\ dh[n] = e
  BY <1>1, Appended
<1> HIDE DEF dh
<1>4. ASSUME NEW k \in DOMAIN ch
      PROVE  /\ dh[k].call.known <= Len(es)
             /\ CouldFit(es, dh, k) => ExactFit(dh[k].call, es[dh[k].exp].want)
  <2>1. \A j \in 1 .. (k - 1) : dh[j] = ch[j]
    BY <1>2, <1>3
  <2>2. \A i : Before(dh, k, i) = Before(ch, k, i)
    <3> SUFFICES ASSUME NEW i PROVE Before(dh, k, i) = Before(ch, k, i)
      OBVIOUS
    <3>1. {j \in 1 .. (k - 1) : dh[j].exp = i} = {j \in 1 .. (k - 1) : ch[j].exp = i}
      BY <2>1
    <3> QED
      BY <3>1 DEF Before
  <2>3. CouldFit(es, dh, k) => CouldFit(es, ch, k)
    BY <1>3, <2>2 DEF CouldFit
  <2> QED
    BY <1>3, <2>3 DEF FitsOK
<1>5. /\ dh[n].call.known <= Len(es)
      /\ CouldFit(es, dh, n) => ExactFit(dh[n].call, es[dh[n].exp].want)
  <2>1. \A i : Before(dh, n, i) = Cardinality(ChargesTo(ch, i))
    <3> SUFFICES ASSUME NEW i PROVE Before(dh, n, i) = Cardinality(ChargesTo(ch, i))
      OBVIOUS
    <3>1. 1 .. (n - 1) = DOMAIN ch
      BY <1>2
    <3>2. {j \in 1 .. (n - 1) : dh[j].exp = i} = ChargesTo(ch, i)
      BY <1>3, <3>1 DEF ChargesTo
    <3> QED
      BY <3>2 DEF Before
  <2>2. \A i \in 1 .. d.known : Before(dh, n, i) = es[i].calls
    BY <2>1, CallFields DEF ChargesOK
  <2>3. dh[n].call = d /\ dh[n].exp = m
    BY <1>1, <1>3
  <2> QED
    BY <2>2, <2>3 DEF CouldFit
<1>6. FitsOK(es, dh)
  BY <1>3, <1>4, <1>5 DEF FitsOK
<1> QED
  BY <1>6 DEF dh, e

(* What holds of the expectations, the call in progress and the charges.   *)
EOK(es, c, ch) == Exact(es, c) /\ FitsOK(es, ch)

LEMMA FinalFits ==
  ASSUME NEW es, NEW c, CallOK(es, c), NEW ch, ChargesOK(es, ch), NEW made, OrdersOK(c, ch, made),
         EOK(es, c, ch), NEW jumps
  PROVE  LET f == Finalized(es, c, jumps)
         IN  EOK(f.exps, f.call, ChargesAfter(ch, c, f))
<1> DEFINE f == Finalized(es, c, jumps)
           d == f.call
           dh == ChargesAfter(ch, c, f)
           dhs == Append(ch, [exp |-> d.matching, call |-> d])
<1>1. es \in Seq(ExpType) /\ ch \in Seq([exp : DOMAIN es, call : CallType])
  BY DEF CallOK, ChargesOK
<1>2. CallOK(f.exps, f.call) /\ Later(es, f.exps) /\ ChargesOK(f.exps, dh)
  BY FinalStep
<1>3. dh = IF Unsettled(c) /\ d.state = "succeed" THEN dhs ELSE ch
  BY DEF ChargesAfter
<1>4. CASE ~Unsettled(c)
  <2>1. f.exps = es /\ f.call = c
    BY <1>4 DEF Finalized, Step
  <2> QED
    BY <1>3, <1>4, <2>1 DEF EOK
<1>5. CASE Unsettled(c)
  <2>1. c \in CallType /\ c # NoCall
    BY <1>5 DEF Unsettled, CallOK
  <2>2. Ended(es, c, f)
    BY <1>5, FinalizedCases
  <2>3. d.known = c.known
    BY <1>5, <2>1, FinalizedKeeps
  <2>4. Exact(es, c) /\ FitsOK(es, ch) /\ c.known <= Len(es)
    BY <2>1 DEF EOK, Exact
  <2>5. f.exps \in Seq(ExpType) /\ DOMAIN f.exps = DOMAIN es
    BY <1>2 DEF CallOK, Later
  <2>6. ASSUME d.state = "succeed", d.clean,
               \E i \in 1 .. d.known : ExactFit(d, es[i].want) /\ es[i].calls < es[i].amount
        PROVE  ExactFit(d, es[d.matching].want)
    BY <1>5, <2>1, <2>4, <2>6, FinalExact
  <2>7. d \in CallType /\ d.checked /\ (d.state = "succeed" => d.matching \in DOMAIN es)
    BY <2>2 DEF Ended
  <2> HIDE DEF f
  <2>8. d.state = "succeed" => FitsOK(es, dhs)
    <3> HIDE DEF d
    <3> SUFFICES ASSUME d.state = "succeed" PROVE FitsOK(es, dhs)
      OBVIOUS
    <3>1. d \in CallType /\ d.matching \in DOMAIN es /\ d.known <= Len(es)
      BY <2>3, <2>4, <2>7
    <3> QED
      BY <1>1, <2>4, <2>6, <3>1, FitsCharged
  <2> HIDE DEF dh, dhs
  <2>9. FitsOK(es, dh)
    BY <1>3, <2>4, <2>8
  <2>10. Len(f.exps) = Len(es) /\ Len(es) <= Len(f.exps)
    BY <1>1, <2>5
  <2>11. dh \in Seq([exp : DOMAIN es, call : CallType])
    BY <1>2, <2>5 DEF ChargesOK
  <2>12. FitsOK(f.exps, dh)
    <3> DEFINE fs == f.exps
    <3>1. \A i \in DOMAIN es : fs[i].want = es[i].want /\ fs[i].amount = es[i].amount
      BY <1>2 DEF Later
    <3>2. fs \in Seq(ExpType) /\ Len(es) <= Len(fs)
      BY <2>5, <2>10
    <3> HIDE DEF fs
    <3>3. FitsOK(fs, dh)
      BY <1>1, <2>9, <2>11, <3>1, <3>2, FitsKept
    <3> QED
      BY <3>3 DEF fs
  <2>13. Exact(f.exps, d)
    BY <2>3, <2>4, <2>7, <2>10 DEF Exact
  <2> QED
    BY <2>12, <2>13 DEF EOK, dh, f
<1> QED
  BY <1>4, <1>5

-------------------------------------------------------------------------------
(* The steps of a test *)

EInv == EOK(exps, call, charges)

LEMMA LinkExactStep ==
  ASSUME IInv, EInv, call \in CallType, NEW s, Linked(exps, call, s), Link(s),
         LinkExact(~call.checked /\ call.clean, call, s)
  PROVE  EInv'
<1>1. exps' = s.exps /\ call' = s.call /\ charges' = charges
  BY DEF Link
<1>2. /\ s.exps \in Seq(ExpType) /\ Same(exps, s.exps) /\ s.call.checked = call.checked
  BY DEF Linked
<1>3. exps \in Seq(ExpType) /\ charges \in Seq([exp : DOMAIN exps, call : CallType])
  BY DEF IInv, CallOK, ChargesOK
<1>4. call # NoCall /\ call.known <= Len(exps) /\ FitsOK(exps, charges)
  BY NoCallIsNone DEF EInv, EOK, Exact
<1>5. Len(s.exps) = Len(exps) /\ Len(exps) <= Len(s.exps)
  BY <1>2, <1>3, SameLength
<1>6. Exact(s.exps, s.call)
  BY <1>2, <1>4, <1>5 DEF Exact, LinkExact
<1>7. FitsOK(s.exps, charges)
  BY <1>2, <1>3, <1>4, <1>5, FitsKept DEF Same
<1> QED
  BY <1>1, <1>6, <1>7 DEF EInv, EOK

LEMMA PassingExact ==
  ASSUME IInv, EInv, call \in CallType, call.state # "failed"
  PROVE  /\ call.known <= Len(exps)
         /\ ~call.checked /\ call.clean => Tracked(exps, call)
BY NoCallIsNone DEF EInv, EOK, Exact

(* A new expectation is nothing that the call in progress knows of.        *)
LEMMA ExpectExact ==
  ASSUME IInv, EInv, NEW want \in Wants, NEW n \in Amounts, NEW window \in Orders,
         Expect(want, n, window)
  PROVE  EInv'
<1> DEFINE given == IF strict /\ window = <<0, 0>>
                    THEN <<expectedOrder + 1, expectedOrder + n>> ELSE window
           e == [want |-> want, amount |-> n, calls |-> 0, first |-> given[1], last |-> given[2],
                 late |-> FALSE, marks |-> {}, onObject |-> want.object = AnyObject, cand |-> FALSE]
<1>1. exps' = Append(exps, e) /\ ~e.cand /\ call' = call /\ charges' = charges
  BY DEF Expect
<1> HIDE DEF e, given
<1>2. exps \in Seq(ExpType) /\ charges \in Seq([exp : DOMAIN exps, call : CallType])
  BY DEF IInv, CallOK, ChargesOK
<1>3. exps' \in Seq(ExpType)
  <2>1. IInv'
    BY ExpectStep
  <2> QED
    BY <2>1 DEF IInv, CallOK
<1> DEFINE fs == exps'
           m == Len(exps) + 1
<1>4. /\ DOMAIN fs = DOMAIN exps \cup {m} /\ m \notin DOMAIN exps
      /\ Len(fs) = Len(exps) + 1 /\ Len(exps) \in Nat
      /\ \A i \in DOMAIN exps : fs[i] = exps[i]
      /\ fs[m] = e
      /\ DOMAIN exps = 1 .. Len(exps)
  BY <1>1, <1>2
<1> HIDE DEF fs, m
<1>5. FitsOK(fs, charges)
  <2>1. fs \in Seq(ExpType) /\ Len(exps) <= Len(fs)
    BY <1>3, <1>4 DEF fs
  <2>2. FitsOK(exps, charges)
    BY DEF EInv, EOK
  <2> QED
    BY <1>2, <1>4, <2>1, <2>2, FitsKept
<1>6. ASSUME call # NoCall PROVE call.known \in Nat /\ call.known <= Len(exps) /\ call.known <= Len(fs)
  BY <1>4, <1>6, CallFields DEF EInv, EOK, Exact, IInv, CallOK
<1>7. ASSUME call # NoCall, Tracked(exps, call) PROVE Tracked(fs, call)
  <2>1. ~IsFinal(fs[m])
    BY <1>1, <1>4 DEF IsFinal, IsMatching
  <2>2. ClaimedIfMet(fs, call)
    BY <1>4, <1>7, <2>1 DEF Tracked, ClaimedIfMet
  <2>3. ~Held(fs, call, m)
    BY <1>1, <1>4, <1>7 DEF Held, Tracked, ClaimedIfMet
  <2>4. \A i \in DOMAIN exps : Held(fs, call, i) <=> Held(exps, call, i)
    BY <1>4 DEF Held
  <2>5. HeldTrack(fs, call)
    BY <1>4, <1>7, <2>3, <2>4 DEF Tracked, HeldTrack
  <2>6. 1 .. call.known \subseteq DOMAIN exps
    BY <1>4, <1>6, <1>7
  <2>7. AllHeld(fs, call)
    BY <1>4, <1>7, <2>4, <2>6 DEF Tracked, AllHeld
  <2> QED
    BY <2>2, <2>5, <2>7 DEF Tracked
<1>8. Exact(fs, call)
  BY <1>6, <1>7 DEF EInv, EOK, Exact
<1> QED
  BY <1>1, <1>5, <1>8 DEF EInv, EOK, fs

LEMMA EndExact ==
  ASSUME IInv, EInv, NEW jumps,
         LET f == Finalized(exps, call, jumps)
         IN  exps' = f.exps /\ call' = f.call /\ Settle(f)
  PROVE  EInv'
<1> DEFINE f == Finalized(exps, call, jumps)
<1>1. CallOK(exps, call) /\ ChargesOK(exps, charges) /\ OrdersOK(call, charges, actualOrder)
  BY DEF IInv
<1>2. EOK(f.exps, f.call, ChargesAfter(charges, call, f))
  BY <1>1, FinalFits DEF EInv
<1>3. exps' = f.exps /\ call' = f.call /\ charges' = ChargesAfter(charges, call, f)
  BY DEF Settle, ChargesAfter
<1> QED
  BY <1>2, <1>3 DEF EInv

LEMMA ActualCallExact ==
  ASSUME IInv, EInv, NEW fn \in Functions, ActualCall(fn)
  PROVE  EInv'
<1> DEFINE f == Finalized(exps, call, Jumps)
           b == Begun(f.exps, fn, actualOrder + 1)
           dh == ChargesAfter(charges, call, f)
<1>1. /\ charges' = dh
      /\ \/ exps' = f.exps /\ call' \in {f.call, NoCall}
         \/ exps' = b.exps /\ call' = b.call
  BY DEF ActualCall, Settle, ChargesAfter
<1>2. /\ CallOK(exps, call) /\ ChargesOK(exps, charges) /\ OrdersOK(call, charges, actualOrder)
      /\ actualOrder \in Nat
  BY DEF IInv, OrdersOK
<1>3. CallOK(f.exps, f.call) /\ ChargesOK(f.exps, dh)
  BY <1>2, FinalStep
<1>4. EOK(f.exps, f.call, dh)
  BY <1>2, FinalFits DEF EInv
<1>5. f.exps \in Seq(ExpType) /\ \A i \in DOMAIN f.exps : f.exps[i].calls <= f.exps[i].amount
  BY <1>3 DEF CallOK
<1>6. Linked(f.exps, b.call, b)
  BY <1>2, <1>5, BegunStep
<1>7. /\ b.call.known = Len(f.exps)
      /\ b.call.clean /\ b.call.state # "failed" => Tracked(b.exps, b.call)
  BY <1>2, <1>5, BegunExact
<1>8. dh \in Seq([exp : DOMAIN f.exps, call : CallType])
  BY <1>3 DEF ChargesOK
<1> HIDE DEF f, b, dh
<1>9. b.exps \in Seq(ExpType) /\ Same(f.exps, b.exps)
  BY <1>6 DEF Linked
<1>10. Len(b.exps) = Len(f.exps) /\ Len(f.exps) <= Len(b.exps)
  BY <1>5, <1>9, SameLength
<1>11. FitsOK(b.exps, dh)
  BY <1>4, <1>5, <1>8, <1>9, <1>10, FitsKept DEF EOK, Same
<1>12. Exact(b.exps, b.call)
  BY <1>7, <1>10 DEF Exact
<1>13. Exact(f.exps, NoCall)
  BY DEF Exact
<1> QED
  BY <1>1, <1>4, <1>11, <1>12, <1>13 DEF EInv, EOK

LEMMA ClearExact ==
  ASSUME Clear
  PROVE  EInv'
<1>1. exps' = <<>> /\ call' = NoCall /\ charges' = <<>>
  BY DEF Clear
<1>2. Exact(<<>>, NoCall) /\ FitsOK(<<>>, <<>>)
  BY DEF Exact, FitsOK
<1> QED
  BY <1>1, <1>2 DEF EInv, EOK

LEMMA ExactStep ==
  ASSUME IInv, EInv, Next
  PROVE  EInv'
<1> USE NoCallIsNone
<1>1. /\ suite \in Suites /\ exps \in Seq(ExpType)
      /\ call \in CallType \cup {NoCall}
      /\ call # NoCall => Eligible(exps, call) /\ Copied(exps, call)
  BY DEF IInv, TestInv, CallOK
<1>2. /\ suite.wants \subseteq Wants /\ suite.amounts \subseteq Amounts /\ suite.orders \subseteq Orders
      /\ suite.calls \subseteq Functions /\ suite.inputs \subseteq Inputs
      /\ suite.outputs \subseteq Outputs /\ suite.objects \subseteq Objects
  BY <1>1, SuitesAssumption
<1>3. CASE \E w \in suite.wants, n \in suite.amounts, o \in suite.orders : Expect(w, n, o)
  BY <1>2, <1>3, ExpectExact
<1>4. CASE \E fn \in suite.calls : ActualCall(fn)
  BY <1>2, <1>4, ActualCallExact
<1>5. CASE \E p \in suite.inputs : WithParameter(p)
  <2>1. PICK p \in Inputs : WithParameter(p)
    BY <1>2, <1>5
  <2>2. /\ call \in CallType /\ CandidatesTake(exps, call) /\ call.state # "failed"
        /\ Link(Passed(exps, call, p))
    BY <1>1, <2>1 DEF WithParameter, Passing, Eligible
  <2>3. Linked(exps, call, Passed(exps, call, p))
    BY <1>1, <2>2, PassedStep
  <2>4. LinkExact(~call.checked /\ call.clean, call, Passed(exps, call, p))
    BY <1>1, <2>2, PassingExact, PassedExact
  <2> QED
    BY <2>2, <2>3, <2>4, LinkExactStep
<1>6. CASE \E p \in suite.outputs : WithOutputParameter(p)
  <2>1. PICK p \in Outputs : WithOutputParameter(p)
    BY <1>2, <1>6
  <2>2. /\ call \in CallType /\ CandidatesTake(exps, call) /\ call.state # "failed"
        /\ Link(PassedOut(exps, call, p))
    BY <1>1, <2>1 DEF WithOutputParameter, Passing, Eligible
  <2>3. Linked(exps, call, PassedOut(exps, call, p))
    BY <1>1, <2>2, PassedOutStep
  <2>4. LinkExact(~call.checked /\ call.clean, call, PassedOut(exps, call, p))
    BY <1>1, <2>2, PassingExact, PassedOutExact
  <2> QED
    BY <2>2, <2>3, <2>4, LinkExactStep
<1>7. CASE \E o \in suite.objects : OnObject(o)
  <2>1. PICK o \in Objects : OnObject(o)
    BY <1>2, <1>7
  <2>2. /\ call \in CallType /\ call.state # "failed" /\ call.object = AnyObject
        /\ Eligible(exps, call) /\ Copied(exps, call) /\ Link(PassedObject(exps, call, o))
    BY <1>1, <2>1 DEF OnObject
  <2>3. Linked(exps, call, PassedObject(exps, call, o))
    BY <1>1, <2>2, PassedObjectStep
  <2>4. LinkExact(~call.checked /\ call.clean, call, PassedObject(exps, call, o))
    BY <1>1, <2>2, PassingExact, PassedObjectExact
  <2> QED
    BY <2>2, <2>3, <2>4, LinkExactStep
<1>8. CASE \E fn \in suite.calls : WithName(fn)
  <2>1. PICK fn \in Functions : WithName(fn)
    BY <1>2, <1>8
  <2>2. call \in CallType /\ CandidatesTake(exps, call) /\ Link(Renamed(exps, call, fn))
    BY <1>1, <2>1 DEF WithName, Eligible
  <2> DEFINE r == Renamed(exps, call, fn)
  <2>3. Linked(exps, call, r)
    BY <1>1, <2>2, RenamedStep
  <2>4. call.known <= Len(exps)
    BY <2>2 DEF EInv, EOK, Exact
  <2>5. r.call \in CallType /\ r.call.known = call.known /\ ~r.call.clean
    BY <1>1, <2>2, <2>4, RenamedExact
  <2> HIDE DEF r
  <2>6. exps' = r.exps /\ call' = r.call /\ charges' = charges
    BY <2>2 DEF Link, r
  <2>7. r.exps \in Seq(ExpType) /\ Same(exps, r.exps)
    BY <2>3 DEF Linked
  <2>8. Len(r.exps) = Len(exps) /\ Len(exps) <= Len(r.exps)
    BY <1>1, <2>7, SameLength
  <2>9. Exact(r.exps, r.call)
    BY <2>4, <2>5, <2>8 DEF Exact
  <2>10. charges \in Seq([exp : DOMAIN exps, call : CallType]) /\ FitsOK(exps, charges)
    BY DEF IInv, ChargesOK, EInv, EOK
  <2>11. FitsOK(r.exps, charges)
    BY <1>1, <2>7, <2>8, <2>10, FitsKept DEF Same
  <2> QED
    BY <2>6, <2>9, <2>11 DEF EInv, EOK
<1>9. CASE ReadReturnValue \/ CheckInTest \/ PluginCheck
  <2>1. LET f == Finalized(exps, call, Jumps)
        IN  exps' = f.exps /\ call' = f.call /\ Settle(f)
    BY <1>9 DEF ReadReturnValue, CheckInTest, PluginCheck, CheckExpectations
  <2> QED
    BY <2>1, EndExact
<1>10. CASE ClearInTest \/ PluginClear
  BY <1>10, ClearExact DEF ClearInTest, PluginClear
<1>11. CASE \/ StrictOrder \/ IgnoreOtherCalls \/ \E on \in BOOLEAN : SetEnabled(on)
            \/ OtherFailure \/ Return \/ PluginSkipsCheck \/ Terminated
  <2>1. UNCHANGED <<exps, call, charges>>
    BY <1>11 DEF StrictOrder, IgnoreOtherCalls, SetEnabled, OtherFailure, Return,
       PluginSkipsCheck, Terminated, vars, mock
  <2> QED
    BY <2>1 DEF EInv
<1> QED
  BY <1>3, <1>4, <1>5, <1>6, <1>7, <1>8, <1>9, <1>10, <1>11 DEF Next

(* When no mark of an earlier call is left, a call that fits an            *)
(* expectation with calls left exactly is charged to one that it fits      *)
(* exactly.                                                                *)
THEOREM ExactFitIsTaken == Spec => []ExactFitWins
<1>1. Init => EInv
  <2>1. Init => exps = <<>> /\ call = NoCall /\ charges = <<>>
    BY DEF Init
  <2>2. Exact(<<>>, NoCall) /\ FitsOK(<<>>, <<>>)
    BY DEF Exact, FitsOK
  <2> QED
    BY <2>1, <2>2 DEF EInv, EOK
<1>2. IInv /\ EInv /\ [Next]_vars => EInv'
  BY ExactStep DEF EInv, vars, mock
<1>3. EInv => ExactFitWins
  BY DEF EInv, EOK, FitsOK, CouldFit, Before, ExactFitWins, ChargesBefore
<1> QED
  BY CallsMatched, <1>1, <1>2, <1>3, PTL DEF Spec
================================================================================
