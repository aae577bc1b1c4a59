--------------------------- MODULE TestRunnerProofs ----------------------------
(***************************************************************************)
(* The test runner, for every number of tests, repetitions and nested      *)
(* runs and every size of the jmp_buf stack, as long as the code outside   *)
(* the sections of a nested run does not jump.                             *)
(***************************************************************************)
EXTENDS TestRunner, FiniteSetTheorems, SequenceTheorems, TLAPS

(* The parts of the current test that are still to be started.             *)
Remaining(pc) ==
  CASE pc = "pre" -> {"create", "setup", "body", "teardown", "destroy", "post"}
    [] pc = "create" -> {"setup", "body", "teardown", "destroy", "post"}
    [] pc = "setup" -> {"body", "teardown", "destroy", "post"}
    [] pc = "body" -> {"teardown", "destroy", "post"}
    [] pc = "teardown" -> {"destroy", "post"}
    [] pc = "destroy" -> {"post"}
    [] OTHER -> {}

Pending(u, pc) == IF u \in Remaining(pc) THEN 1 ELSE 0

(* Each part has been started for each test, but for those of the current  *)
(* one that are still to come; a body may have been left out instead.      *)
CountersOK(f) ==
  /\ \A u \in {"create", "setup", "teardown", "destroy"} : f.ran[u] + Pending(u, f.pc) = f.runs
  /\ f.ran["body"] + f.broken + Pending("body", f.pc) = f.runs
  /\ \A u \in {"pre", "post"} : f.plugins => f.ran[u] + Pending(u, f.pc) = f.runs
  /\ \A u \in {"pre", "post"} : ~f.plugins => f.ran[u] = 0 /\ f.pc # u

FailuresOK(f) ==
  /\ f.failures = f.raised /\ f.before <= f.raised
  /\ f.pc \in UserCode => (f.hasFailed <=> f.raised > f.before)

(* The runs around the innermost one wait in code of a test, and what the  *)
(* next inner one has saved of them is what they need back.                *)
NestedOK ==
  \A l \in DOMAIN frames : l < Depths =>
    /\ frames[l].pc \in UserCode
    /\ frames[l + 1].saved = [test |-> l, result |-> l, hooks |-> frames[l].plugins]

InSection(fs) == {l \in DOMAIN fs : fs[l].pc \in Sections}

(* js has the levels of S, in ascending order.                             *)
Ascending(js, S) ==
  /\ {js[i] : i \in DOMAIN js} = S
  /\ \A i, j \in DOMAIN js : i < j => js[i] < js[j]

RunnerInv ==
  /\ frames \in Seq(Frame) /\ frames # <<>>
  /\ \A l \in DOMAIN frames : CountersOK(frames[l]) /\ FailuresOK(frames[l])
  /\ jmp \in Seq(DOMAIN frames) /\ Len(jmp) <= Depth
  /\ status \in {"running", "done", "crashed", "aborted"}
  /\ status = "aborted" => Depths > Depth
  /\ status = "running" =>
       /\ NestedOK
       /\ currentResult = Depths /\ hooks = Top.plugins
       /\ Top.pc \in UserCode => currentTest = Depths
       /\ Ascending(jmp, InSection(frames))

VerdictOK ==
  /\ currentTest \in Nat /\ currentResult \in Nat
  /\ hooks \in BOOLEAN /\ crashOnFail \in BOOLEAN
  /\ loop \in 1..Repeat /\ failedTests \in Nat
  /\ failedRuns \in Nat /\ failedRuns <= loop
  /\ status = "running" => failedRuns < loop
  /\ started \in Nat

-------------------------------------------------------------------------------
(* Sequences *)

LEMMA SeqElement ==
  ASSUME NEW S, NEW s \in Seq(S), NEW i \in DOMAIN s
  PROVE  s[i] \in S /\ i \in Nat /\ i > 0
OBVIOUS

LEMMA NonEmpty ==
  ASSUME NEW S, NEW s \in Seq(S), s # <<>>
  PROVE  /\ Len(s) \in Nat /\ Len(s) > 0 /\ DOMAIN s = 1 .. Len(s)
         /\ Len(s) \in DOMAIN s
OBVIOUS

LEMMA FrontOf ==
  ASSUME NEW S, NEW s \in Seq(S), s # <<>>
  PROVE  /\ Front(s) \in Seq(S) /\ Len(Front(s)) = Len(s) - 1
         /\ DOMAIN Front(s) = 1 .. Len(s) - 1
         /\ \A i \in 1 .. Len(s) - 1 : Front(s)[i] = s[i]
<1>1. Len(s) \in Nat /\ Len(s) > 0 /\ DOMAIN s = 1 .. Len(s)
  BY NonEmpty
<1>2. \A i \in 1 .. Len(s) - 1 : s[i] \in S
  BY <1>1
<1>3. /\ SubSeq(s, 1, Len(s) - 1) \in Seq(S)
      /\ Len(SubSeq(s, 1, Len(s) - 1)) = IF 1 <= Len(s) - 1 THEN Len(s) - 1 - 1 + 1 ELSE 0
      /\ \A i \in 1 .. Len(s) - 1 - 1 + 1 : SubSeq(s, 1, Len(s) - 1)[i] = s[1 + i - 1]
  BY <1>1, <1>2, SubSeqProperties
<1> HIDE DEF Front
<1>4. Front(s) \in Seq(S) /\ Len(Front(s)) = Len(s) - 1
  BY <1>1, <1>3 DEF Front
<1>5. \A i \in 1 .. Len(s) - 1 : Front(s)[i] = s[i]
  BY <1>1, <1>3 DEF Front
<1> QED
  BY <1>4, <1>5

LEMMA ReplacedAt ==
  ASSUME NEW S, NEW s \in Seq(S), NEW m \in DOMAIN s, NEW e \in S
  PROVE  LET t == [s EXCEPT ![m] = e]
         IN  /\ t \in Seq(S) /\ DOMAIN t = DOMAIN s /\ Len(t) = Len(s)
             /\ t[m] = e
             /\ \A i \in DOMAIN s : i # m => t[i] = s[i]
OBVIOUS

LEMMA Appended ==
  ASSUME NEW S, NEW s \in Seq(S), NEW e \in S
  PROVE  LET t == Append(s, e)
         IN  /\ t \in Seq(S) /\ Len(t) = Len(s) + 1 /\ Len(s) \in Nat
             /\ DOMAIN t = DOMAIN s \cup {Len(s) + 1} /\ Len(s) + 1 \notin DOMAIN s
             /\ DOMAIN s = 1 .. Len(s)
             /\ \A i \in DOMAIN s : t[i] = s[i]
             /\ t[Len(s) + 1] = e
OBVIOUS

-------------------------------------------------------------------------------
(* The stack of jmp_bufs *)

(* Levels in ascending order are as many as there are.                     *)
LEMMA AscendingLength ==
  ASSUME NEW n \in Nat, NEW js \in Seq(1 .. n), NEW S, Ascending(js, S), NEW m \in Nat,
         S \subseteq 1 .. m
  PROVE  Len(js) <= m
<1>1. /\ Len(js) \in Nat /\ DOMAIN js = 1 .. Len(js)
      /\ \A i \in DOMAIN js : js[i] \in 1 .. m
      /\ \A i \in DOMAIN js : js[i] \in Nat
  BY SeqElement DEF Ascending
<1>2. ASSUME NEW i \in DOMAIN js, NEW j \in DOMAIN js, js[i] = js[j] PROVE i = j
  <2>1. i \in Nat /\ j \in Nat /\ js[i] \in Nat /\ js[j] \in Nat
    BY <1>1
  <2>2. ~(js[i] < js[j]) /\ ~(js[j] < js[i])
    BY <1>2, <2>1
  <2>3. ~(i < j) /\ ~(j < i)
    BY <2>2 DEF Ascending
  <2> QED
    BY <2>1, <2>3
<1>3. js = [i \in 1 .. Len(js) |-> js[i]]
  BY <1>1
<1>4. js \in [1 .. Len(js) -> 1 .. m]
  BY <1>1, <1>3
<1> DEFINE k == Len(js)
<1>5. k \in Nat
  OBVIOUS
<1> HIDE DEF k
<1>6. /\ IsFiniteSet(1 .. m) /\ Cardinality(1 .. m) = m
      /\ IsFiniteSet(1 .. k) /\ Cardinality(1 .. k) = k
  BY <1>5, FS_Interval
<1>7. ASSUME m < k PROVE FALSE
  <2>1. Cardinality(1 .. m) < Cardinality(1 .. k)
    BY <1>6, <1>7
  <2>2. js \in [1 .. k -> 1 .. m]
    BY <1>4 DEF k
  <2>3. \E x, y \in 1 .. k : x # y /\ js[x] = js[y]
    BY <1>6, <2>1, <2>2, FS_PigeonHole
  <2> QED
    BY <1>1, <1>2, <2>3 DEF k
<1> QED
  BY <1>5, <1>7 DEF k

(* The innermost level is the last one.                                    *)
LEMMA LastOfAscending ==
  ASSUME NEW n \in Nat, NEW js \in Seq(1 .. n), NEW S, Ascending(js, S), n \in S
  PROVE  js # <<>> /\ Last(js) = n
<1>1. PICK i \in DOMAIN js : js[i] = n
  BY DEF Ascending
<1>2. /\ Len(js) \in Nat /\ DOMAIN js = 1 .. Len(js) /\ Len(js) \in DOMAIN js
      /\ js[Len(js)] \in 1 .. n
  BY <1>1
<1>3. i < Len(js) => js[i] < js[Len(js)]
  BY <1>2 DEF Ascending
<1>4. i = Len(js)
  BY <1>1, <1>2, <1>3
<1> QED
  BY <1>1, <1>2, <1>4 DEF Last

LEMMA LastInAscending ==
  ASSUME NEW n \in Nat, NEW js \in Seq(1 .. n), js # <<>>, NEW S, Ascending(js, S)
  PROVE  Last(js) \in S
<1>1. Len(js) \in DOMAIN js
  BY NonEmpty
<1> QED
  BY <1>1 DEF Ascending, Last

LEMMA AscendingPopped ==
  ASSUME NEW n \in Nat, NEW js \in Seq(1 .. n), js # <<>>, NEW S, Ascending(js, S), Last(js) = n
  PROVE  /\ Front(js) \in Seq(1 .. n) /\ Len(Front(js)) = Len(js) - 1
         /\ Ascending(Front(js), S \ {n})
<1>1. /\ Front(js) \in Seq(1 .. n) /\ Len(Front(js)) = Len(js) - 1
      /\ DOMAIN Front(js) = 1 .. Len(js) - 1
      /\ \A i \in 1 .. Len(js) - 1 : Front(js)[i] = js[i]
  BY FrontOf
<1>2. Len(js) \in Nat /\ Len(js) > 0 /\ DOMAIN js = 1 .. Len(js) /\ js[Len(js)] = n
  BY NonEmpty DEF Last
<1>3. \A i \in 1 .. Len(js) - 1 : js[i] < n
  BY <1>2 DEF Ascending
<1>4. {Front(js)[i] : i \in DOMAIN Front(js)} = S \ {n}
  <2>1. ASSUME NEW i \in DOMAIN Front(js) PROVE Front(js)[i] \in S \ {n}
    <3>1. i \in DOMAIN js /\ Front(js)[i] = js[i] /\ js[i] < n
      BY <1>1, <1>2, <1>3, <2>1
    <3>2. js[i] \in S /\ js[i] \in Nat
      BY <3>1, SeqElement DEF Ascending
    <3> QED
      BY <3>1, <3>2
  <2>2. ASSUME NEW l \in S \ {n} PROVE \E i \in DOMAIN Front(js) : Front(js)[i] = l
    <3>1. PICK i \in DOMAIN js : js[i] = l
      BY DEF Ascending
    <3>2. i \in 1 .. Len(js) - 1
      BY <1>2, <3>1
    <3> QED
      BY <1>1, <3>1, <3>2
  <2> QED
    BY <2>1, <2>2
<1>5. ASSUME NEW i \in DOMAIN Front(js), NEW j \in DOMAIN Front(js), i < j
      PROVE  Front(js)[i] < Front(js)[j]
  <2>0. i \in 1 .. Len(js) - 1 /\ j \in 1 .. Len(js) - 1
    BY <1>1
  <2>1. i \in DOMAIN js /\ j \in DOMAIN js
    BY <1>2, <2>0
  <2>2. Front(js)[i] = js[i] /\ Front(js)[j] = js[j]
    BY <1>1, <2>0
  <2> QED
    BY <1>5, <2>1, <2>2 DEF Ascending
<1> QED
  BY <1>1, <1>4, <1>5 DEF Ascending

LEMMA AscendingPushed ==
  ASSUME NEW n \in Nat, n > 0, NEW js \in Seq(1 .. n), NEW S, Ascending(js, S), n \notin S
  PROVE  /\ Append(js, n) \in Seq(1 .. n) /\ Len(Append(js, n)) = Len(js) + 1
         /\ Ascending(Append(js, n), S \cup {n})
<1> DEFINE ks == Append(js, n)
<1>1. /\ ks \in Seq(1 .. n) /\ Len(ks) = Len(js) + 1 /\ Len(js) \in Nat
      /\ DOMAIN ks = DOMAIN js \cup {Len(js) + 1} /\ DOMAIN js = 1 .. Len(js)
      /\ \A i \in DOMAIN js : ks[i] = js[i]
      /\ ks[Len(js) + 1] = n
  BY Appended
<1> HIDE DEF ks
<1>2. \A i \in DOMAIN js : js[i] < n
  BY SeqElement DEF Ascending
<1>3. {ks[i] : i \in DOMAIN ks} = S \cup {n}
  <2>1. ASSUME NEW i \in DOMAIN ks PROVE ks[i] \in S \cup {n}
    BY <1>1, <2>1 DEF Ascending
  <2>2. ASSUME NEW l \in S \cup {n} PROVE \E i \in DOMAIN ks : ks[i] = l
    BY <1>1, <2>2 DEF Ascending
  <2> QED
    BY <2>1, <2>2
<1>4. ASSUME NEW i \in DOMAIN ks, NEW j \in DOMAIN ks, i < j PROVE ks[i] < ks[j]
  <2>1. i \in DOMAIN js
    BY <1>1, <1>4
  <2> QED
    BY <1>1, <1>2, <1>4, <2>1 DEF Ascending
<1> QED
  BY <1>1, <1>3, <1>4 DEF Ascending, ks

-------------------------------------------------------------------------------
(* The parts of a test *)

LEMMA FrameFields ==
  ASSUME NEW f \in Frame
  PROVE  /\ f.test \in Nat /\ f.pc \in UserCode \cup {"next"} /\ f.saved \in Saved
         /\ f.runs \in Nat /\ f.ignored \in Nat /\ f.filtered \in Nat /\ f.failures \in Nat
         /\ f.hasFailed \in BOOLEAN /\ f.plugins \in BOOLEAN
         /\ f.ran \in [UserCode -> Nat] /\ f.broken \in Nat /\ f.raised \in Nat /\ f.before \in Nat
BY DEF Frame

LEMMA PcKinds ==
  /\ UserCode = {"pre", "create", "setup", "body", "teardown", "destroy", "post"}
  /\ Sections \subseteq UserCode /\ "next" \notin UserCode
BY DEF UserCode, Sections

(* The frame f once it goes on with the part pc.                           *)
Entered(f, pc) ==
  [f EXCEPT !.pc = pc, !.ran = [u \in UserCode |-> f.ran[u] + IF u = pc THEN 1 ELSE 0]]

LEMMA EnteredFields ==
  ASSUME NEW f \in Frame, NEW pc \in UserCode \cup {"next"}
  PROVE  LET g == Entered(f, pc)
         IN  /\ g \in Frame /\ g.pc = pc
             /\ \A u \in UserCode : g.ran[u] = f.ran[u] + IF u = pc THEN 1 ELSE 0
             /\ g.test = f.test /\ g.saved = f.saved /\ g.runs = f.runs /\ g.ignored = f.ignored
             /\ g.failures = f.failures /\ g.hasFailed = f.hasFailed /\ g.plugins = f.plugins
             /\ g.broken = f.broken /\ g.raised = f.raised /\ g.before = f.before
<1> DEFINE ran == [u \in UserCode |-> f.ran[u] + IF u = pc THEN 1 ELSE 0]
           g == Entered(f, pc)
<1>1. f.ran \in [UserCode -> Nat]
  BY FrameFields
<1>2. ran \in [UserCode -> Nat] /\ \A u \in UserCode : ran[u] = f.ran[u] + IF u = pc THEN 1 ELSE 0
  BY <1>1
<1>3. g = [f EXCEPT !.pc = pc, !.ran = ran]
  BY DEF Entered
<1> HIDE DEF ran, g
<1>4. g \in Frame /\ g.pc = pc /\ g.ran = ran
  BY <1>2, <1>3 DEF Frame
<1>5. /\ g.test = f.test /\ g.saved = f.saved /\ g.runs = f.runs /\ g.ignored = f.ignored
      /\ g.failures = f.failures /\ g.hasFailed = f.hasFailed /\ g.plugins = f.plugins
      /\ g.broken = f.broken /\ g.raised = f.raised /\ g.before = f.before
  BY <1>3 DEF Frame
<1> QED
  BY <1>2, <1>4, <1>5 DEF g

(* Going on in order starts the part that was next.                        *)
LEMMA PendingFollowing ==
  ASSUME NEW pc \in UserCode, NEW u \in UserCode, u # "post" \/ hooks
  PROVE  Pending(u, Following(pc)) + (IF u = Following(pc) THEN 1 ELSE 0) = Pending(u, pc)
<1> USE PcKinds DEF Pending, Remaining, Following
<1>1. CASE pc = "pre"
  BY <1>1
<1>2. CASE pc = "create"
  BY <1>2
<1>3. CASE pc = "setup"
  BY <1>3
<1>4. CASE pc = "body"
  BY <1>4
<1>5. CASE pc = "teardown"
  BY <1>5
<1>6. CASE pc = "destroy"
  BY <1>6
<1>7. CASE pc = "post"
  BY <1>7
<1> QED
  BY <1>1, <1>2, <1>3, <1>4, <1>5, <1>6, <1>7

LEMMA FollowingIn ==
  ASSUME NEW pc \in UserCode
  PROVE  /\ Following(pc) \in UserCode \cup {"next"} /\ Following(pc) # "pre"
         /\ Following(pc) = "post" => hooks
BY PcKinds DEF Following

(* A jump leaves out the body if it leaves the setup, and nothing else.    *)
LEMMA PendingJump ==
  ASSUME NEW pc \in Sections, NEW u \in UserCode
  PROVE  LET new == FollowingJump(pc)
         IN  /\ new \in {"teardown", "destroy"}
             /\ u # "body" => Pending(u, new) + (IF u = new THEN 1 ELSE 0) = Pending(u, pc)
             /\ Pending("body", new) + (IF pc = "setup" THEN 1 ELSE 0) = Pending("body", pc)
BY PcKinds DEF Pending, Remaining, FollowingJump, Sections

LEMMA PendingType ==
  ASSUME NEW u, NEW pc
  PROVE  Pending(u, pc) \in {0, 1}
BY DEF Pending

LEMMA ReturnKeepsCounters ==
  ASSUME NEW f \in Frame, CountersOK(f), FailuresOK(f), f.pc \in UserCode, hooks = f.plugins
  PROVE  LET g == Entered(f, Following(f.pc))
         IN  g \in Frame /\ CountersOK(g) /\ FailuresOK(g)
<1> DEFINE new == Following(f.pc)
           g == Entered(f, new)
<1>1. new \in UserCode \cup {"next"} /\ new # "pre" /\ (new = "post" => f.plugins)
  BY FollowingIn
<1>2. \A u \in UserCode :
        u # "post" \/ f.plugins => Pending(u, new) + (IF u = new THEN 1 ELSE 0) = Pending(u, f.pc)
  BY PendingFollowing
<1>3. \A u \in UserCode : Pending(u, new) \in Nat /\ Pending(u, f.pc) \in Nat
  BY PendingType
<1> HIDE DEF new
<1>4. /\ g \in Frame /\ g.pc = new
      /\ \A u \in UserCode : g.ran[u] = f.ran[u] + IF u = new THEN 1 ELSE 0
      /\ g.runs = f.runs /\ g.plugins = f.plugins /\ g.broken = f.broken
      /\ g.failures = f.failures /\ g.hasFailed = f.hasFailed
      /\ g.raised = f.raised /\ g.before = f.before
  BY <1>1, EnteredFields
<1>5. f.ran \in [UserCode -> Nat] /\ f.broken \in Nat /\ f.runs \in Nat
  BY FrameFields
<1> HIDE DEF g
<1>6. ASSUME NEW u \in UserCode, u # "post" \/ f.plugins
      PROVE  g.ran[u] + Pending(u, new) = f.ran[u] + Pending(u, f.pc)
  BY <1>2, <1>3, <1>4, <1>5, <1>6
<1>7. CountersOK(g)
  <2>1. \A u \in {"create", "setup", "teardown", "destroy"} : g.ran[u] + Pending(u, g.pc) = g.runs
    BY <1>4, <1>6, PcKinds DEF CountersOK
  <2>2. g.ran["body"] + g.broken + Pending("body", g.pc) = g.runs
    <3>1. g.ran["body"] + Pending("body", new) = f.ran["body"] + Pending("body", f.pc)
      BY <1>6, PcKinds
    <3>2. f.ran["body"] + f.broken + Pending("body", f.pc) = f.runs
      BY DEF CountersOK
    <3>3. "body" \in UserCode /\ g.ran["body"] \in Nat
      BY <1>4, FrameFields, PcKinds
    <3> QED
      BY <1>3, <1>4, <1>5, <3>1, <3>2, <3>3
  <2>3. \A u \in {"pre", "post"} : g.plugins => g.ran[u] + Pending(u, g.pc) = g.runs
    BY <1>4, <1>6, PcKinds DEF CountersOK
  <2>4. \A u \in {"pre", "post"} : ~g.plugins => g.ran[u] = 0 /\ g.pc # u
    BY <1>1, <1>4, <1>5, PcKinds DEF CountersOK
  <2> QED
    BY <2>1, <2>2, <2>3, <2>4 DEF CountersOK
<1>8. FailuresOK(g)
  BY <1>4 DEF FailuresOK
<1> QED
  BY <1>4, <1>7, <1>8 DEF g, new

(* The frame f once its section has been left by a jump.                   *)
Left(f) == [f EXCEPT !.broken = @ + IF f.pc = "setup" THEN 1 ELSE 0]

LEMMA JumpKeepsCounters ==
  ASSUME NEW f \in Frame, CountersOK(f), FailuresOK(f), f.pc \in Sections
  PROVE  LET g == Entered(Left(f), FollowingJump(f.pc))
         IN  /\ g \in Frame /\ CountersOK(g) /\ FailuresOK(g)
             /\ g.pc \in {"teardown", "destroy"}
             /\ g.plugins = f.plugins /\ g.saved = f.saved
<1> DEFINE new == FollowingJump(f.pc)
           h == Left(f)
           g == Entered(h, new)
<1>1. new \in {"teardown", "destroy"} /\ new \in UserCode
  BY PendingJump, PcKinds
<1>2. /\ \A u \in UserCode \ {"body"} :
           Pending(u, new) + (IF u = new THEN 1 ELSE 0) = Pending(u, f.pc)
      /\ Pending("body", new) + (IF f.pc = "setup" THEN 1 ELSE 0) = Pending("body", f.pc)
  BY PendingJump, PcKinds
<1>3. \A u \in UserCode : Pending(u, new) \in Nat /\ Pending(u, f.pc) \in Nat
  BY PendingType
<1>4. /\ h \in Frame /\ h.ran = f.ran /\ h.runs = f.runs /\ h.plugins = f.plugins /\ h.saved = f.saved
      /\ h.broken = f.broken + (IF f.pc = "setup" THEN 1 ELSE 0)
      /\ h.failures = f.failures /\ h.hasFailed = f.hasFailed
      /\ h.raised = f.raised /\ h.before = f.before
  BY DEF Left, Frame
<1> HIDE DEF new, h
<1>5. /\ g \in Frame /\ g.pc = new
      /\ \A u \in UserCode : g.ran[u] = h.ran[u] + IF u = new THEN 1 ELSE 0
      /\ g.runs = h.runs /\ g.plugins = h.plugins /\ g.broken = h.broken /\ g.saved = h.saved
      /\ g.failures = h.failures /\ g.hasFailed = h.hasFailed
      /\ g.raised = h.raised /\ g.before = h.before
  BY <1>1, <1>4, EnteredFields
<1>6. f.ran \in [UserCode -> Nat] /\ f.broken \in Nat /\ f.runs \in Nat
  BY FrameFields
<1> HIDE DEF g
<1>7. ASSUME NEW u \in UserCode \ {"body"}
      PROVE  g.ran[u] + Pending(u, new) = f.ran[u] + Pending(u, f.pc)
  BY <1>2, <1>3, <1>4, <1>5, <1>6
<1>8. CountersOK(g)
  <2>1. \A u \in {"create", "setup", "teardown", "destroy"} : g.ran[u] + Pending(u, g.pc) = g.runs
    BY <1>4, <1>5, <1>7, PcKinds DEF CountersOK
  <2>2. g.ran["body"] + g.broken + Pending("body", g.pc) = g.runs
    <3>1. "body" \in UserCode /\ "body" # new
      BY <1>1, PcKinds
    <3>2. g.ran["body"] = f.ran["body"] /\ f.ran["body"] \in Nat
      BY <1>4, <1>5, <1>6, <3>1
    <3>3. f.ran["body"] + f.broken + Pending("body", f.pc) = f.runs
      BY DEF CountersOK
    <3> QED
      BY <1>2, <1>3, <1>4, <1>5, <1>6, <3>1, <3>2, <3>3
  <2>3. \A u \in {"pre", "post"} : g.plugins => g.ran[u] + Pending(u, g.pc) = g.runs
    BY <1>4, <1>5, <1>7, PcKinds DEF CountersOK
  <2>4. \A u \in {"pre", "post"} : ~g.plugins => g.ran[u] = 0 /\ g.pc # u
    BY <1>1, <1>4, <1>5, <1>6, PcKinds DEF CountersOK
  <2> QED
    BY <2>1, <2>2, <2>3, <2>4 DEF CountersOK
<1>9. FailuresOK(g)
  <2>1. f.pc \in UserCode
    BY PcKinds
  <2> QED
    BY <1>4, <1>5, <2>1 DEF FailuresOK
<1> QED
  BY <1>1, <1>4, <1>5, <1>8, <1>9 DEF g, h, new

-------------------------------------------------------------------------------
(* The steps of the runner *)

LEMMA EnterIs ==
  ASSUME NEW fs \in Seq(Frame), fs # <<>>, NEW pc
  PROVE  [fs EXCEPT ![Len(fs)].pc = pc,
                    ![Len(fs)].ran = [u \in UserCode |-> @[u] + IF u = pc THEN 1 ELSE 0]]
           = [fs EXCEPT ![Len(fs)] = Entered(fs[Len(fs)], pc)]
<1> DEFINE n == Len(fs)
           f == fs[n]
           gs == [fs EXCEPT ![n].pc = pc]
<1>1. n \in DOMAIN fs /\ f \in Frame
  BY NonEmpty, SeqElement
<1>2. gs = [fs EXCEPT ![n] = [f EXCEPT !.pc = pc]]
  OBVIOUS
<1>3. gs[n] = [f EXCEPT !.pc = pc] /\ gs[n].ran = f.ran
  BY <1>1, <1>2 DEF Frame
<1> QED
  BY <1>1, <1>2, <1>3 DEF Entered

(* fs are the active runs when one of them has done something: the runs    *)
(* around the innermost one are as they were, and it is the same run.      *)
SameRuns(fs) ==
  /\ fs \in Seq(Frame) /\ Len(fs) = Depths /\ DOMAIN fs = DOMAIN frames
  /\ \A l \in DOMAIN frames : l < Depths => fs[l] = frames[l]
  /\ fs[Depths].saved = Top.saved /\ fs[Depths].plugins = Top.plugins

LEMMA EnterStep ==
  ASSUME RunnerInv, status = "running", Top.pc \in UserCode,
         NEW fs, SameRuns(fs), NEW pc \in UserCode \cup {"next"},
         CountersOK(Entered(fs[Depths], pc)), FailuresOK(Entered(fs[Depths], pc)),
         NEW js \in Seq(DOMAIN frames), Len(js) <= Depth,
         Ascending(js, InSection(frames) \ {Depths}),
         Enter(fs, js, pc), UNCHANGED <<currentResult, hooks>>
  PROVE  RunnerInv'
<1> DEFINE n == Depths
           g == Entered(fs[n], pc)
           gs == [fs EXCEPT ![n] = g]
<1>1. /\ frames \in Seq(Frame) /\ frames # <<>> /\ jmp \in Seq(DOMAIN frames) /\ Len(jmp) <= Depth
      /\ \A l \in DOMAIN frames : CountersOK(frames[l]) /\ FailuresOK(frames[l])
      /\ NestedOK /\ currentResult = n /\ hooks = Top.plugins /\ currentTest = n
  BY DEF RunnerInv
<1>2. n \in Nat /\ n > 0 /\ DOMAIN frames = 1 .. n /\ n \in DOMAIN frames
  BY <1>1, NonEmpty DEF Depths
<1>3. /\ fs \in Seq(Frame) /\ Len(fs) = n /\ DOMAIN fs = DOMAIN frames /\ fs[n] \in Frame
      /\ \A l \in DOMAIN frames : l < n => fs[l] = frames[l]
      /\ fs[n].saved = Top.saved /\ fs[n].plugins = Top.plugins /\ fs # <<>>
  BY <1>2, SeqElement DEF SameRuns
<1>4. CASE pc \in Sections /\ TooDeep(js)
  <2>1. status' = "aborted" /\ frames' = frames /\ jmp' = jmp
    BY <1>4 DEF Enter
  <2>2. InSection(frames) \ {n} \subseteq 1 .. n - 1
    BY <1>2 DEF InSection
  <2>3. n - 1 \in Nat /\ js \in Seq(1 .. n)
    BY <1>2
  <2>4. Len(js) <= n - 1
    BY <1>2, <2>2, <2>3, AscendingLength
  <2>5. Depth < n
    BY <1>2, <1>4, <2>4, RunnerAssumption DEF TooDeep
  <2> QED
    BY <1>1, <1>2, <2>1, <2>5 DEF RunnerInv, Depths
<1>5. CASE ~(pc \in Sections /\ TooDeep(js))
  <2>1. /\ frames' = gs /\ status' = status
        /\ jmp' = IF pc \in Sections THEN Append(js, n) ELSE js
        /\ currentTest' = IF pc = "next" THEN 0 ELSE currentTest
    BY <1>3, <1>5, EnterIs DEF Enter
  <2>2. /\ g \in Frame /\ g.pc = pc /\ g.saved = Top.saved /\ g.plugins = Top.plugins
        /\ CountersOK(g) /\ FailuresOK(g)
    BY <1>3, EnteredFields
  <2> HIDE DEF g, n
  <2>3. /\ gs \in Seq(Frame) /\ DOMAIN gs = DOMAIN frames /\ Len(gs) = n
        /\ gs[n] = g
        /\ \A l \in DOMAIN frames : l < n => gs[l] = frames[l]
    <3>1. /\ gs \in Seq(Frame) /\ DOMAIN gs = DOMAIN fs /\ Len(gs) = Len(fs)
          /\ gs[n] = g
          /\ \A l \in DOMAIN fs : l # n => gs[l] = fs[l]
      BY <1>2, <1>3, <2>2, ReplacedAt
    <3> QED
      BY <1>2, <1>3, <3>1
  <2> HIDE DEF gs
  <2>0. n \in Nat /\ n > 0 /\ DOMAIN frames = 1 .. n
    BY <1>2 DEF n
  <2>4. gs # <<>> /\ \A l \in DOMAIN gs : CountersOK(gs[l]) /\ FailuresOK(gs[l])
    <3>1. gs # <<>>
      BY <2>0, <2>3
    <3>2. ASSUME NEW l \in DOMAIN gs PROVE CountersOK(gs[l]) /\ FailuresOK(gs[l])
      <4>1. l \in DOMAIN frames /\ (l < n \/ l = n)
        BY <2>0, <2>3
      <4> QED
        BY <1>1, <2>2, <2>3, <4>1
    <3> QED
      BY <3>1, <3>2
  <2>5. InSection(gs) = (InSection(frames) \ {n}) \cup (IF pc \in Sections THEN {n} ELSE {})
    <3>1. ASSUME NEW l \in DOMAIN frames, l # n PROVE gs[l] = frames[l]
      BY <2>0, <2>3, <3>1
    <3>2. n \in DOMAIN frames
      BY <2>0
    <3>3. CASE pc \in Sections
      BY <2>2, <2>3, <3>1, <3>2, <3>3 DEF InSection
    <3>4. CASE pc \notin Sections
      BY <2>2, <2>3, <3>1, <3>2, <3>4 DEF InSection
    <3> QED
      BY <3>3, <3>4
  <2>6. jmp' \in Seq(DOMAIN gs) /\ Len(jmp') <= Depth /\ Ascending(jmp', InSection(gs))
    <3>1. CASE pc \in Sections
      <4>1. js \in Seq(1 .. n) /\ Len(js) \in Nat /\ Len(js) < Depth
        BY <1>2, <1>5, <3>1, RunnerAssumption DEF TooDeep
      <4>2. /\ Append(js, n) \in Seq(1 .. n) /\ Len(Append(js, n)) = Len(js) + 1
            /\ Ascending(Append(js, n), (InSection(frames) \ {n}) \cup {n})
        BY <1>2, <4>1, AscendingPushed DEF n
      <4> QED
        BY <1>2, <2>1, <2>3, <2>5, <3>1, <4>1, <4>2, RunnerAssumption
    <3>2. CASE pc \notin Sections
      BY <2>1, <2>3, <2>5, <3>2 DEF n
    <3> QED
      BY <3>1, <3>2
  <2>7. \A l \in DOMAIN gs : l < n =>
          gs[l].pc \in UserCode
          /\ gs[l + 1].saved = [test |-> l, result |-> l, hooks |-> gs[l].plugins]
    <3> SUFFICES ASSUME NEW l \in DOMAIN gs, l < n
                 PROVE  /\ gs[l].pc \in UserCode
                        /\ gs[l + 1].saved = [test |-> l, result |-> l, hooks |-> gs[l].plugins]
      OBVIOUS
    <3>1. /\ gs[l] = frames[l] /\ frames[l].pc \in UserCode
          /\ frames[l + 1].saved = [test |-> l, result |-> l, hooks |-> frames[l].plugins]
      BY <1>1, <2>3 DEF NestedOK, n
    <3>2. gs[l + 1].saved = frames[l + 1].saved
      <4>1. l + 1 \in DOMAIN frames /\ l \in Nat
        BY <1>2, <2>3
      <4>2. CASE l + 1 < n
        BY <2>3, <4>1, <4>2
      <4>3. CASE l + 1 = n
        BY <2>2, <2>3, <4>3 DEF Top, n
      <4> QED
        BY <1>2, <4>1, <4>2, <4>3
    <3> QED
      BY <3>1, <3>2
  <2>8. Depths' = n /\ Top' = g
    BY <2>1, <2>3 DEF Depths, Top
  <2>9. NestedOK'
    BY <2>1, <2>7, <2>8 DEF NestedOK
  <2>10. currentResult' = Depths' /\ hooks' = Top'.plugins /\ (Top'.pc \in UserCode => currentTest' = Depths')
    BY <1>1, <2>1, <2>2, <2>8, PcKinds DEF n
  <2> QED
    BY <2>1, <2>3, <2>4, <2>6, <2>8, <2>9, <2>10 DEF RunnerInv
<1> QED
  BY <1>4, <1>5

LEMMA ReturnStep ==
  ASSUME RunnerInv, Return
  PROVE  RunnerInv'
<1> DEFINE js == IF Top.pc \in Sections THEN Front(jmp) ELSE jmp
           pc == Following(Top.pc)
<1>1. /\ status = "running" /\ Top.pc \in UserCode /\ Enter(frames, js, pc)
      /\ UNCHANGED <<currentResult, hooks>>
  BY DEF Return
<1>2. /\ frames \in Seq(Frame) /\ frames # <<>> /\ jmp \in Seq(DOMAIN frames) /\ Len(jmp) <= Depth
      /\ \A l \in DOMAIN frames : CountersOK(frames[l]) /\ FailuresOK(frames[l])
      /\ hooks = Top.plugins /\ Ascending(jmp, InSection(frames))
  BY <1>1 DEF RunnerInv
<1>3. /\ Depths \in Nat /\ Depths > 0 /\ DOMAIN frames = 1 .. Depths /\ Depths \in DOMAIN frames
      /\ Top \in Frame /\ Top = frames[Depths]
  BY <1>2, NonEmpty, SeqElement DEF Depths, Top
<1>4. SameRuns(frames)
  BY <1>2, <1>3 DEF SameRuns, Depths
<1>5. CountersOK(Entered(Top, pc)) /\ FailuresOK(Entered(Top, pc)) /\ pc \in UserCode \cup {"next"}
  BY <1>1, <1>2, <1>3, ReturnKeepsCounters, FollowingIn
<1>6. js \in Seq(DOMAIN frames) /\ Len(js) <= Depth /\ Ascending(js, InSection(frames) \ {Depths})
  <2>1. CASE Top.pc \in Sections
    <3>1. Depths \in InSection(frames) /\ jmp \in Seq(1 .. Depths)
      BY <1>2, <1>3, <2>1 DEF InSection
    <3>2. jmp # <<>> /\ Last(jmp) = Depths
      BY <1>2, <1>3, <3>1, LastOfAscending
    <3>3. /\ Front(jmp) \in Seq(1 .. Depths) /\ Len(Front(jmp)) = Len(jmp) - 1
          /\ Ascending(Front(jmp), InSection(frames) \ {Depths})
      BY <1>2, <1>3, <3>1, <3>2, AscendingPopped
    <3>4. Len(jmp) \in Nat
      BY <1>2
    <3> QED
      BY <1>2, <1>3, <2>1, <3>3, <3>4, RunnerAssumption
  <2>2. CASE Top.pc \notin Sections
    <3>1. InSection(frames) \ {Depths} = InSection(frames)
      BY <1>3, <2>2 DEF InSection
    <3> QED
      BY <1>2, <2>2, <3>1
  <2> QED
    BY <2>1, <2>2
<1> HIDE DEF js, pc
<1> QED
  BY <1>1, <1>3, <1>4, <1>5, <1>6, EnterStep

-------------------------------------------------------------------------------
(* Failures *)

(* The frame f once code of its test has reported a failure.               *)
Raised(f) == [f EXCEPT !.raised = @ + 1, !.failures = @ + 1, !.hasFailed = TRUE]

LEMMA RaisedFields ==
  ASSUME NEW f \in Frame, CountersOK(f), FailuresOK(f)
  PROVE  LET g == Raised(f)
         IN  /\ g \in Frame /\ CountersOK(g) /\ FailuresOK(g)
             /\ g.pc = f.pc /\ g.saved = f.saved /\ g.plugins = f.plugins
<1> DEFINE g == Raised(f)
<1>1. f.raised \in Nat /\ f.failures \in Nat /\ f.before \in Nat
  BY FrameFields
<1>2. /\ g \in Frame /\ g.pc = f.pc /\ g.saved = f.saved /\ g.plugins = f.plugins
      /\ g.ran = f.ran /\ g.broken = f.broken /\ g.runs = f.runs /\ g.before = f.before
      /\ g.raised = f.raised + 1 /\ g.failures = f.failures + 1 /\ g.hasFailed
  <2> DEFINE r == f.raised + 1
             k == f.failures + 1
  <2>1. g = [f EXCEPT !.raised = r, !.failures = k, !.hasFailed = TRUE] /\ r \in Nat /\ k \in Nat
    BY <1>1 DEF Raised
  <2> HIDE DEF r, k, g
  <2>2. g \in Frame
    BY <2>1 DEF Frame
  <2>3. g.raised = r /\ g.failures = k /\ g.hasFailed
    BY <2>1 DEF Frame
  <2>4. /\ g.pc = f.pc /\ g.saved = f.saved /\ g.plugins = f.plugins
        /\ g.ran = f.ran /\ g.broken = f.broken /\ g.runs = f.runs /\ g.before = f.before
    BY <2>1 DEF Frame
  <2> QED
    BY <2>2, <2>3, <2>4 DEF r, k
<1> HIDE DEF g
<1>3. CountersOK(g)
  BY <1>2 DEF CountersOK
<1>4. FailuresOK(g)
  BY <1>1, <1>2 DEF FailuresOK
<1> QED
  BY <1>2, <1>3, <1>4 DEF g

(* The failure changes the innermost run only.                             *)
LEMMA CountedIs ==
  ASSUME RunnerInv, status = "running", Top.pc \in UserCode
  PROVE  Counted = [frames EXCEPT ![Depths] = Raised(Top)]
<1> DEFINE n == Depths
           up(l) == [frames EXCEPT ![n].raised = @ + 1][l]
<1>1. frames \in Seq(Frame) /\ frames # <<>> /\ currentResult = n /\ currentTest = n
  BY DEF RunnerInv
<1>2. n \in DOMAIN frames /\ DOMAIN frames = 1 .. n /\ \A l \in DOMAIN frames : frames[l] \in Frame
  BY <1>1, NonEmpty, SeqElement DEF Depths
<1>3. Counted = [l \in DOMAIN frames |->
                   [up(l) EXCEPT !.failures = @ + IF l = n THEN 1 ELSE 0, !.hasFailed = @ \/ l = n]]
  BY <1>1 DEF Counted
<1>4. ASSUME NEW l \in DOMAIN frames, l # n
      PROVE  [up(l) EXCEPT !.failures = @ + IF l = n THEN 1 ELSE 0, !.hasFailed = @ \/ l = n]
               = frames[l]
  <2> DEFINE f == frames[l]
             b == f.hasFailed \/ l = n
             k == f.failures + IF l = n THEN 1 ELSE 0
  <2>1. f \in Frame /\ up(l) = f
    BY <1>2, <1>4
  <2>2. f.failures \in Nat /\ f.hasFailed \in BOOLEAN
    BY <2>1, FrameFields
  <2>3. b = f.hasFailed
    BY <1>4, <2>2
  <2>4. k = f.failures
    BY <1>4, <2>2
  <2>5. [up(l) EXCEPT !.failures = @ + IF l = n THEN 1 ELSE 0, !.hasFailed = @ \/ l = n]
          = [f EXCEPT !.failures = k, !.hasFailed = b]
    BY <2>1 DEF Frame
  <2> HIDE DEF b, k, up, n
  <2>6. [f EXCEPT !.failures = k, !.hasFailed = b] = f
    BY <2>1, <2>3, <2>4 DEF Frame
  <2> QED
    BY <2>5, <2>6
<1>5. [up(n) EXCEPT !.failures = @ + IF n = n THEN 1 ELSE 0, !.hasFailed = @ \/ n = n] = Raised(Top)
  <2> DEFINE f == frames[n]
             b == f.hasFailed \/ n = n
  <2>1. f \in Frame /\ f = Top
    BY <1>2 DEF Top
  <2>2. up(n) = [f EXCEPT !.raised = @ + 1]
    BY <1>2
  <2>3. b = TRUE
    OBVIOUS
  <2> DEFINE g == [f EXCEPT !.raised = @ + 1]
  <2>4. [up(n) EXCEPT !.failures = @ + IF n = n THEN 1 ELSE 0, !.hasFailed = @ \/ n = n]
          = [f EXCEPT !.raised = @ + 1, !.failures = @ + 1, !.hasFailed = b]
    <3>1. g.failures = f.failures /\ g.hasFailed = f.hasFailed
      BY <2>1 DEF Frame
    <3>2. [up(n) EXCEPT !.failures = @ + IF n = n THEN 1 ELSE 0, !.hasFailed = @ \/ n = n]
            = [g EXCEPT !.failures = g.failures + 1, !.hasFailed = g.hasFailed \/ n = n]
      BY <2>2
    <3>3. [g EXCEPT !.failures = f.failures + 1, !.hasFailed = b]
            = [f EXCEPT !.raised = @ + 1, !.failures = @ + 1, !.hasFailed = b]
      OBVIOUS
    <3> QED
      BY <3>1, <3>2, <3>3
  <2> QED
    BY <2>1, <2>3, <2>4 DEF Raised
<1> HIDE DEF up
<1>6. Counted = [l \in DOMAIN frames |-> IF l = n THEN Raised(Top) ELSE frames[l]]
  <2> DEFINE e(l) == [up(l) EXCEPT !.failures = @ + IF l = n THEN 1 ELSE 0, !.hasFailed = @ \/ l = n]
  <2>1. \A l \in DOMAIN frames : e(l) = IF l = n THEN Raised(Top) ELSE frames[l]
    BY <1>4, <1>5
  <2>2. Counted = [l \in DOMAIN frames |-> e(l)]
    BY <1>3
  <2> HIDE DEF e
  <2> QED
    BY <2>1, <2>2
<1> DEFINE g == Raised(Top)
<1> HIDE DEF g
<1>7. frames = [l \in DOMAIN frames |-> frames[l]]
  BY <1>1
<1>8. [frames EXCEPT ![n] = g] = [l \in DOMAIN frames |-> IF l = n THEN g ELSE frames[l]]
  BY <1>7
<1> QED
  BY <1>6, <1>8 DEF g

LEMMA CountedRuns ==
  ASSUME RunnerInv, status = "running", Top.pc \in UserCode
  PROVE  /\ SameRuns(Counted) /\ Counted # <<>>
         /\ Counted[Depths] \in Frame /\ CountersOK(Counted[Depths]) /\ FailuresOK(Counted[Depths])
         /\ Counted[Depths].pc = Top.pc
<1>1. /\ frames \in Seq(Frame) /\ frames # <<>>
      /\ \A l \in DOMAIN frames : CountersOK(frames[l]) /\ FailuresOK(frames[l])
  BY DEF RunnerInv
<1>2. /\ Depths \in Nat /\ Depths > 0 /\ DOMAIN frames = 1 .. Depths /\ Depths \in DOMAIN frames
      /\ Top \in Frame /\ Top = frames[Depths]
  BY <1>1, NonEmpty, SeqElement DEF Depths, Top
<1> DEFINE g == Raised(Top)
<1>3. /\ g \in Frame /\ CountersOK(g) /\ FailuresOK(g)
      /\ g.pc = Top.pc /\ g.saved = Top.saved /\ g.plugins = Top.plugins
  BY <1>1, <1>2, RaisedFields
<1>4. Counted = [frames EXCEPT ![Depths] = g]
  BY CountedIs
<1> HIDE DEF g
<1>5. /\ Counted \in Seq(Frame) /\ DOMAIN Counted = DOMAIN frames /\ Len(Counted) = Len(frames)
      /\ Counted[Depths] = g
      /\ \A l \in DOMAIN frames : l # Depths => Counted[l] = frames[l]
  BY <1>1, <1>2, <1>3, <1>4, ReplacedAt
<1> QED
  BY <1>1, <1>2, <1>3, <1>5 DEF SameRuns, Depths

(* The innermost run goes on without entering or leaving a section, or     *)
(* crashes.                                                                *)
LEMMA StayStep ==
  ASSUME RunnerInv, status = "running",
         NEW fs, SameRuns(fs), CountersOK(fs[Depths]), FailuresOK(fs[Depths]),
         fs[Depths].pc \in Sections <=> Top.pc \in Sections,
         fs[Depths].pc \in UserCode => currentTest' = Depths,
         frames' = fs, status' \in {"running", "crashed"},
         UNCHANGED <<jmp, currentResult, hooks>>
  PROVE  RunnerInv'
<1> DEFINE n == Depths
<1>1. /\ frames \in Seq(Frame) /\ frames # <<>> /\ jmp \in Seq(DOMAIN frames) /\ Len(jmp) <= Depth
      /\ \A l \in DOMAIN frames : CountersOK(frames[l]) /\ FailuresOK(frames[l])
      /\ NestedOK /\ currentResult = n /\ hooks = Top.plugins
      /\ Ascending(jmp, InSection(frames))
  BY DEF RunnerInv
<1>2. /\ n \in Nat /\ n > 0 /\ DOMAIN frames = 1 .. n /\ n \in DOMAIN frames /\ Top = frames[n]
  BY <1>1, NonEmpty DEF Depths, Top
<1>3. /\ fs \in Seq(Frame) /\ Len(fs) = n /\ DOMAIN fs = DOMAIN frames
      /\ \A l \in DOMAIN frames : l < n => fs[l] = frames[l]
      /\ fs[n].saved = Top.saved /\ fs[n].plugins = Top.plugins /\ fs # <<>>
  BY <1>2 DEF SameRuns
<1>4. \A l \in DOMAIN frames : /\ fs[l].pc \in Sections <=> frames[l].pc \in Sections
                               /\ fs[l].saved = frames[l].saved
  <2> SUFFICES ASSUME NEW l \in DOMAIN frames
               PROVE  /\ fs[l].pc \in Sections <=> frames[l].pc \in Sections
                      /\ fs[l].saved = frames[l].saved
    OBVIOUS
  <2>1. CASE l < n
    BY <1>3, <2>1
  <2>2. CASE l = n
    BY <1>2, <1>3, <2>2
  <2> QED
    BY <1>2, <2>1, <2>2
<1> HIDE DEF n
<1>5. \A l \in DOMAIN fs : CountersOK(fs[l]) /\ FailuresOK(fs[l])
  <2> SUFFICES ASSUME NEW l \in DOMAIN fs
               PROVE  CountersOK(fs[l]) /\ FailuresOK(fs[l])
    OBVIOUS
  <2>1. CASE l < n
    BY <1>1, <1>3, <2>1
  <2>2. CASE l = n
    BY <2>2 DEF n
  <2> QED
    BY <1>2, <1>3, <2>1, <2>2
<1>6. InSection(fs) = InSection(frames)
  BY <1>3, <1>4 DEF InSection
<1>7. Depths' = n /\ Top' = fs[n]
  BY <1>3 DEF Depths, Top
<1>8. NestedOK'
  <2> SUFFICES ASSUME NEW l \in DOMAIN fs, l < n
               PROVE  /\ fs[l].pc \in UserCode
                      /\ fs[l + 1].saved = [test |-> l, result |-> l, hooks |-> fs[l].plugins]
    BY <1>7 DEF NestedOK
  <2>1. fs[l] = frames[l] /\ l + 1 \in DOMAIN frames
    BY <1>2, <1>3
  <2>2. /\ frames[l].pc \in UserCode
        /\ frames[l + 1].saved = [test |-> l, result |-> l, hooks |-> frames[l].plugins]
    BY <1>1, <1>3 DEF NestedOK, n
  <2> QED
    BY <1>4, <2>1, <2>2
<1>9. /\ currentResult' = Depths' /\ hooks' = Top'.plugins
      /\ Top'.pc \in UserCode => currentTest' = Depths'
  BY <1>1, <1>3, <1>7 DEF n
<1> QED
  BY <1>1, <1>3, <1>5, <1>6, <1>7, <1>8, <1>9 DEF RunnerInv

LEMMA JumpStep ==
  ASSUME RunnerInv, status = "running", Top.pc \in UserCode, jmp # <<>> => Last(jmp) = Depths,
         NEW fs, SameRuns(fs), CountersOK(fs[Depths]), FailuresOK(fs[Depths]),
         fs[Depths].pc = Top.pc,
         Jump(fs), UNCHANGED <<currentResult, hooks>>
  PROVE  RunnerInv'
<1> DEFINE n == Depths
           new == FollowingJump(fs[n].pc)
           left == [fs EXCEPT ![n] = Left(fs[n])]
<1>1. /\ frames \in Seq(Frame) /\ frames # <<>> /\ jmp \in Seq(DOMAIN frames) /\ Len(jmp) <= Depth
      /\ Ascending(jmp, InSection(frames))
  BY DEF RunnerInv
<1>2. /\ n \in Nat /\ n > 0 /\ DOMAIN frames = 1 .. n /\ n \in DOMAIN frames /\ Top = frames[n]
  BY <1>1, NonEmpty DEF Depths, Top
<1>3. /\ fs \in Seq(Frame) /\ Len(fs) = n /\ DOMAIN fs = DOMAIN frames /\ fs[n] \in Frame
      /\ \A l \in DOMAIN frames : l < n => fs[l] = frames[l]
      /\ fs[n].saved = Top.saved /\ fs[n].plugins = Top.plugins /\ fs # <<>>
  BY <1>2, SeqElement DEF SameRuns
<1>4. CASE jmp = <<>>
  <2>1. frames' = fs /\ status' = status /\ UNCHANGED <<jmp, currentTest>>
    BY <1>4 DEF Jump
  <2>2. currentTest = n
    BY DEF RunnerInv
  <2> QED
    BY <2>1, <2>2, StayStep
<1>5. CASE jmp # <<>>
  <2>1. Last(jmp) = n /\ n \in InSection(frames) /\ Top.pc \in Sections
    <3>1. Last(jmp) = n
      BY <1>5
    <3>2. Last(jmp) \in InSection(frames)
      BY <1>1, <1>2, <1>5, LastInAscending
    <3> QED
      BY <1>2, <3>1, <3>2 DEF InSection
  <2>2. SubSeq(fs, 1, n) = fs
    BY <1>3, SubSeqFull
  <2>3. [SubSeq(fs, 1, n) EXCEPT ![n].broken = @ + IF fs[n].pc = "setup" THEN 1 ELSE 0] = left
    BY <2>2 DEF Left
  <2>4. Enter(left, Front(jmp), new)
    BY <1>5, <2>1, <2>3 DEF Jump
  <2>5. /\ Left(fs[n]) \in Frame /\ Left(fs[n]).saved = fs[n].saved
        /\ Left(fs[n]).plugins = fs[n].plugins
    <3> DEFINE f == fs[n]
               k == f.broken + IF f.pc = "setup" THEN 1 ELSE 0
    <3>1. f \in Frame /\ k \in Nat
      BY <1>3, FrameFields
    <3>2. Left(f) = [f EXCEPT !.broken = k]
      BY DEF Left
    <3> HIDE DEF f, k
    <3>3. Left(f) \in Frame /\ Left(f).saved = f.saved /\ Left(f).plugins = f.plugins
      BY <3>1, <3>2 DEF Frame
    <3> QED
      BY <3>3 DEF f
  <2>6. /\ left \in Seq(Frame) /\ DOMAIN left = DOMAIN fs /\ Len(left) = Len(fs)
        /\ left[n] = Left(fs[n])
        /\ \A l \in DOMAIN fs : l # n => left[l] = fs[l]
    BY <1>2, <1>3, <2>5, ReplacedAt
  <2>7. SameRuns(left)
    BY <1>2, <1>3, <2>5, <2>6 DEF SameRuns
  <2>8. /\ new \in UserCode
        /\ CountersOK(Entered(left[n], new)) /\ FailuresOK(Entered(left[n], new))
    <3>1. fs[n].pc \in Sections
      BY <2>1
    <3>2. new \in {"teardown", "destroy"}
      BY <3>1, PendingJump, PcKinds
    <3> QED
      BY <1>3, <2>6, <3>1, <3>2, JumpKeepsCounters, PcKinds
  <2>9. /\ Front(jmp) \in Seq(1 .. n) /\ Len(Front(jmp)) = Len(jmp) - 1
        /\ Ascending(Front(jmp), InSection(frames) \ {n})
    BY <1>1, <1>2, <1>5, <2>1, AscendingPopped
  <2>10. Len(Front(jmp)) <= Depth
    BY <1>1, <2>9, RunnerAssumption
  <2> HIDE DEF new, left
  <2> QED
    BY <1>2, <2>4, <2>7, <2>8, <2>9, <2>10, EnterStep
<1> QED
  BY <1>4, <1>5

LEMMA FailStep ==
  ASSUME ~Escapes, RunnerInv, Fail
  PROVE  RunnerInv'
<1>1. /\ status = "running" /\ Top.pc \in UserCode /\ (jmp # <<>> => Last(jmp) = Depths)
      /\ UNCHANGED <<currentResult, hooks>>
  BY DEF Fail, CanFail, Contained
<1>2. /\ SameRuns(Counted) /\ CountersOK(Counted[Depths]) /\ FailuresOK(Counted[Depths])
      /\ Counted[Depths].pc = Top.pc
  BY <1>1, CountedRuns
<1>3. \/ frames' = Counted /\ status' = "crashed" /\ UNCHANGED <<jmp, currentTest>>
      \/ Jump(Counted)
  BY DEF Fail
<1>4. currentTest = Depths
  BY <1>1 DEF RunnerInv
<1> HIDE DEF Counted
<1> QED
  BY <1>1, <1>2, <1>3, <1>4, JumpStep, StayStep

LEMMA AddFailureStep ==
  ASSUME RunnerInv, AddFailure
  PROVE  RunnerInv'
<1>1. /\ status = "running" /\ Top.pc \in UserCode /\ frames' = Counted /\ status' = "running"
      /\ UNCHANGED <<jmp, currentTest, currentResult, hooks>>
  BY DEF AddFailure, CanFail, globals
<1>2. /\ SameRuns(Counted) /\ CountersOK(Counted[Depths]) /\ FailuresOK(Counted[Depths])
      /\ Counted[Depths].pc = Top.pc
  BY <1>1, CountedRuns
<1>3. currentTest = Depths
  BY <1>1 DEF RunnerInv
<1> HIDE DEF Counted
<1> QED
  BY <1>1, <1>2, <1>3, StayStep

LEMMA ExitTestStep ==
  ASSUME ~Escapes, RunnerInv, ExitTest
  PROVE  RunnerInv'
<1>1. /\ status = "running" /\ Top.pc \in UserCode /\ (jmp # <<>> => Last(jmp) = Depths)
      /\ Jump(frames) /\ UNCHANGED <<currentResult, hooks>>
  BY DEF ExitTest, Contained
<1>2. /\ frames \in Seq(Frame) /\ frames # <<>>
      /\ \A l \in DOMAIN frames : CountersOK(frames[l]) /\ FailuresOK(frames[l])
  BY DEF RunnerInv
<1>3. /\ SameRuns(frames) /\ Depths \in DOMAIN frames /\ frames[Depths] = Top
  BY <1>2, NonEmpty DEF SameRuns, Depths, Top
<1> QED
  BY <1>1, <1>2, <1>3, JumpStep

-------------------------------------------------------------------------------
(* Tests and runs *)

LEMMA SkippedFields ==
  ASSUME NEW f \in Frame, CountersOK(f), FailuresOK(f), NEW g \in {Skipped(f), Ignored(f)}
  PROVE  /\ g \in Frame /\ CountersOK(g) /\ FailuresOK(g)
         /\ g.pc = f.pc /\ g.saved = f.saved /\ g.plugins = f.plugins
<1>1. f.test \in Nat /\ f.filtered \in Nat /\ f.ignored \in Nat
  BY FrameFields
<1> DEFINE t == f.test + 1
           a == f.filtered + 1
           b == f.ignored + 1
<1>2. t \in Nat /\ a \in Nat /\ b \in Nat
  BY <1>1
<1>3. \/ g = [f EXCEPT !.test = t, !.filtered = a]
      \/ g = [f EXCEPT !.test = t, !.ignored = b]
  <2>1. CASE g = Skipped(f)
    BY <2>1 DEF Skipped, Frame
  <2>2. CASE g = Ignored(f)
    BY <2>2 DEF Ignored, Frame
  <2> QED
    BY <2>1, <2>2
<1> HIDE DEF t, a, b
<1>4. /\ g \in Frame /\ g.pc = f.pc /\ g.saved = f.saved /\ g.plugins = f.plugins
      /\ g.ran = f.ran /\ g.broken = f.broken /\ g.runs = f.runs /\ g.before = f.before
      /\ g.raised = f.raised /\ g.failures = f.failures /\ g.hasFailed = f.hasFailed
  <2>1. CASE g = [f EXCEPT !.test = t, !.filtered = a]
    BY <1>2, <2>1 DEF Frame
  <2>2. CASE g = [f EXCEPT !.test = t, !.ignored = b]
    BY <1>2, <2>2 DEF Frame
  <2> QED
    BY <1>3, <2>1, <2>2
<1> QED
  BY <1>4 DEF CountersOK, FailuresOK

LEMMA BegunFields ==
  ASSUME NEW f \in Frame, CountersOK(f), FailuresOK(f), f.pc = "next",
         NEW pc, pc = IF f.plugins THEN "pre" ELSE "create"
  PROVE  LET g == Begun(f, pc)
         IN  /\ g \in Frame /\ CountersOK(g) /\ FailuresOK(g)
             /\ g.pc = pc /\ g.saved = f.saved /\ g.plugins = f.plugins
<1> DEFINE g == Begun(f, pc)
           t == f.test + 1
           r == f.runs + 1
           ran == [f.ran EXCEPT ![pc] = @ + 1]
<1>1. /\ f.test \in Nat /\ f.runs \in Nat /\ f.ran \in [UserCode -> Nat] /\ f.raised \in Nat
      /\ f.broken \in Nat /\ f.failures \in Nat /\ f.plugins \in BOOLEAN
  BY FrameFields
<1>2. pc \in UserCode \ Sections /\ (pc = "pre" \/ pc = "create")
  BY PcKinds DEF Sections
<1>3. /\ t \in Nat /\ r \in Nat /\ ran \in [UserCode -> Nat]
      /\ \A u \in UserCode : ran[u] = f.ran[u] + IF u = pc THEN 1 ELSE 0
  BY <1>1, <1>2
<1>4. g = [f EXCEPT !.test = t, !.runs = r, !.hasFailed = FALSE, !.before = f.raised,
                    !.pc = pc, !.ran = ran]
  BY DEF Begun
<1> HIDE DEF t, r, ran, g
<1>5. g \in Frame
  BY <1>1, <1>2, <1>3, <1>4 DEF Frame
<1>6. /\ g.pc = pc /\ g.saved = f.saved /\ g.plugins = f.plugins
      /\ g.ran = ran /\ g.broken = f.broken /\ g.runs = r /\ g.before = f.raised
  BY <1>4 DEF Frame
<1>7. g.raised = f.raised /\ g.failures = f.failures /\ ~g.hasFailed
  BY <1>4 DEF Frame
<1>8. CountersOK(g)
  <2>1. \A u \in UserCode : Pending(u, "next") = 0
    BY DEF Pending, Remaining
  <2>2. /\ pc = "pre" => \A u \in UserCode : Pending(u, pc) = IF u = "pre" THEN 0 ELSE 1
        /\ pc = "create" => \A u \in UserCode : Pending(u, pc) = IF u \in {"pre", "create"} THEN 0 ELSE 1
    BY PcKinds DEF Pending, Remaining
  <2> USE DEF r
  <2>3. \A u \in {"create", "setup", "teardown", "destroy"} : g.ran[u] + Pending(u, g.pc) = g.runs
    <3> SUFFICES ASSUME NEW u \in {"create", "setup", "teardown", "destroy"}
                 PROVE  g.ran[u] + Pending(u, g.pc) = g.runs
      OBVIOUS
    <3>1. u \in UserCode /\ f.ran[u] \in Nat /\ u # "pre"
      BY <1>1, PcKinds
    <3>2. f.ran[u] = f.runs
      BY <1>1, <2>1, <3>1 DEF CountersOK
    <3> QED
      BY <1>1, <1>2, <1>3, <1>6, <2>2, <3>1, <3>2
  <2>4. g.ran["body"] + g.broken + Pending("body", g.pc) = g.runs
    <3>1. "body" \in UserCode /\ f.ran["body"] \in Nat /\ "body" # pc
      BY <1>1, <1>2, PcKinds
    <3>2. f.ran["body"] + f.broken = f.runs
      BY <1>1, <2>1, <3>1 DEF CountersOK
    <3>3. Pending("body", pc) = 1
      BY <1>2, <2>2, <3>1
    <3> QED
      BY <1>1, <1>3, <1>6, <3>1, <3>2, <3>3
  <2>5. ASSUME NEW u \in {"pre", "post"}, g.plugins PROVE g.ran[u] + Pending(u, g.pc) = g.runs
    <3>1. u \in UserCode /\ f.ran[u] \in Nat /\ pc = "pre"
      BY <1>1, <1>6, <2>5, PcKinds
    <3>2. f.ran[u] = f.runs
      BY <1>1, <1>6, <2>1, <2>5, <3>1 DEF CountersOK
    <3> QED
      BY <1>1, <1>3, <1>6, <2>2, <3>1, <3>2
  <2>6. ASSUME NEW u \in {"pre", "post"}, ~g.plugins PROVE g.ran[u] = 0 /\ g.pc # u
    <3>1. u \in UserCode /\ pc = "create"
      BY <1>6, <2>6, PcKinds
    <3>2. f.ran[u] = 0
      BY <1>6, <2>6 DEF CountersOK
    <3> QED
      BY <1>1, <1>3, <1>6, <3>1, <3>2
  <2> QED
    BY <2>3, <2>4, <2>5, <2>6 DEF CountersOK
<1>9. FailuresOK(g)
  BY <1>1, <1>6, <1>7 DEF FailuresOK
<1> QED
  BY <1>5, <1>6, <1>8, <1>9 DEF g

LEMMA NextTestStep ==
  ASSUME RunnerInv, NextTest
  PROVE  RunnerInv'
<1> DEFINE n == Depths
           pc == IF hooks THEN "pre" ELSE "create"
<1>1. /\ status = "running" /\ Top.pc = "next" /\ status' = "running"
      /\ UNCHANGED <<jmp, currentResult, hooks>>
  BY DEF NextTest
<1>2. /\ frames \in Seq(Frame) /\ frames # <<>> /\ hooks = Top.plugins
      /\ \A l \in DOMAIN frames : CountersOK(frames[l]) /\ FailuresOK(frames[l])
  BY <1>1 DEF RunnerInv
<1>3. /\ n \in Nat /\ n > 0 /\ DOMAIN frames = 1 .. n /\ n \in DOMAIN frames
      /\ Top = frames[n] /\ Top \in Frame
  BY <1>2, NonEmpty, SeqElement DEF Depths, Top
<1>4. \/ frames' = [frames EXCEPT ![n] = Skipped(Top)]
      \/ frames' = [frames EXCEPT ![n] = Ignored(Top)]
      \/ frames' = [frames EXCEPT ![n] = Begun(Top, pc)] /\ currentTest' = n
  BY DEF NextTest
<1>5. ASSUME NEW g \in Frame, CountersOK(g), FailuresOK(g), g.saved = Top.saved,
             g.plugins = Top.plugins, g.pc \notin Sections, g.pc \in UserCode => currentTest' = n,
             frames' = [frames EXCEPT ![n] = g]
      PROVE  RunnerInv'
  <2> DEFINE fs == [frames EXCEPT ![n] = g]
  <2>1. /\ fs \in Seq(Frame) /\ DOMAIN fs = DOMAIN frames /\ Len(fs) = Len(frames)
        /\ fs[n] = g /\ \A l \in DOMAIN frames : l # n => fs[l] = frames[l]
    BY <1>2, <1>3, ReplacedAt
  <2>2. frames' = fs
    BY <1>5
  <2> HIDE DEF fs
  <2>3. SameRuns(fs)
    BY <1>3, <1>5, <2>1 DEF SameRuns, Depths
  <2>4. Top.pc \notin Sections
    BY <1>1 DEF Sections
  <2> QED
    BY <1>1, <1>5, <2>1, <2>2, <2>3, <2>4, StayStep
<1>6. CountersOK(Top) /\ FailuresOK(Top) /\ "next" \notin Sections /\ "next" \notin UserCode
  BY <1>2, <1>3, PcKinds
<1>7. ASSUME NEW g \in {Skipped(Top), Ignored(Top)}, frames' = [frames EXCEPT ![n] = g]
      PROVE  RunnerInv'
  <2>1. /\ g \in Frame /\ CountersOK(g) /\ FailuresOK(g)
        /\ g.pc = Top.pc /\ g.saved = Top.saved /\ g.plugins = Top.plugins
    BY <1>3, <1>6, SkippedFields
  <2> HIDE DEF n
  <2> QED
    BY <1>1, <1>5, <1>6, <1>7, <2>1
<1>8. CASE frames' = [frames EXCEPT ![n] = Begun(Top, pc)] /\ currentTest' = n
  <2>1. LET g == Begun(Top, pc)
        IN  /\ g \in Frame /\ CountersOK(g) /\ FailuresOK(g)
            /\ g.pc = pc /\ g.saved = Top.saved /\ g.plugins = Top.plugins
    BY <1>1, <1>2, <1>3, <1>6, BegunFields
  <2>2. pc \notin Sections
    BY DEF Sections
  <2> HIDE DEF pc
  <2> QED
    BY <1>5, <1>8, <2>1, <2>2
<1> QED
  BY <1>4, <1>7, <1>8

(* A run before its first test.                                            *)
LEMMA NewFrameOK ==
  ASSUME NEW saved \in Saved, NEW plugins \in BOOLEAN
  PROVE  LET g == NewFrame(saved, plugins)
         IN  /\ g \in Frame /\ CountersOK(g) /\ FailuresOK(g)
             /\ g.pc = "next" /\ g.saved = saved /\ g.plugins = plugins
             /\ g.test = 0 /\ g.runs = 0 /\ g.ignored = 0 /\ g.failures = 0
<1> DEFINE g == NewFrame(saved, plugins)
<1>1. /\ g.pc = "next" /\ g.saved = saved /\ g.plugins = plugins
      /\ g.test = 0 /\ g.runs = 0 /\ g.ignored = 0 /\ g.failures = 0
      /\ g.ran = [u \in UserCode |-> 0] /\ g.broken = 0 /\ g.raised = 0 /\ g.before = 0
  BY DEF NewFrame
<1>2. g \in Frame
  BY DEF NewFrame, Frame
<1> HIDE DEF g
<1>3. \A u \in UserCode : g.ran[u] = 0 /\ Pending(u, "next") = 0
  BY <1>1 DEF Pending, Remaining
<1>4. CountersOK(g)
  BY <1>1, <1>3, PcKinds DEF CountersOK
<1>5. FailuresOK(g)
  BY <1>1, PcKinds DEF FailuresOK
<1> QED
  BY <1>1, <1>2, <1>4, <1>5 DEF g

LEMMA StartNestedStep ==
  ASSUME RunnerInv, NEW plugins \in BOOLEAN, StartNested(plugins)
  PROVE  RunnerInv'
<1> DEFINE n == Depths
           saved == [test |-> currentTest, result |-> currentResult, hooks |-> hooks]
           on == hooks /\ plugins
           g == NewFrame(saved, on)
           fs == Append(frames, g)
<1>1. /\ status = "running" /\ status' = "running" /\ Top.pc \in UserCode
      /\ frames' = fs /\ (hooks' <=> on) /\ currentResult' = n + 1
      /\ UNCHANGED <<jmp, currentTest>>
  BY DEF StartNested
<1>2. /\ frames \in Seq(Frame) /\ frames # <<>> /\ jmp \in Seq(DOMAIN frames) /\ Len(jmp) <= Depth
      /\ \A l \in DOMAIN frames : CountersOK(frames[l]) /\ FailuresOK(frames[l])
      /\ NestedOK /\ currentResult = n /\ hooks = Top.plugins /\ currentTest = n
      /\ Ascending(jmp, InSection(frames))
  BY <1>1 DEF RunnerInv
<1>3. /\ n \in Nat /\ n > 0 /\ DOMAIN frames = 1 .. n /\ n \in DOMAIN frames
      /\ Top = frames[n] /\ Top \in Frame /\ Len(frames) = n
  BY <1>2, NonEmpty, SeqElement DEF Depths, Top
<1>4. Top.plugins \in BOOLEAN
  BY <1>3, FrameFields
<1>5. on \in BOOLEAN /\ saved \in Saved /\ saved = [test |-> n, result |-> n, hooks |-> Top.plugins]
  BY <1>2, <1>3, <1>4 DEF Saved
<1> HIDE DEF on, saved
<1>6. /\ g \in Frame /\ CountersOK(g) /\ FailuresOK(g)
      /\ g.pc = "next" /\ g.saved = saved /\ g.plugins = on
  BY <1>5, NewFrameOK
<1> HIDE DEF g
<1>7. /\ fs \in Seq(Frame) /\ Len(fs) = n + 1 /\ DOMAIN fs = DOMAIN frames \cup {n + 1}
      /\ n + 1 \notin DOMAIN frames /\ fs[n + 1] = g /\ fs # <<>>
      /\ \A l \in DOMAIN frames : fs[l] = frames[l]
  BY <1>2, <1>3, <1>6, Appended
<1> HIDE DEF fs, n
<1>8. \A l \in DOMAIN fs : CountersOK(fs[l]) /\ FailuresOK(fs[l])
  BY <1>2, <1>6, <1>7
<1>9. InSection(fs) = InSection(frames)
  <2>1. fs[n + 1].pc \notin Sections
    BY <1>6, <1>7, PcKinds
  <2> QED
    BY <1>7, <2>1 DEF InSection
<1>10. jmp \in Seq(DOMAIN fs)
  <2>1. /\ Len(jmp) \in Nat /\ jmp = [i \in 1 .. Len(jmp) |-> jmp[i]]
        /\ \A i \in 1 .. Len(jmp) : jmp[i] \in DOMAIN frames
    BY <1>2
  <2> QED
    BY <1>7, <2>1
<1>11. Depths' = n + 1 /\ Top' = g
  BY <1>1, <1>7 DEF Depths, Top
<1>12. NestedOK'
  <2> SUFFICES ASSUME NEW l \in DOMAIN fs, l < n + 1
               PROVE  /\ fs[l].pc \in UserCode
                      /\ fs[l + 1].saved = [test |-> l, result |-> l, hooks |-> fs[l].plugins]
    BY <1>1, <1>11 DEF NestedOK
  <2>1. l \in DOMAIN frames /\ l \in Nat /\ (l < n \/ l = n)
    BY <1>3, <1>7
  <2>2. CASE l < n
    <3>1. l + 1 \in DOMAIN frames
      BY <1>3, <2>1, <2>2
    <3> QED
      BY <1>2, <1>7, <2>1, <2>2, <3>1 DEF NestedOK, n
  <2>3. CASE l = n
    BY <1>1, <1>3, <1>5, <1>6, <1>7, <2>1, <2>3
  <2> QED
    BY <2>1, <2>2, <2>3
<1>13. currentResult' = Depths' /\ hooks' = Top'.plugins /\ Top'.pc \notin UserCode
  <2>1. hooks' = on
    BY <1>1, <1>5 DEF on, StartNested
  <2> QED
    BY <1>1, <1>6, <1>11, <2>1, PcKinds
<1> QED
  BY <1>1, <1>2, <1>7, <1>8, <1>9, <1>10, <1>11, <1>12, <1>13 DEF RunnerInv

LEMMA EndNestedStep ==
  ASSUME RunnerInv, EndNested
  PROVE  RunnerInv'
<1> DEFINE n == Depths
           fs == Front(frames)
<1>1. /\ status = "running" /\ status' = "running" /\ n > 1 /\ Top.pc = "next"
      /\ frames' = fs
      /\ currentTest' = Top.saved.test /\ currentResult' = Top.saved.result /\ hooks' = Top.saved.hooks
      /\ UNCHANGED jmp
  BY DEF EndNested
<1>2. /\ frames \in Seq(Frame) /\ frames # <<>> /\ jmp \in Seq(DOMAIN frames) /\ Len(jmp) <= Depth
      /\ \A l \in DOMAIN frames : CountersOK(frames[l]) /\ FailuresOK(frames[l])
      /\ NestedOK /\ Ascending(jmp, InSection(frames))
  BY <1>1 DEF RunnerInv
<1>3. /\ n \in Nat /\ DOMAIN frames = 1 .. n /\ n \in DOMAIN frames
      /\ Top = frames[n] /\ Len(frames) = n /\ n - 1 \in Nat /\ n - 1 < n /\ n - 1 + 1 = n
      /\ n - 1 \in DOMAIN frames
  BY <1>1, <1>2, NonEmpty DEF Depths, Top
<1>4. /\ fs \in Seq(Frame) /\ Len(fs) = n - 1 /\ DOMAIN fs = 1 .. n - 1
      /\ \A i \in 1 .. n - 1 : fs[i] = frames[i]
  BY <1>2, <1>3, FrontOf
<1>5. Top.saved = [test |-> n - 1, result |-> n - 1, hooks |-> frames[n - 1].plugins]
  BY <1>2, <1>3 DEF NestedOK
<1> HIDE DEF fs
<1>6. fs # <<>> /\ DOMAIN fs \subseteq DOMAIN frames /\ DOMAIN frames = DOMAIN fs \cup {n}
      /\ n \notin DOMAIN fs
  BY <1>1, <1>3, <1>4
<1> HIDE DEF n
<1>7. \A l \in DOMAIN fs : CountersOK(fs[l]) /\ FailuresOK(fs[l])
  BY <1>2, <1>4, <1>6
<1>8. InSection(fs) = InSection(frames)
  <2>1. frames[n].pc \notin Sections
    BY <1>1, <1>3, PcKinds
  <2> QED
    BY <1>4, <1>6, <2>1 DEF InSection
<1>9. jmp \in Seq(DOMAIN fs)
  <2>1. \A i \in DOMAIN jmp : jmp[i] \in DOMAIN fs
    BY <1>2, <1>8 DEF Ascending, InSection
  <2>2. Len(jmp) \in Nat /\ jmp = [i \in 1 .. Len(jmp) |-> jmp[i]] /\ DOMAIN jmp = 1 .. Len(jmp)
    BY <1>2
  <2> QED
    BY <2>1, <2>2
<1>10. Depths' = n - 1 /\ Top' = frames[n - 1]
  BY <1>1, <1>3, <1>4, <1>6 DEF Depths, Top
<1>11. NestedOK'
  <2> SUFFICES ASSUME NEW l \in DOMAIN fs, l < n - 1
               PROVE  /\ fs[l].pc \in UserCode
                      /\ fs[l + 1].saved = [test |-> l, result |-> l, hooks |-> fs[l].plugins]
    BY <1>1, <1>10 DEF NestedOK
  <2>1. l \in DOMAIN frames /\ l < n /\ l \in 1 .. n - 1 /\ l + 1 \in 1 .. n - 1
    BY <1>3, <1>4, <1>6
  <2>2. fs[l] = frames[l] /\ fs[l + 1] = frames[l + 1]
    BY <1>4, <2>1
  <2> QED
    BY <1>2, <2>1, <2>2 DEF NestedOK, n
<1>12. currentResult' = Depths' /\ hooks' = Top'.plugins /\ currentTest' = Depths'
  BY <1>1, <1>5, <1>10
<1> QED
  BY <1>1, <1>2, <1>4, <1>6, <1>7, <1>8, <1>9, <1>10, <1>11, <1>12 DEF RunnerInv

(* One run, before its first test and outside every section.               *)
Fresh ==
  /\ frames = <<NewFrame(NothingSaved, hooks)>> /\ jmp = <<>>
  /\ status = "running" /\ currentResult = 1 /\ hooks \in BOOLEAN

LEMMA FreshRun == Fresh => RunnerInv
<1> SUFFICES ASSUME Fresh PROVE RunnerInv
  OBVIOUS
<1> DEFINE g == NewFrame(NothingSaved, hooks)
<1>1. /\ frames = <<g>> /\ jmp = <<>> /\ status = "running" /\ currentResult = 1
      /\ hooks \in BOOLEAN
  BY DEF Fresh
<1>2. NothingSaved \in Saved
  BY DEF NothingSaved, Saved
<1>3. g \in Frame /\ CountersOK(g) /\ FailuresOK(g) /\ g.pc = "next" /\ g.plugins = hooks
  BY <1>1, <1>2, NewFrameOK
<1> HIDE DEF g
<1>4. frames \in Seq(Frame) /\ frames # <<>> /\ DOMAIN frames = {1} /\ frames[1] = g
  BY <1>1, <1>3
<1>5. Depths = 1 /\ Top = g
  BY <1>1 DEF Depths, Top
<1>6. jmp \in Seq(DOMAIN frames) /\ Len(jmp) <= Depth /\ DOMAIN jmp = {}
  BY <1>1, RunnerAssumption
<1>7. InSection(frames) = {}
  BY <1>3, <1>4, PcKinds DEF InSection
<1>8. Ascending(jmp, InSection(frames))
  BY <1>6, <1>7 DEF Ascending
<1>9. NestedOK
  BY <1>4, <1>5 DEF NestedOK
<1> QED
  BY <1>1, <1>3, <1>4, <1>5, <1>6, <1>8, <1>9, PcKinds DEF RunnerInv

LEMMA EndRunStep ==
  ASSUME RunnerInv, EndRun, hooks \in BOOLEAN
  PROVE  RunnerInv'
<1>1. status = "running" /\ Depths = 1 /\ Top.pc = "next" /\ UNCHANGED <<jmp, currentTest, hooks>>
  BY DEF EndRun
<1>2. /\ frames \in Seq(Frame) /\ jmp \in Seq(DOMAIN frames)
      /\ currentResult = 1 /\ Ascending(jmp, InSection(frames))
  BY <1>1 DEF RunnerInv
<1>3. CASE loop < Repeat
  <2>1. frames' = <<NewFrame(NothingSaved, hooks)>> /\ status' = "running" /\ currentResult' = 1
    BY <1>1, <1>2, <1>3 DEF EndRun
  <2>2. jmp' = <<>>
    <3>1. InSection(frames) = {}
      BY <1>1, <1>2, PcKinds DEF InSection, Depths, Top
    <3>2. DOMAIN jmp = {}
      BY <1>2, <3>1 DEF Ascending
    <3> QED
      BY <1>1, <1>2, <3>2
  <2>3. Fresh'
    BY <1>1, <2>1, <2>2 DEF Fresh, NewFrame
  <2> QED
    BY <2>3, FreshRun, PTL
<1>4. CASE ~(loop < Repeat)
  <2>1. status' = "done" /\ UNCHANGED <<frames, jmp>>
    BY <1>4 DEF EndRun
  <2> QED
    BY <2>1 DEF RunnerInv
<1> QED
  BY <1>3, <1>4

-------------------------------------------------------------------------------
(* The verdict *)

LEMMA VerdictInit ==
  ASSUME Init
  PROVE  VerdictOK
BY RunnerAssumption DEF Init, VerdictOK

LEMMA EnterKeepsTest ==
  ASSUME NEW fs, NEW js, NEW pc, Enter(fs, js, pc), currentTest \in Nat
  PROVE  currentTest' \in Nat
BY DEF Enter

LEMMA JumpKeepsTest ==
  ASSUME NEW fs, Jump(fs), currentTest \in Nat
  PROVE  currentTest' \in Nat
<1>1. CASE jmp = <<>>
  BY <1>1 DEF Jump
<1>2. CASE jmp # <<>>
  BY <1>2, EnterKeepsTest DEF Jump
<1> QED
  BY <1>1, <1>2

LEMMA VerdictStep ==
  ASSUME RunnerInv, VerdictOK, [Next]_vars
  PROVE  VerdictOK'
<1>1. frames \in Seq(Frame) /\ frames # <<>>
  BY DEF RunnerInv
<1>2. Depths \in Nat /\ Top \in Frame
  BY <1>1, NonEmpty, SeqElement DEF Depths, Top
<1>3. /\ Top.saved.test \in Nat /\ Top.saved.result \in Nat /\ Top.saved.hooks \in BOOLEAN
      /\ Top.failures \in Nat
  BY <1>2, FrameFields DEF Saved
<1>4. ASSUME status = "running", UNCHANGED <<crashOnFail, verdict>>,
             currentTest' \in Nat, currentResult' \in Nat, hooks' \in BOOLEAN, started' \in Nat
      PROVE  VerdictOK'
  BY <1>4 DEF VerdictOK, verdict
<1>5. CASE NextTest
  <2>1. currentTest' \in Nat
    <3>1. currentTest' \in {currentTest, 0, Depths}
      BY <1>5 DEF NextTest
    <3> QED
      BY <1>2, <3>1 DEF VerdictOK
  <2>2. status = "running" /\ UNCHANGED <<crashOnFail, verdict, currentResult, hooks, started>>
    BY <1>5 DEF NextTest
  <2> QED
    BY <1>4, <2>1, <2>2 DEF VerdictOK
<1>6. CASE Return
  <2>1. currentTest' \in Nat
    BY <1>6, EnterKeepsTest DEF Return, VerdictOK
  <2> QED
    BY <1>4, <1>6, <2>1 DEF Return, VerdictOK
<1>7. CASE Fail
  <2>1. currentTest' \in Nat
    BY <1>7, JumpKeepsTest DEF Fail, VerdictOK
  <2> QED
    BY <1>4, <1>7, <2>1 DEF Fail, CanFail, VerdictOK
<1>8. CASE AddFailure
  BY <1>4, <1>8 DEF AddFailure, CanFail, VerdictOK, globals
<1>9. CASE ExitTest
  <2>1. currentTest' \in Nat
    BY <1>9, JumpKeepsTest DEF ExitTest, VerdictOK
  <2> QED
    BY <1>4, <1>9, <2>1 DEF ExitTest, VerdictOK
<1>10. ASSUME NEW plugins \in BOOLEAN, StartNested(plugins)
       PROVE  VerdictOK'
  <2>1. hooks' \in BOOLEAN
    BY <1>10 DEF StartNested, VerdictOK
  <2> QED
    BY <1>2, <1>4, <1>10, <2>1 DEF StartNested, VerdictOK
<1>11. CASE EndNested
  BY <1>3, <1>4, <1>11 DEF EndNested, VerdictOK
<1>12. CASE EndRun
  <2>1. /\ status = "running" /\ UNCHANGED <<currentTest, hooks, crashOnFail, started>>
        /\ failedTests' = failedTests + Top.failures
        /\ failedRuns' = failedRuns + IF IsFailure(Top) THEN 1 ELSE 0
    BY <1>12 DEF EndRun
  <2>2. loop \in 1 .. Repeat /\ loop \in Nat /\ failedRuns \in Nat /\ failedRuns < loop
    BY <2>1, RunnerAssumption DEF VerdictOK
  <2>3. failedTests' \in Nat /\ failedRuns' \in Nat /\ failedRuns' <= loop
    BY <1>3, <2>1, <2>2 DEF VerdictOK
  <2>4. CASE loop < Repeat
    <3>1. loop' = loop + 1 /\ UNCHANGED <<currentResult, status>>
      BY <1>12, <2>4 DEF EndRun
    <3> QED
      BY <2>1, <2>2, <2>3, <2>4, <3>1, RunnerAssumption DEF VerdictOK
  <2>5. CASE ~(loop < Repeat)
    <3>1. status' = "done" /\ currentResult' = 0 /\ loop' = loop
      BY <1>12, <2>5 DEF EndRun
    <3> QED
      BY <2>1, <2>2, <2>3, <3>1 DEF VerdictOK
  <2> QED
    BY <2>4, <2>5
<1>13. CASE UNCHANGED vars
  BY <1>13 DEF vars, globals, verdict, VerdictOK
<1>14. CASE Terminated
  BY <1>13, <1>14 DEF Terminated
<1> QED
  BY <1>5, <1>6, <1>7, <1>8, <1>9, <1>10, <1>11, <1>12, <1>13, <1>14 DEF Next

-------------------------------------------------------------------------------
(* The theorems *)

LEMMA InvInit ==
  ASSUME Init
  PROVE  RunnerInv
<1>1. Fresh
  BY DEF Init, Fresh
<1> QED
  BY <1>1, FreshRun

LEMMA InvStep ==
  ASSUME ~Escapes, RunnerInv, VerdictOK, [Next]_vars
  PROVE  RunnerInv'
<1>1. CASE NextTest
  BY <1>1, NextTestStep
<1>2. CASE Return
  BY <1>2, ReturnStep
<1>3. CASE Fail
  BY <1>3, FailStep
<1>4. CASE AddFailure
  BY <1>4, AddFailureStep
<1>5. CASE ExitTest
  BY <1>5, ExitTestStep
<1>6. ASSUME NEW plugins \in BOOLEAN, StartNested(plugins)
      PROVE  RunnerInv'
  BY <1>6, StartNestedStep
<1>7. CASE EndNested
  BY <1>7, EndNestedStep
<1>8. CASE EndRun
  BY <1>8, EndRunStep DEF VerdictOK
<1>9. CASE UNCHANGED vars
  BY <1>9 DEF vars, globals, RunnerInv, NestedOK, Depths, Top, InSection
<1>10. CASE Terminated
  BY <1>9, <1>10 DEF Terminated
<1> QED
  BY <1>1, <1>2, <1>3, <1>4, <1>5, <1>6, <1>7, <1>8, <1>9, <1>10 DEF Next

(* cu_run_all and the runs nested in it (runner.c:343-467): the globals,   *)
(* the jmp_buf stack and the counters of every active run are consistent   *)
(* between any two steps, however runs nest and failures interrupt them.   *)
THEOREM RunsConsistent == ~Escapes => (Spec => [](RunnerInv /\ VerdictOK))
<1> SUFFICES ASSUME ~Escapes PROVE Spec => [](RunnerInv /\ VerdictOK)
  OBVIOUS
<1>1. Init => RunnerInv /\ VerdictOK
  BY InvInit, VerdictInit
<1>2. RunnerInv /\ VerdictOK /\ [Next]_vars => (RunnerInv /\ VerdictOK)'
  BY InvStep, VerdictStep
<1> QED
  BY <1>1, <1>2, PTL DEF Spec

(* Every variable keeps its type.                                          *)
THEOREM TypeCorrect == ~Escapes => (Spec => []TypeOK)
<1> SUFFICES ASSUME ~Escapes PROVE Spec => []TypeOK
  OBVIOUS
<1>1. RunnerInv /\ VerdictOK => TypeOK
  <2> SUFFICES ASSUME RunnerInv, VerdictOK PROVE TypeOK
    OBVIOUS
  <2>1. failedRuns \in 0 .. Repeat
    BY RunnerAssumption DEF VerdictOK
  <2> QED
    BY <2>1 DEF TypeOK, RunnerInv, VerdictOK
<1> QED
  BY <1>1, RunsConsistent, PTL

(* runner.c:334-337: nested runs save and restore the globals, so that     *)
(* they are always those of the innermost run.                             *)
THEOREM StateRestored == ~Escapes => (Spec => []StateOfInnermost)
<1> SUFFICES ASSUME ~Escapes PROVE Spec => []StateOfInnermost
  OBVIOUS
<1>1. RunnerInv => StateOfInnermost
  BY DEF RunnerInv, StateOfInnermost
<1> QED
  BY <1>1, RunsConsistent, PTL

(* cu_protected_call, cu_longjmp_out (runner.c:85-113): the jmp_buf stack  *)
(* holds exactly the open sections, and the run gives up only if more are  *)
(* nested than it has room for.                                            *)
THEOREM JumpsBalanced == ~Escapes => (Spec => []JumpsMatchSections)
<1> SUFFICES ASSUME ~Escapes PROVE Spec => []JumpsMatchSections
  OBVIOUS
<1>1. RunnerInv => JumpsMatchSections
  BY DEF RunnerInv, JumpsMatchSections, Ascending, InSection
<1> QED
  BY <1>1, RunsConsistent, PTL

(* cu_add_failure: a failure counts for the run and the test whose code    *)
(* reported it.                                                            *)
THEOREM FailuresTheirOwn == ~Escapes => (Spec => []FailuresAttributed)
<1> SUFFICES ASSUME ~Escapes PROVE Spec => []FailuresAttributed
  OBVIOUS
<1>1. RunnerInv => FailuresAttributed
  <2> SUFFICES ASSUME RunnerInv, NEW l \in DOMAIN frames
               PROVE  /\ frames[l].failures = frames[l].raised
                      /\ frames[l].pc \in UserCode =>
                           frames[l].hasFailed = (frames[l].raised > frames[l].before)
    BY DEF FailuresAttributed
  <2>1. FailuresOK(frames[l]) /\ frames[l] \in Frame
    BY SeqElement DEF RunnerInv
  <2>2. frames[l].hasFailed \in BOOLEAN
    BY <2>1, FrameFields
  <2> QED
    BY <2>1, <2>2 DEF FailuresOK
<1> QED
  BY <1>1, RunsConsistent, PTL

(* cu_run_one_test: whatever fails or jumps, each test is created, set up, *)
(* torn down and destroyed once, and the plugins see each test once.       *)
THEOREM TestsComplete == ~Escapes => (Spec => []EveryTestFinished)
<1> SUFFICES ASSUME ~Escapes PROVE Spec => []EveryTestFinished
  OBVIOUS
<1>1. RunnerInv => EveryTestFinished
  <2> SUFFICES ASSUME RunnerInv, NEW l \in DOMAIN frames, frames[l].pc = "next"
               PROVE  LET f == frames[l]
                      IN  /\ \A u \in {"create", "setup", "teardown", "destroy"} : f.ran[u] = f.runs
                          /\ f.ran["body"] = f.runs - f.broken
                          /\ \A u \in {"pre", "post"} : f.ran[u] = IF f.plugins THEN f.runs ELSE 0
    BY DEF EveryTestFinished
  <2> DEFINE f == frames[l]
  <2>1. f \in Frame /\ CountersOK(f)
    BY SeqElement DEF RunnerInv
  <2>2. f.ran \in [UserCode -> Nat] /\ f.runs \in Nat /\ f.broken \in Nat /\ f.plugins \in BOOLEAN
    BY <2>1, FrameFields
  <2>3. \A u \in UserCode : Pending(u, f.pc) = 0 /\ f.ran[u] \in Nat
    BY <2>2 DEF Pending, Remaining
  <2> HIDE DEF f
  <2>4. \A u \in {"create", "setup", "teardown", "destroy"} : f.ran[u] = f.runs
    BY <2>1, <2>3, PcKinds DEF CountersOK
  <2>5. f.ran["body"] = f.runs - f.broken
    BY <2>1, <2>2, <2>3, PcKinds DEF CountersOK
  <2>6. \A u \in {"pre", "post"} : f.ran[u] = IF f.plugins THEN f.runs ELSE 0
    BY <2>1, <2>2, <2>3, PcKinds DEF CountersOK
  <2> QED
    BY <2>4, <2>5, <2>6 DEF f
<1> QED
  BY <1>1, RunsConsistent, PTL

================================================================================
