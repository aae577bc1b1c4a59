--------------------------- MODULE MockScopesProofs ----------------------------
(***************************************************************************)
(* The scopes of the mock, for every number of scopes, types, comparators, *)
(* entries, adapters and every suite of operations.                        *)
(***************************************************************************)
EXTENDS MockScopes, TLAPS

(* An adapter that an entry leads to has been given its comparator.        *)
Usable(s) == \A i \in 1 .. Len(s.comparators) : Called(s.comparators[i].ctx) \in Comparators

(* What the plugin has left of a scope after its first and second step:    *)
(* nothing that a test did can be told, but that the scope was there.      *)
Cleared(n, s) ==
  /\ s.settings = Default /\ ~s.filled /\ s.bound = {}
  /\ s.zombie <=> n # Global

(* The type invariant needs that the looked up adapter has a comparator,   *)
(* the source of bindings that the global scope is never a zombie, and     *)
(* fresh scopes what the plugin's first step leaves to its second.         *)
IInv ==
  /\ TypeOK
  /\ \A n \in DOMAIN scopes : Usable(scopes[n])
  /\ Global \in DOMAIN scopes => ~scopes[Global].zombie
  /\ BindSourceAlive
  /\ phase \in {"remove", "between"} =>
       /\ Global \in DOMAIN scopes
       /\ \A n \in DOMAIN scopes : Cleared(n, scopes[n])
  /\ phase = "between" => \A n \in DOMAIN scopes : scopes[n].comparators = <<>>

LEMMA ReverseType ==
  ASSUME NEW S, NEW s \in Seq(S)
  PROVE  /\ Reverse(s) \in Seq(S) /\ Len(Reverse(s)) = Len(s)
         /\ \A i \in 1 .. Len(s) : Reverse(s)[i] = s[Len(s) - i + 1] /\ Len(s) - i + 1 \in 1 .. Len(s)
BY DEF Reverse

LEMMA EmptyReversed == Reverse(<<>>) \o <<>> = <<>>
BY DEF Reverse

LEMMA DefaultType == Default \in Settings /\ NewScope \in Scope
BY DEF Default, Settings, NewScope, Scope

LEMMA EmptyUsable ==
  ASSUME NEW s, s.comparators = <<>>
  PROVE  Usable(s)
BY DEF Usable

LEMMA ClonedType ==
  ASSUME NEW s \in Scope, NEW g \in Scope
  PROVE  Cloned(s, g) \in Scope
<1>1. Reverse(g.comparators) \o s.comparators \in Seq(Entries)
  BY ReverseType DEF Scope
<1> QED
  BY <1>1 DEF Cloned, Scope

(* A clone of a scope without comparators gets none.                       *)
LEMMA ClonedEmpty ==
  ASSUME NEW s \in Scope, NEW g, s.comparators = <<>>, g.comparators = <<>>
  PROVE  Cloned(s, g) = s
<1>1. Cloned(s, g) = [s EXCEPT !.comparators = <<>>]
  BY EmptyReversed DEF Cloned
<1> QED
  BY <1>1 DEF Scope

LEMMA ClonedUsable ==
  ASSUME NEW s \in Scope, NEW g \in Scope, Usable(s), Usable(g)
  PROVE  Usable(Cloned(s, g))
<1> DEFINE r == Reverse(g.comparators)
<1>1. /\ g.comparators \in Seq(Entries) /\ s.comparators \in Seq(Entries)
      /\ r \in Seq(Entries) /\ Len(r) = Len(g.comparators)
      /\ \A i \in 1 .. Len(r) : \E j \in 1 .. Len(g.comparators) : r[i] = g.comparators[j]
  BY SMTT(30), ReverseType DEF Scope
<1>2. Cloned(s, g).comparators = r \o s.comparators
  BY DEF Cloned, Scope
<1>3. ASSUME NEW i \in 1 .. Len(r \o s.comparators)
      PROVE  Called((r \o s.comparators)[i].ctx) \in Comparators
  <2> HIDE DEF r
  <2>1. CASE i <= Len(r)
    <3>1. (r \o s.comparators)[i] = r[i] /\ i \in 1 .. Len(r)
      BY <1>1, <2>1
    <3>2. PICK j \in 1 .. Len(g.comparators) : r[i] = g.comparators[j]
      BY <1>1, <3>1
    <3> QED
      BY <3>1, <3>2 DEF Usable
  <2>2. CASE i > Len(r)
    <3>1. (r \o s.comparators)[i] = s.comparators[i - Len(r)] /\ i - Len(r) \in 1 .. Len(s.comparators)
      BY <1>1, <2>2
    <3> QED
      BY <3>1 DEF Usable
  <2> QED
    BY <2>1, <2>2, <1>1
<1> QED
  BY <1>2, <1>3 DEF Usable

(* An operation that touches one field of a scope keeps its type.          *)
LEMMA ScopeFields ==
  ASSUME NEW s \in Scope
  PROVE  /\ Emptied(s) \in Scope /\ Usable(Emptied(s)) /\ Emptied(s).zombie = s.zombie
         /\ ScopeClear(s) \in Scope /\ (Usable(s) => Usable(ScopeClear(s)))
         /\ ScopeClear(s).zombie = s.zombie
<1>1. /\ Emptied(s) \in Scope /\ Emptied(s).comparators = <<>> /\ Emptied(s).zombie = s.zombie
  <2>1. <<>> \in Seq(Entries)
    OBVIOUS
  <2> QED
    BY <2>1 DEF Emptied, Scope
<1>2. /\ ScopeClear(s) \in Scope /\ ScopeClear(s).comparators = s.comparators
      /\ ScopeClear(s).zombie = s.zombie
  BY DefaultType DEF ScopeClear, Scope
<1>3. Usable(s) => Usable(ScopeClear(s))
  BY <1>2 DEF Usable
<1> QED
  BY <1>1, <1>2, <1>3, EmptyUsable

LEMMA CreatedRevived ==
  ASSUME NEW s \in Scope, NEW g \in Scope, Usable(s), Usable(g)
  PROVE  /\ CreatedFrom(g) \in Scope /\ Usable(CreatedFrom(g)) /\ ~CreatedFrom(g).zombie
         /\ Revived(s, g) \in Scope /\ Usable(Revived(s, g)) /\ ~Revived(s, g).zombie
<1> DEFINE c == [NewScope EXCEPT !.settings = g.settings]
           v == [s EXCEPT !.zombie = FALSE,
                          !.settings = [g.settings EXCEPT !.tracing = s.settings.tracing]]
<1>1. c \in Scope /\ Usable(c) /\ ~c.zombie
  <2>1. NewScope \in Scope /\ NewScope.comparators = <<>> /\ ~NewScope.zombie
    BY DefaultType DEF NewScope
  <2>2. c \in Scope /\ c.comparators = <<>> /\ ~c.zombie
    BY <2>1 DEF Scope
  <2> QED
    BY <2>2, EmptyUsable
<1>2. [g.settings EXCEPT !.tracing = s.settings.tracing] \in Settings
  BY DEF Scope, Settings
<1>3. v \in Scope /\ v.comparators = s.comparators /\ ~v.zombie
  BY <1>2 DEF Scope
<1>4. Usable(v)
  BY <1>3 DEF Usable
<1>5. CreatedFrom(g) = Cloned(c, g) /\ Revived(s, g) = Cloned(v, g)
  BY DEF CreatedFrom, Revived
<1>6. ASSUME NEW x \in Scope, ~x.zombie
      PROVE  ~Cloned(x, g).zombie
  BY <1>6 DEF Cloned, Scope
<1> QED
  <2> HIDE DEF c, v
  <2> QED
    BY <1>1, <1>3, <1>4, <1>5, <1>6, ClonedType, ClonedUsable
LEMMA SettingField ==
  ASSUME NEW s \in Scope, NEW switch \in Switches \cup {"strict"}, NEW on \in BOOLEAN
  PROVE  LET t == [s EXCEPT !.settings[switch] = on]
         IN  t \in Scope /\ t.zombie = s.zombie /\ t.comparators = s.comparators
<1>1. [s.settings EXCEPT ![switch] = on] \in Settings
  BY DEF Scope, Settings, Switches
<1> QED
  BY <1>1 DEF Scope

(* The first access of a scope, or the first after its deletion, and what  *)
(* it does to the others.                                                  *)
LEMMA GotFacts ==
  ASSUME IInv, NEW n \in Scopes
  PROVE  /\ DOMAIN Got(n) = DOMAIN scopes \cup {n, Global} /\ DOMAIN Got(n) \subseteq Scopes
         /\ \A m \in DOMAIN Got(n) :
              /\ Got(n)[m] \in Scope /\ Usable(Got(n)[m])
              /\ m \in {n, Global} => ~Got(n)[m].zombie
<1> DEFINE global == IF Global \in DOMAIN scopes THEN scopes[Global] ELSE NewScope
<1>1. NewScope \in Scope /\ Usable(NewScope) /\ ~NewScope.zombie
  BY DefaultType, EmptyUsable DEF NewScope
<1>2. global \in Scope /\ Usable(global) /\ ~global.zombie
  BY <1>1 DEF IInv, TypeOK
<1>3. DOMAIN Got(n) = DOMAIN scopes \cup {n, Global} /\ DOMAIN Got(n) \subseteq Scopes
  BY DEF Got, IInv, TypeOK, Scopes
<1>4. ASSUME NEW m \in DOMAIN Got(n)
      PROVE  /\ Got(n)[m] \in Scope /\ Usable(Got(n)[m])
             /\ m \in {n, Global} => ~Got(n)[m].zombie
  <2>1. CASE m = Global
    BY <1>2, <1>3, <2>1 DEF Got
  <2>2. CASE m # Global /\ m \notin DOMAIN scopes
    <3>1. Got(n)[m] = CreatedFrom(global)
      BY <1>3, <2>2 DEF Got
    <3> QED
      BY <3>1, <1>2, CreatedRevived
  <2>3. CASE m # Global /\ m \in DOMAIN scopes
    <3>1. scopes[m] \in Scope /\ Usable(scopes[m])
      BY <2>3 DEF IInv, TypeOK
    <3>2. CASE m = n /\ scopes[n].zombie
      <4>1. Got(n)[m] = Revived(scopes[m], global)
        BY <1>3, <2>3, <3>2 DEF Got
      <4> QED
        BY <4>1, <3>1, <1>2, CreatedRevived
    <3>3. CASE ~(m = n /\ scopes[n].zombie)
      <4>1. Got(n)[m] = scopes[m]
        BY <1>3, <2>3, <3>3 DEF Got
      <4> QED
        BY <4>1, <3>1, <3>3, <2>3
    <3> QED
      BY <3>2, <3>3
  <2> QED
    BY <2>1, <2>2, <2>3
<1> QED
  BY <1>3, <1>4

(* A step of a test that neither creates nor deletes a scope.              *)
LEMMA SameTree ==
  ASSUME IInv, Testing, UNCHANGED <<suite, bind_scope, adapters, phase>>,
         adapter_count' \in 0 .. MAX_C_ADAPTERS, DOMAIN scopes' = DOMAIN scopes,
         \A m \in DOMAIN scopes :
            /\ scopes'[m] \in Scope /\ Usable(scopes'[m])
            /\ scopes'[m].zombie = scopes[m].zombie
  PROVE  IInv'
<1>1. TypeOK'
  BY DEF IInv, TypeOK
<1>2. \A m \in DOMAIN scopes' : Usable(scopes[m])'
  BY DEF Usable, Called
<1>3. BindSourceAlive'
  BY DEF IInv, BindSourceAlive, Alive
<1> QED
  BY <1>1, <1>2, <1>3 DEF IInv, Testing
(* What an access does to the parts that are not types.                    *)
LEMMA AccessStep ==
  ASSUME IInv, NEW n \in Scopes, Access(n)
  PROVE  IInv'
<1>1. /\ DOMAIN scopes' = DOMAIN scopes \cup {n, Global} /\ DOMAIN scopes' \subseteq Scopes
      /\ \A m \in DOMAIN scopes' :
           /\ scopes'[m] \in Scope /\ Usable(scopes'[m])
           /\ m \in {n, Global} => ~scopes'[m].zombie
  BY GotFacts DEF Access
<1>2. TypeOK'
  BY <1>1 DEF IInv, TypeOK, Access
<1>3. \A m \in DOMAIN scopes' : Usable(scopes[m])'
  BY <1>1 DEF Usable, Called, Access
<1>4. BindSourceAlive'
  BY <1>1 DEF BindSourceAlive, Alive, Access
<1> QED
  BY <1>1, <1>2, <1>3, <1>4 DEF IInv, Access, Testing

(* A new entry in front keeps a repository usable.                         *)
LEMMA PrependUsable ==
  ASSUME NEW s \in Scope, NEW e \in Entries, NEW Good,
         \A i \in 1 .. Len(s.comparators) : s.comparators[i].ctx \in Good, e.ctx \in Good
  PROVE  LET t == [s EXCEPT !.comparators = <<e>> \o @]
         IN  /\ t \in Scope /\ t.zombie = s.zombie
             /\ \A i \in 1 .. Len(t.comparators) : t.comparators[i].ctx \in Good
<1> DEFINE q == <<e>> \o s.comparators
<1>1. s.comparators \in Seq(Entries) /\ <<e>> \in Seq(Entries) /\ q \in Seq(Entries)
  BY DEF Scope
<1>2. ASSUME NEW i \in 1 .. Len(q)
      PROVE  q[i].ctx \in Good
  <2>1. CASE i = 1
    BY <2>1, <1>1
  <2>2. CASE i # 1
    <3>1. q[i] = s.comparators[i - 1] /\ i - 1 \in 1 .. Len(s.comparators)
      BY <2>2, <1>1
    <3> QED
      BY <3>1
  <2> QED
    BY <2>1, <2>2
<1> QED
  <2> HIDE DEF q
  <2>1. [s EXCEPT !.comparators = q] \in Scope
    BY <1>1 DEF Scope
  <2> QED
    BY <2>1, <1>2 DEF q, Scope
(* Whether the user's comparator is installed or an adapter for it: the    *)
(* entries lead to comparators after it, if the new one does and the old   *)
(* ones still do.                                                          *)
LEMMA InstallNodeStep ==
  ASSUME IInv, Testing, UNCHANGED <<suite, bind_scope, phase>>,
         NEW n \in Scopes, NEW type \in Types, NEW ctx \in Contexts, InstallNode(n, type, ctx),
         adapters' \in [1 .. MAX_C_ADAPTERS -> Comparators \cup {"none"}],
         adapter_count' \in 0 .. MAX_C_ADAPTERS,
         NEW Good \in SUBSET Contexts, ctx \in Good,
         \A other \in Contexts : Called(other) \in Comparators => other \in Good,
         \A other \in Good :
           (IF other[1] = "object" THEN other[2] ELSE adapters'[other[2]]) \in Comparators
  PROVE  IInv'
<1> DEFINE e == [type |-> type, ctx |-> ctx]
<1>1. DOMAIN scopes' = DOMAIN scopes /\ e \in Entries
  BY DEF InstallNode, Entries
<1>2. ASSUME NEW m \in DOMAIN scopes
      PROVE  /\ scopes'[m] \in Scope /\ scopes'[m].zombie = scopes[m].zombie
             /\ \A i \in 1 .. Len(scopes'[m].comparators) : scopes'[m].comparators[i].ctx \in Good
  <2>1. scopes[m] \in Scope /\ Usable(scopes[m]) /\ scopes[m].comparators \in Seq(Entries)
    BY DEF IInv, TypeOK, Scope
  <2>2. \A i \in 1 .. Len(scopes[m].comparators) : scopes[m].comparators[i].ctx \in Good
    <3> TAKE i \in 1 .. Len(scopes[m].comparators)
    <3>1. scopes[m].comparators[i] \in Entries
      BY <2>1
    <3> QED
      BY <3>1, <2>1 DEF Entries, Usable
  <2>3. scopes'[m] = scopes[m] \/ scopes'[m] = [scopes[m] EXCEPT !.comparators = <<e>> \o @]
    BY DEF InstallNode
  <2>4. LET t == [scopes[m] EXCEPT !.comparators = <<e>> \o @]
        IN  /\ t \in Scope /\ t.zombie = scopes[m].zombie
            /\ \A i \in 1 .. Len(t.comparators) : t.comparators[i].ctx \in Good
    <3>1. e.ctx \in Good
      OBVIOUS
    <3> HIDE DEF e
    <3> QED
      BY <2>1, <2>2, <3>1, <1>1, PrependUsable
  <2> HIDE DEF e
  <2> QED
    BY <2>1, <2>2, <2>3, <2>4
<1>3. TypeOK'
  BY <1>1, <1>2 DEF IInv, TypeOK
<1>4. \A m \in DOMAIN scopes' : Usable(scopes[m])'
  BY <1>1, <1>2 DEF Usable, Called
<1>5. BindSourceAlive'
  BY <1>1, <1>2 DEF IInv, BindSourceAlive, Alive
<1> QED
  BY <1>1, <1>2, <1>3, <1>4, <1>5 DEF IInv, Testing

LEMMA InstallStep ==
  ASSUME IInv, NEW n \in Scopes, NEW type \in Types, NEW c \in Comparators,
         Install(n, type, c) \/ InstallC(n, type, c)
  PROVE  IInv'
<1> DEFINE Good == {ctx \in Contexts : Called(ctx) \in Comparators}
<1>0. MAX_C_ADAPTERS \in Nat /\ adapter_count \in 0 .. MAX_C_ADAPTERS
      /\ adapters \in [1 .. MAX_C_ADAPTERS -> Comparators \cup {"none"}]
  BY ScopesAssumption DEF IInv, TypeOK
<1>1. CASE Install(n, type, c)
  <2>1. <<"object", c>> \in Contexts /\ <<"object", c>> \in Good
    BY DEF Contexts, Called
  <2>2. \A other \in Good :
          (IF other[1] = "object" THEN other[2] ELSE adapters'[other[2]]) \in Comparators
    BY <1>1 DEF Install, Called
  <2> QED
    BY <1>0, <1>1, <2>1, <2>2, InstallNodeStep DEF Install, Using
<1>2. CASE InstallC(n, type, c) /\ PoolFull
  BY <1>2, SameTree DEF InstallC, Using, IInv, TypeOK
<1>3. CASE InstallC(n, type, c) /\ ~PoolFull
  <2> DEFINE k == adapter_count + 1
             More == Good \cup {<<"adapter", k>>}
  <2>1. k \in 1 .. MAX_C_ADAPTERS /\ <<"adapter", k>> \in Contexts
    BY <1>0, <1>3 DEF PoolFull, Contexts
  <2>2. /\ adapter_count' = k /\ InstallNode(n, type, <<"adapter", k>>)
        /\ adapters' = [j \in 1 .. MAX_C_ADAPTERS |-> IF j = k THEN c ELSE adapters[j]]
    BY <1>0, <1>3, <2>1 DEF InstallC
  <2>3. \A other \in More :
          (IF other[1] = "object" THEN other[2] ELSE adapters'[other[2]]) \in Comparators
    BY <2>1, <2>2 DEF Called, Contexts
  <2>4. More \in SUBSET Contexts
    BY <2>1
  <2>5. /\ adapters' \in [1 .. MAX_C_ADAPTERS -> Comparators \cup {"none"}]
        /\ adapter_count' \in 0 .. MAX_C_ADAPTERS
    BY <1>0, <2>1, <2>2
  <2>6. <<"adapter", k>> \in More
        /\ \A other \in Contexts : Called(other) \in Comparators => other \in More
    OBVIOUS
  <2>7. Testing /\ UNCHANGED <<suite, bind_scope, phase>>
    BY <1>3 DEF InstallC, Using
  <2>8. InstallNode(n, type, <<"adapter", k>>)
    BY <2>2
  <2> HIDE DEF k, More
  <2> QED
    BY <2>1, <2>3, <2>4, <2>5, <2>6, <2>7, <2>8, InstallNodeStep
<1> QED
  BY <1>1, <1>2, <1>3

LEMMA FieldStep ==
  ASSUME IInv, NEW n \in Scopes,
         \/ StrictOrder(n) \/ Fill(n)
         \/ \E switch \in Switches, on \in BOOLEAN : Set(n, switch, on)
         \/ \E api \in APIs : RemoveAll(n, api)
         \/ ClearNamed(n)
  PROVE  IInv'
<1>0. /\ \A m \in DOMAIN scopes : scopes[m] \in Scope /\ Usable(scopes[m])
      /\ adapter_count \in 0 .. MAX_C_ADAPTERS /\ MAX_C_ADAPTERS \in Nat
  BY ScopesAssumption DEF IInv, TypeOK
<1>1. CASE StrictOrder(n)
  <2>1. \A s \in Scope : LET t == [s EXCEPT !.settings["strict"] = TRUE]
                         IN  t \in Scope /\ t.zombie = s.zombie /\ t.comparators = s.comparators
    BY SettingField
  <2> QED
    BY <1>0, <1>1, <2>1, SameTree DEF StrictOrder, Using, Usable
<1>2. CASE Fill(n)
  <2>1. \A s \in Scope : LET t == [s EXCEPT !.filled = TRUE]
                         IN  t \in Scope /\ t.zombie = s.zombie /\ t.comparators = s.comparators
    BY DEF Scope
  <2> QED
    BY <1>0, <1>2, <2>1, SameTree DEF Fill, Using, Usable
<1>3. ASSUME NEW switch \in Switches, NEW on \in BOOLEAN, Set(n, switch, on)
      PROVE  IInv'
  <2>1. \A s \in Scope : LET t == [s EXCEPT !.settings[switch] = on]
                         IN  t \in Scope /\ t.zombie = s.zombie /\ t.comparators = s.comparators
    BY SettingField
  <2> QED
    BY <1>0, <1>3, <2>1, SameTree DEF Set, Using, Usable
<1>4. ASSUME NEW api \in APIs, RemoveAll(n, api)
      PROVE  IInv'
  <2>1. \A s \in Scope : Emptied(s) \in Scope /\ Usable(Emptied(s)) /\ Emptied(s).zombie = s.zombie
    BY ScopeFields
  <2> QED
    BY <1>0, <1>4, <2>1, SameTree DEF RemoveAll, Using, Removed
<1>5. CASE ClearNamed(n)
  <2>1. \A s \in Scope : /\ ScopeClear(s) \in Scope /\ (Usable(s) => Usable(ScopeClear(s)))
                         /\ ScopeClear(s).zombie = s.zombie
    BY ScopeFields
  <2> QED
    BY <1>0, <1>5, <2>1, SameTree DEF ClearNamed, Using
<1> QED
  BY <1>1, <1>2, <1>3, <1>4, <1>5

LEMMA BindStep ==
  ASSUME IInv, NEW n \in Scopes, NEW type \in Types, Bind(n, type)
  PROVE  IInv'
<1> DEFINE all == scopes[bind_scope].comparators
<1>1. PICK e \in Range(all) :
        scopes' = [scopes EXCEPT ![n].filled = TRUE,
                                 ![n].bound = @ \cup {[ctx |-> e.ctx, meant |-> Called(e.ctx)]}]
  BY DEF Bind
<1>2. bind_scope \in DOMAIN scopes
  BY DEF Bind, IInv, BindSourceAlive, Alive
<1>3. all \in Seq(Entries) /\ Usable(scopes[bind_scope])
  BY <1>2 DEF IInv, TypeOK, Scope
<1>4. PICK i \in 1 .. Len(all) : e = all[i]
  BY <1>1, <1>3 DEF Range
<1>5. e.ctx \in Contexts /\ Called(e.ctx) \in Comparators
  <2>1. e \in Entries
    BY <1>3, <1>4
  <2>2. Called(all[i].ctx) \in Comparators
    BY <1>3 DEF Usable
  <2> HIDE DEF all
  <2> QED
    BY <2>1, <2>2, <1>4 DEF Entries
<1> DEFINE bd == [ctx |-> e.ctx, meant |-> Called(e.ctx)]
<1>6. bd \in [ctx : Contexts, meant : Comparators]
  BY <1>5
<1> HIDE DEF bd
<1>7. \A s \in Scope : LET t == [s EXCEPT !.filled = TRUE, !.bound = @ \cup {bd}]
                       IN  t \in Scope /\ t.zombie = s.zombie /\ t.comparators = s.comparators
  BY <1>6 DEF Scope
<1>8. scopes' = [scopes EXCEPT ![n].filled = TRUE, ![n].bound = @ \cup {bd}]
  BY <1>1 DEF bd
<1>9. /\ \A m \in DOMAIN scopes : scopes[m] \in Scope /\ Usable(scopes[m])
      /\ adapter_count \in 0 .. MAX_C_ADAPTERS
  BY DEF IInv, TypeOK
<1>10. \A m \in DOMAIN scopes :
         scopes'[m] = scopes[m] \/ scopes'[m] = [scopes[m] EXCEPT !.filled = TRUE, !.bound = @ \cup {bd}]
  BY <1>8
<1>11. ASSUME NEW m \in DOMAIN scopes
       PROVE  /\ scopes'[m] \in Scope /\ Usable(scopes'[m])
              /\ scopes'[m].zombie = scopes[m].zombie
  <2> DEFINE t == [scopes[m] EXCEPT !.filled = TRUE, !.bound = @ \cup {bd}]
  <2>1. scopes[m] \in Scope /\ Usable(scopes[m])
    BY <1>9
  <2>2. t \in Scope /\ t.zombie = scopes[m].zombie /\ t.comparators = scopes[m].comparators
    BY <1>7, <2>1
  <2>3. scopes'[m] = scopes[m] \/ scopes'[m] = t
    BY <1>10
  <2> HIDE DEF t
  <2> QED
    BY <2>1, <2>2, <2>3 DEF Usable
<1>12. DOMAIN scopes' = DOMAIN scopes
  BY <1>8
<1> QED
  BY <1>9, <1>11, <1>12, SameTree DEF Bind, Using

(* A global clear makes zombies of all but the global scope.               *)
LEMMA AllClearedFacts ==
  ASSUME NEW all, \A n \in DOMAIN all : all[n] \in Scope /\ Usable(all[n]),
         Global \in DOMAIN all => ~all[Global].zombie
  PROVE  /\ DOMAIN AllCleared(all) = DOMAIN all
         /\ \A n \in DOMAIN all :
              /\ AllCleared(all)[n] \in Scope /\ Usable(AllCleared(all)[n])
              /\ Cleared(n, AllCleared(all)[n])
<1>1. ASSUME NEW n \in DOMAIN all
      PROVE  /\ AllCleared(all)[n] \in Scope /\ Usable(AllCleared(all)[n])
             /\ Cleared(n, AllCleared(all)[n])
  <2> DEFINE c == ScopeClear(all[n])
  <2>1. c \in Scope /\ Usable(c)
    BY ScopeFields
  <2>2. c.settings = Default /\ ~c.filled /\ c.bound = {} /\ c.zombie = all[n].zombie
    BY ScopeFields, DefaultType DEF ScopeClear, Scope
  <2> HIDE DEF c
  <2>3. CASE n = Global
    BY <2>1, <2>2, <2>3 DEF AllCleared, Cleared, c
  <2>4. CASE n # Global
    <3> DEFINE z == [Emptied(c) EXCEPT !.zombie = TRUE]
    <3>1. Emptied(c) \in Scope /\ Emptied(c).comparators = <<>>
      BY <2>1, ScopeFields DEF Emptied, Scope
    <3>2. Emptied(c).settings = Default /\ ~Emptied(c).filled /\ Emptied(c).bound = {}
      BY <2>1, <2>2 DEF Emptied, Scope
    <3>3. z \in Scope /\ z.comparators = <<>> /\ Cleared(n, z)
      BY <3>1, <3>2, <2>4 DEF Scope, Cleared
    <3>4. AllCleared(all)[n] = z
      BY <2>4 DEF AllCleared, c
    <3> QED
      BY <3>3, <3>4, EmptyUsable
  <2> QED
    BY <2>3, <2>4
<1> QED
  BY <1>1 DEF AllCleared
LEMMA ClearAllStep ==
  ASSUME IInv, ClearAll
  PROVE  IInv'
<1>1. /\ DOMAIN scopes' = DOMAIN scopes
      /\ \A n \in DOMAIN scopes :
           scopes'[n] \in Scope /\ Usable(scopes'[n]) /\ Cleared(n, scopes'[n])
  BY AllClearedFacts DEF ClearAll, IInv, TypeOK
<1>2. TypeOK'
  BY <1>1 DEF IInv, TypeOK, ClearAll, BindSource, Scopes
<1>3. \A n \in DOMAIN scopes' : Usable(scopes[n])'
  BY <1>1 DEF Usable, Called, ClearAll
<1>4. Global \in DOMAIN scopes' /\ ~scopes'[Global].zombie
  BY <1>1 DEF ClearAll, Alive, Cleared
<1>5. BindSourceAlive'
  BY <1>4 DEF ClearAll, BindSourceAlive, Alive, BindSource
<1> QED
  BY <1>2, <1>3, <1>4, <1>5 DEF IInv, ClearAll, Using, Testing

(* The plugin's two steps and what surrounds them.                         *)
LEMMA PluginStep ==
  ASSUME IInv, TestEnds \/ PluginClear \/ PluginRemove \/ TestBegins
  PROVE  IInv'
<1> DEFINE got == Got(Global)
<1>0. /\ Global \in Scopes
      /\ DOMAIN got = DOMAIN scopes \cup {Global} /\ DOMAIN got \subseteq Scopes
      /\ \A n \in DOMAIN got : got[n] \in Scope /\ Usable(got[n])
      /\ ~got[Global].zombie
  BY GotFacts DEF Scopes
<1>1. CASE TestEnds \/ TestBegins
  BY <1>1 DEF TestEnds, TestBegins, Testing, IInv, TypeOK, BindSourceAlive, Alive, Usable, Called
<1>2. CASE PluginClear
  <2>1. /\ DOMAIN scopes' = DOMAIN got
        /\ \A n \in DOMAIN got :
             scopes'[n] \in Scope /\ Usable(scopes'[n]) /\ Cleared(n, scopes'[n])
    <3> HIDE DEF got
    <3>1. scopes' = AllCleared(got)
      BY <1>2 DEF PluginClear, got
    <3> QED
      BY <1>0, <3>1, AllClearedFacts
  <2> HIDE DEF got
  <2>2. TypeOK'
    BY <1>0, <1>2, <2>1 DEF IInv, TypeOK, PluginClear
  <2>3. \A n \in DOMAIN scopes' : Usable(scopes[n])'
    BY <1>2, <2>1 DEF Usable, Called, PluginClear
  <2>4. Global \in DOMAIN scopes' /\ ~scopes'[Global].zombie
    BY <1>0, <2>1 DEF Cleared
  <2>5. BindSourceAlive'
    BY <1>2, <2>4 DEF PluginClear, BindSourceAlive, Alive
  <2>6. \A n \in DOMAIN scopes' : Cleared(n, scopes[n])'
    BY <2>1 DEF Cleared
  <2> QED
    BY <1>2, <2>2, <2>3, <2>4, <2>5, <2>6 DEF IInv, PluginClear
<1>3. CASE PluginRemove
  <2>1. /\ \A n \in DOMAIN scopes : Cleared(n, scopes[n])
        /\ Global \in DOMAIN scopes /\ ~scopes[Global].zombie
        /\ DOMAIN got = DOMAIN scopes
    BY <1>0, <1>3 DEF PluginRemove, IInv
  <2>0. \A n \in DOMAIN scopes : got[n] = scopes[n]
    BY <2>1 DEF Got
  <2>2. /\ DOMAIN scopes' = DOMAIN scopes /\ Global \in DOMAIN scopes
        /\ \A n \in DOMAIN scopes : scopes'[n] = Emptied(scopes[n])
    BY <1>3, <2>0, <2>1 DEF PluginRemove, Removed
  <2>3. ASSUME NEW n \in DOMAIN scopes
        PROVE  /\ scopes'[n] \in Scope /\ scopes'[n].comparators = <<>>
               /\ Cleared(n, scopes'[n])
    <3>1. scopes[n] \in Scope
      BY DEF IInv, TypeOK
    <3>2. Emptied(scopes[n]) \in Scope /\ Emptied(scopes[n]).comparators = <<>>
      BY <3>1, ScopeFields DEF Emptied, Scope
    <3> QED
      BY <2>1, <2>2, <3>1, <3>2 DEF Emptied, Scope, Cleared
  <2>4. TypeOK'
    BY <1>3, <2>2, <2>3 DEF IInv, TypeOK, PluginRemove, Scopes
  <2>5. \A n \in DOMAIN scopes' : Usable(scopes[n])' /\ Cleared(n, scopes[n])'
    BY <2>2, <2>3 DEF Usable, Cleared
  <2>6. ~scopes'[Global].zombie
    BY <2>2, <2>3 DEF Cleared
  <2>7. BindSourceAlive'
    BY <1>3, <2>2, <2>6 DEF PluginRemove, BindSourceAlive, Alive
  <2> QED
    BY <1>3, <2>2, <2>3, <2>4, <2>5, <2>6, <2>7 DEF IInv, PluginRemove
<1> QED
  BY <1>1, <1>2, <1>3

THEOREM IInvHolds == Spec => []IInv
<1>1. Init => IInv
  BY ScopesAssumption DEF Init, IInv, TypeOK, BindSourceAlive
<1>2. IInv /\ [Next]_vars => IInv'
  <2> SUFFICES ASSUME IInv, [Next]_vars
               PROVE  IInv'
    OBVIOUS
  <2>1. CASE UNCHANGED vars
    BY <2>1 DEF vars, IInv, TypeOK, Usable, Called, BindSourceAlive, Alive, Cleared
  <2>2. CASE Next
    BY <2>2, AccessStep, FieldStep, BindStep, InstallStep, ClearAllStep, PluginStep
       DEF Next, Scopes
  <2> QED
    BY <2>1, <2>2
<1> QED
  BY <1>1, <1>2, PTL DEF Spec

(* What the code finds in its scopes, repositories and pool is of the kind *)
(* it takes it for; in particular the pool keeps its limit.                *)
THEOREM TypeCorrect == Spec => []TypeOK
BY IInvHolds, PTL DEF IInv

(* Parameters are never bound from a scope that a global clear deleted.    *)
THEOREM BindSourceIsAlive == Spec => []BindSourceAlive
BY IInvHolds, PTL DEF IInv

(* Whatever a test did to whatever scopes, the next one finds each of them *)
(* as if it were used for the first time, also those that are revived.     *)
THEOREM TestsFindFreshScopes == Spec => []FreshScopes
<1>1. IInv => FreshScopes
  <2> SUFFICES ASSUME IInv, phase = "between", NEW n \in Scopes
               PROVE  Got(n)[n] = NewScope
    BY DEF FreshScopes
  <2>1. /\ Global \in DOMAIN scopes
        /\ \A m \in DOMAIN scopes : /\ scopes[m] \in Scope /\ Cleared(m, scopes[m])
                                    /\ scopes[m].comparators = <<>>
    BY DEF IInv, TypeOK
  <2>2. ASSUME NEW s \in Scope, ~s.zombie, s.settings = Default, ~s.filled, s.bound = {},
               s.comparators = <<>>
        PROVE  s = NewScope
    BY <2>2 DEF Scope, NewScope
  <2> DEFINE g == scopes[Global]
  <2>3. g = NewScope
    BY <2>1, <2>2 DEF Cleared
  <2>4. NewScope \in Scope /\ NewScope.comparators = <<>> /\ g.comparators = <<>>
        /\ g.settings = Default /\ [NewScope EXCEPT !.settings = Default] = NewScope
    <3>1. NewScope \in Scope /\ Default \in Settings
      BY DefaultType
    <3>2. NewScope.comparators = <<>> /\ NewScope.settings = Default
      BY DEF NewScope
    <3>3. [NewScope EXCEPT !.settings = Default] = NewScope
      BY <3>1, <3>2 DEF Scope
    <3> QED
      BY <2>3, <3>1, <3>2, <3>3
  <2>5. CreatedFrom(g) = NewScope
    BY <2>4, ClonedEmpty DEF CreatedFrom
  <2>6. ASSUME NEW s \in Scope, s.settings = Default, ~s.filled, s.bound = {},
               s.comparators = <<>>
        PROVE  Revived(s, g) = NewScope
    <3> DEFINE v == [s EXCEPT !.zombie = FALSE,
                              !.settings = [Default EXCEPT !.tracing = Default.tracing]]
    <3>1. [Default EXCEPT !.tracing = Default.tracing] = Default
      BY DEF Default
    <3>2. v \in Scope /\ ~v.zombie /\ v.settings = Default /\ ~v.filled /\ v.bound = {}
          /\ v.comparators = <<>>
      BY <2>6, <3>1, DefaultType DEF Scope
    <3>3. Revived(s, g) = Cloned(v, g)
      BY <2>4, <2>6 DEF Revived
    <3> HIDE DEF v
    <3> QED
      BY <2>2, <2>4, <3>2, <3>3, ClonedEmpty
  <2> QED
    BY <2>1, <2>3, <2>5, <2>6 DEF Got, Cleared
<1> QED
  BY <1>1, IInvHolds, PTL

-------------------------------------------------------------------------------
(* Refinement: scopes that stay in memory as zombies implement scopes that  *)
(* are deleted and created, for every number of scopes, comparators and    *)
(* adapters.                                                               *)

(* A zombie has kept nothing by which its revival could be told from a     *)
(* creation: tracing, which revival leaves alone, is that of the global    *)
(* mock.                                                                   *)
ZombiesEmpty ==
  \A n \in DOMAIN scopes : scopes[n].zombie =>
    /\ Global \in DOMAIN scopes
    /\ scopes[n].comparators = <<>> /\ ~scopes[n].filled
    /\ scopes[n].settings.tracing = scopes[Global].settings.tracing

LEMMA SettingsEqual ==
  ASSUME NEW a \in Settings, NEW b \in Settings, a.tracing = b.tracing
  PROVE  [a EXCEPT !.tracing = b.tracing] = a
BY DEF Settings

LEMMA ClonedFields ==
  ASSUME NEW s \in Scope, NEW g \in Scope, s.comparators = <<>>
  PROVE  /\ Cloned(s, g).settings = s.settings /\ Cloned(s, g).filled = s.filled
         /\ Cloned(s, g).comparators = Reverse(g.comparators)
<1>1. Cloned(s, g).comparators = Reverse(g.comparators) \o <<>>
  BY DEF Cloned, Scope
<1>2. Reverse(g.comparators) \in Seq(Entries)
  BY ReverseType DEF Scope
<1>3. Reverse(g.comparators) \o <<>> = Reverse(g.comparators)
  BY <1>2
<1> QED
  BY <1>1, <1>3 DEF Cloned, Scope

(* Created or revived, it is the same scope.                               *)
LEMMA RevivedIsClone ==
  ASSUME NEW s \in Scope, NEW g \in Scope, s.comparators = <<>>, ~s.filled,
         s.settings.tracing = g.settings.tracing
  PROVE  LET c == Revived(s, g)
         IN  c.settings = g.settings /\ ~c.filled /\ c.comparators = Reverse(g.comparators)
<1> DEFINE y == [s EXCEPT !.zombie = FALSE,
                          !.settings = [g.settings EXCEPT !.tracing = s.settings.tracing]]
<1>1. [g.settings EXCEPT !.tracing = s.settings.tracing] = g.settings
  BY SettingsEqual DEF Scope
<1>2. y \in Scope /\ y.settings = g.settings /\ y.comparators = <<>> /\ ~y.filled
  BY <1>1 DEF Scope
<1>3. Revived(s, g) = Cloned(y, g)
  BY DEF Revived
<1> HIDE DEF y
<1> QED
  BY <1>2, <1>3, ClonedFields

LEMMA CreatedIsClone ==
  ASSUME NEW g \in Scope
  PROVE  LET c == CreatedFrom(g)
         IN  c.settings = g.settings /\ ~c.filled /\ c.comparators = Reverse(g.comparators)
<1> DEFINE x == [NewScope EXCEPT !.settings = g.settings]
<1>1. x \in Scope /\ x.settings = g.settings /\ x.comparators = <<>> /\ ~x.filled
  <2>1. NewScope \in Scope /\ NewScope.comparators = <<>> /\ ~NewScope.filled
    BY DefaultType DEF NewScope
  <2> QED
    BY <2>1 DEF Scope
<1>2. CreatedFrom(g) = Cloned(x, g)
  BY DEF CreatedFrom
<1> HIDE DEF x
<1> QED
  BY <1>1, <1>2, ClonedFields

(* What Got makes of a scope, seen from outside.                           *)
LEMMA GotIsAccess ==
  ASSUME IInv, ZombiesEmpty, NEW n \in Scopes
  PROVE  LET g == IF Global \in DOMAIN scopes THEN scopes[Global] ELSE NewScope
         IN  /\ g \in Scope
             /\ Got(n)[Global] = g
             /\ \A m \in Alive : Got(n)[m] = scopes[m]
             /\ \A m \in {n} \ (Alive \cup {Global}) :
                  /\ Got(n)[m].settings = g.settings /\ ~Got(n)[m].filled
                  /\ Got(n)[m].comparators = Reverse(g.comparators)
             /\ {m \in DOMAIN Got(n) : ~Got(n)[m].zombie} = Alive \cup {n, Global}
<1> DEFINE g == IF Global \in DOMAIN scopes THEN scopes[Global] ELSE NewScope
<1>1. /\ g \in Scope
      /\ \A m \in DOMAIN scopes : scopes[m] \in Scope
  BY DefaultType DEF IInv, TypeOK
<1>2. DOMAIN Got(n) = DOMAIN scopes \cup {n, Global} /\ Got(n)[Global] = g
  BY DEF Got
<1>3. \A m \in Alive : Got(n)[m] = scopes[m]
  BY DEF Got, Alive
<1>4. ASSUME n \notin Alive, n # Global
      PROVE  /\ Got(n)[n].settings = g.settings /\ ~Got(n)[n].filled
             /\ Got(n)[n].comparators = Reverse(g.comparators)
  <2>1. CASE n \notin DOMAIN scopes
    <3>1. Got(n)[n] = CreatedFrom(g)
      BY <1>4, <2>1 DEF Got
    <3> HIDE DEF g
    <3> QED
      BY <3>1, <1>1, CreatedIsClone
  <2>2. CASE n \in DOMAIN scopes
    <3>1. scopes[n].zombie
      BY <1>4, <2>2 DEF Alive
    <3>2. Got(n)[n] = Revived(scopes[n], g)
      BY <1>4, <2>2, <3>1 DEF Got
    <3>3. /\ scopes[n].comparators = <<>> /\ ~scopes[n].filled
          /\ scopes[n].settings.tracing = g.settings.tracing
      BY <2>2, <3>1 DEF ZombiesEmpty
    <3> HIDE DEF g
    <3> QED
      BY <3>2, <3>3, <2>2, <1>1, RevivedIsClone
  <2> QED
    BY <2>1, <2>2
<1>5. {m \in DOMAIN Got(n) : ~Got(n)[m].zombie} = Alive \cup {n, Global}
  <2>1. \A m \in {n, Global} : ~Got(n)[m].zombie
    BY GotFacts, <1>2
  <2>2. \A m \in DOMAIN scopes \ {n, Global} : Got(n)[m] = scopes[m]
    BY DEF Got
  <2> QED
    BY <2>1, <2>2, <1>2, <1>3 DEF Alive
<1> QED
  BY <1>1, <1>2, <1>3, <1>4, <1>5

LEMMA AccessRefines ==
  ASSUME IInv, ZombiesEmpty, NEW n \in Scopes, Access(n)
  PROVE  Tree!Access(n) /\ ZombiesEmpty'
<1> DEFINE g == IF Global \in DOMAIN scopes THEN scopes[Global] ELSE NewScope
<1>1. /\ scopes' = Got(n) /\ Alive' = Alive \cup {n, Global}
      /\ scopes'[Global] = g
      /\ \A m \in Alive : scopes'[m] = scopes[m]
      /\ \A m \in {n} \ (Alive \cup {Global}) :
           /\ scopes'[m].settings = g.settings /\ ~scopes'[m].filled
           /\ scopes'[m].comparators = Reverse(g.comparators)
  BY GotIsAccess DEF Access, Alive
<1>2. Global \in Alive <=> Global \in DOMAIN scopes
  BY DEF IInv, Alive
<1>3. NewScope.settings = Default /\ ~NewScope.filled /\ NewScope.comparators = <<>>
  BY DEF NewScope
<1>4. Reverse(<<>>) = <<>>
  BY DEF Reverse
<1>5. \A q : Tree!Reverse(q) = Reverse(q)
  BY DEF Reverse, Tree!Reverse
<1>6. [m \in Alive |-> scopes[m].settings]' =
        [m \in Alive' |-> IF m \in Alive THEN scopes[m].settings
                          ELSE IF Global \in Alive THEN scopes[Global].settings ELSE Default]
  BY <1>1, <1>2, <1>3
<1>7. [m \in Alive |-> scopes[m].comparators]' =
        [m \in Alive' |-> IF m \in Alive THEN scopes[m].comparators
                          ELSE Reverse(IF Global \in Alive THEN scopes[Global].comparators ELSE <<>>)]
  BY <1>1, <1>2, <1>3, <1>4
<1>8. {m \in Alive : scopes[m].filled}' = {m \in Alive : scopes[m].filled}
  BY <1>1, <1>2, <1>3
<1>9. Tree!Access(n)
  <2>1. /\ [m \in Alive |-> scopes[m].settings]' =
             [m \in Alive' |-> IF m \in Alive THEN [k \in Alive |-> scopes[k].settings][m]
                               ELSE Tree!OldSettings(Global)]
        /\ [m \in Alive |-> scopes[m].comparators]' =
             [m \in Alive' |-> IF m \in Alive THEN [k \in Alive |-> scopes[k].comparators][m]
                               ELSE Tree!Reverse(Tree!OldRepository(Global))]
    BY <1>5, <1>6, <1>7 DEF Tree!OldSettings, Tree!OldRepository
  <2> QED
    BY <2>1, <1>1, <1>8 DEF Tree!Access
<1>10. ZombiesEmpty'
  <2>1. \A m \in DOMAIN scopes' : scopes'[m].zombie =>
          m \in DOMAIN scopes /\ scopes[m].zombie /\ scopes'[m] = scopes[m]
    BY <1>1, GotFacts DEF Got
  <2>2. DOMAIN scopes' = DOMAIN scopes \cup {n, Global}
    BY <1>1 DEF Got
  <2> QED
    BY <1>1, <2>1, <2>2 DEF ZombiesEmpty
<1> QED
  BY <1>9, <1>10

(* A step that keeps the scopes there are and what only some of them show. *)
LEMMA AliveStays ==
  ASSUME DOMAIN scopes' = DOMAIN scopes,
         \A m \in DOMAIN scopes : scopes'[m].zombie <=> scopes[m].zombie
  PROVE  Alive' = Alive /\ Alive \subseteq DOMAIN scopes
BY DEF Alive

LEMMA FilledStays ==
  ASSUME Alive' = Alive, \A m \in Alive : scopes'[m].filled <=> scopes[m].filled
  PROVE  {m \in Alive : scopes[m].filled}' = {m \in Alive : scopes[m].filled}
OBVIOUS

LEMMA RepositoryStays ==
  ASSUME Alive' = Alive, \A m \in Alive : scopes'[m].comparators = scopes[m].comparators
  PROVE  [m \in Alive |-> scopes[m].comparators]' = [m \in Alive |-> scopes[m].comparators]
OBVIOUS

LEMMA SettingsStay ==
  ASSUME Alive' = Alive, \A m \in Alive : scopes'[m].settings = scopes[m].settings
  PROVE  [m \in Alive |-> scopes[m].settings]' = [m \in Alive |-> scopes[m].settings]
OBVIOUS

LEMMA ZombiesStay ==
  ASSUME ZombiesEmpty, DOMAIN scopes' = DOMAIN scopes,
         \A m \in DOMAIN scopes :
           /\ scopes'[m].zombie <=> scopes[m].zombie
           /\ scopes[m].zombie => /\ scopes'[m].comparators = <<>> /\ ~scopes'[m].filled
                                 /\ scopes'[m].settings.tracing = scopes'[Global].settings.tracing
  PROVE  ZombiesEmpty'
BY DEF ZombiesEmpty

WithSwitch(s, switch, on) == [s EXCEPT !.settings[switch] = on]

LEMMA WithSwitchFields ==
  ASSUME NEW s \in Scope, NEW switch \in Switches \cup {"strict"}, NEW on \in BOOLEAN
  PROVE  LET t == WithSwitch(s, switch, on)
         IN  /\ t.zombie = s.zombie /\ t.comparators = s.comparators /\ t.filled = s.filled
             /\ t.settings = [s.settings EXCEPT ![switch] = on]
             /\ t.settings.tracing = IF switch = "tracing" THEN on ELSE s.settings.tracing
BY DEF WithSwitch, Scope, Settings, Switches

LEMMA StrictOrderRefines ==
  ASSUME IInv, ZombiesEmpty, NEW n \in Scopes, StrictOrder(n)
  PROVE  Tree!StrictOrder(n) /\ ZombiesEmpty'
<1>2. /\ DOMAIN scopes' = DOMAIN scopes /\ n \in Alive
      /\ \A m \in DOMAIN scopes :
           /\ scopes[m] \in Scope
           /\ scopes'[m] = IF m = n THEN WithSwitch(scopes[m], "strict", TRUE) ELSE scopes[m]
  BY DEF WithSwitch, StrictOrder, IInv, TypeOK
<1>3. \A m \in DOMAIN scopes :
        /\ scopes'[m].zombie <=> scopes[m].zombie
        /\ scopes'[m].comparators = scopes[m].comparators
        /\ scopes'[m].filled <=> scopes[m].filled
        /\ scopes'[m].settings.tracing = scopes[m].settings.tracing
        /\ scopes'[m].settings = IF m = n THEN [scopes[m].settings EXCEPT !.strict = TRUE]
                                ELSE scopes[m].settings
  <2>1. ASSUME NEW m \in DOMAIN scopes
        PROVE  LET t == WithSwitch(scopes[m], "strict", TRUE)
               IN  /\ t.zombie = scopes[m].zombie /\ t.comparators = scopes[m].comparators
                   /\ t.filled = scopes[m].filled
                   /\ t.settings.tracing = scopes[m].settings.tracing
                   /\ t.settings = [scopes[m].settings EXCEPT !.strict = TRUE]
    <3>1. scopes[m] \in Scope
      BY <1>2
    <3> QED
      BY <3>1 DEF WithSwitch, Scope, Settings
  <2> QED
    BY <1>2, <2>1
<1>4. Alive' = Alive /\ Alive \subseteq DOMAIN scopes
  BY <1>2, <1>3, AliveStays
<1>5. [m \in Alive |-> scopes[m].settings]' =
        [[m \in Alive |-> scopes[m].settings] EXCEPT ![n].strict = TRUE]
  BY <1>2, <1>3, <1>4
<1>6. /\ [m \in Alive |-> scopes[m].comparators]' = [m \in Alive |-> scopes[m].comparators]
      /\ {m \in Alive : scopes[m].filled}' = {m \in Alive : scopes[m].filled}
  BY <1>3, <1>4, RepositoryStays, FilledStays
<1>7. Tree!StrictOrder(n)
  BY <1>2, <1>4, <1>5, <1>6 DEF Tree!StrictOrder
<1>8. ZombiesEmpty'
  <2>1. ASSUME NEW m \in DOMAIN scopes, scopes[m].zombie
        PROVE  /\ scopes'[m].comparators = <<>> /\ ~scopes'[m].filled
               /\ scopes'[m].settings.tracing = scopes'[Global].settings.tracing
    <3>1. /\ Global \in DOMAIN scopes /\ scopes[m].comparators = <<>> /\ ~scopes[m].filled
          /\ scopes[m].settings.tracing = scopes[Global].settings.tracing
      BY <2>1 DEF ZombiesEmpty
    <3> QED
      BY <1>3, <3>1
  <2> QED
    BY <1>2, <1>3, <2>1, ZombiesStay
<1> QED
  BY <1>7, <1>8

LEMMA SetRefines ==
  ASSUME IInv, ZombiesEmpty, NEW n \in Scopes, NEW switch \in Switches, NEW on \in BOOLEAN,
         Set(n, switch, on)
  PROVE  Tree!Set(n, switch, on) /\ ZombiesEmpty'
<1>2. /\ DOMAIN scopes' = DOMAIN scopes /\ n \in Alive
      /\ \A m \in DOMAIN scopes :
           /\ scopes[m] \in Scope
           /\ scopes'[m] = IF m = n \/ n = Global THEN WithSwitch(scopes[m], switch, on)
                          ELSE scopes[m]
  BY DEF WithSwitch, Set, IInv, TypeOK
<1>3. \A m \in DOMAIN scopes :
        /\ scopes'[m].zombie <=> scopes[m].zombie
        /\ scopes'[m].comparators = scopes[m].comparators
        /\ scopes'[m].filled <=> scopes[m].filled
        /\ scopes'[m].settings = IF m = n \/ n = Global THEN [scopes[m].settings EXCEPT ![switch] = on]
                                ELSE scopes[m].settings
        /\ scopes'[m].settings.tracing = IF (m = n \/ n = Global) /\ switch = "tracing" THEN on
                                        ELSE scopes[m].settings.tracing
  BY <1>2, WithSwitchFields
<1>4. Alive' = Alive /\ Alive \subseteq DOMAIN scopes
  BY <1>2, <1>3, AliveStays
<1>5. [m \in Alive |-> scopes[m].settings]' =
        [m \in Alive |-> IF m \in Tree!Reach(n)
                         THEN [[k \in Alive |-> scopes[k].settings][m] EXCEPT ![switch] = on]
                         ELSE [k \in Alive |-> scopes[k].settings][m]]
  BY <1>2, <1>3, <1>4 DEF Tree!Reach
<1>6. /\ [m \in Alive |-> scopes[m].comparators]' = [m \in Alive |-> scopes[m].comparators]
      /\ {m \in Alive : scopes[m].filled}' = {m \in Alive : scopes[m].filled}
  BY <1>3, <1>4, RepositoryStays, FilledStays
<1>7. Tree!Set(n, switch, on)
  BY <1>2, <1>4, <1>5, <1>6 DEF Tree!Set
<1>8. ASSUME NEW m \in DOMAIN scopes, scopes[m].zombie
      PROVE  /\ scopes'[m].comparators = <<>> /\ ~scopes'[m].filled
             /\ scopes'[m].settings.tracing = scopes'[Global].settings.tracing
  <2>1. m # n /\ Global \in DOMAIN scopes
    BY <1>2, <1>8 DEF Alive, ZombiesEmpty
  <2>2. n # Global => scopes'[m] = scopes[m]
    BY <1>2, <2>1
  <2> QED
    BY <1>3, <1>8, <2>1 DEF ZombiesEmpty
<1>9. ZombiesEmpty'
  BY <1>2, <1>3, <1>8, ZombiesStay
<1> QED
  BY <1>7, <1>9

(* Expectations, with or without a parameter that binds a comparator.      *)
LEMMA FillRefines ==
  ASSUME IInv, ZombiesEmpty, NEW n \in Scopes,
         Fill(n) \/ \E type \in Types : Bind(n, type)
  PROVE  Tree!Fill(n) /\ ZombiesEmpty'
<1>1. /\ n \in Alive /\ n \in DOMAIN scopes /\ scopes[n] \in Scope
      /\ DOMAIN scopes' = DOMAIN scopes
      /\ \A m \in DOMAIN scopes \ {n} : scopes'[m] = scopes[m]
  <2>1. n \in Alive /\ n \in DOMAIN scopes /\ scopes[n] \in Scope
    BY DEF Fill, Bind, IInv, TypeOK, Alive
  <2>2. CASE Fill(n)
    BY <2>1, <2>2 DEF Fill
  <2>3. CASE \E type \in Types : Bind(n, type)
    BY <2>1, <2>3 DEF Bind
  <2> QED
    BY <2>1, <2>2, <2>3
<1>2. /\ scopes'[n].zombie <=> scopes[n].zombie
      /\ scopes'[n].comparators = scopes[n].comparators
      /\ scopes'[n].filled /\ scopes'[n].settings = scopes[n].settings
  <2>1. CASE Fill(n)
    <3>1. scopes'[n] = [scopes[n] EXCEPT !.filled = TRUE]
      BY <1>1, <2>1 DEF Fill
    <3> QED
      BY <1>1, <3>1 DEF Scope
  <2>2. CASE \E type \in Types : Bind(n, type)
    <3>1. PICK bd : scopes' = [scopes EXCEPT ![n].filled = TRUE, ![n].bound = @ \cup bd]
      BY <2>2 DEF Bind
    <3>2. scopes'[n] = [scopes[n] EXCEPT !.filled = TRUE, !.bound = @ \cup bd]
      BY <1>1, <3>1
    <3> QED
      BY <1>1, <3>2 DEF Scope
  <2> QED
    BY <2>1, <2>2
<1>3. Alive' = Alive /\ Alive \subseteq DOMAIN scopes
  BY <1>1, <1>2, AliveStays
<1>4. /\ [m \in Alive |-> scopes[m].settings]' = [m \in Alive |-> scopes[m].settings]
      /\ [m \in Alive |-> scopes[m].comparators]' = [m \in Alive |-> scopes[m].comparators]
  BY <1>1, <1>2, <1>3, SettingsStay, RepositoryStays
<1>5. {m \in Alive : scopes[m].filled}' = {m \in Alive : scopes[m].filled} \cup {n}
  BY <1>1, <1>2, <1>3
<1>6. Tree!Fill(n)
  BY <1>1, <1>3, <1>4, <1>5 DEF Tree!Fill
<1>7. ZombiesEmpty'
  BY <1>1, <1>2, ZombiesStay DEF ZombiesEmpty, Alive
<1> QED
  BY <1>6, <1>7
LEMMA InstallRefines ==
  ASSUME IInv, ZombiesEmpty, NEW n \in Scopes, NEW type \in Types, NEW ctx \in Contexts,
         n \in Alive, InstallNode(n, type, ctx)
  PROVE  Tree!Install(n, [type |-> type, ctx |-> ctx]) /\ ZombiesEmpty'
<1> DEFINE e == [type |-> type, ctx |-> ctx]
           Put(s) == [s EXCEPT !.comparators = <<e>> \o @]
<1>1. \A s \in Scope : /\ Put(s).zombie = s.zombie /\ Put(s).settings = s.settings
                       /\ Put(s).filled = s.filled /\ Put(s).comparators = <<e>> \o s.comparators
  BY DEF Scope
<1>2. /\ DOMAIN scopes' = DOMAIN scopes
      /\ \A m \in DOMAIN scopes :
           /\ scopes[m] \in Scope
           /\ scopes'[m] = IF m = n \/ (n = Global /\ ~scopes[m].zombie) THEN Put(scopes[m])
                          ELSE scopes[m]
  BY DEF InstallNode, IInv, TypeOK
<1> HIDE DEF Put, e
<1>3. \A m \in DOMAIN scopes :
        /\ scopes'[m].zombie <=> scopes[m].zombie
        /\ scopes'[m].filled <=> scopes[m].filled
        /\ scopes'[m].settings = scopes[m].settings
        /\ scopes'[m].comparators = IF m = n \/ (n = Global /\ ~scopes[m].zombie)
                                   THEN <<e>> \o scopes[m].comparators ELSE scopes[m].comparators
  <2>1. ASSUME NEW m \in DOMAIN scopes
        PROVE  LET t == Put(scopes[m])
               IN  /\ t.zombie = scopes[m].zombie /\ t.settings = scopes[m].settings
                   /\ t.filled = scopes[m].filled
                   /\ t.comparators = <<e>> \o scopes[m].comparators
    BY <1>1, <1>2
  <2> QED
    BY <1>2, <2>1
<1>4. Alive' = Alive /\ Alive \subseteq DOMAIN scopes
  BY <1>2, <1>3, AliveStays
<1>5. [m \in Alive |-> scopes[m].comparators]' =
        [m \in Alive |-> IF m \in Tree!Reach(n)
                         THEN <<e>> \o [k \in Alive |-> scopes[k].comparators][m]
                         ELSE [k \in Alive |-> scopes[k].comparators][m]]
  BY <1>2, <1>3, <1>4 DEF Tree!Reach, Alive
<1>6. /\ [m \in Alive |-> scopes[m].settings]' = [m \in Alive |-> scopes[m].settings]
      /\ {m \in Alive : scopes[m].filled}' = {m \in Alive : scopes[m].filled}
  BY <1>3, <1>4, SettingsStay, FilledStays
<1>7. Tree!Install(n, e)
  BY <1>4, <1>5, <1>6 DEF Tree!Install
<1>8. ZombiesEmpty'
  <2>1. \A m \in DOMAIN scopes : scopes[m].zombie => m # n
    BY DEF Alive
  <2> QED
    BY <1>2, <1>3, <2>1, ZombiesStay DEF ZombiesEmpty
<1> QED
  BY <1>7, <1>8 DEF e

LEMMA RemoveAllRefines ==
  ASSUME IInv, ZombiesEmpty, NEW n \in Scopes, n \in Alive, scopes' = Removed(scopes, n)
  PROVE  Tree!RemoveAll(n) /\ ZombiesEmpty'
<1>1. \A s \in Scope : /\ Emptied(s).zombie = s.zombie /\ Emptied(s).settings = s.settings
                       /\ Emptied(s).filled = s.filled /\ Emptied(s).comparators = <<>>
  BY DEF Emptied, Scope
<1>2. /\ DOMAIN scopes' = DOMAIN scopes
      /\ \A m \in DOMAIN scopes :
           /\ scopes[m] \in Scope
           /\ scopes'[m] = IF m = n \/ n = Global THEN Emptied(scopes[m]) ELSE scopes[m]
  BY DEF Removed, IInv, TypeOK
<1>3. \A m \in DOMAIN scopes :
        /\ scopes'[m].zombie <=> scopes[m].zombie
        /\ scopes'[m].filled <=> scopes[m].filled
        /\ scopes'[m].settings = scopes[m].settings
        /\ scopes'[m].comparators = IF m = n \/ n = Global THEN <<>> ELSE scopes[m].comparators
  BY <1>1, <1>2
<1>4. Alive' = Alive /\ Alive \subseteq DOMAIN scopes
  BY <1>2, <1>3, AliveStays
<1>5. [m \in Alive |-> scopes[m].comparators]' =
        [m \in Alive |-> IF m \in Tree!Reach(n) THEN <<>>
                         ELSE [k \in Alive |-> scopes[k].comparators][m]]
  BY <1>3, <1>4 DEF Tree!Reach
<1>6. /\ [m \in Alive |-> scopes[m].settings]' = [m \in Alive |-> scopes[m].settings]
      /\ {m \in Alive : scopes[m].filled}' = {m \in Alive : scopes[m].filled}
  BY <1>3, <1>4, SettingsStay, FilledStays
<1>7. Tree!RemoveAll(n)
  BY <1>4, <1>5, <1>6 DEF Tree!RemoveAll
<1>8. ZombiesEmpty'
  BY <1>2, <1>3, ZombiesStay DEF ZombiesEmpty
<1> QED
  BY <1>7, <1>8

LEMMA ClearNamedRefines ==
  ASSUME IInv, ZombiesEmpty, NEW n \in Named, ClearNamed(n)
  PROVE  Tree!ClearNamed(n) /\ ZombiesEmpty'
<1>1. \A s \in Scope : /\ ScopeClear(s).zombie = s.zombie /\ ScopeClear(s).settings = Default
                       /\ ~ScopeClear(s).filled /\ ScopeClear(s).comparators = s.comparators
  BY DEF ScopeClear, Scope
<1>2. /\ DOMAIN scopes' = DOMAIN scopes /\ n \in Alive
      /\ \A m \in DOMAIN scopes :
           /\ scopes[m] \in Scope
           /\ scopes'[m] = IF m = n THEN ScopeClear(scopes[m]) ELSE scopes[m]
  BY DEF ClearNamed, IInv, TypeOK
<1>3. \A m \in DOMAIN scopes :
        /\ scopes'[m].zombie <=> scopes[m].zombie
        /\ scopes'[m].filled <=> m # n /\ scopes[m].filled
        /\ scopes'[m].settings = IF m = n THEN Default ELSE scopes[m].settings
        /\ scopes'[m].comparators = scopes[m].comparators
  BY <1>1, <1>2
<1>4. Alive' = Alive /\ Alive \subseteq DOMAIN scopes
  BY <1>2, <1>3, AliveStays
<1>5. [m \in Alive |-> scopes[m].settings]' =
        [[m \in Alive |-> scopes[m].settings] EXCEPT ![n] = Default]
  BY <1>2, <1>3, <1>4
<1>6. {m \in Alive : scopes[m].filled}' = {m \in Alive : scopes[m].filled} \ {n}
  BY <1>3, <1>4
<1>7. [m \in Alive |-> scopes[m].comparators]' = [m \in Alive |-> scopes[m].comparators]
  BY <1>3, <1>4, RepositoryStays
<1>8. Tree!ClearNamed(n)
  BY <1>2, <1>4, <1>5, <1>6, <1>7 DEF Tree!ClearNamed
<1>9. ZombiesEmpty'
  <2>1. \A m \in DOMAIN scopes : scopes[m].zombie => m # n /\ Global # n
    BY <1>2, ScopesAssumption DEF Alive
  <2> QED
    BY <1>2, <1>3, <2>1, ZombiesStay DEF ZombiesEmpty
<1> QED
  BY <1>8, <1>9
(* The global clear: by a test, or by the plugin, which accesses the       *)
(* global mock first.                                                      *)
LEMMA ClearAllRefines ==
  ASSUME IInv, NEW all, Global \in DOMAIN all, ~all[Global].zombie,
         \A n \in DOMAIN all : all[n] \in Scope /\ Usable(all[n]),
         all[Global] = IF Global \in Alive THEN scopes[Global] ELSE NewScope,
         scopes' = AllCleared(all)
  PROVE  Tree!ClearAll /\ ZombiesEmpty'
<1>1. /\ DOMAIN scopes' = DOMAIN all
      /\ \A n \in DOMAIN all : scopes'[n] \in Scope /\ Cleared(n, scopes'[n])
  BY AllClearedFacts
<1>2. Alive' = {Global}
  BY <1>1 DEF Alive, Cleared
<1>3. scopes'[Global].comparators = all[Global].comparators
  BY DEF AllCleared, ScopeClear, Scope
<1>4. NewScope.comparators = <<>>
  BY DEF NewScope
<1>5. scopes'[Global].comparators = Tree!OldRepository(Global)
  BY <1>3, <1>4 DEF Tree!OldRepository
<1>6. /\ [m \in Alive |-> scopes[m].comparators]' = [s \in {Global} |-> Tree!OldRepository(Global)]
      /\ [m \in Alive |-> scopes[m].settings]' = [s \in {Global} |-> Default]
      /\ {m \in Alive : scopes[m].filled}' = {}
  BY <1>1, <1>2, <1>5 DEF Cleared
<1>7. Tree!ClearAll
  BY <1>2, <1>6 DEF Tree!ClearAll
<1>8. ASSUME NEW n \in DOMAIN all, scopes'[n].zombie
      PROVE  scopes'[n].comparators = <<>> /\ ~scopes'[n].filled
             /\ scopes'[n].settings.tracing = scopes'[Global].settings.tracing
  <2>1. n # Global /\ scopes'[n].settings = scopes'[Global].settings /\ ~scopes'[n].filled
    BY <1>1, <1>8 DEF Cleared
  <2>2. scopes'[n] = [Emptied(ScopeClear(all[n])) EXCEPT !.zombie = TRUE]
    BY <2>1 DEF AllCleared
  <2>3. ScopeClear(all[n]) \in Scope
    BY ScopeFields
  <2>4. scopes'[n].comparators = <<>>
    BY <2>2, <2>3 DEF Emptied, Scope
  <2> QED
    BY <2>1, <2>4
<1>9. ZombiesEmpty'
  BY <1>1, <1>8 DEF ZombiesEmpty
<1> QED
  BY <1>7, <1>9

LEMMA StutterRefines ==
  ASSUME ZombiesEmpty, UNCHANGED scopes
  PROVE  UNCHANGED Tree!vars /\ ZombiesEmpty'
BY DEF ZombiesEmpty, Tree!vars, Alive

LEMMA PluginRefines ==
  ASSUME IInv, ZombiesEmpty, ClearAll \/ PluginClear \/ PluginRemove
  PROVE  [Tree!Next]_(Tree!vars) /\ ZombiesEmpty'
<1>0. /\ Global \in Scopes /\ (Global \in Alive <=> Global \in DOMAIN scopes)
      /\ \A n \in DOMAIN scopes : scopes[n] \in Scope /\ Usable(scopes[n])
  BY DEF Scopes, Alive, IInv, TypeOK
<1>1. CASE ClearAll
  <2>1. Tree!ClearAll /\ ZombiesEmpty'
    BY <1>0, <1>1, ClearAllRefines DEF ClearAll, IInv
  <2> QED
    BY <2>1 DEF Tree!Next
<1>2. CASE PluginClear
  <2>1. Global \in DOMAIN Got(Global) /\ ~Got(Global)[Global].zombie
        /\ \A n \in DOMAIN Got(Global) : Got(Global)[n] \in Scope /\ Usable(Got(Global)[n])
    BY <1>0, GotFacts
  <2>2. Got(Global)[Global] = IF Global \in Alive THEN scopes[Global] ELSE NewScope
    BY <1>0 DEF Got
  <2>3. Tree!ClearAll /\ ZombiesEmpty'
    BY <1>2, <2>1, <2>2, ClearAllRefines DEF PluginClear
  <2> QED
    BY <2>3 DEF Tree!Next
<1>3. CASE PluginRemove
  <2>1. Global \in DOMAIN scopes /\ Global \in Alive
    BY <1>0, <1>3 DEF PluginRemove, IInv
  <2>2. DOMAIN Got(Global) = DOMAIN scopes
        /\ \A n \in DOMAIN scopes : Got(Global)[n] = scopes[n]
    BY <2>1 DEF Got, Alive
  <2>3. scopes' = Removed(scopes, Global)
    BY <1>3, <2>2 DEF PluginRemove, Removed
  <2>4. Tree!RemoveAll(Global) /\ ZombiesEmpty'
    BY <1>0, <2>1, <2>3, RemoveAllRefines
  <2> QED
    BY <2>4 DEF Tree!Next
<1> QED
  BY <1>1, <1>2, <1>3

LEMMA StepRefines ==
  ASSUME IInv, ZombiesEmpty, [Next]_vars
  PROVE  [Tree!Next]_(Tree!vars) /\ ZombiesEmpty'
<1>0. Scopes = Named \cup {Global}
  BY DEF Scopes
<1>1. ASSUME NEW n \in Scopes, Access(n)
      PROVE  [Tree!Next]_(Tree!vars) /\ ZombiesEmpty'
  BY <1>0, <1>1, AccessRefines DEF Tree!Next
<1>2. ASSUME NEW n \in Scopes, StrictOrder(n)
      PROVE  [Tree!Next]_(Tree!vars) /\ ZombiesEmpty'
  BY <1>0, <1>2, StrictOrderRefines DEF Tree!Next
<1>3. ASSUME NEW n \in Scopes, Fill(n) \/ \E type \in Types : Bind(n, type)
      PROVE  [Tree!Next]_(Tree!vars) /\ ZombiesEmpty'
  BY <1>0, <1>3, FillRefines DEF Tree!Next
<1>4. ASSUME NEW n \in Scopes, NEW switch \in Switches, NEW on \in BOOLEAN, Set(n, switch, on)
      PROVE  [Tree!Next]_(Tree!vars) /\ ZombiesEmpty'
  BY <1>0, <1>4, SetRefines DEF Tree!Next, Switches
<1>5. ASSUME NEW n \in Scopes, NEW type \in Types, NEW c \in Comparators, Install(n, type, c)
      PROVE  [Tree!Next]_(Tree!vars) /\ ZombiesEmpty'
  <2>1. <<"object", c>> \in Contexts
    BY DEF Contexts
  <2>2. [type |-> type, ctx |-> <<"object", c>>] \in Entries
    BY <2>1 DEF Entries
  <2> QED
    BY <1>0, <1>5, <2>1, <2>2, InstallRefines DEF Tree!Next, Install
<1>6. ASSUME NEW n \in Scopes, NEW type \in Types, NEW c \in Comparators, InstallC(n, type, c)
      PROVE  [Tree!Next]_(Tree!vars) /\ ZombiesEmpty'
  <2>1. CASE PoolFull
    BY <1>6, <2>1, StutterRefines DEF InstallC
  <2>2. CASE ~PoolFull
    <3>1. <<"adapter", adapter_count'>> \in Contexts
      <4>1. adapter_count' \in 1 .. MAX_C_ADAPTERS
        BY <1>6, <2>2, ScopesAssumption DEF InstallC, PoolFull, IInv, TypeOK
      <4> QED
        BY <4>1 DEF Contexts
    <3>2. [type |-> type, ctx |-> <<"adapter", adapter_count'>>] \in Entries
      BY <3>1 DEF Entries
    <3> QED
      BY <1>0, <1>6, <2>2, <3>1, <3>2, InstallRefines DEF Tree!Next, InstallC
  <2> QED
    BY <2>1, <2>2
<1>7. ASSUME NEW n \in Scopes, NEW api \in APIs, RemoveAll(n, api)
      PROVE  [Tree!Next]_(Tree!vars) /\ ZombiesEmpty'
  BY <1>0, <1>7, RemoveAllRefines DEF Tree!Next, RemoveAll
<1>8. ASSUME NEW n \in Named, ClearNamed(n)
      PROVE  [Tree!Next]_(Tree!vars) /\ ZombiesEmpty'
  BY <1>8, ClearNamedRefines DEF Tree!Next
<1>9. CASE TestEnds \/ TestBegins \/ UNCHANGED vars
  BY <1>9, StutterRefines DEF TestEnds, TestBegins, vars
<1> QED
  BY <1>1, <1>2, <1>3, <1>4, <1>5, <1>6, <1>7, <1>8, <1>9, PluginRefines DEF Next

(* A scope that was deleted and comes back cannot be told from one that    *)
(* was never there, whatever the tests and the plugin do.                  *)
THEOREM ScopesKeepTree == Spec => KeepsTree
<1>1. Init => Tree!Init /\ ZombiesEmpty
  <2> SUFFICES ASSUME Init
               PROVE  Tree!Init /\ ZombiesEmpty
    OBVIOUS
  <2>1. Alive = {} /\ DOMAIN scopes = {}
    BY DEF Init, Alive
  <2> QED
    BY <2>1 DEF Tree!Init, ZombiesEmpty
<1>2. IInv /\ ZombiesEmpty /\ [Next]_vars => [Tree!Next]_(Tree!vars) /\ ZombiesEmpty'
  BY StepRefines
<1> QED
  BY <1>1, <1>2, IInvHolds, PTL DEF Spec, KeepsTree, Tree!Spec
===============================================================================
