------------------------------- MODULE MockScopes ------------------------------
(***************************************************************************)
(* The scopes of the mock and their repositories of comparators            *)
(* (src/src/mock/mock_core.c), used through the C++ facade or through      *)
(* mock_c() (src/src/mock/mock_support_c.c), by tests between which        *)
(* MockSupportPlugin clears and empties them.                              *)
(*                                                                         *)
(* A scope is never freed: clearing the global mock makes zombies of the   *)
(* named ones, which the next access brings back.  A test uses a scope it  *)
(* has accessed, and accesses it again after the global mock was cleared.  *)
(***************************************************************************)
EXTENDS Naturals, SequencesExt

CONSTANTS
  Global,          \* the scope named ""
  Named,           \* names of other scopes
  Types,           \* types of object parameters
  Comparators,     \* the user's comparators
  MAX_C_ADAPTERS,  \* size of the C interface's pool
  Suites,          \* which operations the tests of a run use
  MaxEntries       \* bound: entries of one repository

ASSUME ScopesAssumption ==
  /\ Global \notin Named
  /\ MAX_C_ADAPTERS \in Nat /\ MaxEntries \in Nat

VARIABLES
  suite,          \* the member of Suites the run uses
  scopes,         \* each scope that was ever accessed
  bind_scope,     \* whose repository binds parameters, or "none"
  adapters,       \* the pool: the comparator of each adapter
  adapter_count,
  phase           \* is a test running, or what is the plugin at?

vars == <<suite, scopes, bind_scope, adapters, adapter_count, phase>>

Scopes == Named \cup {Global}
APIs == {"C++", "C"}
Switches == {"enabled", "ignoring", "tracing"}

(* What an entry leads to: the comparator, or an adapter for it.           *)
Contexts == ({"object"} \X Comparators) \cup ({"adapter"} \X (1 .. MAX_C_ADAPTERS))
Entries == [type : Types, ctx : Contexts]

Settings == [enabled : BOOLEAN, ignoring : BOOLEAN, strict : BOOLEAN, tracing : BOOLEAN]
Default == [enabled |-> TRUE, ignoring |-> FALSE, strict |-> FALSE, tracing |-> FALSE]

(* bound has the bindings of the expectations' parameters; meant is        *)
(* history: the comparator that each led to when it was made.              *)
Scope ==
  [zombie : BOOLEAN, settings : Settings, filled : BOOLEAN, comparators : Seq(Entries),
   bound : SUBSET [ctx : Contexts, meant : Comparators]]

TypeOK ==
  /\ suite \in Suites
  /\ DOMAIN scopes \subseteq Scopes
  /\ \A n \in DOMAIN scopes : scopes[n] \in Scope
  /\ bind_scope \in Scopes \cup {"none"}
  /\ adapters \in [1 .. MAX_C_ADAPTERS -> Comparators \cup {"none"}]
  /\ adapter_count \in 0 .. MAX_C_ADAPTERS
  /\ phase \in {"test", "clear", "remove", "between"}

Init ==
  /\ suite \in Suites
  /\ scopes = <<>>
  /\ bind_scope = "none"
  /\ adapters = [k \in 1 .. MAX_C_ADAPTERS |-> "none"] /\ adapter_count = 0
  /\ phase = "test"

Alive == {n \in DOMAIN scopes : ~scopes[n].zombie}

Called(ctx) == IF ctx[1] = "object" THEN ctx[2] ELSE adapters[ctx[2]]

-------------------------------------------------------------------------------
(* Access *)

NewScope ==
  [zombie |-> FALSE, settings |-> Default, filled |-> FALSE, comparators |-> <<>>, bound |-> {}]

(* clone_repositories prepends one by one.                                 *)
Cloned(child, global) == [child EXCEPT !.comparators = Reverse(global.comparators) \o @]

CreatedFrom(global) == Cloned([NewScope EXCEPT !.settings = global.settings], global)

(* Mutant: a revived scope keeps its own idea of the call order.           *)
RevivedWithoutOrder(s, global) ==
  Cloned([s EXCEPT !.zombie = FALSE, !.settings.enabled = global.settings.enabled,
                   !.settings.ignoring = global.settings.ignoring], global)

(* All settings but tracing are those of the global mock again.            *)
Revived(s, global) ==
  Cloned([s EXCEPT !.zombie = FALSE,
                   !.settings = [global.settings EXCEPT !.tracing = s.settings.tracing]], global)

(* The scopes after cum_scope_get(n).                                      *)
Got(n) ==
  LET global == IF Global \in DOMAIN scopes THEN scopes[Global] ELSE NewScope
  IN  [m \in DOMAIN scopes \cup {n, Global} |->
         IF m = Global THEN global
         ELSE IF m \notin DOMAIN scopes THEN CreatedFrom(global)
         ELSE IF m = n /\ scopes[n].zombie THEN Revived(scopes[n], global)
         ELSE scopes[m]]

Testing == phase = "test"

(* mock(name), mock_scope_c(name)                                          *)
Access(n) ==
  /\ Testing
  /\ scopes' = Got(n)
  /\ bind_scope' = n
  /\ UNCHANGED <<suite, adapters, adapter_count, phase>>

-------------------------------------------------------------------------------
(* Settings and contents *)

Using(op) == Testing /\ op \in suite

StrictOrder(n) ==
  /\ Using("strict") /\ n \in Alive
  /\ scopes' = [scopes EXCEPT ![n].settings.strict = TRUE]
  /\ UNCHANGED <<suite, bind_scope, adapters, adapter_count, phase>>

(* enable, disable, ignoreOtherCalls, tracing: from the global mock to     *)
(* every scope, zombies too.                                               *)
Set(n, switch, on) ==
  /\ Using(switch) /\ n \in Alive
  /\ switch = "ignoring" => on
  /\ scopes' = [m \in DOMAIN scopes |->
                  IF m = n \/ n = Global THEN [scopes[m] EXCEPT !.settings[switch] = on]
                  ELSE scopes[m]]
  /\ UNCHANGED <<suite, bind_scope, adapters, adapter_count, phase>>

(* expectOneCall, or setData                                               *)
Fill(n) ==
  /\ Using("fill") /\ n \in Alive /\ scopes[n].settings.enabled
  /\ scopes' = [scopes EXCEPT ![n].filled = TRUE]
  /\ UNCHANGED <<suite, bind_scope, adapters, adapter_count, phase>>

(* find_in: the first entry of that type.                                  *)
IsFound(e, type, repository) ==
  \E i \in 1 .. Len(repository) :
    /\ e = repository[i] /\ e.type = type
    /\ \A j \in 1 .. i - 1 : repository[j].type # type

(* The parameter of an expectation of n: its comparator is looked up in    *)
(* the scope that was accessed last.                                       *)
Bind(n, type) ==
  /\ Using("bind") /\ n \in Alive /\ scopes[n].settings.enabled
  /\ bind_scope # "none"
  /\ \E e \in Range(scopes[bind_scope].comparators) :
       /\ IsFound(e, type, scopes[bind_scope].comparators)
       /\ scopes' = [scopes EXCEPT ![n].filled = TRUE,
                                   ![n].bound = @ \cup {[ctx |-> e.ctx, meant |-> Called(e.ctx)]}]
  /\ UNCHANGED <<suite, bind_scope, adapters, adapter_count, phase>>

-------------------------------------------------------------------------------
(* Repositories *)

(* cum_install_comparator                                                  *)
InstallNode(n, type, ctx) ==
  scopes' = [m \in DOMAIN scopes |->
               IF m = n \/ (n = Global /\ ~scopes[m].zombie)
               THEN [scopes[m] EXCEPT !.comparators = <<[type |-> type, ctx |-> ctx]>> \o @]
               ELSE scopes[m]]

Room == \A m \in DOMAIN scopes : Len(scopes[m].comparators) < MaxEntries

Install(n, type, c) ==
  /\ Using("install") /\ n \in Alive /\ Room
  /\ InstallNode(n, type, <<"object", c>>)
  /\ UNCHANGED <<suite, bind_scope, adapters, adapter_count, phase>>

PoolFull == adapter_count >= MAX_C_ADAPTERS

(* Through mock_c() an adapter is taken; without one nothing is installed. *)
InstallC(n, type, c) ==
  /\ Using("installC") /\ n \in Alive /\ Room
  /\ IF PoolFull
     THEN UNCHANGED <<scopes, adapters, adapter_count>>
     ELSE /\ adapter_count' = adapter_count + 1
          /\ adapters' = [k \in DOMAIN adapters \cup {adapter_count'} |->
                            IF k = adapter_count' THEN c ELSE adapters[k]]
          /\ InstallNode(n, type, <<"adapter", adapter_count'>>)
  /\ UNCHANGED <<suite, bind_scope, phase>>

Emptied(s) == [s EXCEPT !.comparators = <<>>]

(* cum_remove_all_comparators_and_copiers                                  *)
Removed(all, n) == [m \in DOMAIN all |-> IF m = n \/ n = Global THEN Emptied(all[m]) ELSE all[m]]

(* Through mock_c() the adapters of every scope are free again.            *)
RemoveAll(n, api) ==
  /\ Using("remove") /\ n \in Alive
  /\ scopes' = Removed(scopes, n)
  /\ adapter_count' = IF api = "C" THEN 0 ELSE adapter_count
  /\ UNCHANGED <<suite, bind_scope, adapters, phase>>

-------------------------------------------------------------------------------
(* Clearing *)

(* Mutant: tracing goes on.                                                *)
ScopeClearTracing(s) ==
  [s EXCEPT !.settings = [Default EXCEPT !.tracing = s.settings.tracing], !.filled = FALSE, !.bound = {}]

ScopeClear(s) == [s EXCEPT !.settings = Default, !.filled = FALSE, !.bound = {}]

(* cum_clear_all: the repository of the global mock stays.                 *)
AllCleared(all) ==
  [m \in DOMAIN all |->
     IF m = Global THEN ScopeClear(all[m])
     ELSE [Emptied(ScopeClear(all[m])) EXCEPT !.zombie = TRUE]]

(* Mutant: parameters go on being bound from a scope that was deleted.     *)
BindSourceKept(b) == b

BindSource(b) == IF b = Global THEN Global ELSE "none"

ClearAll ==
  /\ Using("clear") /\ Global \in Alive
  /\ scopes' = AllCleared(scopes)
  /\ bind_scope' = BindSource(bind_scope)
  /\ UNCHANGED <<suite, adapters, adapter_count, phase>>

ClearNamed(n) ==
  /\ Using("clear") /\ n \in Alive
  /\ scopes' = [scopes EXCEPT ![n] = ScopeClear(@)]
  /\ UNCHANGED <<suite, bind_scope, adapters, adapter_count, phase>>

(* The test has ended; the plugin does mock().clear() ...                  *)
TestEnds ==
  /\ Testing
  /\ phase' = "clear"
  /\ UNCHANGED <<suite, scopes, bind_scope, adapters, adapter_count>>

PluginClear ==
  /\ phase = "clear" /\ phase' = "remove"
  /\ scopes' = AllCleared(Got(Global))
  /\ bind_scope' = Global
  /\ UNCHANGED <<suite, adapters, adapter_count>>

(* ... and mock().removeAllComparatorsAndCopiers().                        *)
PluginRemove ==
  /\ phase = "remove" /\ phase' = "between"
  /\ scopes' = Removed(Got(Global), Global)
  /\ bind_scope' = Global
  /\ UNCHANGED <<suite, adapters, adapter_count>>

TestBegins ==
  /\ phase = "between" /\ phase' = "test"
  /\ UNCHANGED <<suite, scopes, bind_scope, adapters, adapter_count>>

Next ==
  \/ \E n \in Scopes :
       \/ Access(n) \/ StrictOrder(n) \/ Fill(n)
       \/ \E switch \in Switches, on \in BOOLEAN : Set(n, switch, on)
       \/ \E type \in Types :
            \/ Bind(n, type)
            \/ \E c \in Comparators : Install(n, type, c) \/ InstallC(n, type, c)
       \/ \E api \in APIs : RemoveAll(n, api)
  \/ ClearAll \/ \E n \in Named : ClearNamed(n)
  \/ TestEnds \/ PluginClear \/ PluginRemove \/ TestBegins

Spec == Init /\ [][Next]_vars

-------------------------------------------------------------------------------
(* Properties *)

(* Parameters are never bound from a scope that was deleted.               *)
BindSourceAlive == bind_scope # "none" => bind_scope \in Alive

(* After the plugin, a test finds every scope as if none had ever been     *)
(* used, the ones that were deleted and brought back included.             *)
FreshScopes ==
  phase = "between" => \A n \in Scopes : Got(n)[n] = NewScope

(* A scope that was deleted and comes back cannot be told from one that    *)
(* was never there: the zombies implement the deletion and the cloning     *)
(* that the comments promise (mock_core.c 529-530, 552-554, 1876-1877).    *)
Tree == INSTANCE ScopeTree WITH
  alive <- Alive,
  settings <- [n \in Alive |-> scopes[n].settings],
  filled <- {n \in Alive : scopes[n].filled},
  repository <- [n \in Alive |-> scopes[n].comparators]

KeepsTree == Tree!Spec

(* mock_core.c:146-150: a parameter's comparator is bound when it is made, *)
(* and "the binding survives removeAllComparatorsAndCopiers".              *)
BoundAsInstalled ==
  \A n \in DOMAIN scopes : \A b \in scopes[n].bound : Called(b.ctx) = b.meant
===============================================================================
