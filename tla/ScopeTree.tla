------------------------------- MODULE ScopeTree -------------------------------
(***************************************************************************)
(* What the mock's scopes promise (the comments of src/src/mock/           *)
(* mock_core.c on scopes): a named scope comes to be on its first use, as  *)
(* a clone of the global one; clearing the global mock deletes every named *)
(* scope; what is set on the global mock holds for all that exist.         *)
(***************************************************************************)
EXTENDS Sequences, SequencesExt

CONSTANTS
  Global,    \* mock()
  Named,     \* mock(name)
  Entries,   \* what can be installed: comparators
  Default    \* the settings of a new global mock

VARIABLES
  alive,       \* the scopes that exist
  settings,    \* of each of them
  filled,      \* the ones that hold expectations, calls or data
  repository   \* the entries of each, the one to be found first in front

vars == <<alive, settings, filled, repository>>

Init == alive = {} /\ settings = <<>> /\ filled = {} /\ repository = <<>>

OldSettings(n) == IF n \in alive THEN settings[n] ELSE Default
OldRepository(n) == IF n \in alive THEN repository[n] ELSE <<>>

Access(n) ==
  /\ alive' = alive \cup {n, Global}
  /\ settings' = [s \in alive' |-> IF s \in alive THEN settings[s] ELSE OldSettings(Global)]
  /\ repository' = [s \in alive' |-> IF s \in alive THEN repository[s]
                                     ELSE Reverse(OldRepository(Global))]
  /\ UNCHANGED filled

Reach(n) == IF n = Global THEN alive ELSE {n}

Set(n, field, value) ==
  /\ n \in alive
  /\ settings' = [s \in alive |-> IF s \in Reach(n) THEN [settings[s] EXCEPT ![field] = value]
                                  ELSE settings[s]]
  /\ UNCHANGED <<alive, filled, repository>>

(* Call order is a matter of one scope.                                    *)
StrictOrder(n) ==
  /\ n \in alive
  /\ settings' = [settings EXCEPT ![n].strict = TRUE]
  /\ UNCHANGED <<alive, filled, repository>>

Fill(n) ==
  /\ n \in alive
  /\ filled' = filled \cup {n}
  /\ UNCHANGED <<alive, settings, repository>>

Install(n, e) ==
  /\ n \in alive
  /\ repository' = [s \in alive |-> IF s \in Reach(n) THEN <<e>> \o repository[s] ELSE repository[s]]
  /\ UNCHANGED <<alive, settings, filled>>

RemoveAll(n) ==
  /\ n \in alive
  /\ repository' = [s \in alive |-> IF s \in Reach(n) THEN <<>> ELSE repository[s]]
  /\ UNCHANGED <<alive, settings, filled>>

ClearAll ==
  /\ alive' = {Global} /\ filled' = {}
  /\ settings' = [s \in {Global} |-> Default]
  /\ repository' = [s \in {Global} |-> OldRepository(Global)]

ClearNamed(n) ==
  /\ n \in alive
  /\ settings' = [settings EXCEPT ![n] = Default]
  /\ filled' = filled \ {n}
  /\ UNCHANGED <<alive, repository>>

Next ==
  \/ \E n \in Named \cup {Global} :
       \/ Access(n) \/ StrictOrder(n) \/ Fill(n) \/ RemoveAll(n)
       \/ \E field \in {"enabled", "ignoring", "tracing"}, value \in BOOLEAN : Set(n, field, value)
       \/ \E e \in Entries : Install(n, e)
  \/ ClearAll
  \/ \E n \in Named : ClearNamed(n)

Spec == Init /\ [][Next]_vars
===============================================================================
