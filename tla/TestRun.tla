------------------------------- MODULE TestRun --------------------------------
(***************************************************************************)
(* What one run of the registered tests promises to whoever reads its      *)
(* verdict, however the tests are spread over processes: a test runs at    *)
(* most once, its result is counted after it ran, and the run is green     *)
(* exactly when every registered test was counted, none of them went       *)
(* wrong, nothing happened to the processes that ran them, and the run was *)
(* not empty.                                                              *)
(***************************************************************************)
CONSTANTS
  Outcomes,   \* the ways the iteration of the run loop for a test can end
  Bad,        \* the outcomes that must turn the run red
  Attempted   \* the outcomes that show a test was selected (run or ignored)

VARIABLES
  registered, \* the registered tests
  outcome,    \* what became of each test, "none" before its iteration
  counted,    \* the tests whose result is in the totals
  incident,   \* did anything go wrong outside the tests themselves?
  verdict     \* what the run reports at the end

vars == <<registered, outcome, counted, incident, verdict>>

TypeOK ==
  /\ outcome \in [registered -> Outcomes \cup {"none"}]
  /\ counted \subseteq registered
  /\ incident \in BOOLEAN
  /\ verdict \in {"none", "green", "red"}

Init ==
  /\ outcome = [t \in registered |-> "none"]
  /\ counted = {}
  /\ incident = FALSE
  /\ verdict = "none"

(* A process goes through the run loop's iteration for test t.             *)
RunTest(t, o) ==
  /\ verdict = "none"
  /\ outcome[t] = "none"
  /\ outcome' = [outcome EXCEPT ![t] = o]
  /\ UNCHANGED <<registered, counted, incident, verdict>>

(* Results of tests that were run enter the totals, possibly together with *)
(* the news that something happened to the process that ran them.          *)
Account(S) ==
  /\ verdict = "none"
  /\ \A t \in S : outcome[t] # "none"
  /\ counted' = counted \cup S
  /\ incident' \in {incident, TRUE}
  /\ UNCHANGED <<registered, outcome, verdict>>

Green ==
  /\ counted = registered
  /\ \A t \in registered : outcome[t] \notin Bad
  /\ ~ incident
  /\ \E t \in registered : outcome[t] \in Attempted

Decide ==
  /\ verdict = "none"
  /\ UNCHANGED <<registered, outcome, counted>>
  /\ incident' \in {incident, TRUE}
  /\ verdict' = IF Green' THEN "green" ELSE "red"

Next ==
  \/ \E t \in registered, o \in Outcomes : RunTest(t, o)
  \/ \E S \in SUBSET registered : Account(S)
  \/ Decide

Spec == Init /\ [][Next]_vars
===============================================================================
