----------------------------- MODULE MCParallelRun -----------------------------
(***************************************************************************)
(* Small instances of ParallelRun.  The registries are those that tell the *)
(* dealing of the groups apart: fewer groups than workers, groups of two   *)
(* tests, and a group name that comes back after another one.              *)
(***************************************************************************)
EXTENDS ParallelRun

MCGroups == {"a", "b", "c"}

MCRegistries ==
  {<<>>, <<"a", "a", "a">>, <<"a", "a", "b">>, <<"a", "b", "a">>, <<"a", "b", "b", "a">>,
   <<"a", "b", "c", "a">>}

MCSeparate == BOOLEAN

MCOutcomes == {"pass", "fail", "crash", "ignored", "filtered"}

MCFaults == {"mkdtemp", "fork", "freopen", "stats", "kill"}
===============================================================================
