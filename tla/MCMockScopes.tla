------------------------------ MODULE MCMockScopes -----------------------------
(***************************************************************************)
(* Small instances of MockScopes: tests that switch, tests that install.   *)
(***************************************************************************)
EXTENDS MockScopes

MCSuites ==
  {{"strict", "enabled", "ignoring", "tracing", "fill", "clear"},
   {"strict", "install", "remove", "bind", "clear"},
   {"installC", "remove", "bind", "clear"}}

MCAdapterSuites == {{"installC", "remove", "bind"}}
===============================================================================
