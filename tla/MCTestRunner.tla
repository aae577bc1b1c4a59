----------------------------- MODULE MCTestRunner -----------------------------
(* A small instance of TestRunner: one test inside another inside another  *)
(* is already too deep.                                                    *)
EXTENDS TestRunner
===============================================================================
