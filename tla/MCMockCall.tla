------------------------------- MODULE MCMockCall ------------------------------
(***************************************************************************)
(* Small instances of MockCall, one for each feature of the matching: what *)
(* the tests of a suite expect and which calls they make.                  *)
(***************************************************************************)
EXTENDS MockCall, TLC

CONSTANTS draw, erase, xpos, ypos, buf, objP, objQ

NoParams == <<>>

Want(fn, in, out, others, object) ==
  [fn |-> fn, in |-> in, out |-> out, others |-> others, object |-> object]

MCFunctions == {draw, erase}
MCObjects == {objP, objQ}
MCInputs == {<<xpos, 1>>, <<xpos, 2>>, <<ypos, 1>>, <<ypos, 2>>}
MCOutputs == {<<buf, "plain">>, <<buf, "typed">>}
MCCopiers == {"plain"}
MCAmounts == 0..2
MCOrders == {<<0, 0>>, <<1, 2>>, <<3, 3>>}

Base == [wants |-> {}, amounts |-> {1}, orders |-> {<<0, 0>>}, calls |-> {draw}, inputs |-> {},
         outputs |-> {}, objects |-> {}, does |-> {}, tests |-> 1]

(* Expectations whose parameters overlap, one that ignores the others.     *)
Parameters ==
  [Base EXCEPT !.wants = {Want(draw, xpos :> 1, NoParams, FALSE, AnyObject),
                          Want(draw, xpos :> 1 @@ ypos :> 1, NoParams, FALSE, AnyObject),
                          Want(draw, xpos :> 2 @@ ypos :> 1, NoParams, FALSE, AnyObject),
                          Want(draw, xpos :> 1, NoParams, TRUE, AnyObject)},
               !.inputs = {<<xpos, 1>>, <<xpos, 2>>, <<ypos, 1>>}, !.does = {"rename"}]

(* Output parameters, one of a type without a copier.                      *)
OutputParameters ==
  [Base EXCEPT !.wants = {Want(draw, NoParams, buf :> "plain", FALSE, AnyObject),
                          Want(draw, xpos :> 1, buf :> "plain", FALSE, AnyObject),
                          Want(draw, xpos :> 1, buf :> "plain", TRUE, AnyObject),
                          Want(draw, NoParams, buf :> "typed", FALSE, AnyObject),
                          Want(draw, xpos :> 1, buf :> "unmodified", FALSE, AnyObject)},
               !.inputs = {<<xpos, 1>>}, !.outputs = MCOutputs, !.does = {"rename"}]

(* Calls on objects, with and without parameters.                          *)
ObjectCalls ==
  [Base EXCEPT !.wants = {Want(draw, NoParams, NoParams, FALSE, objP),
                          Want(draw, xpos :> 1, NoParams, FALSE, objP),
                          Want(draw, xpos :> 1, NoParams, TRUE, objQ),
                          Want(draw, xpos :> 1, NoParams, FALSE, AnyObject)},
               !.inputs = {<<xpos, 1>>}, !.objects = MCObjects]

(* Several calls in a given order, by strictOrder() or withCallOrder().    *)
CallOrder ==
  [Base EXCEPT !.wants = {Want(draw, NoParams, NoParams, FALSE, AnyObject),
                          Want(erase, NoParams, NoParams, FALSE, AnyObject)},
               !.amounts = MCAmounts, !.orders = MCOrders, !.calls = {draw, erase},
               !.does = {"strict"}]

(* Two tests, each of which may change every setting and fail.             *)
Lifecycle ==
  [Base EXCEPT !.wants = {Want(draw, xpos :> 1, NoParams, FALSE, AnyObject)},
               !.calls = {draw, erase}, !.inputs = {<<xpos, 1>>}, !.tests = 2,
               !.does = {"strict", "ignore", "disable", "rename", "check", "clear", "fail"}]

MCWants == {Want(fn, in, out, others, object) :
              fn \in MCFunctions, in \in {NoParams, xpos :> 1, xpos :> 1 @@ ypos :> 1, xpos :> 2 @@ ypos :> 1, xpos :> 1 @@ ypos :> 2},
              out \in {NoParams, buf :> "plain", buf :> "typed", buf :> "unmodified"}, others \in BOOLEAN,
              object \in MCObjects \cup {AnyObject}}

MCSuites == {Parameters, OutputParameters, ObjectCalls, CallOrder, Lifecycle}

(* Tests that leave one expectation unmet.                                 *)
MCLeftovers == {[Base EXCEPT !.wants = {Want(draw, NoParams, NoParams, FALSE, AnyObject)},
                             !.tests = 3]}
===============================================================================
