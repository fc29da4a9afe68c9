------------------------------- MODULE MCTime -------------------------------
(* Time evaluator alone, in a zone whose clocks never change.              *)
EXTENDS TimeEvaluator

MCZones == {[switch |-> 0, before |-> 4, after |-> 4]}
=============================================================================
