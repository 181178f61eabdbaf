-------------------------- MODULE MCPlanValidation --------------------------
(* All plans of up to three steps over three keys, where a key no step has *)
(* is an unknown dependency.                                               *)
EXTENDS PlanValidation

MCBudgets == {[turns |-> 3, writes |-> 1], [turns |-> 2, writes |-> 3]}
=============================================================================
