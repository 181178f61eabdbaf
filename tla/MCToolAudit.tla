----------------------------- MODULE MCToolAudit -----------------------------
(* ToolAudit with interchangeable calls.                                   *)
EXTENDS ToolAudit, TLC

CallSymmetry == Permutations(Calls)
=============================================================================
