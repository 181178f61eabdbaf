----------------------------- MODULE MCRunLease -----------------------------
(* RunLease with interchangeable processes.                                *)
EXTENDS RunLease, TLC

ProcessSymmetry == Permutations(Processes)
=============================================================================
