--------------------------- MODULE MCEventStream ----------------------------
(* EventStream with interchangeable writers and readers.                   *)
EXTENDS EventStream, TLC

MCSymmetry == Permutations(Writers) \cup Permutations(Readers)
=============================================================================
