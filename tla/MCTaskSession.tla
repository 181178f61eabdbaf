--------------------------- MODULE MCTaskSession ----------------------------
(* TaskSession with one task and the probe, over two releases: the second  *)
(* no longer lists a model of the first.                                   *)
EXTENDS TaskSession, TLC

CONSTANTS qwen, m1, m2

MCCatalog == <<qwen :> {m1, m2}, qwen :> {m1}>>
MCDefaults == qwen :> m1
MCOwners == Runs \cup {Probe}
=============================================================================
