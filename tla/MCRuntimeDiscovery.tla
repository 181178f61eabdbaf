------------------------- MODULE MCRuntimeDiscovery -------------------------
(* Two releases over one database, two processes at a time, one CLI call,   *)
(* and a foreground start or the desktop.                                  *)
EXTENDS RuntimeDiscovery
=============================================================================
