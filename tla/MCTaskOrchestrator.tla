------------------------- MODULE MCTaskOrchestrator -------------------------
(* TaskOrchestrator with the plans of one and two steps (independent steps,*)
(* a chain, a chain against the order of the positions) and two of three:  *)
(* a fork, and one whose last position has to come first.                  *)
EXTENDS TaskOrchestrator

SmallPlans == {<<{}>>, <<{}, {}>>, <<{}, {1}>>, <<{2}, {}>>}
LongPlans == SmallPlans \cup {<<{}, {1}, {1}>>, <<{3}, {1, 3}, {}>>}
ShortPlans == {<<{}>>, <<{}, {1}>>}
=============================================================================
