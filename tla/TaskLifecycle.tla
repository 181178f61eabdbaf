--------------------------- MODULE TaskLifecycle ----------------------------
(***************************************************************************)
(* What a TaskRun promises to everything that looks at its status: it is   *)
(* created once, moves only along the transition table, and never leaves a *)
(* terminal status.  RunLedger (several writers, compare-and-swap) and     *)
(* TaskOrchestrator (one runtime, crashes, user controls) are both shown   *)
(* to implement this specification.                                        *)
(***************************************************************************)
EXTENDS TaskStatus

VARIABLE status

Init == status = "CREATED"

Move(to) == /\ CanTransitionTask(status, to)
            /\ status' = to

Next == \E to \in TaskStatuses : Move(to)

Spec == Init /\ [][Next]_status
=============================================================================
