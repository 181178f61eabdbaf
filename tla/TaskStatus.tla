----------------------------- MODULE TaskStatus -----------------------------
(***************************************************************************)
(* The two state machines every component of the runtime shares:           *)
(* modules/tasks/task-state-machine.ts (a TaskRun) and                     *)
(* modules/tasks/step-state-machine.ts (a PlanStep), and the set of        *)
(* statuses TaskService accepts as the target of a resume.  A table is a   *)
(* function from a status to the set of its successors, as in the code.    *)
(***************************************************************************)

TerminalStatuses == {"SUCCEEDED", "FAILED", "CANCELLED"}

ResumableStatuses ==
  {"PREPARING", "PLANNING", "AWAITING_APPROVAL",
   "EXECUTING", "VERIFYING", "REPLANNING"}

TaskStatuses == {"CREATED", "PAUSED"} \cup ResumableStatuses \cup TerminalStatuses

(* Every non-terminal status but PAUSED itself has these successors.       *)
Exits == {"PAUSED", "FAILED", "CANCELLED"}

TaskTransitions ==
  [CREATED           |-> {"PREPARING"} \cup Exits,
   PREPARING         |-> {"PLANNING"} \cup Exits,
   PLANNING          |-> {"EXECUTING", "AWAITING_APPROVAL"} \cup Exits,
   AWAITING_APPROVAL |-> {"EXECUTING"} \cup Exits,
   EXECUTING         |-> {"VERIFYING", "REPLANNING"} \cup Exits,
   VERIFYING         |-> {"SUCCEEDED", "REPLANNING"} \cup Exits,
   REPLANNING        |-> {"EXECUTING"} \cup Exits,
   PAUSED            |-> ResumableStatuses \cup {"FAILED", "CANCELLED"},
   SUCCEEDED         |-> {},
   FAILED            |-> {},
   CANCELLED         |-> {}]

CanTransitionTask(from, to) == to \in TaskTransitions[from]

StepTransitions ==
  [PENDING   |-> {"READY", "SKIPPED", "CANCELLED"},
   READY     |-> {"RUNNING", "SKIPPED", "CANCELLED"},
   RUNNING   |-> {"SUCCEEDED", "PARTIAL", "FAILED", "CANCELLED"},
   SUCCEEDED |-> {},
   PARTIAL   |-> {},
   FAILED    |-> {},
   SKIPPED   |-> {},
   CANCELLED |-> {}]

StepStatuses == DOMAIN StepTransitions

CanTransitionStep(from, to) == to \in StepTransitions[from]
=============================================================================
