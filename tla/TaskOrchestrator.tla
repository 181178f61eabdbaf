-------------------------- MODULE TaskOrchestrator --------------------------
(***************************************************************************)
(* One TaskRun driven by one runtime process: TaskOrchestrator.run and the *)
(* TaskRunner around it, the user's controls (TaskService.control and its  *)
(* HTTP route), crashes of the process, and the recovery at its next start *)
(* (RecoveryService.scan and main.ts).                                     *)
(*                                                                         *)
(* Node runs one piece of code at a time, from one await to the next, and  *)
(* pc says where the coroutine of TaskRunner.run is.  At a value in Awaits *)
(* it waits for a model, a container or a file, and HTTP requests and      *)
(* timers run; at the other values it is between two writes of the same    *)
(* synchronous segment, where nothing but a crash can fall.                *)
(***************************************************************************)
EXTENDS TaskStatus, StepGraph, Integers

CONSTANTS Plans,       \* the plans a planner may return: step -> its dependencies
          MaxReplans,  \* budget.maxReplans
          None         \* no resumeStatus in the checkpoint, no snapshot

ASSUME PlansAssumption == \A p \in Plans : IsPlan(p)
ASSUME MaxReplansAssumption == MaxReplans \in Nat
Rows == [status : TaskStatuses, fresh : BOOLEAN]
ASSUME NoneAssumption == None \notin TaskStatuses \cup Rows

VARIABLES
  status,     \* task_runs.status
  resume,     \* task_runs.checkpoint_json.resumeStatus
  replans,    \* task_runs.replan_count
  plan,       \* plan_steps: position -> the positions it depends on
  steps,      \* plan_steps: position -> status
  orphan,     \* a tool operation nobody awaits is left without a known outcome
  sandbox,    \* the row of sandboxes: "none", "READY" or "DESTROYED"
  exported,   \* the final artifacts are stored
  lease,      \* "free", "mine" (this process) or "dead" (a process that is gone)
  pc,         \* where the coroutine is; "down" when there is no process
  cur,        \* the step the coroutine executes, 0 for none
  seen,       \* the row `details` holds across the preflight, and if it is current
  why,        \* how the try block ended
  scheduled,  \* main.ts will start the run as soon as the lease is free
  cleaner     \* a control request is removing the sandbox

row == <<status, resume, replans>>
work == <<plan, steps, cur>>
outside == <<scheduled, cleaner>>
vars == <<row, work, orphan, sandbox, exported, lease, pc, seen, why, outside>>

Awaits == {"idle", "preflight", "workspace", "planning", "prompt", "tool",
           "command", "accepted", "rejected", "patch", "export",
           "finishing", "cleanup", "disposing", "zombie"}
Segments == {"begin", "prepared", "reread", "planned", "planCommitted", "step",
             "promoted", "stepCommitted", "stepFailed", "counting", "settle", "verify",
             "finish", "catch", "blocked", "finally"}

(* An operation is OPERATION_STARTED while the coroutine awaits its tool.  *)
Operating == {"tool", "command", "patch"}
(* TaskRunner's #active has the run, and the orchestrator is inside try.   *)
Trying == (Awaits \cup Segments) \ {"idle", "zombie", "disposing", "cleanup"}

Active(s) == s \notin TerminalStatuses \cup {"PAUSED", "AWAITING_APPROVAL"}
Terminal == status \in TerminalStatuses
Running == {s \in DOMAIN steps : steps[s] = "RUNNING"}

(* The row is well formed in every state, between two writes too; the      *)
(* count of replans stays within the budget of the task.                   *)
TypeOK ==
  /\ status \in TaskStatuses
  /\ resume \in (TaskStatuses \ TerminalStatuses) \cup {None}
  /\ replans \in 0 .. MaxReplans
  /\ plan \in Plans \cup {<<>>}
  /\ steps \in [DOMAIN plan -> StepStatuses]
  /\ cur \in DOMAIN plan \cup {0}
  /\ orphan \in BOOLEAN /\ exported \in BOOLEAN
  /\ sandbox \in {"none", "READY", "DESTROYED"}
  /\ lease \in {"free", "mine", "dead"}
  /\ pc \in Awaits \cup Segments \cup {"down"}
  /\ seen \in Rows \cup {None}
  /\ why \in {"ok", "block", "fatal", "error"}
  /\ scheduled \in BOOLEAN /\ cleaner \in BOOLEAN

(* POST /v1/tasks has created the rows and is about to call start.         *)
Init ==
  /\ status = "CREATED" /\ resume = None /\ replans = 0
  /\ plan = <<>> /\ steps = <<>> /\ cur = 0
  /\ orphan = FALSE /\ sandbox = "none" /\ exported = FALSE
  /\ lease = "free" /\ pc = "idle" /\ seen = None /\ why = "ok"
  /\ scheduled = TRUE /\ cleaner = FALSE

----------------------------------------------------------------------------
(* The try block throws: to the catch clause, with the kind of error: a    *)
(* model block that is recoverable, one that is not, or anything else.     *)
Throw(kind) ==
  /\ pc' = "catch"
  /\ why' = kind
  /\ cur' = 0

Goto(p) == pc' = p /\ UNCHANGED <<why, cur>>

(* The condition of `while`, on details just read.                         *)
LoopHead == Goto(IF status = "EXECUTING" THEN "step" ELSE "settle")

(* CheckpointService.record: its checkpoints have no resumeStatus.         *)
Checkpoint == resume' = None

(* Lines 95-105: a created run is prepared, and `details` is kept across   *)
(* the preflight.                                                          *)
Begin ==
  /\ pc = "begin"
  /\ status' = IF status = "CREATED" THEN "PREPARING" ELSE status
  /\ seen' = [status |-> status', fresh |-> TRUE]
  /\ Goto("preflight")
  /\ UNCHANGED <<resume, replans, plan, steps, orphan, sandbox, exported, lease, outside>>

(* A RUNNING step was interrupted: it is replanned, not continued.  The    *)
(* compare-and-swap uses the row read before the preflight.                *)
Interrupted ==
  IF replans < MaxReplans /\ seen.fresh
  THEN status' = "REPLANNING" /\ Goto("counting")
  ELSE UNCHANGED status /\ Throw("error")

(* Mutated form of MustReplan: the check for a RUNNING step is missing.    *)
NeverReplan == FALSE

MustReplan == Running # {}

(* Lines 106-138, on what `details` said before the preflight.  A run that *)
(* was VERIFYING is read again at line 153.                                *)
PreflightPasses ==
  /\ pc = "preflight"
  /\ seen' = None
  /\ \/ /\ seen.status = "PREPARING"
        /\ Goto(IF sandbox = "none" THEN "workspace" ELSE "prepared")
        /\ UNCHANGED status
     \/ /\ seen.status \in {"PLANNING", "REPLANNING"}
        /\ Goto("planning")
        /\ UNCHANGED status
     \/ /\ seen.status = "EXECUTING"
        /\ IF MustReplan THEN Interrupted ELSE Goto("step") /\ UNCHANGED status
     \/ /\ seen.status = "VERIFYING"
        /\ Goto("settle")
        /\ UNCHANGED status
  /\ UNCHANGED <<resume, replans, plan, steps, orphan, sandbox, exported, lease, outside>>

(* Every reason the preflight gives is recoverable; the adapter may also   *)
(* throw an error that is not a model block.                               *)
PreflightFails ==
  /\ pc = "preflight"
  /\ seen' = None
  /\ \E kind \in {"block", "error"} : Throw(kind)
  /\ UNCHANGED <<row, plan, steps, orphan, sandbox, exported, lease, outside>>

----------------------------------------------------------------------------
(* prepareRun: createWorkspace returns and the sandbox is recorded.        *)
WorkspaceCreated ==
  /\ pc = "workspace"
  /\ sandbox' = "READY"
  /\ Goto("prepared")
  /\ UNCHANGED <<row, plan, steps, orphan, exported, lease, seen, outside>>

Prepared ==
  /\ pc = "prepared"
  /\ IF sandbox = "READY" THEN Checkpoint /\ Goto("reread")
                          ELSE UNCHANGED resume /\ Throw("error")
  /\ UNCHANGED <<status, replans, plan, steps, orphan, sandbox, exported, lease,
                 seen, outside>>

(* Lines 108-119: the row is read again, and a run still PREPARING is      *)
(* planned.                                                                *)
Reread ==
  /\ pc = "reread"
  /\ status' = IF status = "PREPARING" THEN "PLANNING" ELSE status
  /\ IF status \in {"PREPARING", "PLANNING", "REPLANNING"} THEN Goto("planning") ELSE LoopHead
  /\ UNCHANGED <<resume, replans, plan, steps, orphan, sandbox, exported, lease,
                 seen, outside>>

(* PlanService.create, for planRun and replanRun: the old steps are        *)
(* replaced in one transaction; a step without dependencies is READY.      *)
PlanMade ==
  /\ pc = "planning"
  /\ \E p \in Plans :
       /\ plan' = p
       /\ steps' = [s \in DOMAIN p |-> IF p[s] = {} THEN "READY" ELSE "PENDING"]
  /\ Goto("planned")
  /\ UNCHANGED <<row, orphan, sandbox, exported, lease, seen, outside>>

(* PLAN_COMMITTED and REPLAN_COMMITTED.                                    *)
Planned ==
  /\ pc = "planned"
  /\ Checkpoint
  /\ Goto("planCommitted")
  /\ UNCHANGED <<status, replans, plan, steps, orphan, sandbox, exported, lease,
                 seen, outside>>

PlanCommitted ==
  /\ pc = "planCommitted"
  /\ IF CanTransitionTask(status, "EXECUTING")
     THEN status' = "EXECUTING" /\ Goto("step")
     ELSE UNCHANGED status /\ Throw("error")
  /\ UNCHANGED <<resume, replans, plan, steps, orphan, sandbox, exported, lease,
                 seen, outside>>

----------------------------------------------------------------------------
(* Mutated form of Satisfied: one dependency that succeeded is enough.     *)
PartlySatisfied(s) == plan[s] = {} \/ \E d \in plan[s] : steps[d] = "SUCCEEDED"

(* Mutated form of Satisfied: only earlier positions are looked up.        *)
SatisfiedBefore(s) == \A d \in plan[s] : d < s /\ steps[d] = "SUCCEEDED"

(* dependenciesSatisfied of step-state-machine.ts.                         *)
Satisfied(s) == \A d \in plan[s] : steps[d] = "SUCCEEDED"

Promotable(s) == steps[s] = "PENDING"

(* The start of executeReadyStep: StepVerifier.promoteReady, which writes  *)
(* the steps one by one in an order that makes no difference.              *)
StepsPromoted ==
  /\ pc = "step"
  /\ steps' = [s \in DOMAIN steps |->
                 IF Promotable(s) /\ Satisfied(s) THEN "READY" ELSE steps[s]]
  /\ Goto("promoted")
  /\ UNCHANGED <<row, plan, orphan, sandbox, exported, lease, seen, outside>>

(* The first READY step by position becomes RUNNING, whatever the row of   *)
(* task_runs says now; without one the loop ends.                          *)
StepStarts ==
  /\ pc = "promoted"
  /\ LET ready == {s \in DOMAIN steps : steps[s] = "READY"}
     IN IF ready = {}
        THEN UNCHANGED steps /\ Goto("settle")
        ELSE \E s \in ready :
               /\ \A r \in ready : s <= r
               /\ steps' = [steps EXCEPT ![s] = "RUNNING"]
               /\ IF sandbox = "READY"
                  THEN pc' = "prompt" /\ cur' = s /\ UNCHANGED why
                  ELSE Throw("error")
  /\ UNCHANGED <<row, plan, orphan, sandbox, exported, lease, seen, outside>>

(* The model calls a side-effecting tool: createIntent and markStarted.    *)
ToolCalled ==
  /\ pc = "prompt"
  /\ sandbox = "READY"
  /\ Goto("tool")
  /\ UNCHANGED <<row, plan, steps, orphan, sandbox, exported, lease, seen, outside>>

(* ToolAudit.dispatch ends.  A result that is known is finished and        *)
(* checkpointed; a tool that throws is UNKNOWN_OUTCOME and checkpointed; a *)
(* result that cannot be stored leaves the operation OPERATION_STARTED.    *)
Known == Checkpoint /\ UNCHANGED orphan
Unknown == orphan' = TRUE /\ (Checkpoint \/ UNCHANGED resume)

(* The model sees the observation, or the error, and goes on.              *)
ToolReturned ==
  /\ pc = "tool"
  /\ Known \/ Unknown
  /\ Goto("prompt")
  /\ UNCHANGED <<status, replans, plan, steps, sandbox, exported, lease, seen, outside>>

(* Mutated form of UnknownFound: only operations of other runs are listed. *)
NothingFound == FALSE

(* listUnknown after the driver's turn.                                    *)
UnknownFound == orphan

(* The driver's turn ends well.  With an unknown outcome the run pauses, if*)
(* it is still EXECUTING, and nothing of the step is committed.  Otherwise *)
(* its verification commands run, as one operation, or it has none.        *)
TurnEnds ==
  /\ pc = "prompt"
  /\ IF UnknownFound
     THEN /\ status' = IF status = "EXECUTING" THEN "PAUSED" ELSE status
          /\ Throw("error")
     ELSE /\ UNCHANGED status
          /\ Goto("command") \/ Goto("accepted")
  /\ UNCHANGED <<resume, replans, plan, steps, orphan, sandbox, exported, lease,
                 seen, outside>>

(* run_command reports an exit code, or its outcome is unknown.            *)
CommandReturned ==
  /\ pc = "command"
  /\ \/ Known /\ (Goto("accepted") \/ Goto("rejected"))
     \/ Unknown /\ Throw("error")
  /\ UNCHANGED <<status, replans, plan, steps, sandbox, exported, lease, seen, outside>>

(* The result artifact is stored and the step is committed.                *)
StepAccepted ==
  /\ pc = "accepted"
  /\ steps' = [steps EXCEPT ![cur] = "SUCCEEDED"]
  /\ pc' = "stepCommitted" /\ cur' = 0 /\ UNCHANGED why
  /\ UNCHANGED <<row, plan, orphan, sandbox, exported, lease, seen, outside>>

(* PLAN_STEP_COMMITTED, and the loop reads the row again.                  *)
StepCommitted ==
  /\ pc = "stepCommitted"
  /\ Checkpoint
  /\ LoopHead
  /\ UNCHANGED <<status, replans, plan, steps, orphan, sandbox, exported, lease,
                 seen, outside>>

StepRejected ==
  /\ pc = "rejected"
  /\ steps' = [steps EXCEPT ![cur] = "FAILED"]
  /\ pc' = "stepFailed" /\ cur' = 0 /\ UNCHANGED why
  /\ UNCHANGED <<row, plan, orphan, sandbox, exported, lease, seen, outside>>

ReplanAllowed == replans < MaxReplans

(* StepExecutionError, lines 143-148 and the start of replanRun.           *)
StepFailed ==
  /\ pc = "stepFailed"
  /\ IF ReplanAllowed /\ CanTransitionTask(status, "REPLANNING")
     THEN status' = "REPLANNING" /\ Goto("counting")
     ELSE UNCHANGED status /\ Throw("error")
  /\ UNCHANGED <<resume, replans, plan, steps, orphan, sandbox, exported, lease,
                 seen, outside>>

(* Mutated form of Incremented: the count is lost.                         *)
NotIncremented == replans

Incremented == replans + 1

(* incrementReplan, a transaction of its own after the transition.         *)
ReplanCounted ==
  /\ pc = "counting"
  /\ replans' = Incremented
  /\ Goto("planning")
  /\ UNCHANGED <<status, resume, plan, steps, orphan, sandbox, exported, lease,
                 seen, outside>>

----------------------------------------------------------------------------
(* Mutated form of PlanDone: a plan with a step that succeeded is done.    *)
PlanBegun == \E s \in DOMAIN steps : steps[s] = "SUCCEEDED"

PlanDone == steps # <<>> /\ \A s \in DOMAIN steps : steps[s] = "SUCCEEDED"

(* Lines 153-161 and 166: no step is left, or the status ended the loop.   *)
Settle ==
  /\ pc = "settle"
  /\ \/ /\ status = "EXECUTING" /\ PlanDone
        /\ status' = "VERIFYING" /\ Goto("verify")
     \/ /\ status = "EXECUTING" /\ ~PlanDone
        /\ UNCHANGED status /\ Throw("error")
     \/ /\ status = "VERIFYING"
        /\ UNCHANGED status /\ Goto("verify")
     \/ /\ status \notin {"EXECUTING", "VERIFYING"}
        /\ UNCHANGED status /\ Goto("finally")
  /\ UNCHANGED <<resume, replans, plan, steps, orphan, sandbox, exported, lease,
                 seen, outside>>

(* verifyRun: git_diff is an audited operation too.                        *)
VerifyStarts ==
  /\ pc = "verify"
  /\ IF sandbox = "READY" THEN Goto("patch") ELSE Throw("error")
  /\ UNCHANGED <<row, plan, steps, orphan, sandbox, exported, lease, seen, outside>>

(* A git_diff that fails with a known result ends the run too.             *)
PatchReturned ==
  /\ pc = "patch"
  /\ \/ Known /\ (Goto("export") \/ Throw("error"))
     \/ Unknown /\ Throw("error")
  /\ UNCHANGED <<status, replans, plan, steps, sandbox, exported, lease, seen, outside>>

(* The four final artifacts, and FINAL_ARTIFACTS_COMMITTED.                *)
Exported ==
  /\ pc = "export"
  /\ exported' = TRUE
  /\ Checkpoint
  /\ Goto("finish")
  /\ UNCHANGED <<status, replans, plan, steps, orphan, sandbox, lease, seen, outside>>

(* Mutated form of MayFinish: the assertion is missing.                    *)
AlwaysFinish == TRUE

MayFinish == CanTransitionTask(status, "SUCCEEDED")

(* finishRun, on a row read again.                                         *)
Finish ==
  /\ pc = "finish"
  /\ IF MayFinish
     THEN /\ status' = "SUCCEEDED"
          /\ Goto(IF sandbox = "READY" THEN "finishing" ELSE "finally")
     ELSE UNCHANGED status /\ Throw("error")
  /\ UNCHANGED <<resume, replans, plan, steps, orphan, sandbox, exported, lease,
                 seen, outside>>

(* removeSandbox succeeds, or its error becomes a DIAGNOSTIC event.        *)
SandboxRemoved == sandbox' \in {sandbox, "DESTROYED"}

FinishingDone ==
  /\ pc = "finishing"
  /\ SandboxRemoved
  /\ Goto("finally")
  /\ UNCHANGED <<row, plan, steps, orphan, exported, lease, seen, outside>>

----------------------------------------------------------------------------
(* What is awaited fails.  A planner or an executor can be blocked by its  *)
(* model, recoverably or not; a plan that does not validate, a workspace   *)
(* that is not created and an artifact that is not stored are plain errors.*)
AwaitFails ==
  /\ \/ pc \in {"planning", "prompt"} /\ \E kind \in {"block", "fatal"} : Throw(kind)
     \/ pc \in {"workspace", "planning", "prompt", "accepted", "rejected", "export"}
        /\ Throw("error")
  /\ UNCHANGED <<row, plan, steps, orphan, sandbox, exported, lease, seen, outside>>

(* assertWithinDeadline, wherever the code calls it: the time is not       *)
(* modelled, so the budget may be found exhausted at any of them.          *)
Overdue ==
  /\ pc \in {"reread", "step", "verify"}
  /\ Throw("error")
  /\ UNCHANGED <<row, plan, steps, orphan, sandbox, exported, lease, seen, outside>>

(* The catch clause.  A model block pauses (its checkpoint first) or fails *)
(* the run; any other error leaves a PAUSED or CANCELLED run alone, or     *)
(* fails an active one and is thrown again.                                *)
ModelBlocked == why \in {"block", "fatal"} /\ ~Terminal

Catch ==
  /\ pc = "catch"
  /\ \/ /\ ModelBlocked /\ why = "block"
        /\ resume' = status
        /\ Goto("blocked")
        /\ UNCHANGED status
     \/ /\ ModelBlocked /\ why = "fatal"
        /\ status' = "FAILED"
        /\ pc' = "finally" /\ why' = "ok" /\ UNCHANGED <<cur, resume>>
     \/ /\ ~ModelBlocked
        /\ status \in {"PAUSED", "CANCELLED"}
        /\ pc' = "finally" /\ why' = "ok" /\ UNCHANGED <<cur, status, resume>>
     \/ /\ ~ModelBlocked
        /\ status \notin {"PAUSED", "CANCELLED"}
        /\ status' = IF Terminal THEN status ELSE "FAILED"
        /\ pc' = "finally" /\ why' = "error" /\ UNCHANGED <<cur, resume>>
  /\ UNCHANGED <<replans, plan, steps, orphan, sandbox, exported, lease, seen, outside>>

(* assertTaskTransition(status, "PAUSED") throws out of the catch clause   *)
(* when the user has paused the run meanwhile.                             *)
Blocked ==
  /\ pc = "blocked"
  /\ IF CanTransitionTask(status, "PAUSED")
     THEN status' = "PAUSED" /\ why' = "ok"
     ELSE UNCHANGED status /\ why' = "error"
  /\ pc' = "finally"
  /\ UNCHANGED <<resume, replans, work, orphan, sandbox, exported, lease, seen, outside>>

(* Mutated form of Released: a run that ends with an error keeps the lease.*)
ReleasedIfOk == IF why = "ok" THEN "free" ELSE lease

Released == "free"

(* finally: the lease is released, and a terminal task's sandbox removed.  *)
Finally ==
  /\ pc = "finally"
  /\ lease' = Released
  /\ Goto(IF Terminal /\ sandbox = "READY" THEN "cleanup" ELSE "disposing")
  /\ UNCHANGED <<row, plan, steps, orphan, sandbox, exported, seen, outside>>

CleanupDone ==
  /\ pc = "cleanup"
  /\ SandboxRemoved
  /\ Goto("disposing")
  /\ UNCHANGED <<row, plan, steps, orphan, exported, lease, seen, outside>>

(* TaskRunner.recordStartFailure, when the promise is rejected.            *)
StartFailed == status' = IF Terminal THEN status ELSE "FAILED"

(* TaskRunner.run's finally: the driver is disposed, the run is no longer  *)
(* active.  A dispose that rejects leaves the run in #active for good.     *)
Disposed ==
  /\ pc = "disposing"
  /\ \/ /\ pc' = "idle"
        /\ IF why = "error" THEN StartFailed ELSE UNCHANGED status
     \/ /\ pc' = "zombie"
        /\ StartFailed
  /\ why' = "ok"
  /\ UNCHANGED <<resume, replans, work, orphan, sandbox, exported, lease, seen, outside>>

----------------------------------------------------------------------------
(* HTTP handlers and timers run while the coroutine awaits.                *)
Listening == pc \in Awaits

(* A write of the row makes the object the coroutine holds outdated.       *)
Outdate == seen' = IF seen = None THEN None ELSE [seen EXCEPT !.fresh = FALSE]

(* cancelActive: the driver of an active run is told to stop, which shows  *)
(* as a turn that fails or ends; without one the sandbox is removed.       *)
CancelActive ==
  cleaner' = (cleaner \/ (pc = "idle" /\ status' \in TerminalStatuses
                          /\ sandbox = "READY"))

Cancel ==
  /\ Listening
  /\ IF Terminal THEN UNCHANGED <<status, seen>>
                 ELSE status' = "CANCELLED" /\ Outdate
  /\ CancelActive
  /\ UNCHANGED <<resume, replans, work, orphan, sandbox, exported, lease, pc, why,
                 scheduled>>

Pause ==
  /\ Listening
  /\ status \in ResumableStatuses
  /\ resume' = status
  /\ status' = "PAUSED"
  /\ Outdate
  /\ CancelActive
  /\ UNCHANGED <<replans, work, orphan, sandbox, exported, lease, pc, why, scheduled>>

CleanerDone ==
  /\ Listening
  /\ cleaner
  /\ cleaner' = FALSE
  /\ SandboxRemoved
  /\ UNCHANGED <<row, work, orphan, exported, lease, pc, seen, why, scheduled>>

(* RunLease.acquire succeeds on a lease that is free or its own.           *)
Acquired == lease # "dead"

(* TaskRunner.start.  The promise of an active run is joined: that of a run*)
(* whose dispose was rejected is rejected again.  Otherwise a run that is  *)
(* PAUSED returns at once, and one whose lease another process holds is    *)
(* left as it is.                                                          *)
Starts(s) == pc = "idle" /\ Active(s) /\ Acquired

Start(s) ==
  \/ /\ pc = "zombie"
     /\ status' = "FAILED"
     /\ UNCHANGED <<lease, pc>>
  \/ /\ Starts(s)
     /\ status' = s /\ lease' = "mine" /\ pc' = "begin"
  \/ /\ pc # "zombie" /\ ~Starts(s)
     /\ status' = s
     /\ UNCHANGED <<lease, pc>>

Resume ==
  /\ Listening
  /\ status = "PAUSED"
  /\ resume \in ResumableStatuses
  /\ Start(resume)
  /\ Outdate
  /\ UNCHANGED <<resume, replans, work, orphan, sandbox, exported, why, outside>>

(* resumeWhenLeaseAvailable: the timer is armed again while a lease holds. *)
ScheduledStart ==
  /\ Listening
  /\ scheduled
  /\ Terminal \/ lease = "free"
  /\ scheduled' = FALSE
  /\ IF Terminal THEN UNCHANGED <<status, lease, pc>> ELSE Start(status)
  /\ UNCHANGED <<resume, replans, work, orphan, sandbox, exported, seen, why, cleaner>>

----------------------------------------------------------------------------
(* The process dies: its operation stays OPERATION_STARTED, its lease is   *)
(* nobody's until it expires.                                              *)
Die ==
  /\ pc' = "down"
  /\ orphan' = (orphan \/ pc \in Operating)
  /\ lease' = IF lease = "mine" THEN "dead" ELSE lease
  /\ cur' = 0 /\ seen' = None /\ why' = "ok"
  /\ scheduled' = FALSE /\ cleaner' = FALSE
  /\ UNCHANGED <<status, replans, plan, steps, sandbox, exported>>

Crash ==
  /\ pc # "down"
  /\ Die
  /\ UNCHANGED resume

(* It dies between the two writes of a pause.                              *)
CrashInPause ==
  /\ Listening
  /\ status \in ResumableStatuses
  /\ resume' = status
  /\ Die

LeaseExpires ==
  /\ lease = "dead"
  /\ lease' = "free"
  /\ UNCHANGED <<row, work, orphan, sandbox, exported, pc, seen, why, outside>>

(* Mutated form of Awaited: only decisions to resume at once are followed. *)
NotAwaited == FALSE

(* main.ts follows WAIT_FOR_LEASE with a timer.                            *)
Awaited == TRUE

(* RecoveryService.scan for this run, and main.ts on its decision: nothing *)
(* for a terminal run; WAIT_FOR_LEASE before anything else is looked at;   *)
(* VERIFY_UNKNOWN_OUTCOME pauses the run; otherwise it is to be resumed.   *)
Restart ==
  /\ pc = "down"
  /\ pc' = "idle"
  /\ \/ Terminal /\ UNCHANGED <<status, scheduled>>
     \/ /\ ~Terminal /\ lease = "dead"
        /\ scheduled' = Awaited
        /\ UNCHANGED status
     \/ /\ ~Terminal /\ lease = "free" /\ orphan
        /\ status' = "PAUSED"
        /\ UNCHANGED scheduled
     \/ /\ ~Terminal /\ lease = "free" /\ ~orphan
        /\ scheduled' = (status # "AWAITING_APPROVAL")
        /\ UNCHANGED status
  /\ UNCHANGED <<resume, replans, work, orphan, sandbox, exported, lease, seen, why,
                 cleaner>>

Coroutine ==
  \/ Begin \/ PreflightPasses \/ PreflightFails
  \/ WorkspaceCreated \/ Prepared \/ Reread
  \/ PlanMade \/ Planned \/ PlanCommitted
  \/ StepsPromoted \/ StepStarts \/ ToolReturned \/ TurnEnds \/ CommandReturned
  \/ StepAccepted \/ StepCommitted \/ StepRejected \/ StepFailed \/ ReplanCounted
  \/ Settle \/ VerifyStarts \/ PatchReturned \/ Exported \/ Finish \/ FinishingDone
  \/ AwaitFails \/ Overdue \/ Catch \/ Blocked \/ Finally \/ CleanupDone \/ Disposed

Control == Cancel \/ Pause \/ Resume \/ CleanerDone
Process == ScheduledStart \/ Crash \/ CrashInPause \/ LeaseExpires \/ Restart

Next == Coroutine \/ ToolCalled \/ Control \/ Process

Spec == Init /\ [][Next]_vars

(* Whatever is awaited settles, a model that calls tools ends its turn at  *)
(* some point, time passes and timers fire.  Users and crashes are free.   *)
Fairness ==
  /\ WF_vars(Coroutine)
  /\ SF_vars(TurnEnds \/ (pc = "prompt" /\ AwaitFails))
  /\ WF_vars(LeaseExpires)
  /\ WF_vars(ScheduledStart)

FairSpec == Spec /\ Fairness

----------------------------------------------------------------------------
(* The row of task_runs goes through the lifecycle, across suspensions,    *)
(* user controls, crashes and recoveries: nothing revives a terminal run.  *)
Lifecycle == INSTANCE TaskLifecycle
ImplementsLifecycle == Lifecycle!Spec

(* Its steps are executed one at a time, after what they wait for and once,*)
(* and it SUCCEEDED with all of them: a crash in a step, a pause in one or *)
(* a replan in the middle is never more than the adoption of a new plan.   *)
Execution == INSTANCE PlanExecution WITH
  done <- {s \in DOMAIN steps : steps[s] = "SUCCEEDED"},
  running <- Running,
  failed <- {s \in DOMAIN steps : steps[s] = "FAILED"},
  succeeded <- status = "SUCCEEDED"
ImplementsPlanExecution == Execution!Spec

(* At most one step of the plan is RUNNING: an interrupted one is replanned*)
(* before another is started (lines 121-136), so a second executor never   *)
(* writes into the workspace on behalf of an earlier one.                  *)
AtMostOneRunning == \A s, t \in Running : s = t

(* No step is past PENDING before everything it depends on has succeeded,  *)
(* through replans, which replace the plan, and restarts in its middle.    *)
StepsFollowDependencies ==
  \A s \in DOMAIN steps :
    steps[s] # "PENDING" => \A d \in plan[s] : steps[d] = "SUCCEEDED"

(* Within one plan a step moves along its own table: one that failed, or   *)
(* succeeded before a crash, is not executed a second time.                *)
StepsFollowTable ==
  [][\A s \in DOMAIN steps :
       (pc # "planning" /\ steps'[s] # steps[s]) =>
         CanTransitionStep(steps[s], steps'[s])]_vars

(* A step is never committed as SUCCEEDED while an operation of the run,   *)
(* its own or one of an earlier incarnation, has no known outcome.         *)
CommitsKnownOutcomes ==
  [][\A s \in DOMAIN steps :
       (plan' = plan /\ steps'[s] = "SUCCEEDED" /\ orphan) => steps[s] = "SUCCEEDED"]_vars

(* SUCCEEDED means that the plan in force is complete and that the final   *)
(* artifacts were stored, whatever was paused, replanned or restarted.     *)
SuccessIsEarned ==
  status = "SUCCEEDED" =>
    /\ exported
    /\ steps # <<>> /\ \A s \in DOMAIN steps : steps[s] = "SUCCEEDED"

(* The loop over the steps ends with work left only when a step has failed:*)
(* a run that "has no executable steps but is incomplete" (line 157) is    *)
(* never one on which the promotion of steps got stuck, nor one in which a *)
(* crash or a control left a step behind.                                  *)
StuckMeansFailed ==
  (pc = "settle" /\ status = "EXECUTING" /\ ~PlanDone) =>
    \E s \in DOMAIN steps : steps[s] = "FAILED"

(* The lease is held whenever the orchestrator is inside its try block and *)
(* is returned with it: no run is driven without it, none that rests keeps *)
(* the next process waiting.                                               *)
LeaseCoversWork ==
  /\ lease = "mine" <=> pc \in Trying
  /\ lease = "dead" => pc \in {"idle", "down"}

(* The coroutine is somewhere in run.                                      *)
Driven == pc \notin {"idle", "zombie", "down"}

(* Every run of the orchestrator ends, or its process does.                *)
RunEnds == Driven ~> ~Driven

(* A run interrupted by a crash whose lease has not expired is driven again*)
(* once it has, unless the user or another crash comes first.              *)
InterruptedRunResumes ==
  (pc = "idle" /\ Active(status) /\ lease = "dead")
    ~> (pc # "idle" \/ ~Active(status))

(* While the lease of a dead process keeps a run from being started, a     *)
(* start is pending: no refused resume, pause or second crash leaves a run *)
(* behind that nobody will look at when the lease has expired.             *)
DeadLeaseIsAwaited == (lease = "dead" /\ pc # "down" /\ ~Terminal) => scheduled

----------------------------------------------------------------------------
(* What the documents and the tests say of pauses, unknown outcomes and    *)
(* cancellation, and the code does not keep: each has a run of its own     *)
(* that shows how.                                                         *)

(* Work on a paused run starts again only when the user resumes it.        *)
PauseHolds == [][(status = "PAUSED" /\ Active(status')) => Resume]_vars

(* A run that rests in PAUSED has a checkpoint that names the status to    *)
(* resume it from, unless an unknown outcome is to be verified first.      *)
PauseIsResumable == (status = "PAUSED" /\ pc = "idle" /\ ~orphan) => resume # None

StepBegins == \E s \in DOMAIN steps' :
  steps'[s] = "RUNNING" /\ (s \in DOMAIN steps => steps[s] # "RUNNING")

(* No step is begun while an operation of the run has an unknown outcome:  *)
(* the step may repeat what that operation did.                            *)
UnknownOutcomeStopsWork == [][StepBegins => ~orphan]_vars
=============================================================================
