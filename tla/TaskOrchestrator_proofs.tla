---------------------- MODULE TaskOrchestrator_proofs -----------------------
(***************************************************************************)
(* What TaskOrchestrator guarantees for every set of plans and every replan*)
(* budget.  Each conjunct of IInv is preserved by a lemma of its own, from *)
(* the conjuncts it depends on, with one step per phase of the run.        *)
(***************************************************************************)
EXTENDS TaskOrchestrator, FiniteSetTheorems, TLAPS

(* The coroutine executes a step.                                          *)
StepPcs == {"prompt", "tool", "command", "accepted", "rejected"}
(* The plan is in force and none of its steps is executed.                 *)
CalmPcs == {"planned", "planCommitted", "step", "promoted", "stepCommitted", "stepFailed"}
(* The run is decided, or nobody drives it.                                *)
EndPcs == {"finishing", "finally", "cleanup", "disposing", "idle", "zombie", "down"}
(* Where a run is that was VERIFYING before: the plan is never made again. *)
LatePcs == EndPcs \cup {"begin", "preflight", "settle", "verify", "patch",
                        "export", "finish", "catch", "blocked"}

(* The type invariant in four parts, and what keeps the count of replans   *)
(* within the budget and the current step within the plan.                 *)
RowInv ==
  /\ status \in TaskStatuses
  /\ resume \in (TaskStatuses \ TerminalStatuses) \cup {None}
  /\ replans \in 0 .. MaxReplans
  /\ pc = "counting" => replans < MaxReplans
PlanInv ==
  /\ plan \in Plans \cup {<<>>}
  /\ steps \in [DOMAIN plan -> StepStatuses]
  /\ cur \in DOMAIN plan \cup {0}
  /\ (cur # 0) <=> (pc \in StepPcs)
PlaceInv ==
  /\ sandbox \in {"none", "READY", "DESTROYED"}
  /\ lease \in {"free", "mine", "dead"}
  /\ pc \in Awaits \cup Segments \cup {"down"}
  /\ seen \in Rows \cup {None}
  /\ why \in {"ok", "block", "fatal", "error"}
FlagInv ==
  /\ orphan \in BOOLEAN /\ exported \in BOOLEAN
  /\ scheduled \in BOOLEAN /\ cleaner \in BOOLEAN

(* run begins only with a status it works on.                              *)
BeginInv == pc = "begin" => Active(status)

(* The row held across the preflight is the current one unless a control   *)
(* has written.                                                            *)
SeenInv ==
  /\ (pc = "preflight") <=> (seen # None)
  /\ seen # None => (seen.fresh => seen.status = status)

(* Controls that reach a run in preparation leave it in preparation, so it *)
(* is not EXECUTING when it is read again.                                 *)
PrepareInv ==
  (pc \in {"workspace", "prepared", "reread"}
     \/ (pc = "preflight" /\ seen.status = "PREPARING")) =>
    /\ status \in {"PREPARING", "PAUSED"} \cup TerminalStatuses
    /\ status = "PAUSED" => resume \in {None, "PREPARING"}

(* The step the coroutine executes is the only one that is RUNNING; where  *)
(* it executes none, one left by a crash may be.                           *)
RunningInv ==
  /\ pc \in StepPcs => Running = {cur}
  /\ pc \in CalmPcs => Running = {}
  /\ AtMostOneRunning

(* A run that has reached VERIFYING, or is to be resumed there, has a      *)
(* complete plan and does not go back to planning.                         *)
Late ==
  \/ status = "VERIFYING"
  \/ resume = "VERIFYING"
  \/ pc = "preflight" /\ seen.status = "VERIFYING"
LateInv ==
  /\ Late => PlanDone /\ pc \in LatePcs
  /\ resume = "VERIFYING" => status \in {"VERIFYING", "PAUSED"} \cup TerminalStatuses
  /\ pc = "preflight" /\ Late => seen.status = "VERIFYING"

(* The artifacts precede the status, and a run that SUCCEEDED is left.     *)
DoneInv ==
  /\ pc = "finish" => exported
  /\ status = "SUCCEEDED" => exported /\ PlanDone /\ pc \in EndPcs

(* From the end of the turn to the commit no outcome is unknown.           *)
KnownInv == pc \in {"command", "accepted"} => ~orphan

(* An executed step, and a plan just made, belong to a plan; so does a run *)
(* that is EXECUTING, or is to be resumed there.                           *)
PlannedInv ==
  (\/ pc \in CalmPcs
   \/ status = "EXECUTING" \/ resume = "EXECUTING"
   \/ pc = "preflight" /\ seen.status = "EXECUTING") => DOMAIN plan # {}

(* The statuses the code gives to steps; and what the promotion leaves     *)
(* PENDING waits for something, so that a loop that ends leaves nothing it *)
(* could have started.                                                     *)
StuckInv ==
  /\ \A s \in DOMAIN steps :
       steps[s] \in {"PENDING", "READY", "RUNNING", "SUCCEEDED", "FAILED"}
  /\ pc = "promoted" => \A s \in DOMAIN steps : steps[s] = "PENDING" => ~Satisfied(s)
  /\ (pc = "settle" /\ status = "EXECUTING" /\ ~PlanDone) =>
       \A s \in DOMAIN steps : \/ steps[s] \in {"SUCCEEDED", "FAILED"}
                               \/ (steps[s] = "PENDING" /\ ~Satisfied(s))

IInv ==
  /\ RowInv /\ PlanInv /\ PlaceInv /\ FlagInv
  /\ LeaseCoversWork
  /\ BeginInv /\ SeenInv /\ PrepareInv
  /\ RunningInv /\ StepsFollowDependencies
  /\ LateInv /\ DoneInv /\ KnownInv
  /\ PlannedInv /\ StuckInv

----------------------------------------------------------------------------
(* The phases of a run: the actions of the coroutine by the part of the    *)
(* code they are in, the user's controls, and the life of the process.     *)
Preparing == Begin \/ PreflightPasses \/ PreflightFails \/ WorkspaceCreated \/
  Prepared \/ Reread
Planning == PlanMade \/ Planned \/ PlanCommitted \/ StepFailed \/
  ReplanCounted
Stepping == StepsPromoted \/ StepStarts \/ ToolCalled \/ ToolReturned \/
  TurnEnds \/ CommandReturned \/ StepAccepted \/ StepCommitted \/ StepRejected
Closing == Settle \/ VerifyStarts \/ PatchReturned \/ Exported \/ Finish \/
  FinishingDone
Leaving == AwaitFails \/ Overdue \/ Catch \/ Blocked \/ Finally \/ CleanupDone
  \/ Disposed
Controlling == Cancel \/ Pause \/ Resume \/ CleanerDone
Hosting == ScheduledStart \/ Crash \/ CrashInPause \/ LeaseExpires \/ Restart

LEMMA Phases ==
  Next => Preparing \/ Planning \/ Stepping \/ Closing \/ Leaving \/ Controlling \/ Hosting
BY DEF Next, Coroutine, Control, Process, Preparing, Planning, Stepping, Closing,
       Leaving, Controlling, Hosting

(* Only a run that is VERIFYING may become SUCCEEDED.                      *)
LEMMA OnlyVerifyingSucceeds ==
  ASSUME NEW s \in TaskStatuses, CanTransitionTask(s, "SUCCEEDED")
  PROVE  s = "VERIFYING"
BY DEF CanTransitionTask, TaskTransitions, Exits, TaskStatuses, ResumableStatuses,
       TerminalStatuses

(* Begin keeps the row it read.                                            *)
LEMMA BeginSees ==
  ASSUME status \in TaskStatuses, Begin
  PROVE  seen' \in Rows /\ seen'.status = status' /\ seen' # None
<1>1. status' \in TaskStatuses BY DEF Begin, TaskStatuses, ResumableStatuses
<1>2. seen' \in Rows BY <1>1 DEF Begin, Rows
<1>3. seen'.status = status' BY DEF Begin
<1>. QED BY <1>2, <1>3, NoneAssumption

(* A control outdates the row held and changes nothing else of it.         *)
LEMMA OutdateSees ==
  ASSUME seen \in Rows \cup {None}, Outdate
  PROVE  /\ seen' \in Rows \cup {None}
         /\ (seen' = None) <=> (seen = None)
         /\ seen # None => seen'.status = seen.status /\ ~seen'.fresh
<1>1. CASE seen = None BY <1>1 DEF Outdate
<1>2. CASE seen # None
  <2>1. seen \in Rows /\ seen' = [seen EXCEPT !.fresh = FALSE] BY <1>2 DEF Outdate
  <2>2. seen' \in Rows BY <2>1 DEF Rows
  <2>3. seen'.status = seen.status BY <2>1 DEF Rows
  <2>4. ~seen'.fresh BY <2>1 DEF Rows
  <2>. QED BY <1>2, <2>2, <2>3, <2>4, NoneAssumption
<1>. QED BY <1>1, <1>2

----------------------------------------------------------------------------
(* The row stays well formed, and a replan is counted only where one is   *)
(* left.                                                                  *)
LEMMA RowKept ==
  ASSUME RowInv, PlaceInv, Next
  PROVE  RowInv'
<1>. USE NoneAssumption, MaxReplansAssumption DEF RowInv, TaskStatuses,
         ResumableStatuses, TerminalStatuses
<1>1. CASE Preparing
  BY <1>1 DEF Preparing, Begin, PreflightPasses, PreflightFails,
         WorkspaceCreated, Prepared, Reread, Goto, Throw, Checkpoint,
         LoopHead, row, outside, Interrupted, MustReplan
<1>2. CASE Planning
  BY <1>2 DEF Planning, PlanMade, Planned, PlanCommitted, StepFailed,
         ReplanCounted, Goto, Throw, Checkpoint, row, outside, Incremented,
         ReplanAllowed
<1>3. CASE Stepping
  BY <1>3 DEF Stepping, StepsPromoted, StepStarts, ToolCalled, ToolReturned,
         TurnEnds, CommandReturned, StepAccepted, StepCommitted, StepRejected,
         Goto, Throw, Checkpoint, LoopHead, Known, Unknown, row, outside,
         UnknownFound
<1>4. CASE Closing
  BY <1>4 DEF Closing, Settle, VerifyStarts, PatchReturned, Exported, Finish,
         FinishingDone, Goto, Throw, Checkpoint, Known, Unknown, row, outside,
         SandboxRemoved, MayFinish
<1>5. CASE Leaving
  BY <1>5 DEF Leaving, AwaitFails, Overdue, Catch, Blocked, Finally,
         CleanupDone, Disposed, Goto, Throw, row, work, outside, Terminal,
         SandboxRemoved, StartFailed, Released, ModelBlocked
<1>6. CASE Controlling
  BY <1>6 DEF Controlling, Cancel, Pause, Resume, CleanerDone, row, work,
         outside, Terminal, SandboxRemoved, Outdate, Start, Starts, Active,
         Acquired, Listening, Awaits
<1>7. CASE Hosting
  BY <1>7 DEF Hosting, ScheduledStart, Crash, CrashInPause, LeaseExpires,
         Restart, row, work, outside, Terminal, Start, Starts, Die, Active,
         Acquired, Awaited, Listening, Awaits
<1>. QED BY <1>1, <1>2, <1>3, <1>4, <1>5, <1>6, <1>7, Phases

(* The steps are those of the plan, and the current one is among them.    *)
LEMMA PlanKept ==
  ASSUME PlanInv, PlaceInv, Next
  PROVE  PlanInv'
<1>. USE PlansAssumption DEF IsPlan, PlanInv, StepPcs, StepStatuses, StepTransitions
<1>1. CASE Preparing
  BY <1>1 DEF Preparing, Begin, PreflightPasses, PreflightFails,
         WorkspaceCreated, Prepared, Reread, Goto, Throw, Checkpoint,
         LoopHead, row, outside, Interrupted, MustReplan, Running
<1>2. CASE Planning
  BY <1>2 DEF Planning, PlanMade, Planned, PlanCommitted, StepFailed,
         ReplanCounted, Goto, Throw, Checkpoint, row, outside, Incremented,
         ReplanAllowed
<1>3. CASE Stepping
  BY <1>3 DEF Stepping, StepsPromoted, StepStarts, ToolCalled, ToolReturned,
         TurnEnds, CommandReturned, StepAccepted, StepCommitted, StepRejected,
         Goto, Throw, Checkpoint, LoopHead, Known, Unknown, row, outside,
         Satisfied, Promotable, UnknownFound
<1>4. CASE Closing
  BY <1>4 DEF Closing, Settle, VerifyStarts, PatchReturned, Exported, Finish,
         FinishingDone, Goto, Throw, Checkpoint, Known, Unknown, row, outside,
         SandboxRemoved, PlanDone, MayFinish
<1>5. CASE Leaving
  BY <1>5 DEF Leaving, AwaitFails, Overdue, Catch, Blocked, Finally,
         CleanupDone, Disposed, Goto, Throw, row, work, outside,
         SandboxRemoved, StartFailed, Released, ModelBlocked
<1>6. CASE Controlling
  BY <1>6 DEF Controlling, Cancel, Pause, Resume, CleanerDone, row, work,
         outside, SandboxRemoved, Start, Starts, Active, Acquired, Listening,
         Awaits
<1>7. CASE Hosting
  BY <1>7 DEF Hosting, ScheduledStart, Crash, CrashInPause, LeaseExpires,
         Restart, row, work, outside, Start, Starts, Die, Active, Acquired,
         Awaited, Listening, Awaits
<1>. QED BY <1>1, <1>2, <1>3, <1>4, <1>5, <1>6, <1>7, Phases

(* The coroutine, the sandbox and the lease are in a place of the model.  *)
LEMMA PlaceKept ==
  ASSUME RowInv, PlaceInv, Next
  PROVE  PlaceInv'
<1>. USE NoneAssumption DEF RowInv, PlaceInv, Awaits, Segments
<1>1. CASE Preparing
  <2>1. CASE Begin
    BY <2>1, BeginSees DEF Begin, Goto, outside
  <2>2. CASE PreflightPasses \/ PreflightFails \/ WorkspaceCreated \/ Prepared \/ Reread
    BY <2>2 DEF PreflightPasses, PreflightFails, WorkspaceCreated, Prepared,
           Reread, Goto, Throw, LoopHead, Interrupted, row, outside
  <2>. QED BY <1>1, <2>1, <2>2 DEF Preparing
<1>2. CASE Planning
  BY <1>2 DEF Planning, PlanMade, Planned, PlanCommitted, StepFailed,
         ReplanCounted, Goto, Throw, Checkpoint, row, outside, Incremented,
         ReplanAllowed
<1>3. CASE Stepping
  BY <1>3 DEF Stepping, StepsPromoted, StepStarts, ToolCalled, ToolReturned,
         TurnEnds, CommandReturned, StepAccepted, StepCommitted, StepRejected,
         Goto, Throw, Checkpoint, LoopHead, Known, Unknown, row, outside,
         UnknownFound
<1>4. CASE Closing
  BY <1>4 DEF Closing, Settle, VerifyStarts, PatchReturned, Exported, Finish,
         FinishingDone, Goto, Throw, Checkpoint, Known, Unknown, row, outside,
         SandboxRemoved, PlanDone, MayFinish
<1>5. CASE Leaving
  BY <1>5 DEF Leaving, AwaitFails, Overdue, Catch, Blocked, Finally,
         CleanupDone, Disposed, Goto, Throw, row, work, outside, Terminal,
         SandboxRemoved, StartFailed, Released, ModelBlocked
<1>6. CASE Controlling
  <2>1. CASE Cancel \/ Pause \/ Resume
    BY <2>1, OutdateSees DEF Cancel, Pause, Resume, Start, Starts, Listening, Awaits, work, outside
  <2>2. CASE CleanerDone
    BY <2>2 DEF CleanerDone, SandboxRemoved, row, work
  <2>. QED BY <1>6, <2>1, <2>2 DEF Controlling
<1>7. CASE Hosting
  BY <1>7 DEF Hosting, ScheduledStart, Crash, CrashInPause, LeaseExpires,
         Restart, row, work, outside, Terminal, Start, Starts, Die, Active,
         Acquired, Awaited, Listening, Operating
<1>. QED BY <1>1, <1>2, <1>3, <1>4, <1>5, <1>6, <1>7, Phases

(* The flags are Boolean.                                                 *)
LEMMA FlagsKept ==
  ASSUME FlagInv, Next
  PROVE  FlagInv'
<1>. USE DEF FlagInv
<1>1. CASE Preparing
  BY <1>1 DEF Preparing, Begin, PreflightPasses, PreflightFails,
         WorkspaceCreated, Prepared, Reread, Goto, Throw, Checkpoint, row,
         outside, Interrupted, MustReplan
<1>2. CASE Planning
  BY <1>2 DEF Planning, PlanMade, Planned, PlanCommitted, StepFailed,
         ReplanCounted, Goto, Throw, Checkpoint, row, outside, Incremented,
         ReplanAllowed
<1>3. CASE Stepping
  BY <1>3 DEF Stepping, StepsPromoted, StepStarts, ToolCalled, ToolReturned,
         TurnEnds, CommandReturned, StepAccepted, StepCommitted, StepRejected,
         Goto, Throw, Checkpoint, Known, Unknown, row, outside, UnknownFound
<1>4. CASE Closing
  BY <1>4 DEF Closing, Settle, VerifyStarts, PatchReturned, Exported, Finish,
         FinishingDone, Goto, Throw, Checkpoint, Known, Unknown, row, outside,
         SandboxRemoved, MayFinish
<1>5. CASE Leaving
  BY <1>5 DEF Leaving, AwaitFails, Overdue, Catch, Blocked, Finally,
         CleanupDone, Disposed, Goto, Throw, row, work, outside, Terminal,
         SandboxRemoved, StartFailed, Released, ModelBlocked
<1>6. CASE Controlling
  BY <1>6 DEF Controlling, Cancel, Pause, Resume, CleanerDone, row, work,
         outside, Terminal, SandboxRemoved, Outdate, CancelActive, Start,
         Starts, Active, Acquired, Listening, Awaits
<1>7. CASE Hosting
  BY <1>7 DEF Hosting, ScheduledStart, Crash, CrashInPause, LeaseExpires,
         Restart, row, work, outside, Terminal, Start, Starts, Die, Active,
         Acquired, Awaited, Listening, Operating, Awaits
<1>. QED BY <1>1, <1>2, <1>3, <1>4, <1>5, <1>6, <1>7, Phases

(* The lease is taken where the try block is entered and returned where   *)
(* it is left; a process that dies leaves it behind.                      *)
LEMMA LeaseKept ==
  ASSUME PlaceInv, LeaseCoversWork, Next
  PROVE  LeaseCoversWork'
<1>. USE DEF PlaceInv, LeaseCoversWork, Trying, Awaits, Segments
<1>1. CASE Preparing
  BY <1>1 DEF Preparing, Begin, PreflightPasses, PreflightFails,
         WorkspaceCreated, Prepared, Reread, Goto, Throw, Checkpoint,
         LoopHead, row, outside, Interrupted, MustReplan
<1>2. CASE Planning
  BY <1>2 DEF Planning, PlanMade, Planned, PlanCommitted, StepFailed,
         ReplanCounted, Goto, Throw, Checkpoint, row, outside, Incremented,
         ReplanAllowed
<1>3. CASE Stepping
  BY <1>3 DEF Stepping, StepsPromoted, StepStarts, ToolCalled, ToolReturned,
         TurnEnds, CommandReturned, StepAccepted, StepCommitted, StepRejected,
         Goto, Throw, Checkpoint, LoopHead, Known, Unknown, row, outside,
         UnknownFound
<1>4. CASE Closing
  BY <1>4 DEF Closing, Settle, VerifyStarts, PatchReturned, Exported, Finish,
         FinishingDone, Goto, Throw, Checkpoint, Known, Unknown, row, outside,
         SandboxRemoved, PlanDone, MayFinish
<1>5. CASE Leaving
  BY <1>5 DEF Leaving, AwaitFails, Overdue, Catch, Blocked, Finally,
         CleanupDone, Disposed, Goto, Throw, row, work, outside, Terminal,
         SandboxRemoved, StartFailed, Released, ModelBlocked
<1>6. CASE Controlling
  BY <1>6 DEF Controlling, Cancel, Pause, Resume, CleanerDone, row, work,
         outside, Terminal, SandboxRemoved, Start, Starts, Active, Acquired,
         Listening
<1>7. CASE Hosting
  BY <1>7 DEF Hosting, ScheduledStart, Crash, CrashInPause, LeaseExpires,
         Restart, row, work, outside, Terminal, Start, Starts, Die, Active,
         Acquired, Awaited, Listening, Operating
<1>. QED BY <1>1, <1>2, <1>3, <1>4, <1>5, <1>6, <1>7, Phases

(* No control falls between the start of the run and its first await.     *)
LEMMA BeginKept ==
  ASSUME BeginInv, Next
  PROVE  BeginInv'
<1>. USE DEF BeginInv, TaskStatuses, ResumableStatuses, TerminalStatuses
<1>1. CASE Preparing
  BY <1>1 DEF Preparing, Begin, PreflightPasses, PreflightFails,
         WorkspaceCreated, Prepared, Reread, Goto, Throw, Checkpoint,
         LoopHead, row, outside, Interrupted, MustReplan
<1>2. CASE Planning
  BY <1>2 DEF Planning, PlanMade, Planned, PlanCommitted, StepFailed,
         ReplanCounted, Goto, Throw, Checkpoint, row, outside, Incremented,
         ReplanAllowed
<1>3. CASE Stepping
  BY <1>3 DEF Stepping, StepsPromoted, StepStarts, ToolCalled, ToolReturned,
         TurnEnds, CommandReturned, StepAccepted, StepCommitted, StepRejected,
         Goto, Throw, Checkpoint, LoopHead, Known, Unknown, row, outside,
         UnknownFound
<1>4. CASE Closing
  BY <1>4 DEF Closing, Settle, VerifyStarts, PatchReturned, Exported, Finish,
         FinishingDone, Goto, Throw, Checkpoint, Known, Unknown, row, outside,
         SandboxRemoved, MayFinish
<1>5. CASE Leaving
  BY <1>5 DEF Leaving, AwaitFails, Overdue, Catch, Blocked, Finally,
         CleanupDone, Disposed, Goto, Throw, row, work, outside, Terminal,
         SandboxRemoved, StartFailed, Released, ModelBlocked
<1>6. CASE Controlling
  BY <1>6 DEF Controlling, Cancel, Pause, Resume, CleanerDone, row, work,
         outside, Terminal, SandboxRemoved, Start, Starts, Active, Acquired,
         Listening, Awaits
<1>7. CASE Hosting
  BY <1>7 DEF Hosting, ScheduledStart, Crash, CrashInPause, LeaseExpires,
         Restart, row, work, outside, Terminal, Start, Starts, Die, Active,
         Acquired, Awaited, Listening, Awaits
<1>. QED BY <1>1, <1>2, <1>3, <1>4, <1>5, <1>6, <1>7, Phases

(* Whoever writes during the preflight outdates the row held.             *)
LEMMA SeenKept ==
  ASSUME RowInv, PlaceInv, SeenInv, Next
  PROVE  SeenInv'
<1>. USE NoneAssumption DEF RowInv, PlaceInv, SeenInv, Awaits
<1>1. CASE Preparing
  <2>1. CASE Begin
    BY <2>1, BeginSees DEF Begin, Goto, outside
  <2>2. CASE PreflightPasses \/ PreflightFails \/ WorkspaceCreated \/ Prepared \/ Reread
    BY <2>2 DEF PreflightPasses, PreflightFails, WorkspaceCreated, Prepared,
           Reread, Goto, Throw, LoopHead, Interrupted, row, outside
  <2>. QED BY <1>1, <2>1, <2>2 DEF Preparing
<1>2. CASE Planning
  BY <1>2 DEF Planning, PlanMade, Planned, PlanCommitted, StepFailed,
         ReplanCounted, Goto, Throw, Checkpoint, row, outside, Incremented,
         ReplanAllowed
<1>3. CASE Stepping
  BY <1>3 DEF Stepping, StepsPromoted, StepStarts, ToolCalled, ToolReturned,
         TurnEnds, CommandReturned, StepAccepted, StepCommitted, StepRejected,
         Goto, Throw, Checkpoint, LoopHead, Known, Unknown, row, outside,
         UnknownFound
<1>4. CASE Closing
  BY <1>4 DEF Closing, Settle, VerifyStarts, PatchReturned, Exported, Finish,
         FinishingDone, Goto, Throw, Checkpoint, Known, Unknown, row, outside,
         SandboxRemoved, PlanDone, MayFinish
<1>5. CASE Leaving
  BY <1>5 DEF Leaving, AwaitFails, Overdue, Catch, Blocked, Finally,
         CleanupDone, Disposed, Goto, Throw, row, work, outside, Terminal,
         SandboxRemoved, StartFailed, Released, ModelBlocked
<1>6. CASE Controlling
  <2>1. CASE Cancel \/ Pause \/ Resume
    BY <2>1, OutdateSees DEF Cancel, Pause, Resume, Start, Starts, Listening, Awaits, work, outside
  <2>2. CASE CleanerDone
    BY <2>2 DEF CleanerDone, SandboxRemoved, row, work
  <2>. QED BY <1>6, <2>1, <2>2 DEF Controlling
<1>7. CASE Hosting
  BY <1>7 DEF Hosting, ScheduledStart, Crash, CrashInPause, LeaseExpires,
         Restart, row, work, outside, Terminal, Start, Starts, Die, Active,
         Acquired, Awaited, Listening, Operating
<1>. QED BY <1>1, <1>2, <1>3, <1>4, <1>5, <1>6, <1>7, Phases

(* A pause in preparation is resumed to preparation or, its checkpoint    *)
(* erased, not at all.                                                    *)
LEMMA PrepareKept ==
  ASSUME RowInv, PlaceInv, BeginInv, SeenInv, PrepareInv, Next
  PROVE  PrepareInv'
<1>. USE NoneAssumption DEF RowInv, PlaceInv, BeginInv, SeenInv, PrepareInv,
         Rows, TaskStatuses, ResumableStatuses, TerminalStatuses
<1>1. CASE Preparing
  BY <1>1 DEF Preparing, Begin, PreflightPasses, PreflightFails,
         WorkspaceCreated, Prepared, Reread, Goto, Throw, Checkpoint,
         LoopHead, row, outside, Interrupted, MustReplan
<1>2. CASE Planning
  BY <1>2 DEF Planning, PlanMade, Planned, PlanCommitted, StepFailed,
         ReplanCounted, Goto, Throw, Checkpoint, row, outside, Incremented,
         ReplanAllowed
<1>3. CASE Stepping
  BY <1>3 DEF Stepping, StepsPromoted, StepStarts, ToolCalled, ToolReturned,
         TurnEnds, CommandReturned, StepAccepted, StepCommitted, StepRejected,
         Goto, Throw, Checkpoint, LoopHead, Known, Unknown, row, outside,
         UnknownFound
<1>4. CASE Closing
  BY <1>4 DEF Closing, Settle, VerifyStarts, PatchReturned, Exported, Finish,
         FinishingDone, Goto, Throw, Checkpoint, Known, Unknown, row, outside,
         SandboxRemoved, MayFinish
<1>5. CASE Leaving
  BY <1>5 DEF Leaving, AwaitFails, Overdue, Catch, Blocked, Finally,
         CleanupDone, Disposed, Goto, Throw, row, work, outside, Terminal,
         SandboxRemoved, StartFailed, Released, ModelBlocked
<1>6. CASE Controlling
  BY <1>6 DEF Controlling, Cancel, Pause, Resume, CleanerDone, row, work,
         outside, Terminal, SandboxRemoved, Outdate, Start, Starts, Active,
         Acquired, Listening, Awaits
<1>7. CASE Hosting
  BY <1>7 DEF Hosting, ScheduledStart, Crash, CrashInPause, LeaseExpires,
         Restart, row, work, outside, Terminal, Start, Starts, Die, Active,
         Acquired, Awaited, Listening, Awaits
<1>. QED BY <1>1, <1>2, <1>3, <1>4, <1>5, <1>6, <1>7, Phases

(* A step is started only where no other is RUNNING: after the replan     *)
(* that follows a crash, or after the commit of the one before.           *)
LEMMA RunningKept ==
  ASSUME PlanInv, PrepareInv, RunningInv, Next
  PROVE  RunningInv'
<1>. USE PlansAssumption DEF IsPlan, PlanInv, PrepareInv, RunningInv, StepPcs,
         CalmPcs, AtMostOneRunning, Running, TerminalStatuses
<1>1. CASE Preparing
  BY <1>1 DEF Preparing, Begin, PreflightPasses, PreflightFails,
         WorkspaceCreated, Prepared, Reread, Goto, Throw, Checkpoint,
         LoopHead, row, outside, Interrupted, MustReplan
<1>2. CASE Planning
  BY <1>2 DEF Planning, PlanMade, Planned, PlanCommitted, StepFailed,
         ReplanCounted, Goto, Throw, Checkpoint, row, outside, Incremented,
         ReplanAllowed
<1>3. CASE Stepping
  BY <1>3 DEF Stepping, StepsPromoted, StepStarts, ToolCalled, ToolReturned,
         TurnEnds, CommandReturned, StepAccepted, StepCommitted, StepRejected,
         Goto, Throw, Checkpoint, LoopHead, Known, Unknown, row, outside,
         Satisfied, Promotable, UnknownFound
<1>4. CASE Closing
  BY <1>4 DEF Closing, Settle, VerifyStarts, PatchReturned, Exported, Finish,
         FinishingDone, Goto, Throw, Checkpoint, Known, Unknown, row, outside,
         SandboxRemoved, PlanDone, MayFinish
<1>5. CASE Leaving
  BY <1>5 DEF Leaving, AwaitFails, Overdue, Catch, Blocked, Finally,
         CleanupDone, Disposed, Goto, Throw, row, work, outside, Terminal,
         SandboxRemoved, StartFailed, Released, ModelBlocked
<1>6. CASE Controlling
  BY <1>6 DEF Controlling, Cancel, Pause, Resume, CleanerDone, row, work,
         outside, Terminal, SandboxRemoved, Start, Starts, Active, Acquired,
         Listening, Awaits
<1>7. CASE Hosting
  BY <1>7 DEF Hosting, ScheduledStart, Crash, CrashInPause, LeaseExpires,
         Restart, row, work, outside, Terminal, Start, Starts, Die, Active,
         Acquired, Awaited, Listening, Awaits
<1>. QED BY <1>1, <1>2, <1>3, <1>4, <1>5, <1>6, <1>7, Phases

(* A step leaves PENDING when all it depends on SUCCEEDED, which no step  *)
(* does before it was RUNNING, and nothing undoes.                        *)
LEMMA DependenciesKept ==
  ASSUME PlanInv, RunningInv, StepsFollowDependencies, Next
  PROVE  StepsFollowDependencies'
<1>. USE PlansAssumption DEF IsPlan, PlanInv, RunningInv, StepPcs, CalmPcs,
         StepsFollowDependencies, Running
<1>1. CASE Preparing
  BY <1>1 DEF Preparing, Begin, PreflightPasses, PreflightFails,
         WorkspaceCreated, Prepared, Reread, Goto, Throw, Checkpoint,
         LoopHead, row, outside, Interrupted, MustReplan
<1>2. CASE Planning
  BY <1>2 DEF Planning, PlanMade, Planned, PlanCommitted, StepFailed,
         ReplanCounted, Goto, Throw, Checkpoint, row, outside, Incremented,
         ReplanAllowed
<1>3. CASE Stepping
  BY <1>3 DEF Stepping, StepsPromoted, StepStarts, ToolCalled, ToolReturned,
         TurnEnds, CommandReturned, StepAccepted, StepCommitted, StepRejected,
         Goto, Throw, Checkpoint, LoopHead, Known, Unknown, row, outside,
         Satisfied, Promotable, UnknownFound
<1>4. CASE Closing
  BY <1>4 DEF Closing, Settle, VerifyStarts, PatchReturned, Exported, Finish,
         FinishingDone, Goto, Throw, Checkpoint, Known, Unknown, row, outside,
         SandboxRemoved, PlanDone, MayFinish
<1>5. CASE Leaving
  BY <1>5 DEF Leaving, AwaitFails, Overdue, Catch, Blocked, Finally,
         CleanupDone, Disposed, Goto, Throw, row, work, outside,
         SandboxRemoved, StartFailed, Released, ModelBlocked
<1>6. CASE Controlling
  BY <1>6 DEF Controlling, Cancel, Pause, Resume, CleanerDone, row, work,
         outside, SandboxRemoved, Start, Starts, Active, Acquired, Listening,
         Awaits
<1>7. CASE Hosting
  BY <1>7 DEF Hosting, ScheduledStart, Crash, CrashInPause, LeaseExpires,
         Restart, row, work, outside, Start, Starts, Die, Active, Acquired,
         Awaited, Listening, Awaits
<1>. QED BY <1>1, <1>2, <1>3, <1>4, <1>5, <1>6, <1>7, Phases

(* VERIFYING is entered with a complete plan, and left only for an end or *)
(* a pause that leads back.                                               *)
LEMMA LateKept ==
  ASSUME RowInv, PlaceInv, BeginInv, SeenInv, PrepareInv, LateInv, Next
  PROVE  LateInv'
<1>. USE NoneAssumption DEF RowInv, PlaceInv, BeginInv, SeenInv, PrepareInv,
         LateInv, Late, LatePcs, EndPcs, Rows, PlanDone, TaskStatuses,
         ResumableStatuses, TerminalStatuses
<1>1. CASE Preparing
  <2>. USE DEF row, outside
  <2>1. CASE Begin
    <3>1. seen' # None /\ seen'.status = status' BY <2>1, BeginSees
    <3>. QED BY <2>1, <3>1 DEF Begin, Goto, Active
  <2>2. CASE PreflightPasses
    BY <2>2 DEF PreflightPasses, Interrupted, Goto, Throw
  <2>3. CASE PreflightFails BY <2>3 DEF PreflightFails, Throw
  <2>4. CASE WorkspaceCreated BY <2>4 DEF WorkspaceCreated, Goto
  <2>5. CASE Prepared BY <2>5 DEF Prepared, Checkpoint, Goto, Throw
  <2>6. CASE Reread BY <2>6 DEF Reread, LoopHead, Goto
  <2>. QED BY <1>1, <2>1, <2>2, <2>3, <2>4, <2>5, <2>6 DEF Preparing
<1>2. CASE Planning
  BY <1>2 DEF Planning, PlanMade, Planned, PlanCommitted, StepFailed,
         ReplanCounted, Goto, Throw, Checkpoint, row, outside, Incremented,
         ReplanAllowed
<1>3. CASE Stepping
  BY <1>3 DEF Stepping, StepsPromoted, StepStarts, ToolCalled, ToolReturned,
         TurnEnds, CommandReturned, StepAccepted, StepCommitted, StepRejected,
         Goto, Throw, Checkpoint, LoopHead, Known, Unknown, row, outside,
         Satisfied, Promotable, UnknownFound
<1>4. CASE Closing
  BY <1>4 DEF Closing, Settle, VerifyStarts, PatchReturned, Exported, Finish,
         FinishingDone, Goto, Throw, Checkpoint, Known, Unknown, row, outside,
         SandboxRemoved, MayFinish
<1>5. CASE Leaving
  BY <1>5 DEF Leaving, AwaitFails, Overdue, Catch, Blocked, Finally,
         CleanupDone, Disposed, Goto, Throw, row, work, outside, Terminal,
         SandboxRemoved, StartFailed, Released, ModelBlocked
<1>6. CASE Controlling
  BY <1>6 DEF Controlling, Cancel, Pause, Resume, CleanerDone, row, work,
         outside, Terminal, SandboxRemoved, Outdate, Start, Starts, Active,
         Acquired, Listening, Awaits
<1>7. CASE Hosting
  BY <1>7 DEF Hosting, ScheduledStart, Crash, CrashInPause, LeaseExpires,
         Restart, row, work, outside, Terminal, Start, Starts, Die, Active,
         Acquired, Awaited, Listening, Awaits
<1>. QED BY <1>1, <1>2, <1>3, <1>4, <1>5, <1>6, <1>7, Phases

(* finishRun comes after the export, from VERIFYING, and nothing drives   *)
(* the run afterwards.                                                    *)
LEMMA DoneKept ==
  ASSUME RowInv, PlaceInv, BeginInv, LateInv, DoneInv, Next
  PROVE  DoneInv'
<1>. USE OnlyVerifyingSucceeds DEF RowInv, PlaceInv, BeginInv, LateInv,
         DoneInv, Late, LatePcs, EndPcs, PlanDone, TaskStatuses,
         ResumableStatuses, TerminalStatuses
<1>1. CASE Preparing
  BY <1>1 DEF Preparing, Begin, PreflightPasses, PreflightFails,
         WorkspaceCreated, Prepared, Reread, Goto, Throw, Checkpoint,
         LoopHead, row, outside, Interrupted, MustReplan, Running
<1>2. CASE Planning
  BY <1>2 DEF Planning, PlanMade, Planned, PlanCommitted, StepFailed,
         ReplanCounted, Goto, Throw, Checkpoint, row, outside, Incremented,
         ReplanAllowed
<1>3. CASE Stepping
  BY <1>3 DEF Stepping, StepsPromoted, StepStarts, ToolCalled, ToolReturned,
         TurnEnds, CommandReturned, StepAccepted, StepCommitted, StepRejected,
         Goto, Throw, Checkpoint, LoopHead, Known, Unknown, row, outside,
         Satisfied, Promotable, UnknownFound
<1>4. CASE Closing
  BY <1>4 DEF Closing, Settle, VerifyStarts, PatchReturned, Exported, Finish,
         FinishingDone, Goto, Throw, Checkpoint, Known, Unknown, row, outside,
         SandboxRemoved, MayFinish
<1>5. CASE Leaving
  BY <1>5 DEF Leaving, AwaitFails, Overdue, Catch, Blocked, Finally,
         CleanupDone, Disposed, Goto, Throw, row, work, outside, Terminal,
         SandboxRemoved, StartFailed, Released, ModelBlocked
<1>6. CASE Controlling
  BY <1>6 DEF Controlling, Cancel, Pause, Resume, CleanerDone, row, work,
         outside, Terminal, SandboxRemoved, Start, Starts, Active, Acquired,
         Listening, Awaits
<1>7. CASE Hosting
  BY <1>7 DEF Hosting, ScheduledStart, Crash, CrashInPause, LeaseExpires,
         Restart, row, work, outside, Terminal, Start, Starts, Die, Active,
         Acquired, Awaited, Listening, Awaits
<1>. QED BY <1>1, <1>2, <1>3, <1>4, <1>5, <1>6, <1>7, Phases

(* An unknown outcome leaves the step before its commit.                  *)
LEMMA KnownKept ==
  ASSUME KnownInv, Next
  PROVE  KnownInv'
<1>. USE DEF KnownInv
<1>1. CASE Preparing
  BY <1>1 DEF Preparing, Begin, PreflightPasses, PreflightFails,
         WorkspaceCreated, Prepared, Reread, Goto, Throw, Checkpoint,
         LoopHead, row, outside, Interrupted, MustReplan
<1>2. CASE Planning
  BY <1>2 DEF Planning, PlanMade, Planned, PlanCommitted, StepFailed,
         ReplanCounted, Goto, Throw, Checkpoint, row, outside, Incremented,
         ReplanAllowed
<1>3. CASE Stepping
  BY <1>3 DEF Stepping, StepsPromoted, StepStarts, ToolCalled, ToolReturned,
         TurnEnds, CommandReturned, StepAccepted, StepCommitted, StepRejected,
         Goto, Throw, Checkpoint, LoopHead, Known, Unknown, row, outside,
         UnknownFound
<1>4. CASE Closing
  BY <1>4 DEF Closing, Settle, VerifyStarts, PatchReturned, Exported, Finish,
         FinishingDone, Goto, Throw, Checkpoint, Known, Unknown, row, outside,
         SandboxRemoved, MayFinish
<1>5. CASE Leaving
  BY <1>5 DEF Leaving, AwaitFails, Overdue, Catch, Blocked, Finally,
         CleanupDone, Disposed, Goto, Throw, row, work, outside, Terminal,
         SandboxRemoved, StartFailed, Released, ModelBlocked
<1>6. CASE Controlling
  BY <1>6 DEF Controlling, Cancel, Pause, Resume, CleanerDone, row, work,
         outside, Terminal, SandboxRemoved, Start, Starts, Active, Acquired,
         Listening, Awaits
<1>7. CASE Hosting
  BY <1>7 DEF Hosting, ScheduledStart, Crash, CrashInPause, LeaseExpires,
         Restart, row, work, outside, Terminal, Start, Starts, Die, Active,
         Acquired, Awaited, Listening, Operating, Awaits
<1>. QED BY <1>1, <1>2, <1>3, <1>4, <1>5, <1>6, <1>7, Phases

(* A run is EXECUTING, or resumed there, only after a plan was made.       *)
LEMMA PlannedKept ==
  ASSUME RowInv, PlanInv, PlaceInv, SeenInv, PlannedInv, Next
  PROVE  PlannedInv'
<1>. USE PlansAssumption, NoneAssumption DEF IsPlan, RowInv, PlanInv, PlaceInv, SeenInv,
         PlannedInv, StepPcs, CalmPcs, Awaits, Segments, TaskStatuses,
         ResumableStatuses, TerminalStatuses
<1>1. CASE Preparing
  <2>1. CASE Begin
    BY <2>1, BeginSees DEF Begin, Goto, outside
  <2>2. CASE PreflightPasses \/ PreflightFails \/ WorkspaceCreated \/ Prepared \/ Reread
    BY <2>2 DEF PreflightPasses, PreflightFails, WorkspaceCreated, Prepared,
           Reread, Checkpoint, Goto, Throw, LoopHead, Interrupted, row, outside
  <2>. QED BY <1>1, <2>1, <2>2 DEF Preparing
<1>2. CASE Planning
  BY <1>2 DEF Planning, PlanMade, Planned, PlanCommitted, StepFailed,
         ReplanCounted, Goto, Throw, Checkpoint, row, outside, Incremented,
         ReplanAllowed
<1>3. CASE Stepping
  BY <1>3 DEF Stepping, StepsPromoted, StepStarts, ToolCalled, ToolReturned,
         TurnEnds, CommandReturned, StepAccepted, StepCommitted, StepRejected,
         Goto, Throw, Checkpoint, LoopHead, Known, Unknown, row, outside,
         Satisfied, Promotable, UnknownFound
<1>4. CASE Closing
  BY <1>4 DEF Closing, Settle, VerifyStarts, PatchReturned, Exported, Finish,
         FinishingDone, Goto, Throw, Checkpoint, Known, Unknown, row, outside,
         SandboxRemoved, PlanDone, MayFinish
<1>5. CASE Leaving
  BY <1>5 DEF Leaving, AwaitFails, Overdue, Catch, Blocked, Finally,
         CleanupDone, Disposed, Goto, Throw, row, work, outside, Terminal,
         SandboxRemoved, StartFailed, Released, ModelBlocked
<1>6. CASE Controlling
  <2>1. CASE Cancel \/ Pause \/ Resume
    BY <2>1, OutdateSees DEF Cancel, Pause, Resume, Start, Starts, Listening, Terminal,
           work, outside
  <2>2. CASE CleanerDone
    BY <2>2 DEF CleanerDone, SandboxRemoved, row, work
  <2>. QED BY <1>6, <2>1, <2>2 DEF Controlling
<1>7. CASE Hosting
  BY <1>7 DEF Hosting, ScheduledStart, Crash, CrashInPause, LeaseExpires,
         Restart, row, work, outside, Terminal, Start, Starts, Die, Active,
         Acquired, Awaited, Listening, Awaits
<1>. QED BY <1>1, <1>2, <1>3, <1>4, <1>5, <1>6, <1>7, Phases

(* A promotion leaves no step PENDING that has nothing to wait for, and    *)
(* nothing falls between it and the end of the loop.                       *)
LEMMA StuckKept ==
  ASSUME PlanInv, PlaceInv, RunningInv, LateInv, StuckInv, Next
  PROVE  StuckInv'
<1>. USE PlansAssumption DEF IsPlan, PlanInv, PlaceInv, RunningInv, LateInv, Late,
         StuckInv, StepPcs, CalmPcs, Running, Satisfied, PlanDone
<1>1. CASE Preparing
  BY <1>1 DEF Preparing, Begin, PreflightPasses, PreflightFails,
         WorkspaceCreated, Prepared, Reread, Goto, Throw, Checkpoint,
         LoopHead, row, outside, Interrupted, MustReplan
<1>2. CASE Planning
  BY <1>2 DEF Planning, PlanMade, Planned, PlanCommitted, StepFailed,
         ReplanCounted, Goto, Throw, Checkpoint, row, outside, Incremented,
         ReplanAllowed
<1>3. CASE Stepping
  <2>1. CASE StepsPromoted
    <3>1. /\ pc' = "promoted" /\ plan' = plan /\ DOMAIN steps' = DOMAIN steps
          /\ \A s \in DOMAIN steps :
               steps'[s] = IF steps[s] = "PENDING" /\ Satisfied(s) THEN "READY" ELSE steps[s]
      BY <2>1 DEF StepsPromoted, Promotable, Goto
    <3>2. \A s \in DOMAIN steps : plan[s] \subseteq DOMAIN steps OBVIOUS
    <3>. HIDE PlansAssumption
    <3>3. ASSUME NEW s \in DOMAIN steps, steps'[s] = "PENDING", Satisfied(s)'
          PROVE  FALSE
      <4>1. \A d \in plan[s] : steps[d] = "SUCCEEDED" BY <3>1, <3>2, <3>3
      <4>. QED BY <3>1, <3>3, <4>1
    <3>. QED BY <3>1, <3>3
  <2>2. CASE StepStarts
    <3>1. CASE \A s \in DOMAIN steps : steps[s] # "READY"
      <4>1. pc' = "settle" /\ steps' = steps /\ plan' = plan
        BY <2>2, <3>1 DEF StepStarts, Goto
      <4>2. \A s \in DOMAIN steps : steps[s] # "RUNNING" BY <2>2 DEF StepStarts
      <4>3. \A s \in DOMAIN steps : steps[s] = "PENDING" => ~Satisfied(s)
        BY <2>2 DEF StepStarts
      <4>4. \A s \in DOMAIN steps :
              steps[s] \in {"PENDING", "READY", "RUNNING", "SUCCEEDED", "FAILED"}
        OBVIOUS
      <4>. HIDE PlansAssumption DEF PlanInv, RunningInv, LateInv, Satisfied
      <4>5. \A s \in DOMAIN steps :
              steps[s] \in {"SUCCEEDED", "FAILED"} \/ (steps[s] = "PENDING" /\ ~Satisfied(s))
        BY <3>1, <4>2, <4>3, <4>4
      <4>6. \A s : Satisfied(s)' <=> Satisfied(s) BY <4>1 DEF Satisfied
      <4>. QED BY <4>1, <4>4, <4>5, <4>6
    <3>2. CASE ~\A s \in DOMAIN steps : steps[s] # "READY"
      <4>1. pc' \in {"prompt", "catch"} BY <2>2, <3>2 DEF StepStarts, Throw
      <4>2. /\ DOMAIN steps' = DOMAIN steps
            /\ \A s \in DOMAIN steps : steps'[s] \in {steps[s], "RUNNING"}
        BY <2>2, <3>2 DEF StepStarts
      <4>. QED BY <4>1, <4>2
    <3>. QED BY <3>1, <3>2
  <2>3. CASE StepAccepted \/ StepRejected
    BY <2>3 DEF StepAccepted, StepRejected, row, outside
  <2>4. CASE ToolCalled \/ ToolReturned \/ TurnEnds \/ CommandReturned \/ StepCommitted
    BY <2>4 DEF ToolCalled, ToolReturned, TurnEnds, CommandReturned, StepCommitted,
           LoopHead, Goto, Throw, row, outside
  <2>. QED BY <1>3, <2>1, <2>2, <2>3, <2>4 DEF Stepping
<1>4. CASE Closing
  BY <1>4 DEF Closing, Settle, VerifyStarts, PatchReturned, Exported, Finish,
         FinishingDone, Goto, Throw, Checkpoint, Known, Unknown, row, outside,
         SandboxRemoved, PlanDone, MayFinish
<1>5. CASE Leaving
  BY <1>5 DEF Leaving, AwaitFails, Overdue, Catch, Blocked, Finally,
         CleanupDone, Disposed, Goto, Throw, row, work, outside, Terminal,
         SandboxRemoved, StartFailed, Released, ModelBlocked
<1>6. CASE Controlling
  BY <1>6 DEF Controlling, Cancel, Pause, Resume, CleanerDone, row, work,
         outside, Terminal, SandboxRemoved, Start, Starts, Active, Acquired,
         Listening, Awaits
<1>7. CASE Hosting
  BY <1>7 DEF Hosting, ScheduledStart, Crash, CrashInPause, LeaseExpires,
         Restart, row, work, outside, Terminal, Start, Starts, Die, Active,
         Acquired, Awaited, Listening, Awaits
<1>. QED BY <1>1, <1>2, <1>3, <1>4, <1>5, <1>6, <1>7, Phases

----------------------------------------------------------------------------
(* POST /v1/tasks establishes the invariant.                               *)
LEMMA InitIInv == Init => IInv
<1>. SUFFICES ASSUME Init PROVE IInv OBVIOUS
<1>. USE NoneAssumption, MaxReplansAssumption DEF Init
<1>1. RowInv BY DEF RowInv, TaskStatuses
<1>2. PlanInv BY DEF PlanInv, StepPcs
<1>3. PlaceInv BY DEF PlaceInv, Awaits
<1>4. FlagInv BY DEF FlagInv
<1>5. LeaseCoversWork BY DEF LeaseCoversWork, Trying
<1>6. BeginInv /\ SeenInv /\ PrepareInv BY DEF BeginInv, SeenInv, PrepareInv
<1>7. RunningInv BY DEF RunningInv, Running, StepPcs, CalmPcs, AtMostOneRunning
<1>8. StepsFollowDependencies BY DEF StepsFollowDependencies
<1>9. LateInv /\ DoneInv /\ KnownInv
  BY DEF LateInv, Late, DoneInv, KnownInv, TaskStatuses, ResumableStatuses
<1>10. PlannedInv /\ StuckInv
  BY DEF PlannedInv, StuckInv, CalmPcs, TaskStatuses, ResumableStatuses
<1>. QED BY <1>1, <1>2, <1>3, <1>4, <1>5, <1>6, <1>7, <1>8, <1>9, <1>10 DEF IInv

(* Every step of the coroutine, of the user and of the process preserves   *)
(* it.                                                                     *)
LEMMA NextIInv == IInv /\ [Next]_vars => IInv'
<1>. SUFFICES ASSUME IInv, [Next]_vars PROVE IInv' OBVIOUS
<1>1. CASE Next
  <2>. USE <1>1 DEF IInv
  <2>1. RowInv' BY RowKept
  <2>2. PlanInv' BY PlanKept
  <2>3. PlaceInv' BY PlaceKept
  <2>4. FlagInv' BY FlagsKept
  <2>5. LeaseCoversWork' BY LeaseKept
  <2>6. BeginInv' BY BeginKept
  <2>7. SeenInv' BY SeenKept
  <2>8. PrepareInv' BY PrepareKept
  <2>9. RunningInv' BY RunningKept
  <2>10. StepsFollowDependencies' BY DependenciesKept
  <2>11. LateInv' BY LateKept
  <2>12. DoneInv' BY DoneKept
  <2>13. KnownInv' BY KnownKept
  <2>14. PlannedInv' BY PlannedKept
  <2>15. StuckInv' BY StuckKept
  <2>. QED BY <2>1, <2>2, <2>3, <2>4, <2>5, <2>6, <2>7, <2>8, <2>9, <2>10, <2>11,
              <2>12, <2>13, <2>14, <2>15
<1>2. CASE UNCHANGED vars
  <2>. USE <1>2 DEF vars, row, work, outside, IInv
  <2>1. RowInv' BY DEF RowInv
  <2>2. PlanInv' BY DEF PlanInv
  <2>3. PlaceInv' BY DEF PlaceInv
  <2>4. FlagInv' BY DEF FlagInv
  <2>5. LeaseCoversWork' BY DEF LeaseCoversWork
  <2>6. BeginInv' BY DEF BeginInv
  <2>7. SeenInv' BY DEF SeenInv
  <2>8. PrepareInv' BY DEF PrepareInv
  <2>9. RunningInv' BY DEF RunningInv, Running, AtMostOneRunning
  <2>10. StepsFollowDependencies' BY DEF StepsFollowDependencies
  <2>11. LateInv' BY DEF LateInv, Late, PlanDone
  <2>12. DoneInv' BY DEF DoneInv, PlanDone
  <2>13. KnownInv' BY DEF KnownInv
  <2>14. PlannedInv' BY DEF PlannedInv
  <2>15. StuckInv' BY DEF StuckInv, Satisfied, PlanDone
  <2>. QED BY <2>1, <2>2, <2>3, <2>4, <2>5, <2>6, <2>7, <2>8, <2>9, <2>10, <2>11,
              <2>12, <2>13, <2>14, <2>15
<1>. QED BY <1>1, <1>2

(* The inductive invariant holds of every run, under any interleaving of   *)
(* the user, the process and the coroutine.                                *)
THEOREM Inductive == Spec => []IInv
BY InitIInv, NextIInv, PTL DEF Spec

----------------------------------------------------------------------------
(* The rows and the coroutine stay in the model's states, and no crash,   *)
(* pause or restart lets a run replan more often than its budget.         *)
THEOREM TypeCorrect == Spec => []TypeOK
<1>1. IInv => TypeOK BY DEF IInv, RowInv, PlanInv, PlaceInv, FlagInv, TypeOK
<1>. QED BY <1>1, Inductive, PTL

(* For every plan, no second step is RUNNING beside another, through      *)
(* crashes in a step and the replans that follow.                         *)
THEOREM OneStepAtATime == Spec => []AtMostOneRunning
<1>1. IInv => AtMostOneRunning BY DEF IInv, RunningInv
<1>. QED BY <1>1, Inductive, PTL

(* For every plan, cyclic ones included, a step is READY or beyond only   *)
(* after all it depends on.                                               *)
THEOREM DependencyOrder == Spec => []StepsFollowDependencies
<1>1. IInv => StepsFollowDependencies BY DEF IInv
<1>. QED BY <1>1, Inductive, PTL

(* A run is SUCCEEDED only with a complete plan and its artifacts stored. *)
THEOREM EarnedSuccess == Spec => []SuccessIsEarned
<1>1. IInv => SuccessIsEarned BY DEF IInv, DoneInv, PlanDone, SuccessIsEarned
<1>. QED BY <1>1, Inductive, PTL

(* For plans that validatePlan let through, whatever they look like, the   *)
(* loop over the steps ends on an incomplete one only where a step failed. *)
THEOREM NeverStuck ==
  ASSUME \A p \in Plans : IsSchedulable(p)
  PROVE  Spec => []StuckMeansFailed
<1>1. IInv => StuckMeansFailed
  <2>. SUFFICES ASSUME IInv, pc = "settle", status = "EXECUTING", ~PlanDone,
                       \A s \in DOMAIN steps : steps[s] # "FAILED"
                PROVE  FALSE
    BY DEF StuckMeansFailed
  <2>. DEFINE left == {s \in DOMAIN plan : steps[s] # "SUCCEEDED"}
  <2>1. /\ DOMAIN plan # {} /\ plan \in Plans
        /\ DOMAIN steps = DOMAIN plan /\ IsSchedulable(plan)
        /\ \A s \in DOMAIN plan : plan[s] \subseteq DOMAIN plan
    BY PlansAssumption DEF IInv, PlannedInv, PlanInv, IsPlan
  <2>2. left # {} BY <2>1 DEF PlanDone
  <2>3. PICK s \in left : plan[s] \cap left = {} BY <2>1, <2>2 DEF IsSchedulable
  <2>4. steps[s] = "PENDING" /\ ~Satisfied(s) BY <2>1 DEF IInv, StuckInv
  <2>. QED BY <2>1, <2>3, <2>4 DEF Satisfied
<1>. QED BY <1>1, Inductive, PTL

(* The lease is held exactly while the orchestrator works on the run.     *)
THEOREM LeasedWork == Spec => []LeaseCoversWork
<1>1. IInv => LeaseCoversWork BY DEF IInv
<1>. QED BY <1>1, Inductive, PTL

(* Outside of planning a step moves along its table, and none succeeds    *)
(* beside an unknown outcome.                                             *)
LEMMA StepsMove ==
  ASSUME PlanInv, PlaceInv, RunningInv, KnownInv, Next
  PROVE  \A s \in DOMAIN steps :
            /\ (pc # "planning" /\ steps'[s] # steps[s]) =>
                 CanTransitionStep(steps[s], steps'[s])
            /\ (plan' = plan /\ steps'[s] = "SUCCEEDED" /\ orphan) =>
                 steps[s] = "SUCCEEDED"
<1>. USE DEF PlanInv, RunningInv, KnownInv, Running, StepPcs,
         CanTransitionStep, StepTransitions
<1>1. CASE Preparing
  BY <1>1 DEF Preparing, Begin, PreflightPasses, PreflightFails,
         WorkspaceCreated, Prepared, Reread, Goto, Throw, Checkpoint,
         LoopHead, row, outside, Interrupted, MustReplan
<1>2. CASE Planning
  BY <1>2 DEF Planning, PlanMade, Planned, PlanCommitted, StepFailed,
         ReplanCounted, Goto, Throw, Checkpoint, row, outside, Incremented,
         ReplanAllowed
<1>3. CASE Stepping
  BY <1>3 DEF Stepping, StepsPromoted, StepStarts, ToolCalled, ToolReturned,
         TurnEnds, CommandReturned, StepAccepted, StepCommitted, StepRejected,
         Goto, Throw, Checkpoint, LoopHead, Known, Unknown, row, outside,
         Satisfied, Promotable, UnknownFound
<1>4. CASE Closing
  BY <1>4 DEF Closing, Settle, VerifyStarts, PatchReturned, Exported, Finish,
         FinishingDone, Goto, Throw, Checkpoint, Known, Unknown, row, outside,
         SandboxRemoved, PlanDone, MayFinish
<1>5. CASE Leaving
  BY <1>5 DEF Leaving, AwaitFails, Overdue, Catch, Blocked, Finally,
         CleanupDone, Disposed, Goto, Throw, row, work, outside,
         SandboxRemoved, StartFailed, Released, ModelBlocked
<1>6. CASE Controlling
  BY <1>6 DEF Controlling, Cancel, Pause, Resume, CleanerDone, row, work,
         outside, SandboxRemoved, Start, Starts, Active, Acquired, Listening,
         Awaits
<1>7. CASE Hosting
  BY <1>7 DEF Hosting, ScheduledStart, Crash, CrashInPause, LeaseExpires,
         Restart, row, work, outside, Start, Starts, Die, Active, Acquired,
         Awaited, Listening, Awaits
<1>. QED BY <1>1, <1>2, <1>3, <1>4, <1>5, <1>6, <1>7, Phases

(* A step that failed, or succeeded before a crash, is never executed a    *)
(* second time within its plan.                                            *)
THEOREM StepTable == Spec => StepsFollowTable
<1>1. IInv /\ [Next]_vars =>
        [\A s \in DOMAIN steps :
           (pc # "planning" /\ steps'[s] # steps[s]) =>
             CanTransitionStep(steps[s], steps'[s])]_vars
  BY StepsMove DEF IInv
<1>. QED BY <1>1, Inductive, PTL DEF Spec, StepsFollowTable

(* A step is never committed beside an operation of unknown outcome.       *)
THEOREM KnownCommits == Spec => CommitsKnownOutcomes
<1>1. IInv /\ [Next]_vars =>
        [\A s \in DOMAIN steps :
           (plan' = plan /\ steps'[s] = "SUCCEEDED" /\ orphan) =>
             steps[s] = "SUCCEEDED"]_vars
  BY StepsMove DEF IInv
<1>. QED BY <1>1, Inductive, PTL DEF Spec, CommitsKnownOutcomes

----------------------------------------------------------------------------
(* The moves the code makes without an assertion, or with one on the row it*)
(* held: to FAILED and CANCELLED from any status that is not terminal, to  *)
(* PAUSED from a resumable one, and from PAUSED to what is resumed.        *)
LEMMA UnassertedMoves ==
  /\ \A s \in TaskStatuses \ TerminalStatuses :
       CanTransitionTask(s, "FAILED") /\ CanTransitionTask(s, "CANCELLED")
  /\ \A s \in ResumableStatuses :
       CanTransitionTask(s, "PAUSED") /\ CanTransitionTask("PAUSED", s)
  /\ CanTransitionTask("CREATED", "PREPARING") /\ CanTransitionTask("CREATED", "PAUSED")
  /\ CanTransitionTask("PREPARING", "PLANNING")
  /\ CanTransitionTask("EXECUTING", "REPLANNING")
  /\ CanTransitionTask("EXECUTING", "VERIFYING")
BY DEF CanTransitionTask, TaskTransitions, Exits, TaskStatuses, ResumableStatuses,
       TerminalStatuses

(* Every write of the status is a move of the table.                      *)
LEMMA StatusMoves ==
  ASSUME RowInv, PlaceInv, BeginInv, SeenInv, Next
  PROVE  status' = status \/ CanTransitionTask(status, status')
<1>. USE UnassertedMoves DEF RowInv, BeginInv, SeenInv, TaskStatuses,
         ResumableStatuses, TerminalStatuses
<1>1. CASE Preparing
  BY <1>1 DEF Preparing, Begin, PreflightPasses, PreflightFails,
         WorkspaceCreated, Prepared, Reread, Goto, Throw, Checkpoint,
         LoopHead, row, outside, Interrupted, MustReplan, Running
<1>2. CASE Planning
  BY <1>2 DEF Planning, PlanMade, Planned, PlanCommitted, StepFailed,
         ReplanCounted, Goto, Throw, Checkpoint, row, outside, Incremented,
         ReplanAllowed
<1>3. CASE Stepping
  BY <1>3 DEF Stepping, StepsPromoted, StepStarts, ToolCalled, ToolReturned,
         TurnEnds, CommandReturned, StepAccepted, StepCommitted, StepRejected,
         Goto, Throw, Checkpoint, LoopHead, Known, Unknown, row, outside,
         Satisfied, Promotable, UnknownFound
<1>4. CASE Closing
  BY <1>4 DEF Closing, Settle, VerifyStarts, PatchReturned, Exported, Finish,
         FinishingDone, Goto, Throw, Checkpoint, Known, Unknown, row, outside,
         SandboxRemoved, PlanDone, MayFinish
<1>5. CASE Leaving
  BY <1>5 DEF Leaving, AwaitFails, Overdue, Catch, Blocked, Finally,
         CleanupDone, Disposed, Goto, Throw, row, work, outside, Terminal,
         SandboxRemoved, StartFailed, Released, ModelBlocked
<1>6. CASE Controlling
  BY <1>6 DEF Controlling, Cancel, Pause, Resume, CleanerDone, row, work,
         outside, Terminal, SandboxRemoved, Start, Starts, Active, Acquired,
         Listening, Awaits
<1>7. CASE Hosting
  BY <1>7 DEF Hosting, ScheduledStart, Crash, CrashInPause, LeaseExpires,
         Restart, row, work, outside, Terminal, Start, Starts, Die, Active,
         Acquired, Awaited, Listening, Awaits
<1>. QED BY <1>1, <1>2, <1>3, <1>4, <1>5, <1>6, <1>7, Phases

(* The orchestrator, its user, its crashes and its recoveries together     *)
(* implement the lifecycle: nothing revives a run that has ended.          *)
THEOREM OrchestratorImplementsLifecycle == Spec => ImplementsLifecycle
<1>1. Init => Lifecycle!Init BY DEF Init, Lifecycle!Init
<1>2. IInv /\ [Next]_vars => [Lifecycle!Next]_status
  <2>. SUFFICES ASSUME IInv, [Next]_vars
                PROVE  Lifecycle!Next \/ status' = status
    OBVIOUS
  <2>1. status' = status \/ CanTransitionTask(status, status')
    BY StatusMoves DEF IInv, vars, row
  <2>2. status' \in TaskStatuses BY NextIInv DEF IInv, RowInv
  <2>3. status' \in Lifecycle!TaskStatuses
    BY <2>2 DEF TaskStatuses, ResumableStatuses, TerminalStatuses,
                Lifecycle!TaskStatuses, Lifecycle!ResumableStatuses,
                Lifecycle!TerminalStatuses
  <2>4. ASSUME CanTransitionTask(status, status')
        PROVE  Lifecycle!CanTransitionTask(status, status')
    BY <2>4 DEF CanTransitionTask, TaskTransitions, Exits, ResumableStatuses,
                Lifecycle!CanTransitionTask, Lifecycle!TaskTransitions,
                Lifecycle!Exits, Lifecycle!ResumableStatuses
  <2>. QED BY <2>1, <2>3, <2>4 DEF Lifecycle!Next, Lifecycle!Move
<1>. QED BY <1>1, <1>2, Inductive, PTL DEF Spec, ImplementsLifecycle, Lifecycle!Spec

----------------------------------------------------------------------------
(* The steps change in planning, where one is promoted, starts or ends, and*)
(* only finishRun makes a run SUCCEEDED.                                   *)
LEMMA QuietActions ==
  ASSUME RowInv, Next
  PROVE  /\ \/ UNCHANGED <<plan, steps>>
            \/ PlanMade \/ StepsPromoted \/ StepStarts \/ StepAccepted \/ StepRejected
         /\ status' = "SUCCEEDED" => (status = "SUCCEEDED" \/ Finish)
<1>. USE DEF RowInv, TaskStatuses, ResumableStatuses, TerminalStatuses
<1>1. CASE Preparing
  BY <1>1 DEF Preparing, Begin, PreflightPasses, PreflightFails,
         WorkspaceCreated, Prepared, Reread, Goto, Throw, Checkpoint,
         LoopHead, row, outside, Interrupted, MustReplan, Running
<1>2. CASE Planning
  BY <1>2 DEF Planning, PlanMade, Planned, PlanCommitted, StepFailed,
         ReplanCounted, Goto, Throw, Checkpoint, row, outside, Incremented,
         ReplanAllowed
<1>3. CASE Stepping
  BY <1>3 DEF Stepping, StepsPromoted, StepStarts, ToolCalled, ToolReturned,
         TurnEnds, CommandReturned, StepAccepted, StepCommitted, StepRejected,
         Goto, Throw, Checkpoint, LoopHead, Known, Unknown, row, outside,
         Satisfied, Promotable, UnknownFound
<1>4. CASE Closing
  BY <1>4 DEF Closing, Settle, VerifyStarts, PatchReturned, Exported, Finish,
         FinishingDone, Goto, Throw, Checkpoint, Known, Unknown, row, outside,
         SandboxRemoved, PlanDone, MayFinish
<1>5. CASE Leaving
  BY <1>5 DEF Leaving, AwaitFails, Overdue, Catch, Blocked, Finally,
         CleanupDone, Disposed, Goto, Throw, row, work, outside, Terminal,
         SandboxRemoved, StartFailed, Released, ModelBlocked
<1>6. CASE Controlling
  BY <1>6 DEF Controlling, Cancel, Pause, Resume, CleanerDone, row, work,
         outside, Terminal, SandboxRemoved, Start, Starts, Active, Acquired,
         Listening, Awaits
<1>7. CASE Hosting
  BY <1>7 DEF Hosting, ScheduledStart, Crash, CrashInPause, LeaseExpires,
         Restart, row, work, outside, Terminal, Start, Starts, Die, Active,
         Acquired, Awaited, Listening, Awaits
<1>. QED BY <1>1, <1>2, <1>3, <1>4, <1>5, <1>6, <1>7, Phases

(* A run that SUCCEEDED stays so.                                          *)
LEMMA SuccessStays ==
  ASSUME RowInv, PlaceInv, BeginInv, SeenInv, Next, status = "SUCCEEDED"
  PROVE  status' = "SUCCEEDED"
BY StatusMoves DEF CanTransitionTask, TaskTransitions

(* A plan made is a plan adopted.                                          *)
LEMMA PlanMadeAdopts ==
  ASSUME DoneInv, PlanMade
  PROVE  \E p \in Plans : Execution!Adopt(p)
<1>1. PICK p \in Plans :
        /\ plan' = p
        /\ steps' = [s \in DOMAIN p |-> IF p[s] = {} THEN "READY" ELSE "PENDING"]
  BY DEF PlanMade
<1>2. \A s \in DOMAIN steps' : steps'[s] \in {"READY", "PENDING"} BY <1>1
<1>3. status # "SUCCEEDED" /\ status' = status BY DEF PlanMade, DoneInv, EndPcs, row
<1>. QED BY <1>1, <1>2, <1>3 DEF Execution!Adopt, Running

(* A promotion shows nothing.                                              *)
LEMMA PromotionsAreQuiet ==
  ASSUME PlanInv, StepsPromoted
  PROVE  UNCHANGED Execution!vars
<1>1. /\ DOMAIN steps' = DOMAIN steps /\ plan' = plan /\ status' = status
      /\ \A s \in DOMAIN steps :
           steps'[s] = steps[s] \/ (steps[s] = "PENDING" /\ steps'[s] = "READY")
  BY DEF StepsPromoted, Promotable, row
<1>. QED BY <1>1 DEF Execution!vars, Running

(* The step that starts is one the plan allows to start.                   *)
LEMMA StartsAreAllowed ==
  ASSUME PlanInv, RunningInv, StepsFollowDependencies, DoneInv, StepStarts
  PROVE  (\E s \in DOMAIN plan : Execution!StartStep(s)) \/ UNCHANGED Execution!vars
<1>. DEFINE ready == {s \in DOMAIN steps : steps[s] = "READY"}
<1>1. plan' = plan /\ status' = status BY DEF StepStarts, row
<1>2. CASE ready = {}
  <2>1. steps' = steps BY <1>2 DEF StepStarts
  <2>. QED BY <1>1, <2>1 DEF Execution!vars, Running
<1>3. CASE ready # {}
  <2>1. PICK s \in ready : steps' = [steps EXCEPT ![s] = "RUNNING"]
    BY <1>3 DEF StepStarts
  <2>2. DOMAIN steps = DOMAIN plan /\ s \in DOMAIN plan /\ plan[s] \subseteq DOMAIN plan
    <3>1. DOMAIN steps = DOMAIN plan /\ s \in DOMAIN plan BY <2>1 DEF PlanInv
    <3>2. plan \in Plans BY <3>1 DEF PlanInv
    <3>3. plan \in [DOMAIN plan -> SUBSET DOMAIN plan] BY <3>2, PlansAssumption DEF IsPlan
    <3>. QED BY <3>1, <3>3
  <2>3. Running = {} BY DEF RunningInv, CalmPcs, StepStarts
  <2>4. Running' = {s} BY <2>1, <2>2, <2>3 DEF Running
  <2>5. \A t \in DOMAIN steps : t # s => steps'[t] = steps[t] BY <2>1
  <2>6. steps'[s] = "RUNNING" /\ steps[s] = "READY" /\ DOMAIN steps' = DOMAIN steps
    BY <2>1
  <2>7. plan[s] \subseteq {t \in DOMAIN steps : steps[t] = "SUCCEEDED"}
    BY <2>1, <2>2, <2>6 DEF StepsFollowDependencies
  <2>8. status # "SUCCEEDED" BY DEF DoneInv, EndPcs, StepStarts
  <2>9. /\ {t \in DOMAIN steps' : steps'[t] = "SUCCEEDED"} =
              {t \in DOMAIN steps : steps[t] = "SUCCEEDED"}
        /\ {t \in DOMAIN steps' : steps'[t] = "FAILED"} =
              {t \in DOMAIN steps : steps[t] = "FAILED"}
    BY <2>5, <2>6
  <2>10. Execution!StartStep(s)
    BY <1>1, <2>2, <2>3, <2>4, <2>6, <2>7, <2>8, <2>9 DEF Execution!StartStep
  <2>. QED BY <2>2, <2>10
<1>. QED BY <1>2, <1>3

(* The step that ends is the one that runs.                                *)
LEMMA EndsAreOfTheRunning ==
  ASSUME PlanInv, RunningInv, DoneInv, StepAccepted \/ StepRejected
  PROVE  \E s \in DOMAIN plan : Execution!StepDone(s) \/ Execution!StepFails(s)
<1>1. /\ cur \in DOMAIN plan /\ DOMAIN steps = DOMAIN plan /\ steps[cur] = "RUNNING"
      /\ Running = {cur}
  BY DEF PlanInv, RunningInv, StepPcs, Running, StepAccepted, StepRejected
<1>2. plan' = plan /\ status' = status /\ status # "SUCCEEDED"
  BY DEF StepAccepted, StepRejected, row, DoneInv, EndPcs
<1>3. PICK end \in {"SUCCEEDED", "FAILED"} :
        /\ steps' = [steps EXCEPT ![cur] = end]
        /\ StepAccepted => end = "SUCCEEDED"
  BY DEF StepAccepted, StepRejected
<1>. PICK s \in DOMAIN plan : s = cur BY <1>1
<1>4. /\ DOMAIN steps' = DOMAIN steps /\ steps'[s] = end
      /\ \A t \in DOMAIN steps : t # s => steps'[t] = steps[t]
  BY <1>1, <1>3
<1>5. Running' = Running \ {s} BY <1>1, <1>4 DEF Running
<1>6. CASE end = "SUCCEEDED"
  <2>1. /\ {t \in DOMAIN steps' : steps'[t] = "SUCCEEDED"} =
              {t \in DOMAIN steps : steps[t] = "SUCCEEDED"} \cup {s}
        /\ {t \in DOMAIN steps' : steps'[t] = "FAILED"} =
              {t \in DOMAIN steps : steps[t] = "FAILED"}
    BY <1>1, <1>4, <1>6
  <2>2. Execution!StepDone(s) BY <1>1, <1>2, <1>5, <2>1 DEF Execution!StepDone
  <2>. QED BY <1>1, <2>2
<1>7. CASE end = "FAILED"
  <2>1. /\ {t \in DOMAIN steps' : steps'[t] = "SUCCEEDED"} =
              {t \in DOMAIN steps : steps[t] = "SUCCEEDED"}
        /\ {t \in DOMAIN steps' : steps'[t] = "FAILED"} =
              {t \in DOMAIN steps : steps[t] = "FAILED"} \cup {s}
    BY <1>1, <1>4, <1>7
  <2>2. Execution!StepFails(s) BY <1>1, <1>2, <1>5, <2>1 DEF Execution!StepFails
  <2>. QED BY <1>1, <2>2
<1>. QED BY <1>6, <1>7

(* finishRun succeeds with every step of the plan.                         *)
LEMMA FinishSucceeds ==
  ASSUME RowInv, PlanInv, LateInv, DoneInv, Finish, status' = "SUCCEEDED"
  PROVE  Execution!Succeed
<1>1. status = "VERIFYING" /\ PlanDone
  BY OnlyVerifyingSucceeds DEF RowInv, Finish, MayFinish, DoneInv, EndPcs, LateInv, Late
<1>2. DOMAIN steps = DOMAIN plan BY DEF PlanInv
<1>3. DOMAIN plan # {}
  <2>1. steps \in [DOMAIN plan -> StepStatuses] /\ steps # <<>> BY <1>1 DEF PlanInv, PlanDone
  <2>. QED BY <2>1
<1>4. {s \in DOMAIN steps : steps[s] = "SUCCEEDED"} = DOMAIN plan BY <1>1, <1>2 DEF PlanDone
<1>5. plan' = plan /\ steps' = steps BY DEF Finish
<1>. QED BY <1>1, <1>3, <1>4, <1>5 DEF Execution!Succeed, Running

(* Each step of the orchestrator, its user, its crashes and recoveries is  *)
(* a step of the execution of a plan, or none.                             *)
LEMMA NextExecutes ==
  ASSUME IInv, Next
  PROVE  Execution!Next \/ UNCHANGED Execution!vars
<1>. USE DEF IInv
<1>1. CASE PlanMade BY <1>1, PlanMadeAdopts DEF Execution!Next
<1>2. CASE StepsPromoted BY <1>2, PromotionsAreQuiet
<1>3. CASE StepStarts BY <1>3, StartsAreAllowed DEF Execution!Next
<1>4. CASE StepAccepted \/ StepRejected BY <1>4, EndsAreOfTheRunning DEF Execution!Next
<1>5. CASE UNCHANGED <<plan, steps>>
  <2>1. CASE status' = "SUCCEEDED" /\ status # "SUCCEEDED"
    BY <2>1, QuietActions, FinishSucceeds DEF Execution!Next
  <2>2. CASE (status' = "SUCCEEDED") <=> (status = "SUCCEEDED")
    BY <1>5, <2>2 DEF Execution!vars, Running
  <2>. QED BY <2>1, <2>2, SuccessStays
<1>. QED BY <1>1, <1>2, <1>3, <1>4, <1>5, QuietActions

(* For all plans, and through every pause, crash, restart and replan, the  *)
(* run is the execution of one plan after another: one step at a time, in  *)
(* the order of the dependencies, none twice, and success only with all.   *)
THEOREM OrchestratorImplementsPlanExecution == Spec => ImplementsPlanExecution
<1>1. Init => Execution!Init BY DEF Init, Execution!Init, Running
<1>2. IInv /\ [Next]_vars => [Execution!Next]_(Execution!vars)
  <2>. SUFFICES ASSUME IInv, [Next]_vars
                PROVE  Execution!Next \/ UNCHANGED Execution!vars
    OBVIOUS
  <2>1. CASE Next BY <2>1, NextExecutes
  <2>2. CASE UNCHANGED vars
    BY <2>2 DEF vars, row, work, Execution!vars, Running
  <2>. QED BY <2>1, <2>2
<1>. QED BY <1>1, <1>2, Inductive, PTL DEF Spec, ImplementsPlanExecution, Execution!Spec

----------------------------------------------------------------------------
(* What is left of a run, most significant first: replans, the making of a *)
(* plan, the steps that have not ended, the stages up to the end.          *)
ToPlan == pc \in {"begin", "preflight", "workspace", "prepared", "reread", "planning"}
Remaining == {s \in DOMAIN steps : steps[s] \notin {"SUCCEEDED", "FAILED"}}
Stage(p) ==
  CASE p = "begin" -> 27         [] p = "preflight" -> 26    [] p = "workspace" -> 25
    [] p = "prepared" -> 24      [] p = "reread" -> 23       [] p = "planning" -> 22
    [] p = "planned" -> 21       [] p = "planCommitted" -> 20
    [] p = "stepCommitted" -> 19 [] p = "step" -> 18         [] p = "promoted" -> 17
    [] p = "tool" -> 16          [] p = "prompt" -> 15       [] p = "command" -> 14
    [] p \in {"accepted", "rejected"} -> 13                  [] p = "stepFailed" -> 12
    [] p = "counting" -> 11      [] p = "settle" -> 10       [] p = "verify" -> 9
    [] p = "patch" -> 8          [] p = "export" -> 7        [] p = "finish" -> 6
    [] p \in {"finishing", "catch"} -> 5                     [] p = "blocked" -> 4
    [] p = "finally" -> 3        [] p = "cleanup" -> 2       [] p = "disposing" -> 1
    [] OTHER -> 0

Nearer ==
  \/ ToPlan /\ ~ToPlan'
  \/ /\ ToPlan' = ToPlan
     /\ \/ Remaining' \subseteq Remaining /\ Remaining' # Remaining
        \/ Remaining' = Remaining /\ Stage(pc') < Stage(pc)
Advances == replans' > replans \/ (replans' = replans /\ Nearer)

(* Each step of the coroutine but the call of a tool brings a run nearer to*)
(* its end: it spends a replan, or, with those that are left, comes nearer.*)
(* Nothing but the death of the process undoes what is reached: no pause,  *)
(* resume, cancel or timer sends the coroutine back.  With the fairness of *)
(* the awaits and a model that stops calling tools, RunEnds follows.       *)
RunsAdvance ==
  [][/\ Coroutine => Advances
     /\ (Driven /\ ~Coroutine /\ ~ToolCalled) =>
          (pc' = "down" \/ UNCHANGED <<pc, replans, plan, steps>>)]_vars

(* What is left of a run is finite at any time, and a natural number of    *)
(* replans and stages.                                                     *)
RunIsBounded ==
  /\ replans \in 0 .. MaxReplans
  /\ IsFiniteSet(Remaining)
  /\ Stage(pc) \in 0 .. 27

(* How far each place in the code is from the end.                         *)
LEMMA Stages ==
  /\ Stage("begin") = 27 /\ Stage("preflight") = 26 /\ Stage("workspace") = 25
  /\ Stage("prepared") = 24 /\ Stage("reread") = 23 /\ Stage("planning") = 22
  /\ Stage("planned") = 21 /\ Stage("planCommitted") = 20 /\ Stage("stepCommitted") = 19
  /\ Stage("step") = 18 /\ Stage("promoted") = 17 /\ Stage("tool") = 16
  /\ Stage("prompt") = 15 /\ Stage("command") = 14 /\ Stage("accepted") = 13
  /\ Stage("rejected") = 13 /\ Stage("stepFailed") = 12 /\ Stage("counting") = 11
  /\ Stage("settle") = 10 /\ Stage("verify") = 9 /\ Stage("patch") = 8
  /\ Stage("export") = 7 /\ Stage("finish") = 6 /\ Stage("finishing") = 5
  /\ Stage("catch") = 5 /\ Stage("blocked") = 4 /\ Stage("finally") = 3
  /\ Stage("cleanup") = 2 /\ Stage("disposing") = 1
  /\ Stage("idle") = 0 /\ Stage("zombie") = 0 /\ Stage("down") = 0
BY DEF Stage

(* Steps that leave the plan and the count of replans alone advance by     *)
(* their place: the plan is no longer to be made, or the end is nearer.    *)
LEMMA PlacesAdvance ==
  ASSUME UNCHANGED <<replans, steps>>,
         \/ ToPlan /\ ~ToPlan'
         \/ ToPlan' = ToPlan /\ Stage(pc') < Stage(pc)
  PROVE  Advances
BY DEF Advances, Nearer, Remaining

LEMMA PreparingAdvances == Preparing => Advances
<1>. SUFFICES ASSUME Preparing PROVE Advances OBVIOUS
<1>1. UNCHANGED <<replans, steps>>
  BY DEF Preparing, Begin, PreflightPasses, PreflightFails, WorkspaceCreated, Prepared,
         Reread, row
<1>2. \/ ToPlan /\ ~ToPlan'
      \/ ToPlan' = ToPlan /\ Stage(pc') < Stage(pc)
  BY Stages DEF Preparing, Begin, PreflightPasses, PreflightFails, WorkspaceCreated,
         Prepared, Reread, LoopHead, Goto, Throw, Interrupted, ToPlan
<1>. QED BY <1>1, <1>2, PlacesAdvance

LEMMA PlanningAdvances == ASSUME RowInv PROVE Planning => Advances
<1>1. CASE ReplanCounted
  BY <1>1 DEF ReplanCounted, Incremented, Advances, RowInv
<1>2. CASE PlanMade
  BY <1>2 DEF PlanMade, Goto, Advances, Nearer, ToPlan, row
<1>3. CASE Planned \/ PlanCommitted \/ StepFailed
  <2>1. UNCHANGED <<replans, steps>> BY <1>3 DEF Planned, PlanCommitted, StepFailed
  <2>2. ToPlan' = ToPlan /\ Stage(pc') < Stage(pc)
    BY <1>3, Stages DEF Planned, PlanCommitted, StepFailed, Goto, Throw, ToPlan
  <2>. QED BY <2>1, <2>2, PlacesAdvance
<1>. QED BY <1>1, <1>2, <1>3 DEF Planning

(* A promotion or the start of a step changes no step that has ended, and  *)
(* none that has not into one that has; the end of a step does.            *)
LEMMA SteppingAdvances ==
  ASSUME PlanInv, RunningInv PROVE (Stepping /\ ~ToolCalled) => Advances
<1>1. CASE StepsPromoted
  <2>1. /\ DOMAIN steps' = DOMAIN steps
        /\ \A s \in DOMAIN steps :
             steps'[s] = steps[s] \/ (steps[s] = "PENDING" /\ steps'[s] = "READY")
    BY <1>1 DEF StepsPromoted, Promotable
  <2>2. Remaining' = Remaining BY <2>1 DEF Remaining
  <2>3. replans' = replans /\ pc = "step" /\ pc' = "promoted"
    BY <1>1 DEF StepsPromoted, Goto, row
  <2>. QED BY <2>2, <2>3, Stages DEF Advances, Nearer, ToPlan
<1>2. CASE StepStarts
  <2>1. /\ DOMAIN steps' = DOMAIN steps
        /\ \A s \in DOMAIN steps :
             steps'[s] = steps[s] \/ (steps[s] = "READY" /\ steps'[s] = "RUNNING")
    BY <1>2 DEF StepStarts
  <2>2. Remaining' = Remaining BY <2>1 DEF Remaining
  <2>3. replans' = replans /\ pc = "promoted" /\ pc' \in {"settle", "prompt", "catch"}
    BY <1>2 DEF StepStarts, Goto, Throw, row
  <2>. QED BY <2>2, <2>3, Stages DEF Advances, Nearer, ToPlan
<1>3. CASE StepAccepted \/ StepRejected
  <2>1. cur \in DOMAIN steps /\ steps[cur] = "RUNNING"
    BY <1>3 DEF RunningInv, StepPcs, Running, StepAccepted, StepRejected
  <2>2. /\ DOMAIN steps' = DOMAIN steps
        /\ steps'[cur] \in {"SUCCEEDED", "FAILED"}
        /\ \A s \in DOMAIN steps : s # cur => steps'[s] = steps[s]
    BY <1>3, <2>1 DEF StepAccepted, StepRejected
  <2>3. Remaining' = Remaining \ {cur} /\ cur \in Remaining BY <2>1, <2>2 DEF Remaining
  <2>4. replans' = replans /\ ToPlan' = ToPlan
    BY <1>3 DEF StepAccepted, StepRejected, ToPlan, row
  <2>. QED BY <2>3, <2>4 DEF Advances, Nearer
<1>4. CASE ToolReturned \/ TurnEnds \/ CommandReturned \/ StepCommitted
  <2>1. UNCHANGED <<replans, steps>>
    BY <1>4 DEF ToolReturned, TurnEnds, CommandReturned, StepCommitted
  <2>2. ToPlan' = ToPlan /\ Stage(pc') < Stage(pc)
    BY <1>4, Stages DEF ToolReturned, TurnEnds, CommandReturned, StepCommitted,
           LoopHead, Goto, Throw, ToPlan
  <2>. QED BY <2>1, <2>2, PlacesAdvance
<1>. QED BY <1>1, <1>2, <1>3, <1>4 DEF Stepping

LEMMA ClosingAdvances == Closing => Advances
<1>. SUFFICES ASSUME Closing PROVE Advances OBVIOUS
<1>1. UNCHANGED <<replans, steps>>
  BY DEF Closing, Settle, VerifyStarts, PatchReturned, Exported, Finish, FinishingDone, row
<1>2. ToPlan' = ToPlan /\ Stage(pc') < Stage(pc)
  BY Stages DEF Closing, Settle, VerifyStarts, PatchReturned, Exported, Finish,
         FinishingDone, Goto, Throw, ToPlan
<1>. QED BY <1>1, <1>2, PlacesAdvance

LEMMA LeavingAdvances == Leaving => Advances
<1>. SUFFICES ASSUME Leaving PROVE Advances OBVIOUS
<1>1. UNCHANGED <<replans, steps>>
  BY DEF Leaving, AwaitFails, Overdue, Catch, Blocked, Finally, CleanupDone, Disposed,
         row, work
<1>2. \/ ToPlan /\ ~ToPlan'
      \/ ToPlan' = ToPlan /\ Stage(pc') < Stage(pc)
  BY Stages DEF Leaving, AwaitFails, Overdue, Catch, Blocked, Finally, CleanupDone,
         Disposed, Goto, Throw, ToPlan
<1>. QED BY <1>1, <1>2, PlacesAdvance

(* What is not the coroutine's leaves it where it is, or is its death.     *)
LEMMA OthersDoNotDisturb ==
  ASSUME Driven, Controlling \/ Hosting
  PROVE  pc' = "down" \/ UNCHANGED <<pc, replans, plan, steps>>
<1>1. CASE Controlling
  BY <1>1 DEF Driven, Controlling, Cancel, Pause, Resume, CleanerDone, Start, Starts,
         row, work
<1>2. CASE Hosting
  BY <1>2 DEF Driven, Hosting, ScheduledStart, Crash, CrashInPause, LeaseExpires,
         Restart, Start, Starts, Die, row, work
<1>. QED BY <1>1, <1>2

(* For all plans and budgets: a run advances with each step of its own, and*)
(* whatever users, timers and other processes do takes none of it back.    *)
THEOREM AdvancingRuns == Spec => RunsAdvance
<1>. DEFINE A == /\ Coroutine => Advances
                 /\ (Driven /\ ~Coroutine /\ ~ToolCalled) =>
                      (pc' = "down" \/ UNCHANGED <<pc, replans, plan, steps>>)
<1>1. IInv /\ [Next]_vars => [A]_vars
  <2>. SUFFICES ASSUME IInv, Next PROVE A OBVIOUS
  <2>1. Coroutine => Advances
    <3>. SUFFICES ASSUME Coroutine PROVE Advances OBVIOUS
    <3>1. \/ Preparing \/ Planning \/ (Stepping /\ ~ToolCalled)
          \/ Closing \/ Leaving
      <4>1. ToolReturned \/ TurnEnds \/ CommandReturned \/ StepsPromoted \/ StepStarts
            \/ StepAccepted \/ StepCommitted \/ StepRejected => ~ToolCalled
        BY DEF ToolCalled, Goto, Throw, ToolReturned, TurnEnds, CommandReturned,
               StepsPromoted, StepStarts, StepAccepted, StepCommitted, StepRejected
      <4>. QED BY <4>1 DEF Coroutine, Preparing, Planning, Stepping, Closing, Leaving
    <3>. QED BY <3>1, PreparingAdvances, PlanningAdvances, SteppingAdvances,
                ClosingAdvances, LeavingAdvances DEF IInv
  <2>2. (Driven /\ ~Coroutine /\ ~ToolCalled) =>
          (pc' = "down" \/ UNCHANGED <<pc, replans, plan, steps>>)
    <3>1. ~Coroutine /\ ~ToolCalled => Controlling \/ Hosting
      BY DEF Next, Control, Process, Controlling, Hosting
    <3>. QED BY <3>1, OthersDoNotDisturb
  <2>. QED BY <2>1, <2>2
<1>. QED BY <1>1, Inductive, PTL DEF Spec, RunsAdvance

(* Whatever the plans, what a run may still spend is finite: the steps of  *)
(* RunsAdvance are a descent that ends.                                    *)
THEOREM BoundedRuns == Spec => []RunIsBounded
<1>1. IInv => RunIsBounded
  <2>. SUFFICES ASSUME IInv PROVE RunIsBounded OBVIOUS
  <2>1. replans \in 0 .. MaxReplans BY DEF IInv, RowInv
  <2>2. Stage(pc) \in 0 .. 27
    BY Stages DEF IInv, PlaceInv, Awaits, Segments
  <2>3. IsFiniteSet(Remaining)
    <3>1. IsFiniteSet(DOMAIN plan)
      <4>1. CASE plan \in Plans BY <4>1, PlansAssumption DEF IsPlan
      <4>2. CASE plan = <<>>
        <5>1. DOMAIN plan = {} BY <4>2
        <5>. QED BY <5>1, FS_EmptySet
      <4>. QED BY <4>1, <4>2 DEF IInv, PlanInv
    <3>2. Remaining \subseteq DOMAIN plan BY DEF Remaining, IInv, PlanInv
    <3>. QED BY <3>1, <3>2, FS_Subset
  <2>. QED BY <2>1, <2>2, <2>3 DEF RunIsBounded
<1>. QED BY <1>1, Inductive, PTL

(* What takes away the pending start has found the lease free, or the run  *)
(* at its end, which no control revives.                                   *)
LEMMA AwaitedKept ==
  ASSUME PlaceInv, LeaseCoversWork, DeadLeaseIsAwaited, [Next]_vars
  PROVE  DeadLeaseIsAwaited'
<1>. SUFFICES ASSUME lease' = "dead", pc' # "down", ~Terminal' PROVE scheduled'
  BY DEF DeadLeaseIsAwaited
<1>1. CASE Restart
  BY <1>1 DEF Restart, Awaited, Terminal
<1>2. CASE Cancel \/ Pause \/ Resume \/ ScheduledStart
  BY <1>2 DEF DeadLeaseIsAwaited, Cancel, Pause, Resume, ScheduledStart, Start, Starts,
         Listening, Awaits, Terminal, outside, ResumableStatuses, TerminalStatuses,
         Active, Acquired
<1>3. CASE Crash \/ CrashInPause
  BY <1>3 DEF Crash, CrashInPause, Die
<1>4. CASE CleanerDone \/ LeaseExpires \/ UNCHANGED vars
  BY <1>4 DEF DeadLeaseIsAwaited, CleanerDone, LeaseExpires, Terminal, vars, row, work,
         outside
<1>5. CASE Coroutine \/ ToolCalled
  <2>1. lease # "dead" \/ pc \in {"idle", "down"} BY DEF LeaseCoversWork
  <2>2. CASE Finally BY <2>2 DEF Finally, Released
  <2>3. pc \notin {"idle", "down"}
    BY <1>5 DEF Coroutine, Begin, PreflightPasses, PreflightFails, WorkspaceCreated,
           Prepared, Reread, PlanMade, Planned, PlanCommitted, StepsPromoted,
           StepStarts, ToolCalled, ToolReturned, TurnEnds, CommandReturned,
           StepAccepted, StepCommitted, StepRejected, StepFailed, ReplanCounted,
           Settle, VerifyStarts, PatchReturned, Exported, Finish, FinishingDone,
           AwaitFails, Overdue, Catch, Blocked, Finally, CleanupDone, Disposed
  <2>4. CASE ~Finally
    <3>1. lease' = lease
      BY <1>5, <2>4 DEF Coroutine, Begin, PreflightPasses, PreflightFails,
           WorkspaceCreated, Prepared, Reread, PlanMade, Planned, PlanCommitted,
           StepsPromoted, StepStarts, ToolCalled, ToolReturned, TurnEnds,
           CommandReturned, StepAccepted, StepCommitted, StepRejected, StepFailed,
           ReplanCounted, Settle, VerifyStarts, PatchReturned, Exported, Finish,
           FinishingDone, AwaitFails, Overdue, Catch, Blocked, CleanupDone, Disposed
    <3>. QED BY <2>1, <2>3, <3>1
  <2>. QED BY <2>2, <2>4
<1>. QED BY <1>1, <1>2, <1>3, <1>4, <1>5 DEF Next, Control, Process

(* For all plans and budgets: a run whose dead owner's lease is waited for *)
(* is not forgotten.                                                       *)
THEOREM AwaitedLease == Spec => []DeadLeaseIsAwaited
<1>1. Init => DeadLeaseIsAwaited BY DEF Init, DeadLeaseIsAwaited
<1>2. IInv /\ DeadLeaseIsAwaited /\ [Next]_vars => DeadLeaseIsAwaited'
  BY AwaitedKept DEF IInv
<1>. QED BY <1>1, <1>2, Inductive, PTL DEF Spec

----------------------------------------------------------------------------
(* What follows from being the execution of plans, for who looks at the    *)
(* steps of a run: each one that was started waited for what is done, none *)
(* is both at work and at its end, success is the whole of a plan.         *)
THEOREM ExecutionFollowsPlan == Spec => []Execution!DoneFollowsPlan
<1>1. Execution!Init => Execution!DoneFollowsPlan
  BY DEF Execution!Init, Execution!DoneFollowsPlan
<1>2. Execution!DoneFollowsPlan /\ [Execution!Next]_(Execution!vars)
        => Execution!DoneFollowsPlan'
  BY DEF Execution!DoneFollowsPlan, Execution!Next, Execution!vars, Execution!Adopt,
         Execution!StartStep, Execution!StepDone, Execution!StepFails, Execution!Succeed
<1>. QED BY <1>1, <1>2, OrchestratorImplementsPlanExecution, PTL
         DEF ImplementsPlanExecution, Execution!Spec

(* After success neither a step nor a plan of the run changes any more:    *)
(* no late answer, resume or recovery works on a run that is done.         *)
THEOREM FinalSuccess == Spec => Execution!SuccessIsFinal
<1>1. [Execution!Next]_(Execution!vars) => [~(status = "SUCCEEDED")]_(Execution!vars)
  BY DEF Execution!Next, Execution!Adopt, Execution!StartStep, Execution!StepDone,
         Execution!StepFails, Execution!Succeed
<1>. QED BY <1>1, OrchestratorImplementsPlanExecution, PTL
         DEF ImplementsPlanExecution, Execution!Spec, Execution!SuccessIsFinal
=============================================================================
