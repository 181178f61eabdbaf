------------------------------ MODULE ToolAudit ------------------------------
(***************************************************************************)
(* The side-effecting tool calls of one run: ToolAudit.dispatch around     *)
(* DockerProvider.execute, the rows of tool_operations, the artifact of    *)
(* the result (ArtifactStore), and the two places that call tools: the     *)
(* model's turn (PiTaskDriver) and the verification of a step (the toolbox *)
(* of TaskOrchestrator.executeReadyStep).                                  *)
(*                                                                         *)
(* The container is another process: what runs in it goes on when the      *)
(* runtime dies, when the connection breaks and when its output is closed. *)
(***************************************************************************)
EXTENDS Naturals, FiniteSets

CONSTANTS Calls,               \* tool_call_ids
          None,                \* NULL
          MaxWriteOperations   \* of the budget of the task

Tools == {"write_file", "run_command"}
Writes == {"write_file"}
(* ok of a ToolResult; unknown is the result of what threw.                *)
Outcomes == {"ok", "failed", "unknown"}

ASSUME NoneAssumption == None \notin Calls \cup Tools \cup Outcomes
ASSUME BudgetAssumption == MaxWriteOperations \in Nat

VARIABLES
  state, capability, resultArtifact,  \* tool_operations, by UNIQUE(run_id, tool_call_id)
  stage,       \* where dispatch is
  putting, content, blob, artifact,  \* the put of persistResult (ArtifactStore)
  proc,        \* the process of the call in the container
  effects,     \* how often the call changed the workspace
  timedOut,    \* the calls whose timer fired
  container,   \* up, also while a container.kill() is under way, or down
  checkpoint,  \* the call the last checkpoint of ToolAudit names
  phase,       \* the run: in a turn of the model, verifying a step, stopped
  checks,      \* the verification commands of the step so far
  committed    \* the calls on record when a step was last committed

Store == INSTANCE ArtifactStore WITH Puts <- Calls, Contents <- Outcomes

putVars == <<putting, content, blob, artifact>>
rowVars == <<state, capability, resultArtifact>>
boxVars == <<proc, effects, timedOut, container>>
runVars == <<phase, checks, committed>>
vars == <<rowVars, stage, putVars, boxVars, checkpoint, runVars>>

(* toolOperationStateSchema.                                               *)
States == {"INTENT", "OPERATION_STARTED", "OPERATION_FINISHED", "UNKNOWN_OUTCOME"}
Awaiting == {"started", "executing", "storing", "checkpointing"}
Alive == {"running", "done"}

TypeOK ==
  /\ state \in [Calls -> States \cup {"absent"}]
  /\ capability \in [Calls -> Tools \cup {None}]
  /\ resultArtifact \in [Calls -> Calls \cup {None}]
  /\ stage \in [Calls -> Awaiting \cup {"idle", "intent", "returned", "rejected"}]
  /\ Store!StoreTypeOK
  /\ proc \in [Calls -> Alive \cup {"none", "succeeded", "failed", "killed"}]
  /\ effects \in [Calls -> 0..1]
  /\ timedOut \subseteq Calls
  /\ container \in {"up", "killing", "down"}
  /\ checkpoint \in Calls \cup {None}
  /\ phase \in {"turn", "verifying", "stopped"}
  /\ checks \subseteq Calls /\ committed \subseteq Calls

Init ==
  /\ state = [c \in Calls |-> "absent"]
  /\ capability = [c \in Calls |-> None]
  /\ resultArtifact = [c \in Calls |-> None]
  /\ stage = [c \in Calls |-> "idle"]
  /\ Store!StoreInit
  /\ proc = [c \in Calls |-> "none"]
  /\ effects = [c \in Calls |-> 0]
  /\ timedOut = {} /\ container = "up"
  /\ checkpoint = None
  /\ phase = "turn" /\ checks = {} /\ committed = {}

Enter(c, to) == stage' = [stage EXCEPT ![c] = to]

(* No synchronous segment is under way: between createIntent and           *)
(* markStarted the process can only die.                                   *)
Quiet == \A c \in Calls : stage[c] # "intent"

(* Mutated form of Unknown: the rows of dispatches that ended in a crash   *)
(* are not listed.                                                         *)
UnknownMarked == {c \in Calls : state[c] = "UNKNOWN_OUTCOME"}

(* listUnknown.                                                            *)
Unknown == {c \in Calls : state[c] \in {"OPERATION_STARTED", "UNKNOWN_OUTCOME"}}

(* countCapabilities(run.id, ["write_file", "apply_edit"]).                *)
WriteOperations == {c \in Calls : capability[c] \in Writes}

----------------------------------------------------------------------------
(* Mutated form of CreateIntent: the row of an earlier call is replaced.   *)
CreateIntentAnew(c, tool) ==
  /\ stage[c] \in {"idle", "returned", "rejected"}
  /\ state' = [state EXCEPT ![c] = "INTENT"]
  /\ capability' = [capability EXCEPT ![c] = tool]
  /\ Enter(c, "intent")
  /\ UNCHANGED <<resultArtifact, putVars, boxVars, checkpoint>>

(* dispatch up to createIntent.  A provider, or a session resumed after a  *)
(* crash, may use an id again: the insertion throws, and nothing happens.  *)
CreateIntent(c, tool) ==
  /\ state[c] = "absent"
  /\ CreateIntentAnew(c, tool)

MarkStarted(c) ==
  /\ stage[c] = "intent"
  /\ state' = [state EXCEPT ![c] = "OPERATION_STARTED"]
  /\ Enter(c, "started")
  /\ UNCHANGED <<capability, resultArtifact, putVars, boxVars, checkpoint, runVars>>

(* container.exec and exec.start.                                          *)
ExecStarts(c) ==
  /\ stage[c] = "started" /\ container # "down"
  /\ proc' = [proc EXCEPT ![c] = "running"]
  /\ Enter(c, "executing")
  /\ UNCHANGED <<rowVars, putVars, effects, timedOut, container, checkpoint, runVars>>

(* The result is persisted whatever it is.                                 *)
Persist(c, outcome) == Store!Put(c, outcome) /\ Enter(c, "storing")

(* The path is not granted, the container is down, Docker does not answer; *)
(* when only the answer is lost the process runs.                          *)
ExecThrows(c) ==
  /\ stage[c] = "started"
  /\ \/ UNCHANGED proc
     \/ container # "down" /\ proc' = [proc EXCEPT ![c] = "running"]
  /\ Persist(c, "unknown")
  /\ UNCHANGED <<rowVars, effects, timedOut, container, checkpoint, runVars>>

(* Mutated form of ExitCode: a process without an exit code is taken for   *)
(* one that succeeded.                                                     *)
ExitCodeOrZero(c) == IF proc[c] \in {"failed", "killed"} \/ c \in timedOut THEN "failed" ELSE "ok"

(* timedOut ? 124 : (inspection.ExitCode ?? 1).                            *)
ExitCode(c) == IF proc[c] = "succeeded" /\ c \notin timedOut THEN "ok" ELSE "failed"

(* The stream ends when the output of the process is closed, which it may  *)
(* be before the process exits; then it is inspected once.                 *)
StreamEnds(c) ==
  /\ stage[c] = "executing"
  /\ Persist(c, ExitCode(c))
  /\ UNCHANGED <<rowVars, boxVars, checkpoint, runVars>>

(* The stream is broken, or the inspection is rejected.                    *)
StreamBreaks(c) ==
  /\ stage[c] = "executing"
  /\ Persist(c, "unknown")
  /\ UNCHANGED <<rowVars, boxVars, checkpoint, runVars>>

(* The steps of put between its first await and its last.                  *)
Storing(c) ==
  /\ stage[c] = "storing"
  /\ Store!Written(c) \/ Store!Placed(c) \/ Store!Inserted(c)
  /\ UNCHANGED <<rowVars, stage, boxVars, checkpoint, runVars>>

(* Mutated form of Mark: the result is not awaited.                        *)
MarkAtOnce(c) ==
  /\ stage[c] = "storing"
  /\ state' = [state EXCEPT ![c] =
       IF content[c] = "unknown" THEN "UNKNOWN_OUTCOME" ELSE "OPERATION_FINISHED"]
  /\ resultArtifact' = [resultArtifact EXCEPT ![c] = c]
  /\ Enter(c, "checkpointing")
  /\ UNCHANGED <<capability, putVars, boxVars, checkpoint, runVars>>

(* markFinished, or markUnknown in the catch clause; WHERE state =         *)
(* 'OPERATION_STARTED' holds of every row that comes here.                 *)
Mark(c) ==
  /\ putting[c] = "stored"
  /\ MarkAtOnce(c)

(* Mutated form of Checkpoint: the checkpoint precedes the mark.           *)
CheckpointFirst(c) ==
  /\ stage[c] = "storing" /\ putting[c] = "stored"
  /\ checkpoint' = c
  /\ UNCHANGED <<rowVars, stage, putVars, boxVars, runVars>>

(* checkpoints.record, and dispatch returns or throws again.               *)
Checkpoint(c) ==
  /\ stage[c] = "checkpointing"
  /\ checkpoint' = c
  /\ Enter(c, IF content[c] = "unknown" THEN "rejected" ELSE "returned")
  /\ UNCHANGED <<rowVars, putVars, boxVars, runVars>>

(* put or a statement throws: nothing more is written for the call.        *)
Reject(c) ==
  /\ stage[c] \in {"intent", "storing", "checkpointing"}
  /\ Enter(c, "rejected")
  /\ IF putting[c] \in Store!InPut THEN Store!Failed(c) ELSE UNCHANGED putVars
  /\ UNCHANGED <<rowVars, boxVars, checkpoint, runVars>>

----------------------------------------------------------------------------
(* The process changes the workspace, or whatever else it is there for.    *)
TakesEffect(c) ==
  /\ proc[c] = "running"
  /\ proc' = [proc EXCEPT ![c] = "done"]
  /\ effects' = [effects EXCEPT ![c] = @ + 1]
  /\ UNCHANGED <<rowVars, stage, putVars, timedOut, container, checkpoint, runVars>>

(* It exits: with 0 only when it is done.                                  *)
Exits(c) ==
  /\ \/ proc[c] = "done" /\ proc' = [proc EXCEPT ![c] = "succeeded"]
     \/ proc[c] \in Alive /\ proc' = [proc EXCEPT ![c] = "failed"]
  /\ UNCHANGED <<rowVars, stage, putVars, effects, timedOut, container, checkpoint, runVars>>

(* The timer of execute: the whole container is killed, without waiting.   *)
Timeout(c) ==
  /\ stage[c] = "executing" /\ c \notin timedOut
  /\ timedOut' = timedOut \cup {c}
  /\ container' = IF container = "down" THEN "down" ELSE "killing"
  /\ UNCHANGED <<rowVars, stage, putVars, proc, effects, checkpoint, runVars>>

(* The kill succeeds, perhaps long after the stream has ended, or it is    *)
(* rejected, which is ignored.  Nothing starts the container again.        *)
KillEnds ==
  /\ container = "killing"
  /\ \/ /\ container' = "down"
        /\ proc' = [c \in Calls |-> IF proc[c] \in Alive THEN "killed" ELSE proc[c]]
     \/ container' = "up" /\ UNCHANGED proc
  /\ UNCHANGED <<rowVars, stage, putVars, effects, timedOut, checkpoint, runVars>>

----------------------------------------------------------------------------
(* PiTaskDriver.#dispatch while a step is executed.                        *)
ModelCalls(c, tool) ==
  /\ phase = "turn" /\ Quiet
  /\ CreateIntent(c, tool)
  /\ UNCHANGED runVars

(* The turn ends, with calls still under way if it was aborted, and        *)
(* executeReadyStep looks at the operations; or it ends with a failure.    *)
TurnEnds ==
  /\ phase = "turn" /\ Quiet
  /\ \/ Unknown = {} /\ phase' = "verifying"
     \/ phase' = "stopped"
  /\ UNCHANGED <<rowVars, stage, putVars, boxVars, checkpoint, checks, committed>>

(* toolbox.call.                                                           *)
ToolboxCall(c, tool) ==
  /\ tool \in Writes => Cardinality(WriteOperations) < MaxWriteOperations
  /\ CreateIntent(c, tool)

(* The verification commands, one after the other.                         *)
Verify(c) ==
  /\ phase = "verifying" /\ Quiet
  /\ \A k \in checks : stage[k] = "returned"
  /\ ToolboxCall(c, "run_command")
  /\ checks' = checks \cup {c}
  /\ UNCHANGED <<phase, committed>>

(* A verification command threw.                                           *)
VerificationThrows ==
  /\ phase = "verifying" /\ \E k \in checks : stage[k] = "rejected"
  /\ phase' = "stopped" /\ checks' = {}
  /\ UNCHANGED <<rowVars, stage, putVars, boxVars, checkpoint, committed>>

(* All of them returned: the step is committed if their exit codes are 0,  *)
(* and otherwise fails.  Either way a turn follows.                        *)
StepEnds ==
  /\ phase = "verifying" /\ Quiet
  /\ \A k \in checks : stage[k] = "returned"
  /\ phase' = "turn" /\ checks' = {}
  /\ IF \A k \in checks : content[k] = "ok"
     THEN committed' = {c \in Calls : state[c] # "absent"}
     ELSE UNCHANGED committed
  /\ UNCHANGED <<rowVars, stage, putVars, boxVars, checkpoint>>

(* The user, or recovery, starts the run again; no code settles an unknown *)
(* outcome.                                                                *)
Resume ==
  /\ phase = "stopped" /\ Quiet
  /\ phase' = "turn"
  /\ UNCHANGED <<rowVars, stage, putVars, boxVars, checkpoint, checks, committed>>

(* The runtime dies.  The container does not notice, nor does a kill that  *)
(* is under way.                                                           *)
Crash ==
  /\ stage' = [c \in Calls |->
       IF stage[c] \in Awaiting \cup {"intent"} THEN "rejected" ELSE stage[c]]
  /\ Store!Died
  /\ phase' = "stopped" /\ checks' = {}
  /\ UNCHANGED <<rowVars, boxVars, checkpoint, committed>>

Next ==
  \/ \E c \in Calls :
       \/ \E tool \in Tools : ModelCalls(c, tool)
       \/ Verify(c)
       \/ MarkStarted(c) \/ ExecStarts(c) \/ ExecThrows(c)
       \/ StreamEnds(c) \/ StreamBreaks(c)
       \/ Storing(c) \/ Mark(c) \/ Checkpoint(c) \/ Reject(c)
       \/ TakesEffect(c) \/ Exits(c) \/ Timeout(c)
  \/ KillEnds
  \/ TurnEnds \/ VerificationThrows \/ StepEnds \/ Resume
  \/ Crash

Spec == Init /\ [][Next]_vars

----------------------------------------------------------------------------
(* A result a row refers to can be read back, with its integrity, although *)
(* equal results share a file and the process may die in any put.          *)
RowsAreBacked == Store!RowsAreBacked

(* What is reported to have succeeded has taken effect, although the exit  *)
(* code is read from a process that may still run, may have been killed,   *)
(* or whose container was killed for another call.                         *)
OkMeansDone == \A c \in Calls : content[c] = "ok" => effects[c] = 1

(* A row that names an outcome refers to the stored artifact of just that  *)
(* outcome: known results never carry the artifact of an unknown one.      *)
OutcomeIsOnFile ==
  \A c \in Calls :
    /\ state[c] = "OPERATION_FINISHED" =>
         resultArtifact[c] = c /\ artifact[c] \in {"ok", "failed"}
    /\ state[c] = "UNKNOWN_OUTCOME" => resultArtifact[c] = c /\ artifact[c] = "unknown"

(* A checkpoint is written at a stable boundary only: the operation it     *)
(* names has ended, and its result is on file.                             *)
CheckpointIsStable ==
  checkpoint # None =>
    /\ state[checkpoint] \in {"OPERATION_FINISHED", "UNKNOWN_OUTCOME"}
    /\ artifact[checkpoint] # None

(* A step is committed when every call on record has a known outcome, or   *)
(* was never started: calls of turns that were aborted, or of processes    *)
(* that died, included.                                                    *)
CommittedAreKnown ==
  \A c \in committed :
    \/ state[c] = "OPERATION_FINISHED"
    \/ state[c] = "INTENT" /\ effects[c] = 0

(* The record as AuditedEffects sees it: a row is pending as long as its   *)
(* dispatch is alive.                                                      *)
Fate(c) ==
  IF state[c] \in {"absent", "INTENT"} THEN "unseen"
  ELSE IF state[c] = "OPERATION_FINISHED" THEN "known"
  ELSE IF state[c] = "UNKNOWN_OUTCOME" \/ stage[c] = "rejected" THEN "unknown"
  ELSE "pending"

Audited == INSTANCE AuditedEffects WITH fate <- [c \in Calls |-> Fate(c)]

(* No effect without a record, none twice, and no record taken back.       *)
ImplementsAuditedEffects == Audited!Spec

(* The budget of the task bounds its write operations.                     *)
WriteBudgetHolds == Cardinality(WriteOperations) <= MaxWriteOperations
=============================================================================
