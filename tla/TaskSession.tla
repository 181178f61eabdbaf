---------------------------- MODULE TaskSession -----------------------------
(***************************************************************************)
(* The driver of a task and what it holds while the orchestrator runs it:  *)
(* the model handle with its API key, the PI session, and the sandbox      *)
(* (PiTaskDriver, createNoNeedWorkSession, DockerProvider), through the    *)
(* user's controls, shutdowns, crashes and upgrades of the runtime; and    *)
(* the provider probe, which holds a handle too.                           *)
(*                                                                         *)
(* Plans, steps, tools and leases are TaskOrchestrator's: here a run plans *)
(* with one prompt and executes with one or more, and it succeeds when the *)
(* last has returned.  live[r].pc is where the coroutine of TaskRunner.run *)
(* waits; at "catch" alone it does not wait, and only the catch clause     *)
(* follows.                                                                *)
(***************************************************************************)
EXTENDS ModelService, TaskStatus

CONSTANTS Runs,        \* the runs of tasks
          Probe,       \* the owner of the probe's handle
          Containers   \* container ids

ASSUME OwnersAssumption == Owners = Runs \cup {Probe} /\ Probe \notin Runs

VARIABLES
  process,    \* "up", "stopping", "down", or "failed": it did not start
  task,       \* run -> its rows in task_runs and task_run_models, or None
  live,       \* run -> the coroutine that drives it
  sandbox,    \* run -> the row of sandboxes, or None
  container,  \* container id -> what Docker has
  probe       \* where POST /v1/models/probe waits

hostVars == <<process, task, live, sandbox, container, probe>>
vars == <<serviceVars, hostVars>>

Working == {"PREPARING", "PLANNING", "EXECUTING"}
Bindings == [selection : Selections, sdk : Releases] \cup {None}
Pcs == {"idle", "opening", "unwinding", "packing", "seeding", "discarding", "joining",
        "leaving", "asking", "catch", "cleanup", "removed", "disposing", "zombie",
        "sweeping", "swept", "scheduled"}

Statuses == Working \cup TerminalStatuses \cup {"PAUSED"}
Rows == [status : Statuses, resume : Working \cup {"PAUSED", None}, binding : Bindings]
Boxes == [id : Containers, status : {"READY", "DESTROYED"}]
ContainerStates == {"unused", "starting", "ready", "stopped", "lost", "gone"}

(* seen: `details` across the preflight; mode: PiTaskDriver's; output: in  *)
(* the current message, earlier: in the prompt before it; abort: cancel    *)
(* has aborted the prompt; fault: the error thrown.                        *)
Coroutines == [pc : Pcs, seen : Working \cup {None}, mode : {"plan", "step"},
               output : BOOLEAN, earlier : BOOLEAN, abort : BOOLEAN,
               fault : Reasons \cup {"error", "rejected", None},
               box : Containers \cup {None}]

ASSUME NoneAssumption ==
  /\ None \notin Working \cup {"PAUSED"} \cup Containers \cup Rows \cup Boxes
  /\ None \notin Handles \cup [selection : Selections, sdk : Releases]

TypeOK ==
  /\ ServiceTypeOK
  /\ process \in {"up", "stopping", "down", "failed"}
  /\ task \in [Runs -> Rows \cup {None}]
  /\ live \in [Runs -> Coroutines]
  /\ sandbox \in [Runs -> Boxes \cup {None}]
  /\ container \in [Containers -> ContainerStates]
  /\ probe \in {"idle", "opening", "unwinding", "text", "tool", "closing"}

Idle == [pc |-> "idle", seen |-> None, mode |-> "plan", output |-> FALSE, earlier |-> FALSE,
         abort |-> FALSE, fault |-> None, box |-> None]

(* A run of a release without bindings may be left in the database.        *)
Legacy == [status |-> "EXECUTING", resume |-> None, binding |-> None]

Init ==
  /\ ServiceInit
  /\ process = "down"
  /\ task \in [Runs -> {None, Legacy}]
  /\ live = [r \in Runs |-> Idle]
  /\ sandbox = [r \in Runs |-> None]
  /\ container = [c \in Containers |-> "unused"]
  /\ probe = "idle"

Ended(r) == task[r].status \in TerminalStatuses
At(r, pc) == live[r].pc = pc
(* getByRun finds a row that is not DESTROYED.                             *)
HasContainer(r) == sandbox[r] # None /\ sandbox[r].status = "READY"
Goto(r, pc) == live' = [live EXCEPT ![r].pc = pc]
(* An error: what the driver knew of its prompt matters no more.           *)
Throw(r, fault) == live' = [live EXCEPT ![r] = [Idle EXCEPT !.pc = "catch", !.fault = fault]]

(* #active has no entry; main.ts may be about to start the run.            *)
Inactive(r) == live[r].pc \in {"idle", "scheduled", "sweeping", "swept"}

(* The catch clause runs before any request for the run does; what others  *)
(* do in between makes no difference to it.                                *)
Settled(r) == ~At(r, "catch")

(* Mutated form of Finally: every run is cleaned up.                       *)
FinallyAlways(r, status) ==
  live' = [live EXCEPT ![r] = [Idle EXCEPT !.pc = "cleanup"]]

(* The finally clause: a run that has ended is cleaned up.                 *)
Finally(r, status) ==
  live' = [live EXCEPT ![r] =
             [Idle EXCEPT !.pc = IF status \in TerminalStatuses THEN "cleanup" ELSE "disposing"]]

(* The checkpoint carries the status to resume with.                       *)
PausedFrom(r) == [task EXCEPT ![r] = [@ EXCEPT !.resume = task[r].status, !.status = "PAUSED"]]

(* Mutated form of Prepared: the status is not read again after preparing. *)
PreparedUnread(r) == [task EXCEPT ![r] = [@ EXCEPT !.resume = None, !.status = "PLANNING"]]

(* prepareRun's checkpoint does not; a run still PREPARING is planned next.*)
Prepared(r) ==
  [task EXCEPT ![r] = [@ EXCEPT !.resume = None,
                                !.status = IF task[r].status = "PREPARING"
                                          THEN "PLANNING" ELSE task[r].status]]

----------------------------------------------------------------------------
(* TaskRunner.start up to the first await, with a row just read: a driver  *)
(* is created with the binding, a created run is PREPARING (no row rests   *)
(* in CREATED here), and the preflight asks for a handle.                  *)
Begin(r, row) ==
  /\ task' = [task EXCEPT ![r] = row]
  /\ \/ /\ Openable(row.binding)
        /\ handle' = [handle EXCEPT ![r] = NewHandle(Identity(row.binding))]
        /\ live' = [live EXCEPT ![r] = [Idle EXCEPT !.pc = "opening", !.seen = row.status]]
     \/ /\ \E f \in Refusals(row.binding) :
             Throw(r, f)
        /\ UNCHANGED handle

(* POST /v1/tasks: TaskService.create binds the model the request names or *)
(* the default, in the transaction that inserts the run; then start.       *)
Create(r) ==
  /\ process = "up" /\ task[r] = None
  /\ \E o \in Selections \cup {None} :
       /\ Available(Chosen(o))
       /\ Begin(r, [status |-> "PREPARING", resume |-> None, binding |-> BindingFor(Chosen(o))])
  /\ UNCHANGED <<release, preference, keyring, process, sandbox, container, probe>>

(* createNoNeedWorkModelHandle: creating the runtime or setting the key    *)
(* fails; or the key is set, and PI has the model or not.                  *)
OpenFails(r) ==
  /\ At(r, "opening")
  /\ handle' = [handle EXCEPT ![r] = None]
  /\ Throw(r, "MODEL_TEMPORARILY_UNAVAILABLE")
  /\ UNCHANGED <<release, preference, keyring, process, task, sandbox, container, probe>>

KeyRejected(r) ==
  /\ At(r, "opening")
  /\ handle' = Installed(r)
  /\ Goto(r, "unwinding")
  /\ UNCHANGED <<release, preference, keyring, process, task, sandbox, container, probe>>

Unwound(r) ==
  /\ At(r, "unwinding")
  /\ handle' = Forgotten(r)
  /\ Throw(r, "MODEL_UNAVAILABLE")
  /\ UNCHANGED <<release, preference, keyring, process, task, sandbox, container, probe>>

(* The handle is there; #performPreflight compares its identity with the   *)
(* binding it was made from.  The orchestrator goes on with what it read   *)
(* before: a PREPARING run gets a sandbox, unless it has one.              *)
Opened(r) ==
  /\ At(r, "opening")
  /\ handle' = Installed(r)
  /\ IF live[r].seen = "PREPARING" /\ sandbox[r] = None
     THEN Goto(r, "packing") /\ UNCHANGED task
     ELSE IF live[r].seen = "PREPARING" /\ sandbox[r].status = "DESTROYED"
     THEN Throw(r, "error") /\ UNCHANGED task
     ELSE IF live[r].seen = "PREPARING"
     THEN /\ task' = Prepared(r)
          /\ IF task[r].status \in Working
             THEN live' = [live EXCEPT ![r] = [Idle EXCEPT !.pc = "joining"]]
             ELSE Finally(r, task[r].status)
     ELSE /\ LET mode == IF live[r].seen = "EXECUTING" THEN "step" ELSE "plan"
             IN live' = [live EXCEPT ![r] = [Idle EXCEPT !.pc = "joining", !.mode = mode]]
          /\ UNCHANGED task
  /\ UNCHANGED <<release, preference, keyring, process, sandbox, container, probe>>

----------------------------------------------------------------------------
(* DockerProvider.createWorkspace: the project is packed, a container is   *)
(* created, started, seeded and asked whether it is ready.                 *)
PackFails(r) ==
  /\ At(r, "packing")
  /\ Throw(r, "error")
  /\ UNCHANGED <<serviceVars, process, task, sandbox, container, probe>>

ContainerCreated(r) ==
  /\ At(r, "packing")
  /\ \E c \in Containers :
       /\ container[c] = "unused"
       /\ container' = [container EXCEPT ![c] = "starting"]
       /\ live' = [live EXCEPT ![r] = [@ EXCEPT !.pc = "seeding", !.box = c]]
  /\ UNCHANGED <<serviceVars, process, task, sandbox, probe>>

SeedFails(r) ==
  /\ At(r, "seeding")
  /\ Goto(r, "discarding")
  /\ UNCHANGED <<serviceVars, process, task, sandbox, container, probe>>

(* Mutated form of Discard: a failed workspace is left behind.             *)
DiscardNothing(c) == UNCHANGED container

(* The container is removed by force; a failure to do so is ignored.       *)
Discard(c) == \E s \in {"gone", "lost"} : container' = [container EXCEPT ![c] = s]

Discarded(r) ==
  /\ At(r, "discarding")
  /\ Discard(live[r].box)
  /\ Throw(r, "error")
  /\ UNCHANGED <<serviceVars, process, task, sandbox, probe>>

(* prepareRun records the sandbox and the checkpoint; the row is read      *)
(* again.                                                                  *)
Seeded(r) ==
  /\ At(r, "seeding")
  /\ container' = [container EXCEPT ![live[r].box] = "ready"]
  /\ sandbox' = [sandbox EXCEPT ![r] = [id |-> live[r].box, status |-> "READY"]]
  /\ task' = Prepared(r)
  /\ IF task[r].status \in Working
     THEN live' = [live EXCEPT ![r] = [Idle EXCEPT !.pc = "joining"]]
     ELSE Finally(r, task[r].status)
  /\ UNCHANGED <<serviceVars, process, probe>>

----------------------------------------------------------------------------
(* createNoNeedWorkSession fails: the handle is disposed of there when PI  *)
(* was asked for a session or it has tools it should not have, and by the  *)
(* driver when it failed before or after.                                  *)
JoinFails(r) ==
  /\ At(r, "joining")
  /\ Goto(r, "leaving") \/ Throw(r, "error")
  /\ UNCHANGED <<serviceVars, process, task, sandbox, container, probe>>

SessionClosed(r) ==
  /\ At(r, "leaving")
  /\ handle' \in Disposals(r)
  /\ Throw(r, "error")
  /\ UNCHANGED <<release, preference, keyring, process, task, sandbox, container, probe>>

(* The session is bound to the run and the first request is sent.          *)
Joined(r) ==
  /\ At(r, "joining")
  /\ Goto(r, "asking")
  /\ UNCHANGED <<serviceVars, process, task, sandbox, container, probe>>

(* The provider streams text, thinking or a tool call.                     *)
OutputArrives(r) ==
  /\ At(r, "asking") /\ ~live[r].output
  /\ live' = [live EXCEPT ![r].output = TRUE]
  /\ UNCHANGED <<serviceVars, process, task, sandbox, container, probe>>

(* A message that ends with tool calls: their results are sent in the next *)
(* request of the prompt, and the failure noted before is forgotten.       *)
ToolsCalled(r) ==
  /\ At(r, "asking") /\ live[r].output /\ ~live[r].abort
  /\ live' = [live EXCEPT ![r] = [@ EXCEPT !.output = FALSE, !.earlier = TRUE]]
  /\ UNCHANGED <<serviceVars, process, task, sandbox, container, probe>>

(* A tool runs a command that takes too long: the timer of execute kills   *)
(* the container, and the workspace on its tmpfs is lost.  The row stays   *)
(* READY, the tool answers with 124, and the prompt goes on.  (The command *)
(* of an aborted prompt may be killed after it; no property tells.)        *)
CommandTimesOut(r) ==
  /\ At(r, "asking") /\ live[r].output
  /\ HasContainer(r) /\ container[sandbox[r].id] = "ready"
  /\ container' = [container EXCEPT ![sandbox[r].id] = "stopped"]
  /\ UNCHANGED <<serviceVars, process, task, live, sandbox, probe>>

(* The prompt returns.  The plan is committed, or the step is, and the     *)
(* loop reads the row again: the next step, the end of the last with the   *)
(* patch taken from the workspace, or a run that somebody has paused or    *)
(* cancelled.                                                              *)
PromptReturns(r) ==
  /\ At(r, "asking")
  /\ LET st == task[r].status
         becomes(to) == task' = [task EXCEPT ![r] = [@ EXCEPT !.resume = None, !.status = to]]
         asks == live' = [live EXCEPT ![r] = [Idle EXCEPT !.pc = "asking", !.mode = "step"]]
     IN \/ /\ live[r].mode = "plan" /\ CanTransitionTask(st, "EXECUTING")
           /\ becomes("EXECUTING") /\ asks
        \/ /\ live[r].mode = "plan" /\ ~CanTransitionTask(st, "EXECUTING")
           /\ becomes(st) /\ Throw(r, "error")
        \/ /\ live[r].mode = "step" /\ st = "EXECUTING"
           /\ becomes(st) /\ asks
        \/ /\ live[r].mode = "step" /\ st = "EXECUTING"
           /\ container[sandbox[r].id] = "ready"
           /\ becomes("SUCCEEDED") /\ Finally(r, "SUCCEEDED")
        \/ /\ live[r].mode = "step" /\ st # "EXECUTING"
           /\ becomes(st) /\ Finally(r, st)
  /\ UNCHANGED <<serviceVars, process, sandbox, container, probe>>

(* The plan is not there or refused; or the deadline has passed, the       *)
(* replans are used up, or the patch cannot be taken.                      *)
WorkFails(r) ==
  /\ At(r, "asking")
  /\ Throw(r, "error")
  /\ UNCHANGED <<serviceVars, process, task, sandbox, container, probe>>

(* The prompt ends with an error: the last message carries it, or prompt   *)
(* rejects and everything this prompt put out counts.  PI does not retry.  *)
PromptFails(r) ==
  /\ At(r, "asking")
  /\ \E e \in Failures, before \in BOOLEAN :
       /\ e = "aborted" => live[r].abort
       /\ Throw(r, Classify(e, live[r].output \/ (before /\ live[r].earlier)))
  /\ UNCHANGED <<serviceVars, process, task, sandbox, container, probe>>
----------------------------------------------------------------------------
(* A ModelBlockedError on a run that has not ended.  A recoverable one     *)
(* writes a checkpoint and pauses the run; when the user has paused it     *)
(* meanwhile, PAUSED -> PAUSED is no transition, and the catch throws.     *)
Blocked(r) ==
  IF ~Recoverable(live[r].fault)
  THEN /\ task' = [task EXCEPT ![r].status = "FAILED"]
       /\ Finally(r, "FAILED")
  ELSE /\ task' = PausedFrom(r)
       /\ IF task[r].status = "PAUSED"
          THEN live' = [live EXCEPT ![r] = [Idle EXCEPT !.pc = "disposing", !.fault = "rejected"]]
          ELSE Finally(r, "PAUSED")

(* The catch clause of TaskOrchestrator.run.                               *)
Catch(r) ==
  /\ At(r, "catch")
  /\ \/ /\ live[r].fault \in Reasons /\ ~Ended(r)
        /\ Blocked(r)
     \/ /\ live[r].fault = "error" /\ task[r].status # "PAUSED" /\ ~Ended(r)
        /\ task' = [task EXCEPT ![r].status = "FAILED"]
        /\ Finally(r, "FAILED")
     \/ /\ Ended(r) \/ (live[r].fault = "error" /\ task[r].status = "PAUSED")
        /\ Finally(r, task[r].status)
        /\ UNCHANGED task
  /\ UNCHANGED <<serviceVars, process, sandbox, container, probe>>

(* cleanupTerminalTask, of a run with a READY row: Docker removes the      *)
(* container...                                                            *)
ContainerRemoved(r) ==
  /\ At(r, "cleanup") \/ At(r, "sweeping")
  /\ HasContainer(r) /\ container[sandbox[r].id] \in {"ready", "stopped"}
  /\ container' = [container EXCEPT ![sandbox[r].id] = "gone"]
  /\ Goto(r, IF At(r, "cleanup") THEN "removed" ELSE "swept")
  /\ UNCHANGED <<serviceVars, process, task, sandbox, probe>>

(* ...and, once it has answered, the row says so.  When there is nothing to*)
(* remove, the removal fails or its answer is lost, the row stays as it is:*)
(* at most an event tells, and nothing tries again by itself.              *)
Recorded(r) ==
  \/ UNCHANGED sandbox
  \/ /\ At(r, "removed") \/ At(r, "swept")
     /\ sandbox' = [sandbox EXCEPT ![r].status = "DESTROYED"]

Cleaned(r) ==
  /\ At(r, "cleanup") \/ At(r, "removed")
  /\ Recorded(r)
  /\ Goto(r, "disposing")
  /\ UNCHANGED <<serviceVars, process, task, container, probe>>

(* The finally of TaskRunner.run disposes of the driver.  When the promise *)
(* is rejected, recordStartFailure fails a run that has not ended; when    *)
(* dispose itself fails, the entry in #active stays as well.               *)
Disposed(r) ==
  /\ At(r, "disposing")
  /\ handle' \in Disposals(r)
  /\ LET rejected == live[r].fault = "rejected" \/ handle'[r] # None
     IN task' = [task EXCEPT ![r].status = IF rejected /\ ~Ended(r) THEN "FAILED" ELSE @]
  /\ live' = [live EXCEPT ![r] =
                [Idle EXCEPT !.pc = IF handle'[r] = None THEN "idle" ELSE "zombie"]]
  /\ UNCHANGED <<release, preference, keyring, process, sandbox, container, probe>>

----------------------------------------------------------------------------
(* driver.cancel aborts the session's prompt; without a session, or        *)
(* between prompts, it does nothing.                                       *)
Aborted(r) == [live EXCEPT ![r].abort = At(r, "asking") \/ @]

(* POST /v1/tasks/:taskId/control: pause, cancel and resume.               *)
Pause(r) ==
  /\ process = "up" /\ Settled(r)
  /\ task[r] # None /\ task[r].status \in Working
  /\ task' = PausedFrom(r)
  /\ live' = Aborted(r)
  /\ UNCHANGED <<serviceVars, process, sandbox, container, probe>>

Cancel(r) ==
  /\ process = "up" /\ Settled(r)
  /\ task[r] # None
  /\ task' = [task EXCEPT ![r].status = IF Ended(r) THEN @ ELSE "CANCELLED"]
  /\ IF Inactive(r) THEN Goto(r, IF At(r, "swept") THEN "swept" ELSE "sweeping")
     ELSE live' = Aborted(r)
  /\ UNCHANGED <<serviceVars, process, sandbox, container, probe>>

Swept(r) ==
  /\ At(r, "sweeping") \/ At(r, "swept")
  /\ Recorded(r)
  /\ Goto(r, "idle")
  /\ UNCHANGED <<serviceVars, process, task, container, probe>>

(* TaskRunner.run gives back the promise of a run that is still active; a  *)
(* rejected one fails the run.                                             *)
Resume(r) ==
  /\ process = "up" /\ Settled(r)
  /\ task[r] # None /\ task[r].status = "PAUSED" /\ task[r].resume \in Working
  /\ LET row == [task[r] EXCEPT !.status = task[r].resume]
     IN \/ Inactive(r) /\ Begin(r, row)
        \/ /\ ~Inactive(r)
           /\ task' = [task EXCEPT ![r] = IF At(r, "zombie") THEN [row EXCEPT !.status = "FAILED"]
                                                            ELSE row]
           /\ UNCHANGED <<handle, live>>
  /\ UNCHANGED <<release, preference, keyring, process, sandbox, container, probe>>

----------------------------------------------------------------------------
(* POST /v1/models/probe/:profileId: ModelService.probe and                *)
(* probeNoNeedWorkModel, two bounded requests with one handle.             *)
ProbeBegins ==
  /\ process = "up" /\ probe = "idle" /\ handle[Probe] = None
  /\ DefaultUsable
  /\ \E p \in Profiles :
       /\ keyring[p] # None
       /\ handle' = [handle EXCEPT ![Probe] = NewHandle(ProbeSelection(p))]
  /\ probe' = "opening"
  /\ UNCHANGED <<release, preference, keyring, process, task, live, sandbox, container>>

ProbeOpens ==
  /\ probe = "opening"
  /\ \/ handle' = Installed(Probe) /\ probe' \in {"text", "unwinding"}
     \/ handle' = Forgotten(Probe) /\ probe' = "idle"
  /\ UNCHANGED <<release, preference, keyring, process, task, live, sandbox, container>>

ProbeUnwinds ==
  /\ probe = "unwinding"
  /\ handle' = Forgotten(Probe) /\ probe' = "idle"
  /\ UNCHANGED <<release, preference, keyring, process, task, live, sandbox, container>>

ProbeAnswered ==
  /\ probe \in {"text", "tool"}
  /\ probe' \in IF probe = "text" THEN {"tool", "closing"} ELSE {"closing"}
  /\ UNCHANGED <<serviceVars, process, task, live, sandbox, container>>

(* Mutated form of TimerFires: the second request is not bounded.          *)
FirstTimerFires == probe = "text"

(* The timer of runBoundedProbe aborts a request that takes too long.      *)
TimerFires == probe \in {"text", "tool"}

ProbeTimesOut ==
  /\ TimerFires
  /\ probe' = "closing"
  /\ UNCHANGED <<serviceVars, process, task, live, sandbox, container>>

(* A handle that cannot be disposed of turns the answer into a 500 and is  *)
(* dropped.                                                                *)
ProbeEnds ==
  /\ probe = "closing"
  /\ handle' = Forgotten(Probe) /\ probe' = "idle"
  /\ UNCHANGED <<release, preference, keyring, process, task, live, sandbox, container>>
----------------------------------------------------------------------------
(* SIGTERM: main.ts closes the app, which takes no more requests; the      *)
(* prompts are aborted and the promises of all active runs awaited.        *)
Shutdown ==
  /\ process = "up"
  /\ process' = "stopping"
  /\ live' = [r \in Runs |-> IF At(r, "asking") THEN [live[r] EXCEPT !.abort = TRUE]
                             ELSE IF At(r, "scheduled") THEN Idle ELSE live[r]]
  /\ UNCHANGED <<serviceVars, task, sandbox, container, probe>>

Gone ==
  /\ process' = "down"
  /\ live' = [r \in Runs |-> Idle]
  /\ handle' = [o \in Owners |-> None]
  /\ probe' = "idle"
  /\ UNCHANGED <<release, preference, keyring, task, sandbox>>

Exit ==
  /\ process = "stopping" /\ probe = "idle"
  /\ \A r \in Runs : live[r].pc \in {"idle", "zombie"}
  /\ Gone
  /\ UNCHANGED container

(* The process dies; a container it was preparing stays, unknown to all.   *)
Crash ==
  /\ process \in {"up", "stopping"}
  /\ Gone
  /\ container' = [c \in Containers |->
                     IF container[c] = "starting" THEN "lost" ELSE container[c]]

(* A release with another PI SDK is installed.                             *)
Install ==
  /\ process \in {"down", "failed"}
  /\ \E v \in Releases \ {release} : release' = v
  /\ process' = "down"
  /\ UNCHANGED <<preference, keyring, handle, task, live, sandbox, container, probe>>

(* createRuntimeServices: RecoveryService.scan reads the binding of every  *)
(* run that has not ended.  A run without one is paused; the schema of a   *)
(* binding admits the installed PI_SDK_VERSION alone, so another one makes *)
(* get throw, after some of the other runs have been scanned.  This is a   *)
(* start with the leases of the process before expired: a run that is still*)
(* leased is not looked at (WAIT_FOR_LEASE), and it is then the first call *)
(* of resumeWhenLeaseAvailable that throws, out of main.                   *)
Recoverables == {r \in Runs : task[r] # None /\ ~Ended(r)}
Unreadable == {r \in Recoverables : task[r].binding # None /\ task[r].binding.sdk # release}
Unbound == {r \in Recoverables : task[r].binding = None}

PausedUnbound(S) ==
  [r \in Runs |-> IF r \in S THEN [task[r] EXCEPT !.status = "PAUSED", !.resume = None]
                             ELSE task[r]]

BootFails ==
  /\ process = "down" /\ Unreadable # {}
  /\ process' = "failed"
  /\ \E S \in SUBSET Unbound : task' = PausedUnbound(S)
  /\ UNCHANGED <<serviceVars, live, sandbox, container, probe>>

Boot ==
  /\ process = "down" /\ Unreadable = {}
  /\ process' = "up"
  /\ task' = PausedUnbound(Unbound)
  /\ live' = [r \in Runs |-> IF r \in Recoverables \ Unbound
                             THEN [Idle EXCEPT !.pc = "scheduled"] ELSE Idle]
  /\ UNCHANGED <<serviceVars, sandbox, container, probe>>

(* resumeWhenLeaseAvailable, once the lease of the process before is free. *)
StartRecovered(r) ==
  /\ process = "up" /\ At(r, "scheduled")
  /\ \/ task[r].status \in Working /\ Begin(r, task[r])
     \/ task[r].status \notin Working /\ Goto(r, "idle") /\ UNCHANGED <<task, handle>>
  /\ UNCHANGED <<release, preference, keyring, process, sandbox, container, probe>>

----------------------------------------------------------------------------
Opening(r) == OpenFails(r) \/ KeyRejected(r) \/ Unwound(r) \/ Opened(r)
Preparing(r) ==
  PackFails(r) \/ ContainerCreated(r) \/ SeedFails(r) \/ Discarded(r) \/ Seeded(r)
Prompting(r) ==
  \/ JoinFails(r) \/ SessionClosed(r) \/ Joined(r)
  \/ OutputArrives(r) \/ ToolsCalled(r) \/ CommandTimesOut(r)
  \/ PromptReturns(r) \/ WorkFails(r) \/ PromptFails(r)
Ending(r) == Catch(r) \/ ContainerRemoved(r) \/ Cleaned(r) \/ Disposed(r) \/ Swept(r)
Control(r) == Create(r) \/ Pause(r) \/ Cancel(r) \/ Resume(r)
Probing ==
  ProbeBegins \/ ProbeOpens \/ ProbeUnwinds \/ ProbeAnswered \/ ProbeTimesOut \/ ProbeEnds

Request == process = "up" /\ ServiceRequest /\ UNCHANGED hostVars

Next ==
  \/ \E r \in Runs :
       Opening(r) \/ Preparing(r) \/ Prompting(r) \/ Ending(r) \/ Control(r) \/ StartRecovered(r)
  \/ Probing \/ Request
  \/ Shutdown \/ Exit \/ Crash \/ Install \/ BootFails \/ Boot

Spec == Init /\ [][Next]_vars

(* What goes on by itself in the process: promises are settled, timers     *)
(* fire, an aborted prompt ends and Docker answers a removal.  Nothing is  *)
(* assumed of providers, users, seeding or the process staying up.         *)
FairSpec ==
  /\ Spec
  /\ WF_vars(ProbeOpens) /\ WF_vars(ProbeUnwinds)
  /\ WF_vars(ProbeTimesOut) /\ WF_vars(ProbeEnds)
  /\ \A r \in Runs :
       /\ WF_vars(Catch(r)) /\ WF_vars(Cleaned(r)) /\ WF_vars(Disposed(r))
       /\ WF_vars(PromptFails(r) /\ live[r].abort)

----------------------------------------------------------------------------
(* An API key is in memory only for a driver that is active or a probe     *)
(* under way, or because its removal failed.                               *)
KeysHaveHolders ==
  /\ \A r \in Runs : HasKey(r) => ~Inactive(r) /\ (At(r, "zombie") => handle[r].stuck)
  /\ HasKey(Probe) => probe # "idle"

(* Every request of a run goes to the model the run was created with, with *)
(* the key of its own handle, whatever the default has become since and    *)
(* however often the runtime was restarted or upgraded between.            *)
RequestsFollowBinding ==
  \A r \in Runs : At(r, "asking") =>
    /\ HasKey(r) /\ ~handle[r].stuck
    /\ handle[r].selection = task[r].binding.selection
    /\ task[r].binding.sdk = release

(* A model is asked only for a run with a container that was prepared for  *)
(* it and that nobody has removed, or is removing: no cleanup, of a cancel,*)
(* an earlier coroutine or an earlier process, meets a prompt.  The        *)
(* workspace in it may have been lost to a command that timed out.         *)
PromptsHaveSandbox ==
  \A r \in Runs : At(r, "asking") =>
    HasContainer(r) /\ container[sandbox[r].id] \in {"ready", "stopped"}

(* Every container Docker has is known to the driver that prepares it or   *)
(* to the row of its run, unless the process died while it was prepared or *)
(* its removal failed.  A DESTROYED row names one that is not there, and a *)
(* READY row does so only of a run that has ended: its cleanup was         *)
(* interrupted between the removal and the row.                            *)
ContainersAreKnown ==
  /\ \A c \in Containers :
       /\ container[c] = "starting" => \E r \in Runs : live[r].box = c
       /\ container[c] \in {"ready", "stopped"} =>
            \E r \in Runs : sandbox[r] = [id |-> c, status |-> "READY"]
  /\ \A r \in Runs : sandbox[r] # None =>
       IF sandbox[r].status = "READY"
       THEN \/ container[sandbox[r].id] \in {"ready", "stopped"}
            \/ container[sandbox[r].id] = "gone" /\ Ended(r)
       ELSE container[sandbox[r].id] = "gone"

(* The loop takes a run whose last step is done over VERIFYING at once.    *)
Follows(from, to) ==
  to = from \/ CanTransitionTask(from, to) \/ (from = "EXECUTING" /\ to = "SUCCEEDED")

(* Whoever writes the row of a run, the coroutine that drives it, a        *)
(* control, a failed start or recovery, and whatever it had read before:   *)
(* the status follows the table, a run that ended stays as it ended, and   *)
(* the model it was created with is never another.                         *)
RunsFollowLifecycle ==
  [][\A r \in Runs :
       IF task[r] = None
       THEN task'[r] # None => task'[r].status = "PREPARING"
       ELSE /\ task'[r] # None
            /\ task'[r].binding = task[r].binding
            /\ Follows(task[r].status, task'[r].status)]_vars

(* A probe comes to an end, whatever the provider does.                    *)
ProbeIsBounded == (probe # "idle") ~> (probe = "idle")

(* A cancel that aborts a prompt gets the key of the run out of memory.    *)
CancelReleasesKey ==
  \A r \in Runs :
    (task[r] # None /\ Ended(r) /\ live[r].abort) ~> (HasKey(r) => handle[r].stuck)

----------------------------------------------------------------------------
(* What the design and a test say, and the code does not keep.             *)

(* No binding in the database keeps the runtime from starting, whatever    *)
(* release wrote it (recovery-service.ts).                                 *)
RuntimeStarts == process # "failed"
=============================================================================
