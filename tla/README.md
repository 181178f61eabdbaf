# NoNeedWork in TLA+

NoNeedWork is a local runtime that drives a coding agent: a user submits a task, the
runtime prepares a container with a copy of the repository, asks a model for a plan,
executes the plan step by step through audited tools, verifies the result and exports
a patch. Everything it knows is in one SQLite database, so that a task survives a
crash of the process, an interrupted connection to the model and a pause by the user.

These modules state what the task engine guarantees and check it with TLC (small
instances, every interleaving) and TLAPS (every value of the constants). The sources
are under `src/`; most of what is modelled is in `src/apps/runtime/src/modules/`.

## The system

| Component | State | Operations | Talks to | What is hard | Correct when |
|---|---|---|---|---|---|
| State machines (`tasks/*-state-machine.ts`) | two constant tables | `canTransition…`, `assert…` | everything that writes a status | the same table serves the engine and the user | every write of a status is a move of the table |
| Run ledger (`storage/repositories/task-run-`, `task-`, `run-event-repository.ts`) | `task_runs`, `tasks.status`, `run_events` | create, transition (compare-and-swap), checkpoint, incrementReplan, bindPiSession, append | every component that holds a `TaskRun` object | objects read before an await are written from after it; two processes may share the file | a stale object never overwrites; the log alone tells the status |
| Task orchestrator (`tasks/task-orchestrator.ts`) | none of its own: local variables across awaits | run, prepareRun, planRun, executeReadyStep, replanRun, verifyRun, finishRun, cleanupTerminalTask | ledger, plans, tools, sandbox, artifacts, driver | suspended at a dozen awaits, resumed in the middle after a crash | one step at a time, in dependency order; SUCCEEDED is earned; the lease covers the work |
| Task runner and controls (`tasks/task-runner.ts`, `task-service.ts`, `api/tasks.ts`) | `#active`: run → promise, driver | start, cancelActive, recordStartFailure; pause, resume, cancel | orchestrator, ledger, sandbox | requests arrive while the orchestrator is suspended | a paused or cancelled run stays so until the user says otherwise |
| Recovery (`tasks/recovery-service.ts`, `main.ts`) | the decisions of the scan, timers | scan, resumeWhenLeaseAvailable | ledger, operations, runner | what was in flight is unknown; the lease of the dead process still holds | unknown outcomes are not repeated; every other run goes on |
| Run lease (`tasks/run-lease.ts`) | `lease_owner`, `lease_expires_at` | acquire, renew, release | orchestrator, recovery | clocks, a suspended owner | one driver of a run at a time |
| Plan steps (`planning/`, `plan-step-repository.ts`) | `plan_steps` | replace, promoteReady, transition | orchestrator | replans and restarts in the middle of a plan | no step before its dependencies, none twice |
| Plan validation (`planning/plan-parser.ts`) | none | parse, validate | planner | duplicate keys, cycles | an accepted plan has a schedule |
| Tools and their audit (`tools/`, `tool-operation-repository.ts`) | `tool_operations` | dispatch, markStarted / Finished / Unknown, listUnknown, countCapabilities | sandbox, artifacts, ledger | the effect and its record are not atomic | no effect without a record; budgets hold |
| Artifact store (`artifacts/`) | files and `artifacts` rows | put, read, verify | orchestrator, audit | a file and a row are two writes | a row implies its file with that content |
| PI task driver (`tasks/pi-task-driver.ts`) | the session, the handle, the mode | preflight, createPlan, executeStep, cancel, dispose | PI adapter, tools, ledger | aborts at each await; classification of failures | every failure is classified; the key goes when the driver does |
| PI adapter (`packages/pi-adapter`) | a handle and its API key, a session | create a handle, create a session, classify, probe | model provider | a provider that never answers, a disposal that fails | a probe ends; what fails on the way is given back |
| Model service and bindings (`models/`) | `model_preferences`, `task_run_models` | select, bind, createHandle, probe | driver, API, recovery | default, key and catalogue change while runs exist | a run keeps the model it was created with |
| Credentials (`credentials/`) | one keyring entry per profile | set, get, delete | model service | may refuse to be read at any time | a request carries the key of its own handle |
| Sandbox provider (`sandbox/`) | containers, `sandboxes` rows | createWorkspace, exec, removeSandbox | orchestrator, tools | time-outs, leaks between container and row | a container is known to somebody who can remove it |
| Event stream and its clients (`api/events.ts`, `packages/client-sdk`, `task watch`, `trace export`) | cursors on both sides | list, stream, reconnect, page | ledger | delivery across reconnects, a log that grows and is trimmed | every event once, and the displayed status is current |
| Runtime registry and discovery (`main.ts`, `runtime-registry.ts`, `apps/cli/src/client/runtime-discovery.ts`) | `runtime.json`, launch tokens | publish, remove, discover, ensure, start, stop | CLI, desktop | several runtimes, one file; pids and ports come back | a client ends, with a live runtime or an error |
| Storage and migrations (`storage/`) | schema version and tables | migrate, transaction | everything | two releases migrate one file; a crash in a migration | tables and version agree; nobody serves without its tables |
| Approvals, workers, evaluations | tables | repositories only | nothing in this version | – | – |
| CLI and desktop shell (`apps/cli`, `apps/desktop`) | none that outlives a command; the sidecar and the window's connection | HTTP requests, a sidecar | runtime | the window may be ready before or after the sidecar | the window learns of the sidecar |

Node executes one piece of JavaScript at a time, and the SQLite calls are synchronous:
within a process, the unit of atomicity is the code between two awaits. What makes the
engine hard is everything that can happen at an await: an HTTP request that pauses,
resumes or cancels the run, a timer, the failure of what is awaited, and, at any point
whatever, the death of the process, after which only the database and the container
are left.

## The modules

```
StepGraph                 what a plan is, to the modules that handle one
PlanExecution             abstract: what a run promises through its steps
TaskStatus                the two transition tables and the resumable statuses
  TaskLifecycle           abstract: what a run promises through its status
  RunLedger               the rows of one run and any number of writers
    RunLedger_proofs      theorems
    EventStream           the readers of its log: streams, watch, export
      MCEventStream       instance for TLC, of the writers too
      EventStream_proofs  theorems (on top of RunLedger_proofs)
  TaskOrchestrator        one run: orchestrator, runner, controls, crashes, recovery
    MCTaskOrchestrator    instances for TLC
    TaskOrchestrator_proofs   theorems
  ModelService            defaults, keys, bindings, handles, classification
    TaskSession           the driver of a run with its handle, session and container; the probe
      MCTaskSession       instances for TLC
      TaskSession_proofs  theorems
PlanValidation            the search that accepts or refuses a plan
  MCPlanValidation        instance for TLC
  PlanValidation_proofs   theorems
RunLease                  the lease of one run among several live processes
  MCRunLease              instance for TLC
  RunLease_proofs         theorems
AuditedEffects            abstract: what the record of tool calls promises
ArtifactStore             put: temporary file, rename, row
  ToolAudit               dispatch around the container, its rows, turns and verification
    MCToolAudit           instances for TLC
    ToolAudit_proofs      theorems (of ArtifactStore too)
RuntimeDiscovery          processes, migrations, registry, CLI, foreground command, desktop
  MCRuntimeDiscovery      instance for TLC
  RuntimeDiscovery_proofs theorems
```

`RunLedger` and `TaskOrchestrator` each contain `INSTANCE TaskLifecycle` and are shown
to implement it (`ImplementsLifecycle`): the first against any writers that follow the
repositories' interface, the second for the code that actually writes. `TaskOrchestrator` also
implements `PlanExecution`, and `ToolAudit` implements `AuditedEffects`.
`PlanValidation` and `TaskOrchestrator` share `StepGraph`: the plans one stores are those the other
assumes. `EventStream` composes the readers of the log with its writers,
`ToolAudit` the artifact store with the audit, `TaskSession` the model service with the
driver and the container.

### TaskStatus, TaskLifecycle

The tables of `task-state-machine.ts` and `step-state-machine.ts` as functions from a
status to the set of its successors. `TaskLifecycle` is the abstract specification: a
run is `CREATED` and then only makes moves of the table; in particular nothing leaves
`SUCCEEDED`, `FAILED` or `CANCELLED`.

### StepGraph, PlanExecution

A plan is a function from the positions of its steps to the sets of positions they wait for
(`IsPlan`); it is schedulable if each part of it has a step that waits for nothing in that part.
`PlanExecution` is the second abstract specification of a run, for who looks at its steps:
plans are adopted whole, one step at a time is executed, when what it waits for is done
and once in a plan, and after success nothing moves. The orchestrator's `done`, `running` and
`failed` are the steps with that status in the rows; a step that a crash left `RUNNING` remains
`running` until the next plan is adopted, and is never executed again.

### RunLedger

| Variable | Code |
|---|---|
| `run` | the row of `task_runs`: status, `state_version`, `replan_count`, `checkpoint_json.resumeStatus`, whether `finished_at` is set |
| `taskStatus` | `tasks.status` |
| `events` | the rows of `run_events`: sequence, and `from`/`to` of the status events |
| `snapshot[w]` | the `TaskRun` object a piece of code holds since its last read |

Writers are the pieces of code that hold a row across an await: the orchestrator, a
control handler, `recordStartFailure`, recovery, in one process or several. A
transition is decided on the snapshot (`AssertedTransition`, or `RecordStartFailure`,
which asserts nothing) and written by the compare-and-swap (`Swap`); a mismatch is
`StateConflict`. `Checkpoint`, `IncrementReplan` and `BindPiSession` are
unconditional. A repository call is one step: it is a transaction, or a single
`UPDATE`, or `append`'s two statements, of which the second fails on its primary key
if another process was faster.

### TaskOrchestrator

| Variable | Code |
|---|---|
| `status`, `resume`, `replans` | the row of `task_runs` |
| `plan`, `steps` | `plan_steps`: dependencies and statuses by position |
| `orphan` | an operation nobody awaits is `OPERATION_STARTED` or `UNKNOWN_OUTCOME` |
| `sandbox`, `exported` | the row of `sandboxes`; whether the final artifacts are stored |
| `lease` | free, held by this process, or left by one that died |
| `pc`, `cur`, `seen`, `why` | where the coroutine of `TaskRunner.run` is, the step it executes, the row `details` holds across the preflight, how the `try` block ended |
| `scheduled`, `cleaner` | a pending `resumeWhenLeaseAvailable`; a control that is removing the sandbox |

A value of `pc` in `Awaits` is an `await` of the code: user controls (`Cancel`,
`Pause`, `Resume`, `CleanerDone`) and timers (`ScheduledStart`) are enabled there. A
value in `Segments` lies between two writes of one synchronous segment, where only a
crash can fall. Each action is the code from one such point to the next write or
await, with all of its early returns and throws: `Begin` … `Reread` are lines 80–119 of
`run` with `prepareRun`; `PlanMade` … `PlanCommitted` are `planRun` and, through
`ReplanCounted`, `replanRun`; `StepsPromoted` … `StepRejected` are `executeReadyStep`;
`Settle` … `FinishingDone` the end of the loop, `verifyRun` and `finishRun`; `Catch`,
`Blocked`, `Finally`, `CleanupDone`, `Disposed` the catch and finally clauses of the
orchestrator and of the runner. `Start` is `TaskRunner.start` with the beginning of
`run`. `Crash`, `CrashInPause`, `LeaseExpires` and `Restart` are the life of the
process and the scan of `RecoveryService`.

What is abstracted:

* one live runtime process; a foreign lease is one left by a dead process, and a start
  it refuses (driver made and disposed of) changes nothing. Several live writers are
  `RunLedger`'s subject;
* time: a deadline may be found exceeded wherever `assertWithinDeadline` is called, a
  dead process's lease expires at some point;
* the model and its tools: a turn makes any number of side-effecting calls one after
  the other, and ends, fails, or is blocked recoverably or not. `driver.cancel` has no
  effect of its own beyond that freedom. Read-only tools change nothing;
* several verification commands are one `command`, which may pass, fail or be unknown;
  the artifacts of `verifyRun` are one await;
* an `INTENT` row whose start was never recorded is not represented: nothing reads it;
* a run has its model binding (only databases older than migration 002 hold others);
* a graceful shutdown is aborted turns followed by a crash;
* plans are the constant `Plans`: any plan that validation lets through, which `PlanValidation`
  shows can be carried out to its end.

### RunLease

`TaskOrchestrator` has one live process; `RunLease` has any number of them on one
database, and a clock.

| Variable | Code |
|---|---|
| `clock` | `Date.now()`, the same for all processes of the machine |
| `owner`, `expires` | `task_runs.lease_owner` and `lease_expires_at` (none: 0) |
| `phase[p]` | where process `p` is: the recovery scan, a start, inside `run`, its renewal |
| `at[p]`, `last[p]` | the clock it computed its pending statement from; when its timer was armed, or fired last |
| `seen[p]` | the row `RecoveryService.scan` read |

A statement is atomic; between reading the clock (or the row) and the statement other
processes run, for at most `MaxWait`: `busy_timeout` is 5 s. `MaxLate` is how late the
interval may fire. `Tick` is urgent: time does not pass while a process is late.
`Decide` and `Reclaim` are `RecoveryService.recover` up to `releaseLease`; `Acquire` is
`acquireLease` with `RunLeaseUnavailableError`. The expiry is computed from the clock read
before the statement, the timer is armed when the statement has returned
(`task-orchestrator.ts:87-90`), so that the first renewal comes up to `MaxWait` later than the
period after that clock; the later ones run from the callback before (`Works`). `Renew` ignores
what `renewLease` returns, as the code does; `Finish` and `Release` are the finally clause. `Die` is
a death of any kind, also by the `SQLITE_BUSY` a renewal throws inside the timer's callback,
which nothing catches. Left out: a release that gives up on a busy database, after which a
living process has a lease it does not use until it expires.

### ArtifactStore, ToolAudit, AuditedEffects

`ArtifactStore` has the steps of `put` (open a temporary file, write and sync, rename, insert
the row), each of which may fail or be the last; contents with equal digests share a file.
`ToolAudit` instantiates it for the results of tool calls and composes its steps with
those of `dispatch`.

| Variable | Code |
|---|---|
| `state`, `capability`, `resultArtifact` | the rows of `tool_operations`, by tool call id |
| `stage` | where the coroutine of `ToolAudit.dispatch` is |
| `putting`, `content`, `blob`, `artifact` | the put of the result: its progress, its bytes, the files, the rows of `artifacts` |
| `proc`, `effects`, `timedOut`, `container` | the process in the container, its effects on the workspace, the timer of `execute`, the container and a kill under way |
| `checkpoint` | the operation that the last checkpoint of the audit names |
| `phase`, `checks`, `committed` | the caller: a turn of the model, the verification commands so far, what was on record at the last commit of a step |

`CreateIntent` and `MarkStarted` are one synchronous segment (`Quiet`) which only a death
divides. `ExecStarts`, `ExecThrows`, `StreamEnds`, `StreamBreaks`, `Timeout` are `DockerProvider.execute`: the
process outlives the connection and the runtime, its output may be closed before it exits,
its container may be killed by another call's timer. `Storing`, `Mark`, `Checkpoint`, `Reject`
are the rest of `dispatch`. `ModelCalls` is `PiTaskDriver.#dispatch`; PI may run the calls of a message
together. `TurnEnds`, `Verify`, `VerificationThrows`, `StepEnds` are `executeReadyStep` from the turn on. `AuditedEffects` says what
remains of it for everybody else, and what `TaskOrchestrator` uses as `orphan`: a fate (unseen, pending,
known, unknown) that only advances, and an effect that comes after the record, once.

Abstracted: the arguments and texts of a tool (a result is ok, failed or unknown; equal
outcomes have equal digests, which makes collisions more frequent than they are); the
two commands of `git_diff` are one process; read-only tools; the death of the machine (a
rename that is lost although the row that follows it is durable).

### EventStream

| Variable | Code |
|---|---|
| `retained` | the least sequence left in `run_events` (`RunEventRepository.bounds`) |
| `reader[r]` | the client: what it does, the cursor it will reconnect or page with, the status it displays |
| `sent[r]` | `cursor` in the closure of the stream's handler in `api/events.ts` |
| `wire[r]` | frames sent on the socket and not yet handled |
| `shown[r]` | the sequences the client has handled, or that a snapshot it handled stands for |

`Connect` is the handler with its first flush, `Flush` the interval's callback, `Deliver` the
client's `onFrame`, `Disconnect` a lost socket with all that was in flight. `StartPolling`,
`WatchPage`, `WatchDetails` and `ExportPage` are the two commands that page. `Write` is any
step of `RunLedger`: the log grows between any two of these. Nothing under `src/` trims
events; `Trim` is the retention the expired-cursor branch and its test are written for.
A retention that removed rows an open stream has not yet sent would defeat the stream,
so `Trim` does not. A command that has returned stays at `watched` or `exported`, so that a
property can speak of what it returned with: a watch tests `tasks.status` after its page, an
export stops at a page that is short. Abstracted: the content of an event but its
status; `--once`, with which a watch returns after one page whatever the status is.

### PlanValidation

| Variable | Code |
|---|---|
| `plan`, `budget` | the parsed plan and the run's budget, any the schema admits |
| `pc` | where `PlanService.create` is |
| `stack`, `left` | the calls of `visit` that have not returned, and the dependencies each still has to follow |
| `visiting`, `visited` | the two sets of `validatePlan` |
| `rows` | `plan_steps` of the run: old rows, or those `replaceForRun` inserted |

The recursion is made explicit so that each call and return is a step; the order of keys and
dependencies is left open, which covers every order a plan may list them in. Texts
that do not parse are refused before `Init`.

### ModelService, TaskSession

| Variable | Code |
|---|---|
| `release` | the installed `PI_SDK_VERSION` with the catalogue it pins |
| `preference`, `keyring` | the row of `model_preferences`; the entries of the keyring |
| `handle[o]` | the model handle of a run's driver or of the probe: its identity, whether the key is set, whether its disposal has failed |
| `process` | the runtime: up, shutting down, down, or failed to start |
| `task[r]` | the run's row (status, `resumeStatus`) and its row in `task_run_models` |
| `live[r]` | the coroutine of `TaskRunner.run`: `pc` where it waits, `seen` the row held across the preflight, `mode` and `output`/`earlier` of `PiTaskDriver`, `abort`, the `fault` thrown, the container it is preparing (`box`) |
| `sandbox[r]`, `container[c]` | the row of `sandboxes`; what Docker has: nothing yet, a container being prepared, ready, stopped by a kill, gone, or lost from sight |
| `probe` | where `POST /v1/models/probe/:profileId` waits |

`ModelService` has the selections, the refusals of `createHandle`, the handles and the
classification; `TaskSession` drives them. `Begin` is `TaskRunner.start` to the first await;
`OpenFails` … `Opened` the creation of a handle; `PackFails` … `Seeded` `createWorkspace` and
the rest of `prepareRun`; `JoinFails` … `Joined` the session; `OutputArrives` … `PromptFails`
the prompts, and `WorkFails` what else ends them: a plan that is refused, a deadline, a patch
that cannot be taken. `CommandTimesOut` is the timer of `execute`, which kills the container
under a prompt; its workspace is lost, its row stays `READY`, and the prompt goes on. `Catch`,
`Cleaned`, `Disposed` are the catch and finally clauses of orchestrator and runner.
`cleanupTerminalTask` is two steps with an await between, the container's removal
(`ContainerRemoved`) and the row's `DESTROYED` (`Recorded`, part of `Cleaned` and of a control's
`Swept`): the process may die between them, and the removal may be made though its answer is an
error. `Pause`, `Cancel`, `Resume`, `Swept` are the controls, `Shutdown`, `Exit`, `Crash`, `Install`,
`Boot`, `BootFails`, `StartRecovered` the life of the process and of its release. `BootFails` is
a start when the leases of the process before have expired; within their 30 s the scan answers
`WAIT_FOR_LEASE` without reading the binding, and it is then the first call of
`resumeWhenLeaseAvailable` that throws, out of `main`, whose server already listens. What
`TaskOrchestrator` has in detail (plans, steps, tools, leases) is here one prompt that plans and
one or more that execute; what it leaves open (how a turn fails, what a handle or a
container is) is here in detail. Selection, key and classification are data; whether a
binding was the default or an override is a column nothing reads.

### RuntimeDiscovery

| Variable | Code |
|---|---|
| `runtime[i]` | a runtime process and where its `main` waits: its release, the next migration, pid, port, whether it has printed its handshake |
| `schema`, `draft` | the committed version and tables; the open transaction of a migration |
| `registry` | whose handshake `runtime.json` holds |
| `cli[c]` | where `ensureRuntime` waits, the handshake it tries, whether it has spawned, whether its deadline has passed |
| `start` | where `nw runtime start` waits, and its child |
| `shell`, `window` | the desktop's `RuntimeState` and sidecar; the effect of `App` and what it shows |

An instance is its launch token, which never comes back; pids and ports do. `Opens` reads
the version outside any transaction, and `MigrationBegins`, `MigrationRuns`,
`MigrationCommits` are one migration, so that another process of another release may have
migrated between the two. `Listens`, `Publishes`, `Announces` and `Terminates`,
`ReadsRegistration`, `RemovesRegistration` are the start and the end of `main`; `Crashes` may
fall anywhere. A health request is answered by the process that has the port, if the token is
its own. Abstracted: the interval of the polls, the file's permissions, the content of answers.

## The runs

| Run | Instance | Shows |
|---|---|---|
| `ledger` | 2 symmetric writers and a reader, 2 versions, pages of 2 | `VersionIdentifiesRow`, `DecisionsAreCurrent`, `LogTellsStatus`, `ImplementsLifecycle` of the writers; `NothingMissed`, `NothingRepeated`, `ViewIsCurrent`, `CommandsFinish` of the reader |
| `orchestrator` | six plans of one to three steps, 2 replans, with fairness | `StuckMeansFailed`, `SuccessIsEarned`, `LeaseCoversWork`, `ImplementsLifecycle`, `ImplementsPlanExecution`, `CommitsKnownOutcomes`, `RunEnds`, `InterruptedRunResumes` |
| `lease` | 3 symmetric processes, a lease of 7, renewed every 2, waits and lateness of 1 | `OneDriver`, `DriverHoldsLease` |
| `tools` | 2 symmetric calls of a write and of a command | `RowsAreBacked`, `OkMeansDone`, `OutcomeIsOnFile`, `CheckpointIsStable`, `CommittedAreKnown`, `ImplementsAuditedEffects` |
| `planning` | every plan of up to three steps over three keys, two budgets | `StoredPlansSchedule`, `RefusalsAreJust`, `ValidationEnds` |
| `models` | a task and the probe, one profile, two releases of which the second drops a model, one container, with fairness | `RunsFollowLifecycle`, `KeysHaveHolders`, `RequestsFollowBinding`, `PromptsHaveSandbox`, `ContainersAreKnown`, `ProbeIsBounded`, `CancelReleasesKey` |
| `discovery` | two runtimes, a CLI, and the foreground command or the desktop; the CLI's release has two migrations, the desktop's one; with fairness | `MigrationsAreOrdered`, `SchemaIsWhole`, `ServesOnItsTables`, `EnsureEnds`, `StopEnds`, `DesktopBecomesReady` |
| `pause_holds`, `pause_is_resumable`, `unknown_outcome` | two plans, 1 replan | statements of documents and tests that the orchestrator does not keep (below) |
| `write_budget` | as `tools`, a budget of 1 | a statement of the design on budgets (below) |
| `runtime_starts` | as `models` | a statement of the design on upgrades (below) |

Why the bounds are enough. *Ledger*: a lost update takes two writers, one of them stale;
two versions are a read, a foreign write and a stale write; with the notes that change no
status the log grows past a page of 2, so that a page is full, short and empty, a cursor expires,
and a connection is lost before, in and after a batch. *Orchestrator*: the plans include
independent steps, a chain, a chain against the order of positions, a fork and a plan
whose last position comes first; two replans let a replan follow a replan and meet the
budget; crashes, restarts and controls are not bounded at all. *Lease*: three processes are a
driver, a recovery scan and a third that acquires what the scan released; 16 ticks are two
leases and a renewal; 7 is the least duration with renewals in time for the other constants,
which is where the races are (with 6, TLC finds a driver without its lease). *Tools*: two calls are a call of an aborted turn beside a
verification command, two puts of equal bytes, a kill that strikes the other call. *Planning*:
three keys give cycles of every length up to three, with and without a way in, and a
key that no step has. *Models*: what a run holds is its own, so that one run with the probe is
where its races are; a run has one container at a time, and a second only lets it prepare
once more after a preparation that failed or was cut off by a crash (the safety properties hold
with two as well; with fairness that instance takes too long to be one of the runs); two
releases are an upgrade and a return. *Discovery*: two processes
are the second migrator, the second publisher and the second holder of a port; two
migrations let one process die between them and let a release be older than the
schema. The theorems hold for any number of all of these.

Every constant has its value from the `.cfg`. Three bounds are not in the code:
`MaxVersion` (`Room` in the guards of `RunLedger`), `MaxTime` (`Tick` of `RunLease`) and
`MaxInstances` (the processes `RuntimeDiscovery` may spawn). Deadlock is checked in every run
but `lease`, `planning` and `discovery`, which may really stop: the processes are all dead, the
plan is stored or refused, every client has ended.

### Fairness

*Orchestrator*, `FairSpec`: whatever the coroutine awaits settles (weak fairness of
`Coroutine`: the code puts time-outs on containers and probes, and Node runs the
continuation of a settled promise); a model that may always call another tool ends its
turn at some point (strong fairness of the end of the turn: the provider's context and
output limits end it); a lease that nobody renews expires, and the timer of
`resumeWhenLeaseAvailable` fires (weak fairness). Users, crashes and restarts are never
forced. `RunEnds` then says the loop of replans terminates, which rests on
`incrementReplan` being committed before the planner is asked again;
`InterruptedRunResumes` that a run found with a dead process's lease is driven again.

*PlanValidation*: `validatePlan` is synchronous code that goes on (weak fairness of `Next`);
`ValidationEnds` is the termination of its recursion.

*TaskSession*, `FairSpec`: the steps of a probe, among them its timer, the catch clause, the
cleanup, the disposal, and the end of a prompt that was aborted. Nothing is assumed of a
provider's answers, of users, of the seeding of a workspace or of the process staying
up. `ProbeIsBounded` thus rests on the timer alone, `CancelReleasesKey` on the abort.

*RuntimeDiscovery*, `FairSpec`: the steps of a CLI and its deadline, the kill after five
seconds, and the events between shell and window. A runtime is promised nothing: it may hang
wherever it is. A health request is taken to be answered or refused; the code puts no
time-out on it.

## The proofs

The proof modules prove their theorems for every value of the constants, from the
named assumptions of the modules: `None` is none of the values it stands beside; every plan in
`Plans` has a finite, non-empty set of positive positions as its domain and its
dependencies among them; `MaxReplans`, `MaxVersion` and the times of `RunLease` are naturals,
and a statement waits no longer than a renewal period (5 s, 10 s); `PageLimit` and
`MaxSteps` are at least 1, and budgets are pairs of naturals; a release lists every profile's
default model (`CatalogAssumption`; `modelsFor` refuses another); the owners of handles
are the runs and the probe; the releases of runtimes are among `1 .. LatestSchema`. Acyclicity
of plans is not assumed, and not needed for the safety of the orchestrator, with one exception:
`NeverStuck` has the hypothesis that every plan in `Plans` is schedulable, which is what
`StoredUsable` proves of the plans that `validatePlan` lets through (`StoredPlansAreUsable`).

Every safety property of a passing run is a theorem. The runs list the strongest properties only;
what is implied by them, or only of interest for a proof, is a theorem without a run:
the types of the modules; `RowsAgree`, `LogIsDense`; `AtMostOneRunning`, `StepsFollowDependencies`,
`StepsFollowTable`; `LeaseIsShort`; `HandledInOrder`; `StoredPlansAreUsable`; what two abstract
specifications promise, and with the refinement the detailed ones (`DoneFollowsPlan`,
`SuccessIsFinal`, `EffectsAreRecorded`, `FatesAreFinal`); and the safety half of liveness (below).

**RunLedger_proofs.** The inductive invariant is `TypeOK`, `RowsAgree`,
`VersionIdentifiesRow`, `LogTellsStatus`, and `\E n : Dense(n)`, which makes the maximum
of the sequences (`LatestSequence`, a `CHOOSE`) computable. All writes but `Read`,
`StateConflict` and `AppendNote` have the shape `Rewritten` (the version grows by one),
for which the version argument is made once. `SwapMoves` is the heart of the
refinement: the assertion is made on the snapshot, and the compare-and-swap says the
snapshot's status is the row's. `CurrentDecisions` is the same for all columns: whoever moves the
status holds the row as it is, although the swap compares two of its columns only. Theorems:
`TypeCorrect`, `TablesAgree`, `OptimisticLock`, `CurrentDecisions`, `DenseLog`, `FaithfulLog`,
`LedgerImplementsLifecycle`.

**TaskOrchestrator_proofs.** None of the properties is inductive. The conjuncts
of `IInv` say what the code knows where it is:

* `BeginInv`, `SeenInv`: `run` begins only with an active status; the row held across
  the preflight is current unless a control has written, which is what lets the
  compare-and-swap on line 129 be trusted;
* `PrepareInv`: whatever a user does during the preparation, the run read again at
  line 109 is not `EXECUTING` with an old plan;
* `RunningInv`: while a step is executed it is the only one `RUNNING`; elsewhere under
  a plan in force none is; and one left by a crash is alone;
* `LateInv`: from `VERIFYING` on, through a pause and a resume and the erasure of the
  checkpoint, the plan is complete and is never made again;
* `DoneInv`: artifacts precede the status, and nothing drives a run that `SUCCEEDED`;
* `KnownInv`: from the end of a turn to the commit no outcome is unknown;
* `PlannedInv`: whoever executes a step, is `EXECUTING` or will resume there has a plan;
* `StuckInv`: the statuses the code gives to steps, and that what the promotion leaves
  `PENDING` waits for something, so that a loop that ends leaves nothing it could have started.

Each conjunct is preserved by a lemma of its own that names the conjuncts it depends
on, split by the phases of the run (`Phases`). `NeverStuck` takes the steps that are not at their end
for the part of a schedulable plan: one of them waits for nothing among them, so either
`StuckInv` is contradicted or a step has failed. For `PlanExecution`, most actions are
stuttering (`QuietActions`); those that move a step or a plan each are one action of it,
for which `AtMostOneRunning`, `StepsFollowDependencies` and `SuccessIsEarned` give the guards.
Theorems: `TypeCorrect`, `OneStepAtATime`, `DependencyOrder`, `EarnedSuccess`, `LeasedWork`, `StepTable`,
`KnownCommits`, `NeverStuck`, `OrchestratorImplementsLifecycle`,
`OrchestratorImplementsPlanExecution`, `ExecutionFollowsPlan`, `FinalSuccess`, `AdvancingRuns`,
`BoundedRuns`, `AwaitedLease`.

**RunLease_proofs.** What holds however late the renewals are (`Calm`: types, clocks
read in the past, short leases) is proved first. Mutual exclusion needs
`RenewalsAreTimely == Period + MaxLate + 3 * MaxWait < Duration`: the acquisition's statement
may come `MaxWait` after the clock its expiry is computed from, and only then is the timer armed;
the first renewal is computed `Period + MaxLate` later, waits `MaxWait` for its own statement, and
a scan may have read the row a further `MaxWait` before it reads the clock. The invariant says that
the row names the driver and covers the time until its next renewal (`HolderInv`),
and that a row a scan holds is either not the driver's or not yet expired
when it is compared (`SeenInv`). The inequality is tight: with `Duration` equal to
the sum, TLC finds the scan that releases a lease renewed since. With the code's
numbers (30 s, 10 s, 5 s) the timer may be almost 5 s late. Theorems: `TypeCorrect`,
`ShortLease`, `HeldLease`, `MutualExclusion`.

**ToolAudit_proofs.** The invariant relates the row, the put and the coroutine of each call
(`StageInv`), the file a put has placed (`StoreInv`), what a process has done (`ProcInv`) and the
outcome that row and bytes name (`OutcomeInv`); `RunInv` says that while a step is verified its
own commands are the only calls without a known outcome, which is why the commit need
not look again. For the refinement, `FateKept` and `EffectsKept` dispose of the steps nobody
sees; five actions remain. Theorems: `TypeCorrect`, `BackedRows`, `TruthfulSuccess`, `FiledOutcomes`,
`StableCheckpoints`, `KnownCommits`, `AuditImplementsAuditedEffects`, `RecordedEffects`, `FinalFates`.

**PlanValidation_proofs.** While the search runs, what it has visited is closed under
dependencies (`Closed`) and each part of it has a step that waits for nothing in that part
(`Grounded`); the stack is a path in which each key depends on the next, without repetition,
and has nothing unvisited left beyond what is in `left` and the key above it (`Path`).
When `Leave` adds a key to `visited`, its dependencies are there already, which keeps
`Grounded`; when `VisitDependency` refuses, the keys from the one found in `visiting` to the
top of the stack each wait for another (`CyclesDoNotSchedule`). Theorems: `TypeCorrect`,
`StoredSchedule`, `StoredUsable`, `JustRefusals`, `AdvancingSearch`, `FiniteSearch`.

**EventStream_proofs** rests on `RunLedger_proofs`. Since the log is dense, a page is the
events of an interval, from `Floor` of the cursor to `Reach` (`ListIsInterval`). For each
reader: where the cursors are (`Cursors`), what has been handled (`Handled`, `Missed`), what
each frame in flight stands for (`Framed`), that all the closure has passed is handled or in
flight (`Coming`), that a client which has handled every status event, directly or through a
snapshot, displays the run's status (`Viewed`), and that a snapshot in flight which stands for the
rest of them carries it (`SnapshotsTell`). For the order, what a
stream has handled is a prefix of the log (`Prefix`). Theorems:
`StreamTypeCorrect`, `NoEventMissed`, `NoEventRepeated`, `InOrder`, `CurrentView`, `CompleteCommands`.

**TaskSession_proofs.** The invariant is one predicate per run, `Fine`, of its row, coroutine,
handle and sandbox (`Typed`, `Held`, `Rowed`, `Placed`), one on the containers (`Shelved`), one on
the probe (`Probed`) and one on a process that is not there (`Resting`). `Held` says that while the
coroutine is between the preflight and the end of its prompts the handle is for the run's binding
and the installed release; `Placed` that whoever was ever planned has a sandbox, which is what
lets the orchestrator skip the preparation of a run it finds `EXECUTING`; `Cleared` that where
the container of a `READY` row is gone the run has ended and its driver has its prompts behind
it, on which `PreparedPrompts` and `KnownContainers` rest. A step of a run
changes its four parts only (`RunStep`), a step of the probe or a request none of them
(`ElsewhereKeeps`). `LifecycleWalks` says that coroutine, controls, a failed start and
recovery, each writing on what it read itself, never leave the task table together.
Theorems: `TypeCorrect`, `OwnedKeys`, `BoundRequests`, `PreparedPrompts`, `KnownContainers`,
`LifecycleWalks`, `EndedRunsEnd`, `AdvancingProbes`.

**RuntimeDiscovery_proofs.** The version a process reads may be old when it migrates. `Core`
says why that does no harm: the transaction belongs to the process that migrates (`Holder`),
starts from the schema as it is (`Migrating`); the next migration of a process is never beyond
the schema's next (`Reading`), and creating tables that exist fails, so only a process whose
version is still current commits (`Migrated`); one that answers has none left to do (`Serving`).
For the clients: a process that has ended stays so and what was announced stays announced
(`Endures`), whoever has a child has spawned it (`Parents`), and once the shell has emitted, the
window has still to ask, or has the answer, or shows the sidecar (`Informed`). Theorems:
`TypeCorrect`, `WholeSchema`, `TablesBeforeService`, `OrderedMigrations`, `FinalDeadlines`, `StopWaits`,
`InformedWindow`.

### The safety half of liveness

A liveness property needs that steps are taken, which is fairness, and that they lead
somewhere, which is safety. The second is proved:

| Checked by TLC | Proved |
|---|---|
| `RunEnds` | `AdvancingRuns`: each step of the coroutine but a tool call spends a replan or comes nearer to the end, by the order of `Nearer`, and nothing but the death of the process takes it back; `BoundedRuns`: what is left is finite |
| `InterruptedRunResumes` | `AwaitedLease`: while a dead process's lease keeps a run from being started, a start is pending |
| `ValidationEnds` | `AdvancingSearch`: each step of the search enters a key, ticks a dependency off or returns; `FiniteSearch`: there are finitely many |
| `ProbeIsBounded` | `AdvancingProbes`: no step of a probe goes back, whatever the provider answers |
| `CancelReleasesKey` | `EndedRunsEnd`: a step of the driver of a run that has ended is one nearer to its end, or leaves it where it waits with its abort kept; no prompt that returns is followed by another, and nobody starts the run again |
| `EnsureEnds` | `FinalDeadlines`: past its deadline, each step of a CLI is one nearer to its end |
| `StopEnds` | `StopWaits`: who waits for a child is released by its end and by nothing else, and the child stays ended |
| `DesktopBecomesReady` | `InformedWindow`: when shell and window have done their part, the window shows the sidecar |

Only model-checked: that the steps are taken, so the liveness properties (`RunEnds`, `InterruptedRunResumes`,
`ValidationEnds`, `ProbeIsBounded`, `CancelReleasesKey`, `EnsureEnds`, `StopEnds`,
`DesktopBecomesReady`), which need fairness and `ENABLED`, out of the prover's reach, and the
disagreements, which are counterexamples.

## Where the code and its documents disagree

Each has a run that fails on exactly this property, with a trace.

1. **A pause during planning is undone** (`pause_holds`, `task-orchestrator.ts:253`). After the
   planner returns, the row is `PAUSED`, and the table allows `PAUSED → EXECUTING`
   because that is how a user resumes: the run goes on without one.
2. **A pause can lose its way back** (`pause_is_resumable`, `checkpoint-service.ts:14`). A
   checkpoint the suspended coroutine records after the pause replaces the one that
   carries `resumeStatus`; every later resume is refused.
3. **Unknown outcomes are not looked at when the lease is fresh** (`unknown_outcome`,
   `recovery-service.ts:36`). `WAIT_FOR_LEASE` is decided first and the timer of `main.ts`
   does not scan again: within 30 s of a crash a run is resumed, and replanned, over an
   operation whose outcome nobody knows. (The commit of a step remains guarded:
   `CommitsKnownOutcomes` is a theorem.)
4. **The write budget does not bind the model** (`write_budget`, `pi-task-driver.ts:173`). The toolbox
   counts write operations, and the driver never uses the toolbox.
5. **One binding of another release keeps the runtime from starting** (`runtime_starts`,
   `model-binding-repository.ts:69`, `recovery-service.ts:46`, `main.ts:61-65`). The scan reads
   every unfinished run's binding with a schema that admits the installed SDK version alone; the
   design (`2026-08-29-qwen-minimax-token-plan-design.md:296`) says such a run becomes `PAUSED`.

Seen while modelling, without a run of their own (most of them are behaviours of the models,
and legal moves of the lifecycle):

* a pause aborts the model's turn, the abort is a recoverable block, and the block's
  `PAUSED → PAUSED` is refused inside the catch clause: the paused run ends `FAILED`
  (line 181); if the user has resumed before the abort arrives, the block pauses again;
* a pause and a resume during the preflight make the replan of an interrupted step lose
  its compare-and-swap, and the run fails;
* a resume while the driver is disposed of joins a promise about to settle and is lost
  until the next start of the process; a cancel then leaves the container; a `dispose` that
  rejects leaves the run in `#active` for good (`zombie`);
* a crash between `REPLANNING` and `incrementReplan` grants one replan more; one
  between a `FAILED` step and `REPLANNING` costs the run its replan;
* a crash between the two writes of a pause leaves a `resumeStatus` with a run that is
  not paused; a crash during `createWorkspace` leaves a container no row mentions;
* a tool call outside the paths of its step throws inside `execute`, so the refusal is recorded as
  an unknown outcome and stops the run; nothing ever settles an unknown outcome, so a run
  that has one can be resumed but commits no further step;
* within a turn the model may repeat a call whose outcome is unknown, under another id: the
  operations are looked at when the turn has ended;
* a command that times out kills the container, and the workspace on its tmpfs with it; the row
  stays `READY`, nothing looks at the container before the next prompt, and the run goes on, by a
  step or a replan, without its workspace (`docker-provider.ts:99-101`). Every later call on the
  container throws and has an unknown outcome, and the run does not succeed, for the patch is
  taken from the container. The design (`2026-08-28-noneedwork-system-design.md:434`) has the
  logs and the workspace of a container that exits kept, and the runtime reconnect or fail safely;
* a run whose sandbox cannot be created ends `FAILED`; the same line of the design has it stay
  in `PREPARING`;
* a cleanup that was interrupted leaves a `READY` row of an ended run whose container is gone;
* `verifyRun` does not look at `truncated`: the patch of a large change is cut at 1 MiB;
* no code enters `AWAITING_APPROVAL`;
* a cancel during the preflight lets one more step start: the loop tests a row read before it
  (`task-orchestrator.ts:138`);
* a lost lease does not stop its owner: the renewal's answer is ignored (`task-orchestrator.ts:89`), so
  a process suspended for longer than the lease drives on beside the one that reclaimed it;
  with renewals in time, `OneDriver` is a theorem;
* finished is not always terminal: the exit code is read once, when the output is closed
  (`docker-provider.ts:108`), and a process still there is recorded as finished with code 1;
* a failure before any output of a message, after earlier messages of the same prompt have called
  tools, is not classified as an unknown outcome;
* a driver whose disposal fails stays in `#active`; a later resume joins its rejected promise
  and the run ends `FAILED`; `recordStartFailure` fails a run without removing its container;
* after a crash nobody removes the container of a run that had already ended;
* when the stored default is no longer offered, every probe and every task without an
  override throws, also for other profiles; `ModelService.preflight` is called by nobody;
* a shutdown fails a run whose prompt it aborts before any output, for an abort is no known
  failure;
* a key is removed when its driver goes, not when it is deleted: a request of a run under way
  still carries it;
* `task watch` returns without printing what was appended between its last page and the
  request for the task's status; nothing trims events;
* `removeRuntimeRegistry` reads and then removes: between the two another runtime may publish
  and lose its registration; a runtime whose publication fails goes on listening, unregistered
  (`main.ts:64` sets the exit code only);
* of two runtimes that start on a fresh database, the second may find the tables there and end;
  an old one keeps serving after a newer one has migrated;
* `nw runtime start` leaves its child running when the health request fails, and
  `stopChild` waits for ever for a child that a signal has ended before; the health request
  has no time-out;
  the desktop never notices the death of its sidecar.

## Not modelled, and the plan

What would come next, in this order:

1. `TaskOrchestrator` over `RunLease` and `AuditedEffects`: today it has one process and one
   bit (`orphan`) of what `ToolAudit` proves of the record; the composition would discharge both.
2. `TaskOrchestrator` and `TaskSession` as two refinements of one abstract run, in place of the
   correspondence described above.
3. What `TaskSession` leaves of the driver: the recording of session events as run events,
   with its own order and failures, and the text a plan is taken from.

Not modelled, and why:

* approvals, workers and evaluations: repositories that no code of this version calls;
* the other commands of the CLI, the views of the desktop, the other methods of the client:
  one request and the presentation of one answer, with no state of their own;
* `listProfiles` and `status` of the model service, the safe settings and the tool list of a session,
  schemas and error texts: data nothing decides on;
* `removeUnreferencedBlob` (`artifacts/gc.ts`) and `ModelService.preflight`: called by nothing;
* the packing of a workspace, Docker's protocol, the keyring's envelope, SQLite's transactions:
  taken as single steps that succeed or fail.
