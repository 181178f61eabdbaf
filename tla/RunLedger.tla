----------------------------- MODULE RunLedger ------------------------------
(***************************************************************************)
(* The durable ledger of one TaskRun: its row of task_runs, the status     *)
(* copied into its row of tasks, and its rows of run_events, as written by *)
(* TaskRunRepository, TaskRepository.create and RunEventRepository.append. *)
(*                                                                         *)
(* Writers are the pieces of code that hold a TaskRun object they read     *)
(* some time ago: an orchestrator that was suspended at an await, an HTTP  *)
(* control handler, the start-failure handler, the recovery scan, or any   *)
(* of these in a second runtime process on the same database file.  A      *)
(* writer decides on its snapshot; only the UPDATE's WHERE clause protects *)
(* the row.  A repository call is one step: it is a transaction, or one    *)
(* UPDATE followed by a read that a later Read stands for, or the two      *)
(* statements of append, whose second one fails on the primary key         *)
(* (run_id, sequence) when another process was faster, leaving no trace.   *)
(***************************************************************************)
EXTENDS TaskStatus, Integers

CONSTANTS Writers,     \* the holders of a snapshot
          None,        \* null: no snapshot, no status in an event's payload
          MaxVersion   \* bound on state_version, the number of writes explored

ASSUME MaxVersionAssumption == MaxVersion \in Nat
ASSUME NoneAssumption == None \notin TaskStatuses

VARIABLES run,         \* the row of task_runs
          taskStatus,  \* tasks.status
          events,      \* the rows of run_events of this run
          snapshot     \* writer -> the TaskRun object it last read

vars == <<run, taskStatus, events, snapshot>>

Runs == [status : TaskStatuses, version : Nat, replans : Nat,
         resume : TaskStatuses \cup {None}, finished : BOOLEAN]
Events == [sequence : Nat \ {0}, from : TaskStatuses \cup {None},
           to : TaskStatuses \cup {None}]

(* Rows and snapshots are well formed: counters never go below zero, and   *)
(* the status columns hold statuses of the table.                          *)
TypeOK ==
  /\ run \in Runs
  /\ taskStatus \in TaskStatuses
  /\ events \subseteq Events
  /\ snapshot \in [Writers -> Runs \cup {None}]

----------------------------------------------------------------------------
(* RunEventRepository.append: COALESCE(MAX(sequence), 0) + 1.              *)
Sequences == {e.sequence : e \in events}
LatestSequence ==
  IF events = {} THEN 0 ELSE CHOOSE n \in Sequences : \A m \in Sequences : m <= n

Appended(from, to) ==
  events \cup {[sequence |-> LatestSequence + 1, from |-> from, to |-> to]}

(* CheckpointService and the drivers append events that change no status.  *)
AppendedNote == Appended(None, None)

(* TaskRepository.create: both rows at version 0 and the first event.      *)
Init ==
  /\ run = [status |-> "CREATED", version |-> 0, replans |-> 0,
            resume |-> None, finished |-> FALSE]
  /\ taskStatus = "CREATED"
  /\ events = {[sequence |-> 1, from |-> None, to |-> "CREATED"]}
  /\ snapshot = [w \in Writers |-> None]

Room == run.version < MaxVersion

(* TaskRunRepository.get, and the row a repository method returns.         *)
Read(w) ==
  /\ snapshot' = [snapshot EXCEPT ![w] = run]
  /\ UNCHANGED <<run, taskStatus, events>>

(* A method returns the row it wrote; some callers go on with it, others   *)
(* ignore the result and keep the object they had.                         *)
MayAdopt(w) ==
  \/ snapshot' = [snapshot EXCEPT ![w] = run']
  \/ snapshot' = snapshot

(* Mutated form of Matches: the WHERE clause compares the version alone,   *)
(* and a version the caller is one write behind with.                      *)
MatchesLate(w) == run.version \in {snapshot[w].version, snapshot[w].version + 1}

(* Mutated form of Matches: the WHERE clause compares the status alone.    *)
MatchesStatus(w) == run.status = snapshot[w].status

(* The WHERE clause of the compare-and-swap.                               *)
Matches(w) == /\ run.version = snapshot[w].version
              /\ run.status = snapshot[w].status

(* TaskRunRepository.transition, whose UPDATE matched one row: the row, the*)
(* task's row and the event are written in the same transaction.           *)
Swap(w, to) ==
  /\ Room
  /\ Matches(w)
  /\ run' = [run EXCEPT !.status = to, !.version = @ + 1,
                        !.finished = to \in TerminalStatuses]
  /\ taskStatus' = to
  /\ events' = Appended(snapshot[w].status, to)
  /\ MayAdopt(w)

(* assertTaskTransition on the snapshot, then transition: the orchestrator,*)
(* TaskService.control and RecoveryService.                                *)
AssertedTransition(w, to) ==
  /\ snapshot[w] # None
  /\ CanTransitionTask(snapshot[w].status, to)
  /\ Swap(w, to)

(* Mutated form of RecordStartFailure: without the terminal check.         *)
RecordAnyStartFailure(w) ==
  /\ snapshot[w] # None
  /\ Swap(w, "FAILED")

(* TaskRunner.recordStartFailure: no assertion, only the terminal check.   *)
RecordStartFailure(w) ==
  /\ snapshot[w] # None
  /\ snapshot[w].status \notin TerminalStatuses
  /\ Swap(w, "FAILED")

(* The UPDATE matched no row: StateConflictError, the transaction is rolled*)
(* back, and the caller's error path reads the row again or gives up.      *)
StateConflict(w) ==
  /\ snapshot[w] # None
  /\ ~Matches(w)
  /\ snapshot' = [snapshot EXCEPT ![w] = None]
  /\ UNCHANGED <<run, taskStatus, events>>

(* TaskRunRepository.checkpoint, unconditional; CheckpointService.record   *)
(* appends an event afterwards (AppendNote), the other callers do not.     *)
(* Only USER_PAUSE and MODEL_BLOCKED checkpoints carry a resumeStatus: the *)
(* status of a row read just before, with no await in between, and never a *)
(* terminal one.                                                           *)
Checkpoint(w, resume) ==
  /\ Room
  /\ resume # None => run.status \notin TerminalStatuses
  /\ run' = [run EXCEPT !.resume = resume, !.version = @ + 1]
  /\ MayAdopt(w)
  /\ UNCHANGED <<taskStatus, events>>

(* Mutated form of IncrementReplan: state_version is not moved.            *)
IncrementReplanInPlace(w) ==
  /\ Room
  /\ run.replans < MaxVersion
  /\ run' = [run EXCEPT !.replans = @ + 1]
  /\ MayAdopt(w)
  /\ UNCHANGED <<taskStatus, events>>

IncrementReplan(w) ==
  /\ Room
  /\ run' = [run EXCEPT !.replans = @ + 1, !.version = @ + 1]
  /\ MayAdopt(w)
  /\ UNCHANGED <<taskStatus, events>>

(* The session columns are data nobody decides on; the version moves.      *)
BindPiSession(w) ==
  /\ Room
  /\ run' = [run EXCEPT !.version = @ + 1]
  /\ MayAdopt(w)
  /\ UNCHANGED <<taskStatus, events>>

(* RunEventRepository.append outside a transition, as many as the bound on *)
(* versions leaves room for.                                               *)
AppendNote ==
  /\ LatestSequence <= MaxVersion
  /\ events' = AppendedNote
  /\ UNCHANGED <<run, taskStatus, snapshot>>

Next ==
  \/ AppendNote
  \/ \E w \in Writers :
       \/ Read(w)
       \/ StateConflict(w)
       \/ RecordStartFailure(w)
       \/ IncrementReplan(w)
       \/ BindPiSession(w)
       \/ \E to \in TaskStatuses : AssertedTransition(w, to)
       \/ \E resume \in {None, run.status} : Checkpoint(w, resume)

Spec == Init /\ [][Next]_vars

----------------------------------------------------------------------------
(* The row of tasks shows the status of the run at every moment, terminal  *)
(* rows are exactly those with finished_at set: a reader of either table   *)
(* (GET /v1/tasks, listRecoverable) sees the same task.                    *)
RowsAgree ==
  /\ taskStatus = run.status
  /\ run.finished <=> run.status \in TerminalStatuses

(* state_version stands for the whole row: a writer whose snapshot has the *)
(* current version has the current row.  It needs every UPDATE of the row, *)
(* the unconditional ones too, to move the version, and is what makes the  *)
(* compare-and-swap refuse a decision taken before a checkpoint, a replan  *)
(* count or a session binding it did not see.                              *)
VersionIdentifiesRow ==
  \A w \in Writers :
    snapshot[w] # None =>
      /\ snapshot[w].version <= run.version
      /\ snapshot[w].version = run.version => snapshot[w] = run

StateEvents == {e \in events : e.to # None}

(* Sequences are dense and unique: a client that pages by cursor misses    *)
(* and repeats nothing.                                                    *)
LogIsDense ==
  /\ Sequences = 1 .. LatestSequence
  /\ \A e, f \in events : e.sequence = f.sequence => e = f

Before(e, f) == e.sequence < f.sequence

(* The status events read in order are a walk from CREATED to the current  *)
(* status, each event starting where the one before it ended: the event    *)
(* log alone reconstructs the task, whatever the writers raced on.         *)
LogTellsStatus ==
  /\ \E e \in StateEvents :
       /\ e.to = run.status
       /\ \A f \in StateEvents : f.sequence <= e.sequence
  /\ \A e, f \in StateEvents :
       (Before(e, f) /\ ~\E g \in StateEvents : Before(e, g) /\ Before(g, f))
         => f.from = e.to

(* The status moves only by the decision of a writer that knew the row as  *)
(* it was, checkpoint and counters included: what happened between the     *)
(* read and the write of a decision, an await apart, makes it void.        *)
DecisionsAreCurrent ==
  [][run'.status # run.status => \E w \in Writers : snapshot[w] = run]_vars

(* Whatever the writers hold, the run implements the lifecycle: no race of *)
(* stale snapshots produces a transition outside the table or revives a    *)
(* terminal run.                                                           *)
Lifecycle == INSTANCE TaskLifecycle WITH status <- run.status
ImplementsLifecycle == Lifecycle!Spec
=============================================================================
