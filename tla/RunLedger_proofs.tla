-------------------------- MODULE RunLedger_proofs --------------------------
(***************************************************************************)
(* What RunLedger guarantees for any set of writers and any number of      *)
(* writes.  IInv strengthens the invariants only where it has to: the      *)
(* version of a snapshot never exceeds that of the row, and the sequences  *)
(* of the events are 1 .. n for some n, which the maximum then is.         *)
(***************************************************************************)
EXTENDS RunLedger, TLAPS

Dense(n) == /\ Sequences = 1 .. n
            /\ \A e, f \in events : e.sequence = f.sequence => e = f

IInv == /\ TypeOK
        /\ RowsAgree
        /\ VersionIdentifiesRow
        /\ \E n \in Nat : Dense(n)
        /\ LogTellsStatus

----------------------------------------------------------------------------
(* The maximum of a dense log is its length.                               *)
LEMMA LatestOfDense ==
  ASSUME NEW n \in Nat, Dense(n)
  PROVE  LatestSequence = n
<1>1. CASE n = 0
  <2>1. events = {} BY <1>1 DEF Dense, Sequences
  <2>. QED BY <1>1, <2>1 DEF LatestSequence
<1>2. CASE n # 0
  <2>1. n \in Sequences /\ events # {} BY <1>2 DEF Dense, Sequences
  <2>2. \A m \in Sequences : m <= n BY DEF Dense
  <2>3. \A k \in Sequences : (\A m \in Sequences : m <= k) => k = n
    BY <2>1, <2>2 DEF Dense
  <2>. QED BY <2>1, <2>2, <2>3 DEF LatestSequence
<1>. QED BY <1>1, <1>2

(* Appending to a dense log keeps it dense and gives the event the next    *)
(* sequence.                                                               *)
LEMMA AppendedDense ==
  ASSUME NEW n \in Nat, Dense(n), NEW from, NEW to, events' = Appended(from, to)
  PROVE  /\ Dense(n + 1)'
         /\ events' = events \cup {[sequence |-> n + 1, from |-> from, to |-> to]}
<1>1. events' = events \cup {[sequence |-> n + 1, from |-> from, to |-> to]}
  BY LatestOfDense DEF Appended
<1>2. Sequences' = Sequences \cup {n + 1}
  <2>1. \A e \in events' : e \in events \/ e.sequence = n + 1 BY <1>1
  <2>2. [sequence |-> n + 1, from |-> from, to |-> to] \in events' BY <1>1
  <2>3. events \subseteq events' BY <1>1
  <2>. QED BY <2>1, <2>2, <2>3 DEF Sequences
<1>3. Sequences' = 1 .. n + 1 BY <1>2 DEF Dense
<1>4. \A e \in events : e.sequence # n + 1 BY DEF Dense, Sequences
<1>5. \A e, f \in events' : e.sequence = f.sequence => e = f
  BY <1>1, <1>4 DEF Dense
<1>. QED BY <1>1, <1>3, <1>5 DEF Dense

(* Every active run can fail: recordStartFailure stays within the table    *)
(* without asserting it.                                                   *)
LEMMA MayAlwaysFail ==
  ASSUME NEW s \in TaskStatuses \ TerminalStatuses
  PROVE  CanTransitionTask(s, "FAILED")
BY DEF CanTransitionTask, TaskTransitions, TaskStatuses, TerminalStatuses,
       ResumableStatuses, Exits

----------------------------------------------------------------------------
(* The shape every step but Read, StateConflict and AppendNote has: the row*)
(* is rewritten with the next version, and a snapshot is either the new row*)
(* or what it was.                                                         *)
Rewritten == /\ run'.version = run.version + 1
             /\ run' \in Runs
             /\ \E w \in Writers : MayAdopt(w)

(* Assigning the columns a transition writes gives a well-formed row.      *)
LEMMA RowType ==
  ASSUME NEW r \in Runs, NEW s \in TaskStatuses, NEW v \in Nat, NEW b \in BOOLEAN
  PROVE  [r EXCEPT !.status = s, !.version = v, !.finished = b] \in Runs
BY DEF Runs

(* A rewritten row keeps the snapshots well formed, and the version, which *)
(* only moves forward, keeps standing for the row.                         *)
LEMMA RewrittenKeepsVersions ==
  ASSUME TypeOK, VersionIdentifiesRow, Rewritten
  PROVE  snapshot' \in [Writers -> Runs \cup {None}] /\ VersionIdentifiesRow'
<1>1. PICK w \in Writers : MayAdopt(w) BY DEF Rewritten
<1>2. snapshot' \in [Writers -> Runs \cup {None}]
  BY <1>1 DEF Rewritten, MayAdopt, TypeOK
<1>3. ASSUME NEW v \in Writers, snapshot'[v] # None
      PROVE  /\ snapshot'[v].version <= run'.version
             /\ snapshot'[v].version = run'.version => snapshot'[v] = run'
  <2>1. CASE snapshot'[v] = run'
    BY <2>1 DEF Rewritten, Runs
  <2>2. CASE snapshot'[v] = snapshot[v]
    <3>1. snapshot[v] \in Runs /\ snapshot[v].version <= run.version
      BY <1>3, <2>2 DEF TypeOK, VersionIdentifiesRow
    <3>2. snapshot[v].version \in Nat /\ run.version \in Nat
      BY <3>1 DEF TypeOK, Runs
    <3>. QED BY <2>2, <3>1, <3>2 DEF Rewritten
  <2>. QED BY <1>1, <2>1, <2>2 DEF MayAdopt, TypeOK
<1>. QED BY <1>2, <1>3 DEF VersionIdentifiesRow

(* A swap writes the row, the task's row and the event that continues the  *)
(* walk, because the compare-and-swap tells the event's origin is the      *)
(* status the row has now.                                                 *)
LEMMA SwapKeepsIInv ==
  ASSUME IInv, NEW w \in Writers, NEW to \in TaskStatuses,
         snapshot[w] # None, Swap(w, to)
  PROVE  IInv'
<1>. USE NoneAssumption
<1>1. PICK n \in Nat : Dense(n) BY DEF IInv
<1>2. snapshot[w].status = run.status BY DEF Swap, Matches
<1>3. events' = Appended(run.status, to) BY <1>2 DEF Swap
<1>. DEFINE new == [sequence |-> n + 1, from |-> run.status, to |-> to]
<1>4. Dense(n + 1)' /\ events' = events \cup {new}
  BY <1>1, <1>3, AppendedDense
<1>5. run' \in Runs /\ run'.version = run.version + 1 /\ run'.status = to
      /\ run'.finished = (to \in TerminalStatuses)
  <2>. DEFINE over == to \in TerminalStatuses
  <2>1. run \in Runs /\ run.version + 1 \in Nat BY DEF IInv, TypeOK, Runs
  <2>2. over \in BOOLEAN OBVIOUS
  <2>3. run' = [run EXCEPT !.status = to, !.version = run.version + 1, !.finished = over]
    BY DEF Swap
  <2>. HIDE DEF over
  <2>4. run' \in Runs BY <2>1, <2>2, <2>3, RowType, Zenon
  <2>5. run'.version = run.version + 1 /\ run'.status = to /\ run'.finished = over
    BY <2>1, <2>3 DEF Runs
  <2>. QED BY <2>4, <2>5 DEF over
<1>6. TypeOK'
  <2>1. new \in Events BY DEF Events, IInv, TypeOK, Runs
  <2>2. events' \subseteq Events BY <1>4, <2>1 DEF IInv, TypeOK
  <2>3. snapshot' \in [Writers -> Runs \cup {None}]
    BY <1>5, RewrittenKeepsVersions DEF IInv, Rewritten, Swap
  <2>. QED BY <1>5, <2>2, <2>3 DEF TypeOK, Swap
<1>7. VersionIdentifiesRow'
  BY <1>5, RewrittenKeepsVersions DEF IInv, Rewritten, Swap
<1>8. RowsAgree' BY <1>5 DEF RowsAgree, Swap
<1>9. StateEvents' = StateEvents \cup {new}
  BY <1>4 DEF StateEvents, TaskStatuses
<1>10. \A e \in StateEvents : e.sequence \in 1 .. n
  BY <1>1 DEF StateEvents, Dense, Sequences
<1>11. LogTellsStatus'
  <2>1. \E e \in StateEvents' : e.to = run'.status
                               /\ \A f \in StateEvents' : f.sequence <= e.sequence
    <3>1. \A f \in StateEvents' : f.sequence <= new.sequence BY <1>9, <1>10
    <3>. QED BY <1>5, <1>9, <3>1
  <2>2. ASSUME NEW e \in StateEvents', NEW f \in StateEvents', Before(e, f),
               ~\E g \in StateEvents' : Before(e, g) /\ Before(g, f)
        PROVE  f.from = e.to
    <3>1. CASE e \in StateEvents /\ f \in StateEvents
      <4>1. ~\E g \in StateEvents : Before(e, g) /\ Before(g, f) BY <1>9, <2>2
      <4>. QED BY <2>2, <3>1, <4>1 DEF IInv, LogTellsStatus
    <3>2. CASE e = new
      BY <1>9, <1>10, <2>2, <3>2 DEF Before
    <3>3. CASE e \in StateEvents /\ f = new
      <4>1. PICK l \in StateEvents : /\ l.to = run.status
                                     /\ \A g \in StateEvents : g.sequence <= l.sequence
        BY DEF IInv, LogTellsStatus
      <4>2. Before(l, f) BY <1>10, <3>3 DEF Before
      <4>3. ~Before(e, l) BY <1>9, <2>2, <4>2
      <4>4. e.sequence = l.sequence BY <1>10, <3>3, <4>1, <4>3 DEF Before
      <4>5. e = l BY <1>1, <3>3, <4>4 DEF Dense, StateEvents
      <4>. QED BY <3>3, <4>1, <4>5
    <3>. QED BY <1>9, <3>1, <3>2, <3>3
  <2>. QED BY <2>1, <2>2 DEF LogTellsStatus
<1>12. \E m \in Nat : Dense(m)' BY <1>4
<1>. QED BY <1>6, <1>7, <1>8, <1>11, <1>12 DEF IInv

(* The writes that leave the status alone touch neither the task's row nor *)
(* the log.                                                                *)
LEMMA QuietWriteKeepsIInv ==
  ASSUME IInv, Rewritten, run'.status = run.status, run'.finished = run.finished,
         UNCHANGED <<taskStatus, events>>
  PROVE  IInv'
<1>1. TypeOK' /\ VersionIdentifiesRow'
  BY RewrittenKeepsVersions DEF IInv, TypeOK, Rewritten
<1>2. RowsAgree' BY DEF IInv, RowsAgree
<1>3. \E n \in Nat : Dense(n)' BY DEF IInv, Dense, Sequences
<1>4. LogTellsStatus' BY DEF IInv, LogTellsStatus, StateEvents, Before
<1>. QED BY <1>1, <1>2, <1>3, <1>4 DEF IInv

(* checkpoint writes the resume column and moves the version.              *)
LEMMA CheckpointKeepsIInv ==
  ASSUME IInv, NEW w \in Writers, NEW resume \in {None, run.status},
         Checkpoint(w, resume)
  PROVE  IInv'
<1>1. run \in Runs /\ run.version + 1 \in Nat /\ resume \in TaskStatuses \cup {None}
  BY DEF IInv, TypeOK, Runs
<1>2. run' = [run EXCEPT !.resume = resume, !.version = run.version + 1]
  BY DEF Checkpoint
<1>3. run' \in Runs /\ run'.version = run.version + 1 /\ run'.status = run.status
  BY <1>1, <1>2 DEF Runs
<1>4. run'.finished = run.finished BY <1>1, <1>2 DEF Runs
<1>5. Rewritten BY <1>3 DEF Rewritten, Checkpoint
<1>. QED BY <1>3, <1>4, <1>5, QuietWriteKeepsIInv DEF Checkpoint

(* incrementReplan writes the count and moves the version.                 *)
LEMMA IncrementReplanKeepsIInv ==
  ASSUME IInv, NEW w \in Writers, IncrementReplan(w)
  PROVE  IInv'
<1>1. run \in Runs /\ run.version + 1 \in Nat /\ run.replans + 1 \in Nat
  BY DEF IInv, TypeOK, Runs
<1>2. run' = [run EXCEPT !.replans = run.replans + 1, !.version = run.version + 1]
  BY DEF IncrementReplan
<1>3. run' \in Runs /\ run'.version = run.version + 1 /\ run'.status = run.status
  BY <1>1, <1>2 DEF Runs
<1>4. run'.finished = run.finished BY <1>1, <1>2 DEF Runs
<1>5. Rewritten BY <1>3 DEF Rewritten, IncrementReplan
<1>. QED BY <1>3, <1>4, <1>5, QuietWriteKeepsIInv DEF IncrementReplan

(* bindPiSession moves the version.                                        *)
LEMMA BindPiSessionKeepsIInv ==
  ASSUME IInv, NEW w \in Writers, BindPiSession(w)
  PROVE  IInv'
<1>1. run \in Runs /\ run.version + 1 \in Nat /\ run.replans + 1 \in Nat
  BY DEF IInv, TypeOK, Runs
<1>2. run' = [run EXCEPT !.version = run.version + 1] BY DEF BindPiSession
<1>3. run' \in Runs /\ run'.version = run.version + 1 /\ run'.status = run.status
  BY <1>1, <1>2 DEF Runs
<1>4. run'.finished = run.finished BY <1>1, <1>2 DEF Runs
<1>5. Rewritten BY <1>3 DEF Rewritten, BindPiSession
<1>. QED BY <1>3, <1>4, <1>5, QuietWriteKeepsIInv DEF BindPiSession

(* Reading the row, and losing the snapshot to a conflict, write nothing.  *)
LEMMA SnapshotKeepsIInv ==
  ASSUME IInv, NEW w \in Writers, Read(w) \/ StateConflict(w)
  PROVE  IInv'
<1>1. UNCHANGED <<run, taskStatus, events>> BY DEF Read, StateConflict
<1>2. snapshot' \in [Writers -> Runs \cup {None}]
      /\ \A v \in Writers : snapshot'[v] \in {snapshot[v], run, None}
  BY DEF Read, StateConflict, IInv, TypeOK
<1>3. TypeOK' BY <1>1, <1>2 DEF IInv, TypeOK
<1>4. VersionIdentifiesRow'
  BY <1>1, <1>2 DEF IInv, VersionIdentifiesRow, TypeOK, Runs
<1>5. RowsAgree' /\ LogTellsStatus' /\ \E n \in Nat : Dense(n)'
  BY <1>1 DEF IInv, RowsAgree, LogTellsStatus, StateEvents, Before, Dense, Sequences
<1>. QED BY <1>3, <1>4, <1>5 DEF IInv

(* An event without a status takes its place in the log and is no part of  *)
(* the walk.                                                               *)
LEMMA AppendNoteKeepsIInv ==
  ASSUME IInv, AppendNote
  PROVE  IInv'
<1>1. PICK n \in Nat : Dense(n) BY DEF IInv
<1>. DEFINE note == [sequence |-> n + 1, from |-> None, to |-> None]
<1>2. Dense(n + 1)' /\ events' = events \cup {note}
  BY <1>1, AppendedDense DEF AppendNote, AppendedNote
<1>3. note \in Events BY DEF Events
<1>4. TypeOK' BY <1>2, <1>3 DEF IInv, TypeOK, AppendNote
<1>5. StateEvents' = StateEvents BY <1>2 DEF StateEvents
<1>6. LogTellsStatus' BY <1>5 DEF IInv, LogTellsStatus, Before, AppendNote
<1>7. RowsAgree' /\ VersionIdentifiesRow'
  BY DEF IInv, RowsAgree, VersionIdentifiesRow, AppendNote
<1>8. \E m \in Nat : Dense(m)' BY <1>2
<1>. QED BY <1>4, <1>6, <1>7, <1>8 DEF IInv

----------------------------------------------------------------------------
(* TaskRepository.create establishes the invariant.                        *)
LEMMA InitIInv == Init => IInv
<1>. SUFFICES ASSUME Init PROVE IInv OBVIOUS
<1>. USE DEF Init
<1>1. Sequences = {1} /\ StateEvents = events
  BY NoneAssumption DEF Sequences, StateEvents, TaskStatuses
<1>2. TypeOK
  <2>1. "CREATED" \in TaskStatuses BY DEF TaskStatuses
  <2>2. run \in Runs BY <2>1 DEF Runs
  <2>3. events \subseteq Events BY <2>1 DEF Events
  <2>. QED BY <2>1, <2>2, <2>3 DEF TypeOK
<1>3. RowsAgree BY DEF RowsAgree, TerminalStatuses
<1>4. VersionIdentifiesRow BY DEF VersionIdentifiesRow
<1>5. Dense(1) BY <1>1 DEF Dense
<1>6. LogTellsStatus BY <1>1 DEF LogTellsStatus, Before
<1>. QED BY <1>2, <1>3, <1>4, <1>5, <1>6 DEF IInv

(* Every step of any writer preserves it.                                  *)
LEMMA NextIInv == IInv /\ [Next]_vars => IInv'
<1>. SUFFICES ASSUME IInv, [Next]_vars PROVE IInv' OBVIOUS
<1>1. CASE AppendNote BY <1>1, AppendNoteKeepsIInv
<1>2. ASSUME NEW w \in Writers, Read(w) \/ StateConflict(w) PROVE IInv'
  BY <1>2, SnapshotKeepsIInv
<1>3. ASSUME NEW w \in Writers, RecordStartFailure(w) PROVE IInv'
  <2>1. "FAILED" \in TaskStatuses BY DEF TaskStatuses, TerminalStatuses
  <2>. QED BY <1>3, <2>1, SwapKeepsIInv DEF RecordStartFailure
<1>4. ASSUME NEW w \in Writers, IncrementReplan(w) PROVE IInv'
  BY <1>4, IncrementReplanKeepsIInv
<1>5. ASSUME NEW w \in Writers, BindPiSession(w) PROVE IInv'
  BY <1>5, BindPiSessionKeepsIInv
<1>6. ASSUME NEW w \in Writers, NEW to \in TaskStatuses, AssertedTransition(w, to)
      PROVE  IInv'
  BY <1>6, SwapKeepsIInv DEF AssertedTransition
<1>7. ASSUME NEW w \in Writers, NEW resume \in {None, run.status}, Checkpoint(w, resume)
      PROVE  IInv'
  BY <1>7, CheckpointKeepsIInv
<1>8. CASE UNCHANGED vars
  BY <1>8 DEF vars, IInv, TypeOK, RowsAgree, VersionIdentifiesRow, Dense, Sequences,
              LogTellsStatus, StateEvents, Before
<1>. QED BY <1>1, <1>2, <1>3, <1>4, <1>5, <1>6, <1>7, <1>8 DEF Next

THEOREM Inductive == Spec => []IInv
BY InitIInv, NextIInv, PTL DEF Spec

----------------------------------------------------------------------------
(* Rows and snapshots stay well formed through any number of writes.       *)
THEOREM TypeCorrect == Spec => []TypeOK
<1>1. IInv => TypeOK BY DEF IInv
<1>. QED BY <1>1, Inductive, PTL

(* A reader of tasks and a reader of task_runs see the same status, and    *)
(* finished_at is set exactly on the terminal rows.                        *)
THEOREM TablesAgree == Spec => []RowsAgree
<1>1. IInv => RowsAgree BY DEF IInv
<1>. QED BY <1>1, Inductive, PTL

(* The optimistic lock is sound for any set of writers: a snapshot with the*)
(* current state_version is the current row.                               *)
THEOREM OptimisticLock == Spec => []VersionIdentifiesRow
<1>1. IInv => VersionIdentifiesRow BY DEF IInv
<1>. QED BY <1>1, Inductive, PTL

(* A client that pages the event log by cursor misses and repeats nothing. *)
THEOREM DenseLog == Spec => []LogIsDense
<1>1. IInv => LogIsDense
  <2>. SUFFICES ASSUME IInv PROVE LogIsDense OBVIOUS
  <2>1. PICK n \in Nat : Dense(n) BY DEF IInv
  <2>. QED BY <2>1, LatestOfDense DEF LogIsDense, Dense
<1>. QED BY <1>1, Inductive, PTL

(* The log alone reconstructs the status, whatever the writers raced on.   *)
THEOREM FaithfulLog == Spec => []LogTellsStatus
<1>1. IInv => LogTellsStatus BY DEF IInv
<1>. QED BY <1>1, Inductive, PTL

----------------------------------------------------------------------------
(* The compare-and-swap carries an assertion made on a snapshot over to the*)
(* row: a swap is a move of the lifecycle.                                 *)
LEMMA SwapMoves ==
  ASSUME TypeOK, NEW w \in Writers, NEW to \in TaskStatuses,
         CanTransitionTask(snapshot[w].status, to), Swap(w, to)
  PROVE  Lifecycle!Next
<1>1. CanTransitionTask(run.status, to) BY DEF Swap, Matches
<1>2. run'.status = to BY DEF Swap, TypeOK, Runs
<1>3. to \in Lifecycle!TaskStatuses
  BY DEF TaskStatuses, ResumableStatuses, TerminalStatuses, Lifecycle!TaskStatuses,
         Lifecycle!ResumableStatuses, Lifecycle!TerminalStatuses
<1>4. Lifecycle!CanTransitionTask(run.status, to)
  BY <1>1 DEF CanTransitionTask, TaskTransitions, Exits, ResumableStatuses,
              Lifecycle!CanTransitionTask, Lifecycle!TaskTransitions,
              Lifecycle!Exits, Lifecycle!ResumableStatuses
<1>. QED BY <1>2, <1>3, <1>4 DEF Lifecycle!Next, Lifecycle!Move

(* The ledger implements the lifecycle for any writers: no race of stale   *)
(* snapshots leaves the table or revives a terminal run.                   *)
THEOREM LedgerImplementsLifecycle == Spec => ImplementsLifecycle
<1>1. Init => Lifecycle!Init BY DEF Init, Lifecycle!Init
<1>2. IInv /\ [Next]_vars => [Lifecycle!Next]_(run.status)
  <2>. SUFFICES ASSUME IInv, [Next]_vars
                PROVE  Lifecycle!Next \/ run'.status = run.status
    OBVIOUS
  <2>. USE DEF IInv
  <2>1. CASE AppendNote BY <2>1 DEF AppendNote
  <2>2. ASSUME NEW w \in Writers, Read(w) \/ StateConflict(w)
        PROVE  run'.status = run.status
    BY <2>2 DEF Read, StateConflict
  <2>3. ASSUME NEW w \in Writers, RecordStartFailure(w) PROVE Lifecycle!Next
    <3>1. snapshot[w].status \in TaskStatuses \ TerminalStatuses
      BY <2>3 DEF RecordStartFailure, TypeOK, Runs
    <3>2. "FAILED" \in TaskStatuses BY DEF TaskStatuses, TerminalStatuses
    <3>. QED BY <2>3, <3>1, <3>2, MayAlwaysFail, SwapMoves DEF RecordStartFailure
  <2>4. ASSUME NEW w \in Writers, IncrementReplan(w) \/ BindPiSession(w)
        PROVE  run'.status = run.status
    BY <2>4 DEF IncrementReplan, BindPiSession, TypeOK, Runs
  <2>5. ASSUME NEW w \in Writers, NEW to \in TaskStatuses, AssertedTransition(w, to)
        PROVE  Lifecycle!Next
    BY <2>5, SwapMoves DEF AssertedTransition
  <2>6. ASSUME NEW w \in Writers, NEW resume \in {None, run.status},
               Checkpoint(w, resume)
        PROVE  run'.status = run.status
    BY <2>6 DEF Checkpoint, TypeOK, Runs
  <2>7. CASE UNCHANGED vars BY <2>7 DEF vars
  <2>. QED BY <2>1, <2>2, <2>3, <2>4, <2>5, <2>6, <2>7 DEF Next
<1>. QED BY <1>1, <1>2, Inductive, PTL DEF Spec, ImplementsLifecycle, Lifecycle!Spec

(* Only a swap moves the status.                                           *)
LEMMA OnlySwapsMove ==
  ASSUME TypeOK, Next, run'.status # run.status
  PROVE  \E w \in Writers : snapshot[w] # None /\ Matches(w)
<1>1. CASE AppendNote BY <1>1 DEF AppendNote
<1>2. ASSUME NEW w \in Writers, Read(w) \/ StateConflict(w) PROVE FALSE
  BY <1>2 DEF Read, StateConflict
<1>3. ASSUME NEW w \in Writers, IncrementReplan(w) \/ BindPiSession(w) PROVE FALSE
  BY <1>3 DEF IncrementReplan, BindPiSession, TypeOK, Runs
<1>4. ASSUME NEW w \in Writers, RecordStartFailure(w)
      PROVE  snapshot[w] # None /\ Matches(w)
  BY <1>4 DEF RecordStartFailure, Swap
<1>5. ASSUME NEW w \in Writers, NEW to \in TaskStatuses, AssertedTransition(w, to)
      PROVE  snapshot[w] # None /\ Matches(w)
  BY <1>5 DEF AssertedTransition, Swap
<1>6. ASSUME NEW w \in Writers, NEW resume \in {None, run.status}, Checkpoint(w, resume)
      PROVE  FALSE
  BY <1>6 DEF Checkpoint, TypeOK, Runs
<1>. QED BY <1>1, <1>2, <1>3, <1>4, <1>5, <1>6 DEF Next

(* The compare-and-swap compares two columns and vouches for all of them:  *)
(* whoever moves the status has the row as it is.                          *)
THEOREM CurrentDecisions == Spec => DecisionsAreCurrent
<1>1. IInv /\ [Next]_vars =>
        [run'.status # run.status => \E w \in Writers : snapshot[w] = run]_vars
  <2>. SUFFICES ASSUME IInv, Next, run'.status # run.status
                PROVE  \E w \in Writers : snapshot[w] = run
    OBVIOUS
  <2>1. PICK w \in Writers : snapshot[w] # None /\ Matches(w)
    BY OnlySwapsMove DEF IInv
  <2>2. snapshot[w] = run BY <2>1 DEF IInv, VersionIdentifiesRow, Matches
  <2>. QED BY <2>2
<1>. QED BY <1>1, Inductive, PTL DEF Spec, DecisionsAreCurrent
=============================================================================
