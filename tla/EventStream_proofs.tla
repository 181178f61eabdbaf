------------------------- MODULE EventStream_proofs -------------------------
(***************************************************************************)
(* Proofs about EventStream, for any number of readers and writers, any    *)
(* length of the log, any page limit and any retention.                    *)
(*                                                                         *)
(* The first part computes what the page queries return from the sequences *)
(* being 1 .. Latest (RunLedger_proofs): a page is the events of an        *)
(* interval.  The second part is the invariant of a reader: where its      *)
(* cursors are (Cursors), what it has handled (Handled, Missed), from the  *)
(* first event on (Prefix), what a frame in flight stands for (Framed),    *)
(* that what the stream's closure has passed is handled or in flight       *)
(* (Coming), and what the displayed status and the status of a snapshot    *)
(* are worth (Viewed, SnapshotsTell).                                      *)
(***************************************************************************)
EXTENDS EventStream, RunLedger_proofs, FiniteSetTheorems

(* The events of an interval of sequences.                                 *)
Between(a, b) == {e \in events : a < e.sequence /\ e.sequence <= b}

(* What comes before the first row after a cursor.                         *)
Floor(cursor) == IF cursor < retained THEN retained - 1 ELSE cursor

(* The sequence a page ends with.                                          *)
Reach(cursor) == IF Floor(cursor) + PageLimit < Latest
                   THEN Floor(cursor) + PageLimit ELSE Latest

Retained == retained \in 1 .. Latest

----------------------------------------------------------------------------
(* The log has one event for each sequence up to Latest.                   *)
LogShaped ==
  /\ Latest \in Nat \ {0}
  /\ \A e \in events : e.sequence \in 1 .. Latest
  /\ \A n \in 1 .. Latest : \E e \in events : e.sequence = n
  /\ \A e, f \in events : e.sequence = f.sequence => e = f

LEMMA LogShape == IInv => LogShaped
<1>. SUFFICES ASSUME IInv PROVE LogShaped OBVIOUS
<1>1. PICK n \in Nat : Dense(n) BY DEF IInv
<1>2. Latest = n BY <1>1, LatestOfDense DEF Latest
<1>3. events # {} BY DEF IInv, LogTellsStatus, StateEvents
<1>4. \A e \in events : e.sequence \in 1 .. n BY <1>1 DEF Dense, Sequences
<1>5. \A i \in 1 .. n : \E e \in events : e.sequence = i
  BY <1>1 DEF Dense, Sequences
<1>6. n # 0 BY <1>3, <1>4
<1>. QED BY <1>1, <1>2, <1>4, <1>5, <1>6 DEF Dense, LogShaped

LEMMA LogShapeNext == IInv' => LogShaped'
BY LogShape, PTL

(* An interval of the log has as many events as sequences.                 *)
LEMMA BetweenCount ==
  ASSUME IInv, NEW a \in 0 .. Latest, NEW b \in a .. Latest
  PROVE  IsFiniteSet(Between(a, b)) /\ Cardinality(Between(a, b)) = b - a
<1>. DEFINE I == a + 1 .. b
            g == [n \in I |-> CHOOSE e \in events : e.sequence = n]
<1>1. Latest \in Nat BY LogShape DEF LogShaped
<1>2. \A n \in I : n \in 1 .. Latest BY <1>1
<1>3. \A n \in I : g[n] \in events /\ g[n].sequence = n BY <1>2, LogShape DEF LogShaped
<1>4. \A n \in I : g[n] \in Between(a, b) BY <1>1, <1>3 DEF Between
<1>5. \A e \in Between(a, b) : e.sequence \in I BY <1>1, LogShape DEF LogShaped, Between
<1>6. \A e \in Between(a, b) : g[e.sequence] = e
  BY <1>3, <1>5, LogShape DEF LogShaped, Between
<1>7. g \in Bijection(I, Between(a, b))
  <2>1. g \in [I -> Between(a, b)] BY <1>4
  <2>2. \A x, y \in I : g[x] = g[y] => x = y BY <1>3
  <2>3. \A e \in Between(a, b) : \E n \in I : g[n] = e BY <1>5, <1>6
  <2>. HIDE DEF g
  <2>. QED BY <2>1, <2>2, <2>3 DEF Bijection, Injection, Surjection, IsInjective
<1>8. IsFiniteSet(I) /\ Cardinality(I) = b - a
  <2>1. a + 1 \in Int /\ b \in Int BY <1>1
  <2>2. IsFiniteSet(I) /\ Cardinality(I) = IF a + 1 > b THEN 0 ELSE b - (a + 1) + 1
    BY <2>1, FS_Interval
  <2>. QED BY <1>1, <2>2
<1>. QED BY <1>7, <1>8, FS_Bijection DEF ExistsBijection

LEMMA FloorIn ==
  ASSUME IInv, Retained, NEW c \in 0 .. Latest
  PROVE  /\ Floor(c) \in c .. Latest
         /\ Reach(c) \in Floor(c) .. Latest
         /\ Floor(c) = Latest => c = Latest
         /\ Reach(c) = Floor(c) => c = Latest
         /\ retained - 1 <= Floor(c)
         /\ Floor(c) = c \/ Floor(c) = retained - 1
         /\ Floor(c) # c => c < retained
<1>1. Latest \in Nat \ {0} /\ retained \in 1 .. Latest BY LogShape DEF LogShaped, Retained
<1>2. CASE c < retained
  <2>1. Floor(c) = retained - 1 BY <1>2 DEF Floor
  <2>. QED BY <1>1, <1>2, <2>1, PageLimitAssumption DEF Reach
<1>3. CASE ~(c < retained)
  <2>1. Floor(c) = c BY <1>3 DEF Floor
  <2>. QED BY <1>1, <1>3, <2>1, PageLimitAssumption DEF Reach
<1>. QED BY <1>2, <1>3

(* The rows after a cursor and a page of them are intervals of the log.    *)
LEMMA AfterIsInterval ==
  ASSUME IInv, Retained, NEW c \in 0 .. Latest
  PROVE  After(c) = Between(Floor(c), Latest)
BY LogShape DEF LogShaped, After, Rows, Between, Floor, Retained

LEMMA ListIsInterval ==
  ASSUME IInv, Retained, NEW c \in 0 .. Latest
  PROVE  List(c) = Between(Floor(c), Reach(c))
<1>1. Floor(c) \in 0 .. Latest /\ Latest \in Nat BY FloorIn, LogShape DEF LogShaped
<1>2. ASSUME NEW e \in After(c)
      PROVE  /\ e.sequence \in Floor(c) .. Latest
             /\ {f \in After(c) : f.sequence <= e.sequence} = Between(Floor(c), e.sequence)
  <2>1. e \in Between(Floor(c), Latest) BY AfterIsInterval
  <2>2. e.sequence \in Floor(c) .. Latest BY <1>1, <2>1, LogShape DEF LogShaped, Between
  <2>3. {f \in Between(Floor(c), Latest) : f.sequence <= e.sequence}
          = Between(Floor(c), e.sequence)
    BY <1>1, <2>2, LogShape DEF LogShaped, Between
  <2>. QED BY <2>2, <2>3, AfterIsInterval
<1>3. ASSUME NEW e \in After(c)
      PROVE  Cardinality({f \in After(c) : f.sequence <= e.sequence})
               = e.sequence - Floor(c)
  BY <1>1, <1>2, BetweenCount
<1>4. List(c) = {e \in After(c) : e.sequence - Floor(c) <= PageLimit}
  BY <1>3 DEF List
<1>5. \A e \in After(c) :
        e.sequence - Floor(c) <= PageLimit <=> e.sequence <= Reach(c)
  BY <1>1, <1>2, PageLimitAssumption DEF Reach
<1>6. Between(Floor(c), Reach(c)) \subseteq After(c)
  BY <1>1, AfterIsInterval, FloorIn, LogShape DEF LogShaped, Between
<1>. QED BY <1>4, <1>5, <1>6, AfterIsInterval DEF Between

(* The cursor after a page that is an interval of the log.                 *)
LEMMA CursorOfInterval ==
  ASSUME IInv, NEW a \in 0 .. Latest, NEW b \in a .. Latest, NEW c
  PROVE  NextCursor(Between(a, b), c) = IF a = b THEN c ELSE b
<1>1. Latest \in Nat BY LogShape DEF LogShaped
<1>2. CASE a = b
  <2>1. Between(a, b) = {} BY <1>1, <1>2, LogShape DEF LogShaped, Between
  <2>. QED BY <1>2, <2>1 DEF NextCursor
<1>3. CASE a # b
  <2>. DEFINE S == SequencesOf(Between(a, b))
  <2>1. \A n \in S : n \in a + 1 .. b BY <1>1, LogShape DEF LogShaped, Between, SequencesOf
  <2>2. b \in S
    <3>1. b \in 1 .. Latest BY <1>1, <1>3
    <3>2. PICK e \in events : e.sequence = b BY <3>1, LogShape DEF LogShaped
    <3>3. e \in Between(a, b) BY <1>1, <1>3, <3>2 DEF Between
    <3>. QED BY <3>2, <3>3 DEF SequencesOf
  <2>3. Between(a, b) # {} BY <2>2 DEF SequencesOf
  <2>. HIDE DEF S
  <2>4. \A n \in S : (\A m \in S : m <= n) => n = b BY <1>1, <2>1, <2>2
  <2>5. b \in S /\ \A m \in S : m <= b BY <1>1, <2>1, <2>2
  <2>6. (CHOOSE n \in S : \A m \in S : m <= n) = b BY <2>4, <2>5
  <2>. QED BY <1>3, <2>3, <2>6 DEF NextCursor, S
<1>. QED BY <1>2, <1>3

----------------------------------------------------------------------------
(* A terminal run keeps its status, whoever writes.                        *)
LEMMA TerminalStays ==
  ASSUME IInv, [Next]_vars, run.status \in TerminalStatuses
  PROVE  run'.status = run.status
<1>. USE DEF IInv
<1>1. CASE AppendNote BY <1>1 DEF AppendNote
<1>2. ASSUME NEW w \in Writers, Read(w) \/ StateConflict(w)
      PROVE  run'.status = run.status
  BY <1>2 DEF Read, StateConflict
<1>3. ASSUME NEW w \in Writers, RecordStartFailure(w) PROVE FALSE
  BY <1>3 DEF RecordStartFailure, Swap, Matches
<1>4. ASSUME NEW w \in Writers, IncrementReplan(w) \/ BindPiSession(w)
      PROVE  run'.status = run.status
  BY <1>4 DEF IncrementReplan, BindPiSession, TypeOK, Runs
<1>5. ASSUME NEW w \in Writers, NEW to \in TaskStatuses, AssertedTransition(w, to)
      PROVE  FALSE
  BY <1>5 DEF AssertedTransition, Swap, Matches, CanTransitionTask, TaskTransitions,
              TerminalStatuses
<1>6. ASSUME NEW w \in Writers, NEW resume \in {None, run.status},
             Checkpoint(w, resume)
      PROVE  run'.status = run.status
  BY <1>6 DEF Checkpoint, TypeOK, Runs
<1>7. CASE UNCHANGED vars BY <1>7 DEF vars
<1>. QED BY <1>1, <1>2, <1>3, <1>4, <1>5, <1>6, <1>7 DEF Next

(* What a write does to the log: nothing, or one event at its end, which   *)
(* tells the status whenever the status changes.                           *)
Grown(e) ==
  /\ events' = events \cup {e}
  /\ e.sequence = Latest + 1
  /\ IF e.to = None THEN run'.status = run.status ELSE e.to = run'.status

LEMMA WriteGrows ==
  ASSUME IInv, [Next]_vars
  PROVE  \/ events' = events /\ run'.status = run.status
         \/ \E e \in Events : Grown(e)
<1>. USE DEF IInv
<1>0. Latest \in Nat \ {0} BY LogShape DEF LogShaped
<1>1. CASE AppendNote
  <2>. DEFINE e == [sequence |-> Latest + 1, from |-> None, to |-> None]
  <2>1. events' = events \cup {e}
    BY <1>1 DEF AppendNote, AppendedNote, Appended, Latest
  <2>2. e \in Events BY <1>0 DEF Events
  <2>. QED BY <1>1, <2>1, <2>2 DEF AppendNote, Grown
<1>2. ASSUME NEW w \in Writers, Read(w) \/ StateConflict(w)
      PROVE  events' = events /\ run'.status = run.status
  BY <1>2 DEF Read, StateConflict
<1>3. ASSUME NEW w \in Writers, NEW to \in TaskStatuses, snapshot[w] # None, Swap(w, to)
      PROVE  \E e \in Events : Grown(e)
  <2>. DEFINE e == [sequence |-> Latest + 1, from |-> snapshot[w].status, to |-> to]
  <2>1. events' = events \cup {e} BY <1>3 DEF Swap, Appended, Latest
  <2>2. snapshot[w].status \in TaskStatuses BY <1>3 DEF TypeOK, Runs
  <2>3. e \in Events BY <1>0, <2>2 DEF Events
  <2>4. run'.status = to BY <1>3 DEF Swap, TypeOK, Runs
  <2>5. to # None BY NoneAssumption
  <2>. QED BY <2>1, <2>3, <2>4, <2>5 DEF Grown
<1>4. ASSUME NEW w \in Writers, IncrementReplan(w) \/ BindPiSession(w)
      PROVE  events' = events /\ run'.status = run.status
  BY <1>4 DEF IncrementReplan, BindPiSession, TypeOK, Runs
<1>5. ASSUME NEW w \in Writers, RecordStartFailure(w)
      PROVE  \E e \in Events : Grown(e)
  <2>1. "FAILED" \in TaskStatuses BY DEF TaskStatuses, TerminalStatuses
  <2>. QED BY <1>3, <1>5, <2>1 DEF RecordStartFailure
<1>6. ASSUME NEW w \in Writers, NEW to \in TaskStatuses, AssertedTransition(w, to)
      PROVE  \E e \in Events : Grown(e)
  BY <1>3, <1>6 DEF AssertedTransition
<1>7. ASSUME NEW w \in Writers, NEW resume \in {None, run.status},
             Checkpoint(w, resume)
      PROVE  events' = events /\ run'.status = run.status
  BY <1>7 DEF Checkpoint, TypeOK, Runs
<1>8. CASE UNCHANGED vars BY <1>8 DEF vars
<1>. QED BY <1>1, <1>2, <1>4, <1>5, <1>6, <1>7, <1>8 DEF Next

(* ... so the latest sequence is the same or the next one.                 *)
LEMMA LatestGrows ==
  ASSUME IInv, IInv', [Next]_vars
  PROVE  /\ events' = events => Latest' = Latest
         /\ \A e \in Events : Grown(e) => Latest' = Latest + 1
         /\ Latest' \in {Latest, Latest + 1}
<1>1. events' = events => Latest' = Latest
  BY DEF Latest, LatestSequence, Sequences
<1>2. ASSUME NEW e \in Events, Grown(e) PROVE Latest' = Latest + 1
  <2>1. Latest \in Nat /\ Latest' \in Nat BY LogShape, LogShapeNext DEF LogShaped
  <2>2. Latest + 1 \in 1 .. Latest' BY <1>2, LogShapeNext DEF LogShaped, Grown
  <2>3. \A f \in events' : f.sequence \in 1 .. Latest + 1
    BY <1>2, <2>1, LogShape DEF LogShaped, Grown
  <2>4. Latest' \in 1 .. Latest + 1 BY <2>1, <2>3, LogShapeNext DEF LogShaped
  <2>. QED BY <2>1, <2>2, <2>4
<1>. QED BY <1>1, <1>2, WriteGrows

----------------------------------------------------------------------------
(* The cursor of the client, of the closure and the goal of an export name *)
(* events; a command is not given a stream's frames.                       *)
Cursors(r) ==
  /\ reader[r].cursor \in 0 .. Latest
  /\ reader[r].goal \in 0 .. Latest
  /\ sent[r] \in 0 .. Latest
  /\ reader[r].at # "stream" => wire[r] = {}
  /\ reader[r].at = "stream" => reader[r].cursor <= sent[r] /\ retained <= sent[r] + 1

(* What was handled comes before the cursor, or was trimmed before that.   *)
Handled(r) ==
  \A n \in shown[r] : /\ n \in 1 .. Latest
                      /\ n <= reader[r].cursor \/ n < retained

(* A stream has handled the events from the first on, without a gap.       *)
Prefix(r) ==
  ~Polling(r) => \A n \in shown[r] : \A m \in 1 .. n : m \in shown[r]

Missed(r) ==
  \A e \in events : e.sequence <= reader[r].cursor =>
    e.sequence \in shown[r] \/ (Polling(r) /\ e.sequence < retained)

(* An event in flight is behind the closure's cursor and after all that    *)
(* was handled; a snapshot in flight comes first and stands for the events *)
(* up to its cursor, or for the trimmed ones.                              *)
EventInFlight(r, f) ==
  \E e \in events : /\ f = EventFrame(e)
                    /\ reader[r].cursor < e.sequence /\ e.sequence <= sent[r]
                    /\ \A n \in shown[r] : n < e.sequence

SnapshotInFlight(r, f) ==
  /\ f \in Frames /\ f.kind = "snapshot"
  /\ f.to \in TaskStatuses
  /\ reader[r].cursor <= f.sequence /\ f.sequence <= sent[r]
  /\ \/ f.sequence = 0 /\ f.superseded < retained
     \/ f.superseded = f.sequence
  /\ \A h \in wire[r] \ {f} : /\ h.kind = "event"
                              /\ f.sequence < h.sequence /\ f.superseded < h.sequence

Framed(r) == \A f \in wire[r] : EventInFlight(r, f) \/ SnapshotInFlight(r, f)

Superseded(r, n) == \E g \in wire[r] : g.kind = "snapshot" /\ n <= g.superseded

(* What the closure has passed was handled, or is in flight.               *)
Coming(r) ==
  reader[r].at = "stream" =>
    \A e \in events : (reader[r].cursor < e.sequence /\ e.sequence <= sent[r]) =>
      e.sequence \in shown[r] \/ EventFrame(e) \in wire[r] \/ Superseded(r, e.sequence)

(* A client that has handled every status event displays the status, and a *)
(* snapshot that supersedes the rest of them carries it.                   *)
Viewed(r) ==
  (~Polling(r) /\ \A e \in StateEvents : e.sequence \in shown[r])
    => reader[r].status = run.status

SnapshotsTell(r) ==
  \A g \in wire[r] :
    (g.kind = "snapshot" /\ \A e \in StateEvents : e.sequence \in shown[r]
                                                   \/ e.sequence <= g.superseded)
      => g.to = run.status

(* A watch that is done saw the run end; an export that is done came to its*)
(* goal.                                                                   *)
Ended(r) ==
  /\ reader[r].at = "watched" => run.status \in TerminalStatuses
  /\ reader[r].at = "exported" => reader[r].goal <= reader[r].cursor

ReaderInv(r) == /\ Cursors(r) /\ Handled(r) /\ Prefix(r) /\ Missed(r) /\ Framed(r)
                /\ Coming(r) /\ Viewed(r) /\ SnapshotsTell(r) /\ Ended(r)

StreamInv == /\ IInv /\ StreamTypeOK /\ Retained
             /\ \A r \in Readers : ReaderInv(r)

----------------------------------------------------------------------------
(* A step that leaves the ledger alone.                                    *)
LEMMA Steady ==
  ASSUME IInv, UNCHANGED vars
  PROVE  /\ IInv' /\ Latest' = Latest /\ StateEvents' = StateEvents
         /\ events' = events /\ run' = run
<1>1. IInv' BY NextIInv
<1>2. events' = events /\ run' = run BY DEF vars
<1>3. Latest' = Latest BY <1>2 DEF Latest, LatestSequence, Sequences
<1>. QED BY <1>1, <1>2, <1>3 DEF StateEvents

(* The readers a step is not about.                                        *)
LEMMA OthersKeep ==
  ASSUME StreamInv, UNCHANGED <<vars, retained>>, NEW q \in Readers,
         reader'[q] = reader[q], sent'[q] = sent[q],
         wire'[q] = wire[q], shown'[q] = shown[q]
  PROVE  ReaderInv(q)'
<1>1. Latest' = Latest /\ StateEvents' = StateEvents /\ events' = events /\ run' = run
  BY Steady DEF StreamInv
<1>2. ReaderInv(q) BY DEF StreamInv
<1>3. Polling(q)' = Polling(q) BY DEF Polling
<1>4. Cursors(q)' BY <1>1, <1>2 DEF ReaderInv, Cursors
<1>5. Handled(q)' BY <1>1, <1>2 DEF ReaderInv, Handled
<1>6. Missed(q)' BY <1>1, <1>2, <1>3 DEF ReaderInv, Missed
<1>7. Framed(q)'
  BY <1>1, <1>2 DEF ReaderInv, Framed, EventInFlight, SnapshotInFlight
<1>8. Coming(q)' BY <1>1, <1>2 DEF ReaderInv, Coming, Superseded
<1>9. Viewed(q)' BY <1>1, <1>2, <1>3 DEF ReaderInv, Viewed
<1>10. SnapshotsTell(q)' BY <1>1, <1>2 DEF ReaderInv, SnapshotsTell
<1>11. Ended(q)' BY <1>1, <1>2 DEF ReaderInv, Ended
<1>12. Prefix(q)' BY <1>2, <1>3 DEF ReaderInv, Prefix
<1>. QED
  BY <1>4, <1>5, <1>6, <1>7, <1>8, <1>9, <1>10, <1>11, <1>12 DEF ReaderInv

(* The new event is after all cursors and frames, and nobody has handled   *)
(* it.                                                                     *)
LEMMA WriteKeeps == StreamInv /\ Write => StreamInv'
<1>. SUFFICES ASSUME StreamInv, Write PROVE StreamInv' OBVIOUS
<1>. USE DEF StreamInv, Write
<1>1. IInv' BY NextIInv
<1>2. Latest \in Nat \ {0} /\ Latest' \in {Latest, Latest + 1}
  BY <1>1, LogShape, LatestGrows DEF LogShaped
<1>3. events \subseteq events' /\ \A e \in events' \ events : e.sequence = Latest + 1
  BY <1>1, WriteGrows DEF Grown
<1>4. \A e \in events : e.sequence \in 1 .. Latest BY LogShape DEF LogShaped
<1>5. UNCHANGED <<retained, reader, sent, wire, shown>> BY DEF readerVars
<1>6. StreamTypeOK' BY <1>1, <1>5 DEF IInv, StreamTypeOK
<1>7. Retained' BY <1>2, <1>5 DEF Retained
<1>8. ASSUME NEW r \in Readers PROVE ReaderInv(r)'
  <2>. DEFINE c == reader[r].cursor
  <2>1. ReaderInv(r) OBVIOUS
  <2>2. Cursors(r) /\ Handled(r) BY <2>1 DEF ReaderInv
  <2>3. Cursors(r)' BY <1>2, <1>5, <2>2 DEF Cursors
  <2>4. Handled(r)' BY <1>2, <1>5, <2>2 DEF Handled
  <2>5. c \in 0 .. Latest /\ sent[r] \in 0 .. Latest BY <2>2 DEF Cursors
  <2>6. Polling(r)' = Polling(r) BY <1>5 DEF Polling
  <2>7. Missed(r)'
    <3>1. \A e \in events' : e.sequence <= c => e \in events BY <1>2, <1>3, <2>5
    <3>. QED BY <1>5, <2>1, <2>6, <3>1 DEF ReaderInv, Missed
  <2>8. Framed(r)'
    BY <1>3, <1>5, <2>1 DEF ReaderInv, Framed, EventInFlight, SnapshotInFlight
  <2>9. Coming(r)'
    <3>1. \A e \in events' : e.sequence <= sent[r] => e \in events
      BY <1>2, <1>3, <2>5
    <3>. QED BY <1>5, <2>1, <3>1 DEF ReaderInv, Coming, Superseded
  <2>10. Ended(r)'
    BY <1>5, <2>1, TerminalStays DEF ReaderInv, Ended
  <2>14. Prefix(r)' BY <1>5, <2>1, <2>6 DEF ReaderInv, Prefix
  <2>11. CASE events' = events /\ run'.status = run.status
    <3>1. StateEvents' = StateEvents BY <2>11 DEF StateEvents
    <3>2. Viewed(r)' BY <1>5, <2>1, <2>6, <2>11, <3>1 DEF ReaderInv, Viewed
    <3>3. SnapshotsTell(r)' BY <1>5, <2>1, <2>11, <3>1 DEF ReaderInv, SnapshotsTell
    <3>. QED
      BY <2>1, <2>3, <2>4, <2>7, <2>8, <2>9, <2>10, <2>14, <3>2, <3>3 DEF ReaderInv
  <2>12. ASSUME NEW e \in Events, Grown(e), e.to = None PROVE ReaderInv(r)'
    <3>1. StateEvents' = StateEvents /\ run'.status = run.status
      BY <2>12 DEF StateEvents, Grown
    <3>2. Viewed(r)' BY <1>5, <2>1, <2>6, <3>1 DEF ReaderInv, Viewed
    <3>3. SnapshotsTell(r)' BY <1>5, <2>1, <3>1 DEF ReaderInv, SnapshotsTell
    <3>. QED
      BY <2>1, <2>3, <2>4, <2>7, <2>8, <2>9, <2>10, <2>14, <3>2, <3>3 DEF ReaderInv
  <2>13. ASSUME NEW e \in Events, Grown(e), e.to # None PROVE ReaderInv(r)'
    <3>1. e \in StateEvents' /\ e.sequence = Latest + 1
      BY <2>13 DEF StateEvents, Grown
    <3>2. e.sequence \notin shown[r] BY <1>2, <2>2, <3>1 DEF Handled
    <3>3. Viewed(r)' BY <1>5, <3>1, <3>2 DEF Viewed
    <3>4. \A g \in wire[r] : g.kind = "snapshot" => g.superseded < e.sequence
      <4>1. ASSUME NEW g \in wire[r], g.kind = "snapshot" PROVE g.superseded < e.sequence
        <5>1. SnapshotInFlight(r, g)
          BY <2>1, <4>1 DEF ReaderInv, Framed, EventInFlight, EventFrame
        <5>2. g.superseded \in Nat /\ g.sequence \in Nat
          BY <5>1 DEF SnapshotInFlight, Frames
        <5>3. retained \in 1 .. Latest BY DEF Retained
        <5>. QED BY <1>2, <2>5, <3>1, <5>1, <5>2, <5>3 DEF SnapshotInFlight
      <4>. QED BY <4>1
    <3>5. \A g \in wire[r] : g.kind = "snapshot" => ~(e.sequence <= g.superseded)
      <4>1. ASSUME NEW g \in wire[r], g.kind = "snapshot"
            PROVE  ~(e.sequence <= g.superseded)
        <5>1. g \in Frames BY DEF StreamTypeOK
        <5>2. g.superseded \in Nat BY <5>1 DEF Frames
        <5>. QED BY <1>2, <3>1, <3>4, <4>1, <5>2
      <4>. QED BY <4>1
    <3>6. SnapshotsTell(r)' BY <1>5, <3>1, <3>2, <3>5 DEF SnapshotsTell
    <3>. QED
      BY <2>1, <2>3, <2>4, <2>7, <2>8, <2>9, <2>10, <2>14, <3>3, <3>6 DEF ReaderInv
  <2>. QED BY <2>11, <2>12, <2>13, WriteGrows
<1>. QED BY <1>1, <1>6, <1>7, <1>8

(* Retention leaves the newest row and what a stream has still to send.    *)
LEMMA TrimKeeps == StreamInv /\ Trim => StreamInv'
<1>. SUFFICES ASSUME StreamInv, Trim PROVE StreamInv' OBVIOUS
<1>. USE DEF StreamInv, Trim
<1>1. /\ IInv' /\ Latest' = Latest /\ StateEvents' = StateEvents
      /\ events' = events /\ run' = run
  BY Steady
<1>2. Latest \in Nat /\ retained \in 1 .. Latest /\ retained' \in 1 .. Latest
      /\ retained < retained'
  BY LogShape DEF LogShaped, Retained
<1>3. StreamTypeOK' BY <1>1, <1>2 DEF IInv, StreamTypeOK
<1>4. Retained' BY <1>1, <1>2 DEF Retained
<1>5. ASSUME NEW r \in Readers PROVE ReaderInv(r)'
  <2>1. ReaderInv(r) OBVIOUS
  <2>2. Polling(r)' = Polling(r) BY DEF Polling
  <2>3. Cursors(r)' BY <1>1, <1>2, <2>1 DEF ReaderInv, Cursors
  <2>4. Handled(r)' BY <1>1, <1>2, <2>1 DEF ReaderInv, Handled
  <2>5. Missed(r)'
    <3>1. \A e \in events : e.sequence \in Nat BY LogShape DEF LogShaped
    <3>. QED BY <1>1, <1>2, <2>1, <2>2, <3>1 DEF ReaderInv, Missed
  <2>6. Framed(r)'
    <3>1. ASSUME NEW f \in wire[r], SnapshotInFlight(r, f)
          PROVE  SnapshotInFlight(r, f)'
      <4>1. f.superseded \in Nat BY <3>1 DEF SnapshotInFlight, Frames
      <4>. QED BY <1>2, <3>1, <4>1 DEF SnapshotInFlight
    <3>2. ASSUME NEW f \in wire[r], EventInFlight(r, f) PROVE EventInFlight(r, f)'
      BY <1>1, <3>2 DEF EventInFlight
    <3>. QED BY <2>1, <3>1, <3>2 DEF ReaderInv, Framed
  <2>7. Coming(r)' BY <1>1, <2>1 DEF ReaderInv, Coming, Superseded
  <2>8. Viewed(r)' BY <1>1, <2>1, <2>2 DEF ReaderInv, Viewed
  <2>9. SnapshotsTell(r)' BY <1>1, <2>1 DEF ReaderInv, SnapshotsTell
  <2>10. Ended(r)' BY <1>1, <2>1 DEF ReaderInv, Ended
  <2>11. Prefix(r)' BY <2>1, <2>2 DEF ReaderInv, Prefix
  <2>. QED
    BY <2>3, <2>4, <2>5, <2>6, <2>7, <2>8, <2>9, <2>10, <2>11 DEF ReaderInv
<1>. QED BY <1>1, <1>3, <1>4, <1>5

(* An event in flight has its sequence among those of the log.             *)
LEMMA FrameOf ==
  ASSUME StreamInv, NEW r \in Readers, NEW f \in wire[r]
  PROVE  /\ f.sequence \in Nat /\ f.sequence <= sent[r]
         /\ EventInFlight(r, f) => f.kind = "event"
         /\ SnapshotInFlight(r, f) => f.superseded \in Nat
<1>1. f \in Frames BY DEF StreamInv, StreamTypeOK
<1>2. EventInFlight(r, f) \/ SnapshotInFlight(r, f) BY DEF StreamInv, ReaderInv, Framed
<1>. QED BY <1>1, <1>2 DEF Frames, EventInFlight, SnapshotInFlight, EventFrame

(* A new stream: a snapshot for a client with no cursor or an expired one, *)
(* and every row that comes after.                                         *)
LEMMA ConnectKeeps == \A r \in Readers : StreamInv /\ Connect(r) => StreamInv'
<1>. SUFFICES ASSUME NEW r \in Readers, StreamInv, Connect(r) PROVE StreamInv'
  OBVIOUS
<1>. USE DEF StreamInv
<1>. DEFINE c       == reader[r].cursor
            expired == CursorExpired(c)
            start   == IF expired THEN Latest ELSE c
            first   == IF c = 0 \/ expired THEN {SnapshotFrame(start)} ELSE {}
            page    == After(start)
<1>1. /\ IInv' /\ Latest' = Latest /\ StateEvents' = StateEvents
      /\ events' = events /\ run' = run /\ UNCHANGED <<vars, retained, shown>>
  BY Steady DEF Connect
<1>2. /\ reader[r].at = "idle"
      /\ reader' = [reader EXCEPT ![r].at = "stream"]
      /\ wire' = [wire EXCEPT ![r] = first \cup {EventFrame(e) : e \in page}]
      /\ sent' = [sent EXCEPT ![r] = NextCursor(page, start)]
  BY DEF Connect
<1>3. ReaderInv(r) /\ Cursors(r) /\ wire[r] = {} BY <1>2 DEF ReaderInv, Cursors
<1>4. Latest \in Nat \ {0} /\ retained \in 1 .. Latest /\ c \in 0 .. Latest
  BY <1>3, LogShape DEF LogShaped, Retained, Cursors
<1>5. start \in 0 .. Latest /\ c <= start BY <1>4
<1>6. page = Between(Floor(start), Latest) BY <1>5, AfterIsInterval
<1>7. Floor(start) \in start .. Latest /\ retained - 1 <= Floor(start)
  BY <1>5, FloorIn
<1>8. NextCursor(page, start) = Latest
  <2>1. Floor(start) \in 0 .. Latest /\ Latest \in Floor(start) .. Latest
    BY <1>4, <1>5, <1>7
  <2>2. NextCursor(page, start) = IF Floor(start) = Latest THEN start ELSE Latest
    BY <1>6, <2>1, CursorOfInterval
  <2>. QED BY <1>5, <2>2, FloorIn
<1>9. /\ reader'[r].at = "stream" /\ reader'[r].cursor = c
      /\ reader'[r].goal = reader[r].goal /\ reader'[r].status = reader[r].status
      /\ wire'[r] = first \cup {EventFrame(e) : e \in page}
      /\ sent'[r] = Latest /\ shown'[r] = shown[r]
  BY <1>1, <1>2, <1>8 DEF StreamTypeOK
<1>10. \A e \in page : /\ e \in events /\ start < e.sequence
                       /\ e.sequence \in retained .. Latest
  BY <1>4, <1>5, <1>6, <1>7, LogShape DEF Between, LogShaped
<1>11. /\ SnapshotFrame(start) \in Frames
       /\ SnapshotFrame(start).kind = "snapshot" /\ SnapshotFrame(start).to = run.status
       /\ SnapshotFrame(start).sequence = start
       /\ SnapshotFrame(start).superseded = IF start = 0 THEN retained - 1 ELSE start
       /\ run.status \in TaskStatuses
  <2>1. start \in Nat /\ retained - 1 \in Nat BY <1>4, <1>5
  <2>2. run.status \in TaskStatuses BY DEF IInv, TypeOK, Runs
  <2>. HIDE DEF start
  <2>3. SnapshotFrame(start).superseded \in Nat
    BY <2>1 DEF SnapshotFrame, Earliest
  <2>. QED BY <2>1, <2>2, <2>3 DEF SnapshotFrame, Frames, Earliest
<1>12. StreamTypeOK'
  <2>1. \A e \in events : EventFrame(e) \in Frames
    BY DEF IInv, TypeOK, Events, EventFrame, Frames
  <2>2. wire'[r] \in SUBSET Frames BY <1>9, <1>10, <1>11, <2>1
  <2>3. sent'[r] \in Nat BY <1>4, <1>9
  <2>4. wire' \in [Readers -> SUBSET Frames] BY <1>2, <1>9, <2>2 DEF StreamTypeOK
  <2>5. sent' \in [Readers -> Nat] BY <1>2, <1>9, <2>3 DEF StreamTypeOK
  <2>6. reader' \in [Readers -> [at : Doing, cursor : Nat, goal : Nat,
                                 status : TaskStatuses \cup {None}]]
    BY <1>2 DEF StreamTypeOK, Doing
  <2>. QED BY <1>1, <2>4, <2>5, <2>6 DEF StreamTypeOK, IInv
<1>13. Retained' BY <1>1 DEF Retained
<1>14. Cursors(r)' BY <1>1, <1>3, <1>4, <1>9 DEF Cursors
<1>15. Handled(r)' BY <1>1, <1>3, <1>9 DEF ReaderInv, Handled
<1>16. ~Polling(r) /\ ~Polling(r)' BY <1>2, <1>9 DEF Polling
<1>17. Missed(r)' BY <1>1, <1>3, <1>9, <1>16 DEF ReaderInv, Missed
<1>18. \A n \in shown[r] : n \in Nat /\ (n <= c \/ n < retained)
  BY <1>3, <1>4 DEF ReaderInv, Handled
<1>19. \A e \in page : EventInFlight(r, EventFrame(e))'
  BY <1>1, <1>4, <1>5, <1>9, <1>10, <1>18 DEF EventInFlight
<1>20. ASSUME NEW g, g = SnapshotFrame(start), c = 0 \/ expired
       PROVE  SnapshotInFlight(r, g)'
  <2>1. /\ g \in Frames /\ g.kind = "snapshot" /\ g.to \in TaskStatuses
        /\ g.sequence = start /\ g.superseded = IF start = 0 THEN retained - 1 ELSE start
    BY <1>11, <1>20
  <2>2. (start = 0 /\ g.superseded < retained') \/ g.superseded = start
    BY <1>1, <1>4, <2>1
  <2>3. \A h \in wire'[r] \ {g} : \E e \in page : h = EventFrame(e)
    BY <1>9, <1>20
  <2>4. \A e \in page : /\ EventFrame(e).kind = "event"
                        /\ start < EventFrame(e).sequence
                        /\ g.superseded < EventFrame(e).sequence
    BY <1>4, <1>5, <1>10, <2>1 DEF EventFrame
  <2>. HIDE DEF start, expired, page
  <2>. QED BY <1>4, <1>5, <1>9, <2>1, <2>2, <2>3, <2>4 DEF SnapshotInFlight
<1>21. Framed(r)'
  <2>1. ASSUME NEW f \in wire'[r] PROVE EventInFlight(r, f)' \/ SnapshotInFlight(r, f)'
    <3>1. CASE \E e \in page : f = EventFrame(e) BY <1>19, <3>1
    <3>2. CASE f = SnapshotFrame(start) /\ (c = 0 \/ expired)
      BY <1>20, <3>2
    <3>. QED BY <1>9, <2>1, <3>1, <3>2
  <2>. QED BY <2>1 DEF Framed
<1>22. Coming(r)'
  <2>1. ASSUME NEW e \in events, c < e.sequence, e.sequence <= Latest
        PROVE  EventFrame(e) \in wire'[r]
               \/ \E g \in wire'[r] : g.kind = "snapshot" /\ e.sequence <= g.superseded
    <3>0. e.sequence \in 1 .. Latest BY LogShape DEF LogShaped
    <3>1. CASE expired
      BY <1>4, <1>9, <1>11, <2>1, <3>0, <3>1
    <3>2. CASE ~expired /\ c = 0
      <4>1. CASE e.sequence < retained
        <5>1. SnapshotFrame(start) \in wire'[r] BY <1>9, <3>2
        <5>2. e.sequence <= SnapshotFrame(start).superseded
          BY <1>4, <1>11, <3>0, <3>2, <4>1
        <5>. QED BY <1>11, <5>1, <5>2
      <4>2. CASE ~(e.sequence < retained)
        <5>1. e \in page BY <1>4, <3>0, <3>2, <4>2 DEF After, Rows
        <5>. QED BY <1>9, <5>1
      <4>. QED BY <4>1, <4>2
    <3>3. CASE ~expired /\ c # 0
      <4>1. retained <= e.sequence
        BY <1>4, <2>1, <3>0, <3>3 DEF CursorExpired, Earliest
      <4>2. e \in page BY <2>1, <3>3, <4>1 DEF After, Rows
      <4>. QED BY <1>9, <4>2
    <3>. QED BY <3>1, <3>2, <3>3
  <2>. QED BY <1>1, <1>9, <2>1 DEF Coming, Superseded
<1>23. Viewed(r)' BY <1>1, <1>3, <1>9, <1>16 DEF ReaderInv, Viewed
<1>24. SnapshotsTell(r)'
  <2>1. \A g \in wire'[r] : g.kind = "snapshot" => g = SnapshotFrame(start)
    BY <1>9 DEF EventFrame
  <2>. HIDE DEF start
  <2>. QED BY <1>1, <1>11, <2>1 DEF SnapshotsTell
<1>25. Ended(r)' BY <1>9 DEF Ended
<1>26. Prefix(r)' BY <1>3, <1>9, <1>16 DEF ReaderInv, Prefix
<1>27. ReaderInv(r)'
  BY <1>14, <1>15, <1>17, <1>21, <1>22, <1>23, <1>24, <1>25, <1>26 DEF ReaderInv
<1>28. ASSUME NEW q \in Readers, q # r PROVE ReaderInv(q)'
  BY <1>1, <1>2, <1>28, OthersKeep DEF StreamTypeOK
<1>. QED BY <1>1, <1>12, <1>13, <1>27, <1>28

(* The interval's callback sends what came after the closure's cursor.     *)
LEMMA FlushKeeps == \A r \in Readers : StreamInv /\ Flush(r) => StreamInv'
<1>. SUFFICES ASSUME NEW r \in Readers, StreamInv, Flush(r) PROVE StreamInv'
  OBVIOUS
<1>. USE DEF StreamInv
<1>. DEFINE c    == reader[r].cursor
            page == After(sent[r])
<1>1. /\ IInv' /\ Latest' = Latest /\ StateEvents' = StateEvents
      /\ events' = events /\ run' = run /\ UNCHANGED <<vars, retained, reader, shown>>
  BY Steady DEF Flush
<1>2. /\ reader[r].at = "stream"
      /\ wire' = [wire EXCEPT ![r] = @ \cup {EventFrame(e) : e \in page}]
      /\ sent' = [sent EXCEPT ![r] = NextCursor(page, @)]
  BY DEF Flush
<1>3. ReaderInv(r) OBVIOUS
<1>4. Latest \in Nat \ {0} /\ retained \in 1 .. Latest /\ c \in 0 .. Latest
      /\ sent[r] \in 0 .. Latest /\ c <= sent[r] /\ retained <= sent[r] + 1
  BY <1>2, <1>3, LogShape DEF LogShaped, Retained, ReaderInv, Cursors
<1>5. Floor(sent[r]) = sent[r] BY <1>4 DEF Floor
<1>6. page = Between(sent[r], Latest) BY <1>4, <1>5, AfterIsInterval
<1>7. NextCursor(page, sent[r]) = Latest
  <2>1. Latest \in sent[r] .. Latest BY <1>4
  <2>. QED BY <1>4, <1>6, <2>1, CursorOfInterval
<1>8. wire'[r] = wire[r] \cup {EventFrame(e) : e \in page} /\ sent'[r] = Latest
  BY <1>2, <1>7 DEF StreamTypeOK
<1>9. \A e \in page : e \in events /\ sent[r] < e.sequence /\ e.sequence <= Latest
  BY <1>6 DEF Between
<1>10. StreamTypeOK'
  <2>1. \A e \in events : EventFrame(e) \in Frames
    BY DEF IInv, TypeOK, Events, EventFrame, Frames
  <2>2. wire'[r] \in SUBSET Frames BY <1>8, <1>9, <2>1 DEF StreamTypeOK
  <2>3. sent'[r] \in Nat BY <1>4, <1>8
  <2>4. wire' \in [Readers -> SUBSET Frames] BY <1>2, <1>8, <2>2 DEF StreamTypeOK
  <2>5. sent' \in [Readers -> Nat] BY <1>2, <1>8, <2>3 DEF StreamTypeOK
  <2>. QED BY <1>1, <2>4, <2>5 DEF StreamTypeOK, IInv
<1>11. Retained' BY <1>1 DEF Retained
<1>12. Polling(r)' = Polling(r) BY <1>1 DEF Polling
<1>13. Cursors(r)' BY <1>1, <1>2, <1>3, <1>4, <1>8 DEF ReaderInv, Cursors
<1>14. Handled(r)' BY <1>1, <1>3 DEF ReaderInv, Handled
<1>15. Missed(r)' BY <1>1, <1>3, <1>12 DEF ReaderInv, Missed
<1>16. \A e \in page : EventInFlight(r, EventFrame(e))'
  <2>1. \A n \in shown[r] : n \in Nat /\ n <= sent[r]
    BY <1>3, <1>4 DEF ReaderInv, Handled
  <2>2. \A e \in page : e.sequence \in Nat BY <1>9, LogShape DEF LogShaped
  <2>. QED BY <1>1, <1>4, <1>8, <1>9, <2>1, <2>2 DEF EventInFlight
<1>17. ASSUME NEW f \in wire[r], EventInFlight(r, f) PROVE EventInFlight(r, f)'
  <2>1. PICK e \in events : /\ f = EventFrame(e)
                            /\ c < e.sequence /\ e.sequence <= sent[r]
                            /\ \A n \in shown[r] : n < e.sequence
    BY <1>17 DEF EventInFlight
  <2>2. e.sequence <= sent'[r] BY <1>8, LogShape DEF LogShaped
  <2>. QED BY <1>1, <2>1, <2>2 DEF EventInFlight
<1>18. ASSUME NEW f \in wire[r], SnapshotInFlight(r, f) PROVE SnapshotInFlight(r, f)'
  <2>1. f.sequence \in Nat /\ f.superseded \in Nat /\ f.sequence <= sent[r]
        /\ f.superseded <= sent[r]
    BY <1>4, <1>18 DEF SnapshotInFlight, Frames
  <2>2. \A e \in page : /\ EventFrame(e).kind = "event"
                        /\ EventFrame(e).sequence \in Nat
                        /\ sent[r] < EventFrame(e).sequence
    BY <1>9, LogShape DEF EventFrame, LogShaped
  <2>3. \A e \in page : f.sequence < EventFrame(e).sequence
                        /\ f.superseded < EventFrame(e).sequence
    BY <1>4, <2>1, <2>2
  <2>4. f.sequence <= sent'[r] BY <1>4, <1>8, <2>1
  <2>. QED BY <1>1, <1>8, <1>18, <2>2, <2>3, <2>4 DEF SnapshotInFlight
<1>19. Framed(r)'
  <2>1. ASSUME NEW f \in wire'[r] PROVE EventInFlight(r, f)' \/ SnapshotInFlight(r, f)'
    BY <1>3, <1>8, <1>16, <1>17, <1>18, <2>1 DEF ReaderInv, Framed
  <2>. QED BY <2>1 DEF Framed
<1>20. Coming(r)'
  <2>1. ASSUME NEW e \in events, c < e.sequence, e.sequence <= Latest
        PROVE  e.sequence \in shown[r] \/ EventFrame(e) \in wire'[r]
               \/ \E g \in wire'[r] : g.kind = "snapshot" /\ e.sequence <= g.superseded
    <3>1. CASE e.sequence <= sent[r]
      BY <1>2, <1>3, <1>8, <2>1, <3>1 DEF ReaderInv, Coming, Superseded
    <3>2. CASE ~(e.sequence <= sent[r])
      <4>1. e \in page BY <1>4, <1>6, <2>1, <3>2, LogShape DEF Between, LogShaped
      <4>. QED BY <1>8, <4>1
    <3>. QED BY <3>1, <3>2
  <2>. QED BY <1>1, <1>8, <2>1 DEF Coming, Superseded
<1>21. Viewed(r)' BY <1>1, <1>3, <1>12 DEF ReaderInv, Viewed
<1>22. SnapshotsTell(r)'
  <2>1. \A g \in wire'[r] : g.kind = "snapshot" => g \in wire[r]
    BY <1>8 DEF EventFrame
  <2>. QED BY <1>1, <1>3, <2>1 DEF ReaderInv, SnapshotsTell
<1>23. Ended(r)' BY <1>1, <1>2 DEF Ended
<1>24. Prefix(r)' BY <1>1, <1>3, <1>12 DEF ReaderInv, Prefix
<1>25. ReaderInv(r)'
  BY <1>13, <1>14, <1>15, <1>19, <1>20, <1>21, <1>22, <1>23, <1>24 DEF ReaderInv
<1>26. ASSUME NEW q \in Readers, q # r PROVE ReaderInv(q)'
  BY <1>1, <1>2, <1>26, OthersKeep DEF StreamTypeOK
<1>. QED BY <1>1, <1>10, <1>11, <1>25, <1>26

(* The status event with the greatest sequence tells the status.           *)
LEMMA LastTells ==
  ASSUME IInv, NEW e \in StateEvents, \A f \in StateEvents : f.sequence <= e.sequence
  PROVE  e.to = run.status
<1>1. PICK g \in StateEvents : g.to = run.status /\ \A f \in StateEvents : f.sequence <= g.sequence
  BY DEF IInv, LogTellsStatus
<1>2. g.sequence \in Nat /\ e.sequence \in Nat
  BY LogShape DEF LogShaped, StateEvents
<1>3. g.sequence = e.sequence BY <1>1, <1>2
<1>. QED BY <1>1, <1>3, LogShape DEF LogShaped, StateEvents

(* The frame a connection delivers next, with the effects it has in common *)
(* for events and snapshots.                                               *)
Delivered(r, f) ==
  /\ f \in wire[r] /\ \A g \in wire[r] : f.sequence <= g.sequence
  /\ reader[r].at = "stream" /\ reader'[r].at = "stream"
  /\ wire'[r] = wire[r] \ {f}
  /\ reader'[r].cursor = f.sequence /\ reader'[r].goal = reader[r].goal
  /\ reader'[r].status = IF f.to = None THEN reader[r].status ELSE f.to
  /\ shown'[r] = shown[r] \cup (IF f.kind = "snapshot" THEN 1 .. f.superseded
                                                       ELSE {f.sequence})
  /\ UNCHANGED <<run, events, retained, sent>>
  /\ Latest' = Latest /\ StateEvents' = StateEvents

(* An event is the next one not handled: there is no snapshot before it.   *)
LEMMA DeliverEvent ==
  ASSUME StreamInv, NEW r \in Readers, NEW f, Delivered(r, f), EventInFlight(r, f)
  PROVE  ReaderInv(r)'
<1>. USE DEF StreamInv, Delivered
<1>. DEFINE c == reader[r].cursor
<1>1. PICK x \in events : /\ f = EventFrame(x)
                          /\ c < x.sequence /\ x.sequence <= sent[r]
                          /\ \A n \in shown[r] : n < x.sequence
  BY DEF EventInFlight
<1>2. f.sequence = x.sequence /\ f.to = x.to /\ f.kind = "event" BY <1>1 DEF EventFrame
<1>3. ReaderInv(r) OBVIOUS
<1>4. Latest \in Nat \ {0} /\ c \in 0 .. Latest /\ sent[r] \in 0 .. Latest
      /\ x.sequence \in 1 .. Latest /\ retained \in 1 .. Latest
  BY <1>3, LogShape DEF LogShaped, ReaderInv, Cursors, Retained
<1>5. reader'[r].cursor = x.sequence /\ shown'[r] = shown[r] \cup {x.sequence}
  BY <1>2
<1>6. ASSUME NEW g \in wire[r] PROVE EventInFlight(r, g)
  <2>1. CASE SnapshotInFlight(r, g)
    <3>1. g.kind = "snapshot" /\ f \in wire[r] \ {g} BY <1>2, <2>1 DEF SnapshotInFlight
    <3>2. g.sequence < f.sequence BY <2>1, <3>1 DEF SnapshotInFlight
    <3>3. f.sequence <= g.sequence OBVIOUS
    <3>4. f.sequence \in Nat /\ g.sequence \in Nat BY FrameOf
    <3>. QED BY <3>2, <3>3, <3>4
  <2>. QED BY <1>3, <2>1 DEF ReaderInv, Framed
<1>7. \A g \in wire[r] : g.kind # "snapshot" BY <1>6 DEF EventInFlight, EventFrame
<1>8. Cursors(r)' BY <1>1, <1>3, <1>4, <1>5 DEF ReaderInv, Cursors
<1>9. Handled(r)' BY <1>1, <1>3, <1>4, <1>5 DEF ReaderInv, Handled
<1>10. ~Polling(r) /\ ~Polling(r)' BY DEF Polling
<1>11. ASSUME NEW e \in events, c < e.sequence, e.sequence <= sent[r]
       PROVE  e.sequence \in shown[r] \/ EventFrame(e) \in wire[r]
  BY <1>3, <1>7, <1>11 DEF ReaderInv, Coming, Superseded
<1>12. ASSUME NEW e \in events, e.sequence < x.sequence PROVE e.sequence \in shown[r]
  <2>1. e.sequence \in Nat BY LogShape DEF LogShaped
  <2>2. CASE e.sequence <= c BY <1>3, <1>10, <2>2 DEF ReaderInv, Missed
  <2>3. CASE c < e.sequence
    <3>1. e.sequence <= sent[r] BY <1>1, <1>4, <1>12, <2>1
    <3>2. EventFrame(e) \notin wire[r]
      <4>1. EventFrame(e).sequence = e.sequence BY DEF EventFrame
      <4>. QED BY <1>2, <1>4, <1>12, <2>1, <4>1
    <3>. QED BY <1>11, <2>3, <3>1, <3>2
  <2>. QED BY <1>4, <2>1, <2>2, <2>3
<1>13. Missed(r)'
  <2>1. ASSUME NEW e \in events, e.sequence <= x.sequence PROVE e.sequence \in shown'[r]
    BY <1>4, <1>5, <1>12, <2>1, LogShape DEF LogShaped
  <2>. QED BY <1>5, <2>1 DEF Missed
<1>14. Framed(r)'
  <2>1. ASSUME NEW g \in wire'[r] PROVE EventInFlight(r, g)'
    <3>1. PICK e \in events : /\ g = EventFrame(e)
                              /\ c < e.sequence /\ e.sequence <= sent[r]
                              /\ \A n \in shown[r] : n < e.sequence
      BY <1>6, <2>1 DEF EventInFlight
    <3>2. x.sequence <= e.sequence
      <4>1. g \in wire[r] /\ g.sequence = e.sequence BY <2>1, <3>1 DEF EventFrame
      <4>. QED BY <1>2, <4>1
    <3>3. e # x BY <1>1, <2>1, <3>1
    <3>4. e.sequence \in Nat /\ e.sequence # x.sequence
      BY <3>3, LogShape DEF LogShaped
    <3>5. x.sequence < e.sequence BY <1>4, <3>2, <3>4
    <3>. QED BY <1>5, <3>1, <3>5 DEF EventInFlight
  <2>. QED BY <2>1 DEF Framed
<1>15. Coming(r)'
  <2>1. ASSUME NEW e \in events, x.sequence < e.sequence, e.sequence <= sent[r]
        PROVE  e.sequence \in shown'[r] \/ EventFrame(e) \in wire'[r]
    <3>1. e.sequence \in Nat BY LogShape DEF LogShaped
    <3>2. c < e.sequence BY <1>1, <1>4, <2>1, <3>1
    <3>3. EventFrame(e) # f BY <1>2, <1>4, <2>1, <3>1 DEF EventFrame
    <3>. QED BY <1>5, <1>11, <2>1, <3>2, <3>3
  <2>. QED BY <1>5, <2>1 DEF Coming
<1>16. Viewed(r)'
  <2>. SUFFICES ASSUME \A e \in StateEvents : e.sequence \in shown'[r]
                PROVE  reader'[r].status = run.status
    BY <1>10 DEF Viewed
  <2>1. \A e \in StateEvents : e \in events /\ e.sequence \in Nat
    BY LogShape DEF LogShaped, StateEvents
  <2>2. CASE x.to = None
    <3>1. \A e \in StateEvents : e.sequence # x.sequence
      BY <2>1, <2>2, LogShape DEF LogShaped, StateEvents
    <3>2. \A e \in StateEvents : e.sequence \in shown[r] BY <1>5, <3>1
    <3>. QED BY <1>2, <1>3, <1>10, <2>2, <3>2 DEF ReaderInv, Viewed
  <2>3. CASE x.to # None
    <3>1. x \in StateEvents BY <2>3 DEF StateEvents
    <3>2. \A e \in StateEvents : e.sequence <= x.sequence
      BY <1>1, <1>4, <1>5, <2>1
    <3>. QED BY <1>2, <2>3, <3>1, <3>2, LastTells
  <2>. QED BY <2>2, <2>3
<1>17. SnapshotsTell(r)' BY <1>7 DEF SnapshotsTell
<1>18. Ended(r)' BY DEF Ended
<1>19. Prefix(r)'
  <2>1. ASSUME NEW m \in 1 .. x.sequence PROVE m \in shown'[r]
    <3>1. PICK e \in events : e.sequence = m BY <1>4, LogShape DEF LogShaped
    <3>. QED BY <1>4, <1>5, <1>12, <3>1
  <2>2. ASSUME NEW n \in shown[r], NEW m \in 1 .. n PROVE m \in shown'[r]
    BY <1>3, <1>5, <1>10 DEF ReaderInv, Prefix
  <2>. QED BY <1>5, <2>1, <2>2 DEF Prefix
<1>. QED
  BY <1>8, <1>9, <1>13, <1>14, <1>15, <1>16, <1>17, <1>18, <1>19 DEF ReaderInv

(* A snapshot comes before all events, and carries the status if they do   *)
(* not.                                                                    *)
LEMMA DeliverSnapshot ==
  ASSUME StreamInv, NEW r \in Readers, NEW f, Delivered(r, f), SnapshotInFlight(r, f)
  PROVE  ReaderInv(r)'
<1>. USE DEF StreamInv, Delivered
<1>. DEFINE c == reader[r].cursor
<1>1. ReaderInv(r) OBVIOUS
<1>2. /\ f.kind = "snapshot" /\ f.to \in TaskStatuses
      /\ f.sequence \in Nat /\ f.superseded \in Nat
      /\ c <= f.sequence /\ f.sequence <= sent[r]
      /\ (f.sequence = 0 /\ f.superseded < retained) \/ f.superseded = f.sequence
  BY DEF SnapshotInFlight, Frames
<1>3. Latest \in Nat \ {0} /\ c \in 0 .. Latest /\ sent[r] \in 0 .. Latest
      /\ retained \in 1 .. Latest
  BY <1>1, LogShape DEF LogShaped, ReaderInv, Cursors, Retained
<1>4. reader'[r].cursor = f.sequence /\ shown'[r] = shown[r] \cup 1 .. f.superseded
      /\ reader'[r].status = f.to
  BY <1>2, NoneAssumption
<1>5. \A h \in wire'[r] : /\ EventInFlight(r, h)
                          /\ f.sequence < h.sequence /\ f.superseded < h.sequence
  BY <1>1 DEF ReaderInv, Framed, SnapshotInFlight
<1>6. Cursors(r)' BY <1>1, <1>2, <1>3, <1>4 DEF ReaderInv, Cursors
<1>7. Handled(r)'
  <2>1. ASSUME NEW n \in shown'[r]
        PROVE  n \in 1 .. Latest /\ (n <= f.sequence \/ n < retained)
    <3>1. CASE n \in shown[r] BY <1>1, <1>2, <1>3, <3>1 DEF ReaderInv, Handled
    <3>2. CASE n \in 1 .. f.superseded BY <1>2, <1>3, <3>2
    <3>. QED BY <1>4, <2>1, <3>1, <3>2
  <2>. QED BY <1>4, <2>1 DEF Handled
<1>8. ~Polling(r) /\ ~Polling(r)' BY DEF Polling
<1>9. Missed(r)'
  <2>1. ASSUME NEW e \in events, e.sequence <= f.sequence PROVE e.sequence \in shown'[r]
    <3>1. e.sequence \in 1 .. Latest BY LogShape DEF LogShaped
    <3>. QED BY <1>2, <1>3, <1>4, <2>1, <3>1
  <2>. QED BY <1>4, <2>1 DEF Missed
<1>10. Framed(r)'
  <2>1. ASSUME NEW g \in wire'[r] PROVE EventInFlight(r, g)'
    <3>1. PICK e \in events : /\ g = EventFrame(e)
                              /\ c < e.sequence /\ e.sequence <= sent[r]
                              /\ \A n \in shown[r] : n < e.sequence
      BY <1>5, <2>1 DEF EventInFlight
    <3>2. g.sequence = e.sequence BY <3>1 DEF EventFrame
    <3>3. e.sequence \in Nat BY LogShape DEF LogShaped
    <3>4. \A n \in shown'[r] : n < e.sequence
      BY <1>2, <1>4, <1>5, <2>1, <3>1, <3>2, <3>3
    <3>. QED BY <1>4, <1>5, <2>1, <3>1, <3>2, <3>4 DEF EventInFlight
  <2>. QED BY <2>1 DEF Framed
<1>11. Coming(r)'
  <2>1. ASSUME NEW e \in events, f.sequence < e.sequence, e.sequence <= sent[r]
        PROVE  e.sequence \in shown'[r] \/ EventFrame(e) \in wire'[r]
    <3>1. e.sequence \in 1 .. Latest BY LogShape DEF LogShaped
    <3>2. c < e.sequence BY <1>2, <1>3, <2>1, <3>1
    <3>3. EventFrame(e) # f BY <1>2 DEF EventFrame
    <3>4. e.sequence \in shown[r] \/ EventFrame(e) \in wire[r] \/ Superseded(r, e.sequence)
      BY <1>1, <2>1, <3>2 DEF ReaderInv, Coming
    <3>5. ASSUME Superseded(r, e.sequence) PROVE e.sequence \in shown'[r]
      <4>1. PICK g \in wire[r] : g.kind = "snapshot" /\ e.sequence <= g.superseded
        BY <3>5 DEF Superseded
      <4>2. g = f BY <1>5, <4>1 DEF EventInFlight, EventFrame
      <4>. QED BY <1>2, <1>3, <1>4, <3>1, <4>1, <4>2
    <3>. QED BY <1>4, <3>3, <3>4, <3>5
  <2>. QED BY <1>4, <2>1 DEF Coming
<1>12. Viewed(r)'
  <2>. SUFFICES ASSUME \A e \in StateEvents : e.sequence \in shown'[r]
                PROVE  f.to = run.status
    BY <1>4, <1>8 DEF Viewed
  <2>1. \A e \in StateEvents : e.sequence \in shown[r] \/ e.sequence <= f.superseded
    BY <1>2, <1>4
  <2>. QED BY <1>1, <1>2, <2>1 DEF ReaderInv, SnapshotsTell
<1>13. SnapshotsTell(r)' BY <1>5 DEF SnapshotsTell, EventInFlight, EventFrame
<1>14. Ended(r)' BY DEF Ended
<1>15. Prefix(r)'
  <2>1. \A n \in 1 .. f.superseded : \A m \in 1 .. n : m \in 1 .. f.superseded BY <1>2
  <2>. QED BY <1>1, <1>4, <1>8, <2>1 DEF ReaderInv, Prefix
<1>. QED
  BY <1>6, <1>7, <1>9, <1>10, <1>11, <1>12, <1>13, <1>14, <1>15 DEF ReaderInv

LEMMA DeliverKeeps == \A r \in Readers : StreamInv /\ Deliver(r) => StreamInv'
<1>. SUFFICES ASSUME NEW r \in Readers, StreamInv, Deliver(r) PROVE StreamInv'
  OBVIOUS
<1>. USE DEF StreamInv
<1>1. PICK f \in wire[r] :
        /\ \A g \in wire[r] : f.sequence <= g.sequence
        /\ wire' = [wire EXCEPT ![r] = @ \ {f}]
        /\ reader' = [reader EXCEPT ![r].cursor = f.sequence,
                                    ![r].status = IF f.to = None THEN @ ELSE f.to]
        /\ shown' = [shown EXCEPT ![r] =
                       @ \cup (IF f.kind = "snapshot" THEN 1 .. f.superseded
                                                      ELSE {f.sequence})]
        /\ UNCHANGED <<vars, retained, sent>>
  BY DEF Deliver
<1>2. /\ IInv' /\ Latest' = Latest /\ StateEvents' = StateEvents
      /\ events' = events /\ run' = run
  BY <1>1, Steady
<1>3. f \in Frames BY DEF StreamTypeOK
<1>4. reader[r].at = "stream" BY <1>1 DEF ReaderInv, Cursors
<1>5. Delivered(r, f)
  <2>1. reader'[r] = [reader[r] EXCEPT !.cursor = f.sequence,
                                       !.status = IF f.to = None THEN @ ELSE f.to]
    BY <1>1 DEF StreamTypeOK
  <2>2. /\ reader'[r].at = "stream" /\ reader'[r].cursor = f.sequence
        /\ reader'[r].goal = reader[r].goal
        /\ reader'[r].status = IF f.to = None THEN reader[r].status ELSE f.to
    BY <1>4, <2>1 DEF StreamTypeOK
  <2>3. /\ wire'[r] = wire[r] \ {f}
        /\ shown'[r] = shown[r] \cup (IF f.kind = "snapshot" THEN 1 .. f.superseded
                                                             ELSE {f.sequence})
    BY <1>1 DEF StreamTypeOK
  <2>. QED BY <1>1, <1>2, <1>4, <2>2, <2>3 DEF Delivered
<1>6. ReaderInv(r)'
  BY <1>5, DeliverEvent, DeliverSnapshot DEF ReaderInv, Framed
<1>7. StreamTypeOK'
  <2>1. f.sequence \in Nat /\ f.superseded \in Nat /\ f.to \in TaskStatuses \cup {None}
    BY <1>3 DEF Frames
  <2>2. reader' \in [Readers -> [at : Doing, cursor : Nat, goal : Nat,
                                 status : TaskStatuses \cup {None}]]
    BY <1>1, <2>1 DEF StreamTypeOK
  <2>3. wire' \in [Readers -> SUBSET Frames] BY <1>1 DEF StreamTypeOK
  <2>4. 1 .. f.superseded \subseteq Nat BY <2>1
  <2>5. shown' \in [Readers -> SUBSET Nat] BY <1>1, <2>1, <2>4 DEF StreamTypeOK
  <2>. QED BY <1>1, <1>2, <2>2, <2>3, <2>5 DEF StreamTypeOK, IInv
<1>8. Retained' BY <1>1, <1>2 DEF Retained
<1>9. ASSUME NEW q \in Readers, q # r PROVE ReaderInv(q)'
  BY <1>1, <1>2, <1>9, OthersKeep DEF StreamTypeOK
<1>. QED BY <1>2, <1>6, <1>7, <1>8, <1>9

(* A lost connection: the client keeps its cursor and what it displays.    *)
LEMMA DisconnectKeeps == \A r \in Readers : StreamInv /\ Disconnect(r) => StreamInv'
<1>. SUFFICES ASSUME NEW r \in Readers, StreamInv, Disconnect(r) PROVE StreamInv'
  OBVIOUS
<1>. USE DEF StreamInv, Disconnect
<1>1. /\ IInv' /\ Latest' = Latest /\ StateEvents' = StateEvents
      /\ events' = events /\ run' = run
  BY Steady
<1>2. ReaderInv(r) OBVIOUS
<1>3. /\ reader'[r].at = "idle" /\ reader'[r].cursor = reader[r].cursor
      /\ reader'[r].goal = reader[r].goal /\ reader'[r].status = reader[r].status
      /\ wire'[r] = {} /\ sent'[r] = 0 /\ shown'[r] = shown[r] /\ retained' = retained
  BY DEF StreamTypeOK
<1>4. ~Polling(r) /\ ~Polling(r)' BY <1>3 DEF Polling
<1>5. StreamTypeOK' BY <1>1 DEF StreamTypeOK, IInv, Doing
<1>6. Retained' BY <1>1 DEF Retained
<1>7. Latest \in Nat BY LogShape DEF LogShaped
<1>8. Cursors(r)' BY <1>1, <1>2, <1>3, <1>7 DEF ReaderInv, Cursors
<1>9. Handled(r)' BY <1>1, <1>2, <1>3 DEF ReaderInv, Handled
<1>10. Missed(r)' BY <1>1, <1>2, <1>3, <1>4 DEF ReaderInv, Missed
<1>11. Framed(r)' /\ SnapshotsTell(r)' BY <1>3 DEF Framed, SnapshotsTell
<1>12. Coming(r)' /\ Ended(r)' BY <1>3 DEF Coming, Ended
<1>13. Viewed(r)' BY <1>1, <1>2, <1>3, <1>4 DEF ReaderInv, Viewed
<1>14. Prefix(r)' BY <1>2, <1>3, <1>4 DEF ReaderInv, Prefix
<1>15. ReaderInv(r)'
  BY <1>8, <1>9, <1>10, <1>11, <1>12, <1>13, <1>14 DEF ReaderInv
<1>16. ASSUME NEW q \in Readers, q # r PROVE ReaderInv(q)'
  BY <1>1, <1>16, OthersKeep DEF StreamTypeOK
<1>. QED BY <1>1, <1>5, <1>6, <1>15, <1>16

(* A command begins.                                                       *)
LEMMA StartPollingKeeps ==
  \A r \in Readers, command \in {"watch", "export"} :
    StreamInv /\ StartPolling(r, command) => StreamInv'
<1>. SUFFICES ASSUME NEW r \in Readers, NEW command \in {"watch", "export"},
                     StreamInv, StartPolling(r, command)
              PROVE  StreamInv'
  OBVIOUS
<1>. USE DEF StreamInv, StartPolling
<1>1. /\ IInv' /\ Latest' = Latest /\ StateEvents' = StateEvents
      /\ events' = events /\ run' = run
  BY Steady
<1>2. ReaderInv(r) OBVIOUS
<1>3. Latest \in Nat BY LogShape DEF LogShaped
<1>4. /\ reader'[r].at = command /\ reader'[r].cursor = reader[r].cursor
      /\ reader'[r].goal \in {0, Latest}
      /\ wire'[r] = wire[r] /\ sent'[r] = sent[r] /\ shown'[r] = shown[r]
      /\ retained' = retained
  BY DEF StreamTypeOK
<1>5. wire[r] = {} BY <1>2 DEF ReaderInv, Cursors
<1>6. Polling(r)' BY <1>4 DEF Polling
<1>7. StreamTypeOK'
  <2>. DEFINE g == IF command = "export" THEN Latest ELSE 0
  <2>1. g \in Nat /\ command \in Doing BY <1>3 DEF Doing
  <2>2. reader' = [reader EXCEPT ![r].at = command, ![r].goal = g] OBVIOUS
  <2>. HIDE DEF g, StartPolling
  <2>. DEFINE R == [at : Doing, cursor : Nat, goal : Nat, status : TaskStatuses \cup {None}]
  <2>4. \A x \in R : [x EXCEPT !.at = command, !.goal = g] \in R BY <2>1
  <2>5. reader \in [Readers -> R] BY DEF StreamTypeOK
  <2>. HIDE DEF R
  <2>3. reader' \in [Readers -> R] BY <2>2, <2>4, <2>5
  <2>. USE DEF R, StartPolling
  <2>. QED BY <1>1, <2>3 DEF StreamTypeOK, IInv
<1>8. Retained' BY <1>1 DEF Retained
<1>9. Cursors(r)' BY <1>1, <1>2, <1>3, <1>4, <1>5 DEF ReaderInv, Cursors
<1>10. Handled(r)' BY <1>1, <1>2, <1>4 DEF ReaderInv, Handled
<1>11. Missed(r)' BY <1>1, <1>2, <1>4, <1>6 DEF ReaderInv, Missed, Polling
<1>12. Framed(r)' /\ SnapshotsTell(r)' BY <1>4, <1>5 DEF Framed, SnapshotsTell
<1>13. Coming(r)' /\ Ended(r)' BY <1>4 DEF Coming, Ended
<1>14. Viewed(r)' /\ Prefix(r)' BY <1>6 DEF Viewed, Prefix
<1>15. ReaderInv(r)'
  BY <1>9, <1>10, <1>11, <1>12, <1>13, <1>14 DEF ReaderInv
<1>16. ASSUME NEW q \in Readers, q # r PROVE ReaderInv(q)'
  BY <1>1, <1>16, OthersKeep DEF StreamTypeOK
<1>. QED BY <1>1, <1>7, <1>8, <1>15, <1>16

(* A page: the interval of the log that follows the cursor or the trimmed  *)
(* rows.  An export that ends with it has come to the end of the log.      *)
LEMMA ReadPageKeeps ==
  \A r \in Readers, next \in {"details", "export", "exported"} :
    (/\ StreamInv /\ ReadPage(r, next)
     /\ reader[r].at \in {"watch", "export"}
     /\ next = "exported" => ShortPage(List(reader[r].cursor), reader[r].cursor))
      => StreamInv'
<1>. SUFFICES ASSUME NEW r \in Readers, NEW next \in {"details", "export", "exported"},
                     StreamInv, ReadPage(r, next), reader[r].at \in {"watch", "export"},
                     next = "exported" => ShortPage(List(reader[r].cursor), reader[r].cursor)
              PROVE  StreamInv'
  OBVIOUS
<1>. USE DEF StreamInv
<1>. DEFINE c == reader[r].cursor
<1>1. /\ IInv' /\ Latest' = Latest /\ StateEvents' = StateEvents
      /\ events' = events /\ run' = run
  BY Steady DEF ReadPage
<1>2. ReaderInv(r) OBVIOUS
<1>3. Latest \in Nat \ {0} /\ c \in 0 .. Latest /\ retained \in 1 .. Latest
      /\ reader[r].goal \in 0 .. Latest
  BY <1>2, LogShape DEF LogShaped, ReaderInv, Cursors, Retained
<1>4. /\ Floor(c) \in c .. Latest /\ Reach(c) \in Floor(c) .. Latest
      /\ Reach(c) = Floor(c) => c = Latest
      /\ Floor(c) = c \/ Floor(c) = retained - 1
      /\ retained - 1 <= Floor(c)
  BY <1>3, FloorIn
<1>5. List(c) = Between(Floor(c), Reach(c)) BY <1>3, ListIsInterval
<1>. DEFINE d == NextCursor(List(c), c)
<1>6. d = Reach(c)
  <2>1. Floor(c) \in 0 .. Latest BY <1>3, <1>4
  <2>2. d = IF Floor(c) = Reach(c) THEN c ELSE Reach(c)
    BY <1>4, <1>5, <2>1, CursorOfInterval
  <2>. HIDE DEF d
  <2>. QED BY <1>3, <1>4, <2>2
<1>7. SequencesOf(List(c)) = Floor(c) + 1 .. Reach(c)
  <2>1. ASSUME NEW n \in Floor(c) + 1 .. Reach(c) PROVE n \in SequencesOf(List(c))
    <3>1. n \in 1 .. Latest BY <1>3, <1>4
    <3>2. PICK e \in events : e.sequence = n BY <3>1, LogShape DEF LogShaped
    <3>. QED BY <1>3, <1>4, <1>5, <3>1, <3>2 DEF Between, SequencesOf
  <2>2. ASSUME NEW n \in SequencesOf(List(c)) PROVE n \in Floor(c) + 1 .. Reach(c)
    BY <1>3, <1>4, <1>5, LogShape DEF Between, SequencesOf, LogShaped
  <2>. QED BY <2>1, <2>2
<1>8. /\ reader'[r].at = next /\ reader'[r].cursor = Reach(c)
      /\ reader'[r].goal = reader[r].goal
      /\ shown'[r] = shown[r] \cup Floor(c) + 1 .. Reach(c)
      /\ wire'[r] = wire[r] /\ sent'[r] = sent[r] /\ retained' = retained
  BY <1>6, <1>7 DEF ReadPage, StreamTypeOK
<1>9. wire[r] = {} BY <1>2 DEF ReaderInv, Cursors
<1>10. Polling(r)' BY <1>8 DEF Polling
<1>11. StreamTypeOK'
  <2>1. Reach(c) \in Nat /\ Floor(c) + 1 .. Reach(c) \subseteq Nat BY <1>3, <1>4
  <2>2. reader' \in [Readers -> [at : Doing, cursor : Nat, goal : Nat,
                                 status : TaskStatuses \cup {None}]]
    BY <1>6, <2>1 DEF ReadPage, StreamTypeOK, Doing
  <2>3. shown' \in [Readers -> SUBSET Nat]
    BY <1>7, <2>1 DEF ReadPage, StreamTypeOK
  <2>. QED BY <1>1, <2>2, <2>3 DEF ReadPage, StreamTypeOK, IInv
<1>12. Retained' BY <1>1, <1>8 DEF Retained
<1>13. Cursors(r)' BY <1>1, <1>2, <1>3, <1>4, <1>8, <1>9 DEF ReaderInv, Cursors
<1>14. Handled(r)'
  <2>1. ASSUME NEW n \in shown'[r]
        PROVE  n \in 1 .. Latest /\ (n <= Reach(c) \/ n < retained)
    <3>1. CASE n \in shown[r] BY <1>2, <1>3, <1>4, <3>1 DEF ReaderInv, Handled
    <3>2. CASE n \in Floor(c) + 1 .. Reach(c) BY <1>3, <1>4, <3>2
    <3>. QED BY <1>8, <2>1, <3>1, <3>2
  <2>. QED BY <1>1, <1>8, <2>1 DEF Handled
<1>15. Missed(r)'
  <2>1. ASSUME NEW e \in events, e.sequence <= Reach(c)
        PROVE  e.sequence \in shown'[r] \/ e.sequence < retained
    <3>1. e.sequence \in 1 .. Latest BY LogShape DEF LogShaped
    <3>2. CASE e.sequence <= c BY <1>2, <1>8, <3>2 DEF ReaderInv, Missed
    <3>3. CASE c < e.sequence /\ e.sequence <= Floor(c) BY <1>3, <1>4, <3>1, <3>3
    <3>4. CASE Floor(c) < e.sequence BY <1>3, <1>4, <1>8, <2>1, <3>1, <3>4
    <3>. QED BY <1>3, <1>4, <3>1, <3>2, <3>3, <3>4
  <2>. QED BY <1>1, <1>8, <1>10, <2>1 DEF Missed
<1>16. Framed(r)' /\ SnapshotsTell(r)' BY <1>8, <1>9 DEF Framed, SnapshotsTell
<1>17. Coming(r)' BY <1>8 DEF Coming
<1>18. Viewed(r)' /\ Prefix(r)' BY <1>10 DEF Viewed, Prefix
<1>19. Ended(r)'
  <2>. SUFFICES ASSUME next = "exported" PROVE reader[r].goal <= Reach(c)
    BY <1>8 DEF Ended
  <2>1. Cardinality(List(c)) = Reach(c) - Floor(c)
    <3>1. Floor(c) \in 0 .. Latest BY <1>3, <1>4
    <3>. QED BY <1>4, <1>5, <3>1, BetweenCount
  <2>2. d = c \/ Cardinality(List(c)) < PageLimit BY DEF ShortPage
  <2>3. Reach(c) = Latest
    <3>1. CASE d = c BY <1>3, <1>4, <1>6, <3>1
    <3>2. CASE Reach(c) - Floor(c) < PageLimit
      BY <1>3, <1>4, <3>2, PageLimitAssumption DEF Reach
    <3>. QED BY <2>1, <2>2, <3>1, <3>2
  <2>. QED BY <1>3, <2>3
<1>20. ReaderInv(r)'
  BY <1>13, <1>14, <1>15, <1>16, <1>17, <1>18, <1>19 DEF ReaderInv
<1>21. ASSUME NEW q \in Readers, q # r PROVE ReaderInv(q)'
  BY <1>1, <1>21, OthersKeep DEF ReadPage, StreamTypeOK
<1>. QED BY <1>1, <1>11, <1>12, <1>20, <1>21

(* getTask: a watch ends on a terminal task only.                          *)
LEMMA WatchDetailsKeeps == \A r \in Readers : StreamInv /\ WatchDetails(r) => StreamInv'
<1>. SUFFICES ASSUME NEW r \in Readers, StreamInv, WatchDetails(r) PROVE StreamInv'
  OBVIOUS
<1>. USE DEF StreamInv, WatchDetails
<1>1. /\ IInv' /\ Latest' = Latest /\ StateEvents' = StateEvents
      /\ events' = events /\ run' = run
  BY Steady
<1>2. ReaderInv(r) OBVIOUS
<1>3. /\ reader'[r].at = IF run.status \in TerminalStatuses THEN "watched" ELSE "watch"
      /\ reader'[r].cursor = reader[r].cursor /\ reader'[r].goal = reader[r].goal
      /\ wire'[r] = wire[r] /\ sent'[r] = sent[r] /\ shown'[r] = shown[r]
      /\ retained' = retained
  BY DEF StreamTypeOK, IInv, RowsAgree
<1>4. Polling(r) /\ Polling(r)' BY <1>3 DEF Polling
<1>5. StreamTypeOK' BY <1>1 DEF StreamTypeOK, IInv, Doing
<1>6. Retained' BY <1>1 DEF Retained
<1>7. Cursors(r)' BY <1>1, <1>2, <1>3 DEF ReaderInv, Cursors
<1>8. Handled(r)' BY <1>1, <1>2, <1>3 DEF ReaderInv, Handled
<1>9. Missed(r)' BY <1>1, <1>2, <1>3, <1>4 DEF ReaderInv, Missed
<1>10. Framed(r)' /\ SnapshotsTell(r)'
  BY <1>2, <1>3 DEF ReaderInv, Cursors, Framed, SnapshotsTell
<1>11. Coming(r)' BY <1>3 DEF Coming
<1>12. Viewed(r)' /\ Prefix(r)' BY <1>4 DEF Viewed, Prefix
<1>13. Ended(r)' BY <1>1, <1>3 DEF Ended
<1>14. ReaderInv(r)'
  BY <1>7, <1>8, <1>9, <1>10, <1>11, <1>12, <1>13 DEF ReaderInv
<1>15. ASSUME NEW q \in Readers, q # r PROVE ReaderInv(q)'
  BY <1>1, <1>15, OthersKeep DEF StreamTypeOK
<1>. QED BY <1>1, <1>5, <1>6, <1>14, <1>15

----------------------------------------------------------------------------
LEMMA StreamBegins == StreamInit => StreamInv
<1>. SUFFICES ASSUME StreamInit PROVE StreamInv OBVIOUS
<1>. USE DEF StreamInit
<1>1. IInv BY InitIInv
<1>2. Latest \in Nat \ {0} BY <1>1, LogShape DEF LogShaped
<1>3. StreamTypeOK BY <1>1 DEF IInv, StreamTypeOK, Doing
<1>4. Retained BY <1>2 DEF Retained
<1>5. ASSUME NEW r \in Readers PROVE ReaderInv(r)
  <2>1. /\ reader[r].at = "idle" /\ reader[r].cursor = 0 /\ reader[r].goal = 0
        /\ wire[r] = {} /\ shown[r] = {} /\ sent[r] = 0
    OBVIOUS
  <2>2. \A e \in events : e.sequence \in 1 .. Latest BY <1>1, LogShape DEF LogShaped
  <2>3. StateEvents # {} BY <1>1 DEF IInv, LogTellsStatus
  <2>4. Cursors(r) /\ Handled(r) /\ Prefix(r) /\ Missed(r) /\ Framed(r)
    BY <1>2, <2>1, <2>2 DEF Cursors, Handled, Prefix, Missed, Framed
  <2>5. Coming(r) /\ Viewed(r) /\ SnapshotsTell(r) /\ Ended(r)
    BY <2>1, <2>3 DEF Coming, Viewed, SnapshotsTell, Ended
  <2>. QED BY <2>4, <2>5 DEF ReaderInv
<1>. QED BY <1>1, <1>3, <1>4, <1>5 DEF StreamInv

LEMMA StreamNextKeeps == StreamInv /\ [StreamNext]_streamVars => StreamInv'
<1>. SUFFICES ASSUME StreamInv, [StreamNext]_streamVars PROVE StreamInv'
  OBVIOUS
<1>1. CASE Write \/ Trim BY <1>1, WriteKeeps, TrimKeeps
<1>2. ASSUME NEW r \in Readers,
             Connect(r) \/ Flush(r) \/ Deliver(r) \/ Disconnect(r) \/ WatchDetails(r)
      PROVE  StreamInv'
  BY <1>2, ConnectKeeps, FlushKeeps, DeliverKeeps, DisconnectKeeps, WatchDetailsKeeps
<1>3. ASSUME NEW r \in Readers, NEW command \in {"watch", "export"},
             StartPolling(r, command)
      PROVE  StreamInv'
  BY <1>3, StartPollingKeeps
<1>4. ASSUME NEW r \in Readers, WatchPage(r) PROVE StreamInv'
  BY <1>4, ReadPageKeeps DEF WatchPage
<1>5. ASSUME NEW r \in Readers, ExportPage(r) PROVE StreamInv'
  <2>1. CASE ShortPage(List(reader[r].cursor), reader[r].cursor)
    <3>1. ReadPage(r, "exported") /\ reader[r].at = "export" BY <1>5, <2>1 DEF ExportPage
    <3>. QED BY <2>1, <3>1, ReadPageKeeps
  <2>2. CASE ~ShortPage(List(reader[r].cursor), reader[r].cursor)
    <3>1. ReadPage(r, "export") /\ reader[r].at = "export" BY <1>5, <2>2 DEF ExportPage
    <3>. QED BY <3>1, ReadPageKeeps
  <2>. QED BY <2>1, <2>2
<1>6. CASE UNCHANGED streamVars
  <2>1. UNCHANGED vars /\ UNCHANGED <<retained, reader, sent, wire, shown>>
    BY <1>6 DEF streamVars, readerVars
  <2>2. IInv' /\ Latest' = Latest BY <2>1, Steady DEF StreamInv
  <2>3. \A r \in Readers : ReaderInv(r)' BY <2>1, OthersKeep
  <2>. QED BY <2>1, <2>2, <2>3 DEF StreamInv, StreamTypeOK, IInv, Retained
<1>. QED BY <1>1, <1>2, <1>3, <1>4, <1>5, <1>6 DEF StreamNext

(* The invariant of the readers holds in every state.                      *)
THEOREM StreamInductive == StreamSpec => []StreamInv
BY StreamBegins, StreamNextKeeps, PTL DEF StreamSpec

(* Cursors, frames and what was handled stay well formed.                  *)
THEOREM StreamTypeCorrect == StreamSpec => []StreamTypeOK
<1>1. StreamInv => StreamTypeOK BY DEF StreamInv
<1>. QED BY <1>1, StreamInductive, PTL

(* No reader passes over an event, through lost connections, expired       *)
(* cursors and pages cut short (events.ts, runtime-client.ts).             *)
THEOREM NoEventMissed == StreamSpec => []NothingMissed
<1>1. StreamInv => NothingMissed BY DEF StreamInv, ReaderInv, Missed, NothingMissed
<1>. QED BY <1>1, StreamInductive, PTL

(* No reader is given an event it has handled.                             *)
THEOREM NoEventRepeated == StreamSpec => []NothingRepeated
<1>1. StreamInv => NothingRepeated
  <2>. SUFFICES ASSUME StreamInv, NEW r \in Readers PROVE Upcoming(r) \cap shown[r] = {}
    BY DEF NothingRepeated
  <2>1. ReaderInv(r) /\ IInv /\ Retained BY DEF StreamInv
  <2>2. Latest \in Nat BY <2>1, LogShape DEF LogShaped
  <2>3. CASE Polling(r)
    <3>. DEFINE c == reader[r].cursor
    <3>1. c \in 0 .. Latest BY <2>1 DEF ReaderInv, Cursors
    <3>2. List(c) = Between(Floor(c), Reach(c)) BY <2>1, <3>1, ListIsInterval
    <3>3. Floor(c) \in c .. Latest /\ retained - 1 <= Floor(c) /\ retained \in Nat
      BY <2>1, <3>1, FloorIn DEF Retained
    <3>4. \A n \in SequencesOf(List(c)) : n \in Nat /\ Floor(c) < n
      BY <2>1, <3>2, LogShape DEF Between, SequencesOf, LogShaped
    <3>5. \A n \in shown[r] : n \in Nat /\ n <= Floor(c)
      BY <2>1, <2>2, <3>1, <3>3 DEF ReaderInv, Handled
    <3>. QED BY <2>2, <2>3, <3>1, <3>3, <3>4, <3>5 DEF Upcoming
  <2>4. CASE ~Polling(r)
    <3>1. ASSUME NEW f \in wire[r], f.kind = "event" PROVE f.sequence \notin shown[r]
      <4>1. EventInFlight(r, f)
        BY <2>1, <3>1 DEF ReaderInv, Framed, SnapshotInFlight
      <4>2. PICK e \in events : f = EventFrame(e) /\ \A n \in shown[r] : n < e.sequence
        BY <4>1 DEF EventInFlight
      <4>3. f.sequence = e.sequence /\ e.sequence \in Nat
        BY <2>1, <4>2, LogShape DEF EventFrame, LogShaped
      <4>. QED BY <4>2, <4>3
    <3>. QED BY <2>4, <3>1 DEF Upcoming, SequencesOf
  <2>. QED BY <2>3, <2>4
<1>. QED BY <1>1, StreamInductive, PTL

(* A client at the end of the log displays the run's status.               *)
THEOREM CurrentView == StreamSpec => []ViewIsCurrent
<1>1. StreamInv => ViewIsCurrent
  <2>. SUFFICES ASSUME StreamInv, NEW r \in Readers,
                       reader[r].cursor = Latest, ~Polling(r)
                PROVE  reader[r].status = run.status
    BY DEF ViewIsCurrent
  <2>1. ReaderInv(r) /\ IInv BY DEF StreamInv
  <2>2. \A e \in StateEvents : e \in events /\ e.sequence \in 1 .. Latest
    BY <2>1, LogShape DEF LogShaped, StateEvents
  <2>3. Latest \in Nat BY <2>1, LogShape DEF LogShaped
  <2>4. \A e \in StateEvents : e.sequence \in shown[r]
    BY <2>1, <2>2, <2>3 DEF ReaderInv, Missed
  <2>. QED BY <2>1, <2>4 DEF ReaderInv, Viewed
<1>. QED BY <1>1, StreamInductive, PTL

(* What the next frame or page adds comes after all that was handled.      *)
LEMMA HandlesInOrder ==
  ASSUME StreamInv, [StreamNext]_streamVars, NEW r \in Readers,
         NEW n \in shown'[r] \ shown[r], NEW m \in shown[r]
  PROVE  m < n
<1>. USE DEF StreamInv
<1>1. ReaderInv(r) OBVIOUS
<1>2. Latest \in Nat \ {0} /\ retained \in 1 .. Latest /\ m \in 1 .. Latest
      /\ reader[r].cursor \in 0 .. Latest
  BY <1>1, LogShape DEF LogShaped, Retained, ReaderInv, Handled, Cursors
<1>3. CASE Deliver(r)
  <2>1. PICK f \in wire[r] :
          shown' = [shown EXCEPT ![r] =
                      @ \cup (IF f.kind = "snapshot" THEN 1 .. f.superseded
                                                     ELSE {f.sequence})]
    BY <1>3 DEF Deliver
  <2>2. shown'[r] = shown[r] \cup (IF f.kind = "snapshot" THEN 1 .. f.superseded
                                                          ELSE {f.sequence})
    BY <2>1 DEF StreamTypeOK
  <2>3. CASE EventInFlight(r, f)
    <3>1. f.kind = "event" BY <2>3, FrameOf
    <3>2. n = f.sequence BY <2>2, <3>1
    <3>. QED BY <2>3, <3>2 DEF EventInFlight, EventFrame
  <2>4. CASE SnapshotInFlight(r, f)
    <3>1. n \in 1 .. f.superseded /\ f.superseded \in Nat
      BY <2>2, <2>4, FrameOf DEF SnapshotInFlight
    <3>2. ~Polling(r) BY <1>1, <2>1 DEF ReaderInv, Cursors, Polling
    <3>3. n \notin 1 .. m BY <1>1, <3>2 DEF ReaderInv, Prefix
    <3>. QED BY <1>2, <3>1, <3>3
  <2>. QED BY <1>1, <2>3, <2>4 DEF ReaderInv, Framed
<1>4. ASSUME NEW next, ReadPage(r, next), Polling(r) PROVE m < n
  <2>. DEFINE c == reader[r].cursor
  <2>1. shown'[r] = shown[r] \cup SequencesOf(List(c))
    BY <1>4 DEF ReadPage, StreamTypeOK
  <2>2. List(c) = Between(Floor(c), Reach(c)) BY <1>2, ListIsInterval
  <2>3. n \in Nat /\ Floor(c) < n
    BY <2>1, <2>2, LogShape DEF Between, SequencesOf, LogShaped
  <2>4. Floor(c) \in c .. Latest /\ retained - 1 <= Floor(c) BY <1>2, FloorIn
  <2>5. m <= Floor(c) BY <1>1, <1>2, <2>4 DEF ReaderInv, Handled
  <2>. QED BY <1>2, <2>3, <2>4, <2>5
<1>5. CASE WatchPage(r) \/ ExportPage(r)
  <2>1. Polling(r) BY <1>5 DEF WatchPage, ExportPage, Polling
  <2>. QED BY <1>4, <1>5, <2>1 DEF WatchPage, ExportPage
<1>6. CASE shown'[r] = shown[r] BY <1>6
<1>7. ASSUME NEW q \in Readers, q # r,
             Deliver(q) \/ WatchPage(q) \/ ExportPage(q)
      PROVE  shown'[r] = shown[r]
  BY <1>7 DEF Deliver, WatchPage, ExportPage, ReadPage, StreamTypeOK
<1>8. ASSUME NEW q \in Readers,
             \/ Connect(q) \/ Flush(q) \/ Disconnect(q) \/ WatchDetails(q)
             \/ \E command \in {"watch", "export"} : StartPolling(q, command)
      PROVE  shown'[r] = shown[r]
  BY <1>8 DEF Connect, Flush, Disconnect, WatchDetails, StartPolling
<1>9. CASE Write \/ Trim \/ UNCHANGED streamVars
  BY <1>6, <1>9 DEF Write, Trim, streamVars, readerVars
<1>. QED BY <1>3, <1>5, <1>6, <1>7, <1>8, <1>9 DEF StreamNext

(* No reader is handed anything late, whatever reconnections, expired      *)
(* cursors and short pages its log is made of (onFrame, events.list).      *)
THEOREM InOrder == StreamSpec => HandledInOrder
<1>1. StreamInv /\ [StreamNext]_streamVars =>
        [\A r \in Readers : \A n \in shown'[r] \ shown[r] :
           \A m \in shown[r] : m < n]_streamVars
  BY HandlesInOrder
<1>. QED BY <1>1, StreamInductive, PTL DEF StreamSpec, HandledInOrder

(* An export is complete, and a watch ends with its run only.              *)
THEOREM CompleteCommands == StreamSpec => []CommandsFinish
<1>1. ASSUME StreamInv, NEW r \in Readers, reader[r].at = "watched"
      PROVE  run.status \in TerminalStatuses
  BY <1>1 DEF StreamInv, ReaderInv, Ended
<1>2. ASSUME StreamInv, NEW r \in Readers, reader[r].at = "exported",
             NEW n \in retained .. reader[r].goal
      PROVE  n \in shown[r]
  <2>1. ReaderInv(r) /\ IInv /\ Retained BY <1>2 DEF StreamInv
  <2>2. Latest \in Nat BY <2>1, LogShape DEF LogShaped
  <2>3. reader[r].goal <= reader[r].cursor /\ reader[r].goal \in 0 .. Latest
        /\ reader[r].cursor \in 0 .. Latest /\ retained \in 1 .. Latest
    BY <1>2, <2>1 DEF ReaderInv, Ended, Cursors, Retained
  <2>4. n \in 1 .. Latest /\ n <= reader[r].cursor /\ ~(n < retained) BY <2>2, <2>3
  <2>5. PICK e \in events : e.sequence = n BY <2>1, <2>4, LogShape DEF LogShaped
  <2>. QED BY <2>1, <2>4, <2>5 DEF ReaderInv, Missed
<1>3. StreamInv => CommandsFinish BY <1>1, <1>2 DEF CommandsFinish
<1>. QED BY <1>3, StreamInductive, PTL
=============================================================================
