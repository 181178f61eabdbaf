---------------------------- MODULE EventStream -----------------------------
(***************************************************************************)
(* The readers of a run's event log, on top of its writers (RunLedger):    *)
(* the WebSocket stream of api/events.ts with the streamEvents client of   *)
(* the SDK, and the two commands that page through GET .../events, task    *)
(* watch and trace export.                                                 *)
(*                                                                         *)
(* A request handler, one turn of the stream's timer and the handling of   *)
(* one frame are each one step: the handlers do not await.  A connection   *)
(* delivers the frames in the order they were sent, that is by ascending   *)
(* sequence, so the frames in flight are a set; they are lost with it.     *)
(* `events` is every event ever appended; the rows still in the table are  *)
(* those from `retained` on.                                               *)
(***************************************************************************)
EXTENDS RunLedger, FiniteSets

CONSTANTS Readers,   \* clients of the log
          PageLimit  \* the limit of a page, 200 for watch and 500 for export

ASSUME PageLimitAssumption == PageLimit \in Nat \ {0}

VARIABLES retained,  \* the least sequence retention has left in the table
          reader,    \* reader -> what it does, its cursor, the status it shows
          sent,      \* reader -> the cursor of the stream's closure
          wire,      \* reader -> frames sent and not yet handled
          shown      \* reader -> sequences handled, or superseded by a snapshot

readerVars == <<retained, reader, sent, wire, shown>>
streamVars == <<vars, readerVars>>

Doing == {"idle", "stream", "watch", "details", "watched", "export", "exported"}

(* kind, the cursor or sequence, the status carried; superseded is the last*)
(* of the events a snapshot stands for, a column the code does not have.   *)
Frames == [kind : {"event", "snapshot"}, sequence : Nat, to : TaskStatuses \cup {None},
           superseded : Nat]

StreamTypeOK ==
  /\ TypeOK
  /\ retained \in Nat \ {0}
  /\ reader \in [Readers -> [at : Doing, cursor : Nat, goal : Nat,
                             status : TaskStatuses \cup {None}]]
  /\ sent \in [Readers -> Nat]
  /\ wire \in [Readers -> SUBSET Frames]
  /\ shown \in [Readers -> SUBSET Nat]

----------------------------------------------------------------------------
(* RunEventRepository.bounds.                                              *)
Rows == {e \in events : e.sequence >= retained}
Earliest == retained
Latest == LatestSequence

(* RunEventRepository.list without its limit: what the loop over pages of  *)
(* 500 in flush sends, since it goes on until a page is short.             *)
After(cursor) == {e \in Rows : e.sequence > cursor}

(* Mutated form of List: the row at the cursor is returned again.          *)
ListFrom(cursor) ==
  {e \in Rows : /\ e.sequence >= cursor
                /\ Cardinality({f \in After(cursor) : f.sequence <= e.sequence}) <= PageLimit}

(* RunEventRepository.list: the first rows after the cursor, in order.     *)
List(cursor) ==
  {e \in After(cursor) :
     Cardinality({f \in After(cursor) : f.sequence <= e.sequence}) <= PageLimit}

SequencesOf(page) == {e.sequence : e \in page}

(* nextCursor: the cursor of the last row, or the one asked for.           *)
NextCursor(page, cursor) ==
  IF page = {} THEN cursor
  ELSE CHOOSE n \in SequencesOf(page) : \A m \in SequencesOf(page) : m <= n

EventFrame(e) ==
  [kind |-> "event", sequence |-> e.sequence, to |-> e.to, superseded |-> 0]

(* An initial snapshot (cursor 0) stands for the rows already trimmed, the *)
(* snapshot of an expired cursor for everything up to its cursor.          *)
SnapshotFrame(cursor) ==
  [kind |-> "snapshot", sequence |-> cursor, to |-> run.status,
   superseded |-> IF cursor = 0 THEN Earliest - 1 ELSE cursor]

(* Mutated form of CursorExpired: the comparison is off by two.            *)
CursorExpiredLate(after) == after > 0 /\ after + 3 < Earliest

CursorExpired(after) == after > 0 /\ after < Earliest - 1

----------------------------------------------------------------------------
StreamInit ==
  /\ Init
  /\ retained = 1
  /\ reader = [r \in Readers |-> [at |-> "idle", cursor |-> 0, goal |-> 0, status |-> None]]
  /\ sent = [r \in Readers |-> 0]
  /\ wire = [r \in Readers |-> {}]
  /\ shown = [r \in Readers |-> {}]

(* A writer of RunLedger takes a step; no reader notices.                  *)
Write == Next /\ UNCHANGED readerVars

(* Retention, which the expired-cursor branch and its test are written for *)
(* and no code under src/ performs: the newest row stays, and no row that  *)
(* an open stream has still to send is removed.                            *)
Trim ==
  /\ retained' \in retained + 1 .. Latest
  /\ \A r \in Readers : reader[r].at = "stream" => sent[r] >= retained' - 1
  /\ UNCHANGED <<vars, reader, sent, wire, shown>>

(* The stream's handler up to and including its first flush; the client    *)
(* passes the cursor of the last frame it handled.                         *)
Connect(r) ==
  LET after   == reader[r].cursor
      expired == CursorExpired(after)
      start   == IF expired THEN Latest ELSE after
      first   == IF after = 0 \/ expired THEN {SnapshotFrame(start)} ELSE {}
      page    == After(start)
  IN /\ reader[r].at = "idle"
     /\ reader' = [reader EXCEPT ![r].at = "stream"]
     /\ wire' = [wire EXCEPT ![r] = first \cup {EventFrame(e) : e \in page}]
     /\ sent' = [sent EXCEPT ![r] = NextCursor(page, start)]
     /\ UNCHANGED <<vars, retained, shown>>

(* Mutated form of Flush: the closure's cursor stays where it was.         *)
FlushAgain(r) ==
  /\ reader[r].at = "stream"
  /\ After(sent[r]) # {}
  /\ wire' = [wire EXCEPT ![r] = @ \cup {EventFrame(e) : e \in After(sent[r])}]
  /\ UNCHANGED <<vars, retained, reader, sent, shown>>

(* The interval's callback, on an open socket.                             *)
Flush(r) ==
  /\ reader[r].at = "stream"
  /\ After(sent[r]) # {}
  /\ wire' = [wire EXCEPT ![r] = @ \cup {EventFrame(e) : e \in After(sent[r])}]
  /\ sent' = [sent EXCEPT ![r] = NextCursor(After(sent[r]), @)]
  /\ UNCHANGED <<vars, retained, reader, shown>>

(* onFrame: the next frame of the connection.  The client keeps the cursor *)
(* it will reconnect with, and the status it displays.                     *)
Deliver(r) ==
  \E f \in wire[r] :
    /\ \A g \in wire[r] : f.sequence <= g.sequence
    /\ wire' = [wire EXCEPT ![r] = @ \ {f}]
    /\ reader' = [reader EXCEPT ![r].cursor = f.sequence,
                                ![r].status = IF f.to = None THEN @ ELSE f.to]
    /\ shown' = [shown EXCEPT ![r] =
                   @ \cup (IF f.kind = "snapshot" THEN 1 .. f.superseded ELSE {f.sequence})]
    /\ UNCHANGED <<vars, retained, sent>>

(* The socket closes: the client or the runtime went away, the frames in   *)
(* flight are lost, and the closure with its cursor.                       *)
Disconnect(r) ==
  /\ reader[r].at = "stream"
  /\ reader' = [reader EXCEPT ![r].at = "idle"]
  /\ wire' = [wire EXCEPT ![r] = {}]
  /\ sent' = [sent EXCEPT ![r] = 0]
  /\ UNCHANGED <<vars, retained, shown>>

(* nw task watch, nw trace export: a new process, with its cursor at zero. *)
(* goal is the latest event when an export began; the code has no such     *)
(* variable.                                                               *)
StartPolling(r, command) ==
  /\ reader[r].at = "idle" /\ reader[r].cursor = 0
  /\ reader' = [reader EXCEPT ![r].at = command,
                              ![r].goal = IF command = "export" THEN Latest ELSE 0]
  /\ UNCHANGED <<vars, retained, sent, wire, shown>>

(* One listEvents request and what the command does with its answer.       *)
ReadPage(r, next) ==
  LET cursor == reader[r].cursor
  IN /\ reader' = [reader EXCEPT ![r].at = next,
                                 ![r].cursor = NextCursor(List(cursor), cursor)]
     /\ shown' = [shown EXCEPT ![r] = @ \cup SequencesOf(List(cursor))]
     /\ UNCHANGED <<vars, retained, sent, wire>>

WatchPage(r) == reader[r].at = "watch" /\ ReadPage(r, "details")

(* Mutated form of WatchDetails: the command returns after its first page. *)
WatchDetailsOnce(r) ==
  /\ reader[r].at = "details"
  /\ reader' = [reader EXCEPT ![r].at = "watched"]
  /\ UNCHANGED <<vars, retained, sent, wire, shown>>

(* getTask; the command returns when the task is terminal, by tasks.status,*)
(* a copy of the run's.  (--once, which ends after one page, is left out.) *)
WatchDetails(r) ==
  /\ reader[r].at = "details"
  /\ reader' = [reader EXCEPT ![r].at =
                  IF taskStatus \in TerminalStatuses THEN "watched" ELSE "watch"]
  /\ UNCHANGED <<vars, retained, sent, wire, shown>>

(* Mutated form of ShortPage: a full page ends the export as well.         *)
AnyPage(page, cursor) == Cardinality(page) <= PageLimit

(* nextCursor = cursor, or fewer events than the limit.                    *)
ShortPage(page, cursor) ==
  NextCursor(page, cursor) = cursor \/ Cardinality(page) < PageLimit

ExportPage(r) ==
  LET cursor == reader[r].cursor
  IN /\ reader[r].at = "export"
     /\ ReadPage(r, IF ShortPage(List(cursor), cursor) THEN "exported" ELSE "export")

StreamNext ==
  \/ Write
  \/ Trim
  \/ \E r \in Readers :
       \/ Connect(r)
       \/ Flush(r)
       \/ Deliver(r)
       \/ Disconnect(r)
       \/ \E command \in {"watch", "export"} : StartPolling(r, command)
       \/ WatchPage(r)
       \/ WatchDetails(r)
       \/ ExportPage(r)

StreamSpec == StreamInit /\ [][StreamNext]_streamVars

----------------------------------------------------------------------------
Polling(r) == reader[r].at \in {"watch", "details", "watched", "export", "exported"}

(* A reader that has come to a cursor has been given every event up to it, *)
(* however often it lost its connection and whatever was appended between  *)
(* two pages or trimmed while it was away: directly, or through the        *)
(* snapshot sent for an expired cursor.  The commands, which get no        *)
(* snapshot, may miss what retention took away under them.                 *)
NothingMissed ==
  \A r \in Readers : \A e \in events :
    e.sequence <= reader[r].cursor =>
      \/ e.sequence \in shown[r]
      \/ Polling(r) /\ e.sequence < retained

Upcoming(r) ==
  IF Polling(r) THEN SequencesOf(List(reader[r].cursor))
  ELSE SequencesOf({f \in wire[r] : f.kind = "event"})

(* ... and no event twice: nothing in flight or on the next page has been  *)
(* handled before, across reconnections that resume from the cursor.       *)
NothingRepeated == \A r \in Readers : Upcoming(r) \cap shown[r] = {}

(* A reader handles the events in the order of the log, and a snapshot only*)
(* stands for what comes after all it has handled: across reconnections,   *)
(* expired cursors and pages nothing is handed to it late.                 *)
HandledInOrder ==
  [][\A r \in Readers : \A n \in shown'[r] \ shown[r] : \A m \in shown[r] : m < n]_streamVars

(* A client at the end of the log displays the status the run has: the     *)
(* initial snapshot, which is newer than the events replayed after it, the *)
(* snapshot of an expired cursor and the status events come to the same.   *)
ViewIsCurrent ==
  \A r \in Readers :
    (reader[r].cursor = Latest /\ ~Polling(r)) => reader[r].status = run.status

(* nw task watch returns only once the run has ended, and for good, though *)
(* what it tests is the copy in tasks (the events between its last page and*)
(* getTask are never printed).  trace export writes every event that was in*)
(* the log when it began and has not been trimmed, through any number of   *)
(* pages and whatever is appended meanwhile.                               *)
CommandsFinish ==
  \A r \in Readers :
    /\ reader[r].at = "watched" => run.status \in TerminalStatuses
    /\ reader[r].at = "exported" =>
         \A n \in retained .. reader[r].goal : n \in shown[r]
=============================================================================
