-------------------------- MODULE ToolAudit_proofs ---------------------------
(***************************************************************************)
(* What the audit of tool calls guarantees for any number of calls, any    *)
(* interleaving of their puts and processes, and any crashes.              *)
(***************************************************************************)
EXTENDS ToolAudit, TLAPS

(* What the row of a call and its put have come to tells where its dispatch*)
(* is, or where it ended.                                                  *)
StageInv ==
  \A c \in Calls :
    /\ stage[c] = "idle" <=> state[c] = "absent"
    /\ stage[c] = "intent" => state[c] = "INTENT"
    /\ stage[c] \in {"started", "executing", "storing"} => state[c] = "OPERATION_STARTED"
    /\ stage[c] = "returned" => state[c] = "OPERATION_FINISHED"
    /\ stage[c] = "checkpointing" => state[c] \in {"OPERATION_FINISHED", "UNKNOWN_OUTCOME"}
    /\ stage[c] = "storing" => putting[c] # "idle"
    /\ stage[c] \in {"started", "executing"} => putting[c] = "idle"
    /\ state[c] \in {"absent", "INTENT"} => putting[c] = "idle"
    /\ state[c] \in {"OPERATION_FINISHED", "UNKNOWN_OUTCOME"} => putting[c] = "stored"

(* A put that has placed its file, or inserted its row, finds it there.    *)
StoreInv ==
  \A c \in Calls :
    /\ putting[c] = "idle" => content[c] = None
    /\ putting[c] \in {"inserting", "stored"} => blob[content[c]] = "whole"
    /\ putting[c] = "stored" => artifact[c] = content[c]
    /\ artifact[c] # None => putting[c] = "stored"

(* A process is started once, after the row says so, and its effect is     *)
(* what its state in the container tells.                                  *)
ProcInv ==
  \A c \in Calls :
    /\ state[c] \in {"absent", "INTENT"} => proc[c] = "none"
    /\ stage[c] = "started" => proc[c] = "none"
    /\ proc[c] \in {"none", "running"} => effects[c] = 0
    /\ proc[c] \in {"done", "succeeded"} => effects[c] = 1
    /\ content[c] = "ok" => effects[c] = 1

(* The row and the bytes of the result name the same outcome.              *)
OutcomeInv ==
  \A c \in Calls :
    /\ state[c] = "OPERATION_FINISHED" => resultArtifact[c] = c /\ content[c] \in {"ok", "failed"}
    /\ state[c] = "UNKNOWN_OUTCOME" => resultArtifact[c] = c /\ content[c] = "unknown"

CheckpointInv ==
  checkpoint # None => state[checkpoint] \in {"OPERATION_FINISHED", "UNKNOWN_OUTCOME"}

(* While a step is verified nothing is unsettled but its own commands.     *)
RunInv ==
  /\ phase = "verifying" =>
       \A c \in Calls :
         c \in Unknown \/ stage[c] = "intent" => c \in checks
  /\ \A c \in committed :
       \/ state[c] = "OPERATION_FINISHED"
       \/ state[c] = "INTENT" /\ stage[c] = "rejected"

IInv == TypeOK /\ StageInv /\ StoreInv /\ ProcInv /\ OutcomeInv /\ CheckpointInv /\ RunInv

----------------------------------------------------------------------------
LEMMA InitInv == Init => IInv
<1>. SUFFICES ASSUME Init PROVE IInv OBVIOUS
<1>. USE NoneAssumption DEF Init, Store!StoreInit
<1>1. TypeOK BY DEF TypeOK, Store!StoreTypeOK, Store!InPut, Awaiting, Alive, States, Outcomes
<1>2. StageInv BY DEF StageInv
<1>3. StoreInv BY DEF StoreInv
<1>4. ProcInv BY DEF ProcInv, Outcomes
<1>5. OutcomeInv BY DEF OutcomeInv
<1>6. CheckpointInv /\ RunInv BY DEF CheckpointInv, RunInv
<1>. QED BY <1>1, <1>2, <1>3, <1>4, <1>5, <1>6 DEF IInv

(* The state of the container is well formed: no effect is counted twice.  *)
LEMMA BoxTypeKept == TypeOK /\ ProcInv /\ [Next]_vars => TypeOK'
<1>. SUFFICES ASSUME TypeOK, ProcInv, [Next]_vars PROVE TypeOK' OBVIOUS
<1>. USE DEF TypeOK, Store!StoreTypeOK, Store!InPut, Awaiting, Alive, States, Enter, Store!Goto,
             putVars, rowVars, boxVars, runVars
<1>1. ASSUME NEW c \in Calls, NEW tool \in Tools, ModelCalls(c, tool) PROVE TypeOK'
  BY <1>1 DEF ModelCalls, CreateIntent, CreateIntentAnew
<1>2. ASSUME NEW c \in Calls, Verify(c) PROVE TypeOK'
  BY <1>2 DEF Verify, ToolboxCall, CreateIntent, CreateIntentAnew, Tools
<1>3. ASSUME NEW c \in Calls, MarkStarted(c) PROVE TypeOK'
  BY <1>3 DEF MarkStarted
<1>4. ASSUME NEW c \in Calls, ExecStarts(c) PROVE TypeOK'
  BY <1>4 DEF ExecStarts
<1>5. ASSUME NEW c \in Calls, ExecThrows(c) PROVE TypeOK'
  BY <1>5, NoneAssumption DEF ExecThrows, Persist, Store!Put, Outcomes
<1>6. ASSUME NEW c \in Calls, StreamEnds(c) PROVE TypeOK'
  BY <1>6, NoneAssumption DEF StreamEnds, Persist, Store!Put, ExitCode, Outcomes
<1>7. ASSUME NEW c \in Calls, StreamBreaks(c) PROVE TypeOK'
  BY <1>7, NoneAssumption DEF StreamBreaks, Persist, Store!Put, Outcomes
<1>8. ASSUME NEW c \in Calls, Storing(c) PROVE TypeOK'
  BY <1>8 DEF Storing, Store!Written, Store!Placed, Store!Inserted
<1>9. ASSUME NEW c \in Calls, Mark(c) PROVE TypeOK'
  BY <1>9 DEF Mark, MarkAtOnce
<1>10. ASSUME NEW c \in Calls, Checkpoint(c) PROVE TypeOK'
  BY <1>10 DEF Checkpoint
<1>11. ASSUME NEW c \in Calls, Reject(c) PROVE TypeOK'
  BY <1>11 DEF Reject, Store!Failed
<1>12. ASSUME NEW c \in Calls, TakesEffect(c) PROVE TypeOK'
  BY <1>12 DEF TakesEffect, ProcInv
<1>13. ASSUME NEW c \in Calls, Exits(c) PROVE TypeOK'
  BY <1>13 DEF Exits
<1>14. ASSUME NEW c \in Calls, Timeout(c) PROVE TypeOK'
  BY <1>14 DEF Timeout
<1>15. CASE KillEnds BY <1>15 DEF KillEnds
<1>16. CASE TurnEnds BY <1>16 DEF TurnEnds
<1>17. CASE VerificationThrows BY <1>17 DEF VerificationThrows
<1>18. CASE StepEnds BY <1>18 DEF StepEnds
<1>19. CASE Resume BY <1>19 DEF Resume
<1>20. CASE Crash BY <1>20 DEF Crash, Store!Died
<1>21. CASE UNCHANGED vars BY <1>21 DEF vars
<1>. QED BY <1>1, <1>2, <1>3, <1>4, <1>5, <1>6, <1>7, <1>8, <1>9, <1>10, <1>11, <1>12,
            <1>13, <1>14, <1>15, <1>16, <1>17, <1>18, <1>19, <1>20, <1>21 DEF Next

(* Row, put and dispatch keep step.                                        *)
LEMMA StageKept == TypeOK /\ StageInv /\ OutcomeInv /\ [Next]_vars => StageInv'
<1>. SUFFICES ASSUME TypeOK, StageInv, OutcomeInv, [Next]_vars PROVE StageInv' OBVIOUS
<1>. USE DEF TypeOK, StageInv, Store!StoreTypeOK, StageInv, Store!InPut, Awaiting, Enter, Store!Goto,
             putVars, rowVars, boxVars, runVars
<1>1. ASSUME NEW c \in Calls, NEW tool \in Tools, ModelCalls(c, tool) PROVE StageInv'
  BY <1>1 DEF ModelCalls, CreateIntent, CreateIntentAnew
<1>2. ASSUME NEW c \in Calls, Verify(c) PROVE StageInv'
  BY <1>2 DEF Verify, ToolboxCall, CreateIntent, CreateIntentAnew
<1>3. ASSUME NEW c \in Calls, MarkStarted(c) PROVE StageInv'
  BY <1>3 DEF MarkStarted
<1>4. ASSUME NEW c \in Calls, ExecStarts(c) PROVE StageInv'
  BY <1>4 DEF ExecStarts
<1>5. ASSUME NEW c \in Calls, ExecThrows(c) PROVE StageInv'
  BY <1>5 DEF ExecThrows, Persist, Store!Put
<1>6. ASSUME NEW c \in Calls, StreamEnds(c) PROVE StageInv'
  BY <1>6 DEF StreamEnds, Persist, Store!Put
<1>7. ASSUME NEW c \in Calls, StreamBreaks(c) PROVE StageInv'
  BY <1>7 DEF StreamBreaks, Persist, Store!Put
<1>8. ASSUME NEW c \in Calls, Storing(c) PROVE StageInv'
  BY <1>8 DEF Storing, Store!Written, Store!Placed, Store!Inserted
<1>9. ASSUME NEW c \in Calls, Mark(c) PROVE StageInv'
  BY <1>9 DEF Mark, MarkAtOnce
<1>10. ASSUME NEW c \in Calls, Checkpoint(c) PROVE StageInv'
  BY <1>10 DEF Checkpoint, OutcomeInv
<1>11. ASSUME NEW c \in Calls, Reject(c) PROVE StageInv'
  BY <1>11 DEF Reject, Store!Failed
<1>12. ASSUME NEW c \in Calls, TakesEffect(c) PROVE StageInv'
  BY <1>12 DEF TakesEffect
<1>13. ASSUME NEW c \in Calls, Exits(c) PROVE StageInv'
  BY <1>13 DEF Exits
<1>14. ASSUME NEW c \in Calls, Timeout(c) PROVE StageInv'
  BY <1>14 DEF Timeout
<1>15. CASE KillEnds BY <1>15 DEF KillEnds
<1>16. CASE TurnEnds BY <1>16 DEF TurnEnds
<1>17. CASE VerificationThrows BY <1>17 DEF VerificationThrows
<1>18. CASE StepEnds BY <1>18 DEF StepEnds
<1>19. CASE Resume BY <1>19 DEF Resume
<1>20. CASE Crash BY <1>20 DEF Crash, Store!Died
<1>21. CASE UNCHANGED vars BY <1>21 DEF vars
<1>. QED BY <1>1, <1>2, <1>3, <1>4, <1>5, <1>6, <1>7, <1>8, <1>9, <1>10, <1>11, <1>12,
            <1>13, <1>14, <1>15, <1>16, <1>17, <1>18, <1>19, <1>20, <1>21 DEF Next

(* A file that a row refers to stays, whatever other puts do to it.        *)
LEMMA StoreKept == TypeOK /\ StoreInv /\ [Next]_vars => StoreInv'
<1>. SUFFICES ASSUME TypeOK, StoreInv, [Next]_vars PROVE StoreInv' OBVIOUS
<1>. USE DEF TypeOK, StoreInv, Store!StoreTypeOK, StoreInv, Store!InPut, Awaiting, Enter, Store!Goto,
             putVars, rowVars, boxVars, runVars
<1>1. ASSUME NEW c \in Calls, NEW tool \in Tools, ModelCalls(c, tool) PROVE StoreInv'
  BY <1>1 DEF ModelCalls, CreateIntent, CreateIntentAnew
<1>2. ASSUME NEW c \in Calls, Verify(c) PROVE StoreInv'
  BY <1>2 DEF Verify, ToolboxCall, CreateIntent, CreateIntentAnew
<1>3. ASSUME NEW c \in Calls, MarkStarted(c) PROVE StoreInv'
  BY <1>3 DEF MarkStarted
<1>4. ASSUME NEW c \in Calls, ExecStarts(c) PROVE StoreInv'
  BY <1>4 DEF ExecStarts
<1>5. ASSUME NEW c \in Calls, ExecThrows(c) PROVE StoreInv'
  BY <1>5, NoneAssumption DEF ExecThrows, Persist, Store!Put, Outcomes
<1>6. ASSUME NEW c \in Calls, StreamEnds(c) PROVE StoreInv'
  BY <1>6, NoneAssumption DEF StreamEnds, Persist, Store!Put, Outcomes
<1>7. ASSUME NEW c \in Calls, StreamBreaks(c) PROVE StoreInv'
  BY <1>7, NoneAssumption DEF StreamBreaks, Persist, Store!Put, Outcomes
<1>8. ASSUME NEW c \in Calls, Storing(c) PROVE StoreInv'
  BY <1>8, NoneAssumption DEF Storing, Store!Written, Store!Placed, Store!Inserted, Outcomes
<1>9. ASSUME NEW c \in Calls, Mark(c) PROVE StoreInv'
  BY <1>9 DEF Mark, MarkAtOnce
<1>10. ASSUME NEW c \in Calls, Checkpoint(c) PROVE StoreInv'
  BY <1>10 DEF Checkpoint
<1>11. ASSUME NEW c \in Calls, Reject(c) PROVE StoreInv'
  BY <1>11 DEF Reject, Store!Failed
<1>12. ASSUME NEW c \in Calls, TakesEffect(c) PROVE StoreInv'
  BY <1>12 DEF TakesEffect
<1>13. ASSUME NEW c \in Calls, Exits(c) PROVE StoreInv'
  BY <1>13 DEF Exits
<1>14. ASSUME NEW c \in Calls, Timeout(c) PROVE StoreInv'
  BY <1>14 DEF Timeout
<1>15. CASE KillEnds BY <1>15 DEF KillEnds
<1>16. CASE TurnEnds BY <1>16 DEF TurnEnds
<1>17. CASE VerificationThrows BY <1>17 DEF VerificationThrows
<1>18. CASE StepEnds BY <1>18 DEF StepEnds
<1>19. CASE Resume BY <1>19 DEF Resume
<1>20. CASE Crash BY <1>20 DEF Crash, Store!Died
<1>21. CASE UNCHANGED vars BY <1>21 DEF vars
<1>. QED BY <1>1, <1>2, <1>3, <1>4, <1>5, <1>6, <1>7, <1>8, <1>9, <1>10, <1>11, <1>12,
            <1>13, <1>14, <1>15, <1>16, <1>17, <1>18, <1>19, <1>20, <1>21 DEF Next

(* What a process has done agrees with what is said of it.                 *)
LEMMA ProcKept == TypeOK /\ StageInv /\ StoreInv /\ ProcInv /\ [Next]_vars => ProcInv'
<1>. SUFFICES ASSUME TypeOK, StageInv, StoreInv, ProcInv, [Next]_vars PROVE ProcInv' OBVIOUS
<1>. USE DEF TypeOK, ProcInv, Store!StoreTypeOK, ProcInv, Store!InPut, Awaiting, Enter, Store!Goto,
             putVars, rowVars, boxVars, runVars
<1>1. ASSUME NEW c \in Calls, NEW tool \in Tools, ModelCalls(c, tool) PROVE ProcInv'
  BY <1>1 DEF ModelCalls, CreateIntent, CreateIntentAnew
<1>2. ASSUME NEW c \in Calls, Verify(c) PROVE ProcInv'
  BY <1>2 DEF Verify, ToolboxCall, CreateIntent, CreateIntentAnew
<1>3. ASSUME NEW c \in Calls, MarkStarted(c) PROVE ProcInv'
  BY <1>3 DEF MarkStarted, StageInv
<1>4. ASSUME NEW c \in Calls, ExecStarts(c) PROVE ProcInv'
  BY <1>4 DEF ExecStarts, StageInv, Alive
<1>5. ASSUME NEW c \in Calls, ExecThrows(c) PROVE ProcInv'
  BY <1>5 DEF ExecThrows, Persist, Store!Put, StageInv
<1>6. ASSUME NEW c \in Calls, StreamEnds(c) PROVE ProcInv'
  BY <1>6 DEF StreamEnds, Persist, Store!Put, StageInv, ExitCode
<1>7. ASSUME NEW c \in Calls, StreamBreaks(c) PROVE ProcInv'
  BY <1>7 DEF StreamBreaks, Persist, Store!Put, StageInv
<1>8. ASSUME NEW c \in Calls, Storing(c) PROVE ProcInv'
  BY <1>8 DEF Storing, Store!Written, Store!Placed, Store!Inserted
<1>9. ASSUME NEW c \in Calls, Mark(c) PROVE ProcInv'
  BY <1>9 DEF Mark, MarkAtOnce, StageInv
<1>10. ASSUME NEW c \in Calls, Checkpoint(c) PROVE ProcInv'
  BY <1>10 DEF Checkpoint, StageInv
<1>11. ASSUME NEW c \in Calls, Reject(c) PROVE ProcInv'
  BY <1>11 DEF Reject, Store!Failed
<1>12. ASSUME NEW c \in Calls, TakesEffect(c) PROVE ProcInv'
  BY <1>12 DEF TakesEffect
<1>13. ASSUME NEW c \in Calls, Exits(c) PROVE ProcInv'
  BY <1>13 DEF Exits, StageInv, Alive
<1>14. ASSUME NEW c \in Calls, Timeout(c) PROVE ProcInv'
  BY <1>14 DEF Timeout
<1>15. CASE KillEnds BY <1>15 DEF KillEnds, StageInv, Alive
<1>16. CASE TurnEnds BY <1>16 DEF TurnEnds
<1>17. CASE VerificationThrows BY <1>17 DEF VerificationThrows
<1>18. CASE StepEnds BY <1>18 DEF StepEnds
<1>19. CASE Resume BY <1>19 DEF Resume
<1>20. CASE Crash BY <1>20 DEF Crash, Store!Died
<1>21. CASE UNCHANGED vars BY <1>21 DEF vars
<1>. QED BY <1>1, <1>2, <1>3, <1>4, <1>5, <1>6, <1>7, <1>8, <1>9, <1>10, <1>11, <1>12,
            <1>13, <1>14, <1>15, <1>16, <1>17, <1>18, <1>19, <1>20, <1>21 DEF Next

(* Row and bytes name the same outcome.                                    *)
LEMMA OutcomeKept == TypeOK /\ StageInv /\ StoreInv /\ OutcomeInv /\ [Next]_vars => OutcomeInv'
<1>. SUFFICES ASSUME TypeOK, StageInv, StoreInv, OutcomeInv, [Next]_vars PROVE OutcomeInv' OBVIOUS
<1>. USE DEF TypeOK, OutcomeInv, Store!StoreTypeOK, OutcomeInv, Store!InPut, Awaiting, Enter, Store!Goto,
             putVars, rowVars, boxVars, runVars
<1>1. ASSUME NEW c \in Calls, NEW tool \in Tools, ModelCalls(c, tool) PROVE OutcomeInv'
  BY <1>1 DEF ModelCalls, CreateIntent, CreateIntentAnew
<1>2. ASSUME NEW c \in Calls, Verify(c) PROVE OutcomeInv'
  BY <1>2 DEF Verify, ToolboxCall, CreateIntent, CreateIntentAnew
<1>3. ASSUME NEW c \in Calls, MarkStarted(c) PROVE OutcomeInv'
  BY <1>3 DEF MarkStarted
<1>4. ASSUME NEW c \in Calls, ExecStarts(c) PROVE OutcomeInv'
  BY <1>4 DEF ExecStarts
<1>5. ASSUME NEW c \in Calls, ExecThrows(c) PROVE OutcomeInv'
  BY <1>5 DEF ExecThrows, Persist, Store!Put, StageInv
<1>6. ASSUME NEW c \in Calls, StreamEnds(c) PROVE OutcomeInv'
  BY <1>6 DEF StreamEnds, Persist, Store!Put, StageInv
<1>7. ASSUME NEW c \in Calls, StreamBreaks(c) PROVE OutcomeInv'
  BY <1>7 DEF StreamBreaks, Persist, Store!Put, StageInv
<1>8. ASSUME NEW c \in Calls, Storing(c) PROVE OutcomeInv'
  BY <1>8 DEF Storing, Store!Written, Store!Placed, Store!Inserted
<1>9. ASSUME NEW c \in Calls, Mark(c) PROVE OutcomeInv'
  BY <1>9 DEF Mark, MarkAtOnce, StageInv, Outcomes
<1>10. ASSUME NEW c \in Calls, Checkpoint(c) PROVE OutcomeInv'
  BY <1>10 DEF Checkpoint
<1>11. ASSUME NEW c \in Calls, Reject(c) PROVE OutcomeInv'
  BY <1>11 DEF Reject, Store!Failed
<1>12. ASSUME NEW c \in Calls, TakesEffect(c) PROVE OutcomeInv'
  BY <1>12 DEF TakesEffect
<1>13. ASSUME NEW c \in Calls, Exits(c) PROVE OutcomeInv'
  BY <1>13 DEF Exits
<1>14. ASSUME NEW c \in Calls, Timeout(c) PROVE OutcomeInv'
  BY <1>14 DEF Timeout
<1>15. CASE KillEnds BY <1>15 DEF KillEnds
<1>16. CASE TurnEnds BY <1>16 DEF TurnEnds
<1>17. CASE VerificationThrows BY <1>17 DEF VerificationThrows
<1>18. CASE StepEnds BY <1>18 DEF StepEnds
<1>19. CASE Resume BY <1>19 DEF Resume
<1>20. CASE Crash BY <1>20 DEF Crash, Store!Died
<1>21. CASE UNCHANGED vars BY <1>21 DEF vars
<1>. QED BY <1>1, <1>2, <1>3, <1>4, <1>5, <1>6, <1>7, <1>8, <1>9, <1>10, <1>11, <1>12,
            <1>13, <1>14, <1>15, <1>16, <1>17, <1>18, <1>19, <1>20, <1>21 DEF Next

(* The operation a checkpoint names stays ended.                           *)
LEMMA CheckpointKept == TypeOK /\ StageInv /\ CheckpointInv /\ [Next]_vars => CheckpointInv'
<1>. SUFFICES ASSUME TypeOK, StageInv, CheckpointInv, [Next]_vars PROVE CheckpointInv' OBVIOUS
<1>. USE DEF TypeOK, CheckpointInv, Store!StoreTypeOK, CheckpointInv, Store!InPut, Awaiting, Enter, Store!Goto,
             putVars, rowVars, boxVars, runVars
<1>1. ASSUME NEW c \in Calls, NEW tool \in Tools, ModelCalls(c, tool) PROVE CheckpointInv'
  BY <1>1 DEF ModelCalls, CreateIntent, CreateIntentAnew
<1>2. ASSUME NEW c \in Calls, Verify(c) PROVE CheckpointInv'
  BY <1>2 DEF Verify, ToolboxCall, CreateIntent, CreateIntentAnew
<1>3. ASSUME NEW c \in Calls, MarkStarted(c) PROVE CheckpointInv'
  BY <1>3 DEF MarkStarted, StageInv
<1>4. ASSUME NEW c \in Calls, ExecStarts(c) PROVE CheckpointInv'
  BY <1>4 DEF ExecStarts
<1>5. ASSUME NEW c \in Calls, ExecThrows(c) PROVE CheckpointInv'
  BY <1>5 DEF ExecThrows, Persist, Store!Put
<1>6. ASSUME NEW c \in Calls, StreamEnds(c) PROVE CheckpointInv'
  BY <1>6 DEF StreamEnds, Persist, Store!Put
<1>7. ASSUME NEW c \in Calls, StreamBreaks(c) PROVE CheckpointInv'
  BY <1>7 DEF StreamBreaks, Persist, Store!Put
<1>8. ASSUME NEW c \in Calls, Storing(c) PROVE CheckpointInv'
  BY <1>8 DEF Storing, Store!Written, Store!Placed, Store!Inserted
<1>9. ASSUME NEW c \in Calls, Mark(c) PROVE CheckpointInv'
  BY <1>9 DEF Mark, MarkAtOnce, StageInv
<1>10. ASSUME NEW c \in Calls, Checkpoint(c) PROVE CheckpointInv'
  BY <1>10 DEF Checkpoint, StageInv
<1>11. ASSUME NEW c \in Calls, Reject(c) PROVE CheckpointInv'
  BY <1>11 DEF Reject, Store!Failed
<1>12. ASSUME NEW c \in Calls, TakesEffect(c) PROVE CheckpointInv'
  BY <1>12 DEF TakesEffect
<1>13. ASSUME NEW c \in Calls, Exits(c) PROVE CheckpointInv'
  BY <1>13 DEF Exits
<1>14. ASSUME NEW c \in Calls, Timeout(c) PROVE CheckpointInv'
  BY <1>14 DEF Timeout
<1>15. CASE KillEnds BY <1>15 DEF KillEnds
<1>16. CASE TurnEnds BY <1>16 DEF TurnEnds
<1>17. CASE VerificationThrows BY <1>17 DEF VerificationThrows
<1>18. CASE StepEnds BY <1>18 DEF StepEnds
<1>19. CASE Resume BY <1>19 DEF Resume
<1>20. CASE Crash BY <1>20 DEF Crash, Store!Died
<1>21. CASE UNCHANGED vars BY <1>21 DEF vars
<1>. QED BY <1>1, <1>2, <1>3, <1>4, <1>5, <1>6, <1>7, <1>8, <1>9, <1>10, <1>11, <1>12,
            <1>13, <1>14, <1>15, <1>16, <1>17, <1>18, <1>19, <1>20, <1>21 DEF Next

(* The commands of a step are the only ones in flight while it is verified,*)
(* so the step is committed on known outcomes.                             *)
LEMMA RunKept == TypeOK /\ StageInv /\ RunInv /\ [Next]_vars => RunInv'
<1>. SUFFICES ASSUME TypeOK, StageInv, RunInv, [Next]_vars PROVE RunInv' OBVIOUS
<1>. USE DEF TypeOK, RunInv, Unknown, Store!StoreTypeOK, RunInv, Unknown, Store!InPut, Awaiting, Enter, Store!Goto,
             putVars, rowVars, boxVars, runVars
<1>1. ASSUME NEW c \in Calls, NEW tool \in Tools, ModelCalls(c, tool) PROVE RunInv'
  BY <1>1 DEF ModelCalls, CreateIntent, CreateIntentAnew
<1>2. ASSUME NEW c \in Calls, Verify(c) PROVE RunInv'
  BY <1>2 DEF Verify, ToolboxCall, CreateIntent, CreateIntentAnew, Quiet
<1>3. ASSUME NEW c \in Calls, MarkStarted(c) PROVE RunInv'
  BY <1>3 DEF MarkStarted, StageInv
<1>4. ASSUME NEW c \in Calls, ExecStarts(c) PROVE RunInv'
  BY <1>4 DEF ExecStarts
<1>5. ASSUME NEW c \in Calls, ExecThrows(c) PROVE RunInv'
  BY <1>5 DEF ExecThrows, Persist, Store!Put
<1>6. ASSUME NEW c \in Calls, StreamEnds(c) PROVE RunInv'
  BY <1>6 DEF StreamEnds, Persist, Store!Put
<1>7. ASSUME NEW c \in Calls, StreamBreaks(c) PROVE RunInv'
  BY <1>7 DEF StreamBreaks, Persist, Store!Put
<1>8. ASSUME NEW c \in Calls, Storing(c) PROVE RunInv'
  BY <1>8 DEF Storing, Store!Written, Store!Placed, Store!Inserted
<1>9. ASSUME NEW c \in Calls, Mark(c) PROVE RunInv'
  BY <1>9 DEF Mark, MarkAtOnce, StageInv
<1>10. ASSUME NEW c \in Calls, Checkpoint(c) PROVE RunInv'
  BY <1>10 DEF Checkpoint
<1>11. ASSUME NEW c \in Calls, Reject(c) PROVE RunInv'
  BY <1>11 DEF Reject, Store!Failed
<1>12. ASSUME NEW c \in Calls, TakesEffect(c) PROVE RunInv'
  BY <1>12 DEF TakesEffect
<1>13. ASSUME NEW c \in Calls, Exits(c) PROVE RunInv'
  BY <1>13 DEF Exits
<1>14. ASSUME NEW c \in Calls, Timeout(c) PROVE RunInv'
  BY <1>14 DEF Timeout
<1>15. CASE KillEnds BY <1>15 DEF KillEnds
<1>16. CASE TurnEnds BY <1>16 DEF TurnEnds, StageInv, Quiet
<1>17. CASE VerificationThrows BY <1>17 DEF VerificationThrows
<1>18. CASE StepEnds BY <1>18 DEF StepEnds, StageInv, Quiet, States
<1>19. CASE Resume BY <1>19 DEF Resume
<1>20. CASE Crash BY <1>20 DEF Crash, Store!Died
<1>21. CASE UNCHANGED vars BY <1>21 DEF vars
<1>. QED BY <1>1, <1>2, <1>3, <1>4, <1>5, <1>6, <1>7, <1>8, <1>9, <1>10, <1>11, <1>12,
            <1>13, <1>14, <1>15, <1>16, <1>17, <1>18, <1>19, <1>20, <1>21 DEF Next

(* The conjuncts together are inductive.                                   *)
THEOREM Inductive == Spec => []IInv
<1>1. IInv /\ [Next]_vars => IInv'
  BY BoxTypeKept, StageKept, StoreKept, ProcKept, OutcomeKept, CheckpointKept, RunKept DEF IInv
<1>. QED BY InitInv, <1>1, PTL DEF Spec

(* Rows are well formed, and no call changes the workspace twice.          *)
THEOREM TypeCorrect == Spec => []TypeOK
<1>1. IInv => TypeOK BY DEF IInv
<1>. QED BY <1>1, Inductive, PTL

(* The result a row refers to can be read back with its integrity.         *)
THEOREM BackedRows == Spec => []RowsAreBacked
<1>1. IInv => RowsAreBacked
  BY DEF IInv, StoreInv, RowsAreBacked, Store!RowsAreBacked
<1>. QED BY <1>1, Inductive, PTL

(* What is reported to have succeeded has taken effect.                    *)
THEOREM TruthfulSuccess == Spec => []OkMeansDone
<1>1. IInv => OkMeansDone BY DEF IInv, ProcInv, OkMeansDone
<1>. QED BY <1>1, Inductive, PTL

(* A row that names an outcome refers to the artifact of that outcome.     *)
THEOREM FiledOutcomes == Spec => []OutcomeIsOnFile
<1>1. IInv => OutcomeIsOnFile
  BY DEF IInv, StageInv, StoreInv, OutcomeInv, OutcomeIsOnFile
<1>. QED BY <1>1, Inductive, PTL

(* Checkpoints of tool calls name operations that have ended.              *)
THEOREM StableCheckpoints == Spec => []CheckpointIsStable
<1>1. IInv => CheckpointIsStable
  BY NoneAssumption
     DEF IInv, TypeOK, StageInv, StoreInv, OutcomeInv, CheckpointInv, CheckpointIsStable,
         Outcomes
<1>. QED BY <1>1, Inductive, PTL

(* Steps are committed on known outcomes.                                  *)
THEOREM KnownCommits == Spec => []CommittedAreKnown
<1>1. IInv => CommittedAreKnown
  BY DEF IInv, TypeOK, ProcInv, RunInv, CommittedAreKnown
<1>. QED BY <1>1, Inductive, PTL

----------------------------------------------------------------------------
(* The steps that change no fate.                                          *)
LEMMA FateKept ==
  ASSUME IInv, [Next]_vars,
         ~ \E c \in Calls : MarkStarted(c) \/ Mark(c) \/ Reject(c),
         ~ Crash
  PROVE  \A d \in Calls : Fate(d)' = Fate(d)
<1>. USE DEF IInv, TypeOK, StageInv, Fate, Enter, rowVars
<1>1. ASSUME NEW c \in Calls, NEW tool \in Tools, ModelCalls(c, tool)
      PROVE  \A d \in Calls : Fate(d)' = Fate(d)
  BY <1>1 DEF ModelCalls, CreateIntent, CreateIntentAnew
<1>2. ASSUME NEW c \in Calls, Verify(c)
      PROVE  \A d \in Calls : Fate(d)' = Fate(d)
  BY <1>2 DEF Verify, ToolboxCall, CreateIntent, CreateIntentAnew
<1>3. ASSUME NEW c \in Calls,
             ExecStarts(c) \/ ExecThrows(c) \/ StreamEnds(c) \/ StreamBreaks(c) \/ Storing(c)
      PROVE  \A d \in Calls : Fate(d)' = Fate(d)
  BY <1>3 DEF ExecStarts, ExecThrows, StreamEnds, StreamBreaks, Storing, Persist
<1>4. ASSUME NEW c \in Calls, Checkpoint(c)
      PROVE  \A d \in Calls : Fate(d)' = Fate(d)
  BY <1>4 DEF Checkpoint
<1>5. ASSUME NEW c \in Calls, TakesEffect(c) \/ Exits(c) \/ Timeout(c)
      PROVE  \A d \in Calls : Fate(d)' = Fate(d)
  BY <1>5 DEF TakesEffect, Exits, Timeout
<1>6. CASE KillEnds \/ TurnEnds \/ VerificationThrows \/ StepEnds \/ Resume
  BY <1>6 DEF KillEnds, TurnEnds, VerificationThrows, StepEnds, Resume
<1>7. CASE UNCHANGED vars BY <1>7 DEF vars
<1>. QED BY <1>1, <1>2, <1>3, <1>4, <1>5, <1>6, <1>7 DEF Next

(* The effects change when a process takes its effect, and only then.      *)
LEMMA EffectsKept ==
  ASSUME [Next]_vars, ~ \E c \in Calls : TakesEffect(c)
  PROVE  UNCHANGED effects
<1>. USE DEF boxVars
<1>1. ASSUME NEW c \in Calls, NEW tool \in Tools, ModelCalls(c, tool) PROVE UNCHANGED effects
  BY <1>1 DEF ModelCalls, CreateIntent, CreateIntentAnew
<1>2. ASSUME NEW c \in Calls, Verify(c) PROVE UNCHANGED effects
  BY <1>2 DEF Verify, ToolboxCall, CreateIntent, CreateIntentAnew
<1>3. ASSUME NEW c \in Calls,
             \/ MarkStarted(c) \/ ExecStarts(c) \/ ExecThrows(c) \/ StreamEnds(c)
             \/ StreamBreaks(c) \/ Storing(c) \/ Mark(c) \/ Checkpoint(c) \/ Reject(c)
             \/ Exits(c) \/ Timeout(c)
      PROVE  UNCHANGED effects
  BY <1>3 DEF MarkStarted, ExecStarts, ExecThrows, StreamEnds, StreamBreaks, Storing,
              Mark, MarkAtOnce, Checkpoint, Reject, Exits, Timeout
<1>4. CASE KillEnds \/ TurnEnds \/ VerificationThrows \/ StepEnds \/ Resume \/ Crash
  BY <1>4 DEF KillEnds, TurnEnds, VerificationThrows, StepEnds, Resume, Crash
<1>5. CASE UNCHANGED vars BY <1>5 DEF vars
<1>. QED BY <1>1, <1>2, <1>3, <1>4, <1>5 DEF Next

(* Every step of the calls is a step of the record, or none: MarkStarted   *)
(* begins a call, the container takes its effect, Mark learns or loses an  *)
(* outcome, Reject and Crash lose those under way.                         *)
THEOREM AuditImplementsAuditedEffects == Spec => ImplementsAuditedEffects
<1>1. Init => Audited!Init BY DEF Init, Audited!Init, Fate
<1>2. IInv /\ [Next]_vars => [Audited!Next]_(Audited!vars)
  <2>. SUFFICES ASSUME IInv, [Next]_vars
                PROVE  Audited!Next \/ UNCHANGED Audited!vars
    OBVIOUS
  <2>1. ASSUME NEW c \in Calls, MarkStarted(c) PROVE Audited!Begin(c)
    <3>1. UNCHANGED effects BY <2>1 DEF MarkStarted, boxVars
    <3>2. Fate(c) = "unseen" BY <2>1 DEF MarkStarted, IInv, StageInv, Fate
    <3>3. Fate(c)' = "pending" BY <2>1 DEF MarkStarted, Enter, IInv, TypeOK, Fate
    <3>4. \A d \in Calls \ {c} : Fate(d)' = Fate(d)
      BY <2>1 DEF MarkStarted, Enter, IInv, TypeOK, Fate
    <3>. QED BY <3>1, <3>2, <3>3, <3>4 DEF Audited!Begin
  <2>2. ASSUME NEW c \in Calls, TakesEffect(c) PROVE Audited!Take(c)
    <3>1. \A d \in Calls : Fate(d)' = Fate(d)
      BY <2>2 DEF TakesEffect, rowVars, Fate
    <3>2. Fate(c) # "unseen" /\ effects[c] = 0
      BY <2>2 DEF TakesEffect, IInv, ProcInv, TypeOK, States, Fate
    <3>3. effects' = [effects EXCEPT ![c] = 1]
      BY <2>2, <3>2 DEF TakesEffect
    <3>. QED BY <3>1, <3>2, <3>3 DEF Audited!Take
  <2>3. ASSUME NEW c \in Calls, Mark(c) PROVE Audited!Learn(c) \/ Audited!Lose({c})
    <3>1. UNCHANGED effects BY <2>3 DEF Mark, MarkAtOnce, boxVars
    <3>2. Fate(c) = "pending" BY <2>3 DEF Mark, MarkAtOnce, IInv, StageInv, Fate
    <3>3. Fate(c)' = "known" \/ Fate(c)' = "unknown"
      BY <2>3 DEF Mark, MarkAtOnce, Enter, IInv, TypeOK, Fate
    <3>4. \A d \in Calls \ {c} : Fate(d)' = Fate(d)
      BY <2>3 DEF Mark, MarkAtOnce, Enter, IInv, TypeOK, Fate
    <3>. QED BY <3>1, <3>2, <3>3, <3>4 DEF Audited!Learn, Audited!Lose
  <2>4. ASSUME NEW c \in Calls, Reject(c) PROVE Audited!Lose({c}) \/ UNCHANGED Audited!vars
    <3>1. UNCHANGED effects BY <2>4 DEF Reject, boxVars
    <3>2. \A d \in Calls \ {c} : Fate(d)' = Fate(d)
      BY <2>4 DEF Reject, Enter, IInv, TypeOK, Fate, rowVars
    <3>3. CASE stage[c] = "storing"
      <4>1. Fate(c) = "pending" /\ Fate(c)' = "unknown"
        BY <2>4, <3>3 DEF Reject, Enter, IInv, TypeOK, StageInv, Fate, rowVars
      <4>. QED BY <3>1, <3>2, <4>1 DEF Audited!Lose
    <3>4. CASE stage[c] # "storing"
      <4>1. Fate(c)' = Fate(c)
        BY <2>4, <3>4 DEF Reject, Enter, IInv, TypeOK, StageInv, Fate, rowVars
      <4>. QED BY <3>1, <3>2, <4>1 DEF Audited!vars
    <3>. QED BY <3>3, <3>4
  <2>5. ASSUME Crash PROVE Audited!Lose({c \in Calls : Fate(c) = "pending"})
    <3>1. UNCHANGED effects BY <2>5 DEF Crash, boxVars
    <3>2. \A d \in Calls : Fate(d)' = IF Fate(d) = "pending" THEN "unknown" ELSE Fate(d)
      BY <2>5 DEF Crash, IInv, TypeOK, StageInv, States, Awaiting, Fate, rowVars
    <3>. QED BY <3>1, <3>2 DEF Audited!Lose
  <2>6. ASSUME ~ \E c \in Calls : MarkStarted(c) \/ Mark(c) \/ Reject(c) \/ TakesEffect(c),
               ~ Crash
        PROVE  UNCHANGED Audited!vars
    BY <2>6, FateKept, EffectsKept DEF Audited!vars
  <2>7. \A lost : lost \in SUBSET Calls /\ Audited!Lose(lost) => Audited!Next
    BY DEF Audited!Next
  <2>8. {c \in Calls : Fate(c) = "pending"} \in SUBSET Calls OBVIOUS
  <2>9. \A c \in Calls : {c} \in SUBSET Calls OBVIOUS
  <2>. QED BY <2>1, <2>2, <2>3, <2>4, <2>5, <2>6, <2>7, <2>8, <2>9 DEF Audited!Next
<1>. QED BY <1>1, <1>2, Inductive, PTL DEF Spec, ImplementsAuditedEffects, Audited!Spec

(* For all calls, tools and failures: no process of a tool leaves a trace  *)
(* in the workspace, or a second one, that the record does not know of.    *)
THEOREM RecordedEffects == Spec => []Audited!EffectsAreRecorded
<1>1. Audited!Init => Audited!EffectsAreRecorded
  BY DEF Audited!Init, Audited!EffectsAreRecorded
<1>2. Audited!EffectsAreRecorded /\ [Audited!Next]_(Audited!vars)
        => Audited!EffectsAreRecorded'
  BY DEF Audited!EffectsAreRecorded, Audited!Next, Audited!vars, Audited!Begin,
         Audited!Take, Audited!Learn, Audited!Lose
<1>. QED BY <1>1, <1>2, AuditImplementsAuditedEffects, PTL
         DEF ImplementsAuditedEffects, Audited!Spec

(* For all calls, tools and failures: the record never changes its mind, a *)
(* result found later does not settle an outcome declared unknown.         *)
THEOREM FinalFates == Spec => Audited!FatesAreFinal
<1>. DEFINE f == [c \in Calls |-> Fate(c)]
            A == \A c \in Calls :
                   f'[c] # f[c] =>
                     \/ f[c] = "unseen" /\ f'[c] = "pending"
                     \/ f[c] = "pending" /\ f'[c] \in {"known", "unknown"}
<1>1. [Audited!Next]_(Audited!vars) => [A]_(Audited!vars)
  BY DEF Audited!Next, Audited!vars, Audited!Begin, Audited!Take, Audited!Learn,
         Audited!Lose
<1>. QED BY <1>1, AuditImplementsAuditedEffects, PTL
         DEF ImplementsAuditedEffects, Audited!Spec, Audited!FatesAreFinal
=============================================================================
