--------------------------- MODULE PlanExecution ----------------------------
(***************************************************************************)
(* How a run works through its plans, for who looks at its steps only: a   *)
(* plan is adopted whole and replaces the one before; one step at a time   *)
(* is executed, when all it waits for is done, and at most once in a plan; *)
(* the run succeeds when every step of the plan in force is done, and      *)
(* after that nothing moves.  Pauses, crashes, restarts and replans are    *)
(* stuttering or the adoption of a plan.                                   *)
(***************************************************************************)
CONSTANT Plans

VARIABLES plan,       \* step -> the steps it waits for
          done,       \* the steps that ended well
          running,    \* the steps that were started and have not ended
          failed,     \* the steps that ended badly
          succeeded   \* the run has succeeded

vars == <<plan, done, running, failed, succeeded>>

Init ==
  /\ plan = <<>>
  /\ done = {} /\ running = {} /\ failed = {}
  /\ succeeded = FALSE

(* What was done for another plan does not count for this one.             *)
Adopt(p) ==
  /\ ~succeeded
  /\ plan' = p
  /\ done' = {} /\ running' = {} /\ failed' = {}
  /\ UNCHANGED succeeded

StartStep(s) ==
  /\ ~succeeded
  /\ running = {}
  /\ s \in DOMAIN plan \ (done \cup failed)
  /\ plan[s] \subseteq done
  /\ running' = {s}
  /\ UNCHANGED <<plan, done, failed, succeeded>>

StepDone(s) ==
  /\ ~succeeded
  /\ s \in running
  /\ running' = running \ {s}
  /\ done' = done \cup {s}
  /\ UNCHANGED <<plan, failed, succeeded>>

StepFails(s) ==
  /\ ~succeeded
  /\ s \in running
  /\ running' = running \ {s}
  /\ failed' = failed \cup {s}
  /\ UNCHANGED <<plan, done, succeeded>>

Succeed ==
  /\ ~succeeded
  /\ DOMAIN plan # {} /\ done = DOMAIN plan
  /\ succeeded' = TRUE
  /\ UNCHANGED <<plan, done, running, failed>>

Next ==
  \/ \E p \in Plans : Adopt(p)
  \/ \E s \in DOMAIN plan : StartStep(s) \/ StepDone(s) \/ StepFails(s)
  \/ Succeed

Spec == Init /\ [][Next]_vars

----------------------------------------------------------------------------
(* What has been executed is closed under dependencies, and a run that has *)
(* succeeded has done all of a plan.                                       *)
DoneFollowsPlan ==
  /\ \A s \in done \cup running \cup failed : s \in DOMAIN plan /\ plan[s] \subseteq done
  /\ done \cap (running \cup failed) = {} /\ running \cap failed = {}
  /\ succeeded => done = DOMAIN plan /\ done # {}

(* Nothing is executed, and no plan adopted, after success.                *)
SuccessIsFinal == [][~succeeded]_vars
=============================================================================
