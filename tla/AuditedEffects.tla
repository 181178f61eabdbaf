--------------------------- MODULE AuditedEffects ----------------------------
(***************************************************************************)
(* What the audit of tool calls promises: a call has no effect before it   *)
(* is on record, has it once at most, and what is on record as unknown is  *)
(* never taken back, nor what is known.                                    *)
(***************************************************************************)
EXTENDS Naturals

CONSTANT Calls

VARIABLES
  fate,     \* what the record says of each call
  effects   \* how often its effect took place in the workspace

vars == <<fate, effects>>

Init ==
  /\ fate = [c \in Calls |-> "unseen"]
  /\ effects = [c \in Calls |-> 0]

Begin(c) ==
  /\ fate[c] = "unseen"
  /\ fate' = [fate EXCEPT ![c] = "pending"]
  /\ UNCHANGED effects

Take(c) ==
  /\ fate[c] # "unseen" /\ effects[c] = 0
  /\ effects' = [effects EXCEPT ![c] = 1]
  /\ UNCHANGED fate

Learn(c) ==
  /\ fate[c] = "pending"
  /\ fate' = [fate EXCEPT ![c] = "known"]
  /\ UNCHANGED effects

(* The outcome of some calls is lost, by a failure or a crash.             *)
Lose(lost) ==
  /\ \A c \in lost : fate[c] = "pending"
  /\ fate' = [c \in Calls |-> IF c \in lost THEN "unknown" ELSE fate[c]]
  /\ UNCHANGED effects

Next ==
  \/ \E c \in Calls : Begin(c) \/ Take(c) \/ Learn(c)
  \/ \E lost \in SUBSET Calls : Lose(lost)

Spec == Init /\ [][Next]_vars

----------------------------------------------------------------------------
(* A call takes effect once at most, and only with a record of it.         *)
EffectsAreRecorded ==
  /\ effects \in [Calls -> {0, 1}]
  /\ \A c \in Calls : effects[c] = 1 => fate[c] # "unseen"

(* What is known of a call, or known to be unknown, is never said          *)
(* otherwise; and no call is forgotten.                                    *)
FatesAreFinal ==
  [][\A c \in Calls : fate'[c] # fate[c] =>
       \/ fate[c] = "unseen" /\ fate'[c] = "pending"
       \/ fate[c] = "pending" /\ fate'[c] \in {"known", "unknown"}]_vars
=============================================================================
