----------------------------- MODULE StepGraph ------------------------------
(***************************************************************************)
(* What a plan is to the modules that handle one: a function from the      *)
(* positions of its steps to the positions each of them waits for.  The    *)
(* validation of plans ends with such a function, and the orchestrator     *)
(* starts from one.                                                        *)
(***************************************************************************)
EXTENDS Naturals, FiniteSets

IsPlan(p) ==
  /\ p \in [DOMAIN p -> SUBSET DOMAIN p]
  /\ DOMAIN p \subseteq Nat \ {0}
  /\ DOMAIN p # {} /\ IsFiniteSet(DOMAIN p)

(* Whatever part of the plan is still to be done, one step of it waits for *)
(* nothing in it.                                                          *)
IsSchedulable(p) ==
  \A part \in SUBSET DOMAIN p : part # {} => \E s \in part : p[s] \cap part = {}
=============================================================================
