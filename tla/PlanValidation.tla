--------------------------- MODULE PlanValidation ---------------------------
(***************************************************************************)
(* How a plan proposed by the model becomes the plan_steps of a run:       *)
(* PlanService.create, the depth-first search of validatePlan, and         *)
(* replaceForRun.  The search is the recursive function visit of           *)
(* plan-parser.ts with its call stack made explicit.  The order in which   *)
(* keys and dependencies are listed is data; every order is explored.      *)
(***************************************************************************)
EXTENDS StepGraph, Sequences

CONSTANTS Keys,      \* the step keys a model may write
          MaxSteps,  \* the bound of the schema on steps, 40 in the code
          Budgets    \* the budgets of runs: [turns, writes]

ASSUME MaxStepsAssumption == MaxSteps \in Nat \ {0}
ASSUME BudgetsAssumption == Budgets \subseteq [turns : Nat, writes : Nat]

VARIABLES plan,      \* the steps proposed, in order; the steps that write
          budget,    \* the budget of the run
          pc,        \* where PlanService.create is
          stack,     \* the keys whose visit has not returned, innermost last
          left,      \* key -> the dependencies its visit has still to follow
          visiting, visited,
          rows       \* plan_steps of the run: the old plan's, or the new rows

vars == <<plan, budget, pc, stack, left, visiting, visited, rows>>

Steps == [key : Keys, dependencies : SUBSET Keys]
Plans == UNION {[steps : [1 .. n -> Steps], writes : 0 .. n] : n \in 1 .. MaxSteps}
Rows == [position : Nat, dependencies : SUBSET Nat, status : {"READY", "PENDING"}]

(* What the run had before: a row no new plan has, since positions here    *)
(* begin at one.                                                           *)
OldRows == {[position |-> 0, dependencies |-> {}, status |-> "READY"]}

Positions == DOMAIN plan.steps
PlanKeys == {plan.steps[i].key : i \in Positions}

(* The positions of the steps a step waits for; what ids.get does with the *)
(* keys, which are unique by then.                                         *)
Prerequisites(i) == {j \in Positions : plan.steps[j].key \in plan.steps[i].dependencies}

(* byKey: a map built from the steps keeps the last one of a key.          *)
DependenciesOf(key) ==
  UNION {plan.steps[i].dependencies :
           i \in {j \in Positions : /\ plan.steps[j].key = key
                                    /\ \A l \in Positions : plan.steps[l].key = key => l <= j}}

Top == stack[Len(stack)]

TypeOK ==
  /\ plan \in Plans
  /\ budget \in Budgets
  /\ pc \in {"keys", "visit", "budget", "store", "done", "refused"}
  /\ stack \in Seq(Keys)
  /\ left \in [Keys -> SUBSET Keys]
  /\ visiting \subseteq Keys
  /\ visited \subseteq Keys
  /\ rows \subseteq Rows

----------------------------------------------------------------------------
(* planner.createPlan has answered with a plan of the right schema; a text *)
(* that does not parse is refused before any of this.                      *)
Init ==
  /\ plan \in Plans
  /\ budget \in Budgets
  /\ pc = "keys"
  /\ stack = <<>>
  /\ left = [k \in Keys |-> {}]
  /\ visiting = {} /\ visited = {}
  /\ rows = OldRows

Refuse ==
  /\ pc' = "refused"
  /\ UNCHANGED <<plan, budget, stack, left, visiting, visited, rows>>

KeysAreUnique == \A i, j \in Positions : plan.steps[i].key = plan.steps[j].key => i = j
DependenciesExist ==
  \A i \in Positions : plan.steps[i].dependencies \subseteq PlanKeys \ {plan.steps[i].key}

(* The first two loops: duplicate keys, unknown dependencies, self loops.  *)
CheckKeys ==
  /\ pc = "keys"
  /\ IF KeysAreUnique /\ DependenciesExist
       THEN /\ pc' = "visit"
            /\ UNCHANGED <<plan, budget, stack, left, visiting, visited, rows>>
       ELSE Refuse

(* A call visit(key) that neither throws nor returns at once.              *)
Enter(key) ==
  /\ visiting' = visiting \cup {key}
  /\ stack' = Append(stack, key)

(* The loop over the keys, at the outermost level.                         *)
VisitKey(key) ==
  /\ pc = "visit" /\ stack = <<>>
  /\ key \in PlanKeys \ visited
  /\ Enter(key)
  /\ left' = [left EXCEPT ![key] = DependenciesOf(key)]
  /\ UNCHANGED <<plan, budget, pc, visited, rows>>

(* Mutated form of VisitDependency: a dependency being visited is skipped. *)
VisitDependencyOnce(key) ==
  /\ pc = "visit" /\ stack # <<>>
  /\ key \in left[Top]
  /\ IF key \in visiting \cup visited
       THEN /\ left' = [left EXCEPT ![Top] = @ \ {key}]
            /\ UNCHANGED <<visiting, stack>>
       ELSE /\ Enter(key)
            /\ left' = [left EXCEPT ![Top] = @ \ {key}, ![key] = DependenciesOf(key)]
  /\ UNCHANGED <<plan, budget, pc, visited, rows>>

(* Mutated form of VisitDependency: visiting is not consulted at all.      *)
VisitDependencyAgain(key) ==
  /\ pc = "visit" /\ stack # <<>>
  /\ key \in left[Top]
  /\ IF key \in visited
       THEN /\ left' = [left EXCEPT ![Top] = @ \ {key}]
            /\ UNCHANGED <<visiting, stack>>
       ELSE /\ visiting' = visiting \cup {key}
            /\ stack' = Append(SubSeq(stack, 1, Len(stack) - 1), key)
            /\ left' = [left EXCEPT ![key] = DependenciesOf(key)]
  /\ UNCHANGED <<plan, budget, pc, visited, rows>>

(* The loop over the dependencies of the innermost key.                    *)
VisitDependency(key) ==
  /\ pc = "visit" /\ stack # <<>>
  /\ key \in left[Top]
  /\ \/ /\ key \in visiting
        /\ Refuse
     \/ /\ key \notin visiting /\ key \in visited
        /\ left' = [left EXCEPT ![Top] = @ \ {key}]
        /\ UNCHANGED <<plan, budget, pc, stack, visiting, visited, rows>>
     \/ /\ key \notin visiting \cup visited
        /\ Enter(key)
        /\ left' = [left EXCEPT ![Top] = @ \ {key}, ![key] = DependenciesOf(key)]
        /\ UNCHANGED <<plan, budget, pc, visited, rows>>

(* Mutated form of Leave: the key stays in visiting.                       *)
LeaveVisiting ==
  /\ pc = "visit" /\ stack # <<>>
  /\ left[Top] = {}
  /\ visited' = visited \cup {Top}
  /\ stack' = SubSeq(stack, 1, Len(stack) - 1)
  /\ UNCHANGED <<plan, budget, pc, left, visiting, rows>>

(* The innermost call returns.                                             *)
Leave ==
  /\ pc = "visit" /\ stack # <<>>
  /\ left[Top] = {}
  /\ visiting' = visiting \ {Top}
  /\ visited' = visited \cup {Top}
  /\ stack' = SubSeq(stack, 1, Len(stack) - 1)
  /\ UNCHANGED <<plan, budget, pc, left, rows>>

AllVisited ==
  /\ pc = "visit" /\ stack = <<>> /\ PlanKeys \subseteq visited
  /\ pc' = "budget"
  /\ UNCHANGED <<plan, budget, stack, left, visiting, visited, rows>>

WithinBudget == plan.writes <= budget.writes /\ Len(plan.steps) <= budget.turns

CheckBudget ==
  /\ pc = "budget"
  /\ IF WithinBudget
       THEN /\ pc' = "store"
            /\ UNCHANGED <<plan, budget, stack, left, visiting, visited, rows>>
       ELSE Refuse

(* The rows create builds from the plan.                                   *)
NewRows ==
  {[position |-> i, dependencies |-> Prerequisites(i),
    status |-> IF plan.steps[i].dependencies = {} THEN "READY" ELSE "PENDING"] :
     i \in Positions}

(* replaceForRun: DELETE and the INSERTs in one transaction, which a        *)
(* database error rolls back as a whole.                                   *)
ReplaceForRun ==
  /\ pc = "store"
  /\ \/ /\ rows' = NewRows
        /\ pc' = "done"
        /\ UNCHANGED <<plan, budget, stack, left, visiting, visited>>
     \/ Refuse

Next ==
  \/ CheckKeys
  \/ \E key \in Keys : VisitKey(key) \/ VisitDependency(key)
  \/ Leave
  \/ AllVisited
  \/ CheckBudget
  \/ ReplaceForRun

Spec == Init /\ [][Next]_vars /\ WF_vars(Next)

----------------------------------------------------------------------------
(* The plan as the orchestrator reads it from the rows, and whether it can *)
(* be carried out to its end.                                              *)
Graph == [i \in Positions |-> Prerequisites(i)]
Schedulable == IsSchedulable(Graph)

(* The rows of a run are replaced only by a plan that can be carried out   *)
(* to its end, with a step to begin with and within the run's budget; any  *)
(* refusal leaves the old plan's rows in place.                            *)
StoredPlansSchedule ==
  /\ pc = "done" => /\ Schedulable
                    /\ \E row \in rows : row.status = "READY"
                    /\ WithinBudget
  /\ pc # "done" => rows = OldRows

(* The rows hold a plan the orchestrator can start from and never gets     *)
(* stuck on: it asks its plans for no more than this.                      *)
StoredPlansAreUsable ==
  pc = "done" =>
    /\ IsPlan(Graph) /\ IsSchedulable(Graph)
    /\ rows = {[position |-> i, dependencies |-> Graph[i],
                status |-> IF Graph[i] = {} THEN "READY" ELSE "PENDING"] : i \in DOMAIN Graph}

(* The search refuses no plan that could be carried out: a plan whose keys *)
(* are in order is thrown out as cyclic only when it has a part in which   *)
(* every step waits for another.                                           *)
RefusalsAreJust ==
  (pc = "refused" /\ KeysAreUnique /\ DependenciesExist /\ ~(PlanKeys \subseteq visited))
    => ~Schedulable

(* The keys the search has not entered, and the dependencies the visits on *)
(* the stack have still to follow.                                         *)
White == PlanKeys \ (visiting \cup visited)
Edges == {e \in visiting \X Keys : e[2] \in left[e[1]]}

(* Each step of the search enters a key for good, or follows a dependency  *)
(* for good, or returns: none is done twice, on a path that branches and   *)
(* meets again either, and a search of a plan is a finite one.             *)
SearchAdvances ==
  [][(pc = "visit" /\ pc' = "visit") =>
       \/ White' \subseteq White /\ White' # White
       \/ White' = White /\ Edges' \subseteq Edges /\ Edges' # Edges
       \/ /\ White' = White /\ Edges' = Edges
          /\ visiting' \subseteq visiting /\ visiting' # visiting]_vars

(* visit returns on every plan, cyclic ones included.                      *)
ValidationEnds == <>(pc \in {"done", "refused"})
=============================================================================
