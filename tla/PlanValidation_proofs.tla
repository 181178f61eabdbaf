----------------------- MODULE PlanValidation_proofs ------------------------
(***************************************************************************)
(* Proofs about PlanValidation, for plans of any length over any keys.     *)
(*                                                                         *)
(* The invariant says what the depth-first search knows: the keys it has   *)
(* left are closed under dependencies and can be scheduled (Closed,        *)
(* Grounded); the stack is a path of dependencies, and a key on it waits   *)
(* for nothing but what is left to visit, what was visited and the next    *)
(* key of the path (Path).                                                 *)
(***************************************************************************)
EXTENDS PlanValidation, FiniteSetTheorems, SequenceTheorems, TLAPS

Fresh == pc = "keys" => stack = <<>> /\ visiting = {}

Checked ==
  pc \in {"visit", "budget", "store", "done"} => KeysAreUnique /\ DependenciesExist

OnStack == {stack[i] : i \in 1 .. Len(stack)}

Path ==
  pc = "visit" =>
    /\ visiting = OnStack
    /\ OnStack \subseteq PlanKeys
    /\ OnStack \cap visited = {}
    /\ \A i, j \in 1 .. Len(stack) : stack[i] = stack[j] => i = j
    /\ \A i \in 1 .. Len(stack) : left[stack[i]] \subseteq DependenciesOf(stack[i])
    /\ \A i \in 1 .. Len(stack) - 1 : stack[i + 1] \in DependenciesOf(stack[i])
    /\ \A i \in 1 .. Len(stack) - 1 :
         DependenciesOf(stack[i]) \subseteq left[stack[i]] \cup visited \cup {stack[i + 1]}
    /\ stack # <<>> => DependenciesOf(Top) \subseteq left[Top] \cup visited

Closed == \A k \in visited : DependenciesOf(k) \subseteq visited

Grounded ==
  \A part \in SUBSET visited :
    part # {} => \E k \in part : DependenciesOf(k) \cap part = {}

Finished == pc \in {"budget", "store", "done"} => PlanKeys \subseteq visited
Budgeted == pc \in {"store", "done"} => WithinBudget
Stored == rows = IF pc = "done" THEN NewRows ELSE OldRows

IInv == /\ TypeOK /\ Fresh /\ Checked /\ Path /\ Closed /\ Grounded
        /\ Finished /\ Budgeted /\ Stored /\ RefusalsAreJust

----------------------------------------------------------------------------
(* A plan is a sequence of steps.                                          *)
LEMMA PlanShape ==
  ASSUME TypeOK
  PROVE  \E n \in 1 .. MaxSteps :
           /\ plan.steps \in [1 .. n -> Steps]
           /\ Positions = 1 .. n
           /\ plan.writes \in 0 .. n
  BY DEF TypeOK, Plans, Positions

(* Keys that are unique lead back to their step.                           *)
LEMMA OwnDependencies ==
  ASSUME TypeOK, KeysAreUnique, NEW i \in Positions
  PROVE  DependenciesOf(plan.steps[i].key) = plan.steps[i].dependencies
<1>1. PICK n \in 1 .. MaxSteps : Positions = 1 .. n
  BY PlanShape
<1>2. {j \in Positions : /\ plan.steps[j].key = plan.steps[i].key
                         /\ \A l \in Positions :
                              plan.steps[l].key = plan.steps[i].key => l <= j} = {i}
  BY <1>1 DEF KeysAreUnique
<1> QED
  BY <1>2 DEF DependenciesOf

(* What a key of the plan waits for is in the plan.                        *)
LEMMA DependenciesInPlan ==
  ASSUME TypeOK, KeysAreUnique, DependenciesExist, NEW k \in PlanKeys
  PROVE  DependenciesOf(k) \subseteq PlanKeys
<1>1. PICK i \in Positions : k = plan.steps[i].key
  BY DEF PlanKeys
<1> QED
  BY <1>1, OwnDependencies DEF DependenciesExist

(* A schedule, in terms of the steps proposed.                             *)
LEMMA SchedulableParts ==
  Schedulable <=>
    \A part \in SUBSET Positions :
      part # {} => \E i \in part : Prerequisites(i) \cap part = {}
<1>1. DOMAIN Graph = Positions /\ \A i \in Positions : Graph[i] = Prerequisites(i)
  BY DEF Graph
<1> QED
  BY <1>1 DEF Schedulable, IsSchedulable

(* A visited plan has a schedule.                                          *)
LEMMA VisitedSchedules ==
  ASSUME TypeOK, KeysAreUnique, Grounded, PlanKeys \subseteq visited
  PROVE  Schedulable
<1> SUFFICES ASSUME NEW part \in SUBSET Positions, part # {}
             PROVE  \E i \in part : Prerequisites(i) \cap part = {}
  BY SchedulableParts
<1> DEFINE keys == {plan.steps[i].key : i \in part}
<1>1. keys \in SUBSET visited /\ keys # {}
  BY DEF PlanKeys
<1>2. PICK k \in keys : DependenciesOf(k) \cap keys = {}
  BY <1>1 DEF Grounded
<1>3. PICK i \in part : k = plan.steps[i].key
  BY <1>2
<1>4. plan.steps[i].dependencies \cap keys = {}
  BY <1>2, <1>3, OwnDependencies
<1>5. Prerequisites(i) \cap part = {}
  BY <1>4 DEF Prerequisites
<1> QED
  BY <1>3, <1>5

(* A schedule begins with a step that waits for nothing.                   *)
LEMMA ScheduleBegins ==
  ASSUME TypeOK, DependenciesExist, Schedulable
  PROVE  \E row \in NewRows : row.status = "READY"
<1>1. PICK n \in 1 .. MaxSteps : Positions = 1 .. n /\ plan.steps \in [1 .. n -> Steps]
  BY PlanShape
<1>2. Positions # {}
  BY <1>1, MaxStepsAssumption
<1>3. PICK i \in Positions : Prerequisites(i) \cap Positions = {}
  BY <1>2, SchedulableParts
<1>4. plan.steps[i].dependencies \subseteq PlanKeys
  BY DEF DependenciesExist
<1>5. plan.steps[i].dependencies = {}
  BY <1>3, <1>4 DEF Prerequisites, PlanKeys
<1> DEFINE row == [position |-> i, dependencies |-> Prerequisites(i),
                   status |-> IF plan.steps[i].dependencies = {} THEN "READY" ELSE "PENDING"]
<1>6. row \in NewRows
  BY DEF NewRows
<1>7. row.status = "READY"
  BY <1>5
<1> QED
  BY <1>6, <1>7

(* A dependency on a key of the path closes a cycle.                       *)
LEMMA CyclesDoNotSchedule ==
  ASSUME TypeOK, KeysAreUnique, Path, pc = "visit", stack # <<>>,
         NEW key \in left[Top], key \in visiting
  PROVE  ~Schedulable
<1>1. stack \in Seq(Keys) /\ Len(stack) \in Nat \ {0}
  BY DEF TypeOK
<1>2. PICK m \in 1 .. Len(stack) : key = stack[m]
  BY DEF Path, OnStack
<1> DEFINE part == {i \in Positions : \E l \in m .. Len(stack) : plan.steps[i].key = stack[l]}
<1>3. \A l \in 1 .. Len(stack) : \E i \in Positions : plan.steps[i].key = stack[l]
  <2>1. \A l \in 1 .. Len(stack) : stack[l] \in PlanKeys
    BY DEF Path, OnStack
  <2> QED
    BY <2>1 DEF PlanKeys
<1>4. part # {}
  BY <1>1, <1>2, <1>3
<1>5. ASSUME NEW i \in part
      PROVE  Prerequisites(i) \cap part # {}
  <2>1. PICK l \in m .. Len(stack) : plan.steps[i].key = stack[l]
    OBVIOUS
  <2>2. l \in 1 .. Len(stack)
    BY <1>1, <1>2, <2>1
  <2>3. DependenciesOf(stack[l]) = plan.steps[i].dependencies
    BY <2>1, OwnDependencies
  <2>4. PICK q \in m .. Len(stack) : stack[q] \in DependenciesOf(stack[l])
    <3>1. CASE l = Len(stack)
      <4>1. left[stack[l]] \subseteq DependenciesOf(stack[l])
        BY <2>2 DEF Path
      <4>2. key \in DependenciesOf(stack[l])
        BY <3>1, <4>1 DEF Top
      <4> QED
        BY <1>1, <1>2, <4>2
    <3>2. CASE l # Len(stack)
      <4>1. l \in 1 .. Len(stack) - 1 /\ l + 1 \in m .. Len(stack)
        BY <1>1, <1>2, <2>1, <3>2
      <4> QED
        BY <4>1 DEF Path
    <3> QED
      BY <3>1, <3>2
  <2>5. q \in 1 .. Len(stack)
    BY <1>1, <1>2, <2>4
  <2>6. PICK j \in Positions : plan.steps[j].key = stack[q]
    BY <1>3, <2>5
  <2>7. j \in part /\ j \in Prerequisites(i)
    BY <2>3, <2>4, <2>6 DEF Prerequisites
  <2> QED
    BY <2>7
<1> QED
  BY <1>4, <1>5, SchedulableParts

----------------------------------------------------------------------------
(* What depends on the plan alone stays.                                   *)
LEMMA PlanKept ==
  ASSUME plan' = plan
  PROVE  /\ Positions' = Positions /\ PlanKeys' = PlanKeys
         /\ \A k : DependenciesOf(k)' = DependenciesOf(k)
         /\ KeysAreUnique' = KeysAreUnique /\ DependenciesExist' = DependenciesExist
         /\ Schedulable' = Schedulable /\ NewRows' = NewRows
  BY DEF Positions, PlanKeys, DependenciesOf, KeysAreUnique, DependenciesExist,
         Schedulable, IsSchedulable, Graph, Prerequisites, NewRows

(* A call of visit on a key that was not met before.                       *)
LEMMA EnterKeepsPath ==
  ASSUME IInv, pc = "visit", pc' = "visit", plan' = plan, visited' = visited,
         NEW key \in PlanKeys \ (visiting \cup visited), key \in Keys,
         Enter(key),
         \/ /\ stack = <<>>
            /\ left' = [left EXCEPT ![key] = DependenciesOf(key)]
         \/ /\ stack # <<>> /\ key \in left[Top]
            /\ left' = [left EXCEPT ![Top] = @ \ {key}, ![key] = DependenciesOf(key)]
  PROVE  Path' /\ stack' \in Seq(Keys) /\ left' \in [Keys -> SUBSET Keys]
<1> USE PlanKept
<1> DEFINE n == Len(stack)
<1>1. /\ stack \in Seq(Keys) /\ n \in Nat /\ \A i \in 1 .. n : stack[i] \in Keys
      /\ stack = <<>> <=> n = 0
      /\ left \in [Keys -> SUBSET Keys]
  BY DEF IInv, TypeOK
<1>2. /\ stack' = Append(stack, key) /\ Len(stack') = n + 1
      /\ \A i \in 1 .. n : stack'[i] = stack[i]
      /\ stack'[n + 1] = key /\ stack' \in Seq(Keys) /\ Top' = key
  BY <1>1 DEF Enter, Top
<1>3. \A i \in 1 .. n : stack[i] # key
  BY DEF IInv, Path, OnStack
<1>4. DependenciesOf(key) \subseteq Keys
  <2>1. PICK m \in 1 .. MaxSteps : plan.steps \in [1 .. m -> Steps] /\ Positions = 1 .. m
    BY PlanShape DEF IInv
  <2>2. \A i \in Positions : plan.steps[i].dependencies \subseteq Keys
    BY <2>1 DEF Steps
  <2> QED
    BY <2>2 DEF DependenciesOf
<1>5. left' \in [Keys -> SUBSET Keys] /\ left'[key] = DependenciesOf(key)
  BY <1>1, <1>4 DEF Top
<1>6. \A i \in 1 .. n : left'[stack[i]] = IF i = n THEN left[stack[i]] \ {key} ELSE left[stack[i]]
  <2>1. CASE stack = <<>>
    BY <1>1, <2>1
  <2>2. CASE stack # <<>>
    <3>1. \A i \in 1 .. n : stack[i] = Top <=> i = n
      BY <1>1, <2>2 DEF IInv, Path, Top
    <3> QED
      BY <1>1, <1>3, <2>2, <3>1
  <2> QED
    BY <2>1, <2>2
<1>7. OnStack' = OnStack \cup {key}
  BY <1>1, <1>2 DEF OnStack
<1>8. visiting' = OnStack' /\ OnStack' \subseteq PlanKeys /\ OnStack' \cap visited = {}
  BY <1>7 DEF IInv, Path, Enter
<1>9. \A i, j \in 1 .. n + 1 : stack'[i] = stack'[j] => i = j
  BY <1>1, <1>2, <1>3 DEF IInv, Path
<1>10. \A i \in 1 .. n + 1 : left'[stack'[i]] \subseteq DependenciesOf(stack'[i])
  <2> TAKE i \in 1 .. n + 1
  <2>1. CASE i = n + 1
    BY <1>2, <1>5, <2>1
  <2>2. CASE i # n + 1
    <3>1. i \in 1 .. n
      BY <1>1, <2>2
    <3>2. left[stack[i]] \subseteq DependenciesOf(stack[i])
      BY <3>1 DEF IInv, Path
    <3> QED
      BY <1>2, <1>6, <3>1, <3>2
  <2> QED
    BY <2>1, <2>2
<1>11. \A i \in 1 .. n : stack'[i + 1] \in DependenciesOf(stack'[i])
  <2> TAKE i \in 1 .. n
  <2>1. CASE i = n
    <3>1. stack # <<>> /\ key \in left[Top] /\ stack[n] = Top
      BY <1>1, <2>1 DEF Top
    <3> QED
      BY <1>1, <1>2, <2>1, <3>1 DEF IInv, Path
  <2>2. CASE i # n
    <3>1. i \in 1 .. n - 1 /\ i + 1 \in 1 .. n
      BY <1>1, <2>2
    <3> QED
      BY <1>2, <3>1 DEF IInv, Path
  <2> QED
    BY <2>1, <2>2
<1>12. \A i \in 1 .. n :
         DependenciesOf(stack'[i]) \subseteq left'[stack'[i]] \cup visited \cup {stack'[i + 1]}
  <2> TAKE i \in 1 .. n
  <2>1. CASE i = n
    <3>1. stack # <<>> /\ stack[n] = Top
      BY <1>1, <2>1 DEF Top
    <3>2. DependenciesOf(Top) \subseteq left[Top] \cup visited
      BY <3>1 DEF IInv, Path
    <3> QED
      BY <1>1, <1>2, <1>6, <2>1, <3>1, <3>2
  <2>2. CASE i # n
    <3>1. i \in 1 .. n - 1 /\ i + 1 \in 1 .. n
      BY <1>1, <2>2
    <3> QED
      BY <1>2, <1>6, <2>2, <3>1 DEF IInv, Path
  <2> QED
    BY <2>1, <2>2
<1>13. DependenciesOf(Top') \subseteq left'[Top'] \cup visited
  BY <1>2, <1>5
<1> QED
  BY <1>1, <1>2, <1>5, <1>8, <1>9, <1>10, <1>11, <1>12, <1>13 DEF Path

(* A return from visit: its key joins those that can be scheduled.         *)
LEMMA LeaveKeeps ==
  ASSUME IInv, Leave
  PROVE  Path' /\ Closed' /\ Grounded' /\ stack' \in Seq(Keys) /\ visited' \subseteq Keys
<1> USE PlanKept
<1> DEFINE n == Len(stack)
<1>1. /\ stack \in Seq(Keys) /\ n \in Nat \ {0} /\ \A i \in 1 .. n : stack[i] \in Keys
      /\ Top = stack[n] /\ plan' = plan /\ left' = left /\ pc = "visit" /\ pc' = "visit"
      /\ visited' = visited \cup {Top} /\ visiting' = visiting \ {Top} /\ left[Top] = {}
  BY DEF IInv, TypeOK, Leave, Top
<1>2. /\ Len(stack') = n - 1 /\ stack' \in Seq(Keys)
      /\ \A i \in 1 .. n - 1 : stack'[i] = stack[i]
  <2>1. stack' = SubSeq(stack, 1, n - 1)
    BY DEF Leave
  <2> HIDE DEF n
  <2> QED
    BY <1>1, <2>1, SubSeqProperties
<1>3. DependenciesOf(Top) \subseteq visited
  BY <1>1 DEF IInv, Path, Leave
<1>4. Top \notin visited /\ \A i \in 1 .. n - 1 : stack[i] # Top
  <2>1. Top \in OnStack
    BY <1>1 DEF OnStack
  <2> QED
    BY <1>1, <2>1 DEF IInv, Path
<1>5. Closed'
  BY <1>1, <1>3 DEF IInv, Closed
<1>6. Grounded'
  <2> SUFFICES ASSUME NEW part \in SUBSET (visited \cup {Top}), part # {}
               PROVE  \E k \in part : DependenciesOf(k) \cap part = {}
    BY <1>1 DEF Grounded
  <2>1. CASE part \cap visited = {}
    <3>1. part = {Top}
      BY <2>1
    <3> QED
      BY <1>3, <1>4, <3>1
  <2>2. CASE part \cap visited # {}
    <3>1. PICK k \in part \cap visited : DependenciesOf(k) \cap (part \cap visited) = {}
      BY <2>2 DEF IInv, Grounded
    <3>2. DependenciesOf(k) \subseteq visited
      BY <3>1 DEF IInv, Closed
    <3> QED
      BY <3>1, <3>2
  <2> QED
    BY <2>1, <2>2
<1>7. OnStack' = OnStack \ {Top}
  BY <1>1, <1>2, <1>4 DEF OnStack
<1>8. visiting' = OnStack' /\ OnStack' \subseteq PlanKeys /\ OnStack' \cap visited' = {}
  BY <1>1, <1>7 DEF IInv, Path
<1>9. \A i, j \in 1 .. n - 1 : stack'[i] = stack'[j] => i = j
  BY <1>1, <1>2 DEF IInv, Path
<1>10. \A i \in 1 .. n - 1 : left'[stack'[i]] \subseteq DependenciesOf(stack'[i])
  <2> TAKE i \in 1 .. n - 1
  <2>1. i \in 1 .. n
    BY <1>1
  <2> QED
    BY <1>1, <1>2, <2>1 DEF IInv, Path
<1>11. \A i \in 1 .. n - 2 :
         /\ stack'[i + 1] \in DependenciesOf(stack'[i])
         /\ DependenciesOf(stack'[i]) \subseteq left'[stack'[i]] \cup visited' \cup {stack'[i + 1]}
  <2> TAKE i \in 1 .. n - 2
  <2>1. i \in 1 .. n - 1 /\ i + 1 \in 1 .. n - 1
    BY <1>1
  <2> QED
    BY <1>1, <1>2, <2>1 DEF IInv, Path
<1>12. stack' # <<>> => DependenciesOf(Top') \subseteq left'[Top'] \cup visited'
  <2> HAVE stack' # <<>>
  <2>1. n - 1 \in 1 .. n - 1 /\ Top' = stack[n - 1]
    BY <1>1, <1>2 DEF Top
  <2> QED
    BY <1>1, <2>1 DEF IInv, Path
<1> QED
  BY <1>1, <1>2, <1>5, <1>6, <1>8, <1>9, <1>10, <1>11, <1>12 DEF Path, IInv, TypeOK

----------------------------------------------------------------------------
LEMMA InitInv == Init => IInv
<1> SUFFICES ASSUME Init PROVE IInv
  OBVIOUS
<1>1. TypeOK
  BY DEF Init, TypeOK, OldRows, Rows
<1>2. Closed /\ Grounded
  BY DEF Init, Closed, Grounded
<1> QED
  BY <1>1, <1>2 DEF Init, IInv, Fresh, Checked, Path, Finished, Budgeted, Stored, RefusalsAreJust

(* A step that only moves pc.                                              *)
LEMMA Turn ==
  ASSUME IInv, UNCHANGED <<plan, budget, stack, left, visiting, visited, rows>>,
         pc # "done", pc' # "done", pc' # "keys",
         pc' \in {"visit", "budget", "store", "refused"},
         Checked', Finished', Budgeted', RefusalsAreJust',
         pc' = "visit" => pc = "keys"
  PROVE  IInv'
<1> USE PlanKept
<1>1. TypeOK'
  BY DEF IInv, TypeOK
<1>2. Closed' /\ Grounded'
  BY DEF IInv, Closed, Grounded
<1>3. Path'
  <2> SUFFICES ASSUME pc' = "visit" PROVE Path'
    BY DEF Path
  <2>1. stack = <<>> /\ visiting = {} /\ Len(stack) = 0
    BY DEF IInv, Fresh
  <2>2. stack' = <<>> /\ visiting' = {} /\ Len(stack') = 0 /\ OnStack' = {}
    BY <2>1 DEF OnStack
  <2> QED
    BY <2>2 DEF Path
<1>4. Stored' /\ Fresh'
  BY DEF IInv, Stored, Fresh, OldRows
<1> QED
  BY <1>1, <1>2, <1>3, <1>4 DEF IInv

LEMMA NextInv == IInv /\ [Next]_vars => IInv'
<1> SUFFICES ASSUME IInv, [Next]_vars PROVE IInv'
  OBVIOUS
<1> USE PlanKept
<1>1. CASE CheckKeys
  <2>1. CASE KeysAreUnique /\ DependenciesExist
    BY <1>1, <2>1, Turn DEF CheckKeys, Checked, Finished, Budgeted, RefusalsAreJust
  <2>2. CASE ~(KeysAreUnique /\ DependenciesExist)
    BY <1>1, <2>2, Turn DEF CheckKeys, Refuse, Checked, Finished, Budgeted, RefusalsAreJust
  <2> QED
    BY <2>1, <2>2
<1>2. ASSUME NEW key \in Keys, VisitKey(key) PROVE IInv'
  <2>1. /\ pc = "visit" /\ pc' = pc /\ stack = <<>> /\ Enter(key)
        /\ left' = [left EXCEPT ![key] = DependenciesOf(key)]
        /\ UNCHANGED <<plan, budget, visited, rows>> /\ key \in PlanKeys
    BY <1>2 DEF VisitKey
  <2>2. key \in PlanKeys \ (visiting \cup visited)
    <3>1. visiting = {} 
      BY <2>1 DEF IInv, Path, OnStack
    <3> QED
      BY <1>2, <3>1 DEF VisitKey
  <2>3. Path' /\ stack' \in Seq(Keys) /\ left' \in [Keys -> SUBSET Keys]
    BY <2>1, <2>2, EnterKeepsPath
  <2>4. TypeOK'
    BY <2>1, <2>3 DEF IInv, TypeOK, Enter
  <2> QED
    BY <2>1, <2>3, <2>4
    DEF IInv, Fresh, Checked, Closed, Grounded, Finished, Budgeted, Stored, OldRows, RefusalsAreJust
<1>3. ASSUME NEW key \in Keys, VisitDependency(key) PROVE IInv'
  <2>1. pc = "visit" /\ stack # <<>> /\ key \in left[Top]
    BY <1>3 DEF VisitDependency
  <2>2. KeysAreUnique /\ DependenciesExist
    BY <2>1 DEF IInv, Checked
  <2>3. CASE key \in visiting /\ Refuse
    <3>1. ~Schedulable
      BY <2>1, <2>2, <2>3, CyclesDoNotSchedule DEF IInv
    <3> QED
      BY <2>1, <2>3, <3>1, Turn DEF Refuse, Checked, Finished, Budgeted, RefusalsAreJust
  <2>4. CASE /\ key \notin visiting /\ key \in visited
             /\ left' = [left EXCEPT ![Top] = @ \ {key}]
             /\ UNCHANGED <<plan, budget, pc, stack, visiting, visited, rows>>
    <3> DEFINE n == Len(stack)
    <3>1. /\ stack \in Seq(Keys) /\ n \in Nat \ {0} /\ \A i \in 1 .. n : stack[i] \in Keys
          /\ Top = stack[n] /\ left \in [Keys -> SUBSET Keys]
      BY <2>1 DEF IInv, TypeOK, Top
    <3>2. TypeOK' /\ Top' = Top /\ OnStack' = OnStack /\ left' \in [Keys -> SUBSET Keys]
      BY <2>4, <3>1 DEF IInv, TypeOK, Top, OnStack
    <3>3. \A i \in 1 .. n :
            /\ left'[stack[i]] \subseteq left[stack[i]]
            /\ left[stack[i]] \subseteq left'[stack[i]] \cup visited
      BY <2>4, <3>1
    <3>4. \A i \in 1 .. n : left'[stack[i]] \subseteq DependenciesOf(stack[i])
      BY <2>1, <3>3 DEF IInv, Path
    <3>5. \A i \in 1 .. n - 1 :
            DependenciesOf(stack[i]) \subseteq left'[stack[i]] \cup visited \cup {stack[i + 1]}
      <4> TAKE i \in 1 .. n - 1
      <4>1. i \in 1 .. n
        BY <3>1
      <4> QED
        BY <2>1, <3>3, <4>1 DEF IInv, Path
    <3>6. DependenciesOf(Top) \subseteq left'[Top] \cup visited
      <4>1. n \in 1 .. n
        BY <3>1
      <4> QED
        BY <2>1, <3>1, <3>3, <4>1 DEF IInv, Path
    <3>7. /\ visiting = OnStack /\ OnStack \subseteq PlanKeys /\ OnStack \cap visited = {}
          /\ \A i, j \in 1 .. n : stack[i] = stack[j] => i = j
          /\ \A i \in 1 .. n - 1 : stack[i + 1] \in DependenciesOf(stack[i])
      BY <2>1 DEF IInv, Path
    <3>8. Path'
      <4>1. stack' = stack /\ visiting' = visiting /\ visited' = visited /\ plan' = plan
        BY <2>1, <2>4, <1>3 DEF VisitDependency
      <4> QED
        BY <4>1, <3>2, <3>4, <3>5, <3>6, <3>7 DEF Path
    <3> QED
      BY <2>1, <2>4, <3>2, <3>8
      DEF IInv, Fresh, Checked, Closed, Grounded, Finished, Budgeted, Stored, OldRows,
          RefusalsAreJust
  <2>5. CASE /\ key \notin visiting \cup visited
             /\ Enter(key)
             /\ left' = [left EXCEPT ![Top] = @ \ {key}, ![key] = DependenciesOf(key)]
             /\ UNCHANGED <<plan, budget, pc, visited, rows>>
    <3>1. key \in PlanKeys
      <4>1. stack \in Seq(Keys) /\ Len(stack) \in 1 .. Len(stack)
        BY <2>1 DEF IInv, TypeOK
      <4>2. Top \in PlanKeys /\ left[Top] \subseteq DependenciesOf(Top)
        BY <2>1, <4>1 DEF IInv, Path, OnStack, Top
      <4> QED
        BY <2>1, <2>2, <4>2, DependenciesInPlan DEF IInv
    <3>2. Path' /\ stack' \in Seq(Keys) /\ left' \in [Keys -> SUBSET Keys]
      BY <2>1, <2>5, <3>1, EnterKeepsPath
    <3>3. TypeOK'
      BY <2>5, <3>2 DEF IInv, TypeOK, Enter
    <3> QED
      BY <2>1, <2>5, <3>2, <3>3
      DEF IInv, Fresh, Checked, Closed, Grounded, Finished, Budgeted, Stored, OldRows,
          RefusalsAreJust
  <2> QED
    BY <1>3, <2>3, <2>4, <2>5 DEF VisitDependency
<1>4. CASE Leave
  <2>1. /\ Path' /\ Closed' /\ Grounded' /\ stack' \in Seq(Keys) /\ visited' \subseteq Keys
        /\ pc = "visit" /\ pc' = "visit" /\ UNCHANGED <<plan, budget, left, rows>>
        /\ visiting' \subseteq visiting
    BY <1>4, LeaveKeeps DEF Leave
  <2>2. TypeOK'
    BY <2>1 DEF IInv, TypeOK
  <2> QED
    BY <2>1, <2>2
    DEF IInv, Fresh, Checked, Finished, Budgeted, Stored, OldRows, RefusalsAreJust
<1>5. CASE AllVisited
  BY <1>5, Turn DEF AllVisited, IInv, Checked, Finished, Budgeted, RefusalsAreJust
<1>6. CASE CheckBudget
  <2>1. WithinBudget' = WithinBudget
    BY <1>6 DEF CheckBudget, Refuse, WithinBudget
  <2> QED
    BY <1>6, <2>1, Turn
    DEF CheckBudget, Refuse, IInv, Checked, Finished, Budgeted, RefusalsAreJust
<1>7. CASE ReplaceForRun
  <2>1. CASE Refuse
    BY <1>7, <2>1, Turn
    DEF ReplaceForRun, Refuse, IInv, Checked, Finished, Budgeted, RefusalsAreJust
  <2>2. CASE /\ rows' = NewRows /\ pc' = "done"
             /\ UNCHANGED <<plan, budget, stack, left, visiting, visited>>
    <3>1. NewRows \subseteq Rows
      <4>1. PICK n \in 1 .. MaxSteps : Positions = 1 .. n
        BY PlanShape DEF IInv
      <4>2. Positions \subseteq Nat
        BY <4>1
      <4> SUFFICES ASSUME NEW i \in Positions
                   PROVE  [position |-> i, dependencies |-> Prerequisites(i),
                           status |-> IF plan.steps[i].dependencies = {}
                                      THEN "READY" ELSE "PENDING"] \in Rows
        BY DEF NewRows
      <4>3. i \in Nat /\ Prerequisites(i) \subseteq Nat
        BY <4>2 DEF Prerequisites
      <4> QED
        BY <4>3 DEF Rows
    <3>2. TypeOK'
      BY <2>2, <3>1 DEF IInv, TypeOK
    <3>3. Closed' /\ Grounded'
      BY <2>2 DEF IInv, Closed, Grounded
    <3>4. Budgeted' /\ Finished' /\ Checked'
      BY <1>7, <2>2 DEF ReplaceForRun, IInv, Budgeted, Finished, Checked, WithinBudget
    <3> QED
      BY <2>2, <3>2, <3>3, <3>4 DEF IInv, Path, Fresh, Stored, RefusalsAreJust
  <2> QED
    BY <1>7, <2>1, <2>2 DEF ReplaceForRun
<1>8. CASE UNCHANGED vars
  BY <1>8 DEF vars, IInv, TypeOK, Fresh, Checked, Path, OnStack, Top, Closed, Grounded, Finished,
     Budgeted, WithinBudget, Stored, OldRows, RefusalsAreJust
<1> QED
  BY <1>1, <1>2, <1>3, <1>4, <1>5, <1>6, <1>7, <1>8 DEF Next

(* The invariant holds in every state of every validation.                 *)
THEOREM Inductive == Spec => []IInv
  BY InitInv, NextInv, PTL DEF Spec

(* Every column of the search and of the rows stays in its type.           *)
THEOREM TypeCorrect == Spec => []TypeOK
<1>1. IInv => TypeOK
  BY DEF IInv
<1> QED
  BY <1>1, Inductive, PTL

(* The rows of a run are replaced only by a plan with a schedule, a first  *)
(* step and a budget (validatePlan, replaceForRun).                        *)
THEOREM StoredSchedule == Spec => []StoredPlansSchedule
<1>1. IInv => StoredPlansSchedule
  <2> SUFFICES ASSUME IInv PROVE StoredPlansSchedule
    OBVIOUS
  <2>1. CASE pc = "done"
    <3>1. Schedulable
      BY <2>1, VisitedSchedules DEF IInv, Checked, Finished
    <3>2. \E row \in rows : row.status = "READY"
      BY <2>1, <3>1, ScheduleBegins DEF IInv, Checked, Stored
    <3> QED
      BY <2>1, <3>1, <3>2 DEF IInv, Budgeted, StoredPlansSchedule
  <2>2. CASE pc # "done"
    BY <2>2 DEF IInv, Stored, StoredPlansSchedule
  <2> QED
    BY <2>1, <2>2
<1> QED
  BY <1>1, Inductive, PTL

(* The rows are a plan as the orchestrator assumes it, in the statuses it  *)
(* begins with (PlanService.create, replaceForRun).                        *)
THEOREM StoredUsable == Spec => []StoredPlansAreUsable
<1>1. IInv => StoredPlansAreUsable
  <2> SUFFICES ASSUME IInv, pc = "done" PROVE StoredPlansAreUsable
    BY DEF StoredPlansAreUsable
  <2>1. PICK n \in 1 .. MaxSteps : Positions = 1 .. n /\ plan.steps \in [1 .. n -> Steps]
    BY PlanShape DEF IInv
  <2>2. DOMAIN Graph = Positions /\ \A i \in Positions : Graph[i] = Prerequisites(i)
    BY DEF Graph
  <2>3. IsPlan(Graph)
    <3>1. n \in Nat /\ n >= 1
      BY MaxStepsAssumption
    <3>2. DOMAIN Graph \subseteq Nat \ {0} /\ DOMAIN Graph # {}
      BY <2>1, <2>2, <3>1
    <3>3. IsFiniteSet(DOMAIN Graph)
      BY <2>1, <2>2, <3>1, FS_Interval
    <3>4. Graph \in [DOMAIN Graph -> SUBSET DOMAIN Graph]
      <4>1. \A i \in Positions : Prerequisites(i) \in SUBSET Positions
        BY DEF Prerequisites
      <4> QED
        BY <4>1 DEF Graph
    <3> QED
      BY <3>2, <3>3, <3>4 DEF IsPlan
  <2>4. IsSchedulable(Graph)
    BY VisitedSchedules DEF IInv, Checked, Finished, Schedulable
  <2>5. ASSUME NEW i \in Positions
        PROVE  Graph[i] = {} <=> plan.steps[i].dependencies = {}
    <3>1. plan.steps[i].dependencies \subseteq PlanKeys
      BY DEF IInv, Checked, DependenciesExist
    <3> QED
      BY <2>2, <3>1 DEF Prerequisites, PlanKeys
  <2>6. rows = NewRows
    BY DEF IInv, Stored
  <2>7. rows = {[position |-> i, dependencies |-> Graph[i],
                 status |-> IF Graph[i] = {} THEN "READY" ELSE "PENDING"] : i \in DOMAIN Graph}
    BY <2>2, <2>5, <2>6 DEF NewRows
  <2> QED
    BY <2>3, <2>4, <2>7 DEF StoredPlansAreUsable
<1> QED
  BY <1>1, Inductive, PTL

(* A step of the search makes it smaller, in the order: keys not entered,  *)
(* dependencies not followed, calls not returned.                          *)
Smaller ==
  \/ White' \subseteq White /\ White' # White
  \/ White' = White /\ Edges' \subseteq Edges /\ Edges' # Edges
  \/ /\ White' = White /\ Edges' = Edges
     /\ visiting' \subseteq visiting /\ visiting' # visiting

LEMMA EntersSmaller ==
  ASSUME plan' = plan, visited' = visited, NEW key \in White, Enter(key)
  PROVE  Smaller
<1>1. White' = White \ {key}
  BY PlanKept DEF White, Enter
<1> QED
  BY <1>1 DEF Smaller

LEMMA SearchShrinks ==
  ASSUME IInv, Next, pc = "visit", pc' = "visit"
  PROVE  Smaller
<1>1. ASSUME stack # <<>>
      PROVE  /\ Top \in Keys /\ Top \in visiting /\ Top \in PlanKeys
             /\ left[Top] \subseteq DependenciesOf(Top)
  <2>1. stack \in Seq(Keys) /\ Len(stack) \in 1 .. Len(stack)
    BY <1>1 DEF IInv, TypeOK
  <2> QED
    BY <2>1 DEF IInv, Path, OnStack, Top
<1>2. ASSUME NEW key \in Keys, VisitKey(key)
      PROVE  Smaller
  <2>1. key \in White
    BY <1>2 DEF VisitKey, IInv, Path, OnStack, White
  <2> QED
    BY <1>2, <2>1, EntersSmaller DEF VisitKey
<1>3. ASSUME NEW key \in Keys, VisitDependency(key)
      PROVE  Smaller
  <2>1. stack # <<>> /\ key \in left[Top]
    BY <1>3 DEF VisitDependency
  <2>2. CASE /\ key \in visited
             /\ left' = [left EXCEPT ![Top] = @ \ {key}]
             /\ UNCHANGED <<plan, budget, pc, stack, visiting, visited, rows>>
    <3>1. White' = White
      BY <2>2, PlanKept DEF White
    <3>2. \A k \in Keys : left'[k] = IF k = Top THEN left[k] \ {key} ELSE left[k]
      BY <2>2 DEF IInv, TypeOK
    <3>3. visiting \subseteq Keys
      BY DEF IInv, TypeOK
    <3>4. <<Top, key>> \in Edges /\ <<Top, key>> \notin Edges'
      BY <1>1, <2>1, <3>2 DEF Edges
    <3>5. Edges' \subseteq Edges
      BY <2>2, <3>2, <3>3 DEF Edges
    <3> QED
      BY <3>1, <3>4, <3>5 DEF Smaller
  <2>3. CASE /\ key \notin visiting \cup visited
             /\ Enter(key)
             /\ UNCHANGED <<plan, visited>>
    <3>1. key \in PlanKeys
      BY <1>1, <2>1, DependenciesInPlan DEF IInv, Checked
    <3> QED
      BY <2>3, <3>1, EntersSmaller DEF White
  <2> QED
    BY <1>3, <2>2, <2>3 DEF VisitDependency, Refuse
<1>4. CASE Leave
  <2>1. /\ stack # <<>> /\ left[Top] = {} /\ UNCHANGED <<plan, left>>
        /\ visiting' = visiting \ {Top} /\ visited' = visited \cup {Top}
    BY <1>4 DEF Leave
  <2>2. White' = White
    BY <1>1, <2>1, PlanKept DEF White
  <2>3. Edges' = Edges
    BY <2>1 DEF Edges
  <2> QED
    BY <1>1, <2>1, <2>2, <2>3 DEF Smaller
<1> QED
  BY <1>2, <1>3, <1>4
  DEF Next, CheckKeys, AllVisited, CheckBudget, ReplaceForRun, Refuse

(* No step of the search is repeated, on any plan: each enters a key, ticks*)
(* a dependency off or returns (visit of validatePlan).                    *)
THEOREM AdvancingSearch == Spec => SearchAdvances
<1>1. IInv /\ [Next]_vars =>
        [(pc = "visit" /\ pc' = "visit") => Smaller]_vars
  BY SearchShrinks
<1> QED
  BY <1>1, Inductive, PTL DEF Spec, SearchAdvances, Smaller

LEMMA SearchIsFinite ==
  ASSUME IInv, pc = "visit"
  PROVE  IsFiniteSet(White) /\ IsFiniteSet(Edges) /\ IsFiniteSet(visiting)
<1>1. IsFiniteSet(PlanKeys)
  <2>1. PICK n \in 1 .. MaxSteps : Positions = 1 .. n
    BY PlanShape DEF IInv
  <2>2. IsFiniteSet(Positions)
    BY <2>1, FS_Interval, MaxStepsAssumption
  <2> DEFINE keyOf == [i \in Positions |-> plan.steps[i].key]
  <2>3. keyOf \in Surjection(Positions, PlanKeys)
    BY DEF PlanKeys, Surjection
  <2> QED
    BY <2>2, <2>3, FS_Surjection
<1>2. visiting \subseteq PlanKeys /\ White \subseteq PlanKeys
  BY DEF IInv, Path, White
<1>3. Edges \subseteq PlanKeys \X PlanKeys
  <2>1. ASSUME NEW k \in visiting
        PROVE  left[k] \subseteq PlanKeys
    <3>1. PICK i \in 1 .. Len(stack) : k = stack[i]
      BY DEF IInv, Path, OnStack
    <3>2. left[k] \subseteq DependenciesOf(k)
      BY <3>1 DEF IInv, Path
    <3> QED
      BY <1>2, <3>2, DependenciesInPlan DEF IInv, Checked
  <2> QED
    BY <1>2, <2>1 DEF Edges
<1> QED
  BY <1>1, <1>2, <1>3, FS_Subset, FS_Product

(* ... and there are finitely many keys to enter, dependencies to follow   *)
(* and calls to return from, so that no search goes on for ever.           *)
THEOREM FiniteSearch ==
  Spec => [](pc = "visit" =>
               IsFiniteSet(White) /\ IsFiniteSet(Edges) /\ IsFiniteSet(visiting))
<1>1. IInv => (pc = "visit" =>
                 IsFiniteSet(White) /\ IsFiniteSet(Edges) /\ IsFiniteSet(visiting))
  BY SearchIsFinite
<1> QED
  BY <1>1, Inductive, PTL

(* Only a plan with a cycle is refused as cyclic (visit of validatePlan).  *)
THEOREM JustRefusals == Spec => []RefusalsAreJust
<1>1. IInv => RefusalsAreJust
  BY DEF IInv
<1> QED
  BY <1>1, Inductive, PTL
=============================================================================
