SPECIFICATION Spec
CONSTANTS
  Keys = {k1, k2, k3}
  MaxSteps = 3
  Budgets <- MCBudgets
CHECK_DEADLOCK FALSE
INVARIANTS StoredPlansSchedule RefusalsAreJust
PROPERTY ValidationEnds
