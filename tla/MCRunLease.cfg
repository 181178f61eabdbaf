SPECIFICATION Spec
CONSTANTS
  Processes = {p1, p2, p3}
  None = None
  Duration = 7
  Period = 2
  MaxWait = 1
  MaxLate = 1
  MaxTime = 16
SYMMETRY ProcessSymmetry
INVARIANTS OneDriver DriverHoldsLease
CHECK_DEADLOCK FALSE
