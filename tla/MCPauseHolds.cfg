SPECIFICATION Spec
CONSTANTS
  Plans <- ShortPlans
  MaxReplans = 1
  None = None
PROPERTY PauseHolds
