SPECIFICATION Spec
CONSTANTS
  Calls = {c1, c2}
  None = None
  MaxWriteOperations = 1
SYMMETRY CallSymmetry
INVARIANTS RowsAreBacked OkMeansDone OutcomeIsOnFile CheckpointIsStable CommittedAreKnown
PROPERTY ImplementsAuditedEffects
