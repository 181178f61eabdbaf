SPECIFICATION StreamSpec
CONSTANTS
  Writers = {w1, w2}
  Readers = {r1}
  None = None
  MaxVersion = 2
  PageLimit = 2
SYMMETRY MCSymmetry
INVARIANTS VersionIdentifiesRow LogTellsStatus
           NothingMissed NothingRepeated ViewIsCurrent CommandsFinish
PROPERTIES ImplementsLifecycle DecisionsAreCurrent
