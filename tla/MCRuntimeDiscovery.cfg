SPECIFICATION FairSpec
CONSTANTS
  MaxInstances = 2
  Scenes = {{"start"}, {"desktop"}}
  Clis = {c1}
  Pids = {p1, p2}
  Ports = {q1, q2}
  CliReleases = {2}
  DesktopReleases = {1}
  LatestSchema = 2
  None = None
CHECK_DEADLOCK FALSE
INVARIANTS SchemaIsWhole ServesOnItsTables
PROPERTIES MigrationsAreOrdered EnsureEnds StopEnds DesktopBecomesReady
