SPECIFICATION FairSpec
CONSTANTS
  Packages <- MCPackages
  Graphs <- MCGraphs
  Sources <- MCSources
  Estimates <- MCEstimates
  writer_cap = 2
  attempts_max = 1
  None = None
  Writers = {1, 2}
  Config <- MCConfig
INVARIANTS
  FollowedPlansAreAccepted
  SortIsExact
  NobodyIsStuck
  SchedulesAreExact
PROPERTY
  EveryGraphIsDrained
CHECK_DEADLOCK FALSE
