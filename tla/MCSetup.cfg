SPECIFICATION Spec
CONSTANTS
  skill = skill
  agent = agent
  s2 = s2
  s3 = s3
  g1 = g1
  g2 = g2
  mine = mine
  notes = notes
  Free = Free
  Absent = Absent
  NoState = NoState
  Procs = {p1, p2}
  Assets = {skill, agent}
  Release <- MCRelease
  Shipped = {s2, s3, g1, g2}
  UserTexts = {mine}
  Found <- MCFound
  Agents = {agent}
  Stray = notes
  OldReleases = {1, 2}
  NoTree = NoTree
  NoMigration = NoMigration
  MaxFailures = 1
  MaxStops = 1
INVARIANTS
  SuccessIsOneRelease
  RollbackRestoresOriginals
  InterruptedApplyCanBeRetried
  RetiredInstallationComesBack
PROPERTIES
  UserContentIsKept
  FailedInstallIsUndone
  LockIsReleased
CHECK_DEADLOCK FALSE
