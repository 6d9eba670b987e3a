SPECIFICATION Spec
CONSTANTS
  None = None
  Free = Free
  p1 = p1
  p2 = p2
  Procs = {p1, p2}
  now = now
  past = past
  CurrentPolicy = now
  MIN_MATCHED_PAIRS = 2
  ReviewPairs = 2
  SavingsFloor = 50
  FirstPassFloor = 80
  ElapsedFloor = 0
  CoordinationCeiling = 50
  InitialWriters = 1
  ActiveLunaWriters = 1
  Documents <- MCDocuments
  Ledgers <- MCLedgers
  MaxRecords = 6
  Index <- MCIndex
  Requests <- MCRequests
  Manifests <- MCManifests
INVARIANTS
  RecommendationIsEarned
  ColdStartIsAffordable
PROPERTY
  LedgerStaysWhole
CHECK_DEADLOCK FALSE
