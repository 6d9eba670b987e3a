SPECIFICATION Spec
CONSTANTS
  core = core
  docs = docs
  lane = lane
  c1 = c1
  c2 = c2
  d1 = d1
  l1 = l1
  e1 = e1
  e2 = e2
  e3 = e3
  e4 = e4
  e5 = e5
  NoEvidence = NoEvidence
  LunaUnits <- MCLunaUnits
  SolUnits <- MCSolUnits
  Ids <- MCIds
  SolIds <- MCSolIds
  UnitOf <- MCUnitOf
  Evidence <- MCEvidence
  Digests = {z0, z1}
  Actors = {Sol, Luna}
  Controller = Sol
  Executor = Luna
  MaxAttempts = 2
  MaxCost = 3
  Weights = {1, 2}
  MaxParallel = 1
SYMMETRY MCSymmetry
INVARIANTS
  TypeOK
  ReviewedAsItStands
  CreditFollowsAuthorship
  RepairsStayInBudget
  FailuresAreAnswered
  RepairTargetsStayAnswerable
  ProjectionIsExact
PROPERTIES
  ImplementsAuthority
CHECK_DEADLOCK FALSE
