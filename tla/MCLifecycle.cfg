SPECIFICATION Spec
CONSTANTS
  Efforts = 5
  t1 = t1
  t2 = t2
  Refs = {t1, t2}
  NoRef = NoRef
  MaxGenerations = 5
  MaxPartitions = 2
SYMMETRY MCSymmetry
INVARIANTS
  TypeOK
  EvidenceIsCurrent
  RunsStayInBudget
PROPERTY ContinuedRepairKeepsItsWorker
CHECK_DEADLOCK FALSE
