SPECIFICATION Spec
CONSTANTS
  old = old
  new = new
  dir = dir
  Directories = {dir}
  Under <- MCUnder
  Plans <- MCPlans
  Reports <- MCReports
  v0 = v0
  v1 = v1
  c1 = c1
  c2 = c2
  Absent = Absent
  Order <- MCOrder
  Contents = {v0, v1}
  Kind <- MCKind
  Commits = {c1, c2}
  Tree <- MCTree
  AtHead = AtHead
  Bases = {AtHead, c1}
  Changes = {"file", "index", "head"}
  MayRestore = FALSE
  MaxChanges = 3
INVARIANTS
  StableIndexPreventsMixing
  AcceptedChangesStayInScope
  QuietCandidateIsCaptured
CHECK_DEADLOCK FALSE
