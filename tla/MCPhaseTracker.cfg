SPECIFICATION Spec
CONSTANTS
  luna_one = luna_one
  worker = worker
  p1 = p1
  p2 = p2
  Free = Free
  None = None
  Procs = {p1, p2}
  Executors = {luna_one, worker}
  Hint <- MCHint
  Routes = {"SOL_LUNA"}
  Phases = {"luna_execution", "sol_retained_execution", "repair"}
  CallerIds = {3}
  Created = {0}
  MaxIntervals = 2
  MaxTime = 2
SYMMETRY MCSymmetry
INVARIANTS
  ValidationNeverRefuses
  MetricsAreExact
PROPERTIES
  JournalOnlyGrows
  RunsCloseTheirOwn
