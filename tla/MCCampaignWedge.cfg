SPECIFICATION Spec
CONSTANTS
  five_hour = five_hour
  weekly = weekly
  p1 = p1
  p2 = p2
  r1 = r1
  r2 = r2
  Free = Free
  None = None
  Procs = {p1, p2}
  Kinds = {five_hour, weekly}
  Reset <- MCReset
  MaxPairs = 2
  MaxReading = 1
  MaxTime = 8
  Revisions = {r1, r2}
  Candidates = {c1}
  MaxCrashes = 1
INVARIANTS
  EndReadingsDoNotRise
