SPECIFICATION Spec
CONSTANTS
  Server = {p1, p2}
  Session = {s1}
  Bound = {s1}
  Turn = {t1, t2}
  NoJob = NoJob
  MaxRuns = 3
  Faults = {}
INVARIANTS
  StateIsPatchFold
CHECK_DEADLOCK FALSE
