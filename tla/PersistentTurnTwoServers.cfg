SPECIFICATION Spec
CONSTANTS
  Server = {p1, p2}
  Session = {s1, s2}
  Bound = {s1}
  Turn = {t1, t2}
  NoJob = NoJob
  MaxRuns = 3
  Faults = {"crash"}
INVARIANTS
  IndexDense
  TurnTakesEffectOnce
  GateBeforeWrites
  MemoryFollowsRecord
  PatchFitsSnapshot
SYMMETRY InterchangeableTurns
CHECK_DEADLOCK FALSE
