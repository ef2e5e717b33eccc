SPECIFICATION FairSpec
CONSTANTS
  Server = {p1}
  Session = {s1}
  Bound = {s1}
  Turn = {t1, t2}
  NoJob = NoJob
  MaxRuns = 3
  Faults = {"crash"}
PROPERTIES
  RetryGivesSameResult
CHECK_DEADLOCK FALSE
