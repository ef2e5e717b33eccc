SPECIFICATION FairSpec
CONSTANTS
  Server = {p1}
  Session = {s1, s2}
  Bound = {s1, s2}
  Turn = {t1, t2}
  NoJob = NoJob
  MaxRuns = 3
  Faults = {"crash", "raise"}
INVARIANTS
  StateIsPatchFold
  RevisionChain
  RecordsInRevisionOrder
  TurnsMatchPatches
PROPERTIES
  RecordedAtCurrentRevision
  LedgerSpec
  RequestAnswered
CHECK_DEADLOCK FALSE
