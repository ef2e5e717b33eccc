SPECIFICATION Spec
CONSTANTS
  Server = {p1, p2}
  Key <- Keys
  Memory <- Memories
  New <- NewMemories
  Updated <- UpdatedMemories
  Resolved <- ResolvedMemories
  Rag <- RagMemories
  Rank <- ById
  Limit = 2
  Idle = Idle
  Faults = {"crash", "raise"}
INVARIANTS
  ReceiptsTellStored
  ActiveWithinLimit
  ReplayWritesNothing
PROPERTIES
  EvictsLowest
  RetentionMakesRoom
SYMMETRY Interchangeable
CHECK_DEADLOCK FALSE
