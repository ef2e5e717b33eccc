SPECIFICATION FairSpec
CONSTANTS
  Server = {p1}
  Key <- Keys
  Memory <- Memories
  New <- NewMemories
  Updated <- Nothing
  Resolved <- Nothing
  Rag <- RagMemories
  Rank <- ById
  Limit = 2
  Idle = Idle
  Faults = {"crash"}
PROPERTIES
  FullLayerAccepts
CHECK_DEADLOCK FALSE
