SPECIFICATION Spec
CONSTANTS
  Server = {p1, p2}
  Key <- Keys
  Offered <- OfferedOps
  Seed <- NoSeed
  Nothing = Nothing
  MaxOps = 2
  MaxTurns = 3
INVARIANTS
  LogReplays
  StoreAcceptsValidated
  OfflineNeverRejected
PROPERTIES
  TextLostWithReason
SYMMETRY Interchangeable
CHECK_DEADLOCK FALSE
