SPECIFICATION Spec
CONSTANTS
  Server = {p1}
  Key <- Keys
  Offered <- OfferedOps
  Seed <- AnySeed
  Nothing = Nothing
  MaxOps = 2
  MaxTurns = 1
INVARIANTS
  SeedReachesState
CHECK_DEADLOCK FALSE
