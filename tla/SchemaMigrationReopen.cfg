SPECIFICATION FairSpec
CONSTANTS
  Process = {p1}
  Object <- AllObjects
  MIGRATIONS <- Migrations
  MaxCrashes = 1
  MaxErrors = 0
PROPERTIES
  EveryProcessOpens
CHECK_DEADLOCK FALSE
