SPECIFICATION FairSpec
CONSTANTS
  Process = {p1, p2}
  Object <- AllObjects
  MIGRATIONS <- Migrations
  MaxCrashes = 2
  MaxErrors = 1
INVARIANTS
  RecordedIsComplete
  ReadyMeansMigrated
  OnlyFaultsLeaveColumns
PROPERTIES
  WholeMigrationsReopen
CHECK_DEADLOCK FALSE
