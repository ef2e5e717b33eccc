SPECIFICATION Spec
CONSTANTS
  Book <- Books
  NoUid = 99
  EntryChars = 5
  TotalChars = 10
  Memory = {1, 2, 3}
  ActiveLimit = 2
  RagLimit = 1
  Quality = {1, 2, 3}
  ScoreCap = 2
  RankScore <- RankScores
  Unsearched = Unsearched
  ToolPlan <- ToolPlans
  NoPlan <- NoToolPlan
  UsageCap = 5
  Duration <- Durations
  Agents = 4
  Revisions = 2
  Task <- Tasks
  Kind <- KindOf
  Tokens <- TokensOf
  Plan <- Plans
  Policy <- Policies
  NoPolicy <- PlainPool
  Path <- Paths
  Suggestion <- Suggestions
  MaxAdopted = 2
  MaxRetries = 2
  Rival = {r1, r2}
  NoRecord = NoRecord
INVARIANTS
  TypeOK
  BestContext
  RequestsClassifiedOnce
  OnlyTimeRunsOut
  DeepenedOrRule
  DraftHasItsReceipt
  TasksReportedOnce
  AdoptedAreCompatible
  WritesFollowGate
PROPERTIES
  TurnEnds
CHECK_DEADLOCK FALSE
