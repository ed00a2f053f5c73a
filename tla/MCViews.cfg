SPECIFICATION MCSpec
CONSTANTS
  Concerns = {"feed", "page"}
  LastTurn = 2
  MaxEvents = 1
  Tools <- MCTools
  MaxTurns = 2
  MaxTexts = 2
  MaxCalls = 2
  FaultKinds = {"lost", "late"}
  MaxFaults = 1
  MaxWaiting = 3
INVARIANTS
  FeedHasEverything
  ThoughtsPrecedeAnswers
  InterruptSparesNext
  StepsHoldTheirTools
PROPERTIES
  FeedOnlyGrows
  NothingVanishes
CHECK_DEADLOCK FALSE
