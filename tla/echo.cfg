SPECIFICATION EchoSpec
CONSTANTS
  Methods = {"truncate", "summary", "echo_e2e", "semantic_selection", "full_observation"}
  InitialLength = 2
  PromptLength = 2
  ResponseLength = 6
  WorkingContext = 7
  TruncateBudget = 2
  SelectionBudget = 2
  RebuiltLengths = {2, 3}
  ToolLengths = {1, 4}
  Replies <- WellFormed
  MaxSummaryRounds = 2
  MaxParallelCalls = 2
  TurnLimits = {0, 2}
INVARIANTS
  EchoTypeOK
  EachTurnIsTrainedOnce
  SegmentsKeepTheirPrefix
  MasksCanBeBuilt
  SubmitIsInTheFinalSegment
  RolloutIsBounded
CHECK_DEADLOCK FALSE
