SPECIFICATION EchoSpec
CONSTANTS
  Methods = {"truncate"}
  InitialLength = 2
  PromptLength = 2
  ResponseLength = 6
  WorkingContext = 7
  TruncateBudget = 4
  SelectionBudget = 2
  RebuiltLengths = {2, 3}
  ToolLengths = {1, 4}
  Replies <- WellFormed
  MaxSummaryRounds = 2
  MaxParallelCalls = 2
  TurnLimits = {0, 2}
INVARIANTS
  SegmentsKeepTheirPrefix
CHECK_DEADLOCK FALSE
