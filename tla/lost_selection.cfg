SPECIFICATION EchoSpec
CONSTANTS
  Methods = {"echo_e2e"}
  InitialLength = 2
  PromptLength = 2
  ResponseLength = 8
  WorkingContext = 8
  TruncateBudget = 2
  SelectionBudget = 2
  RebuiltLengths = {2, 3}
  ToolLengths = {1, 5}
  Replies <- WellFormed
  MaxSummaryRounds = 2
  MaxParallelCalls = 2
  TurnLimits = {0, 2}
INVARIANTS
  CompressionKeepsItsPrefix
CHECK_DEADLOCK FALSE
