SPECIFICATION BenchmarkSpec
CONSTANTS
  Selected = 2
  MaxStarts = 3
INVARIANTS
  RerunFinishesTheRest
CHECK_DEADLOCK FALSE
