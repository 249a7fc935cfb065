SPECIFICATION ArexSpec
CONSTANTS
  Selected = 1
  MaxTurns = 1
  MaxInvocations = 2
  MaxEvaluations = 2
INVARIANTS
  VerdictsAreOfTheirRuns
CHECK_DEADLOCK FALSE
