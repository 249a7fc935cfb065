SPECIFICATION ArexSpec
CONSTANTS
  Selected = 2
  MaxTurns = 1
  MaxInvocations = 3
  MaxEvaluations = 1
INVARIANTS
  ArexTypeOK
  FilesAreOfOneAttempt
  RetriesLeaveNoGaps
PROPERTIES
  CompletedIsKept
  LatestRunIsKept
CHECK_DEADLOCK FALSE
