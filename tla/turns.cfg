SPECIFICATION RunSpec
CONSTANTS
  Docs = {d1}
  EmptyDocs = {}
  BlankDocs = {}
  Answers = {A}
  NoAnswer = NoAnswer
  Findings = {f1}
  GapTexts = {t1}
  MaxGaps = 1
  MaxActions = 5
  MaxSearches = 1
  MaxRejections = 1
  MaxTurns = 5
  MaxParallelCalls = 2
  MaxCalls = 3
CHECK_DEADLOCK FALSE
INVARIANTS
  RepliesAccountForLedger
  TurnsSeeOneVersion
  SubmitEndsTheRun
PROPERTIES
  RunEnds
