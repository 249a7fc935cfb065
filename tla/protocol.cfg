SPECIFICATION Spec
CONSTANTS
  Docs = {d1}
  EmptyDocs = {}
  BlankDocs = {}
  Answers = {A, B}
  NoAnswer = NoAnswer
  Findings = {f1, f2}
  GapTexts = {t1, t2}
  MaxGaps = 2
  MaxActions = 8
  MaxSearches = 1
  MaxRejections = 0
SYMMETRY Symmetry
INVARIANTS
  TypeOK
  LedgerPassesAudit
  FindingsComeFromFreshReads
  EveryFindingHasAWriter
  SubmittedAnswerWasVerified
  AnswerChainIsTheLatest
  SurvivingRepairsAreCredited
  CreditStopsAtSubmit
  GapIdsAreStable
  LedgerExplainsGaps
