SPECIFICATION Spec
CONSTANTS
  Docs = {d1, d2, d3}
  EmptyDocs = {d3}
  BlankDocs = {}
  Answers = {A}
  NoAnswer = NoAnswer
  Findings = {f1}
  GapTexts = {t1}
  MaxGaps = 1
  MaxActions = 6
  MaxSearches = 2
  MaxRejections = 1
SYMMETRY Symmetry
INVARIANTS
  UnindexedEvidenceCanBeReopened
  LedgerExplainsVersions
  EvidenceChainIsComplete
  UnusedRetrievalIsNotCredited
PROPERTIES
  ImplementsEpisode
  CreditIsSettled
