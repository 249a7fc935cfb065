SPECIFICATION Spec
CONSTANTS
  Docs = {d1}
  EmptyDocs = {}
  BlankDocs = {}
  Answers = {A, B}
  NoAnswer = NoAnswer
  Findings = {f1}
  GapTexts = {t1}
  MaxGaps = 1
  MaxActions = 8
  MaxSearches = 1
  MaxRejections = 0
SYMMETRY Symmetry
INVARIANTS
  SubmittedStateIsFinal
