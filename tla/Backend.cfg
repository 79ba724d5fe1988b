\* Two workers share a server that may refuse, fail, stream or cut anything.
SPECIFICATION Spec
CONSTANTS
  Workers = {w1, w2}
  Stream = TRUE
  JSONMode = TRUE
  Anonymize = TRUE
  Retries = 1
  MaxBody = 3
  MaxWire = 5
  MaxFields = 2
  MaxExplains = 2
INVARIANTS
  OnlyTransientIsRetried
  DowngradesStepByStep
PROPERTIES
  AnswerIsOneCalls
  ExplainReturns
CHECK_DEADLOCK FALSE
