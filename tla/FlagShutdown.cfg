\* The consumers that print, and a run with no model: how the run ends.
SPECIFICATION Spec
CONSTANTS
  Hashes = {a}
  Workers = {w1}
  Queue = 1
  EventRoom = 1
  CardsKept = 1
  Modes = {"plain", "dry", "tui"}
  Streaming = FALSE
  MaxFlags = 2
INVARIANTS
  EarlierAnswerSurvives
  EachFlagResolvesOnce
PROPERTIES
  RunEndsResolved
CHECK_DEADLOCK FALSE
