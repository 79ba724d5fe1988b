\* The TUI with streaming: answers come back to the pipeline goroutine.
SPECIFICATION Spec
CONSTANTS
  Hashes = {a, b}
  Workers = {w1, w2}
  Queue = 1
  EventRoom = 1
  CardsKept = 1
  Modes = {"tui"}
  Streaming = TRUE
  MaxFlags = 2
INVARIANTS
  CountersAreExact
  CardFollowsNewestFlag
PROPERTIES
  CardNeverGoesBack
SYMMETRY Symmetry
CHECK_DEADLOCK FALSE
