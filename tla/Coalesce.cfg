\* Both coalescers on two streams.
SPECIFICATION Spec
CONSTANTS
  Streams = {s1, s2}
  Never = Never
  Timeout = 2
  CapLines = 3
  MaxLines = 3
  MaxTime = 3
INVARIANTS
  StreamsKeepTheirLines
  SplitsAtTheDeadline
PROPERTIES
  ReplayIsIdeal
  HeldLinesAreReleased
CHECK_DEADLOCK FALSE
