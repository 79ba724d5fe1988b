\* A live writer: a full channel drops, and Close gives up on a stopped disk.
SPECIFICATION Spec
CONSTANTS
  Keys = {k1, k2}
  QueueCap = 1
  Openings = {FALSE}
  MaxSends = 1
INVARIANTS
  LossIsExact
  LostNeverWritten
  FileEndsOnARecord
  NoHalfLeftBehind
  CleanCloseIsComplete
PROPERTIES
  ImplementsLedger
SYMMETRY Symmetry
CHECK_DEADLOCK FALSE
