\* A log of two streams, read by a follower and its successors.
SPECIFICATION Spec
CONSTANTS
  TailLines = 2
  ReadAhead = 1
  MaxLog = 3
  MaxStamp = 2
  MaxFollowers = 3
INVARIANTS
  StreamIsReadOnce
  CleanEndIsComplete
PROPERTIES
  CancelledFollowerLeaves
CHECK_DEADLOCK FALSE
