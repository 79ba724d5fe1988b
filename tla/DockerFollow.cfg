\* One container that restarts, two lines of log, one lost stream.
SPECIFICATION Spec
CONSTANTS
  Containers = {c1}
  TailLines = 1
  MaxLog = 2
  MaxEvents = 4
  MaxFailures = 1
INVARIANTS
  NothingTwiceNothingLost
  SingleRestartIsFollowed
  GapRunIsRead
PROPERTIES
  EveryStopCompletes
CHECK_DEADLOCK FALSE
