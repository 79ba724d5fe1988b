\* A live writer and a replay's, whose callers may send a half of one flag twice,
\* and a disk that may never move again.
SPECIFICATION Spec
CONSTANTS
  Keys = {k1}
  QueueCap = 1
  Openings = {TRUE, FALSE}
  MaxSends = 2
INVARIANTS
  OneLinePerRecord
  ReplayLosesNothing
PROPERTIES
  NobodyWaitsForEver
CHECK_DEADLOCK FALSE
