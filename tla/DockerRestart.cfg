\* A container that dies again while its restart is pending.
SPECIFICATION Spec
CONSTANTS
  Containers = {c1}
  TailLines = 1
  MaxLog = 1
  MaxEvents = 4
  MaxFailures = 0
INVARIANTS
  RestartIsFollowed
CHECK_DEADLOCK FALSE
