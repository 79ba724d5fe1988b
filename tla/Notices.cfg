\* One or two sources, one of them Docker's, and a reader of errs that may stop.
SPECIFICATION Spec
CONSTANTS
  Sources = {s1, s2}
  None = None
  Room = 1
  MaxCuts = 2
  MaxPosts = 2
SYMMETRY Symmetry
INVARIANTS
  SendsNeverWait
  EverythingIsPrinted
CHECK_DEADLOCK FALSE
