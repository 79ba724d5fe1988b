\* A table of two templates and five bytes, with three templates to hold.
SPECIFICATION Spec
CONSTANTS
  Hashes = {h1, h2, h3}
  MaxTemplates = 2
  MaxBytes = 5
  Walk = 2
  RecentCap = 2
  CardsKept = 1
  BaselineMinAge = 1
  BaselineMinCount = 1
  BurstWindow = 1
  BurstMinCount = 2
  Cooloff = 1
  Warmup = 0
  WarmupLines = 1
  TTL = 1
  MinSweep = 1
  PerMin = 2
  Minute = 2
  MaxTime = 2
  MaxLines = 6
INVARIANTS
  NothingOutlivesItsTemplate
  OverOnlyBehindPins
  OneFlagPerTTL
  FlagsAreRationed
PROPERTIES
  EvictionCostsNoBurst
SYMMETRY Symmetry
CHECK_DEADLOCK FALSE
