SPECIFICATION Spec
CONSTANTS
  o1 = o1
  o2 = o2
  o3 = o3
  Ids = {o1, o2, o3}
  Quotes <- TwoQuotes
  Targets <- TwoLevels
  Levels = 2
  RepriceBPS = 50
  Batch = 2
  MaxRefreshes = 0
  MaxCancelAttempts = 1
  Faults = {"redis", "crash", "expire"}
SYMMETRY IdSymmetry
INVARIANTS
  PendingTargetsDistinct
