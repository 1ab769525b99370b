SPECIFICATION Spec
CONSTANTS
  o1 = o1
  o2 = o2
  Ids = {o1, o2}
  Quotes <- MCQuotes
  Targets <- OneLevel
  Levels = 1
  RepriceBPS = 50
  Batch = 2
  MaxRefreshes = 1
  MaxCancelAttempts = 2
  Faults = {"redis", "submit", "cancel", "crash", "expire", "slow", "fill"}
SYMMETRY IdSymmetry
INVARIANTS
  HiddenOrdersTracked
  NoOverfill
PROPERTY BlockHolds
