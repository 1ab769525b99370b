SPECIFICATION Spec
CONSTANTS
  FailureThreshold = 1
  RecoveryThreshold = 1
  MaxFailures = 1
  o1 = o1
  Ids = {o1}
  Quotes <- OneQuote
  Targets <- OneTarget
  Levels = 1
  RepriceBPS = 50
  Batch = 1
  MaxRefreshes = 0
  MaxCancelAttempts = 1
  Faults = {"redis", "crash", "expire"}
  Reasons = {"emergency_cancel"}
PROPERTY QuotesOnlyWhenClear
