SPECIFICATION FairSpec
CONSTANTS
  FailureThreshold = 2
  RecoveryThreshold = 2
  MaxFailures = 2
  o1 = o1
  Ids = {o1}
  Quotes <- OneQuote
  Targets <- OneTarget
  Levels = 1
  RepriceBPS = 50
  Batch = 1
  MaxRefreshes = 0
  MaxCancelAttempts = 1
  Faults = {"crash"}
  Reasons = {"manual_pause", "emergency_cancel"}
PROPERTIES EmergencyApplied RequestHonoured FaultEmptiesBook
