SPECIFICATION QuietSpec
CONSTANTS
  o1 = o1
  o2 = o2
  o3 = o3
  o4 = o4
  Ids = {o1, o2, o3, o4}
  Quotes <- MCQuotes
  Targets <- OneTarget
  Levels = 2
  RepriceBPS = 50
  Batch = 1
  MaxRefreshes = 0
  MaxCancelAttempts = 1
  Faults = {}
PROPERTY Converges
