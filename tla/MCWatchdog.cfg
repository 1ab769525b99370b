CONSTANTS
  Insts <- MCInsts
  Places <- MCPlaces
  NoMarket = NoMarket
  Configs <- MCConfigs
  MaxVersion = 2
  Flaky = {"i2"}
  Slow = {"i2"}
  Revocable = {2}
  Faults = {"db", "redis", "cancel", "build", "rules"}
SPECIFICATION Spec
INVARIANTS RunsWhatItReports NoStrayOrders WatchdogCovers
PROPERTIES PublishedApplied EngineDeathCleared
