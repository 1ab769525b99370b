CONSTANTS
  Keys = {"global", "i1"}
  Values = {0, 1}
  Loaders = {"engine", "console"}
  MaxVersion = 3
  StoreFaults = {"db", "redis"}
  Editors = {"e1", "e2"}
  Scope <- MCScope
SPECIFICATION Spec
PROPERTIES ScopeRespected CacheConverges LoadsForward
