CONSTANTS
  Pairs = {"p1", "p2"}
  Readers = {"r1", "r2"}
  Legs <- MCLegs
  Prices = {1, 2}
  Window <- MCWindow
  MaxIdle <- MCMaxIdle
  MaxDeviation = 4000
  AllowSpot <- MCAllowSpot
  Wrap = 8
  FirstBlock = 6
  MaxBlocks = 5
  Lag = 1
SPECIFICATION Spec
INVARIANTS TwapIsAverage HighConfidenceRecent
