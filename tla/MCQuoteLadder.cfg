CONSTANTS
  Bps = 20
  Strategy <- MCStrategy
  Market <- MCMarket
  Refs = {18, 19, 20, 23}
  Books <- MCBooks
  Inventories = {3, 5, 6, 30}
  Windows = {0, 1, 2}
  Unmanaged = {0, 2}
  Funds <- MCFunds
SPECIFICATION Spec
INVARIANTS PostOnlyLadder RiskAgrees BudgetStable RefreshBounded
