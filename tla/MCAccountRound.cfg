CONSTANTS
  Jobs <- MCJobs
  Workers = {"w1", "w2"}
  Accounts = {1, 2, 3}
  Uses <- MCUses
  Levels = 2
  ReserveBPS <- MCReserve
  Holdings <- MCHoldings
SPECIFICATION Spec
INVARIANTS SingleLookup NoLockCycle 
PROPERTIES RoundEnds
