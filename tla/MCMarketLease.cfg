SPECIFICATION FairSpec
CONSTANTS
  Engines = {e1, e2}
  Nobody = Nobody
  TTL = 2
  MaxBatch = 2
  MaxGeneration = 3
INVARIANTS
  GenerationsNotShared
  LeaseOutranksWrites
  StaleWriteBounded
  LeaseHeldUnlessLapsed
PROPERTIES
  OrphanedLeaseEnds
  ImplementsLock
CHECK_DEADLOCK FALSE
