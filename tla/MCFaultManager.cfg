SPECIFICATION Spec
CONSTANTS
  FailureThreshold = 3
  RecoveryThreshold = 3
  MaxFailures = 4
INVARIANTS
  TypeOK
  NoQuoteWhileOwed
  RecoveryObserved
  CancelDemanded
  ThresholdAcrossRestarts
