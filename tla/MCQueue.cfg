SPECIFICATION FairSpec
CONSTANTS
  MaxAttempts = 2
  BackoffBase = 1
  BackoffCap = 2
  DeliveryBatch = 2
  MaxSends = 3
  MaxRequeues = 1
  MaxUndos = 1
CHECK_DEADLOCK FALSE
INVARIANT IdNamesOne
PROPERTIES KeepsContract Settles
