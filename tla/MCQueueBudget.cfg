SPECIFICATION Spec
CONSTANTS
  MaxAttempts = 2
  BackoffBase = 1
  BackoffCap = 2
  DeliveryBatch = 2
  MaxSends = 2
  MaxRequeues = 0
  MaxUndos = 0
CHECK_DEADLOCK FALSE
INVARIANT DeadWereTried
