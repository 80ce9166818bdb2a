SPECIFICATION Spec
CONSTANTS
  MaxAlarms = 2
  MaxCalls = 2
  MaxCrashes = 1
  MaxCommitFailures = 0
  MaxMirrorLosses = 1
  MaxSlips = 0
  MaxBootMisses = 0
  MaxInFlight = 2
  MaxInitCalls = 0
CHECK_DEADLOCK FALSE
INVARIANT FailedInitRetries
