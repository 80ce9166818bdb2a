SPECIFICATION FairSpec
CONSTANTS
  MaxAlarms = 2
  MaxCalls = 2
  MaxCrashes = 1
  MaxCommitFailures = 1
  MaxMirrorLosses = 1
  MaxSlips = 1
  MaxBootMisses = 1
  MaxInFlight = 1
  MaxInitCalls = 1
CHECK_DEADLOCK FALSE
INVARIANTS CellMatchesRow InitOnce FailedSetsNothing
PROPERTY AlarmFires
