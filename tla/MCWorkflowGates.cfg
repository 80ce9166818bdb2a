SPECIFICATION WorkflowSpec
CONSTANTS
  Programs <- WithAgain
  Signals <- TwoSignals
  MaxCalls = 1
  MaxStrays = 0
  MaxBodyReads = 0
  MaxFailures = 0
  MaxErrors = 0
  MaxCrashes = 0
CHECK_DEADLOCK FALSE
INVARIANT GatesDeterministic
