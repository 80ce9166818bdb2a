SPECIFICATION WorkflowSpec
CONSTANTS
  Programs <- AllPrograms
  Signals <- TwoSignals
  MaxCalls = 2
  MaxStrays = 0
  MaxBodyReads = 1
  MaxFailures = 0
  MaxErrors = 0
  MaxCrashes = 0
CHECK_DEADLOCK FALSE
INVARIANT ResultsReplay
