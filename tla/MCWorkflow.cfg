SPECIFICATION FairSpec
CONSTANTS
  Programs <- AllPrograms
  Signals <- TwoSignals
  MaxCalls = 2
  MaxStrays = 1
  MaxBodyReads = 1
  MaxFailures = 2
  MaxErrors = 1
  MaxCrashes = 1
CHECK_DEADLOCK FALSE
INVARIANTS ReplayFaithful StepsNotRepeated StatusTruthful
PROPERTY RunSettles
