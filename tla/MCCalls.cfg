SPECIFICATION CallsSpec
CONSTANTS
  n1 = n1 n2 = n2 w1 = w1 w2 = w2 d1 = d1
  Nodes <- TwoNodes
  Objects <- ThreeObjects
  Databases <- OneDatabase
  Workflows <- TwoWorkflows
  Homed <- Nothing
  Nobody = Nobody
  MailboxDepth = 1
  MaxMade = 3
  MaxUpsets = 1
SYMMETRY Symmetric
INVARIANTS CyclesRefused OneTaskUntilRepublish NeverStranded
CHECK_DEADLOCK FALSE
