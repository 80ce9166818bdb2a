SPECIFICATION CallsSpec
CONSTANTS
  n1 = n1 n2 = n2 w1 = w1 w2 = w2 d1 = d1
  Nodes <- TwoNodes
  Objects <- TwoWorkflows
  Databases <- Nothing
  Workflows <- TwoWorkflows
  Homed <- OneHomed
  Nobody = Nobody
  MailboxDepth = 1
  MaxMade = 2
  MaxUpsets = 1
INVARIANT ReentrancyRefused
CHECK_DEADLOCK FALSE
