SPECIFICATION SceneSpec
CONSTANTS
  w1 = w1 w2 = w2
  n1 = n1 n2 = n2
  o1 = o1 c1 = c1 c2 = c2
  Workers <- TwoWorkers
  NodeIds <- TwoIds
  Objects <- OneObject
  Calls <- TwoCalls
  NoNode = NoNode
  Ttl = 1
  MaxReleaseEpoch = 1
INVARIANT EpochPerHolder
