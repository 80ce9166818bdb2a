SPECIFICATION Spec
CONSTANTS
  w1 = w1 w2 = w2 r1 = r1 r2 = r2
  Workers <- TwoWorkers
  Requests <- TwoRequests
  Slots = {1}
  Nobody = Nobody Ghost = Ghost NoFile = NoFile
  MaxWrites = 2
  MaxLapses = 1
  MaxCrashes = 1
  MaxShipFailures = 1
  MaxVolumeLosses = 0
  MaxBlocked = 0
  MaxTorn = 1
  MaxRepublishes = 0
  KeepsVolume = FALSE
SYMMETRY Symmetry
INVARIANTS LivesWhereLeased HomeHasShipped
PROPERTY FenceHolds
