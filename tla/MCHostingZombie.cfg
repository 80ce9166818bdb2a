SPECIFICATION Spec
CONSTANTS
  w1 = w1 w2 = w2 r1 = r1 r2 = r2
  Workers <- TwoWorkers
  Requests <- TwoRequests
  Slots = {1}
  Nobody = Nobody Ghost = Ghost NoFile = NoFile
  MaxWrites = 2
  MaxLapses = 1
  MaxCrashes = 0
  MaxShipFailures = 0
  MaxVolumeLosses = 0
  MaxBlocked = 0
  MaxTorn = 0
  MaxRepublishes = 0
  KeepsVolume = FALSE
SYMMETRY Symmetry
PROPERTY NewerEpochStays
