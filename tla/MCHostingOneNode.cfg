SPECIFICATION Spec
CONSTANTS
  w1 = w1 w2 = w2 r1 = r1 r2 = r2
  Workers <- OneWorker
  Requests <- TwoRequests
  Slots = {1, 2}
  Nobody = Nobody Ghost = Ghost NoFile = NoFile
  MaxWrites = 2
  MaxLapses = 1
  MaxCrashes = 1
  MaxShipFailures = 1
  MaxVolumeLosses = 1
  MaxBlocked = 1
  MaxTorn = 1
  MaxRepublishes = 1
  KeepsVolume = TRUE
SYMMETRY Symmetry
INVARIANT HomeHasAcked
PROPERTY ShipCatchesUp
