SPECIFICATION Spec
CONSTANTS
  t1 = t1 t2 = t2 t3 = t3
  Tasks <- ThreeTasks
  Nobody = Nobody
  Nothing = Nothing
  Bundles <- AddsEarlier
  MaxCalls = 2
  MaxBatch = 2
  MaxShipFailures = 1
  MaxHeldUp = 0
  MaxFailovers = 1
SYMMETRY Symmetric
CHECK_DEADLOCK FALSE
INVARIANT MigrationsRetried
