SPECIFICATION ShutdownSpec
CONSTANTS
  Pumps = {p1, p2}
  DrainLimit = 2
  PoolMax = 1
  MaxWaiting = 1
  MaxDrains = 1
INVARIANTS
  ActiveUnitKeepsGrace
CHECK_DEADLOCK FALSE
