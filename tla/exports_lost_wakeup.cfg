SPECIFICATION FairSpec
CONSTANTS
  Jobs = {1, 2}
  Keys = {k1, k2}
  Workers = {w1}
  NoKey = NoKey
  MaxPending = 2
  MaxCrashes = 0
PROPERTIES
  EveryExportSettles
CHECK_DEADLOCK FALSE
