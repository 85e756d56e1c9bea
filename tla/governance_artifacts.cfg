SPECIFICATION FairSpec
CONSTANTS
  Jobs = {1}
  Keys = {k1}
  Workers = {w1}
  NoKey = NoKey
  MaxAttempts = 2
  Phases = 1
  MaxPending = 1
  MaxBatches = 1
  MaxCrashes = 0
PROPERTIES
  ExpiredArtifactsDeleted
CHECK_DEADLOCK FALSE
