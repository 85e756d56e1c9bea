SPECIFICATION Spec
CONSTANTS
  Jobs = {1, 2}
  Keys = {k1, k2}
  Workers = {w1, w2}
  NoKey = NoKey
  MaxAttempts = 2
  Phases = 1
  MaxPending = 1
  MaxBatches = 1
  MaxCrashes = 1
SYMMETRY Symmetry
INVARIANTS
  ArtifactWindow
PROPERTIES
  PhasesInOrder
  DeletionLeavesNothing
CHECK_DEADLOCK FALSE
