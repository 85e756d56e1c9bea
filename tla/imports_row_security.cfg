SPECIFICATION FairSpec
CONSTANTS
  Jobs = {1, 2}
  Keys = {k1, k2}
  Workers = {w1, w2}
  NoKey = NoKey
  MaxPending = 2
  MaxAttempts = 2
  BypassesRowSecurity = FALSE
PROPERTIES
  EveryImportSettles
CHECK_DEADLOCK FALSE
