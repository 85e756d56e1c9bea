SPECIFICATION ProgressSpec
CONSTANTS
  Jobs = {1, 2}
  Keys = {k1, k2}
  Workers = {w1, w2}
  NoKey = NoKey
  MaxPending = 2
  MaxAttempts = 3
  BypassesRowSecurity = TRUE
  Calls = {c1, c2, c3, c4}
  Threshold = 3
  Pumps = {p1, p2}
  DrainLimit = 2
  PoolMax = 1
  MaxWaiting = 1
  MaxDrains = 1
  MaxCrashes = 1
  ExportKey = k1
  Founder = k1
  NoUser = NoUser
  Free = Free
INVARIANTS
  AppliedOnce
  SingleProbe
PROPERTIES
  ImplementsDurableJob
  EveryImportSettles
  RecoversUnlessFailing
  ShutdownEnds
  DispatchedExportsSettle
  EveryRequestEnds
  EveryRequestIsAnswered
CHECK_DEADLOCK FALSE
