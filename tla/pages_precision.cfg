SPECIFICATION PagesSpec
CONSTANTS
  RowIds = {1, 2, 3}
  MaxInstant = 2
  PerMilli = 2
  PageSize = 1
  MaxPages = 4
INVARIANTS
  EveryRowOnce
CHECK_DEADLOCK FALSE
