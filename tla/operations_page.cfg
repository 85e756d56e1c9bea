SPECIFICATION WorkspaceSpec
CONSTANTS
  Queries = {q1, q2}
  Bare = bare
  Preset = q1
  Openable = {r1}
  Nothing = none
  MaxVersion = 3
INVARIANTS
  OperationsShowsAddress
CHECK_DEADLOCK FALSE
