SPECIFICATION MCSpec
CONSTANTS
  b1 = b1
  x1 = x1
  ui = ui
  Backends <- MCBackends
  External = {x1}
  UI = ui
INVARIANTS ControlAccounted DeletionAlone KnownStopped NothingOrphaned
CHECK_DEADLOCK FALSE
PROPERTY OperationsEnd
