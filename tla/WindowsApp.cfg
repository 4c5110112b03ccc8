CONSTANTS
  UI = ui
  Workers = {w1, w2}
  MaxPosted = 1

SPECIFICATION Spec
CHECK_DEADLOCK FALSE

INVARIANTS
  PartsOutliveUsers
  NothingLeftBehind
PROPERTIES
  BusyIsReleased
  DeadStreamEnds
