CONSTANTS
  Pods = {p1, p2}
  MaxConfig = 3
  MaxApplyFailures = 1
  MaxSaveFailures = 2
SPECIFICATION RolloutSpec
CHECK_DEADLOCK FALSE
INVARIANTS SavedHashWasStamped
PROPERTIES ConfigMapCatchesUp
