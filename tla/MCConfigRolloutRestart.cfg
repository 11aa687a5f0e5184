CONSTANTS
  Pods = {p1}
  MaxConfig = 2
  MaxApplyFailures = 0
  MaxSaveFailures = 0
SPECIFICATION RolloutSpec
CHECK_DEADLOCK FALSE
PROPERTIES PodsRunConfig
