CONSTANTS
  Objects = {o1, o2, o3}
  TaskList <- MCTaskList
  HasInfo = TRUE
  MaxFaults = 3
  MaxFlaps = 2
SPECIFICATION TaskSpec
CHECK_DEADLOCK FALSE
INVARIANTS CompleteMeansDone NoCheckAfterFailedApply
PROPERTIES TasksComplete
