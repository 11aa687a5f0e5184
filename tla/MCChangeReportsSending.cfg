CONSTANTS
  Recorders = {r1, r2}
  Ids <- MCIds
  Labels = {"applied", "unfinished", "success"}
  TTL = 1
  MaxTime = 0
  MaxEvents = 2
  MaxFailures = 0
  MaxConflicts = 1
  MaxRestarts = 0
SPECIFICATION ReportsSpec
CHECK_DEADLOCK FALSE
INVARIANTS SentOnce SentBeforeProcessed
