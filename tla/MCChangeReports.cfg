CONSTANTS
  Recorders = {r1, r2}
  Ids <- MCIds
  Labels = {"applied", "unfinished", "success"}
  TTL = 1
  MaxTime = 0
  MaxEvents = 2
  MaxFailures = 1
  MaxConflicts = 2
  MaxRestarts = 1
SPECIFICATION ReportsFairSpec
CHECK_DEADLOCK FALSE
INVARIANTS ReportsTypeOK ProcessedWasReported
PROPERTIES ProcessedIsDelivered
