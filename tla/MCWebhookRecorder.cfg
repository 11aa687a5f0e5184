CONSTANTS
  Recorders = {r1, r2}
  Ids = {1}
  Labels = {progress, success}
  TTL = 1
  MaxTime = 3
  MaxEvents = 2
  MaxFailures = 3
SPECIFICATION RecorderFairSpec
CHECK_DEADLOCK FALSE
INVARIANTS Deduplicates ReceiptsBounded
PROPERTIES AcceptedIsDelivered
