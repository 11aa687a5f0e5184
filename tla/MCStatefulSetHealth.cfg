CONSTANTS
  Sizes = {1, 3}
  Partitions = {0}
  MaxEdits = 2
  MaxCrashes = 1
SPECIFICATION HealthSpec
CHECK_DEADLOCK FALSE
INVARIANTS HealthyIsRolledOut
PROPERTIES BecomesHealthy
