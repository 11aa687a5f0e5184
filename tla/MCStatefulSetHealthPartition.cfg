CONSTANTS
  Sizes = {2}
  Partitions = {1}
  MaxEdits = 1
  MaxCrashes = 0
SPECIFICATION HealthSpec
CHECK_DEADLOCK FALSE
PROPERTIES BecomesHealthy
