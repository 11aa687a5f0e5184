CONSTANTS
  Apps <- SomeApps
  MaxLabel = 6
  MaxEdits = 1
  MaxFaults = 1
SPECIFICATION StatusSpec
CHECK_DEADLOCK FALSE
INVARIANTS StatusAgrees HealthyIsOwn RestsApplied
PROPERTIES CulpritIsNamed GetsRunning
