CONSTANTS
  Apps <- NameApps
  MaxLabel = 6
  MaxEdits = 0
  MaxFaults = 0
SPECIFICATION StatusSpec
CHECK_DEADLOCK FALSE
PROPERTY AnyNamesRun
