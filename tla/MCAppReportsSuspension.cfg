SPECIFICATION FairReports
CONSTANTS
  Components <- OneComponent
  Specs <- LivelySpecs
  FirstSpec <- RunningOne
  FirstId = 0
  Stamps <- LateIds
  MaxGen = 2
  MaxLag = 1
  MaxFaults = 0
  MayDelete = FALSE
CHECK_DEADLOCK FALSE
PROPERTY
  ReportsSuspension
