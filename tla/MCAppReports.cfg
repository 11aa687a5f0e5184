SPECIFICATION FairReports
CONSTANTS
  Components <- OneComponent
  Specs <- LivelySpecs
  FirstSpec <- SuspendedTwo
  FirstId = 0
  Stamps <- LateIds
  MaxGen = 2
  MaxLag = 2
  MaxFaults = 2
  MayDelete = TRUE
CHECK_DEADLOCK FALSE
INVARIANT
  SuccessWasApplied
PROPERTIES
  ChangeGetsReported
  Settles
  RunsReplicas
  DeletionCompletes
  ReportsDegraded
