SPECIFICATION Spec
CONSTANTS
  Components <- OneComponent
  Specs <- ZeroSpecs
  FirstSpec <- RunningZero
  FirstId = 1
  Stamps <- FreshIds
  MaxGen = 3
  MaxLag = 1
  MaxFaults = 0
  MayDelete = FALSE
CHECK_DEADLOCK FALSE
INVARIANTS
  RespectsReplicas
