SPECIFICATION Spec
CONSTANTS
  Components <- OneComponent
  Specs <- PausedSpecs
  FirstSpec <- RunningOne
  FirstId = 1
  Stamps <- FreshIds
  MaxGen = 2
  MaxLag = 1
  MaxFaults = 1
  MayDelete = FALSE
CHECK_DEADLOCK FALSE
INVARIANTS
  SuspendedIsZero
