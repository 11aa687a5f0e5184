SPECIFICATION Spec
CONSTANTS
  Components <- TwoComponents
  Specs <- GrownSpecs
  FirstSpec <- RunningOne
  FirstId = 1
  Stamps <- FreshIds
  MaxGen = 2
  MaxLag = 2
  MaxFaults = 0
  MayDelete = FALSE
CHECK_DEADLOCK FALSE
INVARIANTS
  StatusEntryExists
