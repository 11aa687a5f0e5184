SPECIFICATION Spec
CONSTANTS
  Components <- OneComponent
  Specs <- EditedSpecs
  FirstSpec <- RunningOne
  FirstId = 1
  Stamps <- NoIds
  MaxGen = 2
  MaxLag = 2
  MaxFaults = 0
  MayDelete = FALSE
CHECK_DEADLOCK FALSE
INVARIANTS
  FastPathSound
