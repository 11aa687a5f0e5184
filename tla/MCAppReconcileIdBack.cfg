SPECIFICATION Spec
CONSTANTS
  Components <- OneComponent
  Specs <- EditedSpecs
  FirstSpec <- RunningOne
  FirstId = 1
  Stamps <- FreshIds
  MaxGen = 2
  MaxLag = 2
  MaxFaults = 1
  MayDelete = FALSE
CHECK_DEADLOCK FALSE
PROPERTIES
  LastChangeNeverRegresses
