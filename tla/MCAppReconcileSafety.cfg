SPECIFICATION Spec
CONSTANTS
  Components <- TwoComponents
  Specs <- GrownSpecs
  FirstSpec <- RunningOne
  FirstId = 1
  Stamps <- AllFresh
  MaxGen = 2
  MaxLag = 2
  MaxFaults = 1
  MayDelete = TRUE
CHECK_DEADLOCK FALSE
INVARIANTS
  TypeOK
  FastPathSound
  FinalizerCoversWork
  OrderInv
  RecordInv
PROPERTIES
  AppliedNeverRegresses
  NoWorkAfterGone
  ImplementsContract
