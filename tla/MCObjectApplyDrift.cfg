CONSTANTS
  Contents = {a, b}
  Variants = {"ApplyObjectV2"}
  MaxWrites = 2
SPECIFICATION ApplySpec
CHECK_DEADLOCK FALSE
INVARIANTS RestsInPlace
