CONSTANTS
  Contents = {a, b}
  Variants = {"ApplyObjectV2", "ApplyObject"}
  MaxWrites = 4
SPECIFICATION ApplySpec
CHECK_DEADLOCK FALSE
INVARIANTS RestsOnlyWhenApplied
PROPERTIES GetsApplied
