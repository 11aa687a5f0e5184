CONSTANTS
  Contents = {a, b}
  Variants = {"ApplyObject"}
  MaxWrites = 1
SPECIFICATION ApplySpec
CHECK_DEADLOCK FALSE
PROPERTIES GetsAppliedV1
