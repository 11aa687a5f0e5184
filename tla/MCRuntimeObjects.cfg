CONSTANTS
  Configs <- AllConfigs
SPECIFICATION ObjectsSpec
CHECK_DEADLOCK FALSE
INVARIANTS MountsResolve MountsShowTheirSource PortsAccepted
