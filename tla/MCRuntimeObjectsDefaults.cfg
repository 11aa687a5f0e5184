CONSTANTS
  Configs <- AllConfigs
SPECIFICATION ObjectsSpec
CHECK_DEADLOCK FALSE
INVARIANTS AccountsAreAskedFor StorageIsMounted NodePortsFit
