CONSTANTS
  MaxSize = 2
  MaxLives = 2
  MaxMishaps = 1
SPECIFICATION CleanupSpec
CHECK_DEADLOCK FALSE
INVARIANTS ListedClaimsGo LiveClaimsStay
PROPERTIES CleanupCompletes
