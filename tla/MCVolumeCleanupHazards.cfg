CONSTANTS
  MaxSize = 2
  MaxLives = 2
  MaxMishaps = 2
SPECIFICATION CleanupSpec
CHECK_DEADLOCK FALSE
INVARIANTS NoClaimLeft LivePodsKeepClaims
