SPECIFICATION Spec
CONSTANTS
  r1 = r1
  r2 = r2
  Run <- OneRun
  MaxIds = 1
  MaxLost = 1
  Policies <- Providers
  Scopes <- EveryJob
  Refusing <- NotReused
INVARIANTS NeverReleasedAndCaptured MoneyFollowsProvider
CHECK_DEADLOCK FALSE
