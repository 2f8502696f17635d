SPECIFICATION Spec
CONSTANTS
  r1 = r1
  r2 = r2
  Run <- TwoRuns
  MaxIds = 1
  MaxLost = 1
  Policies <- Providers
  Scopes <- TwoWorkerScopes
  Refusing <- NotReused
SYMMETRY Symmetry
INVARIANTS TypeOK OneCapture NoBlindRepeat 
PROPERTIES InFlightUndisturbed
CHECK_DEADLOCK FALSE
