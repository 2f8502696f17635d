SPECIFICATION Spec
CONSTANTS
  r1 = r1
  r2 = r2
  Run <- OneRun
  MaxIds = 1
  MaxLost = 0
  Policies <- Reusing
  Scopes <- ChargeScope
  Refusing <- Reusing
INVARIANTS RecordedNeverSent
CHECK_DEADLOCK FALSE
