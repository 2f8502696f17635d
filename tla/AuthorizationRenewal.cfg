SPECIFICATION RenewalSpec
CONSTANTS
  w1 = w1
  w2 = w2
  Clerk = {w1, w2}
  Providers <- HttpProviders
  MaxRenewals = 2
  MaxCaptures = 2
  MaxTurns = 1
SYMMETRY SymmetricClerks
INVARIANTS RenewalTypeOK OneRequestAtATime RenewalsAreTrue NobodyPassedOver
PROPERTIES RenewedWhenExpired
CHECK_DEADLOCK FALSE
