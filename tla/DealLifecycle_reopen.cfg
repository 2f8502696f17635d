SPECIFICATION OneOrMoreSpec
CONSTANTS
  b1 = b1
  b2 = b2
  b3 = b3
  Buyer = {b1, b2, b3}
  NoBuyer = NoBuyer
  Qty <- Quantity
  MinUnits = 2
  MaxUnits = 3
  CalmCall = c1
  CalmRun = r1
  Call = {c1, c2}
  Run = {r1}
  NoRun = NoRun
  MaxAttempts = 1
PROPERTIES ReopenFollowsTruth
CHECK_DEADLOCK FALSE
