SPECIFICATION SettlementSpec
CONSTANTS
  p1 = p1
  w1 = w1
  w2 = w2
  Joiner = {p1}
  Hand = {w1, w2}
  Needed = 2
  MaxRefunds = 2
  MaxMishaps = 1
INVARIANTS PaidBackOnce
CHECK_DEADLOCK FALSE
