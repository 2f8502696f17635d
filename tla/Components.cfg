SPECIFICATION ComponentSpec
CONSTANTS
  p1 = p1
  p2 = p2
  w1 = w1
  w2 = w2
  Payer = {p1, p2}
  Teller = {w1, w2}
  MaxLapses = 1
  Says <- ProviderEvents
  Stories <- ProviderStories
  Server = {w1, w2}
  NoServer = NoServer
  MaxTrouble = 1
  Joiner = {p1, p2}
  Hand = {w1, w2}
  Needed = 2
  MaxRefunds = 2
  MaxMishaps = 1
  IntentKey = {w1, w2}
  Visit = {p1, p2}
  NoVisit = NoVisit
  Asker = {w1, w2}
  Scribe = {w1, w2}
  MaxBreaks = 2
  Courier = {w1, w2}
  MaxSends = 2
  MaxHitches = 2
  MaxRetries = 1
  Deal = {p1, p2}
  Cleaner = {w1, w2}
  MaxTries = 2
  MaxSlips = 1
SYMMETRY Interchangeable
INVARIANTS TypesOK PaidOutOnce NoBatchForgotten RealMoneyKnown OnlyOwnMoney PaidBackTwiceOnlyIfMisjudged NobodyForgotten OneKnownHold JoinedOnProof NoReceiptForgotten WithinBudget ImagesHaveObjects
PROPERTIES FinishedForGood
CHECK_DEADLOCK FALSE
