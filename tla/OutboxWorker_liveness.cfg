SPECIFICATION LiveSpec
CONSTANTS
  e1 = e1
  e2 = e2
  e3 = e3
  e4 = e4
  w1 = w1
  w2 = w2
  Event = {e1, e2, e3, e4}
  Worker = {w1, w2}
  NoWorker = NoWorker
  MaxAttempts <- Attempts
  FirstAttempts <- First
  Lease = 1
  Margin = 1
  MaxDelay = 1
  BatchLimit = 2
  Concurrency = 1
  MaxIo = 0
  MaxRequeue = 1
  Obsoletable = {}
  ClaimConflict = {e2}
  ArchiveConflict = {e3, e4}
PROPERTIES EveryEventSettles
