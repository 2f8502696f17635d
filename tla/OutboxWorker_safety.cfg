SPECIFICATION Spec
CONSTANTS
  e1 = e1
  e2 = e2
  e3 = e3
  e4 = e4
  w1 = w1
  w2 = w2
  Event = {e1, e2}
  Worker = {w1, w2}
  NoWorker = NoWorker
  MaxAttempts <- Attempts
  FirstAttempts <- First
  Lease = 3
  Margin = 2
  MaxDelay = 1
  BatchLimit = 2
  Concurrency = 1
  MaxIo = 1
  MaxRequeue = 0
  Obsoletable = {e2}
  ClaimConflict = {}
  ArchiveConflict = {}
SYMMETRY SymmetricWorkers
INVARIANTS TypeOK AtMostOneOwner ProviderIoFenced AttemptBudget
PROPERTIES LiveLeaseEndsByVerdict ImplementsJobQueue
