SPECIFICATION Spec
CONSTANTS
  NoExec = NoExec
  kThrottle = 1
  MaxProcs = 2
  MaxVersion = 1
  MaxSends = 3
  MaxResumes = 2
  QueueLimit = 1
  StopLatches = FALSE
  Ops <- FailureOps
  Waits <- FailureWaits
INVARIANTS
  FifoDelivery
  ExitMeansAllFreed
PROPERTIES
  KilledNeverRuns
  PidsNeverReused
