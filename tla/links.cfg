SPECIFICATION Spec
CONSTANTS
  NoExec = NoExec
  kThrottle = 2
  MaxProcs = 3
  MaxVersion = 0
  MaxSends = 0
  MaxResumes = 2
  QueueLimit = 1
  StopLatches = FALSE
  Ops <- LinkOps
  Waits <- LinkWaits
INVARIANTS
  TypeOK
  OwnedOnce
  RunningIsNotFreed
  LoopTestIsExact
  LinkedDieTogether
  DeathNoticeOnce
PROPERTIES
  ImplementsActors
