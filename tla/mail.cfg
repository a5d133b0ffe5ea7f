SPECIFICATION Spec
CONSTANTS
  NoExec = NoExec
  kThrottle = 2
  MaxProcs = 2
  MaxVersion = 0
  MaxSends = 3
  MaxResumes = 3
  QueueLimit = 1
  StopLatches = FALSE
  Ops <- MailOps
  Waits <- MailWaits
INVARIANTS
  RecvResumesWithMessage
  RunnableIsQueuedOnce
  TimerBelongsToWait
  TimerHandlersAlive
PROPERTIES
  ImplementsActors
