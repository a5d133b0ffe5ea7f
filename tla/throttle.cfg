SPECIFICATION FairSpec
CONSTANTS
  NoExec = NoExec
  kThrottle = 2
  MaxProcs = 2
  MaxVersion = 0
  MaxSends = 4
  MaxResumes = 4
  QueueLimit = 1
  StopLatches = FALSE
  Ops <- OneSenderOps
  Waits <- OneSenderWaits
INVARIANTS
  BackPressureBound
  ThrottledSenderIsRegistered
PROPERTIES
  ThrottledSenderResumes
  SleepersWake
  MessagesWake
  KilledAreFreed
