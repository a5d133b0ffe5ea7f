SPECIFICATION FairSpec
CONSTANTS
  NoExec = NoExec
  kThrottle = 1
  MaxProcs = 3
  MaxVersion = 0
  MaxSends = 2
  MaxResumes = 4
  QueueLimit = 1
  StopLatches = FALSE
  Ops <- TwoSenderOps
  Waits <- TwoSenderWaits
PROPERTIES
  ThrottledSenderResumes
