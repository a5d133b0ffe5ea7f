SPECIFICATION WwwSpec
CONSTANTS
  NoExec = NoExec
  kThrottle = 1
  MaxProcs = 4
  MaxVersion = 0
  MaxSends = 10
  MaxResumes = 12
  QueueLimit = 1
  StopLatches = FALSE
  Ops <- WwwOps
  Waits <- WwwWaits
  MaxConnections = 1
  MaxChunks = 3
  MaxPieces = 1
INVARIANTS
  NothingIsLost
  AnswersAreWhole
  IdleMeansServed
