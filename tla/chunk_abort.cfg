SPECIFICATION WwwSpec
CONSTANTS
  NoExec = NoExec
  kThrottle = 1
  MaxProcs = 4
  MaxVersion = 1
  MaxSends = 10
  MaxResumes = 12
  QueueLimit = 1
  StopLatches = FALSE
  Ops <- WwwOps
  Waits <- WwwWaits
  MaxConnections = 1
  MaxChunks = 1
  MaxPieces = 1
INVARIANTS
  SessionsCleanUp
