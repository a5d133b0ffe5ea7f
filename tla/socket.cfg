SPECIFICATION ReadingPeerSpec
CONSTANTS
  NoExec = NoExec
  kThrottle = 1
  MaxIn = 2
  MaxOut = 3
  MaxResumes = 2
  Programs <- OneSlotPrograms
INVARIANTS
  TypeOK
  ReadsInOrder
  TakenIsWritten
  SocketIsFound
  NoLostWakeup
  ThrottledReadsBounded
PROPERTIES
  SocketSuspends
  BrokenConnectionEnds
  UnthrottledSocketWrites
CHECK_DEADLOCK FALSE
