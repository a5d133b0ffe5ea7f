SPECIFICATION ReadingPeerSpec
CONSTANTS
  NoExec = NoExec
  kThrottle = 1
  MaxIn = 5
  MaxOut = 5
  MaxResumes = 2
  Programs <- EchoPrograms
PROPERTIES
  ThrottledOwnerResumes
CHECK_DEADLOCK FALSE
