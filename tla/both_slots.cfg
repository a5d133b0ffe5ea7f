SPECIFICATION Spec
CONSTANTS
  NoExec = NoExec
  kThrottle = 1
  MaxIn = 0
  MaxOut = 4
  MaxResumes = 2
  Programs <- BothSlotsPrograms
INVARIANTS
  TakenIsWritten
CHECK_DEADLOCK FALSE
