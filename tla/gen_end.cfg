SPECIFICATION Spec
CONSTANTS
  MaxFrames = 3
  LateEnd = TRUE
INVARIANTS
  ProcessKeepsRunning
