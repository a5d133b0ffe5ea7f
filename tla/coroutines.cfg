SPECIFICATION Spec
CONSTANTS
  MaxFrames = 4
  LateEnd = FALSE
INVARIANTS
  TypeOK
  ResumesBlockedFrame
  ChainIsIntact
  ParentAwaits
  ProcessKeepsRunning
  AllFramesDestroyed
