\* Three frames, cut into pieces in every way.
CONSTANTS
  Frames = 3
  Size <- MCSize
  Start <- MCStart
SPECIFICATION FairSpec
INVARIANTS TypeOK InStep NothingLeftBehind
PROPERTIES ImplementsStream FramesGetThrough
CHECK_DEADLOCK FALSE
