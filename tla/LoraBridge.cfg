SPECIFICATION Spec
CONSTANTS
  MaxFrames = 3
  MaxFailures = 3
INVARIANTS
  TypeOK
  FramesWholeInOrder
PROPERTIES
  Reconnects
  FramesHeard
CHECK_DEADLOCK FALSE
