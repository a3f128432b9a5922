SPECIFICATION Spec
CONSTANTS
  Nil = Nil
  Frames <- Messages
  MaxFrames = 3
  MaxKeys = 2
INVARIANT RestoredAtExit
CHECK_DEADLOCK FALSE
