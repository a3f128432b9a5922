SPECIFICATION FairSpec
CONSTANTS
  Nil = Nil
  Frames <- Messages
  MaxFrames = 3
  MaxKeys = 2
INVARIANTS
  TypeOK
  QuitRestores
  ShownInOrder
PROPERTY SessionEnds
CHECK_DEADLOCK FALSE
