SPECIFICATION FairSpec
CONSTANTS
  p1 = p1
  p2 = p2
  Nothing = Nothing
  Torn = Torn
  Proc <- Procs
  MaxToken = 4
INVARIANTS
  TypeOK
  SessionKept
  SpentIsBeingReplaced
PROPERTIES
  RemovedOnlyWhenRejected
  NeverBroughtBack
  EveryCallEnds
