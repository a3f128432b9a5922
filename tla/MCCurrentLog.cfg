SPECIFICATION Spec
CONSTANTS
  p1 = p1
  p2 = p2
  Proc <- Procs
  Limit = 2
  Keep = 1
  Others = 0
  MaxStamp = 5
PROPERTIES
  CurrentLogKept
