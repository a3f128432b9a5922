SPECIFICATION Spec
CONSTANTS
  p1 = p1
  p2 = p2
  p3 = p3
  Absent = Absent
  Empty = Empty
  Proc <- Procs
  Seeds = 2
INVARIANTS
  TypeOK
  LateComersAgree
PROPERTY SettledForever
SYMMETRY Symmetry
CHECK_DEADLOCK FALSE
