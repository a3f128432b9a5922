SPECIFICATION Spec
CONSTANTS
  p1 = p1
  p2 = p2
  Nothing = Nothing
  Torn = Torn
  Proc <- Procs
  Lifetime <- Lifetimes
  MaxTime = 2
  ExpiringMargin = 2
  ExpiredMargin = 1
  AllowExpired = FALSE
  FetchError <- Errors
INVARIANTS
  TypeOK
  ForceNewIsNew
PROPERTIES
  OldAnswerIsValid
  OnlyFetchedIsStored
  KeepsPromise
SYMMETRY Symmetry
