SPECIFICATION Spec
CONSTANTS
  p1 = p1
  p2 = p2
  Nothing = Nothing
  Torn = Torn
  Proc <- OneProc
  MaxTime = 2
  StsLifetime <- StsLifetimes
  StsExpiring = 1
  StsExpired = 0
  OidcLifetime <- OidcLifetimes
  OidcExpiring = 1
  OidcExpired = 0
INVARIANT DenialStopsFallback
