SPECIFICATION Spec
CONSTANTS
  r1 = r1
  r2 = r2
  Nil = Nil
  Req <- Reqs
  Asks <- AskPairs
  Configs <- ConfigFiles
  KeyIn <- Keys
  Answers <- AnswerSets
  CloudLife = 21
  OsEnv <- Environ
  Ticks <- Minutes9
  MaxTime = 18
INVARIANTS
  TypeOK
  AnsweredForTheseSettings
  SignatureFits
  CardReleased
  SecretsAnswered
  ChildHasItsToken
PROPERTIES
  FileAnswersAreInForce
  OutputKept
CHECK_DEADLOCK FALSE
