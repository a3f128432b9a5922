-------------------------- MODULE TokenResponseProofs ------------------------
(***************************************************************************)
(* Theorems about TokenResponse, for every set of processes and any number *)
(* of refresh tokens.                                                      *)
(***************************************************************************)
EXTENDS TokenResponse, TLAPS

\* Every step keeps the types.
LEMMA StepTypeOK ==
  TypeOK /\ [Next]_vars => TypeOK'
<1> SUFFICES ASSUME TypeOK, [Next]_vars PROVE TypeOK'
  OBVIOUS
<1> USE TokenAssumption DEF TypeOK, Token, Trouble, Location, Idle, Goto
<1>0. ASSUME NEW old, GiveToken(old)
      PROVE  live' \subseteq 1..given' /\ given' \in 1..MaxToken
  <2>1. given' \in 1..MaxToken /\ given' = given + 1
    BY <1>0 DEF GiveToken
  <2>2. \A t \in live' : t \in live \/ t = given + 1
    BY <1>0 DEF GiveToken
  <2>3. \A t \in live : t \in 1..given
    OBVIOUS
  <2>4. ASSUME NEW t \in live' PROVE t \in 1..given'
    <3>1. given \in Nat
      OBVIOUS
    <3>2. CASE t \in live
      BY <2>1, <2>3, <3>1, <3>2
    <3>3. CASE t = given + 1
      BY <2>1, <3>1, <3>3
    <3> QED
      BY <2>2, <3>2, <3>3
  <2> QED
    BY <2>1, <2>4
<1>1. ASSUME NEW p \in Proc, NEW f \in BOOLEAN, Call(p, f) PROVE TypeOK'
  BY <1>1 DEF Call, Troubled
<1>2. ASSUME NEW p \in Proc, Read(p) PROVE TypeOK'
  BY <1>2 DEF Read, Decode
<1>3. ASSUME NEW p \in Proc, Discover(p) PROVE TypeOK'
  BY <1>3 DEF Discover
<1>4. ASSUME NEW p \in Proc, Refreshed(p) PROVE TypeOK'
  BY <1>0, <1>4 DEF Refreshed, Requests
<1>5. ASSUME NEW p \in Proc, RefreshedWithoutToken(p) PROVE TypeOK'
  BY <1>5 DEF RefreshedWithoutToken, Requests
<1>6. ASSUME NEW p \in Proc, NoAnswer(p) PROVE TypeOK'
  <2>1. CASE UNCHANGED <<live, given, trouble>>
    BY <1>6, <2>1 DEF NoAnswer
  <2>2. CASE GiveToken({rt[p]}) /\ Troubled(2)
    BY <1>0, <1>6, <2>2 DEF NoAnswer, Troubled
  <2> QED
    BY <1>6, <2>1, <2>2 DEF NoAnswer, Unknown
<1>7. ASSUME NEW p \in Proc, ServerError(p) PROVE TypeOK'
  <2>1. CASE UNCHANGED <<live, given, trouble>>
    BY <1>7, <2>1 DEF ServerError
  <2>2. CASE GiveToken({rt[p]}) /\ Troubled(2)
    BY <1>0, <1>7, <2>2 DEF ServerError, Troubled
  <2> QED
    BY <1>7, <2>1, <2>2 DEF ServerError, Unknown
<1>8. ASSUME NEW p \in Proc, Rejected(p) PROVE TypeOK'
  BY <1>8 DEF Rejected, Requests, Troubled
<1>9. ASSUME NEW p \in Proc, RemoveRejected(p) PROVE TypeOK'
  BY <1>9 DEF RemoveRejected, Remove, Troubled
<1>10. ASSUME NEW p \in Proc, Login(p) PROVE TypeOK'
  BY <1>10 DEF Login, GiveToken
<1>11. ASSUME NEW p \in Proc, LoginWithoutToken(p) PROVE TypeOK'
  BY <1>11 DEF LoginWithoutToken
<1>12. ASSUME NEW p \in Proc, LoginFails(p) PROVE TypeOK'
  BY <1>12 DEF LoginFails
<1>13. ASSUME NEW p \in Proc, Truncate(p) PROVE TypeOK'
  BY <1>13 DEF Truncate, OpenTruncate
<1>14. ASSUME NEW p \in Proc, OpenFails(p) PROVE TypeOK'
  BY <1>14 DEF OpenFails, Troubled
<1>15. ASSUME NEW p \in Proc, WriteBytes(p) PROVE TypeOK'
  BY <1>15 DEF WriteBytes, WriteOpen, Troubled
<1>16. ASSUME NEW p \in Proc, Crash(p) PROVE TypeOK'
  BY <1>16 DEF Crash, Abandon, Troubled
<1>17. ASSUME CleanCache PROVE TypeOK'
  BY <1>17 DEF CleanCache, Remove, Troubled
<1>18. ASSUME NEW t \in live, Revoke(t) PROVE TypeOK'
  BY <1>18 DEF Revoke, Troubled
<1>19. CASE UNCHANGED vars
  BY <1>19 DEF vars
<1> QED
  BY <1>1, <1>2, <1>3, <1>4, <1>5, <1>6, <1>7, <1>8, <1>9, <1>10, <1>11, <1>12,
     <1>13, <1>14, <1>15, <1>16, <1>17, <1>18, <1>19 DEF Next, Step

\* No token is about before it is given out.
LEMMA StepOnlyGiven ==
  TypeOK /\ OnlyGivenTokens /\ [Next]_vars => OnlyGivenTokens'
<1> SUFFICES ASSUME TypeOK, OnlyGivenTokens, [Next]_vars PROVE OnlyGivenTokens'
  OBVIOUS
<1> USE TokenAssumption DEF TypeOK, OnlyGivenTokens, Unsaved, Spending, Token, Idle, Goto
<1>1. ASSUME NEW p \in Proc, NEW f \in BOOLEAN, Call(p, f) PROVE OnlyGivenTokens'
  BY <1>1 DEF Call, Troubled
<1>2. ASSUME NEW p \in Proc, Read(p) PROVE OnlyGivenTokens'
  BY <1>2 DEF Read, Decode
<1>3. ASSUME NEW p \in Proc, Discover(p) PROVE OnlyGivenTokens'
  BY <1>3 DEF Discover
<1>4. ASSUME NEW p \in Proc, Refreshed(p) PROVE OnlyGivenTokens'
  BY <1>4 DEF Refreshed, GiveToken, Requests
<1>5. ASSUME NEW p \in Proc, RefreshedWithoutToken(p) PROVE OnlyGivenTokens'
  BY <1>5 DEF RefreshedWithoutToken, Requests
<1>6. ASSUME NEW p \in Proc, NoAnswer(p) PROVE OnlyGivenTokens'
  BY <1>6 DEF NoAnswer, Unknown, GiveToken, Troubled, Requests
<1>7. ASSUME NEW p \in Proc, ServerError(p) PROVE OnlyGivenTokens'
  BY <1>7 DEF ServerError, Unknown, GiveToken, Troubled, Requests
<1>8. ASSUME NEW p \in Proc, Rejected(p) PROVE OnlyGivenTokens'
  BY <1>8 DEF Rejected, Requests, Troubled
<1>9. ASSUME NEW p \in Proc, RemoveRejected(p) PROVE OnlyGivenTokens'
  BY <1>9 DEF RemoveRejected, Remove, Troubled
<1>10. ASSUME NEW p \in Proc, Login(p) PROVE OnlyGivenTokens'
  BY <1>10 DEF Login, GiveToken
<1>11. ASSUME NEW p \in Proc, LoginWithoutToken(p) PROVE OnlyGivenTokens'
  BY <1>11 DEF LoginWithoutToken
<1>12. ASSUME NEW p \in Proc, LoginFails(p) PROVE OnlyGivenTokens'
  BY <1>12 DEF LoginFails
<1>13. ASSUME NEW p \in Proc, Truncate(p) PROVE OnlyGivenTokens'
  BY <1>13 DEF Truncate, OpenTruncate
<1>14. ASSUME NEW p \in Proc, OpenFails(p) PROVE OnlyGivenTokens'
  BY <1>14 DEF OpenFails, Troubled
<1>15. ASSUME NEW p \in Proc, WriteBytes(p) PROVE OnlyGivenTokens'
  BY <1>15 DEF WriteBytes, WriteOpen, Troubled
<1>16. ASSUME NEW p \in Proc, Crash(p) PROVE OnlyGivenTokens'
  BY <1>16 DEF Crash, Abandon, Troubled
<1>17. ASSUME CleanCache PROVE OnlyGivenTokens'
  BY <1>17 DEF CleanCache, Remove, Troubled
<1>18. ASSUME NEW t \in live, Revoke(t) PROVE OnlyGivenTokens'
  BY <1>18 DEF Revoke, Troubled
<1>19. CASE UNCHANGED vars
  BY <1>19 DEF vars
<1> QED
  BY <1>1, <1>2, <1>3, <1>4, <1>5, <1>6, <1>7, <1>8, <1>9, <1>10, <1>11, <1>12,
     <1>13, <1>14, <1>15, <1>16, <1>17, <1>18, <1>19 DEF Next, Step

\* A token just received is larger than all others, and is read by nobody
\* before it is in the file.
LEMMA StepUnknown ==
  TypeOK /\ OnlyGivenTokens /\ UnsavedIsUnknown /\ [Next]_vars => UnsavedIsUnknown'
<1> SUFFICES ASSUME TypeOK, OnlyGivenTokens, UnsavedIsUnknown, [Next]_vars PROVE UnsavedIsUnknown'
  OBVIOUS
<1> USE TokenAssumption DEF TypeOK, OnlyGivenTokens, UnsavedIsUnknown, Unsaved, Spending, Token, Idle, Goto
<1>1. ASSUME NEW p \in Proc, NEW f \in BOOLEAN, Call(p, f) PROVE UnsavedIsUnknown'
  BY <1>1 DEF Call, Troubled
<1>2. ASSUME NEW p \in Proc, Read(p) PROVE UnsavedIsUnknown'
  BY <1>2 DEF Read, Decode
<1>3. ASSUME NEW p \in Proc, Discover(p) PROVE UnsavedIsUnknown'
  BY <1>3 DEF Discover
<1>4. ASSUME NEW p \in Proc, Refreshed(p) PROVE UnsavedIsUnknown'
  BY <1>4 DEF Refreshed, GiveToken, Requests
<1>5. ASSUME NEW p \in Proc, RefreshedWithoutToken(p) PROVE UnsavedIsUnknown'
  BY <1>5 DEF RefreshedWithoutToken, Requests
<1>6. ASSUME NEW p \in Proc, NoAnswer(p) PROVE UnsavedIsUnknown'
  BY <1>6 DEF NoAnswer, Unknown, GiveToken, Troubled, Requests
<1>7. ASSUME NEW p \in Proc, ServerError(p) PROVE UnsavedIsUnknown'
  BY <1>7 DEF ServerError, Unknown, GiveToken, Troubled, Requests
<1>8. ASSUME NEW p \in Proc, Rejected(p) PROVE UnsavedIsUnknown'
  BY <1>8 DEF Rejected, Requests, Troubled
<1>9. ASSUME NEW p \in Proc, RemoveRejected(p) PROVE UnsavedIsUnknown'
  BY <1>9 DEF RemoveRejected, Remove, Troubled
<1>10. ASSUME NEW p \in Proc, Login(p) PROVE UnsavedIsUnknown'
  BY <1>10 DEF Login, GiveToken
<1>11. ASSUME NEW p \in Proc, LoginWithoutToken(p) PROVE UnsavedIsUnknown'
  BY <1>11 DEF LoginWithoutToken
<1>12. ASSUME NEW p \in Proc, LoginFails(p) PROVE UnsavedIsUnknown'
  BY <1>12 DEF LoginFails
<1>13. ASSUME NEW p \in Proc, Truncate(p) PROVE UnsavedIsUnknown'
  BY <1>13 DEF Truncate, OpenTruncate
<1>14. ASSUME NEW p \in Proc, OpenFails(p) PROVE UnsavedIsUnknown'
  BY <1>14 DEF OpenFails, Troubled
<1>15. ASSUME NEW p \in Proc, WriteBytes(p) PROVE UnsavedIsUnknown'
  BY <1>15 DEF WriteBytes, WriteOpen, Troubled
<1>16. ASSUME NEW p \in Proc, Crash(p) PROVE UnsavedIsUnknown'
  BY <1>16 DEF Crash, Abandon, Troubled
<1>17. ASSUME CleanCache PROVE UnsavedIsUnknown'
  BY <1>17 DEF CleanCache, Remove, Troubled
<1>18. ASSUME NEW t \in live, Revoke(t) PROVE UnsavedIsUnknown'
  BY <1>18 DEF Revoke, Troubled
<1>19. CASE UNCHANGED vars
  BY <1>19 DEF vars
<1> QED
  BY <1>1, <1>2, <1>3, <1>4, <1>5, <1>6, <1>7, <1>8, <1>9, <1>10, <1>11, <1>12,
     <1>13, <1>14, <1>15, <1>16, <1>17, <1>18, <1>19 DEF Next, Step

\* While trouble stays below 2 only a refresh spends a token, and then it is
\* not one that another process has still to save.
LEMMA StepUnsavedLive ==
  TypeOK /\ OnlyGivenTokens /\ UnsavedIsUnknown /\ UnsavedIsLive /\ [Next]_vars => UnsavedIsLive'
<1> SUFFICES ASSUME TypeOK, OnlyGivenTokens, UnsavedIsUnknown, UnsavedIsLive, [Next]_vars PROVE UnsavedIsLive'
  OBVIOUS
<1> USE TokenAssumption DEF TypeOK, OnlyGivenTokens, UnsavedIsUnknown, Unsaved, Spending, Token, Idle, Goto, UnsavedIsLive, Trouble
<1>1. ASSUME NEW p \in Proc, NEW f \in BOOLEAN, Call(p, f) PROVE UnsavedIsLive'
  BY <1>1 DEF Call, Troubled
<1>2. ASSUME NEW p \in Proc, Read(p) PROVE UnsavedIsLive'
  BY <1>2 DEF Read, Decode
<1>3. ASSUME NEW p \in Proc, Discover(p) PROVE UnsavedIsLive'
  BY <1>3 DEF Discover
<1>4. ASSUME NEW p \in Proc, Refreshed(p) PROVE UnsavedIsLive'
  BY <1>4 DEF Refreshed, GiveToken, Requests
<1>5. ASSUME NEW p \in Proc, RefreshedWithoutToken(p) PROVE UnsavedIsLive'
  BY <1>5 DEF RefreshedWithoutToken, Requests
<1>6. ASSUME NEW p \in Proc, NoAnswer(p) PROVE UnsavedIsLive'
  BY <1>6 DEF NoAnswer, Unknown, GiveToken, Troubled, Requests
<1>7. ASSUME NEW p \in Proc, ServerError(p) PROVE UnsavedIsLive'
  BY <1>7 DEF ServerError, Unknown, GiveToken, Troubled, Requests
<1>8. ASSUME NEW p \in Proc, Rejected(p) PROVE UnsavedIsLive'
  BY <1>8 DEF Rejected, Requests, Troubled
<1>9. ASSUME NEW p \in Proc, RemoveRejected(p) PROVE UnsavedIsLive'
  BY <1>9 DEF RemoveRejected, Remove, Troubled
<1>10. ASSUME NEW p \in Proc, Login(p) PROVE UnsavedIsLive'
  BY <1>10 DEF Login, GiveToken
<1>11. ASSUME NEW p \in Proc, LoginWithoutToken(p) PROVE UnsavedIsLive'
  BY <1>11 DEF LoginWithoutToken
<1>12. ASSUME NEW p \in Proc, LoginFails(p) PROVE UnsavedIsLive'
  BY <1>12 DEF LoginFails
<1>13. ASSUME NEW p \in Proc, Truncate(p) PROVE UnsavedIsLive'
  BY <1>13 DEF Truncate, OpenTruncate
<1>14. ASSUME NEW p \in Proc, OpenFails(p) PROVE UnsavedIsLive'
  BY <1>14 DEF OpenFails, Troubled
<1>15. ASSUME NEW p \in Proc, WriteBytes(p) PROVE UnsavedIsLive'
  BY <1>15 DEF WriteBytes, WriteOpen, Troubled
<1>16. ASSUME NEW p \in Proc, Crash(p) PROVE UnsavedIsLive'
  BY <1>16 DEF Crash, Abandon, Troubled
<1>17. ASSUME CleanCache PROVE UnsavedIsLive'
  BY <1>17 DEF CleanCache, Remove, Troubled
<1>18. ASSUME NEW t \in live, Revoke(t) PROVE UnsavedIsLive'
  BY <1>18 DEF Revoke, Troubled
<1>19. CASE UNCHANGED vars
  BY <1>19 DEF vars
<1> QED
  BY <1>1, <1>2, <1>3, <1>4, <1>5, <1>6, <1>7, <1>8, <1>9, <1>10, <1>11, <1>12,
     <1>13, <1>14, <1>15, <1>16, <1>17, <1>18, <1>19 DEF Next, Step

\* A spent token does not become good again.
LEMMA StepRejectedSpent ==
  TypeOK /\ OnlyGivenTokens /\ RejectedIsSpent /\ [Next]_vars => RejectedIsSpent'
<1> SUFFICES ASSUME TypeOK, OnlyGivenTokens, RejectedIsSpent, [Next]_vars PROVE RejectedIsSpent'
  OBVIOUS
<1> USE TokenAssumption DEF TypeOK, OnlyGivenTokens, UnsavedIsUnknown, Unsaved, Spending, Token, Idle, Goto, RejectedIsSpent, Trouble
<1>1. ASSUME NEW p \in Proc, NEW f \in BOOLEAN, Call(p, f) PROVE RejectedIsSpent'
  BY <1>1 DEF Call, Troubled
<1>2. ASSUME NEW p \in Proc, Read(p) PROVE RejectedIsSpent'
  BY <1>2 DEF Read, Decode
<1>3. ASSUME NEW p \in Proc, Discover(p) PROVE RejectedIsSpent'
  BY <1>3 DEF Discover
<1>4. ASSUME NEW p \in Proc, Refreshed(p) PROVE RejectedIsSpent'
  BY <1>4 DEF Refreshed, GiveToken, Requests
<1>5. ASSUME NEW p \in Proc, RefreshedWithoutToken(p) PROVE RejectedIsSpent'
  BY <1>5 DEF RefreshedWithoutToken, Requests
<1>6. ASSUME NEW p \in Proc, NoAnswer(p) PROVE RejectedIsSpent'
  BY <1>6 DEF NoAnswer, Unknown, GiveToken, Troubled, Requests
<1>7. ASSUME NEW p \in Proc, ServerError(p) PROVE RejectedIsSpent'
  BY <1>7 DEF ServerError, Unknown, GiveToken, Troubled, Requests
<1>8. ASSUME NEW p \in Proc, Rejected(p) PROVE RejectedIsSpent'
  BY <1>8 DEF Rejected, Requests, Troubled
<1>9. ASSUME NEW p \in Proc, RemoveRejected(p) PROVE RejectedIsSpent'
  BY <1>9 DEF RemoveRejected, Remove, Troubled
<1>10. ASSUME NEW p \in Proc, Login(p) PROVE RejectedIsSpent'
  BY <1>10 DEF Login, GiveToken
<1>11. ASSUME NEW p \in Proc, LoginWithoutToken(p) PROVE RejectedIsSpent'
  BY <1>11 DEF LoginWithoutToken
<1>12. ASSUME NEW p \in Proc, LoginFails(p) PROVE RejectedIsSpent'
  BY <1>12 DEF LoginFails
<1>13. ASSUME NEW p \in Proc, Truncate(p) PROVE RejectedIsSpent'
  BY <1>13 DEF Truncate, OpenTruncate
<1>14. ASSUME NEW p \in Proc, OpenFails(p) PROVE RejectedIsSpent'
  BY <1>14 DEF OpenFails, Troubled
<1>15. ASSUME NEW p \in Proc, WriteBytes(p) PROVE RejectedIsSpent'
  BY <1>15 DEF WriteBytes, WriteOpen, Troubled
<1>16. ASSUME NEW p \in Proc, Crash(p) PROVE RejectedIsSpent'
  BY <1>16 DEF Crash, Abandon, Troubled
<1>17. ASSUME CleanCache PROVE RejectedIsSpent'
  BY <1>17 DEF CleanCache, Remove, Troubled
<1>18. ASSUME NEW t \in live, Revoke(t) PROVE RejectedIsSpent'
  BY <1>18 DEF Revoke, Troubled
<1>19. CASE UNCHANGED vars
  BY <1>19 DEF vars
<1> QED
  BY <1>1, <1>2, <1>3, <1>4, <1>5, <1>6, <1>7, <1>8, <1>9, <1>10, <1>11, <1>12,
     <1>13, <1>14, <1>15, <1>16, <1>17, <1>18, <1>19 DEF Next, Step

\* Who spends the token on file goes on to truncate it.
LEMMA StepSpentReplaced ==
  TypeOK /\ OnlyGivenTokens /\ UnsavedIsUnknown /\ UnsavedIsLive /\ SpentIsBeingReplaced /\ [Next]_vars => SpentIsBeingReplaced'
<1> SUFFICES ASSUME TypeOK, OnlyGivenTokens, UnsavedIsUnknown, UnsavedIsLive, SpentIsBeingReplaced, [Next]_vars PROVE SpentIsBeingReplaced'
  OBVIOUS
<1> USE TokenAssumption DEF TypeOK, OnlyGivenTokens, UnsavedIsUnknown, Unsaved, Spending, Token, Idle, Goto, UnsavedIsLive, SpentIsBeingReplaced, Trouble
<1>1. ASSUME NEW p \in Proc, NEW f \in BOOLEAN, Call(p, f) PROVE SpentIsBeingReplaced'
  BY <1>1 DEF Call, Troubled
<1>2. ASSUME NEW p \in Proc, Read(p) PROVE SpentIsBeingReplaced'
  BY <1>2 DEF Read, Decode
<1>3. ASSUME NEW p \in Proc, Discover(p) PROVE SpentIsBeingReplaced'
  BY <1>3 DEF Discover
<1>4. ASSUME NEW p \in Proc, Refreshed(p) PROVE SpentIsBeingReplaced'
  BY <1>4 DEF Refreshed, GiveToken, Requests
<1>5. ASSUME NEW p \in Proc, RefreshedWithoutToken(p) PROVE SpentIsBeingReplaced'
  BY <1>5 DEF RefreshedWithoutToken, Requests
<1>6. ASSUME NEW p \in Proc, NoAnswer(p) PROVE SpentIsBeingReplaced'
  BY <1>6 DEF NoAnswer, Unknown, GiveToken, Troubled, Requests
<1>7. ASSUME NEW p \in Proc, ServerError(p) PROVE SpentIsBeingReplaced'
  BY <1>7 DEF ServerError, Unknown, GiveToken, Troubled, Requests
<1>8. ASSUME NEW p \in Proc, Rejected(p) PROVE SpentIsBeingReplaced'
  BY <1>8 DEF Rejected, Requests, Troubled
<1>9. ASSUME NEW p \in Proc, RemoveRejected(p) PROVE SpentIsBeingReplaced'
  BY <1>9 DEF RemoveRejected, Remove, Troubled
<1>10. ASSUME NEW p \in Proc, Login(p) PROVE SpentIsBeingReplaced'
  BY <1>10 DEF Login, GiveToken
<1>11. ASSUME NEW p \in Proc, LoginWithoutToken(p) PROVE SpentIsBeingReplaced'
  BY <1>11 DEF LoginWithoutToken
<1>12. ASSUME NEW p \in Proc, LoginFails(p) PROVE SpentIsBeingReplaced'
  BY <1>12 DEF LoginFails
<1>13. ASSUME NEW p \in Proc, Truncate(p) PROVE SpentIsBeingReplaced'
  BY <1>13 DEF Truncate, OpenTruncate
<1>14. ASSUME NEW p \in Proc, OpenFails(p) PROVE SpentIsBeingReplaced'
  BY <1>14 DEF OpenFails, Troubled
<1>15. ASSUME NEW p \in Proc, WriteBytes(p) PROVE SpentIsBeingReplaced'
  BY <1>15 DEF WriteBytes, WriteOpen, Troubled
<1>16. ASSUME NEW p \in Proc, Crash(p) PROVE SpentIsBeingReplaced'
  BY <1>16 DEF Crash, Abandon, Troubled
<1>17. ASSUME CleanCache PROVE SpentIsBeingReplaced'
  BY <1>17 DEF CleanCache, Remove, Troubled
<1>18. ASSUME NEW t \in live, Revoke(t) PROVE SpentIsBeingReplaced'
  BY <1>18 DEF Revoke, Troubled
<1>19. CASE UNCHANGED vars
  BY <1>19 DEF vars
<1> QED
  BY <1>1, <1>2, <1>3, <1>4, <1>5, <1>6, <1>7, <1>8, <1>9, <1>10, <1>11, <1>12,
     <1>13, <1>14, <1>15, <1>16, <1>17, <1>18, <1>19 DEF Next, Step

\* One call at a time: nobody else touches the file.
LEMMA StepOneCall ==
  TypeOK /\ OnlyGivenTokens /\ UnsavedIsUnknown /\ UnsavedIsLive /\ RejectedIsSpent /\ OneCallAtATime /\ [Next]_vars => OneCallAtATime'
<1> SUFFICES ASSUME TypeOK, OnlyGivenTokens, UnsavedIsUnknown, UnsavedIsLive, RejectedIsSpent, OneCallAtATime, [Next]_vars PROVE OneCallAtATime'
  OBVIOUS
<1> USE TokenAssumption DEF TypeOK, OnlyGivenTokens, UnsavedIsUnknown, Unsaved, Spending, Token, Idle, Goto, UnsavedIsLive, RejectedIsSpent, OneCallAtATime, Trouble
<1>1. ASSUME NEW p \in Proc, NEW f \in BOOLEAN, Call(p, f) PROVE OneCallAtATime'
  BY <1>1 DEF Call, Troubled
<1>2. ASSUME NEW p \in Proc, Read(p) PROVE OneCallAtATime'
  BY <1>2 DEF Read, Decode
<1>3. ASSUME NEW p \in Proc, Discover(p) PROVE OneCallAtATime'
  BY <1>3 DEF Discover
<1>4. ASSUME NEW p \in Proc, Refreshed(p) PROVE OneCallAtATime'
  BY <1>4 DEF Refreshed, GiveToken, Requests
<1>5. ASSUME NEW p \in Proc, RefreshedWithoutToken(p) PROVE OneCallAtATime'
  BY <1>5 DEF RefreshedWithoutToken, Requests
<1>6. ASSUME NEW p \in Proc, NoAnswer(p) PROVE OneCallAtATime'
  BY <1>6 DEF NoAnswer, Unknown, GiveToken, Troubled, Requests
<1>7. ASSUME NEW p \in Proc, ServerError(p) PROVE OneCallAtATime'
  BY <1>7 DEF ServerError, Unknown, GiveToken, Troubled, Requests
<1>8. ASSUME NEW p \in Proc, Rejected(p) PROVE OneCallAtATime'
  BY <1>8 DEF Rejected, Requests, Troubled
<1>9. ASSUME NEW p \in Proc, RemoveRejected(p) PROVE OneCallAtATime'
  BY <1>9 DEF RemoveRejected, Remove, Troubled
<1>10. ASSUME NEW p \in Proc, Login(p) PROVE OneCallAtATime'
  BY <1>10 DEF Login, GiveToken
<1>11. ASSUME NEW p \in Proc, LoginWithoutToken(p) PROVE OneCallAtATime'
  BY <1>11 DEF LoginWithoutToken
<1>12. ASSUME NEW p \in Proc, LoginFails(p) PROVE OneCallAtATime'
  BY <1>12 DEF LoginFails
<1>13. ASSUME NEW p \in Proc, Truncate(p) PROVE OneCallAtATime'
  BY <1>13 DEF Truncate, OpenTruncate
<1>14. ASSUME NEW p \in Proc, OpenFails(p) PROVE OneCallAtATime'
  BY <1>14 DEF OpenFails, Troubled
<1>15. ASSUME NEW p \in Proc, WriteBytes(p) PROVE OneCallAtATime'
  BY <1>15 DEF WriteBytes, WriteOpen, Troubled
<1>16. ASSUME NEW p \in Proc, Crash(p) PROVE OneCallAtATime'
  BY <1>16 DEF Crash, Abandon, Troubled
<1>17. ASSUME CleanCache PROVE OneCallAtATime'
  BY <1>17 DEF CleanCache, Remove, Troubled
<1>18. ASSUME NEW t \in live, Revoke(t) PROVE OneCallAtATime'
  BY <1>18 DEF Revoke, Troubled
<1>19. CASE UNCHANGED vars
  BY <1>19 DEF vars
<1> QED
  BY <1>1, <1>2, <1>3, <1>4, <1>5, <1>6, <1>7, <1>8, <1>9, <1>10, <1>11, <1>12,
     <1>13, <1>14, <1>15, <1>16, <1>17, <1>18, <1>19 DEF Next, Step

LEMMA InitTokenInv == Init => TokenInv
<1> SUFFICES ASSUME Init PROVE TokenInv
  OBVIOUS
<1>1. TypeOK
  BY TokenAssumption DEF Init, TypeOK, Trouble, Location, Idle
<1>2. OnlyGivenTokens /\ UnsavedIsUnknown /\ UnsavedIsLive /\ RejectedIsSpent
  BY TokenAssumption
     DEF Init, OnlyGivenTokens, UnsavedIsUnknown, UnsavedIsLive, RejectedIsSpent,
         Unsaved, Spending, Token
<1>3. SpentIsBeingReplaced /\ OneCallAtATime
  BY TokenAssumption
     DEF Init, SpentIsBeingReplaced, OneCallAtATime, Unsaved, Spending, Idle, Token
<1> QED
  BY <1>1, <1>2, <1>3 DEF TokenInv

LEMMA StepTokenInv == TokenInv /\ [Next]_vars => TokenInv'
  BY StepTypeOK, StepOnlyGiven, StepUnknown, StepUnsavedLive, StepRejectedSpent,
     StepSpentReplaced, StepOneCall
     DEF TokenInv

\* Who holds which token, and whether it is saved, is as TokenInv says in every
\* reachable state (TryFetchTokenViaRefreshToken,
\* SaveTokenResponseWithRefreshToken).
THEOREM TokenInvariant == Spec => []TokenInv
<1> QED
  BY InitTokenInv, StepTokenInv, PTL DEF Spec

\* The types of the file, of the processes and of the provider's tokens: a
\* process never holds undecodable bytes as its refresh token.
THEOREM TokenTypes == Spec => []TypeOK
<1>1. TokenInv => TypeOK
  BY DEF TokenInv
<1> QED
  BY <1>1, TokenInvariant, PTL

\* However many processes refresh at the same time, the one that spends the
\* token on file goes on to replace it (TryFetchTokenViaRefreshToken).
THEOREM SpentIsReplaced == Spec => []SpentIsBeingReplaced
<1>1. TokenInv => SpentIsBeingReplaced
  BY DEF TokenInv
<1> QED
  BY <1>1, TokenInvariant, PTL

\* As long as calls come one at a time and the provider at worst fails to
\* answer, a user once signed in has an accepted token on file between calls
\* (FetchIdTokenDeviceCode).
THEOREM SessionSurvives == Spec => []SessionKept
<1>1. TokenInv => SessionKept
  BY DEF TokenInv, OneCallAtATime, SessionKept, Unsaved, Idle
<1> QED
  BY <1>1, TokenInvariant, PTL

\* Only clean-cache and a rejected token remove the file
\* (TryFetchTokenViaRefreshToken).
THEOREM RemovedWhenRejected == Spec => RemovedOnlyWhenRejected
<1>1. ASSUME TokenInv, Next, trouble < 2, file # Nothing, file' = Nothing
      PROVE  \/ CleanCache
             \/ \E p \in Proc : RemoveRejected(p) /\ rt[p] \notin live
  <2>1. ASSUME NEW p \in Proc, Truncate(p) \/ WriteBytes(p) PROVE FALSE
    <3>1. file' \in {Torn, file, rt[p]} /\ Unsaved(p)
      BY <2>1 DEF Truncate, OpenTruncate, WriteBytes, WriteOpen, Unsaved
    <3>2. rt[p] \in Token
      BY <1>1, <3>1 DEF TokenInv, OnlyGivenTokens
    <3> QED
      BY <1>1, <3>1, <3>2, TokenAssumption
  <2>2. ASSUME NEW p \in Proc, RemoveRejected(p) PROVE rt[p] \notin live
    BY <1>1, <2>2 DEF TokenInv, RejectedIsSpent, RemoveRejected
  <2>3. \/ CleanCache
        \/ \E p \in Proc : Truncate(p) \/ WriteBytes(p) \/ RemoveRejected(p)
    BY <1>1
       DEF Next, Step, Call, Read, Discover, Refreshed, RefreshedWithoutToken,
           NoAnswer, ServerError, Rejected, Login, LoginWithoutToken, LoginFails,
           OpenFails, Crash, Abandon, Revoke
  <2> QED
    BY <2>1, <2>2, <2>3
<1>2. TokenInv /\ [Next]_vars =>
        [trouble < 2 /\ file # Nothing /\ file' = Nothing =>
           \/ CleanCache
           \/ \E p \in Proc : RemoveRejected(p) /\ rt[p] \notin live]_vars
  BY <1>1
<1> QED
  BY <1>2, TokenInvariant, PTL DEF Spec, RemovedOnlyWhenRejected

\* A token that another process has in its hands, and may have spent, is never
\* written to the file (SaveTokenResponseWithRefreshToken).
THEOREM NotBroughtBack == Spec => NeverBroughtBack
<1>1. ASSUME TokenInv, Next, file' \in Token, file' # file,
             NEW p \in Proc, Spending(p)
      PROVE  rt[p] # file'
  <2>1. PICK q \in Proc : WriteBytes(q)
    BY <1>1, TokenAssumption
       DEF Next, Step, Call, Read, Discover, Refreshed, RefreshedWithoutToken,
           NoAnswer, ServerError, Rejected, RemoveRejected, Login,
           LoginWithoutToken, LoginFails, Truncate, OpenTruncate, OpenFails,
           Crash, Abandon, CleanCache, Remove, Revoke
  <2>2. file' = rt[q] /\ Unsaved(q)
    BY <1>1, <2>1, TokenAssumption DEF WriteBytes, WriteOpen, Unsaved
  <2>3. p # q
    BY <1>1, <2>2 DEF Spending, Unsaved
  <2> QED
    BY <1>1, <2>2, <2>3 DEF TokenInv, UnsavedIsUnknown
<1>2. TokenInv /\ [Next]_vars =>
        [file' \in Token /\ file' # file =>
           \A p \in Proc :
             pc[p] \in {"discover", "refresh", "retry", "remove"} =>
               rt[p] # file']_vars
  BY <1>1 DEF Spending
<1> QED
  BY <1>2, TokenInvariant, PTL DEF Spec, NeverBroughtBack
=============================================================================
