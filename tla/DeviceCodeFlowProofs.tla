------------------------- MODULE DeviceCodeFlowProofs -------------------------
(***************************************************************************)
(* Proofs about DeviceCodeFlow for the limits of the code and any others:  *)
(* the polling loop keeps its counters in range, and does not fail behind  *)
(* the back of a user who has decided, but for the reasons DecisionIsHeard *)
(* lists.                                                                  *)
(***************************************************************************)
EXTENDS DeviceCodeFlow, SequenceTheorems, TLAPS

\* The error count is that of the unanswered polls at the end of recent.
ErrorsAreRecent ==
  /\ errors <= Len(recent)
  /\ \A i \in DOMAIN recent : i > Len(recent) - errors => recent[i] = "none"

\* A device code exists, so the user can have decided, only where it is
\* polled for and after that; errors are in range until the flow is over, and
\* there are tries and polls left while it tries and polls.
FlowInv ==
  /\ TypeOK
  /\ ErrorsAreRecent
  /\ pc \in {"discover", "device"} => code = "none"
  /\ pc \notin Done => errors <= MaxErrors
  /\ pc \in {"poll", "again"} => polls < MaxPolls
  /\ pc \in {"discover", "device"} => tries < MaxTries
  /\ DecisionIsHeard

-----------------------------------------------------------------------------
\* After an answer the last of the recent answers is the new one, and if the
\* errors are counted on, they still are those at the end.
LEMMA NoteKeeps ==
  ASSUME TypeOK, polls < MaxPolls, NEW a \in Answer, Note(a)
  PROVE  /\ polls' \in 0..MaxPolls
         /\ recent' \in Seq(Answer)
         /\ Len(recent') <= MaxErrors + 1 /\ Len(recent') >= 1
         /\ recent'[Len(recent')] = a
<1> USE FlowAssumption
<1>1. /\ recent \in Seq(Answer) /\ Len(recent) <= MaxErrors + 1 /\ Len(recent) \in Nat
      /\ polls \in Nat
  BY DEF TypeOK
<1>2. polls' \in 0..MaxPolls
  BY <1>1 DEF Note
<1>3. CASE Len(recent) > MaxErrors
  <2>1. Tail(recent) \in Seq(Answer) /\ Len(Tail(recent)) = Len(recent) - 1
    BY <1>1, <1>3
  <2>2. recent' = Append(Tail(recent), a)
    BY <1>3 DEF Note
  <2> QED BY <1>1, <1>2, <2>1, <2>2
<1>4. CASE ~(Len(recent) > MaxErrors)
  <2>1. recent' = Append(recent, a)
    BY <1>4 DEF Note
  <2> QED BY <1>1, <1>2, <1>4, <2>1
<1> QED BY <1>3, <1>4

LEMMA NoteCounts ==
  ASSUME TypeOK, ErrorsAreRecent, errors <= MaxErrors, Note("none"),
         errors' = errors + 1
  PROVE  ErrorsAreRecent'
<1> USE FlowAssumption
<1>1. /\ recent \in Seq(Answer) /\ Len(recent) <= MaxErrors + 1 /\ Len(recent) \in Nat
      /\ errors \in Nat /\ errors <= Len(recent)
  BY DEF TypeOK, ErrorsAreRecent
<1>2. \A i \in 1..Len(recent) : i > Len(recent) - errors => recent[i] = "none"
  BY <1>1 DEF ErrorsAreRecent
<1>3. CASE Len(recent) > MaxErrors
  <2>1. recent' = Append(Tail(recent), "none")
    BY <1>3 DEF Note
  <2>2. /\ Len(recent') = Len(recent)
        /\ recent'[Len(recent)] = "none"
        /\ \A i \in 1..(Len(recent) - 1) : recent'[i] = recent[i + 1]
        /\ DOMAIN recent' = 1..Len(recent)
    BY <1>1, <1>3, <2>1 DEF Answer
  <2>3. ASSUME NEW i \in 1..Len(recent), i > Len(recent) - (errors + 1)
        PROVE  recent'[i] = "none"
    <3>1. CASE i = Len(recent)
      BY <2>2, <3>1
    <3>2. CASE i # Len(recent)
      <4>1. i \in 1..(Len(recent) - 1) /\ i + 1 \in 1..Len(recent)
            /\ i + 1 > Len(recent) - errors
        BY <1>1, <2>3, <3>2
      <4> QED BY <1>2, <2>2, <4>1
    <3> QED BY <3>1, <3>2
  <2>4. errors' <= Len(recent')
    BY <1>1, <1>3, <2>2
  <2> QED BY <2>2, <2>3, <2>4 DEF ErrorsAreRecent
<1>4. CASE ~(Len(recent) > MaxErrors)
  <2>1. recent' = Append(recent, "none")
    BY <1>4 DEF Note
  <2>2. /\ Len(recent') = Len(recent) + 1
        /\ recent'[Len(recent) + 1] = "none"
        /\ \A i \in 1..Len(recent) : recent'[i] = recent[i]
        /\ DOMAIN recent' = 1..(Len(recent) + 1)
    BY <1>1, <2>1 DEF Answer
  <2>3. ASSUME NEW i \in 1..(Len(recent) + 1), i > Len(recent) + 1 - (errors + 1)
        PROVE  recent'[i] = "none"
    <3>1. CASE i = Len(recent) + 1
      BY <2>2, <3>1
    <3>2. CASE i # Len(recent) + 1
      <4>1. i \in 1..Len(recent) /\ i > Len(recent) - errors
        BY <1>1, <2>3, <3>2
      <4> QED BY <1>2, <2>2, <4>1
    <3> QED BY <3>1, <3>2
  <2>4. errors' <= Len(recent')
    BY <1>1, <2>2
  <2> QED BY <2>2, <2>3, <2>4 DEF ErrorsAreRecent
<1> QED BY <1>3, <1>4

LEMMA NoErrorsAreRecent ==
  ASSUME recent \in Seq(Answer), errors = 0
  PROVE  ErrorsAreRecent
BY DEF ErrorsAreRecent

-----------------------------------------------------------------------------
LEMMA InitFlowInv == Init => FlowInv
<1> SUFFICES ASSUME Init PROVE FlowInv
  OBVIOUS
<1> USE FlowAssumption DEF Init
<1>1. TypeOK
  BY DEF TypeOK, Done, Status
<1>2. ErrorsAreRecent
  BY <1>1, NoErrorsAreRecent DEF TypeOK
<1> QED BY <1>1, <1>2 DEF FlowInv, Done, DecisionIsHeard

LEMMA StepFlowInv == FlowInv /\ [Next]_vars => FlowInv'
<1> SUFFICES ASSUME FlowInv, [Next]_vars PROVE FlowInv'
  OBVIOUS
<1> USE FlowAssumption
<1>0. TypeOK /\ ErrorsAreRecent
  BY DEF FlowInv
<1>a. ASSUME UNCHANGED <<errors, recent>> PROVE ErrorsAreRecent'
  BY <1>0, <1>a DEF ErrorsAreRecent
<1>b. ASSUME errors' = 0, recent' \in Seq(Answer) PROVE ErrorsAreRecent'
  BY <1>b DEF ErrorsAreRecent
<1>c. ASSUME Requests PROVE polls < MaxPolls /\ errors <= MaxErrors
  BY <1>c DEF FlowInv, Requests, Done
<1>1. CASE Begin
  <2>1. TypeOK'
    BY <1>0, <1>1 DEF Begin, TypeOK, Done, Status
  <2>2. ErrorsAreRecent'
    BY <1>1, <1>b, <2>1 DEF Begin, TypeOK
  <2> QED BY <1>1, <2>1, <2>2 DEF FlowInv, Begin, Done, DecisionIsHeard
<1>2. CASE Discover \/ DeviceCodeRefused
  <2>1. TypeOK'
    BY <1>0, <1>2 DEF Discover, DeviceCodeRefused, TypeOK, Done, Status
  <2>2. ErrorsAreRecent'
    BY <1>2, <1>a DEF Discover, DeviceCodeRefused
  <2>3. /\ code' = "none" /\ pc' \in {"device", "failed"}
        /\ pc' = "device" => tries' < MaxTries /\ errors' <= MaxErrors
    BY <1>2 DEF FlowInv, Discover, DeviceCodeRefused, Done
  <2> QED BY <2>1, <2>2, <2>3 DEF FlowInv, Done, DecisionIsHeard
<1>3. ASSUME NEW k \in Intervals, DeviceCode(k) PROVE FlowInv'
  <2>1. TypeOK'
    BY <1>0, <1>3 DEF DeviceCode, TypeOK, Done, Status
  <2>2. ErrorsAreRecent'
    BY <1>3, <1>a DEF DeviceCode
  <2>3. /\ pc' = "sleep" /\ errors' = errors
        /\ errors <= MaxErrors
    BY <1>3 DEF FlowInv, DeviceCode, Done
  <2> QED BY <2>1, <2>2, <2>3 DEF FlowInv, Done, DecisionIsHeard
<1>4. CASE NoDeviceCode
  <2>1. TypeOK'
    BY <1>0, <1>4 DEF FlowInv, NoDeviceCode, TypeOK, Done, Status
  <2>2. ErrorsAreRecent'
    BY <1>4, <1>a DEF NoDeviceCode
  <2>3. /\ code' = "none" /\ pc' \in {"device", "failed"}
        /\ pc' = "device" => tries' < MaxTries /\ errors' <= MaxErrors
    BY <1>0, <1>4 DEF FlowInv, NoDeviceCode, TypeOK, Done
  <2> QED BY <2>1, <2>2, <2>3 DEF FlowInv, Done, DecisionIsHeard
<1>5. CASE Sleep \/ OutOfPolls \/ ServerError \/ TokenGranted \/ AccessDenied
  <2>1. TypeOK'
    BY <1>0, <1>5 DEF Sleep, OutOfPolls, ServerError, TokenGranted, AccessDenied, Unknown,
                      SleepSeconds, TypeOK, Done, Status
  <2>2. ErrorsAreRecent'
    BY <1>5, <1>a DEF Sleep, OutOfPolls, ServerError, TokenGranted, AccessDenied
  <2> QED BY <1>0, <1>5, <2>1, <2>2
          DEF FlowInv, Done, Sleep, OutOfPolls, ServerError, TokenGranted, AccessDenied,
              TypeOK, Requests, DecisionIsHeard
<1>6. CASE Pending \/ SlowDown \/ OtherError \/ ServerErrorAgain
  <2>1. PICK a \in Answer \ {"none"} :
           /\ Note(a)
           /\ pc' = "failed" => a \in {"other", "server_error"}
    BY <1>6 DEF Answer, Pending, SlowDown, OtherError, ServerErrorAgain
  <2>2. polls < MaxPolls
    BY <1>6, <1>c DEF Pending, SlowDown, OtherError, ServerErrorAgain, Requests
  <2>3. errors' = 0
    BY <1>6 DEF Pending, SlowDown, OtherError, ServerErrorAgain
  <2>4. /\ polls' \in 0..MaxPolls
        /\ recent' \in Seq(Answer)
        /\ Len(recent') <= MaxErrors + 1 /\ Len(recent') >= 1
        /\ recent'[Len(recent')] = a
    BY <1>0, <2>1, <2>2, NoteKeeps
  <2>5. ErrorsAreRecent'
    BY <1>b, <2>3, <2>4
  <2>6. /\ pc' \in {"sleep", "failed"} /\ code' \in Status /\ tries' = tries /\ paused' = paused
        /\ interval' \in Nat /\ asked' \in Nat
    BY <1>0, <1>6 DEF TypeOK, Pending, SlowDown, OtherError, ServerErrorAgain, Unknown, Status
  <2>7. TypeOK'
    BY <1>0, <2>3, <2>4, <2>6 DEF TypeOK, Done
  <2>8. DecisionIsHeard'
    <3>1. CASE pc' = "failed"
      <4>1. recent' # <<>> /\ recent'[Len(recent')] \in {"server_error", "other"}
        BY <2>1, <2>4, <3>1
      <4> QED BY <4>1 DEF DecisionIsHeard
    <3>2. CASE pc' # "failed"
      BY <3>2 DEF DecisionIsHeard
    <3> QED BY <3>1, <3>2
  <2> QED BY <2>3, <2>5, <2>6, <2>7, <2>8 DEF FlowInv, Done
<1>7. CASE NoAnswer
  <2>1. /\ Note("none") /\ errors' = errors + 1 /\ "none" \in Answer
        /\ pc' = IF errors' > MaxErrors THEN "failed" ELSE "sleep"
    BY <1>7 DEF NoAnswer, Answer
  <2>2. polls < MaxPolls /\ errors <= MaxErrors /\ errors \in Nat
    BY <1>0, <1>7, <1>c DEF NoAnswer, TypeOK
  <2>3. /\ polls' \in 0..MaxPolls
        /\ recent' \in Seq(Answer)
        /\ Len(recent') <= MaxErrors + 1
    BY <1>0, <2>1, <2>2, NoteKeeps
  <2>4. ErrorsAreRecent'
    BY <1>0, <2>1, <2>2, NoteCounts
  <2>5. /\ code' \in Status /\ tries' = tries /\ paused' = paused
        /\ interval' = interval /\ asked' = asked
    BY <1>0, <1>7 DEF TypeOK, NoAnswer, Unknown, Status
  <2>6. TypeOK'
    BY <1>0, <2>1, <2>2, <2>3, <2>5 DEF TypeOK, Done
  <2>7. ASSUME pc' = "failed"
        PROVE  Len(recent') = MaxErrors + 1 /\ \A i \in DOMAIN recent' : recent'[i] = "none"
    <3>1. errors' = MaxErrors + 1
      BY <2>1, <2>2, <2>7
    <3>2. Len(recent') = MaxErrors + 1
      BY <2>3, <2>4, <3>1 DEF ErrorsAreRecent
    <3>3. \A i \in DOMAIN recent' : i > 0
      BY <2>3
    <3> QED BY <2>4, <3>1, <3>2, <3>3 DEF ErrorsAreRecent
  <2>8. DecisionIsHeard'
    BY <2>7 DEF DecisionIsHeard
  <2> QED BY <2>1, <2>2, <2>4, <2>6, <2>8 DEF FlowInv, Done
<1>8. ASSUME NEW s \in Status, Decide(s) PROVE FlowInv'
  <2>1. TypeOK'
    BY <1>0, <1>8 DEF Decide, TypeOK, Status
  <2>2. ErrorsAreRecent'
    BY <1>8, <1>a DEF Decide
  <2> QED BY <1>8, <2>1, <2>2
          DEF FlowInv, Decide, Done, DecisionIsHeard
<1>9. CASE UNCHANGED vars
  <2>1. TypeOK' /\ ErrorsAreRecent'
    BY <1>0, <1>9, <1>a DEF vars, TypeOK
  <2> QED BY <1>9, <2>1 DEF vars, FlowInv, Done, DecisionIsHeard
<1> QED
  BY <1>1, <1>2, <1>3, <1>4, <1>5, <1>6, <1>7, <1>8, <1>9 DEF Next, Step

\* The inductive invariant of the loop: its counters agree with the answers
\* of the last polls (oidc_device_code.go:155-191).
THEOREM FlowInvariant == Spec => []FlowInv
  BY InitFlowInv, StepFlowInv, PTL DEF Spec

\* The counters stay within their limits, whatever the limits are, and the
\* record of the answers within the number of errors that are forgiven
\* (oidc_device_code.go:155-199).
THEOREM FlowTypes == Spec => []TypeOK
<1>1. FlowInv => TypeOK
  BY DEF FlowInv
<1> QED BY <1>1, FlowInvariant, PTL

\* With any number of polls, and any number of errors forgiven, a user who
\* has decided is heard, but for an outage of more than that many polls in a
\* row, two server errors running, an error the program does not know, or the
\* last poll; no other course of answers makes it give up
\* (oidc_device_code.go:155-191).
THEOREM UserIsHeard == Spec => []DecisionIsHeard
<1>1. FlowInv => DecisionIsHeard
  BY DEF FlowInv
<1> QED BY <1>1, FlowInvariant, PTL
=============================================================================
