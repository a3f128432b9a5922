----------------------- MODULE ReadThroughCacheProofs -----------------------
(***************************************************************************)
(* Proofs about ReadThroughCache for any number of processes, any          *)
(* lifetimes and margins.  CallInv is inductive; the other results follow  *)
(* from it, step by step.                                                  *)
(***************************************************************************)
EXTENDS ReadThroughCache, TLAPS

\* A content that a server issues now is a content, and issued now.
LEMMA IssuedIsCred ==
  ASSUME clock \in Time, NEW c \in Issued
  PROVE  c \in Cred /\ c.at = clock
BY DEF Issued, Cred

\* What is decoded from a well typed file is a content or nothing.
LEMMA DecodeType ==
  ASSUME file \in Cred \cup {Nothing, Torn}
  PROVE  /\ Decode(file) \in Cred \cup {Nothing}
         /\ Decode(file) \in Cred => Decode(file) = file
BY CacheAssumption DEF Decode

LEMMA TimeIsInt == Time \subseteq Int
BY CacheAssumption DEF Time

LEMMA CredFields == \A c \in Cred : c.at \in Int /\ c.exp \in Int
BY CacheAssumption DEF Cred, Time

-----------------------------------------------------------------------------
LEMMA InitCallInv == Init => CallInv
<1> SUFFICES ASSUME Init
             PROVE  CallInv
  OBVIOUS
<1> USE CacheAssumption DEF Init
<1>1. TypeOK
  BY DEF TypeOK, Location, Idle, Time
<1>2. NothingFromTheFuture
  <2>1. file \notin Cred
    OBVIOUS
  <2>2. \A p \in Proc : began[p] <= clock /\ held[p] \notin Cred
    OBVIOUS
  <2> QED
    BY <2>1, <2>2 DEF NothingFromTheFuture
<1>3. StoresWhatItFetched /\ ForcedHoldsFetched /\ ServesUnfetched /\ EmptyIsNoError
  BY DEF StoresWhatItFetched, ForcedHoldsFetched, ServesUnfetched, EmptyIsNoError
<1> QED
  BY <1>1, <1>2, <1>3 DEF CallInv

LEMMA StepCallInv == CallInv /\ [Next]_vars => CallInv'
<1> SUFFICES ASSUME CallInv, [Next]_vars
             PROVE  CallInv'
  OBVIOUS
<1> USE CacheAssumption, TimeIsInt, CredFields
    DEF CallInv, TypeOK, NothingFromTheFuture, StoresWhatItFetched,
        ForcedHoldsFetched, HoldsFetched, ServesUnfetched, EmptyIsNoError, Location, Idle
<1>1. ASSUME NEW p \in Proc, NEW force \in BOOLEAN, Call(p, force)
      PROVE  CallInv'
  BY <1>1 DEF Call, Goto, fileVars
<1>2. ASSUME NEW p \in Proc, Read(p)
      PROVE  CallInv'
  BY <1>2, DecodeType DEF Read, Goto, fileVars
<1>3. ASSUME NEW p \in Proc, Truncate(p)
      PROVE  CallInv'
  BY <1>3 DEF Truncate, OpenTruncate, Goto
<1>4. ASSUME NEW p \in Proc, OpenFails(p)
      PROVE  CallInv'
  BY <1>4 DEF OpenFails, Goto, fileVars
<1>5. ASSUME NEW p \in Proc, WriteBytes(p)
      PROVE  CallInv'
  BY <1>5 DEF WriteBytes, WriteOpen, Goto
<1>6. ASSUME NEW p \in Proc, Serve(p)
      PROVE  CallInv'
  <2>1. /\ outcome[p] \in {"untried", "status", "error", "denied"}
        /\ pc[p] = "serve" /\ UNCHANGED <<clock, file, linked, forceNew, began, outcome>>
    BY <1>6 DEF Serve, fileVars
  <2>2. /\ pc' = [pc EXCEPT ![p] = "refused"] \/ pc' = [pc EXCEPT ![p] = "answered"]
        /\ held' = held \/ held' = [held EXCEPT ![p] = Nothing]
        /\ pc'[p] = "answered" =>
             ~forceNew[p] /\ (held'[p] = Nothing => outcome[p] \notin {"error", "denied"})
    BY <1>6 DEF Serve, Goto
  <2>3. TypeOK' /\ NothingFromTheFuture' /\ StoresWhatItFetched' /\ ForcedHoldsFetched'
    BY <2>1, <2>2
  <2>4. ServesUnfetched'
    BY <2>1, <2>2
  <2>5. EmptyIsNoError'
    BY <2>1, <2>2
  <2> QED BY <2>3, <2>4, <2>5
<1>7. ASSUME NEW p \in Proc, NEW c \in Issued, FetchOk(p, c)
      PROVE  CallInv'
  BY <1>7, IssuedIsCred DEF FetchOk, Goto, fileVars
<1>8. ASSUME NEW p \in Proc, NEW why \in FetchError, FetchFails(p, why)
      PROVE  CallInv'
  BY <1>8 DEF FetchFails, Goto, fileVars
<1>9. ASSUME NEW p \in Proc, Crash(p)
      PROVE  CallInv'
  BY <1>9 DEF Crash, Abandon, Goto
<1>10. CASE CleanCache
  BY <1>10 DEF CleanCache, Remove, procVars
<1>11. CASE Tick
  BY <1>11 DEF Tick, fileVars, procVars, Time
<1>12. CASE UNCHANGED vars
  BY <1>12 DEF vars
<1> QED
  BY <1>1, <1>2, <1>3, <1>4, <1>5, <1>6, <1>7, <1>8, <1>9, <1>10, <1>11, <1>12
     DEF Next, LocalStep, Fetch

\* CallInv holds in every reachable state.
THEOREM CallInvariant == Spec => []CallInv
BY InitCallInv, StepCallInv, PTL DEF Spec

\* Every state is well typed: no interleaving leaves a torn content in a
\* caller's hands, or a location the code does not have (storage.go:117-186).
THEOREM TypeCorrect == Spec => []TypeOK
<1>1. CallInv => TypeOK
  BY DEF CallInv
<1> QED
  BY <1>1, CallInvariant, PTL

\* ForceNew is honoured in every reachable state (storage.go:136, 169).
THEOREM ForceNewHonoured == Spec => []ForceNewIsNew
<1>1. CallInv => ForceNewIsNew
  BY CacheAssumption
     DEF CallInv, ForcedHoldsFetched, HoldsFetched, ForceNewIsNew
<1> QED
  BY <1>1, CallInvariant, PTL

-----------------------------------------------------------------------------
\* The steps that answer a call, and what they hand over.
LEMMA AnswerComesFrom ==
  ASSUME CallInv, Next, NEW p \in Proc, Answers(p)
  PROVE  /\ held'[p] = held[p] /\ held[p] \in Cred
         /\ clock' = clock
         /\ \/ HoldsFetched(p)
            \/ /\ ~forceNew[p]
               /\ ~IsExpired(held[p], clock) \/ AllowExpired
<1> USE CacheAssumption
    DEF CallInv, TypeOK, StoresWhatItFetched, HoldsFetched, Answers, Goto, Idle
<1>1. ASSUME NEW q \in Proc, NEW force \in BOOLEAN, Call(q, force)
      PROVE  FALSE
  BY <1>1 DEF Call
<1>2. ASSUME NEW q \in Proc, Read(q) \/ Truncate(q) \/ Crash(q)
      PROVE  FALSE
  BY <1>2 DEF Read, Truncate, Crash
<1>3. ASSUME NEW q \in Proc, Fetch(q)
      PROVE  FALSE
  BY <1>3 DEF Fetch, FetchOk, FetchFails
<1>4. CASE CleanCache \/ Tick
  BY <1>4 DEF CleanCache, Tick, procVars
<1>5. ASSUME NEW q \in Proc, OpenFails(q) \/ WriteBytes(q)
      PROVE  q = p /\ held' = held /\ clock' = clock /\ HoldsFetched(p)
  BY <1>5 DEF OpenFails, WriteBytes
<1>6. ASSUME NEW q \in Proc, Serve(q)
      PROVE  /\ held'[p] = held[p] /\ held[p] \in Cred /\ clock' = clock
             /\ ~forceNew[p]
             /\ ~IsExpired(held[p], clock) \/ AllowExpired
  BY <1>6 DEF Serve
<1> QED
  BY <1>1, <1>2, <1>3, <1>4, <1>5, <1>6 DEF Next, LocalStep

\* An old content is never handed over with less than ExpiredMargin left
\* (storage.go:174), at the moment it is handed over.
THEOREM OldAnswersAreValid == Spec => OldAnswerIsValid
<1> DEFINE Valid == ~AllowExpired =>
                      \A p \in Proc :
                        Answers(p) /\ held'[p].at < began[p] =>
                          held'[p].exp - clock > ExpiredMargin
<1>1. CallInv /\ [Next]_vars => [Valid]_vars
  <2> SUFFICES ASSUME CallInv, Next, ~AllowExpired,
                      NEW p \in Proc, Answers(p), held'[p].at < began[p]
               PROVE  held'[p].exp - clock > ExpiredMargin
    OBVIOUS
  <2>1. /\ held'[p] = held[p] /\ held[p] \in Cred
        /\ HoldsFetched(p) \/ ~IsExpired(held[p], clock)
    BY AnswerComesFrom
  <2>2. ~HoldsFetched(p)
    <3>1. held[p].at \in Int /\ began[p] \in Int
      BY <2>1, CredFields, TimeIsInt DEF CallInv, TypeOK
    <3> QED
      BY <2>1, <3>1 DEF HoldsFetched
  <2> QED
    BY <2>1, <2>2, CacheAssumption, CredFields, TimeIsInt
       DEF IsExpired, RunsOut, CallInv, TypeOK
<1> QED
  BY <1>1, CallInvariant, PTL DEF Spec, OldAnswerIsValid

\* A failing fetch never costs the cached content (storage.go:144-162).
THEOREM OnlyFetchedStored == Spec => OnlyFetchedIsStored
<1> DEFINE ByAStorer == file' # file =>
             \/ file' = Nothing
             \/ \E p \in Proc :
                  /\ outcome[p] = "ok" /\ held[p].at >= began[p]
                  /\ pc[p] \in {"truncate", "write"}
                  /\ file' \in {held[p], Torn}
<1>1. CallInv /\ Next => ByAStorer
  BY DEF CallInv, StoresWhatItFetched, HoldsFetched, Next, LocalStep, Fetch, fileVars,
         Call, Read, Truncate, OpenFails, WriteBytes, Serve, FetchOk, FetchFails,
         Crash, CleanCache, Tick, WriteOpen, OpenTruncate, Abandon, Remove
<1> QED
  BY <1>1, CallInvariant, PTL DEF Spec, OnlyFetchedIsStored

-----------------------------------------------------------------------------
(* ReadThroughCache implements CredentialSource.                           *)

\* The abstract state, under names of its own.
State == [p \in Proc |-> IF pc[p] \in Idle THEN pc[p] ELSE "waiting"]
Given == [p \in Proc |-> IF pc[p] = "answered" THEN held[p] ELSE Nothing]

\* A step that leaves every call at the same abstract stage is a stutter.
LEMMA StutterMaps ==
  ASSUME State' = State, Given' = Given,
         UNCHANGED <<clock, forceNew, began>>
  PROVE  UNCHANGED Promised!vars
BY DEF State, Given, Promised!vars

\* The end of a call with a content in hand is the abstract Give.
LEMMA AnswerMaps ==
  ASSUME CallInv, NEW p \in Proc,
         pc[p] \notin Idle, pc' = [pc EXCEPT ![p] = "answered"],
         held' = held, held[p] \in Cred,
         HoldsFetched(p) \/ (~forceNew[p] /\ (~IsExpired(held[p], clock) \/ AllowExpired)),
         UNCHANGED <<clock, forceNew, began>>
  PROVE  Promised!Next
<1> USE CacheAssumption DEF CallInv, TypeOK
<1>1. State[p] = "waiting" /\ State' = [State EXCEPT ![p] = "answered"]
  BY DEF State, Idle
<1>2. Given' = [Given EXCEPT ![p] = held[p]]
  BY DEF Given, Idle
<1>3. held[p].at <= clock
  BY DEF NothingFromTheFuture
<1>4. ~IsExpired(held[p], clock) => held[p].exp - clock > ExpiredMargin
  BY CredFields, TimeIsInt DEF IsExpired, RunsOut
<1> PICK c \in Cred : c = held[p]
  OBVIOUS
<1>5. Promised!Give(p, c)
  BY <1>1, <1>2, <1>3, <1>4
     DEF Promised!Give, Promised!IssuedForThisCall, Promised!StillValid,
         State, Given, HoldsFetched
<1> QED
  BY <1>5 DEF Promised!Next

\* The end of a call without a content is the abstract GiveUp.
LEMMA EndMaps ==
  ASSUME CallInv, NEW p \in Proc, NEW s \in {"idle", "refused"},
         pc[p] \notin Idle, pc' = [pc EXCEPT ![p] = s],
         \A q \in Proc \ {p} : held'[q] = held[q],
         UNCHANGED <<clock, forceNew, began>>
  PROVE  Promised!Next
<1> USE DEF CallInv, TypeOK
<1>1. State[p] = "waiting" /\ State' = [State EXCEPT ![p] = s]
  BY DEF State, Idle
<1>2. Given' = Given
  BY DEF Given, Idle
<1>3. Promised!GiveUp(p, s)
  BY <1>1, <1>2 DEF Promised!GiveUp, State, Given
<1> QED
  BY <1>3 DEF Promised!Next

LEMMA StepMaps ==
  ASSUME CallInv, [Next]_vars
  PROVE  [Promised!Next]_(Promised!vars)
<1> USE CacheAssumption DEF CallInv, TypeOK, Goto, fileVars
<1>1. ASSUME NEW p \in Proc, NEW force \in BOOLEAN, Call(p, force)
      PROVE  Promised!Next
  <2>1. /\ State[p] # "waiting" /\ State' = [State EXCEPT ![p] = "waiting"]
        /\ Given' = [Given EXCEPT ![p] = Nothing]
    BY <1>1 DEF Call, State, Given, Idle
  <2>2. Promised!Ask(p, force)
    BY <1>1, <2>1 DEF Call, Promised!Ask, State, Given
  <2> QED
    BY <2>2 DEF Promised!Next
<1>2. ASSUME NEW p \in Proc, Read(p) \/ Truncate(p) \/ Fetch(p)
      PROVE  UNCHANGED Promised!vars
  <2>1. State' = State /\ Given' = Given
    BY <1>2 DEF Read, Truncate, Fetch, FetchOk, FetchFails, State, Given, Idle
  <2> QED
    BY <1>2, <2>1, StutterMaps DEF Read, Truncate, Fetch, FetchOk, FetchFails
<1>3. ASSUME NEW p \in Proc, OpenFails(p) \/ WriteBytes(p)
      PROVE  Promised!Next
  <2>1. HoldsFetched(p) /\ held[p] \in Cred
    BY <1>3 DEF OpenFails, WriteBytes, StoresWhatItFetched, HoldsFetched
  <2> QED
    BY <1>3, <2>1, AnswerMaps DEF OpenFails, WriteBytes, Idle
<1>4. ASSUME NEW p \in Proc, Serve(p)
      PROVE  Promised!Next
  <2>1. CASE held' = held /\ pc' = [pc EXCEPT ![p] = "refused"]
    BY <1>4, <2>1, EndMaps DEF Serve, Idle
  <2>2. CASE /\ held' = held /\ pc' = [pc EXCEPT ![p] = "answered"]
             /\ held[p] # Nothing /\ ~forceNew[p]
             /\ ~IsExpired(held[p], clock) \/ AllowExpired
    BY <1>4, <2>2, AnswerMaps DEF Serve, Idle
  <2>3. CASE /\ held' = [held EXCEPT ![p] = Nothing]
             /\ pc' = [pc EXCEPT ![p] = "refused"]
    BY <1>4, <2>3, EndMaps DEF Serve, Idle
  <2>4. CASE /\ held' = [held EXCEPT ![p] = Nothing] /\ ~forceNew[p]
             /\ pc' = [pc EXCEPT ![p] = "answered"]
    <3>1. /\ State[p] = "waiting" /\ State' = [State EXCEPT ![p] = "answered"]
          /\ Given' = Given
      BY <1>4, <2>4 DEF Serve, State, Given, Idle
    <3>2. Promised!GiveNothing(p)
      BY <1>4, <2>4, <3>1 DEF Serve, Promised!GiveNothing, State, Given
    <3> QED
      BY <3>2 DEF Promised!Next
  <2> QED
    BY <1>4, <2>1, <2>2, <2>3, <2>4 DEF Serve
<1>5. ASSUME NEW p \in Proc, Crash(p)
      PROVE  Promised!Next
  BY <1>5, EndMaps DEF Crash
<1>6. CASE CleanCache
  BY <1>6, StutterMaps DEF CleanCache, procVars, State, Given
<1>7. CASE Tick
  BY <1>7 DEF Tick, procVars, Promised!Tick, Promised!Next
<1>8. CASE UNCHANGED vars
  BY <1>8, StutterMaps DEF vars, State, Given
<1> QED
  BY <1>1, <1>2, <1>3, <1>4, <1>5, <1>6, <1>7, <1>8 DEF Next, LocalStep

\* Every behaviour of ReadThroughCache is one of CredentialSource.
THEOREM Implements == Spec => KeepsPromise
<1>1. Init => Promised!Init
  BY DEF Init, Promised!Init, Idle
<1> QED
  BY <1>1, StepMaps, CallInvariant, PTL DEF Spec, KeepsPromise
=============================================================================
