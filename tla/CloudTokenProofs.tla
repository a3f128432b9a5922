--------------------------- MODULE CloudTokenProofs ---------------------------
(***************************************************************************)
(* Proofs about CloudToken for any number of processes.  Each step of the  *)
(* whole is a step of each layer or none of it (StepsOfLayers), so the     *)
(* invariant of ReadThroughCacheProofs serves for both layers; what is     *)
(* added here is how the layers are coupled, and what follows from both.   *)
(***************************************************************************)
EXTENDS CloudToken, TLAPS

CloudCache == INSTANCE ReadThroughCacheProofs WITH
  Lifetime <- StsLifetime, ExpiringMargin <- StsExpiring, ExpiredMargin <- StsExpired,
  AllowExpired <- FALSE, FetchError <- {"error", "denied"},
  file <- cloudFile, linked <- cloudLinked, pc <- cloudPc, forceNew <- cloudForce,
  began <- cloudBegan, outcome <- cloudOutcome, held <- cloudHeld

OidcCache == INSTANCE ReadThroughCacheProofs WITH
  Lifetime <- OidcLifetime, ExpiringMargin <- OidcExpiring, ExpiredMargin <- OidcExpired,
  AllowExpired <- FALSE, FetchError <- {"error", "denied"},
  file <- oidcFile, linked <- oidcLinked, pc <- oidcPc, forceNew <- oidcForce,
  began <- oidcBegan, outcome <- oidcOutcome, held <- oidcHeld

-----------------------------------------------------------------------------
(* The layers.                                                             *)

\* Everybody but the clock leaves the clock alone.
LEMMA ClockStands ==
  ASSUME NEW p \in Proc
  PROVE  /\ \A force : Cloud!Call(p, force) \/ Oidc!Call(p, force) => clock' = clock
         /\ Cloud!LocalStep(p) \/ Oidc!LocalStep(p) \/ Oidc!Fetch(p) => clock' = clock
         /\ \A c : Cloud!FetchOk(p, c) => clock' = clock
         /\ \A why : Cloud!FetchFails(p, why) => clock' = clock
         /\ Cloud!Crash(p) \/ Oidc!Crash(p) => clock' = clock
         /\ Cloud!CleanCache \/ Oidc!CleanCache => clock' = clock
BY DEF Cloud!Call, Oidc!Call, Cloud!LocalStep, Oidc!LocalStep, Oidc!Fetch,
       Cloud!Read, Cloud!Truncate, Cloud!OpenFails, Cloud!WriteBytes, Cloud!Serve,
       Oidc!Read, Oidc!Truncate, Oidc!OpenFails, Oidc!WriteBytes, Oidc!Serve,
       Oidc!FetchOk, Oidc!FetchFails, Cloud!FetchOk, Cloud!FetchFails,
       Cloud!Crash, Oidc!Crash, Cloud!CleanCache, Oidc!CleanCache

LEMMA SameLayers ==
  /\ UNCHANGED <<clock, cloudVars>> => UNCHANGED Cloud!vars
  /\ UNCHANGED <<clock, oidcVars>> => UNCHANGED Oidc!vars
BY DEF cloudVars, oidcVars, Cloud!vars, Oidc!vars

\* A step of the whole is a step of each layer, or none of it.
LEMMA StepsOfLayers ==
  ASSUME TypeOK, [Next]_vars
  PROVE  [Cloud!Next]_(Cloud!vars) /\ [Oidc!Next]_(Oidc!vars)
<1>1. ASSUME NEW p \in Proc, NEW force \in BOOLEAN, NEW cloudOnly \in BOOLEAN,
             FetchCloudSts(p, force, cloudOnly)
      PROVE  Cloud!Next /\ UNCHANGED Oidc!vars
  <2>1. (force \/ cloudOnly) \in BOOLEAN
    OBVIOUS
  <2>2. Cloud!Call(p, force \/ cloudOnly) /\ UNCHANGED oidcVars
    BY <1>1 DEF FetchCloudSts
  <2>3. UNCHANGED Oidc!vars
    BY <2>2, ClockStands, SameLayers
  <2> QED BY <2>1, <2>2, <2>3 DEF Cloud!Next
<1>2. ASSUME NEW p \in Proc, CloudStep(p)
      PROVE  Cloud!Next /\ UNCHANGED Oidc!vars
  BY <1>2, ClockStands, SameLayers DEF CloudStep, Cloud!Next
<1>3. ASSUME NEW p \in Proc, FetchOidcToken(p)
      PROVE  UNCHANGED Cloud!vars /\ [Oidc!Next]_(Oidc!vars)
  <2>1. Oidc!Call(p, forceNew[p]) /\ UNCHANGED cloudVars
    BY <1>3 DEF FetchOidcToken
  <2>2. UNCHANGED Cloud!vars
    BY <2>1, ClockStands, SameLayers
  <2>3. forceNew[p] \in BOOLEAN
    BY DEF TypeOK
  <2> QED BY <2>1, <2>2, <2>3 DEF Oidc!Next
<1>4. ASSUME NEW p \in Proc, NoStsClient(p) \/ AssumeRoleFails(p) \/ OidcTokenRefused(p)
      PROVE  Cloud!Next /\ UNCHANGED Oidc!vars
  <2>1. Cloud!FetchFails(p, "error") /\ UNCHANGED oidcVars
    BY <1>4 DEF NoStsClient, AssumeRoleFails, OidcTokenRefused, SeenAbove
  <2>2. UNCHANGED Oidc!vars
    BY <2>1, ClockStands, SameLayers
  <2>3. Cloud!Fetch(p)
    BY <2>1 DEF Cloud!Fetch
  <2> QED BY <2>2, <2>3 DEF Cloud!Next
<1>5. ASSUME NEW p \in Proc, OidcStep(p)
      PROVE  UNCHANGED Cloud!vars /\ Oidc!Next
  BY <1>5, ClockStands, SameLayers DEF OidcStep, Oidc!Next
<1>6. ASSUME NEW p \in Proc, NEW c \in Cloud!Issued, AssumeRole(p, c)
      PROVE  Cloud!Next /\ UNCHANGED Oidc!vars
  <2>1. Cloud!FetchOk(p, c) /\ UNCHANGED oidcVars
    BY <1>6 DEF AssumeRole
  <2>2. UNCHANGED Oidc!vars
    BY <2>1, ClockStands, SameLayers
  <2>3. Cloud!Fetch(p)
    BY <2>1 DEF Cloud!Fetch
  <2> QED BY <2>2, <2>3 DEF Cloud!Next
<1>7. ASSUME NEW p \in Proc, Crash(p)
      PROVE  Cloud!Next /\ [Oidc!Next]_(Oidc!vars)
  <2>1. Cloud!Crash(p) /\ (UNCHANGED oidcVars \/ Oidc!Crash(p))
    BY <1>7 DEF Crash
  <2> QED BY <2>1, ClockStands, SameLayers DEF Cloud!Next, Oidc!Next
<1>8. CASE CleanCache
  <2>1. \/ Oidc!CleanCache /\ UNCHANGED cloudVars
        \/ Cloud!CleanCache /\ UNCHANGED oidcVars
    BY <1>8 DEF CleanCache
  <2>2. clock' = clock
    BY <2>1 DEF Oidc!CleanCache, Cloud!CleanCache
  <2> QED BY <2>1, <2>2, SameLayers DEF Cloud!Next, Oidc!Next
<1>9. CASE Tick
  <2>1. Cloud!Tick /\ UNCHANGED oidcVars
    BY <1>9 DEF Tick
  <2>2. Oidc!Tick
    BY <2>1 DEF Cloud!Tick, Oidc!Tick, oidcVars, Oidc!fileVars, Oidc!procVars
  <2> QED BY <2>1, <2>2 DEF Cloud!Next, Oidc!Next
<1>10. CASE UNCHANGED vars
  BY <1>10, SameLayers DEF vars
<1> QED
  BY <1>1, <1>2, <1>3, <1>4, <1>5, <1>6, <1>7, <1>8, <1>9, <1>10 DEF Next, Step

\* What is proved of a cache holds of each layer.
LEMMA CloudInvariance ==
  /\ Cloud!Init => Cloud!CallInv
  /\ Cloud!CallInv /\ [Cloud!Next]_(Cloud!vars) => Cloud!CallInv'
<1>1. CloudCache!CacheAssumption
  <2>1. CloudCache!Cred = Cloud!Cred
    BY DEF CloudCache!Cred, Cloud!Cred, CloudCache!Time, Cloud!Time
  <2> QED BY <2>1, CloudAssumption DEF CloudCache!CacheAssumption
<1>2. /\ CloudCache!Init => CloudCache!CallInv
      /\ CloudCache!CallInv /\ [CloudCache!Next]_(CloudCache!vars) => CloudCache!CallInv'
  BY <1>1, CloudCache!InitCallInv, CloudCache!StepCallInv
<1>3. Cloud!Init <=> CloudCache!Init
  BY DEF Cloud!Init, CloudCache!Init
<1>4. Cloud!CallInv <=> CloudCache!CallInv
  BY DEF Cloud!TypeOK, CloudCache!TypeOK, Cloud!Location, CloudCache!Location, Cloud!Idle,
         CloudCache!Idle, Cloud!Time, CloudCache!Time, Cloud!Cred, CloudCache!Cred,
         Cloud!NothingFromTheFuture, CloudCache!NothingFromTheFuture,
         Cloud!StoresWhatItFetched, CloudCache!StoresWhatItFetched, Cloud!ForcedHoldsFetched,
         CloudCache!ForcedHoldsFetched, Cloud!HoldsFetched, CloudCache!HoldsFetched,
         Cloud!ServesUnfetched, CloudCache!ServesUnfetched, Cloud!EmptyIsNoError,
         CloudCache!EmptyIsNoError, Cloud!CallInv, CloudCache!CallInv
<1>5. [Cloud!Next]_(Cloud!vars) <=> [CloudCache!Next]_(CloudCache!vars)
  BY DEF Cloud!Next, CloudCache!Next, Cloud!LocalStep, CloudCache!LocalStep, Cloud!Fetch,
         CloudCache!Fetch, Cloud!Issued, CloudCache!Issued, Cloud!Call, CloudCache!Call,
         Cloud!Read, CloudCache!Read, Cloud!Truncate, CloudCache!Truncate, Cloud!OpenFails,
         CloudCache!OpenFails, Cloud!WriteBytes, CloudCache!WriteBytes, Cloud!Serve,
         CloudCache!Serve, Cloud!FetchOk, CloudCache!FetchOk, Cloud!FetchFails,
         CloudCache!FetchFails, Cloud!Crash, CloudCache!Crash, Cloud!CleanCache,
         CloudCache!CleanCache, Cloud!Tick, CloudCache!Tick, Cloud!Goto, CloudCache!Goto,
         Cloud!IsExpired, CloudCache!IsExpired, Cloud!IsExpiringOrExpired,
         CloudCache!IsExpiringOrExpired, Cloud!RunsOut, CloudCache!RunsOut, Cloud!Decode,
         CloudCache!Decode, Cloud!OpenTruncate, CloudCache!OpenTruncate, Cloud!WriteOpen,
         CloudCache!WriteOpen, Cloud!Abandon, CloudCache!Abandon, Cloud!Remove,
         CloudCache!Remove, Cloud!procVars, CloudCache!procVars, Cloud!fileVars,
         CloudCache!fileVars, Cloud!vars, CloudCache!vars, Cloud!Idle, CloudCache!Idle,
         Cloud!Time, CloudCache!Time
<1>6. Cloud!CallInv' <=> CloudCache!CallInv'
  BY <1>4, PTL
<1> QED
  BY <1>2, <1>3, <1>4, <1>5, <1>6

\* The same of the lower layer.
LEMMA OidcInvariance ==
  /\ Oidc!Init => Oidc!CallInv
  /\ Oidc!CallInv /\ [Oidc!Next]_(Oidc!vars) => Oidc!CallInv'
<1>1. OidcCache!CacheAssumption
  <2>1. OidcCache!Cred = Oidc!Cred
    BY DEF OidcCache!Cred, Oidc!Cred, OidcCache!Time, Oidc!Time
  <2> QED BY <2>1, CloudAssumption DEF OidcCache!CacheAssumption
<1>2. /\ OidcCache!Init => OidcCache!CallInv
      /\ OidcCache!CallInv /\ [OidcCache!Next]_(OidcCache!vars) => OidcCache!CallInv'
  BY <1>1, OidcCache!InitCallInv, OidcCache!StepCallInv
<1>3. Oidc!Init <=> OidcCache!Init
  BY DEF Oidc!Init, OidcCache!Init
<1>4. Oidc!CallInv <=> OidcCache!CallInv
  BY DEF Oidc!TypeOK, OidcCache!TypeOK, Oidc!Location, OidcCache!Location, Oidc!Idle,
         OidcCache!Idle, Oidc!Time, OidcCache!Time, Oidc!Cred, OidcCache!Cred,
         Oidc!NothingFromTheFuture, OidcCache!NothingFromTheFuture, Oidc!StoresWhatItFetched,
         OidcCache!StoresWhatItFetched, Oidc!ForcedHoldsFetched,
         OidcCache!ForcedHoldsFetched, Oidc!HoldsFetched, OidcCache!HoldsFetched,
         Oidc!ServesUnfetched, OidcCache!ServesUnfetched, Oidc!EmptyIsNoError,
         OidcCache!EmptyIsNoError, Oidc!CallInv, OidcCache!CallInv
<1>5. [Oidc!Next]_(Oidc!vars) <=> [OidcCache!Next]_(OidcCache!vars)
  BY DEF Oidc!Next, OidcCache!Next, Oidc!LocalStep, OidcCache!LocalStep, Oidc!Fetch,
         OidcCache!Fetch, Oidc!Issued, OidcCache!Issued, Oidc!Call, OidcCache!Call,
         Oidc!Read, OidcCache!Read, Oidc!Truncate, OidcCache!Truncate, Oidc!OpenFails,
         OidcCache!OpenFails, Oidc!WriteBytes, OidcCache!WriteBytes, Oidc!Serve,
         OidcCache!Serve, Oidc!FetchOk, OidcCache!FetchOk, Oidc!FetchFails,
         OidcCache!FetchFails, Oidc!Crash, OidcCache!Crash, Oidc!CleanCache,
         OidcCache!CleanCache, Oidc!Tick, OidcCache!Tick, Oidc!Goto, OidcCache!Goto,
         Oidc!IsExpired, OidcCache!IsExpired, Oidc!IsExpiringOrExpired,
         OidcCache!IsExpiringOrExpired, Oidc!RunsOut, OidcCache!RunsOut, Oidc!Decode,
         OidcCache!Decode, Oidc!OpenTruncate, OidcCache!OpenTruncate, Oidc!WriteOpen,
         OidcCache!WriteOpen, Oidc!Abandon, OidcCache!Abandon, Oidc!Remove, OidcCache!Remove,
         Oidc!procVars, OidcCache!procVars, Oidc!fileVars, OidcCache!fileVars, Oidc!vars,
         OidcCache!vars, Oidc!Idle, OidcCache!Idle, Oidc!Time, OidcCache!Time
<1>6. Oidc!CallInv' <=> OidcCache!CallInv'
  BY <1>4, PTL
<1> QED
  BY <1>2, <1>3, <1>4, <1>5, <1>6

-----------------------------------------------------------------------------
(* The coupling of the layers.                                             *)

\* The cloud token in hand was paid with the OIDC token in hand.
PaidFor(p) ==
  /\ asked[p] /\ oidcPc[p] = "answered"
  /\ oidcHeld[p] # Nothing /\ oidcHeld[p].at <= cloudHeld[p].at

\* The OIDC layer works for the fetch of the cloud layer of the same process;
\* each layer has the flag it is meant to have; and from the payment on
\* nothing touches the two tokens.  A denial is never seen as such above.
Coupled(p) ==
  /\ oidcPc[p] \notin Oidc!Idle => cloudPc[p] = "fetch" /\ asked[p]
  /\ forceNew[p] => cloudForce[p]
  /\ asked[p] => oidcBegan[p] >= cloudBegan[p] /\ oidcForce[p] = forceNew[p]
  /\ cloudOutcome[p] = "ok" => cloudPc[p] \in {"truncate", "write", "answered"} /\ PaidFor(p)
  /\ cloudOutcome[p] # "denied"

CloudInv ==
  /\ Cloud!CallInv /\ Oidc!CallInv
  /\ forceNew \in [Proc -> BOOLEAN] /\ asked \in [Proc -> BOOLEAN]
  /\ \A p \in Proc : Coupled(p)

LEMMA InitCloudInv == Init => CloudInv
<1> SUFFICES ASSUME Init PROVE CloudInv
  OBVIOUS
<1>1. Cloud!CallInv /\ Oidc!CallInv
  BY CloudInvariance, OidcInvariance DEF Init
<1>2. \A p \in Proc : Coupled(p)
  BY DEF Init, Cloud!Init, Oidc!Init, Coupled, Oidc!Idle
<1> QED BY <1>1, <1>2 DEF Init, CloudInv

\* What the couplings of the processes rest on.
LEMMA Types ==
  ASSUME CloudInv
  PROVE  /\ TypeOK
         /\ \A p \in Proc : /\ cloudBegan[p] \in Int /\ cloudBegan[p] <= clock /\ clock \in Int
                            /\ oidcHeld[p] # Nothing => oidcHeld[p].at \in Int /\ oidcHeld[p].at <= clock
         /\ cloudPc \in [Proc -> Cloud!Location] /\ oidcPc \in [Proc -> Oidc!Location]
         /\ cloudForce \in [Proc -> BOOLEAN] /\ oidcForce \in [Proc -> BOOLEAN]
         /\ DOMAIN cloudBegan = Proc /\ DOMAIN oidcBegan = Proc
         /\ DOMAIN cloudOutcome = Proc /\ DOMAIN oidcOutcome = Proc
         /\ DOMAIN cloudHeld = Proc /\ DOMAIN oidcHeld = Proc
<1>1. Cloud!TypeOK /\ Oidc!TypeOK
  BY DEF CloudInv, Cloud!CallInv, Oidc!CallInv
<1>2. TypeOK
  BY <1>1 DEF CloudInv, Coupled, TypeOK
<1>3. Cloud!Time \subseteq Int /\ Oidc!Time \subseteq Int
  BY CloudAssumption DEF Cloud!Time, Oidc!Time
<1>4. \A c \in Oidc!Cred : c.at \in Int
  <2>1. \A c \in Oidc!Cred : c.at \in Oidc!Time
    BY DEF Oidc!Cred
  <2> QED BY <1>3, <2>1
<1>5. ASSUME NEW p \in Proc
      PROVE  /\ cloudBegan[p] \in Int /\ cloudBegan[p] <= clock /\ clock \in Int
             /\ oidcHeld[p] # Nothing => oidcHeld[p].at \in Int /\ oidcHeld[p].at <= clock
  BY <1>1, <1>3, <1>4
     DEF CloudInv, Cloud!CallInv, Oidc!CallInv, Cloud!TypeOK, Oidc!TypeOK,
         Cloud!NothingFromTheFuture, Oidc!NothingFromTheFuture
<1>6. /\ cloudPc \in [Proc -> Cloud!Location] /\ oidcPc \in [Proc -> Oidc!Location]
      /\ cloudForce \in [Proc -> BOOLEAN] /\ oidcForce \in [Proc -> BOOLEAN]
      /\ DOMAIN cloudBegan = Proc /\ DOMAIN oidcBegan = Proc
      /\ DOMAIN cloudOutcome = Proc /\ DOMAIN oidcOutcome = Proc
      /\ DOMAIN cloudHeld = Proc /\ DOMAIN oidcHeld = Proc
  BY <1>1 DEF Cloud!TypeOK, Oidc!TypeOK
<1> QED BY <1>2, <1>5, <1>6

\* Nothing of the process has changed, but for the files.
Same(p) ==
  /\ cloudPc'[p] = cloudPc[p] /\ oidcPc'[p] = oidcPc[p]
  /\ cloudForce'[p] = cloudForce[p] /\ oidcForce'[p] = oidcForce[p]
  /\ cloudBegan'[p] = cloudBegan[p] /\ oidcBegan'[p] = oidcBegan[p]
  /\ cloudOutcome'[p] = cloudOutcome[p]
  /\ cloudHeld'[p] = cloudHeld[p] /\ oidcHeld'[p] = oidcHeld[p]
  /\ forceNew'[p] = forceNew[p] /\ asked'[p] = asked[p]

LEMMA SameIsCoupled ==
  ASSUME NEW p \in Proc, Coupled(p), Same(p)
  PROVE  Coupled(p)'
BY DEF Coupled, PaidFor, Same

LEMMA StepCoupled ==
  ASSUME CloudInv, [Next]_vars
  PROVE  \A q \in Proc : Coupled(q)'
<1> USE Types
<1>0. \A q \in Proc : Coupled(q)
  BY DEF CloudInv
<1>1. ASSUME NEW p \in Proc, NEW force \in BOOLEAN, NEW cloudOnly \in BOOLEAN,
             FetchCloudSts(p, force, cloudOnly)
      PROVE  \A q \in Proc : Coupled(q)'
  <2> USE <1>1 DEF FetchCloudSts, Cloud!Call, Cloud!Goto, Cloud!fileVars, oidcVars
  <2>1. ASSUME NEW q \in Proc, q # p PROVE Coupled(q)'
    <3>1. Same(q)
      BY <2>1 DEF Same, TypeOK
    <3> QED BY <1>0, <3>1, SameIsCoupled
  <2>2. Coupled(p)'
    <3>1. /\ cloudPc'[p] = "read" /\ cloudForce'[p] = (force \/ cloudOnly)
          /\ forceNew'[p] = force /\ asked'[p] = FALSE /\ cloudOutcome'[p] = "untried"
          /\ oidcPc' = oidcPc
      BY DEF TypeOK
    <3>2. oidcPc[p] \in Oidc!Idle
      BY <1>0 DEF Coupled, Cloud!Idle
    <3> QED BY <3>1, <3>2 DEF Coupled
  <2> QED BY <2>1, <2>2
<1>2. ASSUME NEW p \in Proc, CloudStep(p)
      PROVE  \A q \in Proc : Coupled(q)'
  <2>1. /\ Cloud!LocalStep(p) /\ UNCHANGED <<oidcVars, forceNew, asked>>
    BY <1>2 DEF CloudStep
  <2>2. ASSUME NEW q \in Proc, q # p PROVE Coupled(q)'
    <3>1. Same(q)
      BY <2>1, <2>2 DEF Same, oidcVars, Cloud!LocalStep, Cloud!Read, Cloud!Truncate, Cloud!OpenFails,
                        Cloud!WriteBytes, Cloud!Serve, Cloud!Goto
    <3> QED BY <1>0, <3>1, SameIsCoupled
  <2>3. Coupled(p)'
    <3>1. /\ cloudPc[p] # "fetch"
          /\ cloudForce' = cloudForce /\ cloudBegan' = cloudBegan /\ cloudOutcome' = cloudOutcome
          /\ cloudPc[p] \in {"truncate", "write"} =>
               cloudPc'[p] \in {"write", "answered"} /\ cloudHeld' = cloudHeld
          /\ cloudPc[p] # "answered"
      BY <2>1 DEF Cloud!LocalStep, Cloud!Read, Cloud!Truncate, Cloud!OpenFails,
                  Cloud!WriteBytes, Cloud!Serve, Cloud!Goto
    <3> QED BY <1>0, <2>1, <3>1 DEF Coupled, PaidFor, oidcVars
  <2> QED BY <2>2, <2>3
<1>3. ASSUME NEW p \in Proc, FetchOidcToken(p)
      PROVE  \A q \in Proc : Coupled(q)'
  <2>1. /\ cloudPc[p] = "fetch" /\ Oidc!Call(p, forceNew[p])
        /\ asked' = [asked EXCEPT ![p] = TRUE] /\ UNCHANGED <<cloudVars, forceNew>>
    BY <1>3 DEF FetchOidcToken
  <2>2. ASSUME NEW q \in Proc, q # p PROVE Coupled(q)'
    <3>1. Same(q)
      BY <2>1, <2>2 DEF Same, cloudVars, Oidc!Call, Oidc!Goto, TypeOK
    <3> QED BY <1>0, <3>1, SameIsCoupled
  <2>3. Coupled(p)'
    <3>1. /\ oidcBegan'[p] = clock /\ oidcForce'[p] = forceNew[p] /\ asked'[p]
      BY <2>1 DEF Oidc!Call, TypeOK
    <3> QED BY <1>0, <2>1, <3>1 DEF Coupled, cloudVars
  <2> QED BY <2>2, <2>3
<1>4. ASSUME NEW p \in Proc, NoStsClient(p) \/ AssumeRoleFails(p) \/ OidcTokenRefused(p)
      PROVE  \A q \in Proc : Coupled(q)'
  <2>1. /\ Cloud!FetchFails(p, "error") /\ UNCHANGED <<oidcVars, forceNew, asked>>
        /\ ~asked[p] \/ oidcPc[p] \in {"answered", "refused"}
    BY <1>4 DEF NoStsClient, AssumeRoleFails, OidcTokenRefused, SeenAbove
  <2>2. ASSUME NEW q \in Proc, q # p PROVE Coupled(q)'
    <3>1. Same(q)
      BY <2>1, <2>2 DEF Same, oidcVars, Cloud!FetchFails, Cloud!Goto, Cloud!fileVars
    <3> QED BY <1>0, <3>1, SameIsCoupled
  <2>3. Coupled(p)'
    <3>1. oidcPc[p] \in Oidc!Idle
      BY <1>0, <2>1 DEF Coupled, Oidc!Idle
    <3>2. cloudOutcome'[p] = "error" /\ cloudForce' = cloudForce /\ cloudBegan' = cloudBegan
      BY <2>1 DEF Cloud!FetchFails
    <3> QED BY <1>0, <2>1, <3>1, <3>2 DEF Coupled, oidcVars
  <2> QED BY <2>2, <2>3
<1>5. ASSUME NEW p \in Proc, OidcStep(p)
      PROVE  \A q \in Proc : Coupled(q)'
  <2>1. /\ Oidc!LocalStep(p) \/ Oidc!Fetch(p)
        /\ UNCHANGED <<cloudVars, forceNew, asked>>
    BY <1>5 DEF OidcStep
  <2>2. /\ \A q \in Proc \ {p} : oidcPc'[q] = oidcPc[q] /\ oidcHeld'[q] = oidcHeld[q]
        /\ oidcForce' = oidcForce /\ oidcBegan' = oidcBegan
        /\ oidcPc[p] \notin Oidc!Idle
    BY <2>1 DEF Oidc!LocalStep, Oidc!Fetch, Oidc!Read, Oidc!Truncate, Oidc!OpenFails,
                Oidc!WriteBytes, Oidc!Serve, Oidc!FetchOk, Oidc!FetchFails, Oidc!Goto, Oidc!Idle
  <2>3. ASSUME NEW q \in Proc, q # p PROVE Coupled(q)'
    <3>1. Same(q)
      BY <2>1, <2>2, <2>3 DEF Same, cloudVars
    <3> QED BY <1>0, <3>1, SameIsCoupled
  <2>4. Coupled(p)'
    <3>1. cloudPc[p] = "fetch" /\ asked[p] /\ cloudOutcome[p] # "ok"
      BY <1>0, <2>2 DEF Coupled
    <3> QED BY <1>0, <2>1, <2>2, <3>1 DEF Coupled, cloudVars
  <2> QED BY <2>3, <2>4
<1>6. ASSUME NEW p \in Proc, NEW c \in Cloud!Issued, AssumeRole(p, c)
      PROVE  \A q \in Proc : Coupled(q)'
  <2>1. /\ asked[p] /\ oidcPc[p] = "answered" /\ oidcHeld[p] # Nothing
        /\ Cloud!FetchOk(p, c) /\ UNCHANGED <<oidcVars, forceNew, asked>>
    BY <1>6 DEF AssumeRole
  <2>2. ASSUME NEW q \in Proc, q # p PROVE Coupled(q)'
    <3>1. Same(q)
      BY <2>1, <2>2 DEF Same, oidcVars, Cloud!FetchOk, Cloud!Goto, Cloud!fileVars
    <3> QED BY <1>0, <3>1, SameIsCoupled
  <2>3. Coupled(p)'
    <3>1. c.at = clock
      BY DEF Cloud!Issued
    <3>2. /\ cloudPc'[p] = "truncate" /\ cloudHeld'[p] = c /\ cloudForce' = cloudForce
          /\ cloudBegan' = cloudBegan /\ cloudOutcome'[p] = "ok"
      BY <2>1 DEF Cloud!FetchOk, Cloud!Goto
    <3>3. PaidFor(p)'
      BY <2>1, <3>1, <3>2 DEF PaidFor, oidcVars
    <3>4. oidcPc'[p] \in Oidc!Idle
      BY <2>1 DEF oidcVars, Oidc!Idle
    <3> QED BY <1>0, <2>1, <3>2, <3>3, <3>4 DEF Coupled, oidcVars
  <2> QED BY <2>2, <2>3
<1>7. ASSUME NEW p \in Proc, Crash(p)
      PROVE  \A q \in Proc : Coupled(q)'
  <2>1. /\ Cloud!Crash(p) /\ UNCHANGED <<forceNew, asked>>
        /\ \/ oidcPc[p] \in Oidc!Idle /\ UNCHANGED oidcVars
           \/ Oidc!Crash(p)
    BY <1>7 DEF Crash
  <2>2. /\ \A q \in Proc \ {p} : oidcPc'[q] = oidcPc[q] /\ oidcHeld'[q] = oidcHeld[q]
        /\ oidcForce' = oidcForce /\ oidcBegan' = oidcBegan
        /\ oidcPc'[p] \in Oidc!Idle
    BY <2>1 DEF oidcVars, Oidc!Crash, Oidc!Goto, Oidc!Idle
  <2>3. ASSUME NEW q \in Proc, q # p PROVE Coupled(q)'
    <3>1. Same(q)
      BY <2>1, <2>2, <2>3 DEF Same, Cloud!Crash, Cloud!Goto
    <3> QED BY <1>0, <3>1, SameIsCoupled
  <2>4. Coupled(p)'
    <3>1. cloudOutcome'[p] = "untried" /\ cloudForce' = cloudForce /\ cloudBegan' = cloudBegan
      BY <2>1 DEF Cloud!Crash
    <3> QED BY <1>0, <2>1, <2>2, <3>1 DEF Coupled
  <2> QED BY <2>3, <2>4
<1>8. ASSUME CleanCache \/ Tick \/ UNCHANGED vars
      PROVE  \A q \in Proc : Coupled(q)'
  <2>1. ASSUME NEW q \in Proc PROVE Same(q)
    BY <1>8 DEF CleanCache, Tick, vars, Same, Cloud!CleanCache, Cloud!Tick, Oidc!CleanCache,
                cloudVars, oidcVars, Cloud!procVars, Oidc!procVars
  <2> QED BY <1>0, <2>1, SameIsCoupled
<1> QED
  BY <1>1, <1>2, <1>3, <1>4, <1>5, <1>6, <1>7, <1>8 DEF Next, Step

LEMMA StepCloudInv == CloudInv /\ [Next]_vars => CloudInv'
<1> SUFFICES ASSUME CloudInv, [Next]_vars
             PROVE  CloudInv'
  OBVIOUS
<1>1. [Cloud!Next]_(Cloud!vars) /\ [Oidc!Next]_(Oidc!vars)
  BY Types, StepsOfLayers
<1>2. Cloud!CallInv' /\ Oidc!CallInv'
  BY <1>1, CloudInvariance, OidcInvariance DEF CloudInv
<1>3. \A p \in Proc : Coupled(p)'
  BY StepCoupled
<1>4. forceNew' \in [Proc -> BOOLEAN] /\ asked' \in [Proc -> BOOLEAN]
  BY DEF CloudInv, Next, Step, FetchCloudSts, CloudStep, FetchOidcToken, NoStsClient, OidcStep,
         AssumeRole, AssumeRoleFails, OidcTokenRefused, Crash, CleanCache, Tick, vars
<1> QED BY <1>2, <1>3, <1>4 DEF CloudInv

-----------------------------------------------------------------------------
(* The theorems.                                                           *)

\* The inductive invariant of the two layers and their coupling.
THEOREM CloudInvariant == Spec => []CloudInv
BY InitCloudInv, StepCloudInv, PTL DEF Spec

\* Every state is well typed, and the OIDC layer is at work only while the
\* cloud layer of the same process fetches (alibaba_cloud_sts_fetch.go:105).
THEOREM CloudTypes == Spec => []TypeOK
<1>1. CloudInv => TypeOK
  BY Types
<1> QED BY <1>1, CloudInvariant, PTL

\* With ForceNew both the cloud token and the OIDC token behind it are of
\* this call, whatever either file holds (alibaba_cloud_sts_fetch.go:58-63).
THEOREM ForceNewReachesBothCaches == Spec => []ForceNewIgnoresAllCaches
<1>1. CloudInv => ForceNewIgnoresAllCaches
  <2> SUFFICES ASSUME CloudInv, NEW p \in Proc, cloudPc[p] = "answered", forceNew[p]
               PROVE  /\ cloudHeld[p] # Nothing /\ cloudHeld[p].at >= cloudBegan[p]
                      /\ oidcHeld[p] # Nothing /\ oidcHeld[p].at >= cloudBegan[p]
    BY DEF ForceNewIgnoresAllCaches
  <2>1. cloudForce[p] /\ Cloud!HoldsFetched(p)
    BY DEF CloudInv, Coupled, Cloud!CallInv, Cloud!ForcedHoldsFetched
  <2>2. PaidFor(p) /\ oidcBegan[p] >= cloudBegan[p] /\ oidcForce[p]
    BY <2>1 DEF CloudInv, Coupled, Cloud!HoldsFetched, PaidFor
  <2>3. oidcHeld[p].at >= oidcBegan[p]
    BY <2>2 DEF PaidFor, CloudInv, Oidc!CallInv, Oidc!ForcedHoldsFetched, Oidc!HoldsFetched
  <2>4. cloudBegan[p] \in Int /\ oidcBegan[p] \in Int /\ oidcHeld[p].at \in Int
    <3>1. oidcBegan[p] \in Oidc!Time
      BY DEF CloudInv, Oidc!CallInv, Oidc!TypeOK
    <3>2. oidcBegan[p] \in Int
      BY <3>1, CloudAssumption DEF Oidc!Time
    <3> QED BY <2>2, <3>2, Types DEF PaidFor
  <2>5. oidcHeld[p].at >= cloudBegan[p]
    BY <2>2, <2>3, <2>4
  <2>6. cloudHeld[p] # Nothing /\ cloudHeld[p].at >= cloudBegan[p]
    BY <2>1, CloudAssumption DEF Cloud!HoldsFetched
  <2> QED BY <2>2, <2>5, <2>6 DEF PaidFor
<1> QED BY <1>1, CloudInvariant, PTL

\* A cloud token is paid with an OIDC token that was asked for in the same
\* call, and that is no younger than it (alibaba_cloud_sts_fetch.go:105-110).
THEOREM PaidByTheCall == Spec => []PaidWithItsOwnToken
<1>1. CloudInv => PaidWithItsOwnToken
  BY DEF CloudInv, Coupled, PaidFor, PaidWithItsOwnToken
<1> QED BY <1>1, CloudInvariant, PTL

\* Without ForceNew the identity provider is asked only when the OIDC token
\* on file is expiring: ForceNewCloudToken stays in the upper cache.
THEOREM LowerCacheUsed == Spec => LowerCacheEnabled
<1> DEFINE AskedInNeed ==
      \A p \in Proc :
        oidcPc[p] = "read" /\ oidcPc'[p] = "fetch" =>
          forceNew[p] \/ Oidc!IsExpiringOrExpired(Oidc!Decode(oidcFile), clock)
<1>1. CloudInv /\ [Next]_vars => AskedInNeed
  <2> SUFFICES ASSUME CloudInv, [Next]_vars, NEW p \in Proc,
                      oidcPc[p] = "read", oidcPc'[p] = "fetch"
               PROVE  forceNew[p] \/ Oidc!IsExpiringOrExpired(Oidc!Decode(oidcFile), clock)
    OBVIOUS
  <2>1. [Oidc!Next]_(Oidc!vars)
    BY Types, StepsOfLayers
  <2>2. Oidc!Read(p)
    <3>1. ASSUME NEW q \in Proc, q # p,
                 \/ \E force \in BOOLEAN : Oidc!Call(q, force)
                 \/ Oidc!LocalStep(q) \/ Oidc!Fetch(q) \/ Oidc!Crash(q)
          PROVE  FALSE
      BY <3>1, Types DEF Oidc!Call, Oidc!LocalStep, Oidc!Fetch, Oidc!Crash, Oidc!Goto, Oidc!Read,
                  Oidc!Truncate, Oidc!OpenFails, Oidc!WriteBytes, Oidc!Serve, Oidc!FetchOk,
                  Oidc!FetchFails
    <3>2. ASSUME \/ \E force \in BOOLEAN : Oidc!Call(p, force)
                 \/ Oidc!LocalStep(p) \/ Oidc!Fetch(p) \/ Oidc!Crash(p)
          PROVE  Oidc!Read(p)
      BY <3>2, Types DEF Oidc!Call, Oidc!LocalStep, Oidc!Fetch, Oidc!Crash, Oidc!Goto,
                  Oidc!Truncate, Oidc!OpenFails, Oidc!WriteBytes, Oidc!Serve, Oidc!FetchOk,
                  Oidc!FetchFails, Oidc!Idle
    <3>3. ~(Oidc!CleanCache \/ Oidc!Tick \/ UNCHANGED Oidc!vars)
      BY DEF Oidc!CleanCache, Oidc!Tick, Oidc!vars, Oidc!procVars
    <3> QED BY <2>1, <3>1, <3>2, <3>3 DEF Oidc!Next
  <2>3. oidcForce[p] \/ Oidc!IsExpiringOrExpired(Oidc!Decode(oidcFile), clock)
    BY <2>2, Types DEF Oidc!Read, Oidc!Goto
  <2>4. oidcForce[p] = forceNew[p]
    BY DEF CloudInv, Coupled, Oidc!Idle
  <2> QED BY <2>3, <2>4
<1>2. CloudInv /\ [Next]_vars => [AskedInNeed]_vars
  BY <1>1
<1>3. Spec => [][AskedInNeed]_vars
  BY <1>2, CloudInvariant, PTL DEF Spec
<1> QED BY <1>3 DEF LowerCacheEnabled

\* Nothing a failure leads to is an empty success, in either layer: only a
\* call that fetched nothing can end so (storage.go:136, 174, 185).
THEOREM NoFailureIsEmpty == Spec => []NoEmptySuccess
<1>1. CloudInv => NoEmptySuccess
  <2> SUFFICES ASSUME CloudInv
               PROVE  NoEmptySuccess
    OBVIOUS
  <2>1. /\ cloudOutcome \in [Proc -> {"untried", "ok", "error", "denied"}]
        /\ oidcOutcome \in [Proc -> {"untried", "ok", "error", "denied"}]
    BY DEF CloudInv, Cloud!CallInv, Oidc!CallInv, Cloud!TypeOK, Oidc!TypeOK
  <2> QED BY <2>1 DEF CloudInv, Cloud!CallInv, Oidc!CallInv, Cloud!EmptyIsNoError,
                      Oidc!EmptyIsNoError, NoEmptySuccess
<1> QED BY <1>1, CloudInvariant, PTL

\* While the cloud token on file is good, an outage of the provider or of the
\* cloud refuses nobody who has not asked for a new one (storage.go:164-185).
THEOREM OutageBridged == Spec => OutageIsBridged
<1> DEFINE Bridged ==
      \A p \in Proc :
        cloudPc[p] = "serve" /\ cloudPc'[p] = "refused" =>
          \/ cloudForce[p]
          \/ asked[p] /\ oidcOutcome[p] = "denied"
          \/ cloudHeld[p] = Nothing
          \/ Cloud!IsExpired(cloudHeld[p], clock)
<1>1. CloudInv /\ [Next]_vars => Bridged
  <2> SUFFICES ASSUME CloudInv, [Next]_vars, NEW p \in Proc,
                      cloudPc[p] = "serve", cloudPc'[p] = "refused"
               PROVE  \/ cloudForce[p] \/ cloudHeld[p] = Nothing
                      \/ Cloud!IsExpired(cloudHeld[p], clock)
    OBVIOUS
  <2>1. [Cloud!Next]_(Cloud!vars)
    BY Types, StepsOfLayers
  <2>2. Cloud!Serve(p)
    <3>1. ASSUME NEW q \in Proc, q # p,
                 \/ \E force \in BOOLEAN : Cloud!Call(q, force)
                 \/ Cloud!LocalStep(q) \/ Cloud!Fetch(q) \/ Cloud!Crash(q)
          PROVE  FALSE
      BY <3>1, Types DEF Cloud!Call, Cloud!LocalStep, Cloud!Fetch, Cloud!Crash, Cloud!Goto,
                  Cloud!Read, Cloud!Truncate, Cloud!OpenFails, Cloud!WriteBytes, Cloud!Serve,
                  Cloud!FetchOk, Cloud!FetchFails
    <3>2. ASSUME \/ \E force \in BOOLEAN : Cloud!Call(p, force)
                 \/ Cloud!LocalStep(p) \/ Cloud!Fetch(p) \/ Cloud!Crash(p)
          PROVE  Cloud!Serve(p)
      BY <3>2, Types DEF Cloud!Call, Cloud!LocalStep, Cloud!Fetch, Cloud!Crash, Cloud!Goto,
                  Cloud!Read, Cloud!Truncate, Cloud!OpenFails, Cloud!WriteBytes,
                  Cloud!FetchOk, Cloud!FetchFails, Cloud!Idle
    <3>3. ~(Cloud!CleanCache \/ Cloud!Tick \/ UNCHANGED Cloud!vars)
      BY DEF Cloud!CleanCache, Cloud!Tick, Cloud!vars, Cloud!procVars
    <3> QED BY <2>1, <3>1, <3>2, <3>3 DEF Cloud!Next
  <2>3. cloudOutcome[p] # "denied"
    BY DEF CloudInv, Coupled
  <2> QED BY <2>2, <2>3, Types DEF Cloud!Serve, Cloud!Goto
<1>2. CloudInv /\ [Next]_vars => [Bridged]_vars
  BY <1>1
<1>3. Spec => [][Bridged]_vars
  BY <1>2, CloudInvariant, PTL DEF Spec
<1> QED BY <1>3 DEF OutageIsBridged
=============================================================================
