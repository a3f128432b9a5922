----------------------------- MODULE CloudToken -----------------------------
(***************************************************************************)
(* FetchCloudSts for a profile whose cloud token is bought with an OIDC    *)
(* token (Alibaba Cloud STS, AWS STS, cloud account): the cache of         *)
(* category cloud_token, whose FetchContent calls the cache of category    *)
(* oidc_token, whose FetchContent asks the identity provider.  Each layer  *)
(* is a ReadThroughCache; this module composes them, two calls deep per    *)
(* process, over one clock.                                                *)
(***************************************************************************)
EXTENDS Integers

CONSTANTS
  Proc, MaxTime, Nothing, Torn,
  StsLifetime, StsExpiring, StsExpired,    \* the cloud_token layer
  OidcLifetime, OidcExpiring, OidcExpired  \* the oidc_token layer

VARIABLES
  clock,
  cloudFile, cloudLinked, cloudPc, cloudForce, cloudBegan, cloudOutcome, cloudHeld,
  oidcFile, oidcLinked, oidcPc, oidcForce, oidcBegan, oidcOutcome, oidcHeld,
  forceNew,  \* FetchCloudStsOptions.ForceNew of the call
  asked      \* the OIDC token has been asked for in this call

cloudVars == <<cloudFile, cloudLinked, cloudPc, cloudForce, cloudBegan,
               cloudOutcome, cloudHeld>>
oidcVars == <<oidcFile, oidcLinked, oidcPc, oidcForce, oidcBegan,
              oidcOutcome, oidcHeld>>
vars == <<clock, cloudVars, oidcVars, forceNew, asked>>

Cloud == INSTANCE ReadThroughCache WITH
  Lifetime <- StsLifetime, ExpiringMargin <- StsExpiring, ExpiredMargin <- StsExpired,
  AllowExpired <- FALSE, FetchError <- {"error", "denied"},
  file <- cloudFile, linked <- cloudLinked, pc <- cloudPc, forceNew <- cloudForce,
  began <- cloudBegan, outcome <- cloudOutcome, held <- cloudHeld

Oidc == INSTANCE ReadThroughCache WITH
  Lifetime <- OidcLifetime, ExpiringMargin <- OidcExpiring, ExpiredMargin <- OidcExpired,
  AllowExpired <- FALSE, FetchError <- {"error", "denied"},
  file <- oidcFile, linked <- oidcLinked, pc <- oidcPc, forceNew <- oidcForce,
  began <- oidcBegan, outcome <- oidcOutcome, held <- oidcHeld

ASSUME CloudAssumption ==
  /\ MaxTime \in Nat
  /\ StsLifetime \subseteq Int /\ OidcLifetime \subseteq Int
  /\ StsExpiring \in Int /\ StsExpired \in Int /\ StsExpired <= StsExpiring
  /\ OidcExpiring \in Int /\ OidcExpired \in Int /\ OidcExpired <= OidcExpiring
  /\ Nothing \notin Cloud!Cred \cup Oidc!Cred
  /\ Torn \notin Cloud!Cred \cup Oidc!Cred
  /\ Nothing # Torn

\* The OIDC layer is at work only while the cloud layer fetches.
TypeOK ==
  /\ Cloud!TypeOK
  /\ Oidc!TypeOK
  /\ forceNew \in [Proc -> BOOLEAN]
  /\ asked \in [Proc -> BOOLEAN]
  /\ \A p \in Proc : oidcPc[p] \notin Oidc!Idle => cloudPc[p] = "fetch" /\ asked[p]

-----------------------------------------------------------------------------
Init ==
  /\ Cloud!Init
  /\ Oidc!Init
  /\ forceNew = [p \in Proc |-> FALSE]
  /\ asked = [p \in Proc |-> FALSE]

\* FetchCloudSts is called; force is ForceNew, cloudOnly is ForceNewCloudToken.
FetchCloudSts(p, force, cloudOnly) ==
  /\ Cloud!Call(p, force \/ cloudOnly)
  /\ forceNew' = [forceNew EXCEPT ![p] = force]
  /\ asked' = [asked EXCEPT ![p] = FALSE]
  /\ UNCHANGED oidcVars

CloudStep(p) ==
  /\ Cloud!LocalStep(p)
  /\ UNCHANGED <<oidcVars, forceNew, asked>>

\* Slips: ForceNew is not passed on; the flag that was passed down is the
\* cloud layer's.
FetchOidcTokenCached(p) ==
  /\ cloudPc[p] = "fetch"
  /\ ~asked[p]
  /\ Oidc!Call(p, FALSE)
  /\ asked' = [asked EXCEPT ![p] = TRUE]
  /\ UNCHANGED <<cloudVars, forceNew>>

FetchOidcTokenForced(p) ==
  /\ cloudPc[p] = "fetch"
  /\ ~asked[p]
  /\ Oidc!Call(p, cloudForce[p])
  /\ asked' = [asked EXCEPT ![p] = TRUE]
  /\ UNCHANGED <<cloudVars, forceNew>>

\* fetchContent of the cloud layer calls idp.FetchOidcToken ...
FetchOidcToken(p) ==
  /\ cloudPc[p] = "fetch"
  /\ ~asked[p]
  /\ Oidc!Call(p, forceNew[p])
  /\ asked' = [asked EXCEPT ![p] = TRUE]
  /\ UNCHANGED <<cloudVars, forceNew>>

\* ... after it has made a client for the token service, which may fail.
NoStsClient(p) ==
  /\ ~asked[p]
  /\ Cloud!FetchFails(p, "error")
  /\ UNCHANGED <<oidcVars, forceNew, asked>>

OidcStep(p) ==
  /\ Oidc!LocalStep(p) \/ Oidc!Fetch(p)
  /\ UNCHANGED <<cloudVars, forceNew, asked>>

\* A slip: an OIDC token still in memory from an earlier call is used.
AssumeRoleWithLeftOver(p, c) ==
  /\ oidcPc[p] = "answered"
  /\ oidcHeld[p] # Nothing /\ oidcHeld[p].exp > clock
  /\ Cloud!FetchOk(p, c)
  /\ UNCHANGED <<oidcVars, forceNew, asked>>

\* The service accepts an OIDC token that has not run out.
AssumeRole(p, c) ==
  /\ asked[p] /\ oidcPc[p] = "answered"
  /\ oidcHeld[p] # Nothing /\ oidcHeld[p].exp > clock
  /\ Cloud!FetchOk(p, c)
  /\ UNCHANGED <<oidcVars, forceNew, asked>>

\* A slip: the failure of the cloud is marked like a user's denial.
AssumeRoleFailsStopping(p) ==
  /\ asked[p] /\ oidcPc[p] = "answered"
  /\ Cloud!FetchFails(p, "denied")
  /\ UNCHANGED <<oidcVars, forceNew, asked>>

\* It may refuse any, or not be reached.
AssumeRoleFails(p) ==
  /\ asked[p] /\ oidcPc[p] = "answered"
  /\ Cloud!FetchFails(p, "error")
  /\ UNCHANGED <<oidcVars, forceNew, asked>>

\* What the cloud layer makes of an error of the OIDC layer: it looks for the
\* text ErrStopFallback, and the OIDC layer has replaced that text when the
\* outcome was a denial, and never adds it to another error.
SeenAbove(why) == "error"

\* A slip: a refusal is answered by asking again.
OidcTokenRefusedAskingAgain(p) ==
  /\ asked[p] /\ oidcPc[p] = "refused"
  /\ cloudPc[p] = "fetch"
  /\ asked' = [asked EXCEPT ![p] = FALSE]
  /\ UNCHANGED <<clock, cloudVars, oidcVars, forceNew>>

OidcTokenRefused(p) ==
  /\ asked[p] /\ oidcPc[p] = "refused"
  /\ Cloud!FetchFails(p, SeenAbove(oidcOutcome[p]))
  /\ UNCHANGED <<oidcVars, forceNew, asked>>

\* A slip: only the outer call is given up.
CrashOuter(p) ==
  /\ Cloud!Crash(p)
  /\ UNCHANGED <<oidcVars, forceNew, asked>>

\* A process killed takes both calls with it.
Crash(p) ==
  /\ Cloud!Crash(p)
  /\ IF oidcPc[p] \in Oidc!Idle THEN UNCHANGED oidcVars ELSE Oidc!Crash(p)
  /\ UNCHANGED <<forceNew, asked>>

\* clean-cache removes files one by one, and may fail to remove either.
CleanCache ==
  /\ \/ Oidc!CleanCache /\ UNCHANGED cloudVars
     \/ Cloud!CleanCache /\ UNCHANGED oidcVars
  /\ UNCHANGED <<forceNew, asked>>

Tick ==
  /\ Cloud!Tick
  /\ UNCHANGED <<oidcVars, forceNew, asked>>

\* The steps of a running process.
Step(p) ==
  \/ CloudStep(p)
  \/ FetchOidcToken(p)
  \/ NoStsClient(p)
  \/ OidcStep(p)
  \/ \E c \in Cloud!Issued : AssumeRole(p, c)
  \/ AssumeRoleFails(p)
  \/ OidcTokenRefused(p)

Next ==
  \/ \E p \in Proc :
       \/ \E force, cloudOnly \in BOOLEAN : FetchCloudSts(p, force, cloudOnly)
       \/ Step(p)
       \/ Crash(p)
  \/ CleanCache
  \/ Tick

Spec == Init /\ [][Next]_vars

\* A run of the CLI does not stop by itself, and its fetches end.
FairSpec == Spec /\ \A p \in Proc : WF_vars(Step(p))

-----------------------------------------------------------------------------
\* "Force fetch cloud token, ignore all cache": with ForceNew the cloud token
\* returned was issued in this call, for an OIDC token issued in this call
\* (alibaba_cloud_sts_fetch.go:58, 63; aws_sts_fetch.go; cloud_account).
ForceNewIgnoresAllCaches ==
  \A p \in Proc :
    cloudPc[p] = "answered" /\ forceNew[p] =>
      /\ cloudHeld[p] # Nothing /\ cloudHeld[p].at >= cloudBegan[p]
      /\ oidcHeld[p] # Nothing /\ oidcHeld[p].at >= cloudBegan[p]

\* "Force fetch cloud token (lower cache enabled)": without ForceNew the
\* identity provider is asked only if the cached OIDC token is expiring.
LowerCacheEnabled ==
  [][\A p \in Proc :
       oidcPc[p] = "read" /\ oidcPc'[p] = "fetch" =>
         forceNew[p] \/ Oidc!IsExpiringOrExpired(Oidc!Decode(oidcFile), clock)]_vars

\* A user who denies the authorisation stops the fallback to cached
\* credentials (storage.go:166): no call goes on to return a cloud token.
DenialStopsFallback ==
  \A p \in Proc :
    ~(cloudPc[p] = "answered" /\ asked[p] /\ oidcOutcome[p] = "denied")

\* A call that fetched paid with an OIDC token it asked for itself, and that
\* existed by then: a token left over from an earlier call of the process is
\* never used (alibaba_cloud_sts_fetch.go:105-110).
PaidWithItsOwnToken ==
  \A p \in Proc :
    cloudOutcome[p] = "ok" =>
      /\ oidcBegan[p] >= cloudBegan[p]
      /\ oidcHeld[p] # Nothing /\ oidcHeld[p].at <= cloudHeld[p].at

\* With nothing in hand, storage.go:185 returns the wrapping of an error that
\* may be nil, an empty success.  A layer does so only when it fetched nothing,
\* because what it read ran out between its two looks at the clock
\* (storage.go:131, 174).  No failure of the provider or of the cloud, and none
\* passed up by the OIDC layer, becomes an empty success of either layer.
NoEmptySuccess ==
  \A p \in Proc :
    /\ cloudPc[p] = "answered" /\ cloudHeld[p] = Nothing => cloudOutcome[p] = "untried"
    /\ oidcPc[p] = "answered" /\ oidcHeld[p] = Nothing => oidcOutcome[p] = "untried"

\* An outage of the provider or of the cloud is bridged by the cloud token on
\* file: a call is refused only if it was told to ignore that token, if the
\* user denied, or if the token was missing or has run out by the time of the
\* refusal (storage.go:164-185, across both layers).
OutageIsBridged ==
  [][\A p \in Proc :
       cloudPc[p] = "serve" /\ cloudPc'[p] = "refused" =>
         \/ cloudForce[p]
         \/ asked[p] /\ oidcOutcome[p] = "denied"
         \/ cloudHeld[p] = Nothing
         \/ Cloud!IsExpired(cloudHeld[p], clock)]_vars

\* Every request ends.
EveryRequestEnds ==
  \A p \in Proc : cloudPc[p] = "read" ~> cloudPc[p] \in Cloud!Idle
=============================================================================
