---------------------------- MODULE TokenResponse ----------------------------
(***************************************************************************)
(* idp.FetchIdTokenDeviceCode: the refresh token kept in the file of       *)
(* category token_response, the processes that spend it, and an identity   *)
(* provider that rotates it.  A refresh token is a number, given out in    *)
(* increasing order; the provider accepts those in live.                   *)
(***************************************************************************)
EXTENDS Naturals, CacheFile

CONSTANTS
  Proc,      \* the processes that share the file
  MaxToken   \* bound: refresh tokens the provider gives out

Token == 1..MaxToken

ASSUME TokenAssumption ==
  /\ MaxToken \in Nat
  /\ Nothing \notin Token
  /\ Torn \notin Token
  /\ Nothing # Torn

VARIABLES
  pc,       \* where each call of FetchIdTokenDeviceCode is
  rt,       \* the refresh token in its hands: read, then received
  live,     \* the refresh tokens the provider accepts
  given,    \* how many it has given out
  trouble   \* history: the worst that has happened so far, see Trouble

vars == <<file, linked, pc, rt, live, given, trouble>>

\* 0: one call at a time, and at worst the provider does not answer.
\* 1: also calls that overlap, and clean-cache.
\* 2: an answer is lost after the provider did its part, a write or a removal
\*    fails, a process is killed, a token that is still good is refused, or
\*    the provider revokes one.
Trouble == 0..2

Troubled(k) == trouble' = IF trouble < k THEN k ELSE trouble

Idle == {"idle", "returned", "failed"}
Location == Idle \cup {"read", "discover", "refresh", "retry", "remove", "login",
                       "truncate", "write"}

\* The type invariant.
TypeOK ==
  /\ file \in Token \cup {Nothing, Torn}
  /\ linked \subseteq Proc
  /\ pc \in [Proc -> Location]
  /\ rt \in [Proc -> Token \cup {Nothing}]
  /\ live \subseteq 1..given
  /\ given \in 0..MaxToken
  /\ trouble \in Trouble

-----------------------------------------------------------------------------
Init ==
  /\ file = Nothing
  /\ linked = {}
  /\ pc = [p \in Proc |-> "idle"]
  /\ rt = [p \in Proc |-> Nothing]
  /\ live = {}
  /\ given = 0
  /\ trouble = 0

Goto(p, l) == pc' = [pc EXCEPT ![p] = l]

\* The provider gives out one more token, replacing those in old.
GiveToken(old) ==
  /\ given < MaxToken
  /\ given' = given + 1
  /\ live' = (live \ old) \cup {given + 1}

\* FetchIdTokenDeviceCode is called; with ForceNew it goes straight to login.
Call(p, forceNew) ==
  /\ pc[p] \in Idle
  /\ Goto(p, IF forceNew THEN "login" ELSE "read")
  /\ rt' = [rt EXCEPT ![p] = Nothing]
  /\ Troubled(IF \A q \in Proc : pc[q] \in Idle THEN 0 ELSE 1)
  /\ UNCHANGED <<file, linked, live, given>>

\* A slip: a file that does not parse is taken as it is.
ReadUndecoded(p) ==
  /\ pc[p] = "read"
  /\ rt' = [rt EXCEPT ![p] = file]
  /\ Goto(p, IF file = Nothing THEN "login" ELSE "discover")
  /\ UNCHANGED <<file, linked, live, given, trouble>>

\* TryFetchTokenViaRefreshToken reads the file.
Read(p) ==
  /\ pc[p] = "read"
  /\ rt' = [rt EXCEPT ![p] = Decode(file)]
  /\ Goto(p, IF Decode(file) = Nothing THEN "login" ELSE "discover")
  /\ UNCHANGED <<file, linked, live, given, trouble>>

\* It needs the discovery document before it can refresh.
Discover(p) ==
  /\ pc[p] = "discover"
  /\ \/ Goto(p, "refresh")
     \/ Goto(p, "login")
  /\ UNCHANGED <<file, linked, rt, live, given, trouble>>

-----------------------------------------------------------------------------
(* FetchToken with the refresh grant: one request, and one more after 5xx. *)

Requests(p) == pc[p] \in {"refresh", "retry"}

\* A slip: the new token is returned and not saved.
RefreshedUnsaved(p) ==
  /\ Requests(p)
  /\ rt[p] \in live
  /\ GiveToken({rt[p]})
  /\ rt' = [rt EXCEPT ![p] = given']
  /\ Goto(p, "returned")
  /\ UNCHANGED <<file, linked, trouble>>

\* The token is spent, and a new one arrives.
Refreshed(p) ==
  /\ Requests(p)
  /\ rt[p] \in live
  /\ GiveToken({rt[p]})
  /\ rt' = [rt EXCEPT ![p] = given']
  /\ Goto(p, "truncate")
  /\ UNCHANGED <<file, linked, trouble>>

\* The answer holds no refresh token: the old one stays good and on file.
RefreshedWithoutToken(p) ==
  /\ Requests(p)
  /\ rt[p] \in live
  /\ Goto(p, "returned")
  /\ UNCHANGED <<file, linked, rt, live, given, trouble>>

\* What the provider may have done when its answer does not say: nothing,
\* or it has spent the token and the new one is lost.
Unknown(p) ==
  \/ UNCHANGED <<live, given, trouble>>
  \/ rt[p] \in live /\ GiveToken({rt[p]}) /\ Troubled(2)

\* A slip: 429 is treated as every other 4xx.
NoAnswerRemoving(p) ==
  /\ Requests(p)
  /\ Unknown(p)
  /\ Goto(p, "remove")
  /\ UNCHANGED <<file, linked, rt>>

\* A slip: the save is reached on the error path too, with the old token.
NoAnswerRewriting(p) ==
  /\ Requests(p)
  /\ Unknown(p)
  /\ Goto(p, "truncate")
  /\ UNCHANGED <<file, linked, rt>>

\* A timeout, a broken connection, an answer that does not parse, 429.
NoAnswer(p) ==
  /\ Requests(p)
  /\ Unknown(p)
  /\ Goto(p, "login")
  /\ UNCHANGED <<file, linked, rt>>

\* A slip: 5xx is retried for as long as it lasts.
ServerErrorRetried(p) ==
  /\ Requests(p)
  /\ Unknown(p)
  /\ Goto(p, IF pc[p] = "refresh" THEN "retry" ELSE "refresh")
  /\ UNCHANGED <<file, linked, rt>>

\* 5xx: the request is sent a second time, with the same token.
ServerError(p) ==
  /\ Requests(p)
  /\ Unknown(p)
  /\ Goto(p, IF pc[p] = "refresh" THEN "retry" ELSE "login")
  /\ UNCHANGED <<file, linked, rt>>

\* 4xx: the token is not accepted, or something else in the request is not.
Rejected(p) ==
  /\ Requests(p)
  /\ Troubled(IF rt[p] \in live THEN 2 ELSE 0)
  /\ Goto(p, "remove")
  /\ UNCHANGED <<file, linked, rt, live, given>>

\* The rejected token's file is removed, whatever it holds by now.
RemoveRejected(p) ==
  /\ pc[p] = "remove"
  /\ \/ Remove /\ UNCHANGED trouble
     \/ UNCHANGED <<file, linked>> /\ Troubled(2)
  /\ Goto(p, "login")
  /\ UNCHANGED <<rt, live, given>>

-----------------------------------------------------------------------------
\* FetchTokenViaDeviceCodeFlow: the user signs in, with or without a refresh
\* token in the answer, or the flow fails.
Login(p) ==
  /\ pc[p] = "login"
  /\ GiveToken({})
  /\ rt' = [rt EXCEPT ![p] = given']
  /\ Goto(p, "truncate")
  /\ UNCHANGED <<file, linked, trouble>>

LoginWithoutToken(p) ==
  /\ pc[p] = "login"
  /\ Goto(p, "returned")
  /\ UNCHANGED <<file, linked, rt, live, given, trouble>>

LoginFails(p) ==
  /\ pc[p] = "login"
  /\ Goto(p, "failed")
  /\ UNCHANGED <<file, linked, rt, live, given, trouble>>

\* SaveTokenResponseWithRefreshToken; an error is only logged.
Truncate(p) ==
  /\ pc[p] = "truncate"
  /\ Goto(p, "write")
  /\ OpenTruncate(p)
  /\ UNCHANGED <<rt, live, given, trouble>>

OpenFails(p) ==
  /\ pc[p] = "truncate"
  /\ Goto(p, "returned")
  /\ Troubled(2)
  /\ UNCHANGED <<file, linked, rt, live, given>>

\* Where no calls have overlapped, it takes a failing write to leave the file
\* torn.
WriteBytes(p) ==
  /\ pc[p] = "write"
  /\ WriteOpen(p, rt[p])
  /\ Troubled(IF file' = Torn /\ trouble = 0 THEN 2 ELSE 0)
  /\ Goto(p, "returned")
  /\ UNCHANGED <<rt, live, given>>

-----------------------------------------------------------------------------
Crash(p) ==
  /\ pc[p] \notin Idle
  /\ Troubled(2)
  /\ Goto(p, "idle")
  /\ Abandon(p)
  /\ rt' = [rt EXCEPT ![p] = Nothing]
  /\ UNCHANGED <<live, given>>

CleanCache ==
  /\ file # Nothing
  /\ Troubled(1)
  /\ Remove
  /\ UNCHANGED <<pc, rt, live, given>>

Revoke(t) ==
  /\ live' = live \ {t}
  /\ Troubled(2)
  /\ UNCHANGED <<file, linked, pc, rt, given>>

Step(p) ==
  \/ Read(p) \/ Discover(p)
  \/ Refreshed(p) \/ RefreshedWithoutToken(p) \/ NoAnswer(p) \/ ServerError(p)
  \/ Rejected(p) \/ RemoveRejected(p)
  \/ Login(p) \/ LoginWithoutToken(p) \/ LoginFails(p)
  \/ Truncate(p) \/ OpenFails(p) \/ WriteBytes(p)

Next ==
  \/ \E p \in Proc :
       \/ \E forceNew \in BOOLEAN : Call(p, forceNew)
       \/ Step(p)
       \/ Crash(p)
  \/ CleanCache
  \/ \E t \in live : Revoke(t)

Spec == Init /\ [][Next]_vars

\* The CLI runs on once started; requests time out and polls are bounded.
FairSpec == Spec /\ \A p \in Proc : WF_vars(Step(p))

-----------------------------------------------------------------------------
\* The user stays signed in: as long as calls come one at a time and the
\* provider at worst fails to answer, a user who once received a refresh
\* token has one on file, still accepted, whenever no call is going on
\* (oidc_device_code.go:65-84: nothing but a rejection removes the file, and
\* what is received is saved).
SessionKept ==
  trouble = 0 /\ live # {} /\ (\A p \in Proc : pc[p] \in Idle) => file \in live

\* Even where calls overlap, a spent token on file is about to be replaced by
\* the process that spent it: no process leaves a spent token behind
\* (oidc_device_code.go:83).
SpentIsBeingReplaced ==
  trouble < 2 /\ file \in Token \ live =>
    \E p \in Proc : pc[p] = "truncate" /\ rt[p] > file

\* And the file disappears only by clean-cache, or through a process whose
\* own token the provider no longer accepts (oidc_device_code.go:69-77).
RemovedOnlyWhenRejected ==
  [][trouble < 2 /\ file # Nothing /\ file' = Nothing =>
       \/ CleanCache
       \/ \E p \in Proc : RemoveRejected(p) /\ rt[p] \notin live]_vars

\* Whatever happens, no delayed writer brings back a token that another
\* process has taken from the file and may have spent: what is written was
\* received in the writer's own call, and nobody has read it yet
\* (oidc_device_code.go:88-100, 183-186).
NeverBroughtBack ==
  [][file' \in Token /\ file' # file =>
       \A p \in Proc :
         pc[p] \in {"discover", "refresh", "retry", "remove"} => rt[p] # file']_vars

\* Why these hold.  A token received and not yet saved is known to nobody but
\* its process, and while trouble stays below 2 it is live; a token that was
\* rejected is not.
Unsaved(p) == pc[p] \in {"truncate", "write"}
Spending(p) == pc[p] \in {"discover", "refresh", "retry", "remove"}

OnlyGivenTokens ==
  /\ file \in Token => file <= given
  /\ \A p \in Proc : rt[p] \in Token => rt[p] <= given
  /\ \A p \in Proc : Unsaved(p) \/ Spending(p) => rt[p] \in Token

UnsavedIsUnknown ==
  /\ \A p \in Proc : Unsaved(p) => rt[p] # file
  /\ \A p, q \in Proc :
       p # q /\ Unsaved(p) /\ (Unsaved(q) \/ Spending(q)) => rt[p] # rt[q]

UnsavedIsLive ==
  trouble < 2 => \A p \in Proc : Unsaved(p) => rt[p] \in live

RejectedIsSpent ==
  trouble < 2 => \A p \in Proc : pc[p] = "remove" => rt[p] \notin live

\* One call at a time: the file is as its process last saw it, and holds a
\* live token unless the process is about to store one.
OneCallAtATime ==
  trouble = 0 =>
    /\ \A p, q \in Proc : pc[p] \notin Idle /\ pc[q] \notin Idle => p = q
    /\ \A p \in Proc : Spending(p) => rt[p] = file
    /\ \A p \in Proc : pc[p] = "write" => p \in linked
    /\ live # {} => file \in live \/ \E p \in Proc : Unsaved(p)

\* The inductive invariant.
TokenInv ==
  /\ TypeOK
  /\ OnlyGivenTokens
  /\ UnsavedIsUnknown
  /\ UnsavedIsLive
  /\ RejectedIsSpent
  /\ SpentIsBeingReplaced
  /\ OneCallAtATime

\* Every call ends: with a token or with an error.
EveryCallEnds ==
  \A p \in Proc : pc[p] \in {"read", "login"} ~> pc[p] \in Idle
=============================================================================
