--------------------------- MODULE DeviceCodeFlow ----------------------------
(***************************************************************************)
(* oidc.FetchTokenViaDeviceCodeFlow: the device authorization grant.  The  *)
(* process asks for a device code, then polls the token endpoint while the *)
(* user decides in a browser.  The provider and the user are external.     *)
(***************************************************************************)
EXTENDS Naturals, Sequences

CONSTANTS
  MaxTries,   \* requests for a device code (3)
  MaxPolls,   \* polls (100)
  MaxErrors,  \* unanswered polls in a row that are forgiven (3)
  Intervals   \* seconds between polls that the provider may ask for

ASSUME FlowAssumption ==
  /\ MaxTries \in Nat \ {0}
  /\ MaxPolls \in Nat
  /\ MaxErrors \in Nat
  /\ Intervals \subseteq Nat

VARIABLES
  pc,        \* where the flow is
  tries,     \* device code requests that got no answer
  polls,     \* polls answered, or given up: i
  errors,    \* tokenErrorCounting
  interval,  \* sleepInterval
  asked,     \* the interval the provider asks for by now
  paused,    \* seconds slept before the present poll
  code,      \* what the provider knows of the device code
  recent     \* history: the last answers, at most MaxErrors + 1 of them

vars == <<pc, tries, polls, errors, interval, asked, paused, code, recent>>

Done == {"returned", "denied", "failed"}
Status == {"none", "pending", "approved", "denied", "expired", "spent"}
Answer == {"pending", "slow_down", "other", "server_error", "none"}

\* The type invariant.
TypeOK ==
  /\ pc \in {"discover", "device", "sleep", "poll", "again"} \cup Done
  /\ tries \in 0..MaxTries
  /\ polls \in 0..MaxPolls
  /\ errors \in 0..(MaxErrors + 1)
  /\ interval \in Nat /\ asked \in Nat /\ paused \in {0, 2, 5}
  /\ code \in Status
  /\ recent \in Seq(Answer) /\ Len(recent) <= MaxErrors + 1

-----------------------------------------------------------------------------
Init ==
  /\ pc = "discover"
  /\ tries = 0 /\ polls = 0 /\ errors = 0
  /\ interval = 0 /\ asked = 0 /\ paused = 0
  /\ code = "none"
  /\ recent = <<>>

\* A flow over, another may start, with a device code of its own.
Begin ==
  /\ pc \in Done
  /\ pc' = "discover"
  /\ tries' = 0 /\ polls' = 0 /\ errors' = 0
  /\ interval' = 0 /\ asked' = 0 /\ paused' = 0
  /\ code' = "none"
  /\ recent' = <<>>

\* FetchOpenIdConfiguration, and an endpoint in it.
Discover ==
  /\ pc = "discover"
  /\ pc' \in {"device", "failed"}
  /\ UNCHANGED <<tries, polls, errors, interval, asked, paused, code, recent>>

\* FetchDeviceCodeWithRetry: an answer ends it, a device code or an error.
\* An interval left out is 0 to the program and 5 to the provider.
DeviceCode(k) ==
  /\ pc = "device"
  /\ pc' = "sleep"
  /\ interval' = k
  /\ asked' = IF k = 0 THEN 5 ELSE k
  /\ code' = "pending"
  /\ UNCHANGED <<tries, polls, errors, paused, recent>>

DeviceCodeRefused ==
  /\ pc = "device"
  /\ pc' = "failed"
  /\ UNCHANGED <<tries, polls, errors, interval, asked, paused, code, recent>>

\* A slip: the tries are not counted against the limit.
NoDeviceCodeUnlimited ==
  /\ pc = "device"
  /\ tries' = tries + 1
  /\ tries' <= MaxTries + 1
  /\ UNCHANGED <<pc, polls, errors, interval, asked, paused, code, recent>>

NoDeviceCode ==
  /\ pc = "device"
  /\ tries' = tries + 1
  /\ pc' = IF tries' = MaxTries THEN "failed" ELSE "device"
  /\ UNCHANGED <<polls, errors, interval, asked, paused, code, recent>>

-----------------------------------------------------------------------------
\* utils.SleepSeconds: an interval from 1 to 5 makes 2, above 5 it makes 5.
SleepSeconds(k) == IF k > 5 THEN 5 ELSE 2

Sleep ==
  /\ pc = "sleep"
  /\ polls < MaxPolls
  /\ paused' = SleepSeconds(interval)
  /\ pc' = "poll"
  /\ UNCHANGED <<tries, polls, errors, interval, asked, code, recent>>

\* The hundredth poll was not the last answer.
OutOfPolls ==
  /\ pc = "sleep"
  /\ polls = MaxPolls
  /\ pc' = "failed"
  /\ UNCHANGED <<tries, polls, errors, interval, asked, paused, code, recent>>

Requests == pc \in {"poll", "again"}

\* A poll is over with the answer a.
Note(a) ==
  /\ polls' = polls + 1
  /\ recent' = IF Len(recent) > MaxErrors THEN Append(Tail(recent), a)
               ELSE Append(recent, a)

\* authorization_pending: the error count starts afresh.
Pending ==
  /\ Requests /\ code = "pending"
  /\ Note("pending")
  /\ errors' = 0
  /\ pc' = "sleep"
  /\ UNCHANGED <<tries, interval, asked, paused, code>>

\* A slip: slow_down is taken for a failure.
SlowDownFails ==
  /\ Requests /\ code \in {"pending", "approved", "denied"}
  /\ Note("slow_down")
  /\ pc' = "failed"
  /\ UNCHANGED <<tries, errors, interval, asked, paused, code>>

\* slow_down: the client adds a second to its interval, where the provider
\* counts on five (RFC 8628, 3.5).
SlowDown ==
  /\ Requests /\ code \in {"pending", "approved", "denied"}
  /\ Note("slow_down")
  /\ errors' = 0
  /\ interval' = interval + 1
  /\ asked' = asked + 5
  /\ pc' = "sleep"
  /\ UNCHANGED <<tries, paused, code>>

\* A token response: it is saved (TokenResponse.Login) and returned.
TokenGranted ==
  /\ Requests /\ code = "approved"
  /\ pc' = "returned"
  /\ code' = "spent"
  /\ UNCHANGED <<tries, polls, errors, interval, asked, paused, recent>>

\* access_denied: ErrStopFallback.
AccessDenied ==
  /\ Requests /\ code = "denied"
  /\ pc' = "denied"
  /\ UNCHANGED <<tries, polls, errors, interval, asked, paused, code, recent>>

\* Any other error in an answer ends the flow, whatever has become of the
\* code: it expired or is spent, or the provider limits requests (429), has
\* lost the client (invalid_client) ...
OtherError ==
  /\ Requests
  /\ Note("other")
  /\ errors' = 0
  /\ pc' = "failed"
  /\ UNCHANGED <<tries, interval, asked, paused, code>>

\* What a request without a usable answer did at the provider: nothing, or
\* it was served and an approved code is spent.
Unknown ==
  \/ code' = code
  \/ code = "approved" /\ code' = "spent"

\* A slip: a request without an answer is not counted.
NoAnswerUncounted ==
  /\ Requests
  /\ Unknown
  /\ pc' = "sleep"
  /\ UNCHANGED <<tries, polls, errors, interval, asked, paused, recent>>

\* A slip: the flow gives up one error early.
NoAnswerOffByOne ==
  /\ Requests
  /\ Unknown
  /\ Note("none")
  /\ errors' = errors + 1
  /\ pc' = IF errors' >= MaxErrors THEN "failed" ELSE "sleep"
  /\ UNCHANGED <<tries, interval, asked, paused>>

\* FetchToken returns an error: no connection, a timeout, no JSON.
NoAnswer ==
  /\ Requests
  /\ Unknown
  /\ Note("none")
  /\ errors' = errors + 1
  /\ pc' = IF errors' > MaxErrors THEN "failed" ELSE "sleep"
  /\ UNCHANGED <<tries, interval, asked, paused>>

\* 5xx: FetchToken tries once more, 100 ms later ...
ServerError ==
  /\ pc = "poll"
  /\ Unknown
  /\ pc' = "again"
  /\ UNCHANGED <<tries, polls, errors, interval, asked, paused, recent>>

\* ... and a second 5xx, with a JSON body, is an error in an answer.
ServerErrorAgain ==
  /\ pc = "again"
  /\ Unknown
  /\ Note("server_error")
  /\ errors' = 0
  /\ pc' = "failed"
  /\ UNCHANGED <<tries, interval, asked, paused>>

-----------------------------------------------------------------------------
\* The user approves or denies, or lets the code expire; an approved code
\* that is not collected expires as well.
Decide(s) ==
  /\ pc \notin Done
  /\ \/ code = "pending" /\ s \in {"approved", "denied", "expired"}
     \/ code = "approved" /\ s = "expired"
  /\ code' = s
  /\ UNCHANGED <<pc, tries, polls, errors, interval, asked, paused, recent>>

Step ==
  \/ Discover
  \/ \E k \in Intervals : DeviceCode(k)
  \/ DeviceCodeRefused \/ NoDeviceCode
  \/ Sleep \/ OutOfPolls
  \/ Pending \/ SlowDown \/ TokenGranted \/ AccessDenied \/ OtherError
  \/ NoAnswer \/ ServerError \/ ServerErrorAgain

Next ==
  \/ Begin
  \/ Step
  \/ \E s \in Status : Decide(s)

Spec == Init /\ [][Next]_vars

\* The process runs on: a sleep ends, and a request ends within the HTTP
\* client's timeout.  Nothing is assumed of the user.
FairSpec == Spec /\ WF_vars(Step)

-----------------------------------------------------------------------------
\* The flow does not fail behind the back of a user who has decided, unless
\* it has used up its polls, seen MaxErrors + 1 polls in a row unanswered, or
\* was last answered with two server errors running or with an error it does
\* not know (oidc_device_code.go:155-191).  In particular no slow_down, and no
\* fewer lost answers than are forgiven, costs the user a decision.
DecisionIsHeard ==
  pc = "failed" /\ code \in {"approved", "denied"} =>
    \/ polls = MaxPolls
    \/ Len(recent) = MaxErrors + 1 /\ \A i \in DOMAIN recent : recent[i] = "none"
    \/ recent # <<>> /\ recent[Len(recent)] \in {"server_error", "other"}

\* RFC 8628, 3.2 and 3.5: a client waits at least the interval the provider
\* asks for between two polls, five seconds more after each slow_down.
PollsNoFasterThanAsked ==
  pc = "poll" => paused >= asked

\* The flow ends, whatever the provider answers and the user does.
EveryFlowEnds ==
  pc = "discover" ~> pc \in Done
=============================================================================
