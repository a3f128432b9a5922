-------------------------- MODULE ReadThroughCache --------------------------
(***************************************************************************)
(* One cache file of the CLI (a category and a key under ~/.aliyun or      *)
(* ~/.cloud_idaas) and the processes that read through it with             *)
(* utils.ReadCacheWithEncryptionCallback.  A process is a run of the CLI   *)
(* or one request handler of `serve`; nothing locks the file.              *)
(*                                                                         *)
(* The module is used as it stands for the discovery document (category    *)
(* oidc) and composed with itself in CloudToken (category cloud_token over *)
(* category oidc_token).  A content is a record of the instants at which   *)
(* it was issued and at which it runs out; the decoded StringWithTime is   *)
(* its content or Nothing.                                                 *)
(***************************************************************************)
EXTENDS Integers, CacheFile

CONSTANTS
  Proc,            \* the processes
  Lifetime,        \* how long a content lasts from the moment it is received
  MaxTime,         \* bound: the clock stops there
  ExpiringMargin,  \* time left at which a content is expiring (20 min, 2 min)
  ExpiredMargin,   \* time left at which it counts as expired (3 min, 1 min)
  AllowExpired,    \* ReadCacheOptions.AllowExpired
  FetchError       \* the ways in which FetchContent can fail

Time == 0..MaxTime
Cred == [at : Time, exp : {t + l : t \in Time, l \in Lifetime}]

ASSUME CacheAssumption ==
  /\ MaxTime \in Nat
  /\ Lifetime \subseteq Int
  /\ ExpiringMargin \in Int
  /\ ExpiredMargin \in Int
  /\ ExpiredMargin <= ExpiringMargin
  /\ AllowExpired \in BOOLEAN
  /\ FetchError \subseteq {"error", "denied", "status"}
  /\ Nothing \notin Cred
  /\ Torn \notin Cred
  /\ Nothing # Torn

VARIABLES
  clock,     \* time.Now()
  pc,        \* where each call of ReadCacheWithEncryptionCallback is
  forceNew,  \* options.ForceNew of the call
  began,     \* when the call started
  outcome,   \* what FetchContent came to in this call
  held       \* the content in hand: the cached one, then the fetched one

procVars == <<pc, forceNew, began, outcome, held>>
fileVars == <<file, linked>>
vars == <<clock, file, linked, pc, forceNew, began, outcome, held>>

Idle == {"idle", "answered", "refused"}
Location == Idle \cup {"read", "fetch", "truncate", "write", "serve"}

\* The type invariant.
TypeOK ==
  /\ clock \in Time
  /\ file \in Cred \cup {Nothing, Torn}
  /\ linked \subseteq Proc
  /\ pc \in [Proc -> Location]
  /\ forceNew \in [Proc -> BOOLEAN]
  /\ began \in [Proc -> Time]
  /\ outcome \in [Proc -> {"untried", "ok"} \cup FetchError]
  /\ held \in [Proc -> Cred \cup {Nothing}]

-----------------------------------------------------------------------------
(* What the code computes from a content and the time.                     *)

\* The custom or default validity functions, nil counting as out of date.
RunsOut(c, now, margin) == c = Nothing \/ c.exp - now <= margin

IsExpiringOrExpired(c, now) == RunsOut(c, now, ExpiringMargin)

\* A slip: the margin itself still counts as valid.
IsExpiredOffByOne(c, now) == RunsOut(c, now, ExpiredMargin - 1)

IsExpired(c, now) == RunsOut(c, now, ExpiredMargin)

-----------------------------------------------------------------------------
Init ==
  /\ clock = 0
  /\ file = Nothing
  /\ linked = {}
  /\ pc = [p \in Proc |-> "idle"]
  /\ forceNew = [p \in Proc |-> FALSE]
  /\ began = [p \in Proc |-> 0]
  /\ outcome = [p \in Proc |-> "untried"]
  /\ held = [p \in Proc |-> Nothing]

Goto(p, l) == pc' = [pc EXCEPT ![p] = l]

\* A process calls ReadCacheFileWithEncryptionCallback.
Call(p, force) ==
  /\ pc[p] \in Idle
  /\ Goto(p, "read")
  /\ forceNew' = [forceNew EXCEPT ![p] = force]
  /\ began' = [began EXCEPT ![p] = clock]
  /\ outcome' = [outcome EXCEPT ![p] = "untried"]
  /\ held' = [held EXCEPT ![p] = Nothing]
  /\ UNCHANGED <<clock, fileVars>>

\* Read the file and decide whether to fetch.
Read(p) ==
  /\ pc[p] = "read"
  /\ held' = [held EXCEPT ![p] = Decode(file)]
  /\ Goto(p, IF forceNew[p] \/ IsExpiringOrExpired(Decode(file), clock)
             THEN "fetch" ELSE "serve")
  /\ UNCHANGED <<clock, fileVars, forceNew, began, outcome>>

\* FetchContent returns status 200 and content c: it will be stored.
FetchOk(p, c) ==
  /\ pc[p] = "fetch"
  /\ held' = [held EXCEPT ![p] = c]
  /\ outcome' = [outcome EXCEPT ![p] = "ok"]
  /\ Goto(p, "truncate")
  /\ UNCHANGED <<clock, fileVars, forceNew, began>>

\* Slips: the body of a failed fetch is stored, or what was cached is.
FetchFailsBodyStored(p, why) ==
  /\ pc[p] = "fetch"
  /\ held' = [held EXCEPT ![p] = Torn]
  /\ Goto(p, "truncate")
  /\ UNCHANGED <<clock, fileVars, forceNew, began, outcome>>

FetchFailsRewritten(p, why) ==
  /\ pc[p] = "fetch"
  /\ outcome' = [outcome EXCEPT ![p] = why]
  /\ Goto(p, "truncate")
  /\ UNCHANGED <<clock, fileVars, forceNew, began, held>>

\* FetchContent fails: with an error, with the marker of a user's denial, or
\* ("status") with no error but a status that is not 200.
FetchFails(p, why) ==
  /\ pc[p] = "fetch"
  /\ outcome' = [outcome EXCEPT ![p] = why]
  /\ Goto(p, "serve")
  /\ UNCHANGED <<clock, fileVars, forceNew, began, held>>

\* The write opens and truncates the file ...
Truncate(p) ==
  /\ pc[p] = "truncate"
  /\ Goto(p, "write")
  /\ OpenTruncate(p)
  /\ UNCHANGED <<clock, forceNew, began, outcome, held>>

\* ... or cannot; the error is logged and the content returned all the same.
OpenFails(p) ==
  /\ pc[p] = "truncate"
  /\ Goto(p, "answered")
  /\ UNCHANGED <<clock, fileVars, forceNew, began, outcome, held>>

\* ... and fills it; an error is only logged.
WriteBytes(p) ==
  /\ pc[p] = "write"
  /\ Goto(p, "answered")
  /\ WriteOpen(p, held[p])
  /\ UNCHANGED <<clock, forceNew, began, outcome, held>>

\* A slip: the cached content is tried before ForceNew is looked at.
ServeBeforeForceNew(p) ==
  /\ pc[p] = "serve"
  /\ Goto(p, IF held[p] # Nothing /\ ~IsExpired(held[p], clock)
             THEN "answered" ELSE "refused")
  /\ UNCHANGED <<clock, fileVars, forceNew, began, outcome, held>>

\* A slip: what is wrapped at the end is not the error of the fetch.
ServeErrorLost(p) ==
  /\ pc[p] = "serve"
  /\ LET usable == held[p] # Nothing /\ (~IsExpired(held[p], clock) \/ AllowExpired)
     IN /\ Goto(p, IF outcome[p] = "denied" \/ forceNew[p] THEN "refused" ELSE "answered")
        /\ held' = IF usable THEN held ELSE [held EXCEPT ![p] = Nothing]
  /\ UNCHANGED <<clock, fileVars, forceNew, began, outcome>>

\* The end of the call when nothing was stored.  The code's early returns in
\* their order: a denial, ForceNew, the cached content if it is not expired
\* or may be, and errors.Wrapf, which is nil when there is no fetch error.
Serve(p) ==
  /\ pc[p] = "serve"
  /\ LET usable == /\ held[p] # Nothing
                   /\ ~IsExpired(held[p], clock) \/ AllowExpired
     IN \/ /\ outcome[p] = "denied" \/ forceNew[p]
           /\ Goto(p, "refused")
           /\ held' = held
        \/ /\ outcome[p] # "denied" /\ ~forceNew[p] /\ usable
           /\ Goto(p, "answered")
           /\ held' = held
        \/ /\ outcome[p] # "denied" /\ ~forceNew[p] /\ ~usable
           /\ Goto(p, IF outcome[p] = "error" THEN "refused" ELSE "answered")
           /\ held' = [held EXCEPT ![p] = Nothing]
  /\ UNCHANGED <<clock, fileVars, forceNew, began, outcome>>

\* The process is killed in the middle of a call.
Crash(p) ==
  /\ pc[p] \notin Idle
  /\ Goto(p, "idle")
  /\ Abandon(p)
  /\ held' = [held EXCEPT ![p] = Nothing]
  /\ outcome' = [outcome EXCEPT ![p] = "untried"]
  /\ UNCHANGED <<clock, forceNew, began>>

\* clean-cache removes the file.
CleanCache ==
  /\ file # Nothing
  /\ Remove
  /\ UNCHANGED <<clock, procVars>>

Tick ==
  /\ clock < MaxTime
  /\ clock' = clock + 1
  /\ UNCHANGED <<fileVars, procVars>>

\* The steps of a call that need nobody else.
LocalStep(p) ==
  Read(p) \/ Truncate(p) \/ OpenFails(p) \/ WriteBytes(p) \/ Serve(p)

\* What the server behind FetchContent may answer.
Issued == {[at |-> clock, exp |-> clock + l] : l \in Lifetime}

Fetch(p) ==
  \/ \E c \in Issued : FetchOk(p, c)
  \/ \E why \in FetchError : FetchFails(p, why)

Next ==
  \/ \E p \in Proc :
       \/ \E force \in BOOLEAN : Call(p, force)
       \/ LocalStep(p)
       \/ Fetch(p)
       \/ Crash(p)
  \/ CleanCache
  \/ Tick

Spec == Init /\ [][Next]_vars

-----------------------------------------------------------------------------
(* Properties.                                                             *)

\* A call with ForceNew that succeeds returns a content that was issued
\* after the call began, whatever the file holds and whoever writes it
\* (storage.go:136 and storage.go:169).
ForceNewIsNew ==
  \A p \in Proc :
    pc[p] = "answered" /\ forceNew[p] =>
      held[p] # Nothing /\ held[p].at >= began[p]

\* The inductive invariant behind the properties: nothing comes from the
\* future, a call that stores holds what it fetched, a call with ForceNew
\* that was answered was answered with it, and an answer without a content
\* comes from a call whose fetch, if there was one, gave no error.
NothingFromTheFuture ==
  /\ file \in Cred => file.at <= clock
  /\ \A p \in Proc :
       /\ began[p] <= clock
       /\ held[p] \in Cred => held[p].at <= clock

HoldsFetched(p) == outcome[p] = "ok" /\ held[p] \in Cred /\ held[p].at >= began[p]

StoresWhatItFetched ==
  \A p \in Proc : pc[p] \in {"truncate", "write"} => HoldsFetched(p)

ForcedHoldsFetched ==
  \A p \in Proc : pc[p] = "answered" /\ forceNew[p] => HoldsFetched(p)

\* A call on its way to be served has fetched nothing, and an empty answer
\* hides no error.
ServesUnfetched ==
  \A p \in Proc : pc[p] \in {"read", "fetch", "serve"} => outcome[p] # "ok"

EmptyIsNoError ==
  \A p \in Proc :
    pc[p] = "answered" /\ held[p] = Nothing => outcome[p] \in {"untried", "status"}

CallInv ==
  /\ TypeOK
  /\ NothingFromTheFuture
  /\ StoresWhatItFetched
  /\ ForcedHoldsFetched
  /\ ServesUnfetched
  /\ EmptyIsNoError

\* The step by which a call succeeds with a content.
Answers(p) == pc[p] # "answered" /\ pc'[p] = "answered" /\ held'[p] # Nothing

\* A content from before the call is returned only if it has more than
\* ExpiredMargin left at the moment it is returned, however long the fetch
\* that failed took after the file was read (storage.go:174).
OldAnswerIsValid ==
  [][~AllowExpired =>
       \A p \in Proc :
         Answers(p) /\ held'[p].at < began[p] =>
           held'[p].exp - clock > ExpiredMargin]_vars

\* The file changes only at the hands of clean-cache or of a process that
\* holds a content fetched in this call, and what it ends up with is that
\* content or nothing readable: a fetch that fails never costs the cached
\* content (storage.go:144-162).
OnlyFetchedIsStored ==
  [][file' # file =>
       \/ file' = Nothing
       \/ \E p \in Proc :
            /\ outcome[p] = "ok" /\ held[p].at >= began[p]
            /\ pc[p] \in {"truncate", "write"}
            /\ file' \in {held[p], Torn}]_vars

\* ReadThroughCache keeps the promise of CredentialSource: the stages of a
\* call are one wait, and only what is returned can be seen.
Promised == INSTANCE CredentialSource WITH
  Content <- Cred,
  Margin <- ExpiredMargin,
  state <- [p \in Proc |-> IF pc[p] \in Idle THEN pc[p] ELSE "waiting"],
  force <- forceNew,
  since <- began,
  given <- [p \in Proc |-> IF pc[p] = "answered" THEN held[p] ELSE Nothing]

KeepsPromise == Promised!Init /\ [][Promised!Next]_(Promised!vars)
=============================================================================
