# A verification project for alibaba-cloud-idaas

`alibaba-cloud-idaas` is a command line program (Go) that turns a sign-in at an
identity provider into cloud credentials: it obtains an OIDC token, exchanges it
for a cloud token, and caches both in encrypted files under the home directory.
Many runs of it share those files: every `aws` or `aliyun` command that uses the
program as its credential process starts one, and `serve` answers HTTP requests
from one process concurrently. Nothing locks the files.

This directory holds TLA+ modules translated from the source, configurations
that check them with TLC, and proofs checked by TLAPS. `PROJECT.json` lists the
runs, the mutants that show each property can fail, the source lines each
definition models, the hazards, the findings and the theorems.

## The system

### Components

| Component | State it keeps | Operations | Interacts with | What makes it correct |
|---|---|---|---|---|
| cache files (`utils/storage.go`) | one file per category and key | read and decrypt, write, remove | all of the below | a torn or missing file counts as no content |
| read-through cache (`utils/storage.go`) | the call in progress | `ReadCacheWithEncryptionCallback` | cache files; a `FetchContent` callback | what it returns is new or valid, a forced call gets a new one, a failed fetch costs nothing |
| discovery document (`oidc/oidc_common.go`) | a cache of category `oidc` | `FetchOpenIdConfiguration` | the provider | as the cache, an expired document is allowed |
| cloud token fetch (`cloud/*`, `idp/client_oidc_common.go`) | caches `cloud_token` over `oidc_token` | `FetchCloudSts` | both caches, the token service | each force flag reaches its layer; a denial stops the fallback |
| refresh token (`oidc/oidc_device_code.go`) | the file `token_response`; at the provider, the live tokens | `FetchIdTokenDeviceCode` | the provider, the device code flow | the session survives; no spent token stays on file |
| device code flow (`oidc/oidc_device_code.go`) | counters of the polling loop | `FetchTokenViaDeviceCodeFlow` | the provider, the user | it ends, hears the user's decision, keeps the pace asked for |
| encryption key seeds (`utils/storage.go`) | two seed files, the key in memory | `getEncryptionKey`, `getSeed` | cache files | the seeds settle, later processes agree on the key |
| start-session (`commands/start_session`) | two goroutines, a select, the terminal mode | `startSessionManager` | ECS session manager, the terminal | the terminal is given back; the session ends |
| clean-cache (`commands/clean_cache`) | none | removes every cache file, and logs | the caches, log files | the others survive it |
| log files (`idaaslog/log.go`) | the open log; a directory of logs | open, prune, write, `IsCurrentLog` | clean-cache | the newest logs survive pruning, the directory stays bounded, cleaning spares the current log |
| configuration, cache keys (`config`) | the settings file, which a user edits | parse, find a profile, digest | all caches | settings that want different tokens have different keys |
| cached OIDC tokens (`cloud/oidc`) | the cache `cloud_token` | fetch, judge validity by token type | read-through cache | a token returned from a file is in force for what was asked |
| client credentials (`idp/client_credentials*`, `client_openapi`) | none | one of several assertions, one request | signers, provider | exactly one method is used |
| signers, ECDSA signatures (`config/signer.go`, `signer`, `utils/util.go`) | a card that is open | make, open, sign, convert, close | client credentials | a signature has its curve's length, a card is closed again |
| session manager messages (`session_manager`) | none | decode (and encode, never called) | start-session | the payload is found behind strings of any length |
| token commands (`commands/fetch_token`, `execute`, `show_token`) | an output file, a child's environment | fetch, format, write, run | cloud token fetch | a failure leaves the output file, the child sees the new credentials |
| HTTP server (`commands/serve`) | none | one handler per request | cloud token fetch | concurrent requests get right answers |
| OpenClaw (`commands/openclaw_secret`) | none | answers for a list of identifiers | credential service | each identifier has an answer |
| token formats (`cloud/*/..._common.go`) | none | judge an expiration, marshal | the commands | a kind of token meets a command that has a use for it |
| commands that print, JWT validation, private CA, HTTP client, command line | none | | | not modelled, see below |

A request goes down a stack: a command or a `serve` handler calls
`FetchCloudSts`; that reads the `cloud_token` file and, if the content is
expiring or a flag forces it, fetches; the fetch calls `FetchOidcToken`, which
reads the `oidc_token` file in the same way; its fetch calls
`FetchIdTokenDeviceCode`, which spends the refresh token in the file
`token_response` or starts the device code flow; both read the discovery
document from the `oidc` file. All files are encrypted with one key, made from
the seed files. `clean-cache` removes files at any moment.

### What is hard

* Processes interleave between reading a file, fetching (seconds, or minutes
  while a user signs in), truncating the file and filling it. Time passes
  meanwhile, so what was judged valid may no longer be.
* A provider may rotate refresh tokens: spending one makes the file stale until
  the answer is saved. The answer can be lost, the process can die, another
  process can hold the spent token, and a rejection removes the file.
* Errors travel up two caches by their text only.
* `FetchToken` repeats a request after a 5xx, whether or not the first one took
  effect.
* First runs race to create the seed files.
* Every process prunes the log directory from a listing that others make stale.
* The goroutines of start-session end in any order, and the process ends with
  the first.
* The settings change under running processes, and so do the key files; a cache
  file outlives the settings it was written under, and only its name tells them
  apart.
* Any of a dozen steps of a request may fail, with caches half read and a card
  open.

`PROJECT.json` lists each hazard at its line with the properties that cover it.

## The modules

| Module | Models | State and actions |
|---|---|---|
| `CacheFile` | `readCacheFile`, `writeCacheFile`, `removeCacheFile` | `file` is a content, `Nothing` or `Torn`; `linked` holds the writers whose descriptor still names the file. `OpenTruncate` and `WriteOpen` are the halves of `os.WriteFile`, `Remove` is `os.Remove` |
| `ReadThroughCache` | `ReadCacheWithEncryptionCallback` | `pc` is the place in the function: `read`, `fetch`, `truncate`, `write`, `serve`, then `answered` or `refused`; `held`, `outcome`, `forceNew` its variables. One action per step between which another process can act |
| `CredentialSource` | the promise of that function | a call waits, then is given a content that is new or still valid, nothing, or an error |
| `CloudToken` | `FetchCloudSts` for Alibaba Cloud, AWS and cloud accounts | two instances of `ReadThroughCache`; the upper one's fetch is a call of the lower one and an exchange at the token service |
| `TokenResponse` | `FetchIdTokenDeviceCode`, `TryFetchTokenViaRefreshToken`, `SaveTokenResponseWithRefreshToken` | extends `CacheFile`; refresh tokens are numbers, the provider keeps the set `live`; `trouble` records the worst that has happened |
| `DeviceCodeFlow` | `FetchTokenViaDeviceCodeFlow`, `FetchDeviceCodeWithRetry`, `SleepSeconds` | the loop's counters, the provider's view of the device code, and the last answers |
| `SeedKey` | `getEncryptionKey`, `getSeed` | the seed files, and the seeds each process has |
| `AxtMessage` | `DecodeMessage`, `EncodeMessage` | operators on sequences of bytes |
| `TerminalSession` | `startSessionManager` from the open connection on | `reader`, `input` and `main` are the two goroutines and the select; `tty` the terminal's mode; `frames` what was received and `shown` what was written |
| `LogFiles` | `InitLog`, `clearLogFiles`, `openNewLogFile`, `IsCurrentLog`, `deleteFiles` | `dir` and `mtime` are the directory; `listed` and `entries` the two loops' working lists; a log is named after the stamp of its creation |
| `Settings` | the structures of `config/config.go`, `Digest` of each, `FindProfile` | records with the names of the code; a digest is the text that is hashed, its fields joined with nothing between them |
| `Assertions` | the signers, the PKCS#7, X.509 and OIDC token assertions, the conversion of signatures | sequences of steps, each of which may fail |
| `ClientCredentials` | how a provider of OIDC tokens gets one | the same, with the requests and what is asked in each (the grant) |
| `Commands` | `FetchCloudSts` and the commands around it | the same, with the caches between which the steps stand |
| `OidcTokens` | tokens, and `IsValidAtLeastThreshold` of each kind | a token has the grant it was issued for and the minutes when its parts run out |
| `TokenRequest` | all of these, running | `request` holds the steps each request has left and what it has in hand; `cache` the files by their keys, `config` the state of the settings, `card`, `output`; one action for each kind of step, and `Unwind` for a failure |
| `...Proofs` | | the theorems about the module of that name |
| `MC...` | | constants for TLC |

`Settings`, `Assertions`, `ClientCredentials`, `Commands` and `TokenRequest`
extend one another in this order; `TerminalSession` extends `AxtMessage`;
`ReadThroughCache` and `TokenResponse` extend `CacheFile`; `CloudToken`
instantiates `ReadThroughCache` twice; `ReadThroughCache` instantiates
`CredentialSource` under the mapping that makes all stages of a call one wait.

`CloudToken` and `TokenRequest` both model a fetch of a cloud token. The first
looks at single reads and writes of the two files and takes the fetches for
granted; the second takes a file for read or written in one step, and looks at
which file it is, what is in it and all the steps between.

A step sequence says what the code would do if all went well. That a step fails
is an action of `TokenRequest`: the request closes the card if that was deferred,
and goes back through the caches it has entered, innermost first, each of which
may give the token it had read. A check of the settings that fails is the step
`refuse`, which only fails. A nil pointer passes the caches by: the step `panic`
always meets one, and the steps of `MayPanic` meet one, fail or succeed.

Abstractions. A content is a record of the instant it was issued and the
instant it runs out; a token is a number; encryption is the fact that a file
decrypts or does not. What a program prints and logs is left out, and so are
the fields of requests that no property tells apart. A grant in `TokenRequest`
has those that decide what a token is good for; the secrets, pins and
passwords, and the fields that only decide whether an assertion is accepted
(the instance of a PKCS#7 document, the audience of a Google token), are not
in it, as they are not in the digests. A hash is the text it is made of, so the
settings of a run must not have fields that join to the same text: like the
code, the model puts nothing between them. The processes of `ReadThroughCache` stand for runs of
the program and for handlers of `serve` alike. A file that cannot be read, for
whatever reason, is modelled as one with nothing readable in it, for as long as
it is so.

Operators whose comment says "a slip" are not part of the model: each is a
plausible mistake in the code, in the place of the action below it, and
`PROJECT.json` names the property that catches it.

## The runs

| Run | Question | Bounds, and why they are enough |
|---|---|---|
| `read_through_cache` | Is what a call returns new or valid, whatever others do to the file? Does the cache implement `CredentialSource`? | 2 processes, clock 0..2, lifetimes 0 and 3, margins 2 and 1: a content is fresh, expiring and expired within the clock, and unusable from the start. Every effect on a process comes from the file, which one other process can put in any state |
| `cloud_token` | Do the flags reach the right layers, is the exchange paid with the right token? Is an outage bridged by the token on file, and is a failure of either layer an error of the whole (`storage.go:185` wraps an error that may be nil)? Does every request end? | 1 process, clock 0..2. The two files are also changed by clean-cache at any time; races of processes on one file are the previous run's. With two processes the state space is out of reach |
| `denial` | Does a denial stop the fallback? No: see Findings | as above |
| `token_response` | Does the session survive? Can a race leave a spent token on file, remove a good one or bring back an old one? | 2 processes, 4 tokens: enough for two logins and a refresh by each process while the other holds an old token |
| `device_code_flow` | Does the flow end, and hear a user who has decided? An error answer it does not know ends it whatever the state of the code, and so do two server errors running; nothing else may but the limits | 9 polls instead of 100, so that the error limit (4 in a row) can be reached, reset and reached again before the polls run out; intervals 0, 5 and 6, one for each branch of `SleepSeconds` |
| `polling_pace` | Does the client keep the interval asked for? No: see Findings | as above |
| `seed_key` | Do processes that start together or later agree on the key? | 3 processes, 2 files: two that race and one that comes late |
| `terminal_session` | Does the user read what the server wrote, is the terminal given back to one who quits, does the session end? | 3 frames, 2 key presses: the loops have no memory. 7 messages: output behind identifiers of lengths 0 to 2, empty, cut off in the payload, in its last byte and in the header, and a message of another type |
| `terminal_restored` | Is it given back whenever the program exits? No: see Findings | as above |
| `log_files` | Do processes that prune at the same time together remove too much, or leave too much? | 2 processes, limit 2 and 1 kept instead of 110 and 100; the directory starts with up to 3 logs, as many as set off a pruning, and 5 changes of files in all: a pruning has two logs to remove, another process two changes to make |
| `current_log` | Does clean-cache spare the log of its own process? No: see Findings | as above |
| `token_request` | Is each request answered for its own settings and with tokens in force, whatever fails on the way and whoever shares its files and its card? Is the output file spared, does the child see its credentials, does each identifier get an answer? | 2 requests in 8 pairs that share a file, a card, a profile or an output file; 9 profiles and 2 written as arguments, between them every cloud, every method of authentication, every kind of signer and every command; 2 states of the settings (other scopes, names and key files); ticks of 9 minutes up to 18 against lifetimes of 11, 21 and 30: a token is good, expiring and expired within the thresholds of 1 to 20 minutes |

Deadlock is checked in all runs but those of `SeedKey` and `TokenRequest`, where
each run of the program does one thing and there are finitely many, and of
`TerminalSession`, where the process ends.

`SessionKept`, `SpentIsBeingReplaced` and `RemovedOnlyWhenRejected` hold only
while nothing worse has happened than the code can be expected to bear, and say
so with `trouble`: where an answer with a rotated token is lost or a process is
killed before it saves the token, the user has to sign in again; and where calls
overlap, one that is rejected removes the file even if another has saved a new
token in it by then (`oidc/oidc_device_code.go:76`). The run contains all those
cases, for the other properties. `LogFiles` has such a
variable too: a log that is written after a pruning process has inspected it may
be removed though it is the newest by then, so `NewestKept` is claimed only where
that does not happen. No two changes of files have the same time there; the
stamps of a file system are fine enough for logs that are seconds apart.

## Fairness

`CloudToken`, `TokenResponse` and `DeviceCodeFlow` assume weak fairness of the
steps a running process takes by itself. The code justifies it: nothing in a
call waits for another process, the HTTP client gives up after 10 seconds
(`utils/http.go:114`), a sleep ends, and the numbers of tries and polls are
bounded (`oidc/oidc_device_code.go:157`, `198`). The calls to the token services
of the clouds go through their SDKs, whose own time limits are assumed. Nothing is assumed of the user
or of the provider's answers, and a process may be killed at any moment.
`TerminalSession` assumes fairness of each goroutine's own steps and of the
select, not of the keyboard, the server or of frames arriving.

## What is proved

For all values of the constants that satisfy `CacheAssumption` (any set of
processes, any lifetimes and margins with the expired margin not above the
expiring one, expired contents allowed or not):

* `CallInvariant`: `CallInv` is inductive. `ForceNewIsNew` is not: a process
  about to write must hold what it fetched (`StoresWhatItFetched`), and a
  content may not come from the future (`NothingFromTheFuture`) for a fetched
  one to be at least as new as the call.
* `TypeCorrect`, `ForceNewHonoured`, `OldAnswersAreValid`, `OnlyFetchedStored`:
  the run's properties, from that invariant.
* `Implements`: every step of `ReadThroughCache` is a step of
  `CredentialSource` or leaves its variables alone.

For any set of processes and any number of seed files (`SeedAssumption`):

* `SeedInvariant`, `SeedsSettle`, `OneKeyForLateComers`. The invariant adds to
  the property that an opened file exists (`OpenedExists`), and that once a
  process has started late nobody creates a file again (`SettledForTheLate`).

For any set of processes and any number of refresh tokens (`TokenAssumption`):

* `TokenInvariant`, and from it `TokenTypes`, `SpentIsReplaced`,
  `SessionSurvives`, `RemovedWhenRejected` and `NotBroughtBack`. What carries
  the argument is that a token just received is larger than all others
  (`OnlyGivenTokens`), so nobody else has it and the file does not hold it until
  its process has saved it (`UnsavedIsUnknown`); a refresh therefore never spends
  it (`UnsavedIsLive`), and once it is in the file its process is done with it,
  so that nobody brings it back later. `RejectedIsSpent` and `OneCallAtATime`
  add what holds before anything worse has happened.

For any set of processes, and any lifetimes and margins of each layer
(`CloudAssumption`); the run has one process:

* Each step of the whole is a step of one layer, or of both (a crash, the clock):
  the lemma `StepsOfLayers`. So the invariance of `CallInv` is not proved again. `CloudTokenProofs`
  instantiates `ReadThroughCacheProofs` for each layer, and its lemmas
  `InitCallInv` and `StepCallInv` carry over once the assumption is shown to
  hold of the layer's constants.
* `CloudInvariant` adds the coupling (`Coupled`): a layer that works below has
  been asked by the call above, with the flag that was meant for it, no earlier
  than that call began; and from the payment on nothing changes what was paid
  with. From it `CloudTypes`, `ForceNewReachesBothCaches`, `PaidByTheCall` and
  the action property `LowerCacheUsed`.
* `NoFailureIsEmpty` needs of `CallInv` that a layer that fetched and failed is
  not answered empty-handed (`ServesUnfetched`, `EmptyIsNoError`). `OutageBridged`
  needs of `Coupled` that the upper layer never takes an error for a denial
  itself: only the layer below, which hears the user, can stop the fallback.

For any number of polls, tries and forgiven errors and any intervals
(`FlowAssumption`; the code's limits are 100, 3 and 3):

* `FlowInvariant`, and from it `FlowTypes` and `UserIsHeard`.
  `DecisionIsHeard` speaks of the last answers, and the code has only a counter: that the
  counter is the number of unanswered polls at the end of the record
  (`ErrorsAreRecent`) is what joins them.

For any finite set of processes and any limits (`LogAssumption`):

* `LogInvariant`, `LogTypes`, `NewestSpared`. No two changes have one stamp, and
  each log has at most one entry of each process (`EntriesOnce`), so the oldest
  entry is older than the `Keep` others that stay; an entry of a log that is
  gone says so (`EntriesTrue`).
* `DirectoryIsBounded`. No inductive invariant over the variables alone was found:
  how many logs there may be depends on the order in which the processes listed
  the directory. The invariant says there is such an order: a rank for each
  process that prunes, so that what was created since it listed the directory
  (`Fresh`) is at most one log for each process that is free by then or ranks
  after it (`Free`). A new listing is given the next rank; when a process ends its
  pruning the directory is small enough again for the ranks up to its own to be
  forgotten.

For any messages and bounds (`SessionAssumption`):

* `DecodeSent`, `DecodeCut`: decoding is the inverse of what the server sends for
  the type and the payload, for any identifiers, and an error wherever the
  header is cut.
* `SessionTypes`, `UserGetsTerminalBack`: a user who quits is seen by `main` only
  after the keyboard's goroutine has left raw mode (`SessionInv`).
* `OutputInOrder`: the payloads that were shown are those of the output messages,
  each once and in order. The invariant adds that a message that waits is the
  last one received (`OrderInv`).

For any settings, edits of them, requests, answers, lifetimes and environments
of the structure the code gives them (`AsksAssumption`, `ConfigsAssumption`,
`AnswersAssumption`, `TimeAssumption`, `OsEnvAssumption`):

* `TypeCorrect`, `CardIsReleased`, `AnsweredForItsSettings`, `OutputIsKept`,
  `AnswersInForce`, `EverySecretIsAnswered`, `ChildGetsItsToken`: all that the
  run `token_request` checks, with `SignaturesFit` below.
* `SignaturesFit`: aligning R and S restores the length of the algorithm, if they
  lose two bytes at most. `NoSignatureForEs512`: none is ever accepted for ES512.

The state of `TokenRequest` says which steps a request has left, but not why these
steps fit together: that a cache is closed with a token of its kind, that the
card is closed again, that nothing is fetched after the output file is open. That
is a fact about the sequences the commands are made of, and is proved once
about them, at the start of `TokenRequestProofs`. A *point* is what is known between two steps:
the kind of value in hand and its grant, how far the fetch is, which caches are
open, whether the card is, and whether the command uses its token already. `Flow`
says from which point to which a step leads, and `Path` that points fit a
sequence of steps. Each operator of `Assertions`, `ClientCredentials` and
`Commands` has a lemma that says where its steps lead, up to `CommandEnds`: every
command leads from the start to a point with everything closed.

The inductive invariant (`IInv`, theorem `Inductive`) says that every running
request is at the first point of a path of the steps it has left, and has in hand
what that point tells (`Sound`); and that what is in a file was fetched for a
cache of that name (`CacheOK`). A failure takes a request from somewhere within a
cache to behind its store. `UnwindKeeps` shows that the points agree there: the
path at the store has the grant and the kind of the cache, whatever lay between
(`AtStore`), and the caches that are passed are those opened within. The secrets
of an agent and the environment of a child have an invariant each (`AllSecrets`,
`AllChildren`) that only needs to know what a step takes off the sequence.

Three theorems have a hypothesis:

* `AnsweredForItsSettings` and `AnswersInForce` assume `DigestsTell`: of the lists
  of settings that are hashed for the names of cache files (`Hashed`), no two have
  one digest, and no digest is empty. For all settings this is false and so would
  the theorems be: nothing separates the fields that are hashed
  (`config/digest.go:151`), so settings that join to one text share a file.
* `OutputIsKept` assumes that `Nil` is no token.

`DigestsTell` says nothing of what the digests are for, so it remains to be proved
that they have every setting that matters. What a token is granted for is a
function of settings (`ClientGrant`, `DeviceCodeGrant`, `OpenApiGrant`,
`AnswerGrant`), and the lemmas about the steps (`AsksClient` and those it cites)
show that a request asks for just that: the settings no digest has, like the
client's secret or a card's PIN, do not change it.
`HashTells` up to `CloudAccountTells` show, digest by digest, that equal digests
come from settings that agree in the rest, and `KeysTell` that caches which
share a file are of one kind and ask for one grant. Some caches exist only for
settings that are complete (`FramesSettled`). The theorems then say that, digests
that collide aside, nothing goes wrong: not through the flags, the edits of the
settings, the failures or the other requests.

The hypotheses hold of the constants of the run: there are 28 caches and 55
hashed lists, with different digests, and four pairs of different caches have a
common file.

The bounds `MaxTime`, `MaxToken`, `MaxStamp`, `MaxPolls` and `MaxFrames` are
constants like the others, so the theorems hold for every bound.

Every invariant and every action property that a run checks is proved. One proof
corrected the model: the conditions of `Command` overlapped, and a `CASE` whose
conditions overlap may take any of the branches that apply, which TLC does not
show as it takes the first.

Model-checked only: everything that says "eventually" (`EveryRequestEnds`,
`EveryCallEnds`, `EveryFlowEnds`, `SessionEnds`), as liveness under fairness is out
of the prover's reach.

## Findings

* clean-cache removes the log it is writing (`CurrentLogKept`):
  `IsCurrentLog` compares the name of an entry with a full path
  (`idaaslog/log.go:103`, `commands/clean_cache/command.go:34`).
* A denial does not stop the fallback in a stack of two caches
  (`DenialStopsFallback`). The lower cache replaces the error whose text the
  upper one looks for (`utils/storage.go:165`).
* The client polls faster than the provider asks
  (`PollsNoFasterThanAsked`; `utils/util.go:59`, `oidc/oidc_device_code.go:177`).
* The terminal stays in raw mode when the server closes the connection
  (`RestoredAtExit`; `commands/start_session/command.go:144`, `203`).

Met while modelling, without a run of their own:

* ES512 is among the algorithms of the settings (`config/config.go:301`), and its
  signatures are refused by the conversion (`utils/util.go:92`): a theorem.
* A key file that is not PEM (`signer/key_file/key_file_signer.go:120`) and an
  agent without a provider (`commands/openclaw_secret/command.go:90`) end in a
  nil pointer: the step `panic`. A PKCS#11 key that is not on the token
  (`signer/pkcs11/pkcs11_signer.go:103`) does too, and so does an answer of the
  OpenAPI (`idp/client_openapi.go:53`) or of the STS of Alibaba Cloud and AWS
  (`cloud/alibaba_cloud/alibaba_cloud_sts_fetch.go:120`,
  `cloud/aws/aws_sts_fetch.go:105`) that lacks an optional field: `MayPanic`. The
  cached token that would have bridged an error is not used.
* The full names of the slots of a card are never recognised
  (`signer/yubikey_piv/yubikey_piv_signer.go:146`): see `SlotId`.
* Two commands with one output file may mix their texts
  (`commands/fetch_token/command.go:156`): the state `mixed`.
* An identifier given twice may have both a value and an error
  (`commands/openclaw_secret/command.go:104`); `SecretsAnswered` allows it.
* `EncodeMessage` pads the version with zeros that `DecodeMessage` keeps, and
  panics on a version of more than four bytes
  (`session_manager/axt_message.go:161`); nothing calls it.

## Not modelled, and why

* The commands that print (`show-cache`, `show-profile`, `show-signer-public-key`,
  `qr`, `version`): one read and the layout of what is printed.
* `validate-jwt` and the private CA's certificate request: one pass over one
  input, JSON, ASN.1 and cryptography.
* The signers of a build without hardware, which fail always.
* The HTTP client and the terminal's output, and the table of commands: input and
  output. What they do that matters, the time limit and the failure of any
  request, is in the models that make requests.
* Of the discovery document only the cache is modelled: it is `ReadThroughCache`
  with `AllowExpired`, to which the theorems apply; its fields are data.
* Of the HTTP server and the OpenClaw provider, the text of requests and answers;
  of the token formats, their JSON.
* Settings whose fields join to one text, and so share a cache file though they
  differ (`config/digest.go:151`): `AnsweredForTheseSettings` is not claimed for
  them; `DigestsTell` excludes them.

Left for later: an abstract sign-in (granted, denied or failed) that
`DeviceCodeFlow` implements; for which settings `DigestsTell` holds (that joined
texts differ is an induction over their fields).
