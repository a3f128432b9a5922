----------------------------- MODULE TokenRequest -----------------------------
(***************************************************************************)
(* Commands and requests to the HTTP server that need a token, running at  *)
(* the same time on one machine: they share the configuration file, the    *)
(* cache files, a card and perhaps an output file.                         *)
(*                                                                         *)
(* A request finds its profile and then runs the steps of Commands.  What  *)
(* can be seen from outside happens one step at a time: a step succeeds,   *)
(* or fails and the request goes back to the caches it has read on its     *)
(* way, innermost first.  How a single cache file is read and written is   *)
(* ReadThroughCache, how a user signs in DeviceCodeFlow and TokenResponse. *)
(***************************************************************************)
EXTENDS Commands, FiniteSetsExt, TLC

CONSTANTS
  Req,         \* requests, each made once
  Asks,        \* what the requests may ask for: functions on Req
  Configs,     \* the states of the configuration file and the key files, in
               \* the order in which a user brings them about
  Answers,     \* what the servers answer to the steps with a grant: records
               \* of lifetimes in minutes, Nil for a token that is not there
  CloudLife,   \* the lifetime of a cloud token
  OsEnv,       \* the environment of the program
  Ticks,       \* the steps of the clock, in minutes
  MaxTime      \* bound of the clock

CommandNames ==
  {"fetch-token", "execute", "show-token", "start-session", "serve", "openclaw-secret"}

AskType ==
  [command: CommandNames, argument: [text: STRING, inline: Option(CloudStsConfig)],
   forceNew: BOOLEAN, forceNewCloudToken: BOOLEAN, oidcField: STRING, oidcFormat: STRING,
   format: STRING, output: BOOLEAN, args: BOOLEAN, region: STRING, header: STRING,
   parameter: STRING, ssrfToken: STRING, protocolVersion: Nat, ids: Seq(STRING)]

ASSUME AsksAssumption == Asks \subseteq [Req -> AskType]

\* The file is there or not, and what is there has the structure of Settings.
ASSUME ConfigsAssumption ==
  /\ Len(Configs) \in Nat \ {0} /\ DOMAIN Configs = 1..Len(Configs)
  /\ \A i \in DOMAIN Configs : Configs[i].file # Nil => IsConfigFile(Configs[i].file)

ASSUME AnswersAssumption ==
  /\ DOMAIN Answers = {"token", "sign in", "open api"}
  /\ \A op \in DOMAIN Answers :
       Answers[op] \subseteq [id: Option(Nat), access: Nat, at: Option(Nat), in: Nat]

ASSUME TimeAssumption == CloudLife \in Nat /\ Ticks \subseteq Nat /\ MaxTime \in Nat

ASSUME OsEnvAssumption == OsEnv \in Seq(STRING \X STRING)

VARIABLES clock, config, cache, card, output, request

vars == <<clock, config, cache, card, output, request>>

Tokens == INSTANCE OidcTokens

Category == {"cloud_token", "oidc_token"}

NotRead == [c \in Category |-> Nil]

Init ==
  /\ clock = 0
  /\ config = 1
  /\ cache = <<>>
  /\ card = Nil
  /\ output = [state |-> "old", token |-> Nil]
  /\ \E asks \in Asks :
       request = [r \in Req |->
         [stage |-> "idle", ask |-> asks[r], todo |-> <<>>, wanted |-> Nil, val |-> Nil,
          read |-> NotRead, start |-> 0, values |-> {}, errors |-> {},
          environment |-> <<>>]]

-----------------------------------------------------------------------------
(* Steps of a request.                                                     *)

At(r, op) == request[r].stage = "running" /\ Head(request[r].todo).op = op

\* q with these steps left.
Left(q, todo) ==
  IF todo = <<>> THEN [q EXCEPT !.todo = todo, !.stage = "done", !.start = 0, !.read = NotRead]
  ELSE [q EXCEPT !.todo = todo]

Advance(q) == Left(q, Tail(q.todo))

\* r becomes q and has taken its step.
Becomes(r, q) ==
  /\ request' = [request EXCEPT ![r] = Advance(q)]
  /\ UNCHANGED <<clock, config>>

\* What the steps, if they all succeed, end up getting a token for.
Wanted(steps) ==
  LET grants == {i \in DOMAIN steps : "grant" \in DOMAIN steps[i]}
      picks == {i \in DOMAIN steps : steps[i].op = "pick"}
      answer == steps[Min(grants)].grant
      paid == <<steps[Min(picks)].with, answer>>
  IN CASE grants = {} \/ (\E i \in DOMAIN steps : steps[i].op = "refuse") -> Nil
       [] OTHER -> IF picks = {} THEN answer
                   ELSE IF Min(grants) = Max(grants) THEN paid
                   ELSE Append(steps[Max(grants)].grant, paid)

Ask(r) ==
  LET a == request[r].ask
      found == FindProfile(Configs[config].file, a.argument, IgnoreParseFromProfile(a))
      steps == Command(found, a)
  IN /\ request[r].stage = "idle"
     /\ request' = [request EXCEPT ![r] =
          [@ EXCEPT !.stage = "running", !.todo = steps, !.wanted = Wanted(steps)]]
     /\ UNCHANGED <<clock, config, cache, card, output>>

-----------------------------------------------------------------------------
(* The caches.                                                             *)

FetchTokenType(q) == Tokens!GetOidcTokenType(q.ask.oidcField)

\* The owner is a part of the name of a file, the digest the other.
KeyOf(frame, mtime) ==
  LET c == frame.settings
  IN <<frame.category, frame.owner,
       CASE frame.layer = "provider" -> DigestProvider(c, mtime)
         [] frame.layer = "OidcToken" -> DigestProvider(c, mtime)
         [] frame.layer = "AlibabaCloud" -> DigestAlibabaCloud(c, mtime)
         [] frame.layer = "Aws" -> DigestAws(c, mtime)
         [] frame.layer = "CloudAccount" -> DigestCloudAccount(c, mtime)>>

Content(key) == IF key \in DOMAIN cache THEN cache[key] ELSE Nil

IndexOfStore(q, category) ==
  SelectInSeq(q.todo, LAMBDA s : s.op = "store" /\ s.category = category)

\* q, given this token by the cache of this category.
Given(q, i, token) ==
  LET passed == {q.todo[j].category : j \in {j \in 1..i : q.todo[j].op = "store"}}
  IN Left([q EXCEPT !.val = token,
                    !.read = [c \in Category |-> IF c \in passed THEN Nil ELSE @[c]]],
          SubSeq(q.todo, i + 1, Len(q.todo)))

\* The file is read; if there is nothing good in it, the key, the content and
\* the settings of the cache are kept for the end of the fetch.
Lookup(r) ==
  LET q == request[r]
      frame == Head(q.todo)
      key == KeyOf(frame, Configs[config].mtime)
      token == Content(key)
      fetches == \/ frame.force \/ token = Nil
                 \/ Tokens!IsContentExpiringOrExpired(frame.layer, token,
                                                      FetchTokenType(q), clock)
      kept == [key |-> key, layer |-> frame.layer, token |-> token, force |-> frame.force]
  IN /\ At(r, "cache")
     /\ request' = [request EXCEPT ![r] =
          IF fetches THEN Advance([q EXCEPT !.read[frame.category] = kept])
          ELSE Given(q, IndexOfStore(q, frame.category), token)]
     /\ UNCHANGED <<clock, config, cache, card, output>>

\* Whether the file is written or the writing fails, the token is returned.
Store(r) ==
  LET q == request[r]
      category == Head(q.todo).category
      file == q.read[category].key
      written == [key \in DOMAIN cache \cup {file} |->
                    IF key = file THEN q.val ELSE cache[key]]
  IN /\ At(r, "store")
     /\ cache' \in {cache, written}
     /\ Becomes(r, [q EXCEPT !.read[category] = Nil])
     /\ UNCHANGED <<card, output>>

Usable(q, category) ==
  LET kept == q.read[category]
  IN /\ kept.token # Nil /\ ~kept.force
     /\ ~Tokens!IsContentExpired(kept.layer, kept.token, FetchTokenType(q), clock)

\* The closing of a card that is open is among the steps left, and no
\* opening before it.
ToBeClosed(q) ==
  LET i == SelectInSeq(q.todo, LAMBDA s : s.op \in {"open card", "open token", "close"})
  IN i > 0 /\ q.todo[i].op = "close"

Closed(r, q) == IF card = r /\ ToBeClosed(q) THEN Nil ELSE card

\* A step fails: the open card is closed, and the first cache on the way out
\* that kept a good token gives it.  A denial passes the innermost cache, and
\* is an error like others from there on.
Unwind(r, denied) ==
  LET q == request[r]
      caches == {i \in DOMAIN q.todo : q.todo[i].op = "store" /\ q.read[q.todo[i].category] # Nil}
      asked == IF denied /\ caches # {} THEN caches \ {Min(caches)} ELSE caches
      usable == {i \in asked : Usable(q, q.todo[i].category)}
  IN /\ request' = [request EXCEPT ![r] =
          IF usable = {} THEN [q EXCEPT !.stage = "failed", !.todo = <<>>, !.start = 0,
                                        !.read = NotRead, !.val = Nil]
          ELSE Given(q, Min(usable), q.read[q.todo[Min(usable)].category].token)]
     /\ card' = Closed(r, q)
     /\ UNCHANGED <<clock, config, cache, output>>

-----------------------------------------------------------------------------
(* The steps that fetch.                                                   *)

\* Steps on which nothing depends but whether they succeed.
Plain == {"client", "read file", "decrypt", "claims", "certificate", "find key",
          "find key pair", "run signer", "open token", "metadata token", "metadata", "decode",
          "start terminal session", "dial", "run command"}

Proceed(r) ==
  /\ \E op \in Plain : At(r, op)
  /\ Becomes(r, request[r])
  /\ UNCHANGED <<cache, card, output>>

\* A card is opened by one at a time.
OpenCard(r) ==
  /\ At(r, "open card") /\ card = Nil
  /\ card' = r
  /\ Becomes(r, request[r])
  /\ UNCHANGED <<cache, output>>

Close(r) ==
  /\ At(r, "close")
  /\ card' = Closed(r, request[r])
  /\ Becomes(r, request[r])
  /\ UNCHANGED <<cache, output>>

SignAssertion(r) ==
  /\ At(r, "sign")
  /\ LET s == Head(request[r].todo) IN \E n \in JwtSignature(s.with, s.kind) : n # 0
  /\ Becomes(r, request[r])
  /\ UNCHANGED <<cache, card, output>>

\* The clock is read before a fetch, for answers that tell a lifetime.
Start(r) ==
  /\ At(r, "start")
  /\ Becomes(r, [request[r] EXCEPT !.start = clock])
  /\ UNCHANGED <<cache, card, output>>

From(now, life) == IF life = Nil THEN Nil ELSE now + life

\* The token endpoint, the provider a user has signed in to, or the OpenAPI
\* answers.
Answered(r) ==
  LET s == Head(request[r].todo)
  IN /\ \E op \in DOMAIN Answers : At(r, op)
     /\ \E a \in Answers[s.op] :
          Becomes(r, [request[r] EXCEPT !.val =
            [grant |-> s.grant, id |-> From(clock, a.id), access |-> clock + a.access,
             at |-> IF a.at = Nil THEN 0 ELSE clock + a.at, in |-> a.in]])
     /\ UNCHANGED <<cache, card, output>>

\* After a server error the same request is made once more.
ServerError(r) ==
  /\ At(r, "token") /\ Head(request[r].todo).again
  /\ request' = [request EXCEPT ![r].todo[1].again = FALSE]
  /\ UNCHANGED <<clock, config, cache, card, output>>

\* The user denies the authorisation.
Deny(r) == At(r, "sign in") /\ Unwind(r, TRUE)

Keep(r) ==
  /\ At(r, "keep")
  /\ Becomes(r, [request[r] EXCEPT !.val = Tokens!FromTokenResponse(request[r].start, @)])
  /\ UNCHANGED <<cache, card, output>>

Pick(r) ==
  /\ At(r, "pick")
  /\ Becomes(r, [request[r] EXCEPT !.val = Tokens!Picked(Head(request[r].todo).with, @)])
  /\ UNCHANGED <<cache, card, output>>

\* A cloud account belongs to one vendor or another.
ExchangeToken(r) ==
  LET s == Head(request[r].todo)
      kinds == IF s.kind = "account" THEN {"account", "account of another vendor"} ELSE {s.kind}
  IN /\ At(r, "exchange")
     /\ \E kind \in kinds :
          Becomes(r, [request[r] EXCEPT !.val =
            [grant |-> Append(s.grant, @.grant), kind |-> kind, exp |-> clock + CloudLife]])
     /\ UNCHANGED <<cache, card, output>>

-----------------------------------------------------------------------------
(* The steps of the commands.                                              *)

Format(r) ==
  /\ At(r, "format") /\ Formats(request[r].ask, request[r].val.kind)
  /\ Becomes(r, request[r])
  /\ UNCHANGED <<cache, card, output>>

OpenOutput(r) ==
  /\ At(r, "open output")
  /\ output' = [state |-> "empty", token |-> Nil]
  /\ Becomes(r, request[r])
  /\ UNCHANGED <<cache, card>>

\* Both who opened the file write at its start: the shorter text leaves the
\* end of the longer one behind.
WriteOutput(r) ==
  /\ At(r, "write output")
  /\ \E state \in IF output.state = "empty" THEN {"whole"} ELSE {"whole", "mixed"} :
       output' = [state |-> state, token |-> request[r].val]
  /\ Becomes(r, request[r])
  /\ UNCHANGED <<cache, card>>

Environment(r) ==
  LET q == request[r]
      environment == PutEnvForToken(OsEnv, Head(q.todo).environments, q.val.kind,
                                    "token", q.ask.region)
  IN /\ At(r, "environment")
     /\ Becomes(r, [q EXCEPT !.environment = environment])
     /\ UNCHANGED <<cache, card, output>>

\* A slip: an unknown identifier is passed over.
CredentialUnlessUnknown(r) ==
  LET q == request[r]
      id == Head(q.todo).with
  IN /\ At(r, "credential")
     /\ \/ Becomes(r, [q EXCEPT !.values = @ \cup {id}])
        \/ Becomes(r, [q EXCEPT !.errors = @ \cup {id}])
        \/ Becomes(r, q)
     /\ UNCHANGED <<cache, card, output>>

\* The service gives an API key for an identifier; or it gives something
\* else, does not know it, or fails.
Credential(r) ==
  LET q == request[r]
      id == Head(q.todo).with
  IN /\ At(r, "credential")
     /\ \/ Becomes(r, [q EXCEPT !.values = @ \cup {id}])
        \/ Becomes(r, [q EXCEPT !.errors = @ \cup {id}])
     /\ UNCHANGED <<cache, card, output>>

-----------------------------------------------------------------------------
(* Failures, and the world.                                                *)

Failing == Plain \cup {"refuse", "open card", "sign", "token", "sign in", "open api",
                       "exchange", "open output", "write output"}

Fail(r) ==
  /\ \/ \E op \in Failing : At(r, op)
     \/ At(r, "format") /\ ~Formats(request[r].ask, request[r].val.kind)
  /\ Unwind(r, FALSE)

\* The steps that take what they are given without asking whether it is
\* there: a key that is not on the token, and the optional fields of what
\* the OpenAPI, Alibaba Cloud and AWS answer.
MayPanic(s) ==
  \/ s.op \in {"panic", "find key pair", "open api"}
  \/ s.op = "exchange" /\ s.kind \in {"alibaba", "aws"}

\* A nil pointer passes all caches; what was deferred is done.
Panic(r) ==
  /\ request[r].stage = "running" /\ MayPanic(Head(request[r].todo))
  /\ request' = [request EXCEPT ![r] =
       [@ EXCEPT !.stage = "failed", !.todo = <<>>, !.start = 0, !.read = NotRead, !.val = Nil]]
  /\ card' = Closed(r, request[r])
  /\ UNCHANGED <<clock, config, cache, output>>

\* The process is killed, and the system closes what it had open.
Crash(r) ==
  /\ request[r].stage = "running"
  /\ request' = [request EXCEPT ![r] =
       [@ EXCEPT !.stage = "failed", !.todo = <<>>, !.start = 0, !.read = NotRead, !.val = Nil]]
  /\ card' = IF card = r THEN Nil ELSE card
  /\ UNCHANGED <<clock, config, cache, output>>

EditConfig ==
  /\ config < Len(Configs)
  /\ config' = config + 1
  /\ UNCHANGED <<clock, cache, card, output, request>>

Tick ==
  /\ \E n \in Ticks : clock' = clock + n /\ clock' <= MaxTime
  /\ UNCHANGED <<config, cache, card, output, request>>

FetchStep(r) ==
  \/ Lookup(r) \/ Store(r) \/ Proceed(r) \/ OpenCard(r) \/ Close(r) \/ SignAssertion(r)
  \/ Start(r) \/ Answered(r) \/ ServerError(r) \/ Deny(r) \/ Keep(r) \/ Pick(r)
  \/ ExchangeToken(r)

CommandStep(r) ==
  Format(r) \/ OpenOutput(r) \/ WriteOutput(r) \/ Environment(r) \/ Credential(r)

Next ==
  \/ \E r \in Req :
       \/ Ask(r)
       \/ FetchStep(r) \/ CommandStep(r)
       \/ Fail(r) \/ Panic(r) \/ Crash(r)
  \/ EditConfig
  \/ Tick

Spec == Init /\ [][Next]_vars

-----------------------------------------------------------------------------
(* Properties.                                                             *)

Ended(q) == q.stage \in {"done", "failed"}

\* The variables have their types, and a cache file holds what the readers of
\* its category expect: the whole answer of a server is in neither.
TypeOK ==
  /\ clock \in 0..MaxTime
  /\ config \in DOMAIN Configs
  /\ \A key \in DOMAIN cache :
       /\ cache[key] \in Tokens!Contents({cache[key].grant})
       /\ (cache[key].kind = "jwt") = (key[1] = "oidc_token")
  /\ card \in Option(Req)
  /\ output.state \in {"old", "empty", "whole", "mixed"}
  /\ \A r \in Req :
       /\ request[r].stage \in {"idle", "running", "done", "failed"}
       /\ request[r].stage = "running" => request[r].todo # <<>>
       /\ request[r].stage # "running" => request[r].read = NotRead

\* Whatever files a request is answered from, and whoever wrote them under
\* which settings, its token is the one the settings it found would have
\* fetched: for the same client, scope, role and account, paid with the same
\* kind of token.  So every setting that decides what a token is good for is
\* in the digests that name the files.
AnsweredForTheseSettings ==
  \A r \in Req :
    LET q == request[r]
    IN q.stage = "done" /\ q.wanted # Nil => q.val.grant = q.wanted

HasStore(q) == \E i \in DOMAIN q.todo : q.todo[i].op = "store"

UsesIdToken(a) == a.oidcField # "access_token"

UsesAccessToken(a) == a.oidcField # "id_token"

\* Each token the command uses that tells when it runs out has not run out.
InForce(token, a) ==
  IF token.kind = "oidc"
  THEN /\ UsesIdToken(a) /\ token.id # Nil => token.id > clock
       /\ UsesAccessToken(a) /\ token.exp > 0 => token.exp > clock
  ELSE token.exp > clock

\* What a request takes from a file instead of fetching it is in force, the
\* ID token and the access token judged by which of them the command uses:
\* requests that use the one, the other or both share a file.
FileAnswersAreInForce ==
  [][\A r \in Req :
       LET q == request[r]
           p == request'[r]
       IN q.stage = "running" /\ HasStore(q) /\ Head(q.todo).op # "store"
          /\ p.stage # "failed" /\ ~HasStore(p)
            => InForce(p.val, p.ask)]_vars

\* A key that fits its algorithm always makes a signature of the length the
\* algorithm prescribes, however many leading zeros R and S happen to have
\* lost (two at most, see JwtSignature).  ES512 is left out: its signatures
\* are never accepted.
SignatureFits ==
  \A r \in Req :
    At(r, "sign") =>
      LET s == Head(request[r].todo)
      IN KeyFits(s.kind, s.with) /\ s.with \in Ecc \ {"ES512"}
           => JwtSignature(s.with, s.kind) = {2 * CoordLen(s.kind)}

\* Whoever has the card open is going to close it, and has before it ends,
\* however its steps fail: a server that forgot would shut out all signers.
CardReleased ==
  card # Nil => request[card].stage = "running" /\ ToBeClosed(request[card])

\* Every identifier asked for gets a value or an error, and both only if it
\* was given twice.
SecretsAnswered ==
  \A r \in Req :
    LET q == request[r]
        ids == q.ask.ids
    IN q.stage = "done" /\ q.ask.command = "openclaw-secret" =>
         /\ q.values \cup q.errors = {ids[i] : i \in DOMAIN ids}
         /\ \A id \in q.values \cap q.errors :
              \E i, j \in DOMAIN ids : i # j /\ ids[i] = id /\ ids[j] = id

\* The output file is touched only by a command that has its token and all
\* its fetching behind it: a command that fails to get one leaves the last
\* good credentials where other programs read them.
OutputKept ==
  [][output' # output =>
       \E r \in Req :
         /\ At(r, "open output") \/ At(r, "write output")
         /\ request[r].val # Nil /\ ~HasStore(request[r])]_vars

\* A child process sees the fetched credentials, whatever its parent's
\* environment and the profile's say.
ChildHasItsToken ==
  \A r \in Req :
    LET q == request[r]
    IN q.stage = "done" /\ q.ask.command = "execute" =>
         \A name \in CredentialNames(q.val.kind) : Getenv(q.environment, name) = "token"
=============================================================================
