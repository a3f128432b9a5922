------------------------------- MODULE Commands -------------------------------
(***************************************************************************)
(* The commands that need a token, as the sequences of their steps: the    *)
(* layers of caches of the profile's cloud, and what the command does with *)
(* the token.  Nothing here changes state; TokenRequest runs the steps.    *)
(*                                                                         *)
(* An ask is a record of the command and its arguments.  Between "cache"   *)
(* and the "store" of the same category are the steps that fetch.          *)
(***************************************************************************)
EXTENDS ClientCredentials

-----------------------------------------------------------------------------
(* The layers.                                                             *)

Cached(category, layer, owner, settings, force, fetch) ==
  <<[op |-> "cache", category |-> category, layer |-> layer, owner |-> owner,
     settings |-> settings, force |-> force]>>
  \o fetch \o
  <<[op |-> "store", category |-> category]>>

\* The JWT that pays for a cloud token, shared by the profiles of a provider.
IdpFetchOidcToken(c, forceNew) ==
  Cached("oidc_token", "provider", GetId(c), c, forceNew, FetchJwt(c))

Exchange(kind, grant) == <<[op |-> "exchange", kind |-> kind, grant |-> grant]>>

\* A session is named by the settings, or after the subject of the token.
SessionName(c) == IF c.RoleSessionName = "" THEN "generated" ELSE c.RoleSessionName

FetchAlibabaCloud(name, c, a) ==
  LET endpoint == IF c.StsEndpoint = "" THEN "sts." \o c.Region ELSE c.StsEndpoint
  IN Provided(c.OidcTokenProvider # Nil /\ (c.StsEndpoint # "" \/ c.Region # ""),
       Cached("cloud_token", "AlibabaCloud", name, c, a.forceNew \/ a.forceNewCloudToken,
         <<Step("client")>> \o IdpFetchOidcToken(c.OidcTokenProvider, a.forceNew) \o
         Exchange("alibaba",
           <<endpoint, c.OidcProviderArn, c.RoleArn, c.DurationSeconds, SessionName(c)>>)))

\* The region is asked for where the client is made, inside the fetch.
FetchAws(name, c, a) ==
  Provided(c.OidcTokenProvider # Nil,
    Cached("cloud_token", "Aws", name, c, a.forceNew \/ a.forceNewCloudToken,
      Provided(c.Region # "", <<Step("client")>>) \o
      IdpFetchOidcToken(c.OidcTokenProvider, a.forceNew) \o
      Exchange("aws", <<c.Region, c.RoleArn, c.DurationSeconds, SessionName(c)>>)))

FetchCloudAccount(name, c, a) ==
  LET provider == [c.AccessTokenProvider EXCEPT !.TokenType = "access_token"]
  IN Provided(c.AccessTokenProvider # Nil /\ GetCloudAccountEndpoint(c) # <<>>,
       Cached("cloud_token", "CloudAccount", name, c, a.forceNew \/ a.forceNewCloudToken,
         IdpFetchOidcToken(provider, a.forceNew) \o
         Exchange("account",
           Append(GetCloudAccountEndpoint(c), c.CloudAccountRoleExternalId))))

\* One layer only.  The clock is read before the fetch starts.
CloudFetchOidcToken(name, c, a) ==
  Cached("cloud_token", "OidcToken", name, c, a.forceNew \/ a.forceNewCloudToken,
    <<Step("start")>> \o Then(FetchTokenResponse(c), <<Step("keep")>>))

Clouds(c) == {s \in {"AlibabaCloud", "Aws", "OidcToken", "CloudAccount"} : c[s] # Nil}

FetchCloudSts(name, c, a) ==
  CASE Clouds(c) = {"AlibabaCloud"} -> FetchAlibabaCloud(name, c.AlibabaCloud, a)
    [] Clouds(c) = {"Aws"} -> FetchAws(name, c.Aws, a)
    [] Clouds(c) = {"OidcToken"} -> CloudFetchOidcToken(name, c.OidcToken, a)
    [] Clouds(c) = {"CloudAccount"} -> FetchCloudAccount(name, c.CloudAccount, a)
    [] OTHER -> Refuse

-----------------------------------------------------------------------------
(* The commands, found telling their profile's name and settings.          *)

\* A slip: the file is emptied before there is a token to write into it.
FetchTokenOpensFirst(found, a) ==
  IF a.output
  THEN <<Step("open output")>> \o FetchCloudSts(found.name, found.settings, a) \o
       <<Step("format"), Step("write output")>>
  ELSE FetchCloudSts(found.name, found.settings, a) \o <<Step("format")>>

FetchTokenCommand(found, a) ==
  FetchCloudSts(found.name, found.settings, a) \o <<Step("format")>> \o
  IF a.output THEN <<Step("open output"), Step("write output")>> ELSE <<>>

Execute(found, a) ==
  FetchCloudSts(found.name, found.settings, a) \o
  <<Step("format"), [op |-> "environment", environments |-> found.settings.Environments]>> \o
  Provided(a.args, <<Step("run command")>>)

ShowToken(found, a) == FetchCloudSts(found.name, found.settings, a) \o <<Step("format")>>

StartSession(found, a) ==
  FetchCloudSts(found.name, found.settings, a) \o
  <<Step("format"), Step("client"), Step("start terminal session"), Step("dial")>>

\* The token of the request is in its header, or else among its parameters.
GetSsrfToken(a) == IF a.header # "" THEN a.header ELSE a.parameter

IsRequestAllowed(a) == a.ssrfToken # "" => GetSsrfToken(a) = a.ssrfToken

HandleCloudToken(found, a) ==
  FetchCloudSts(found.name, found.settings, a) \o <<Step("format")>>

\* The request on standard input is read after the settings are checked.
FetchOpenClawSecret(found, a) ==
  LET c == found.settings.Agent
      provider == [c.AccessTokenProvider EXCEPT !.TokenType = "access_token"]
  IN IF c = Nil \/ a.protocolVersion # 1 THEN Refuse
     ELSE IF GetCredentialEndpoint(c) = <<>> THEN Refuse
     ELSE IF c.AccessTokenProvider = Nil THEN <<Step("panic")>>
     ELSE IdpFetchOidcToken(provider, a.forceNew) \o
          [i \in DOMAIN a.ids |-> With("credential", a.ids[i])]

\* Whether a command takes its settings from its argument too.
IgnoreParseFromProfile(a) == a.command = "serve"

Command(found, a) ==
  IF found.settings = Nil \/ (a.command = "serve" /\ ~IsRequestAllowed(a)) THEN Refuse
  ELSE CASE a.command = "fetch-token" -> FetchTokenCommand(found, a)
         [] a.command = "execute" -> Execute(found, a)
         [] a.command = "show-token" -> ShowToken(found, a)
         [] a.command = "start-session" -> StartSession(found, a)
         [] a.command = "serve" -> HandleCloudToken(found, a)
         [] a.command = "openclaw-secret" -> FetchOpenClawSecret(found, a)

-----------------------------------------------------------------------------
(* What the commands make of a token of some kind.                         *)

IsAlibabaCloudToken(kind) == kind \in {"alibaba", "account"}

MarshalWithFormat(format) == format \in {"", "aliyuncli", "ossutilv2"}

\* Whether the command has a use for the token.
Formats(a, kind) ==
  CASE a.command = "fetch-token" ->
         /\ kind = "alibaba" => MarshalWithFormat(a.format)
         /\ kind = "oidc" /\ a.oidcField \notin {"id_token", "access_token"} =>
              a.oidcFormat \in {"", "type1", "type2"}
         /\ kind = "account" => a.format = "raw" \/ MarshalWithFormat(a.format)
    [] a.command = "execute" -> IsAlibabaCloudToken(kind) \/ kind = "aws"
    [] a.command = "start-session" -> kind = "alibaba"
    [] a.command = "serve" -> IsAlibabaCloudToken(kind)
    [] OTHER -> TRUE

-----------------------------------------------------------------------------
(* The environment of a child: pairs of a name and a value, of which the   *)
(* last of a name counts.  One name stands for each of the spellings that  *)
(* are set alike.                                                          *)

PutEnv(names, value) == SetToSeq({<<n, value>> : n \in names})

CredentialNames(kind) ==
  IF kind = "aws" THEN {"AWS_ACCESS_KEY_ID", "AWS_SECRET_ACCESS_KEY", "AWS_SESSION_TOKEN"}
  ELSE {"ACCESS_KEY_ID", "ACCESS_KEY_SECRET", "SECURITY_TOKEN"}

RegionNames(kind) == IF kind = "aws" THEN {"AWS_REGION"} ELSE {"REGION"}

AddEnvironmentsFromConfig(osEnv, environments) == osEnv \o environments

PutEnvForRegion(kind, region) ==
  IF region = "" THEN <<>> ELSE PutEnv(RegionNames(kind), region)

\* A slip: what the profile sets is added last.
PutEnvBeforeConfig(osEnv, environments, kind, token, region) ==
  AddEnvironmentsFromConfig(
    osEnv \o PutEnv(CredentialNames(kind), token) \o PutEnvForRegion(kind, region),
    environments)

PutEnvForToken(osEnv, environments, kind, token, region) ==
  AddEnvironmentsFromConfig(osEnv, environments) \o
  PutEnv(CredentialNames(kind), token) \o PutEnvForRegion(kind, region)

Getenv(environment, name) ==
  LET i == SelectLastInSeq(environment, LAMBDA pair : pair[1] = name)
  IN IF i = 0 THEN "" ELSE environment[i][2]
=============================================================================
