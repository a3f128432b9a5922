--------------------------- MODULE MCTokenRequest ---------------------------
(***************************************************************************)
(* One profile for each cloud and each way to authenticate, between them.  *)
(***************************************************************************)
EXTENDS TokenRequest

CONSTANTS r1, r2

Reqs == {r1, r2}

-----------------------------------------------------------------------------
(* Settings.                                                               *)

NoClient ==
  [TokenEndpoint |-> "https://idp/token", ClientId |-> "client", Scope |-> "",
   ApplicationFederatedCredentialName |-> "", ClientSecret |-> "",
   ClientAssertionSinger |-> Nil, ClientAssertionPkcs7Config |-> Nil,
   ClientAssertionPrivateCaConfig |-> Nil, ClientAssertionOidcTokenConfig |-> Nil]

NoSigner ==
  [KeyID |-> "kid", Algorithm |-> "ES256", Pkcs11 |-> Nil, YubikeyPiv |-> Nil,
   ExternalCommand |-> Nil, KeyFile |-> Nil]

Card == [NoSigner EXCEPT !.YubikeyPiv = [Slot |-> "r1", Pin |-> "1", PinPolicy |-> "once"]]

TokenOfRsaKeys ==
  [NoSigner EXCEPT !.Pkcs11 = [LibraryPath |-> "lib", TokenLabel |-> "token",
                               KeyLabel |-> "rsa", Pin |-> "1"]]

Program ==
  [NoSigner EXCEPT !.Algorithm = "ES512",
                   !.ExternalCommand = [Command |-> "sign", Parameter |-> "key"]]

KeyFile(name) ==
  [NoSigner EXCEPT !.Algorithm = "ES384",
                   !.KeyFile = [Key |-> "", File |-> name, Password |-> "pw"]]

\* The keys behind those names; "signed" is a file that is no key at all.
Keys ==
  [k \in {"r1", "rsa", "sign", "key.pem", "signed"} |->
     CASE k = "r1" -> [form |-> "pem", kind |-> "P-256"]
       [] k = "rsa" -> [form |-> "pem", kind |-> "RSA"]
       [] k = "sign" -> [form |-> "pem", kind |-> "P-521"]
       [] k = "key.pem" -> [form |-> "encrypted", kind |-> "P-384"]
       [] k = "signed" -> [form |-> "dashes", kind |-> "RSA"]]

Provider(client) ==
  [TokenType |-> "", ClientCredentials |-> client, DeviceCode |-> Nil, OpenApi |-> Nil]

SignedIn(scope) ==
  [Provider(Nil) EXCEPT !.DeviceCode =
     [Issuer |-> "https://idp", ClientId |-> "cli", Scope |-> scope, ClientSecret |-> ""]]

ByOpenApi ==
  [Provider(Nil) EXCEPT !.OpenApi =
     [InstanceId |-> "idaas", ApplicationId |-> "app", ScopeValues |-> <<"a", "b">>,
      Audience |-> "aud", OpenApiEndpoint |-> "", Type |-> "access_key",
      Credential |-> "ak"]]

BySigner(s) == Provider([NoClient EXCEPT !.ClientAssertionSinger = s])

ByX509(file) ==
  Provider([NoClient EXCEPT !.ClientAssertionPrivateCaConfig =
    [Certificate |-> "cert", CertificateFile |-> "", CertificateChain |-> "",
     CertificateChainFile |-> "chain.pem", CertificateKeySigner |-> KeyFile(file)]])

ByPkcs7(federated) ==
  Provider([NoClient EXCEPT
    !.ApplicationFederatedCredentialName = federated,
    !.ClientAssertionPkcs7Config =
      [Provider |-> "alibaba_cloud", AlibabaCloudMode |-> "secure",
       AlibabaCloudIdaasInstanceId |-> "idaas"]])

BySecret(scope) ==
  Provider([NoClient EXCEPT !.Scope = scope, !.ClientSecret = "secret"])

ByGcp ==
  Provider([NoClient EXCEPT !.ClientAssertionOidcTokenConfig =
    [Provider |-> "gcp", GoogleVmIdentityUrl |-> "", GoogleVmIdentityAud |-> "",
     OidcToken |-> "", OidcTokenFile |-> ""]])

ByNothing == Provider(NoClient)

NoCloud ==
  [AlibabaCloud |-> Nil, Aws |-> Nil, OidcToken |-> Nil, CloudAccount |-> Nil,
   Agent |-> Nil, Environments |-> <<>>]

Alibaba(provider) ==
  [NoCloud EXCEPT
    !.Environments = <<<<"ACCESS_KEY_ID", "old">>, <<"REGION", "old">>>>,
    !.AlibabaCloud =
      [Region |-> "cn", StsEndpoint |-> "", OidcProviderArn |-> "idp", RoleArn |-> "role",
       DurationSeconds |-> "", RoleSessionName |-> "", OidcTokenProvider |-> provider]]

AwsCloud(provider) ==
  [NoCloud EXCEPT
    !.Aws = [Region |-> "us", RoleArn |-> "role", DurationSeconds |-> "",
             RoleSessionName |-> "me", OidcTokenProvider |-> provider]]

Account(provider) ==
  [NoCloud EXCEPT
    !.CloudAccount =
      [CloudAccountRegion |-> "cn", CloudAccountInstanceId |-> "idaas",
       CloudAccountEndpoint |-> "", InstanceId |-> "", DeveloperApiEndpoint |-> "",
       CloudAccountRoleExternalId |-> "ext", AccessTokenProvider |-> provider]]

AgentOf(provider) ==
  [NoCloud EXCEPT
    !.Agent = [InstanceId |-> "idaas", DeveloperApiEndpoint |-> "https://api",
               AccessTokenProvider |-> provider]]

Oidc(provider) == [NoCloud EXCEPT !.OidcToken = provider]

\* The profiles; a later state of the file has other scopes, names and keys.
Profiles(scope, federated, key) ==
  [name \in {"default", "card", "token", "aws", "account", "agent", "oidc", "api",
             "nothing"} |->
     CASE name = "default" -> Alibaba(BySecret(scope))
       [] name = "card" -> Alibaba(BySigner(Card))
       [] name = "token" -> AwsCloud(BySigner(TokenOfRsaKeys))
       [] name = "aws" -> AwsCloud(ByPkcs7(federated))
       [] name = "account" -> Account(ByX509(key))
       [] name = "agent" -> AgentOf(BySecret(scope))
       [] name = "oidc" -> Oidc(SignedIn(scope))
       [] name = "api" -> Oidc(ByOpenApi)
       [] name = "nothing" -> Oidc(ByNothing)]

File(profiles) == [version |-> "1", current |-> "", profile |-> profiles]

ConfigFiles ==
  <<[file |-> File(Profiles("read", "one", "key.pem")), mtime |-> [f \in {"key.pem"} |-> "1"]],
    [file |-> File(Profiles("write", "two", "signed")),
     mtime |-> [f \in {"key.pem", "chain.pem"} |-> "2"]]>>

-----------------------------------------------------------------------------
(* Asks.                                                                   *)

Named(name) == [text |-> name, inline |-> Nil]

Written(settings) == [text |-> "{...}", inline |-> settings]

NoAsk ==
  [command |-> "show-token", argument |-> Named(""), forceNew |-> FALSE,
   forceNewCloudToken |-> FALSE, oidcField |-> "", oidcFormat |-> "", format |-> "",
   output |-> FALSE, args |-> TRUE, region |-> "", header |-> "", parameter |-> "",
   ssrfToken |-> "", protocolVersion |-> 1, ids |-> <<>>]

Of(command, name) == [NoAsk EXCEPT !.command = command, !.argument = Named(name)]

Serving(name, parameter) ==
  [Of("serve", name) EXCEPT !.ssrfToken = "ssrf", !.parameter = parameter]

PrintOidc == Of("show-token", "oidc")

PrintAccessToken == [Of("fetch-token", "oidc") EXCEPT !.oidcField = "access_token"]

RunChild == [Of("execute", "") EXCEPT !.region = "cn"]

NewToFile == [Of("fetch-token", "") EXCEPT !.output = TRUE, !.forceNew = TRUE]

Secrets == [Of("openclaw-secret", "agent") EXCEPT !.ids = <<"a", "b", "a">>]

ByProgram == [NoAsk EXCEPT !.argument = Written(Oidc(BySigner(Program)))]

OnGcp == [NoAsk EXCEPT !.argument = Written(Oidc(ByGcp)), !.forceNewCloudToken = TRUE]

PrintForApi == [Of("fetch-token", "api") EXCEPT !.oidcFormat = "type2"]

Unconfigured == Of("fetch-token", "nothing")

\* Requests that share a file or a card, and those of the other profiles.
AskPairs ==
  {[r \in Reqs |-> IF r = r1 THEN pair[1] ELSE pair[2]] : pair \in
    {<<PrintOidc, PrintAccessToken>>, <<RunChild, NewToFile>>,
     <<Serving("card", "ssrf"), Serving("card", "ssrf")>>,
     <<Secrets, Serving("aws", "other")>>, <<Of("execute", "account"), Unconfigured>>,
     <<Of("start-session", "token"), Serving("aws", "ssrf")>>,
     <<ByProgram, PrintForApi>>, <<OnGcp, Of("show-token", "aws")>>}}

-----------------------------------------------------------------------------
(* The world.                                                              *)

\* Tokens that outlive a tick of 9 minutes, but not two; of those of a user
\* who signed in, one does.
AnswerSets ==
  [op \in {"token", "sign in", "open api"} |->
     CASE op = "token" -> {[id |-> Nil, access |-> 11, at |-> 11, in |-> 11]}
       [] op = "sign in" -> {[id |-> 11, access |-> 30, at |-> Nil, in |-> 30],
                             [id |-> 30, access |-> 11, at |-> Nil, in |-> 11]}
       [] op = "open api" -> {[id |-> Nil, access |-> 11, at |-> Nil, in |-> 0]}]

Environ == <<<<"ACCESS_KEY_ID", "older">>, <<"PATH", "bin">>>>

Minutes9 == {9}
=============================================================================
