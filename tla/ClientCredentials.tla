-------------------------- MODULE ClientCredentials --------------------------
(***************************************************************************)
(* How an OIDC token provider of a profile gets its tokens: the steps of   *)
(* a client that authenticates to the token endpoint, of a user who signs  *)
(* in, and of the OpenAPI.  The steps "token", "sign in" and "open api"    *)
(* end with the answer of a server; their grant is what was asked of it.   *)
(***************************************************************************)
EXTENDS Assertions

-----------------------------------------------------------------------------
(* What a request carries.                                                 *)

\* The options all methods but the secret start from.
CommonOptions(c) == <<c.TokenEndpoint, c.ClientId, c.Scope>>

\* FetchToken is tried once more after a server error.
FetchToken(grant) == <<[op |-> "token", grant |-> grant, again |-> TRUE]>>

ClientIdSecret(c) == FetchToken(<<c.TokenEndpoint, c.ClientId, c.Scope>>)

\* The name of the federated credential is among the common options, but
\* not in this request.
FetchTokenRfc7523(c) == FetchToken(CommonOptions(c))

FetchTokenX509JwtBearer(c) ==
  FetchToken(Append(CommonOptions(c), c.ApplicationFederatedCredentialName))

FetchTokenPkcs7Bearer(c) ==
  FetchToken(Append(CommonOptions(c), c.ApplicationFederatedCredentialName))

FetchTokenIdTokenBearer(c) ==
  FetchToken(Append(CommonOptions(c), c.ApplicationFederatedCredentialName))

-----------------------------------------------------------------------------
(* The methods of client authentication, of which settings name one.       *)

Rfc7523(c) == Then(SignJwt(c.ClientAssertionSinger), FetchTokenRfc7523(c))

Pkcs7(c) == Then(FetchPkcs7(c.ClientAssertionPkcs7Config), FetchTokenPkcs7Bearer(c))

X509(c) == Then(PrivateCa(c.ClientAssertionPrivateCaConfig), FetchTokenX509JwtBearer(c))

IdToken(c) ==
  Then(FetchOidcToken(c.ClientAssertionOidcTokenConfig), FetchTokenIdTokenBearer(c))

ClientAuthMethods(c) ==
  (IF c.ClientSecret = "" THEN {} ELSE {"secret"}) \cup
  (IF c.ClientAssertionSinger = Nil THEN {} ELSE {"signer"}) \cup
  (IF c.ClientAssertionPkcs7Config = Nil THEN {} ELSE {"pkcs7"}) \cup
  (IF c.ClientAssertionPrivateCaConfig = Nil THEN {} ELSE {"private_ca"}) \cup
  (IF c.ClientAssertionOidcTokenConfig = Nil THEN {} ELSE {"oidc_token"})

FetchAccessTokenClientCredentials(c) ==
  LET methods == ClientAuthMethods(c)
  IN IF c.TokenEndpoint = "" \/ c.ClientId = "" THEN Refuse
     ELSE CASE methods = {"secret"} -> ClientIdSecret(c)
            [] methods = {"signer"} -> Rfc7523(c)
            [] methods = {"pkcs7"} -> Pkcs7(c)
            [] methods = {"private_ca"} -> X509(c)
            [] methods = {"oidc_token"} -> IdToken(c)
            [] OTHER -> Refuse

-----------------------------------------------------------------------------
(* The other ways to a token.                                              *)

\* Spending the refresh token or letting the user sign in: TokenResponse and
\* DeviceCodeFlow.
FetchIdTokenDeviceCode(c) ==
  <<[op |-> "sign in", grant |-> <<c.Issuer, c.ClientId, c.Scope>>]>>

\* What the credential is made of besides its type plays no part here.
ConvertToCredentialConfig(c) == IF c.Type = "" THEN Nil ELSE <<c.Type, c.Credential>>

\* The optional fields of the answer are taken without a look: MayPanic.
FetchAccessTokenOpenApi(c) ==
  LET endpoint == IF c.OpenApiEndpoint = "" THEN "eiam.cn-hangzhou" ELSE c.OpenApiEndpoint
  IN <<With("client", ConvertToCredentialConfig(c)),
       [op |-> "open api",
        grant |-> <<endpoint, c.InstanceId, c.ApplicationId, c.Audience>> \o c.ScopeValues]>>

\* The ways a provider names.
Ways(c) == {w \in {"DeviceCode", "ClientCredentials", "OpenApi"} : c[w] # Nil}

\* To a whole answer, as a profile that prints OIDC tokens needs it.
FetchTokenResponse(c) ==
  CASE Ways(c) = {"DeviceCode"} -> FetchIdTokenDeviceCode(c.DeviceCode)
    [] Ways(c) = {"ClientCredentials"} ->
         FetchAccessTokenClientCredentials(c.ClientCredentials)
    [] Ways(c) = {"OpenApi"} -> FetchAccessTokenOpenApi(c.OpenApi)
    [] OTHER -> Refuse

\* Which token of the answer pays for a cloud token.
PickedToken(c) ==
  IF c.DeviceCode # Nil /\ c.TokenType # "access_token" THEN "id_token" ELSE "access_token"

\* A slip: the whole answer is cached where a JWT is expected.
FetchJwtUnpicked(c) == FetchTokenResponse(c)

\* To the one token a cloud asks for.
FetchJwt(c) == Then(FetchTokenResponse(c), <<With("pick", PickedToken(c))>>)
=============================================================================
