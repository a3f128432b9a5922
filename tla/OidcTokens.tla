------------------------------ MODULE OidcTokens ------------------------------
(***************************************************************************)
(* The contents of the cached files and when they count as valid, in       *)
(* minutes.  A content records the grant it was issued for and the         *)
(* instants it runs out.  What the code reads as 0 is 0: an expiry that is *)
(* missing, or a JWT that cannot be read.                                  *)
(***************************************************************************)
EXTENDS Naturals

CONSTANT Nil

-----------------------------------------------------------------------------
(* Which tokens a command asks for.                                        *)

\* A slip: who asks for no token in particular is not thought to use the ID
\* token.
IsFetchIdTokenNotDefault(t) == t = "FetchIdToken"

IsFetchIdToken(t) == t \in {"FetchIdToken", "FetchDefault"}

IsFetchAccessToken(t) == t \in {"FetchAccessToken", "FetchDefault"}

GetOidcTokenType(oidcField) ==
  CASE oidcField = "id_token" -> "FetchIdToken"
    [] oidcField = "access_token" -> "FetchAccessToken"
    [] OTHER -> "FetchDefault"

-----------------------------------------------------------------------------
(* Tokens.                                                                 *)

Contents(Grant) ==
  [grant: Grant, kind: {"jwt", "alibaba", "aws", "account", "account of another vendor"},
   exp: Nat]
  \cup [grant: Grant, kind: {"oidc"}, exp: Nat, id: Nat \cup {Nil}]

\* The token of a provider's answer.  An answer to a request that started at
\* start says when the access token expires, or how long it lasts, or nothing.
FromTokenResponse(start, answer) ==
  [grant |-> answer.grant, kind |-> "oidc", id |-> answer.id,
   exp |-> IF answer.at > 0 THEN answer.at
           ELSE IF answer.in > 0 THEN start + answer.in ELSE 0]

\* The JWT picked from an answer, empty if the answer has none.
Picked(which, answer) ==
  [grant |-> <<which, answer.grant>>, kind |-> "jwt",
   exp |-> IF which = "access_token" THEN answer.access
           ELSE IF answer.id = Nil THEN 0 ELSE answer.id]

-----------------------------------------------------------------------------
(* Validity.                                                               *)

\* An ID token is judged if there is one, an access token if it expires.
OidcTokenIsValid(t, fetchTokenType, threshold, now) ==
  /\ t.id # Nil /\ IsFetchIdToken(fetchTokenType) => t.id > now + threshold
  /\ t.exp > 0 /\ IsFetchAccessToken(fetchTokenType) => t.exp > now + threshold

\* The JWTs that pay for cloud tokens, and cloud tokens.
IsValidAtLeastThreshold(t, threshold, now) == t.exp > now + threshold

\* layer says whose cache the content is in: a provider's JWTs, or the tokens
\* of a cloud or of a profile for OIDC tokens.
Minutes(layer) ==
  CASE layer = "provider" -> [expiring |-> 2, expired |-> 1]
    [] layer = "OidcToken" -> [expiring |-> 3, expired |-> 1]
    [] OTHER -> [expiring |-> 20, expired |-> 3]

IsValid(layer, t, fetchTokenType, threshold, now) ==
  IF layer = "OidcToken" THEN OidcTokenIsValid(t, fetchTokenType, threshold, now)
  ELSE IsValidAtLeastThreshold(t, threshold, now)

IsContentExpiringOrExpired(layer, t, fetchTokenType, now) ==
  ~IsValid(layer, t, fetchTokenType, Minutes(layer).expiring, now)

IsContentExpired(layer, t, fetchTokenType, now) ==
  ~IsValid(layer, t, fetchTokenType, Minutes(layer).expired, now)
=============================================================================
