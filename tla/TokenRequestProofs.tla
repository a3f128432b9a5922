------------------------- MODULE TokenRequestProofs -------------------------
(***************************************************************************)
(* Proofs about token requests, for any settings, edits of them, requests, *)
(* answers and failures: what the runs check of TokenRequest.              *)
(*                                                                         *)
(* First, what the steps of a request lead to: between two steps certain   *)
(* things are known (a "point": the kind of value the request holds and    *)
(* what it was granted for, the caches and the card that are open, whether *)
(* the command uses its token yet), and every command is a way from the    *)
(* start to a point with everything closed.  No state is looked at there:  *)
(*                                                                         *)
(*   sequences; points and the ways between them; the steps of an          *)
(*   assertion; how a token is fetched; caches and layers; the commands;   *)
(*   what holds along a way; what its end is for.                          *)
(*                                                                         *)
(* Then the state:                                                         *)
(*                                                                         *)
(*   the signatures; what the names of the files tell; the inductive       *)
(*   invariant and the steps that keep it; types, the card and the answers;*)
(*   the output file; what is taken from a file; the secrets of an agent;  *)
(*   the environment of a child.                                           *)
(***************************************************************************)
EXTENDS TokenRequest, TLAPS, WellFoundedInduction, SequenceTheorems, FiniteSetTheorems

-----------------------------------------------------------------------------
(* Sequences and their least and greatest indices.                         *)

\* A sequence, of whatever elements.
IsSeq(s) == \E S : s \in Seq(S)

\* A sequence is a function of 1..Len.
LEMMA SeqIndices ==
  ASSUME NEW s, IsSeq(s)
  PROVE  Len(s) \in Nat /\ DOMAIN s = 1..Len(s)
BY DEF IsSeq

\* What a concatenation is made of.
LEMMA Joined ==
  ASSUME NEW s, NEW t, IsSeq(s), IsSeq(t)
  PROVE  /\ IsSeq(s \o t)
         /\ Len(s) \in Nat /\ Len(t) \in Nat /\ Len(s \o t) = Len(s) + Len(t)
         /\ \A i \in 1..Len(s) : (s \o t)[i] = s[i]
         /\ \A i \in 1..Len(t) : (s \o t)[Len(s) + i] = t[i]
<1> DEFINE u == s \o t
<1>1. PICK S : s \in Seq(S) /\ t \in Seq(S)
  <2>1. PICK S1 : s \in Seq(S1)
     BY DEF IsSeq
  <2>2. PICK S2 : t \in Seq(S2)
     BY DEF IsSeq
  <2>3. s \in Seq(S1 \cup S2) /\ t \in Seq(S1 \cup S2)
     BY <2>1, <2>2
  <2> QED BY <2>3
<1>2. u \in Seq(S) /\ Len(u) = Len(s) + Len(t) /\ Len(s) \in Nat /\ Len(t) \in Nat
  BY <1>1
<1>3. \A i \in 1..Len(s) : u[i] = s[i]
  BY <1>1
<1>4. \A i \in 1..Len(t) : u[Len(s) + i] = t[i]
  BY <1>1
<1> HIDE DEF u
<1> QED BY <1>2, <1>3, <1>4 DEF IsSeq, u

\* What is left of a sequence without its first k elements.
From1(s, k) == SubSeq(s, k + 1, Len(s))

\* What is left of a sequence behind its first k elements.
LEMMA Rest ==
  ASSUME NEW s, IsSeq(s), NEW k \in 0..Len(s)
  PROVE  /\ IsSeq(From1(s, k))
         /\ Len(s) \in Nat /\ Len(From1(s, k)) = Len(s) - k
         /\ \A i \in 1..(Len(s) - k) : From1(s, k)[i] = s[i + k]
<1> DEFINE u == From1(s, k)
<1>1. PICK S : s \in Seq(S)
  BY DEF IsSeq
<1>2. u \in Seq(S) /\ Len(u) = Len(s) - k /\ Len(s) \in Nat
  BY <1>1 DEF From1
<1>3. \A i \in 1..(Len(s) - k) : u[i] = s[i + k]
  BY <1>1 DEF From1
<1> HIDE DEF u
<1> QED BY <1>2, <1>3 DEF IsSeq, u

\* The first element and the rest.
LEMMA HeadAndTail ==
  ASSUME NEW s, IsSeq(s), s # <<>>
  PROVE  Tail(s) = From1(s, 1) /\ Head(s) = s[1] /\ Len(s) \in Nat /\ Len(s) >= 1
BY DEF IsSeq, From1

\* Only the empty sequence has length 0.
LEMMA NoElements ==
  ASSUME NEW s, IsSeq(s)
  PROVE  s = <<>> <=> Len(s) = 0
BY DEF IsSeq

\* Short sequences are concatenations of ones of one element.
LEMMA OneElement ==
  ASSUME NEW x
  PROVE  IsSeq(<<x>>) /\ Len(<<x>>) = 1 /\ <<x>>[1] = x
<1>1. <<x>> \in Seq({x})
  OBVIOUS
<1> QED BY <1>1 DEF IsSeq

\* Lists of two, three and four elements, as concatenations.
LEMMA TwoElements ==
  ASSUME NEW x, NEW y
  PROVE  <<x, y>> = <<x>> \o <<y>> /\ IsSeq(<<x, y>>)
<1> DEFINE s == <<x, y>>
           u == <<x>> \o <<y>>
<1>1. s \in Seq({x, y}) /\ Len(s) = 2 /\ s[1] = x /\ s[2] = y
  OBVIOUS
<1>2. u \in Seq({x, y}) /\ Len(u) = 2 /\ u[1] = x /\ u[2] = y
  OBVIOUS
<1> HIDE DEF s, u
<1>3. s = u
  <2>1. DOMAIN s = 1..2 /\ DOMAIN u = 1..2 /\ \A i \in 1..2 : s[i] = u[i]
    BY <1>1, <1>2
  <2> QED BY <1>1, <1>2, <2>1, SeqEqual
<1> QED BY <1>1, <1>3 DEF IsSeq, s, u

\* The same for three.
LEMMA ThreeElements ==
  ASSUME NEW x, NEW y, NEW z
  PROVE  <<x, y, z>> = (<<x>> \o <<y>>) \o <<z>>
<1> DEFINE s == <<x, y, z>>
           u == <<x, y>> \o <<z>>
<1>1. s \in Seq({x, y, z}) /\ Len(s) = 3 /\ s[1] = x /\ s[2] = y /\ s[3] = z
  OBVIOUS
<1>2. u \in Seq({x, y, z}) /\ Len(u) = 3 /\ u[1] = x /\ u[2] = y /\ u[3] = z
  OBVIOUS
<1> HIDE DEF s, u
<1>3. s = u
  <2>1. \A i \in 1..3 : s[i] = u[i]
    BY <1>1, <1>2
  <2> QED BY <1>1, <1>2, <2>1, SeqEqual
<1>4. <<x, y>> = <<x>> \o <<y>>
  BY TwoElements
<1> QED BY <1>3, <1>4, Zenon DEF s, u

\* The same for four.
LEMMA FourElements ==
  ASSUME NEW x, NEW y, NEW z, NEW w
  PROVE  <<x, y, z, w>> = (<<x>> \o <<y>>) \o (<<z>> \o <<w>>)
<1> DEFINE s == <<x, y, z, w>>
           u == <<x, y>> \o <<z, w>>
<1>1. s \in Seq({x, y, z, w}) /\ Len(s) = 4 /\ s[1] = x /\ s[2] = y /\ s[3] = z /\ s[4] = w
  OBVIOUS
<1>2. u \in Seq({x, y, z, w}) /\ Len(u) = 4 /\ u[1] = x /\ u[2] = y /\ u[3] = z /\ u[4] = w
  OBVIOUS
<1> HIDE DEF s, u
<1>3. s = u
  <2>1. \A i \in 1..4 : s[i] = u[i]
    BY <1>1, <1>2
  <2> QED BY <1>1, <1>2, <2>1, SeqEqual
<1>4. <<x, y>> = <<x>> \o <<y>> /\ <<z, w>> = <<z>> \o <<w>>
  BY TwoElements
<1> QED BY <1>3, <1>4, Zenon DEF s, u

\* An element no other is less than is the minimum; likewise the maximum.
LEMMA LeastOf ==
  ASSUME NEW S, S \subseteq Nat, NEW m \in S, \A x \in S : m <= x
  PROVE  Min(S) = m
<1>1. Min(S) \in S /\ \A y \in S : Min(S) <= y
  <2>1. \E x \in S : \A y \in S : x <= y
    OBVIOUS
  <2> QED BY <2>1, Zenon DEF Min
<1>2. Min(S) <= m /\ m <= Min(S)
  BY <1>1
<1>3. Min(S) \in Nat /\ m \in Nat
  BY <1>1
<1> QED BY <1>2, <1>3

\* The same for the maximum.
LEMMA GreatestOf ==
  ASSUME NEW S, S \subseteq Nat, NEW m \in S, \A x \in S : m >= x
  PROVE  Max(S) = m
<1>1. Max(S) \in S /\ \A y \in S : Max(S) >= y
  <2>1. \E x \in S : \A y \in S : x >= y
    OBVIOUS
  <2> QED BY <2>1, Zenon DEF Max
<1>2. Max(S) >= m /\ m >= Max(S)
  BY <1>1
<1>3. Max(S) \in Nat /\ m \in Nat
  BY <1>1
<1> QED BY <1>2, <1>3

\* A set of numbers that is not empty has a least one.
LEMMA LeastExists ==
  ASSUME NEW S, S \subseteq Nat, S # {}
  PROVE  Min(S) \in S /\ \A x \in S : Min(S) <= x
<1>1. PICK m \in S : \A y \in S : ~(<<y, m>> \in OpToRel(<, Nat))
  <2>1. IsWellFoundedOn(OpToRel(<, Nat), Nat)
    BY NatLessThanWellFounded, Zenon
  <2> QED BY <2>1, WFMin, Zenon
<1>2. ASSUME NEW y \in S PROVE m <= y
  <2>1. y \in Nat /\ m \in Nat
    OBVIOUS
  <2>2. ~(<<y, m>> \in OpToRel(<, Nat))
    BY <1>1
  <2>3. ~(y < m)
    BY <2>1, <2>2 DEF OpToRel
  <2> QED BY <2>1, <2>3
<1>3. Min(S) = m
  BY <1>2, LeastOf
<1> QED BY <1>2, <1>3

-----------------------------------------------------------------------------
(* What is known between two steps.                                        *)
(*                                                                         *)
(* kind and grant are those of the request's value, "any" standing for a   *)
(* value nothing is known of; stage counts the answer, the pick and the    *)
(* exchange; card tells whether a card is open, open which caches are, and *)
(* phase whether the command has begun to use its token.                    *)

\* The steps that ask for an answer, the kinds of token, and the steps that use
\* one.
AnswerOps == {"token", "sign in", "open api"}

CloudKinds == {"alibaba", "aws", "account"}

TokenKinds == {"jwt", "oidc"} \cup CloudKinds

UseOps == {"format", "open output", "write output", "environment", "credential"}

\* What a client asks of the token endpoint, whichever way it authenticates.
ClientGrant(c) ==
  IF /\ c.ClientAssertionPkcs7Config = Nil /\ c.ClientAssertionPrivateCaConfig = Nil
     /\ c.ClientAssertionOidcTokenConfig = Nil
  THEN CommonOptions(c)
  ELSE Append(CommonOptions(c), c.ApplicationFederatedCredentialName)

\* What is asked of the provider a user has signed in to, and of the OpenAPI.
DeviceCodeGrant(c) == <<c.Issuer, c.ClientId, c.Scope>>

OpenApiGrant(c) ==
  <<IF c.OpenApiEndpoint = "" THEN "eiam.cn-hangzhou" ELSE c.OpenApiEndpoint,
    c.InstanceId, c.ApplicationId, c.Audience>> \o c.ScopeValues

\* The grant of the answer of a provider, and of the JWT picked from it.
AnswerGrant(c) ==
  IF c.DeviceCode # Nil THEN DeviceCodeGrant(c.DeviceCode)
  ELSE IF c.ClientCredentials # Nil THEN ClientGrant(c.ClientCredentials)
  ELSE OpenApiGrant(c.OpenApi)

JwtGrant(c) == <<PickedToken(c), AnswerGrant(c)>>

\* The kind and the grant of what a cache gets from its fetch.
Fetched(frame) ==
  LET c == frame.settings
  IN CASE frame.layer = "provider" -> <<"jwt", JwtGrant(c)>>
       [] frame.layer = "OidcToken" -> <<"oidc", AnswerGrant(c)>>
       [] frame.layer = "AlibabaCloud" ->
            <<"alibaba",
              Append(<<IF c.StsEndpoint = "" THEN "sts." \o c.Region ELSE c.StsEndpoint,
                       c.OidcProviderArn, c.RoleArn, c.DurationSeconds, SessionName(c)>>,
                     JwtGrant(c.OidcTokenProvider))>>
       [] frame.layer = "Aws" ->
            <<"aws", Append(<<c.Region, c.RoleArn, c.DurationSeconds, SessionName(c)>>,
                            JwtGrant(c.OidcTokenProvider))>>
       [] frame.layer = "CloudAccount" ->
            <<"account",
              Append(Append(GetCloudAccountEndpoint(c), c.CloudAccountRoleExternalId),
                     JwtGrant([c.AccessTokenProvider EXCEPT !.TokenType = "access_token"]))>>

Point(kind, grant, stage, card_, open, phase) ==
  [kind |-> kind, grant |-> grant, stage |-> stage, card |-> card_, open |-> open,
   phase |-> phase]

\* One card is open at a time, within the signing, and closed before anything
\* else.
FlowCard(x, t, u) ==
  /\ t.card \in {"open", "closed"} /\ u.card \in {"open", "closed"}
  /\ x.op = "open card" => t.card = "closed" /\ u.card = "open"
  /\ x.op \in {"open token", "cache", "store", "refuse"} => t.card = "closed"
  /\ x.op = "close" => u.card = "closed"
  /\ x.op \notin {"open card", "close"} => u.card = t.card

\* The value goes from an answer to a JWT to the token of a cloud.
FlowValue(x, t, u) ==
  /\ "op" \in DOMAIN x
  /\ "grant" \in DOMAIN x <=> x.op \in AnswerOps \cup {"exchange"}
  /\ x.op \in AnswerOps =>
       t.stage = 0 /\ u.stage = 1 /\ u.kind = "answer" /\ u.grant = x.grant
  /\ x.op = "pick" =>
       /\ t.kind = "answer" /\ t.stage = 1
       /\ u.kind = "jwt" /\ u.stage = 2 /\ u.grant = <<x.with, t.grant>>
  /\ x.op = "keep" =>
       /\ t.kind = "answer" /\ t.stage = 1
       /\ u.kind = "oidc" /\ u.stage = 1 /\ u.grant = t.grant
  /\ x.op = "exchange" =>
       /\ t.kind = "jwt" /\ t.stage = 2
       /\ x.kind \in CloudKinds /\ u.kind = x.kind /\ u.stage = 3
       /\ u.grant = Append(x.grant, t.grant)
  /\ x.op \in UseOps => t.kind \in TokenKinds
  /\ x.op \notin AnswerOps \cup {"pick", "keep", "exchange", "refuse"} =>
       u.kind = t.kind /\ u.stage = t.stage /\ u.grant = t.grant

\* What is fetched within a cache has been asked for by its end.
FlowStage(x, t, u) ==
  /\ x.op = "cache" => t.stage = 0
  /\ x.op = "store" => t.stage # 0
  /\ t.stage # 0 => u.stage # 0

\* The categories and layers that go together.
IsFrame(f) ==
  /\ f.category \in Category
  /\ f.layer \in {"provider", "OidcToken", "AlibabaCloud", "Aws", "CloudAccount"}
  /\ f.layer = "provider" <=> f.category = "oidc_token"

\* An oidc_token cache is open within a cloud_token cache, never around one.
FlowOpen(x, t, u) ==
  /\ x.op = "cache" => IsFrame(x)
  /\ x.op \in {"cache", "store"} =>
       /\ x.category \in Category
       /\ \A d \in Category \ {x.category} : u.open[d] = t.open[d]
       /\ x.category # "oidc_token" => t.open["oidc_token"] = {}
  /\ x.op = "cache" => t.open[x.category] = {} /\ u.open[x.category] = {x}
  /\ x.op = "store" =>
       /\ \E f : t.open[x.category] = {f} /\ <<t.kind, t.grant>> = Fetched(f)
       /\ u.open[x.category] = {}
  /\ x.op \notin {"cache", "store"} => u.open = t.open

\* A command fetches, then uses what it has.
FlowPhase(x, t, u) ==
  /\ t.phase \in {"fetch", "use"} /\ u.phase \in {"fetch", "use"}
  /\ x.op \in AnswerOps \cup {"cache", "store", "pick", "keep", "exchange"} => t.phase = "fetch"
  /\ x.op \in UseOps => u.phase = "use"
  /\ x.op \notin UseOps => u.phase = t.phase

\* What is known at t is what the step x needs, and after it u is known.
Flow(x, t, u) ==
  /\ FlowCard(x, t, u) /\ FlowValue(x, t, u) /\ FlowStage(x, t, u)
  /\ FlowOpen(x, t, u) /\ FlowPhase(x, t, u)

\* points says what is known before each of the steps and at their end.
Path(s, points) ==
  IsSeq(s) /\ \A i \in 1..Len(s) : Flow(s[i], points[i], points[i + 1])

\* A way from t to u.
Leads(s, t, u) == \E points : Path(s, points) /\ points[1] = t /\ points[Len(s) + 1] = u

\* No step leaves what is known as it is, one step changes it as Flow says,
\* and ways that meet can be joined.
LEMMA LeadsNone ==
  ASSUME NEW t
  PROVE  Leads(<<>>, t, t)
<1> DEFINE s == <<>>
           points == [i \in {1} |-> t]
<1>1. s \in Seq({}) /\ Len(s) = 0
  OBVIOUS
<1>2. points[1] = t
  OBVIOUS
<1> HIDE DEF s, points
<1>3. Path(s, points) /\ points[Len(s) + 1] = t
  BY <1>1, <1>2 DEF Path, IsSeq
<1>4. Leads(s, t, t)
  BY <1>2, <1>3 DEF Leads
<1> QED BY <1>4 DEF s

\* One step leads where it flows.
LEMMA LeadsOne ==
  ASSUME NEW x, NEW t, NEW u, Flow(x, t, u)
  PROVE  Leads(<<x>>, t, u)
<1> DEFINE s == <<x>>
           points == [i \in {1, 2} |-> IF i = 1 THEN t ELSE u]
<1>1. IsSeq(s) /\ Len(s) = 1 /\ s[1] = x
  BY OneElement
<1>2. points[1] = t /\ points[2] = u
  OBVIOUS
<1> HIDE DEF s, points
<1>3. Path(s, points) /\ points[Len(s) + 1] = u
  BY <1>1, <1>2 DEF Path
<1>4. Leads(s, t, u)
  BY <1>2, <1>3 DEF Leads
<1> QED BY <1>4 DEF s

\* A way can be continued.
LEMMA LeadsJoin ==
  ASSUME NEW s, NEW r, NEW t, NEW u, NEW v, Leads(s, t, u), Leads(r, u, v)
  PROVE  Leads(s \o r, t, v)
<1>1. PICK f : Path(s, f) /\ f[1] = t /\ f[Len(s) + 1] = u
  BY DEF Leads
<1>2. PICK g : Path(r, g) /\ g[1] = u /\ g[Len(r) + 1] = v
  BY DEF Leads
<1> DEFINE w == s \o r
           m == Len(s)
           n == Len(r)
           h == [i \in 1..(m + n + 1) |-> IF i <= m THEN f[i] ELSE g[i - m]]
<1>3. /\ IsSeq(w) /\ m \in Nat /\ n \in Nat /\ Len(w) = m + n
      /\ \A i \in 1..m : w[i] = s[i]
      /\ \A i \in 1..n : w[m + i] = r[i]
  <2>1. IsSeq(s) /\ IsSeq(r)
    BY <1>1, <1>2 DEF Path
  <2> QED BY <2>1, Joined
<1>4. /\ \A i \in 1..m : Flow(s[i], f[i], f[i + 1])
      /\ \A i \in 1..n : Flow(r[i], g[i], g[i + 1])
      /\ f[1] = t /\ f[m + 1] = u /\ g[1] = u /\ g[n + 1] = v
  BY <1>1, <1>2 DEF Path
<1> HIDE DEF w, m, n
<1>5. ASSUME NEW i \in 1..(m + n) PROVE Flow(w[i], h[i], h[i + 1])
  <2>1. CASE i <= m
    <3>1. i \in 1..m /\ w[i] = s[i] /\ h[i] = f[i]
      BY <1>3, <2>1
    <3>2. h[i + 1] = f[i + 1]
      <4>1. CASE i < m
        BY <1>3, <4>1
      <4>2. CASE i = m
        <5>1. h[i + 1] = g[1]
          BY <1>3, <4>2
        <5> QED BY <1>4, <5>1, <4>2
      <4> QED BY <4>1, <4>2, <2>1, <1>3
    <3> HIDE DEF h
    <3> QED BY <1>4, <3>1, <3>2
  <2>2. CASE i > m
    <3> DEFINE l == i - m
    <3>1. l \in 1..n /\ i = m + l
      BY <1>3, <2>2
    <3>2. h[i] = g[l] /\ h[i + 1] = g[l + 1]
      BY <1>3, <2>2
    <3> HIDE DEF h, l
    <3>3. w[i] = r[l]
      BY <1>3, <3>1
    <3> QED BY <1>4, <3>1, <3>2, <3>3
  <2> QED BY <2>1, <2>2, <1>3
<1>6. h[1] = t
  <2>1. CASE m = 0
    BY <1>3, <1>4, <2>1
  <2>2. CASE m > 0
    BY <1>3, <1>4, <2>2
  <2> QED BY <2>1, <2>2, <1>3
<1>7. h[m + n + 1] = v
  BY <1>3, <1>4
<1> HIDE DEF h
<1>8. Path(w, h) /\ h[Len(w) + 1] = v
  BY <1>3, <1>5, <1>7 DEF Path
<1>9. Leads(w, t, v)
  BY <1>6, <1>8 DEF Leads
<1> QED BY <1>9 DEF w

-----------------------------------------------------------------------------
(* The steps of an assertion get no token, and leave no card open.         *)

\* The steps of an assertion.
QuietOps ==
  {"read file", "decrypt", "panic", "refuse", "sign", "open token", "certificate",
   "find key", "find key pair", "close", "run signer", "claims", "metadata token", "metadata", "decode",
   "client", "start", "start terminal session", "dial", "run command"}

IsQuiet(x) == "op" \in DOMAIN x /\ "grant" \notin DOMAIN x /\ x.op \in QuietOps

\* No card is open.
Free(t) == t.card = "closed" /\ t.phase \in {"fetch", "use"}

\* Steps that lead from every such point to itself.
Quiet(s) == \A t : Free(t) => Leads(s, t, t)

\* A quiet step is allowed at every point without a card, and changes none.
LEMMA QuietFlow ==
  ASSUME NEW x, IsQuiet(x), NEW t, Free(t)
  PROVE  Flow(x, t, t)
<1> DEFINE op == x.op
<1>1. /\ "op" \in DOMAIN x /\ "grant" \notin DOMAIN x
      /\ op \in QuietOps
  BY DEF IsQuiet
<1> HIDE DEF op
<1>2. /\ op \notin AnswerOps \cup {"exchange"} /\ op \notin AnswerOps \cup {"cache", "store", "pick", "keep", "exchange"}
      /\ op \notin UseOps /\ op \notin AnswerOps
      /\ op \notin {"cache", "store"} /\ op # "cache" /\ op # "store" /\ op # "open card"
      /\ op # "pick" /\ op # "keep" /\ op # "exchange"
  BY <1>1 DEF QuietOps, AnswerOps, UseOps
<1>3. FlowCard(x, t, t)
  BY <1>2 DEF FlowCard, Free, op
<1>4. FlowValue(x, t, t)
  BY <1>1, <1>2, Zenon DEF FlowValue, op
<1>5. FlowOpen(x, t, t)
  BY <1>2, Zenon DEF FlowOpen, op
<1>6. FlowPhase(x, t, t)
  BY <1>2, Zenon DEF FlowPhase, Free, op
<1>7. FlowStage(x, t, t)
  BY <1>2, Zenon DEF FlowStage, op
<1> QED BY <1>3, <1>4, <1>5, <1>6, <1>7 DEF Flow

\* The ways of writing steps down, each quiet when its parts are.
LEMMA QuietOne ==
  ASSUME NEW x, IsQuiet(x)
  PROVE  Quiet(<<x>>)
BY QuietFlow, LeadsOne DEF Quiet

\* No steps at all are quiet.
LEMMA QuietNone == Quiet(<<>>)
BY LeadsNone DEF Quiet

\* Two quiet sequences are quiet, one after the other.
LEMMA QuietJoin ==
  ASSUME NEW s, NEW t, Quiet(s), Quiet(t)
  PROVE  Quiet(s \o t)
BY LeadsJoin DEF Quiet

\* A step that neither fetches, opens nor uses anything is quiet.
LEMMA QuietStep ==
  ASSUME NEW op \in QuietOps
  PROVE  Quiet(<<Step(op)>>)
<1>1. IsQuiet(Step(op))
  BY DEF Step, IsQuiet
<1> QED BY <1>1, QuietOne

\* The same for a step that is given a value.
LEMMA QuietWith ==
  ASSUME NEW op \in QuietOps, NEW x
  PROVE  Quiet(<<With(op, x)>>)
<1>1. IsQuiet(With(op, x))
  BY DEF With, IsQuiet
<1> QED BY <1>1, QuietOne

\* Signing is quiet: a card is opened and closed by steps of their own.
LEMMA QuietSign ==
  ASSUME NEW alg, NEW k
  PROVE  Quiet(<<Sign(alg, k)>>)
<1>1. IsQuiet(Sign(alg, k))
  BY DEF Sign, IsQuiet, QuietOps
<1> QED BY <1>1, QuietOne

\* A refusal is quiet.
LEMMA QuietRefuse == Quiet(Refuse)
BY QuietStep DEF Refuse, QuietOps

\* So is what is done provided that the settings are right.
LEMMA QuietProvided ==
  ASSUME NEW ok, NEW s, Quiet(s)
  PROVE  Quiet(Provided(ok, s))
BY QuietRefuse DEF Provided

\* And what follows a sequence that may end with a refusal.
LEMMA QuietThen ==
  ASSUME NEW s, NEW t, Quiet(s), Quiet(t)
  PROVE  Quiet(Then(s, t))
BY QuietRefuse, QuietJoin DEF Then

\* What may be done while a card is open.
AtCard == {"certificate", "find key", "sign"}

\* What is done with a card leaves the rest as it is.
CardOps == AtCard \cup {"open card", "close"}

\* A step of a card only changes whether a card is open.
LEMMA CardFlow ==
  ASSUME NEW x, "op" \in DOMAIN x, "grant" \notin DOMAIN x, x.op \in CardOps,
         NEW t, NEW u, u.kind = t.kind, u.grant = t.grant, u.stage = t.stage, u.open = t.open,
         u.phase = t.phase, t.phase \in {"fetch", "use"}, FlowCard(x, t, u)
  PROVE  Flow(x, t, u)
<1> DEFINE op == x.op
<1>1. op \in CardOps
  OBVIOUS
<1> HIDE DEF op
<1>2. /\ op \notin AnswerOps \cup {"exchange"} /\ op \notin AnswerOps \cup {"cache", "store", "pick", "keep", "exchange"}
      /\ op \notin UseOps /\ op \notin AnswerOps
      /\ op \notin {"cache", "store"} /\ op # "cache" /\ op # "store"
      /\ op # "pick" /\ op # "keep" /\ op # "exchange"
  BY <1>1 DEF CardOps, AtCard, AnswerOps, UseOps
<1>4. FlowValue(x, t, u)
  BY <1>2, Zenon DEF FlowValue, op
<1>5. FlowOpen(x, t, u)
  BY <1>2, Zenon DEF FlowOpen, op
<1>6. FlowPhase(x, t, u)
  BY <1>2 DEF FlowPhase, op
<1>7. FlowStage(x, t, u)
  BY <1>2, Zenon DEF FlowStage, op
<1> QED BY <1>4, <1>5, <1>6, <1>7 DEF Flow

\* A card is opened, used and closed.
LEMMA QuietCard ==
  ASSUME NEW x, NEW y, NEW z, NEW w, IsQuiet(y), IsQuiet(z), y.op \in AtCard, z.op \in AtCard,
         "op" \in DOMAIN x, "grant" \notin DOMAIN x, x.op = "open card",
         "op" \in DOMAIN w, "grant" \notin DOMAIN w, w.op = "close"
  PROVE  Quiet((<<x>> \o <<y>>) \o <<w>>) /\ Quiet((<<x>> \o <<y>>) \o (<<z>> \o <<w>>))
<1> SUFFICES ASSUME NEW t, Free(t)
             PROVE  /\ Leads((<<x>> \o <<y>>) \o <<w>>, t, t)
                    /\ Leads((<<x>> \o <<y>>) \o (<<z>> \o <<w>>), t, t)
  BY DEF Quiet
<1> DEFINE u == Point(t.kind, t.grant, t.stage, "open", t.open, t.phase)
<1>1. /\ u.kind = t.kind /\ u.grant = t.grant /\ u.stage = t.stage /\ u.card = "open"
      /\ u.open = t.open /\ u.phase = t.phase
  BY DEF Point
<1> HIDE DEF u
<1>a. t.card = "closed" /\ t.phase \in {"fetch", "use"}
  BY DEF Free
<1>2. Flow(x, t, u)
  <2>1. FlowCard(x, t, u)
    BY <1>1, <1>a DEF FlowCard
  <2>2. x.op \in CardOps
    BY DEF CardOps
  <2> QED BY <1>1, <1>a, <2>1, <2>2, CardFlow
<1>b. Flow(w, u, t)
  <2>1. FlowCard(w, u, t)
    BY <1>1, <1>a DEF FlowCard
  <2>2. w.op \in CardOps
    BY DEF CardOps
  <2> QED BY <1>1, <1>a, <2>1, <2>2, CardFlow
<1>3. ASSUME NEW v, IsQuiet(v), v.op \in AtCard PROVE Flow(v, u, u)
  <2>1. FlowCard(v, u, u)
    BY <1>1, <1>a, <1>3 DEF FlowCard, AtCard
  <2>2. v.op \in CardOps /\ "op" \in DOMAIN v /\ "grant" \notin DOMAIN v
    BY <1>3 DEF CardOps, IsQuiet
  <2> QED BY <1>1, <1>a, <2>1, <2>2, CardFlow
<1>4. Flow(y, u, u) /\ Flow(z, u, u)
  BY <1>3
<1>5. Leads(<<x>>, t, u) /\ Leads(<<y>>, u, u) /\ Leads(<<z>>, u, u) /\ Leads(<<w>>, u, t)
  BY <1>2, <1>b, <1>4, LeadsOne
<1>6. Leads(<<x>> \o <<y>>, t, u) /\ Leads(<<z>> \o <<w>>, u, t)
  BY <1>5, LeadsJoin
<1> QED BY <1>5, <1>6, LeadsJoin

\* Each of the signers is quiet: it releases the card it opens
\* (signer/yubikey_piv/yubikey_piv_signer.go:40-132).
LEMMA QuietPkcs11 ==
  ASSUME NEW c, NEW alg
  PROVE  Quiet(Pkcs11Sign(c, alg))
<1> DEFINE a == Step("open token")
           b == With("find key pair", c.KeyLabel)
           d == Sign(alg, c.KeyLabel)
           e == Step("close")
<1>1. Quiet(<<a>>) /\ Quiet(<<b>>) /\ Quiet(<<d>>) /\ Quiet(<<e>>)
  BY QuietStep, QuietWith, QuietSign DEF QuietOps
<1>2. Pkcs11Sign(c, alg) = <<a, b, d, e>>
  BY DEF Pkcs11Sign
<1> HIDE DEF a, b, d, e
<1>3. <<a, b, d, e>> = (<<a>> \o <<b>>) \o (<<d>> \o <<e>>)
  BY FourElements
<1> QED BY <1>1, <1>2, <1>3, QuietJoin

\* The card of a YubiKey is open from the look at its certificate to the close
\* (yubikey_piv_signer.go:75-132).
LEMMA QuietYubiKey ==
  ASSUME NEW c, NEW alg
  PROVE  Quiet(NewYubiKeyPivSigner(c)) /\ Quiet(YubiKeyPivSign(c, alg))
<1> DEFINE a == Step("open card")
           b == Step("certificate")
           d == Step("close")
           f == With("find key", c.Slot)
           g == Sign(alg, c.Slot)
<1>1. /\ IsQuiet(b) /\ IsQuiet(f) /\ IsQuiet(g)
      /\ b.op \in AtCard /\ f.op \in AtCard /\ g.op \in AtCard
  BY DEF Step, With, Sign, IsQuiet, QuietOps, AtCard
<1>c. /\ "op" \in DOMAIN a /\ "grant" \notin DOMAIN a /\ a.op = "open card"
      /\ "op" \in DOMAIN d /\ "grant" \notin DOMAIN d /\ d.op = "close"
  BY DEF Step
<1>2. /\ NewYubiKeyPivSigner(c) =
           Provided(c.Slot \in SlotId /\ c.PinPolicy \in PinPolicy, <<a, b, d>>)
      /\ YubiKeyPivSign(c, alg) = <<a, f, g, d>>
  BY DEF NewYubiKeyPivSigner, YubiKeyPivSign
<1>3. /\ Quiet((<<a>> \o <<b>>) \o <<d>>)
      /\ Quiet((<<a>> \o <<f>>) \o (<<g>> \o <<d>>))
  <2> HIDE DEF a, b, d, f, g
  <2> QED BY <1>1, <1>c, QuietCard
<1> HIDE DEF a, b, d, f, g
<1>4. <<a, b, d>> = (<<a>> \o <<b>>) \o <<d>>
  BY ThreeElements
<1>5. <<a, f, g, d>> = (<<a>> \o <<f>>) \o (<<g>> \o <<d>>)
  BY FourElements
<1> QED BY <1>2, <1>3, <1>4, <1>5, QuietProvided

\* A program that signs takes no card of this process.
LEMMA QuietExternal ==
  ASSUME NEW c, NEW alg
  PROVE  Quiet(ExternalSign(c, alg))
<1> DEFINE a == <<With("run signer", c.Command)>>
           b == <<Sign(alg, c.Command)>>
<1>1. Quiet(a) /\ Quiet(b)
  BY QuietWith, QuietSign DEF QuietOps
<1>2. ExternalSign(c, alg) = a \o b
  BY TwoElements, Zenon DEF ExternalSign
<1> HIDE DEF a, b
<1> QED BY <1>1, <1>2, QuietJoin

\* Nor does a key file.
LEMMA QuietKeyFile ==
  ASSUME NEW c, NEW alg
  PROVE  Quiet(KeyFileSign(c, alg))
<1> DEFINE source == IF c.Key = "" THEN c.File ELSE c.Key
           read == IF c.Key = "" THEN <<With("read file", c.File)>> ELSE <<>>
           load == CASE KeyIn[source].form = "dashes" -> <<Step("panic")>>
                     [] KeyIn[source].form = "encrypted" -> <<With("decrypt", c.Password)>>
                     [] OTHER -> <<>>
           sign == Provided(KeyFits(KeyIn[source].kind, alg), <<Sign(alg, source)>>)
<1>1. Quiet(read)
  BY QuietWith, QuietNone DEF QuietOps
<1>2. Quiet(load)
  <2>1. Quiet(<<Step("panic")>>) /\ Quiet(<<With("decrypt", c.Password)>>)
    BY QuietStep, QuietWith DEF QuietOps
  <2> HIDE DEF source
  <2> QED BY <2>1, QuietNone
<1>3. Quiet(sign)
  BY QuietSign, QuietProvided
<1>4. KeyFileSign(c, alg) = (read \o load) \o sign
  BY DEF KeyFileSign, LoadKey
<1> HIDE DEF read, load, sign
<1> QED BY <1>1, <1>2, <1>3, <1>4, QuietJoin

\* However a JWT is signed (ex_jwt.go, signer.go).
LEMMA QuietSignJwt ==
  ASSUME NEW c
  PROVE  Quiet(SignJwt(c))
<1> DEFINE alg == c.Algorithm
           claims == <<Step("claims")>>
           chosen == {s \in {"Pkcs11", "YubikeyPiv", "ExternalCommand", "KeyFile"} : c[s] # Nil}
           p == Then(NewPkcs11Signer(c.Pkcs11), claims \o Pkcs11Sign(c.Pkcs11, alg))
           y == Then(NewYubiKeyPivSigner(c.YubikeyPiv), claims \o YubiKeyPivSign(c.YubikeyPiv, alg))
           x == Then(NewExCommandSigner(c.ExternalCommand), claims \o ExternalSign(c.ExternalCommand, alg))
           k == Then(NewKeyFileSigner(c.KeyFile), claims \o KeyFileSign(c.KeyFile, alg))
<1>1. Quiet(claims)
  BY QuietStep DEF QuietOps
<1>2. /\ Quiet(NewPkcs11Signer(c.Pkcs11)) /\ Quiet(NewExCommandSigner(c.ExternalCommand))
      /\ Quiet(NewKeyFileSigner(c.KeyFile))
  BY QuietNone, QuietProvided DEF NewPkcs11Signer, NewExCommandSigner, NewKeyFileSigner
<1> HIDE DEF claims, alg
<1>3. Quiet(p)
  BY <1>1, <1>2, QuietPkcs11, QuietJoin, QuietThen
<1>4. Quiet(y)
  BY <1>1, QuietYubiKey, QuietJoin, QuietThen
<1>5. Quiet(x)
  BY <1>1, <1>2, QuietExternal, QuietJoin, QuietThen
<1>6. Quiet(k)
  BY <1>1, <1>2, QuietKeyFile, QuietJoin, QuietThen
<1>7. SignJwt(c) \in {Refuse, p, y, x, k}
  <2> HIDE DEF p, y, x, k, chosen
  <2>1. SignJwt(c) = IF c = Nil THEN Refuse
                     ELSE IF alg \notin JwtSignAlgorithm THEN Refuse
                     ELSE CASE chosen = {"Pkcs11"} -> p
                            [] chosen = {"YubikeyPiv"} -> y
                            [] chosen = {"ExternalCommand"} -> x
                            [] chosen = {"KeyFile"} -> k
                            [] OTHER -> Refuse
    BY Zenon DEF SignJwt, p, y, x, k, chosen, alg, claims
  <2> QED BY <2>1
<1> HIDE DEF p, y, x, k
<1> QED BY <1>3, <1>4, <1>5, <1>6, <1>7, QuietRefuse

\* Certificates, and the documents of an instance, are quiet as well.
LEMMA QuietPrivateCa ==
  ASSUME NEW c
  PROVE  Quiet(PrivateCa(c))
<1>1. ASSUME NEW text, NEW file PROVE Quiet(ReadCertificate(text, file))
  BY QuietNone, QuietWith, QuietProvided DEF ReadCertificate, QuietOps
<1> QED BY <1>1, QuietSignJwt, QuietJoin DEF PrivateCa

\* The document an instance proves itself with is fetched quietly.
LEMMA QuietPkcs7 ==
  ASSUME NEW c
  PROVE  Quiet(FetchPkcs7(c))
<1> DEFINE a == <<Step("metadata token")>>
           b == <<Step("metadata")>>
           d == <<Step("decode")>>
<1>1. Quiet(a) /\ Quiet(b) /\ Quiet(d)
  BY QuietStep DEF QuietOps
<1>2. /\ <<Step("metadata token"), Step("metadata")>> = a \o b
      /\ <<Step("metadata"), Step("decode")>> = b \o d
  BY TwoElements, Zenon
<1>3. FetchPkcs7(c) \in {a \o b, b, b \o d, Refuse}
  BY <1>2 DEF FetchPkcs7
<1> HIDE DEF a, b, d
<1> QED BY <1>1, <1>3, QuietJoin, QuietRefuse

\* So is a token read from a file, from a variable or from a cloud.
LEMMA QuietOidcToken ==
  ASSUME NEW c
  PROVE  Quiet(FetchOidcToken(c))
<1>1. FetchOidcToken(c) \in
        {<<Step("metadata")>>, <<>>, <<With("read file", c.OidcTokenFile)>>, Refuse}
  BY DEF FetchOidcToken
<1> QED BY <1>1, QuietStep, QuietWith, QuietNone, QuietRefuse DEF QuietOps

-----------------------------------------------------------------------------
(* How a token is fetched.                                                 *)

\* Before anything is fetched, outside a card and before the token is used.
Fresh(t) == t.stage = 0 /\ t.card = "closed" /\ t.phase = "fetch"

\* t with another value, which is got at this stage.
Holding(t, kind, grant, stage) == Point(kind, grant, stage, "closed", t.open, "fetch")

\* The fields of what is known once a request holds something.
LEMMA HoldingIs ==
  ASSUME NEW t, NEW kind, NEW grant, NEW stage, NEW u, u = Holding(t, kind, grant, stage)
  PROVE  /\ u.kind = kind /\ u.grant = grant /\ u.stage = stage /\ u.card = "closed"
         /\ u.open = t.open /\ u.phase = "fetch"
BY DEF Holding, Point

\* A request that is refused gets nowhere, so that it may be said to get
\* anywhere.
LEMMA RefuseLeads ==
  ASSUME NEW t, NEW u, t.card = "closed", u.card = "closed", t.open = u.open, t.phase = u.phase,
         t.phase \in {"fetch", "use"}, t.stage # 0 => u.stage # 0
  PROVE  Leads(Refuse, t, u)
<1> DEFINE x == Step("refuse")
           op == x.op
<1>1. "op" \in DOMAIN x /\ "grant" \notin DOMAIN x /\ op = "refuse"
  BY DEF Step
<1> HIDE DEF x, op
<1>2. /\ op \notin AnswerOps \cup {"exchange"} /\ op \notin AnswerOps \cup {"cache", "store", "pick", "keep", "exchange"}
      /\ op \notin UseOps /\ op \notin AnswerOps /\ op \in AnswerOps \cup {"pick", "keep", "exchange", "refuse"}
      /\ op \notin {"cache", "store"} /\ op # "cache" /\ op # "store" /\ op # "open card" /\ op # "close"
      /\ op # "pick" /\ op # "keep" /\ op # "exchange"
  BY <1>1 DEF AnswerOps, UseOps
<1>3. FlowCard(x, t, u)
  BY <1>2 DEF FlowCard, op
<1>4. FlowValue(x, t, u)
  BY <1>1, <1>2, Zenon DEF FlowValue, op
<1>5. FlowOpen(x, t, u)
  BY <1>2, Zenon DEF FlowOpen, op
<1>6. FlowPhase(x, t, u)
  BY <1>2 DEF FlowPhase, op
<1>7. FlowStage(x, t, u)
  BY <1>2, Zenon DEF FlowStage, op
<1>8. Flow(x, t, u)
  BY <1>3, <1>4, <1>5, <1>6, <1>7 DEF Flow
<1>9. Leads(<<x>>, t, u)
  BY <1>8, LeadsOne
<1> QED BY <1>9 DEF Refuse, x

\* A step that asks for a token.
IsAnswerStep(x) == "op" \in DOMAIN x /\ "grant" \in DOMAIN x /\ x.op \in AnswerOps

\* A step that asks gets an answer for its grant.
LEMMA AnswerFlow ==
  ASSUME NEW x, IsAnswerStep(x), NEW t, Fresh(t)
  PROVE  Flow(x, t, Holding(t, "answer", x.grant, 1))
<1> DEFINE u == Holding(t, "answer", x.grant, 1)
           op == x.op
<1>1. "op" \in DOMAIN x /\ "grant" \in DOMAIN x /\ op \in AnswerOps
  BY DEF IsAnswerStep
<1>t. /\ t.stage = 0 /\ t.card = "closed" /\ t.phase = "fetch" /\ u.stage = 1 /\ u.card = "closed"
      /\ u.phase = "fetch" /\ u.open = t.open /\ u.kind = "answer" /\ u.grant = x.grant
  <2> DEFINE grant == x.grant
  <2>1. u = Holding(t, "answer", grant, 1)
    OBVIOUS
  <2> HIDE DEF u, grant
  <2>2. /\ u.stage = 1 /\ u.card = "closed" /\ u.phase = "fetch" /\ u.open = t.open /\ u.kind = "answer"
        /\ u.grant = grant
    BY <2>1, HoldingIs
  <2> QED BY <2>2 DEF Fresh, grant
<1> HIDE DEF u, op
<1>2. /\ op \in AnswerOps \cup {"exchange"} /\ op \in AnswerOps \cup {"cache", "store", "pick", "keep", "exchange"}
      /\ op \notin UseOps /\ op \in AnswerOps \cup {"pick", "keep", "exchange", "refuse"}
      /\ op \notin {"cache", "store"} /\ op # "cache" /\ op # "store" /\ op # "open card" /\ op # "close"
      /\ op # "pick" /\ op # "keep" /\ op # "exchange"
      /\ op \notin {"open token", "cache", "store", "refuse"}
  BY <1>1 DEF AnswerOps, UseOps
<1>3. FlowCard(x, t, u)
  BY <1>2, <1>t DEF FlowCard, op
<1>4. FlowValue(x, t, u)
  BY <1>1, <1>2, <1>t, Zenon DEF FlowValue, op
<1>5. FlowOpen(x, t, u)
  BY <1>2, <1>t, Zenon DEF FlowOpen, op
<1>6. FlowPhase(x, t, u)
  BY <1>2, <1>t DEF FlowPhase, op
<1>7. FlowStage(x, t, u)
  BY <1>2, <1>t DEF FlowStage, op
<1> QED BY <1>3, <1>4, <1>5, <1>6, <1>7 DEF Flow, u

\* A quiet walk to the one step that asks for a token, for this grant.
AsksFor(s, grant) ==
  \/ s = Refuse
  \/ \E p, x : Quiet(p) /\ IsAnswerStep(x) /\ x.grant = grant /\ s = p \o <<x>>

\* Steps that ask once lead to an answer for their grant.
LEMMA AsksLeads ==
  ASSUME NEW s, NEW grant, AsksFor(s, grant), NEW t, Fresh(t)
  PROVE  Leads(s, t, Holding(t, "answer", grant, 1))
<1> DEFINE u == Holding(t, "answer", grant, 1)
<1>1. CASE s = Refuse
  <2>1. /\ t.card = "closed" /\ u.card = "closed" /\ t.open = u.open /\ t.phase = u.phase
        /\ t.phase \in {"fetch", "use"} /\ (t.stage # 0 => u.stage # 0)
    <3>1. u = Holding(t, "answer", grant, 1)
      OBVIOUS
    <3> HIDE DEF u
    <3>2. u.stage = 1 /\ u.card = "closed" /\ u.phase = "fetch" /\ u.open = t.open
      BY <3>1, HoldingIs
    <3> QED BY <3>2 DEF Fresh
  <2> HIDE DEF u
  <2>2. Leads(Refuse, t, u)
    BY <2>1, RefuseLeads, Zenon
  <2> QED BY <1>1, <2>2 DEF u
<1>2. CASE \E p, x : Quiet(p) /\ IsAnswerStep(x) /\ x.grant = grant /\ s = p \o <<x>>
  <2>1. PICK p, x : Quiet(p) /\ IsAnswerStep(x) /\ x.grant = grant /\ s = p \o <<x>>
    BY <1>2
  <2>2. Free(t)
    BY DEF Free, Fresh
  <2>3. Leads(p, t, t)
    BY <2>1, <2>2 DEF Quiet
  <2>4. Leads(<<x>>, t, u)
    BY <2>1, AnswerFlow, LeadsOne
  <2> HIDE DEF u
  <2>5. Leads(p \o <<x>>, t, u)
    BY <2>3, <2>4, LeadsJoin
  <2> QED BY <2>1, <2>5 DEF u
<1> QED BY <1>1, <1>2 DEF AsksFor

\* Quiet steps before the one that asks do not change that.
LEMMA AsksAfter ==
  ASSUME NEW p, Quiet(p), NEW x, IsAnswerStep(x)
  PROVE  /\ AsksFor(p \o <<x>>, x.grant) /\ AsksFor(Then(p, <<x>>), x.grant)
         /\ AsksFor(<<x>>, x.grant)
<1>1. AsksFor(p \o <<x>>, x.grant)
  BY DEF AsksFor
<1>2. AsksFor(Then(p, <<x>>), x.grant)
  BY <1>1 DEF Then, AsksFor
<1>3. AsksFor(<<x>>, x.grant)
  <2>1. <<>> \o <<x>> = <<x>>
    OBVIOUS
  <2> QED BY <2>1, QuietNone DEF AsksFor
<1> QED BY <1>1, <1>2, <1>3

\* The requests of client credentials, assertions and refresh tokens ask once.
LEMMA AsksToken ==
  ASSUME NEW grant, NEW p, Quiet(p)
  PROVE  AsksFor(FetchToken(grant), grant) /\ AsksFor(Then(p, FetchToken(grant)), grant)
<1> DEFINE x == [op |-> "token", grant |-> grant, again |-> TRUE]
<1>1. IsAnswerStep(x) /\ x.grant = grant
  BY DEF IsAnswerStep, AnswerOps
<1>2. FetchToken(grant) = <<x>>
  BY DEF FetchToken
<1> HIDE DEF x
<1> QED BY <1>1, <1>2, AsksAfter

\* The OpenAPI is asked once.
LEMMA AsksOpenApi ==
  ASSUME NEW c
  PROVE  AsksFor(FetchAccessTokenOpenApi(c), OpenApiGrant(c))
<1> DEFINE y == With("client", ConvertToCredentialConfig(c))
           x == [op |-> "open api", grant |-> OpenApiGrant(c)]
<1>1. IsAnswerStep(x) /\ x.grant = OpenApiGrant(c)
  BY DEF IsAnswerStep, AnswerOps
<1>2. FetchAccessTokenOpenApi(c) = <<y, x>>
  BY Zenon DEF FetchAccessTokenOpenApi, OpenApiGrant
<1>3. Quiet(<<y>>)
  BY QuietWith DEF QuietOps
<1> HIDE DEF x, y
<1>4. <<y, x>> = <<y>> \o <<x>>
  BY TwoElements
<1> QED BY <1>1, <1>2, <1>3, <1>4, AsksAfter

\* Whichever way a client authenticates, it asks once, and what for does not
\* depend on a setting that no digest has (idp/client_credentials.go).
LEMMA AsksClient ==
  ASSUME NEW c
  PROVE  AsksFor(FetchAccessTokenClientCredentials(c), ClientGrant(c))
<1> DEFINE named == Append(CommonOptions(c), c.ApplicationFederatedCredentialName)
           methods == ClientAuthMethods(c)
<1>1. AsksFor(ClientIdSecret(c), CommonOptions(c))
  BY AsksToken, QuietNone DEF ClientIdSecret, CommonOptions
<1>2. AsksFor(Rfc7523(c), CommonOptions(c))
  BY AsksToken, QuietSignJwt DEF Rfc7523, FetchTokenRfc7523
<1>3. AsksFor(Pkcs7(c), named)
  BY AsksToken, QuietPkcs7 DEF Pkcs7, FetchTokenPkcs7Bearer
<1>4. AsksFor(X509(c), named)
  BY AsksToken, QuietPrivateCa DEF X509, FetchTokenX509JwtBearer
<1>5. AsksFor(IdToken(c), named)
  BY AsksToken, QuietOidcToken DEF IdToken, FetchTokenIdTokenBearer
<1>6. /\ methods \in {{"secret"}, {"signer"}} => ClientGrant(c) = CommonOptions(c)
      /\ methods \in {{"pkcs7"}, {"private_ca"}, {"oidc_token"}} => ClientGrant(c) = named
  <2>1. /\ "pkcs7" \in methods <=> c.ClientAssertionPkcs7Config # Nil
        /\ "private_ca" \in methods <=> c.ClientAssertionPrivateCaConfig # Nil
        /\ "oidc_token" \in methods <=> c.ClientAssertionOidcTokenConfig # Nil
    BY DEF ClientAuthMethods
  <2> HIDE DEF methods, named
  <2>2. methods \in {{"secret"}, {"signer"}} =>
          "pkcs7" \notin methods /\ "private_ca" \notin methods /\ "oidc_token" \notin methods
    OBVIOUS
  <2>3. methods \in {{"pkcs7"}, {"private_ca"}, {"oidc_token"}} =>
          "pkcs7" \in methods \/ "private_ca" \in methods \/ "oidc_token" \in methods
    OBVIOUS
  <2> QED BY <2>1, <2>2, <2>3 DEF ClientGrant, named
<1>7. \/ FetchAccessTokenClientCredentials(c) = Refuse
      \/ methods = {"secret"} /\ FetchAccessTokenClientCredentials(c) = ClientIdSecret(c)
      \/ methods = {"signer"} /\ FetchAccessTokenClientCredentials(c) = Rfc7523(c)
      \/ methods = {"pkcs7"} /\ FetchAccessTokenClientCredentials(c) = Pkcs7(c)
      \/ methods = {"private_ca"} /\ FetchAccessTokenClientCredentials(c) = X509(c)
      \/ methods = {"oidc_token"} /\ FetchAccessTokenClientCredentials(c) = IdToken(c)
  BY Zenon DEF FetchAccessTokenClientCredentials
<1>8. AsksFor(Refuse, ClientGrant(c))
  BY DEF AsksFor
<1> HIDE DEF methods, named
<1> QED BY <1>1, <1>2, <1>3, <1>4, <1>5, <1>6, <1>7, <1>8

\* Whichever way the settings of a provider name, it ends with one question.
LEMMA AsksTokenResponse ==
  ASSUME NEW c
  PROVE  AsksFor(FetchTokenResponse(c), AnswerGrant(c))
<1> DEFINE ways == Ways(c)
<1>1. AsksFor(FetchIdTokenDeviceCode(c.DeviceCode), DeviceCodeGrant(c.DeviceCode))
  <2> DEFINE x == [op |-> "sign in", grant |-> DeviceCodeGrant(c.DeviceCode)]
  <2>1. IsAnswerStep(x) /\ x.grant = DeviceCodeGrant(c.DeviceCode)
    BY DEF IsAnswerStep, AnswerOps
  <2>2. FetchIdTokenDeviceCode(c.DeviceCode) = <<x>>
    BY DEF FetchIdTokenDeviceCode, DeviceCodeGrant
  <2> HIDE DEF x
  <2> QED BY <2>1, <2>2, AsksAfter, QuietNone
<1>2. /\ ways = {"DeviceCode"} => AnswerGrant(c) = DeviceCodeGrant(c.DeviceCode)
      /\ ways = {"ClientCredentials"} => AnswerGrant(c) = ClientGrant(c.ClientCredentials)
      /\ ways = {"OpenApi"} => AnswerGrant(c) = OpenApiGrant(c.OpenApi)
  <2>1. /\ "DeviceCode" \in ways <=> c.DeviceCode # Nil
        /\ "ClientCredentials" \in ways <=> c.ClientCredentials # Nil
    BY DEF Ways
  <2> HIDE DEF ways
  <2>2. /\ ways = {"DeviceCode"} => "DeviceCode" \in ways
        /\ ways = {"ClientCredentials"} => "DeviceCode" \notin ways /\ "ClientCredentials" \in ways
        /\ ways = {"OpenApi"} => "DeviceCode" \notin ways /\ "ClientCredentials" \notin ways
    OBVIOUS
  <2> QED BY <2>1, <2>2 DEF AnswerGrant
<1>3. \/ FetchTokenResponse(c) = Refuse
      \/ ways = {"DeviceCode"} /\ FetchTokenResponse(c) = FetchIdTokenDeviceCode(c.DeviceCode)
      \/ /\ ways = {"ClientCredentials"}
         /\ FetchTokenResponse(c) = FetchAccessTokenClientCredentials(c.ClientCredentials)
      \/ ways = {"OpenApi"} /\ FetchTokenResponse(c) = FetchAccessTokenOpenApi(c.OpenApi)
  BY Zenon DEF FetchTokenResponse
<1>4. AsksFor(Refuse, AnswerGrant(c))
  BY DEF AsksFor
<1> HIDE DEF ways
<1> QED BY <1>1, <1>2, <1>3, <1>4, AsksOpenApi, AsksClient

-----------------------------------------------------------------------------
(* Steps that change the value.                                            *)

\* Picking, keeping and exchanging take what is there to what comes of it
\* (idp/client_oidc_common.go:86-136, cloud/oidc/oidc_common.go:60-77,
\* aws_sts_fetch.go:141-169).
LEMMA PickFlow ==
  ASSUME NEW c, NEW t, t.kind = "answer", t.stage = 1, t.card = "closed", t.phase = "fetch"
  PROVE  Flow(With("pick", c), t, Holding(t, "jwt", <<c, t.grant>>, 2))
<1> DEFINE x == With("pick", c)
           op == x.op
           u == Holding(t, "jwt", <<c, t.grant>>, 2)
<1>1. /\ u.kind = "jwt" /\ u.grant = <<x.with, t.grant>> /\ u.stage = 2 /\ u.card = "closed"
      /\ u.phase = "fetch" /\ u.open = t.open
  BY DEF Holding, Point, With
<1>2. "op" \in DOMAIN x /\ "grant" \notin DOMAIN x /\ op = "pick"
  BY DEF With
<1> HIDE DEF x, op, u
<1>3. /\ op \notin AnswerOps \cup {"exchange"} /\ op \in AnswerOps \cup {"cache", "store", "pick", "keep", "exchange"}
      /\ op \notin UseOps /\ op \notin AnswerOps /\ op \in AnswerOps \cup {"pick", "keep", "exchange", "refuse"}
      /\ op \notin {"cache", "store"} /\ op # "cache" /\ op # "store" /\ op # "open card" /\ op # "close"
      /\ op # "keep" /\ op # "exchange" /\ op \notin {"open card", "close"}
      /\ op \notin {"open token", "cache", "store", "refuse"}
  BY <1>2 DEF AnswerOps, UseOps
<1>4. FlowCard(x, t, u)
  BY <1>1, <1>3 DEF FlowCard, op
<1>5. FlowValue(x, t, u)
  BY <1>1, <1>2, <1>3, Zenon DEF FlowValue, op
<1>6. FlowOpen(x, t, u)
  BY <1>1, <1>3, Zenon DEF FlowOpen, op
<1>7. FlowPhase(x, t, u)
  BY <1>1, <1>3 DEF FlowPhase, op
<1>8. FlowStage(x, t, u)
  <2>1. u.stage # 0
    <3>1. 2 # 0
      OBVIOUS
    <3> QED BY <1>1, <3>1, Zenon
  <2> QED BY <2>1, <1>3, Zenon DEF FlowStage, op
<1> QED BY <1>4, <1>5, <1>6, <1>7, <1>8 DEF Flow, x, u

\* An answer is kept whole in an oidc_token file of its own.
LEMMA KeepFlow ==
  ASSUME NEW t, t.kind = "answer", t.stage = 1, t.card = "closed", t.phase = "fetch"
  PROVE  Flow(Step("keep"), t, Holding(t, "oidc", t.grant, 1))
<1> DEFINE x == Step("keep")
           op == x.op
           u == Holding(t, "oidc", t.grant, 1)
<1>1. /\ u.kind = "oidc" /\ u.grant = t.grant /\ u.stage = 1 /\ u.card = "closed"
      /\ u.phase = "fetch" /\ u.open = t.open
  BY DEF Holding, Point
<1>2. "op" \in DOMAIN x /\ "grant" \notin DOMAIN x /\ op = "keep"
  BY DEF Step
<1> HIDE DEF x, op, u
<1>3. /\ op \notin AnswerOps \cup {"exchange"} /\ op \in AnswerOps \cup {"cache", "store", "pick", "keep", "exchange"}
      /\ op \notin UseOps /\ op \notin AnswerOps /\ op \in AnswerOps \cup {"pick", "keep", "exchange", "refuse"}
      /\ op \notin {"cache", "store"} /\ op # "cache" /\ op # "store" /\ op # "open card" /\ op # "close"
      /\ op # "pick" /\ op # "exchange" /\ op \notin {"open card", "close"}
      /\ op \notin {"open token", "cache", "store", "refuse"}
  BY <1>2 DEF AnswerOps, UseOps
<1>4. FlowCard(x, t, u)
  BY <1>1, <1>3 DEF FlowCard, op
<1>5. FlowValue(x, t, u)
  BY <1>1, <1>2, <1>3, Zenon DEF FlowValue, op
<1>6. FlowOpen(x, t, u)
  BY <1>1, <1>3, Zenon DEF FlowOpen, op
<1>7. FlowPhase(x, t, u)
  BY <1>1, <1>3 DEF FlowPhase, op
<1>8. FlowStage(x, t, u)
  BY <1>1, <1>3 DEF FlowStage, op
<1> QED BY <1>4, <1>5, <1>6, <1>7, <1>8 DEF Flow, x, u

\* A JWT is exchanged for the token of a cloud.
LEMMA ExchangeLeads ==
  ASSUME NEW kind \in CloudKinds, NEW g, NEW t, t.kind = "jwt", t.stage = 2,
         t.card = "closed", t.phase = "fetch"
  PROVE  Leads(Exchange(kind, g), t, Holding(t, kind, Append(g, t.grant), 3))
<1> DEFINE x == [op |-> "exchange", kind |-> kind, grant |-> g]
           op == x.op
           u == Holding(t, kind, Append(g, t.grant), 3)
<1>1. /\ u.kind = kind /\ u.grant = Append(g, t.grant) /\ u.stage = 3 /\ u.card = "closed"
      /\ u.phase = "fetch" /\ u.open = t.open
  BY DEF Holding, Point
<1>2. "op" \in DOMAIN x /\ "grant" \in DOMAIN x /\ op = "exchange" /\ x.kind = kind /\ x.grant = g
  OBVIOUS
<1>a. Exchange(kind, g) = <<x>>
  BY DEF Exchange
<1> HIDE DEF x, op, u
<1>3. /\ op \in AnswerOps \cup {"exchange"} /\ op \in AnswerOps \cup {"cache", "store", "pick", "keep", "exchange"}
      /\ op \notin UseOps /\ op \notin AnswerOps /\ op \in AnswerOps \cup {"pick", "keep", "exchange", "refuse"}
      /\ op \notin {"cache", "store"} /\ op # "cache" /\ op # "store" /\ op # "open card" /\ op # "close"
      /\ op # "pick" /\ op # "keep" /\ op \notin {"open card", "close"}
      /\ op \notin {"open token", "cache", "store", "refuse"}
  BY <1>2 DEF AnswerOps, UseOps
<1>4. FlowCard(x, t, u)
  BY <1>1, <1>3 DEF FlowCard, op
<1>5. FlowValue(x, t, u)
  BY <1>1, <1>2, <1>3, Zenon DEF FlowValue, op
<1>6. FlowOpen(x, t, u)
  BY <1>1, <1>3, Zenon DEF FlowOpen, op
<1>7. FlowPhase(x, t, u)
  BY <1>1, <1>3 DEF FlowPhase, op
<1>8. FlowStage(x, t, u)
  <2>1. u.stage # 0
    <3>1. 3 # 0
      OBVIOUS
    <3> QED BY <1>1, <3>1, Zenon
  <2> QED BY <2>1, <1>3, Zenon DEF FlowStage, op
<1>9. Flow(x, t, u)
  BY <1>4, <1>5, <1>6, <1>7, <1>8 DEF Flow
<1> QED BY <1>9, <1>a, LeadsOne DEF u

-----------------------------------------------------------------------------
(* A fetch within a cache.                                                 *)

\* What is known when this frame's cache has been opened.
Within(t, f) ==
  Point(t.kind, t.grant, t.stage, t.card,
        [c \in Category |-> IF c = f.category THEN {f} ELSE t.open[c]], t.phase)

\* t is outside a cache of the category, and so where it may be opened.
Outside(t, category) ==
  /\ t.open[category] = {}
  /\ category # "oidc_token" => t.open["oidc_token"] = {}

\* A cache may be opened by a request that has asked for nothing yet, and is
\* closed with what its fetch leads to.
LEMMA OpeningFlow ==
  ASSUME NEW f, IsFrame(f), "op" \in DOMAIN f, "grant" \notin DOMAIN f, f.op = "cache",
         NEW t, Fresh(t), Outside(t, f.category)
  PROVE  Flow(f, t, Within(t, f)) /\ Fresh(Within(t, f))
<1> DEFINE op == f.op
           u == Within(t, f)
           c == f.category
<1>1. /\ u.kind = t.kind /\ u.grant = t.grant /\ u.stage = t.stage /\ u.card = t.card
      /\ u.phase = t.phase
  BY DEF Within, Point
<1>o. c \in Category /\ u.open[c] = {f} /\ \A d \in Category \ {c} : u.open[d] = t.open[d]
  <2>1. u.open = [d \in Category |-> IF d = f.category THEN {f} ELSE t.open[d]]
    BY DEF Within, Point
  <2> HIDE DEF u
  <2> QED BY <2>1 DEF IsFrame
<1>2. "op" \in DOMAIN f /\ "grant" \notin DOMAIN f /\ op = "cache"
  OBVIOUS
<1>f. t.stage = 0 /\ t.card = "closed" /\ t.phase = "fetch"
  BY DEF Fresh
<1>t. t.open[c] = {} /\ (c # "oidc_token" => t.open["oidc_token"] = {})
  BY DEF Outside
<1> HIDE DEF op, u, c
<1>3. /\ op \notin AnswerOps \cup {"exchange"} /\ op \in AnswerOps \cup {"cache", "store", "pick", "keep", "exchange"}
      /\ op \notin UseOps /\ op \notin AnswerOps /\ op \notin AnswerOps \cup {"pick", "keep", "exchange", "refuse"}
      /\ op \in {"cache", "store"} /\ op # "store" /\ op # "open card" /\ op # "close"
      /\ op # "pick" /\ op # "keep" /\ op # "exchange" /\ op \notin {"open card", "close"}
      /\ op \in {"open token", "cache", "store", "refuse"}
  BY <1>2 DEF AnswerOps, UseOps
<1>4. FlowCard(f, t, u)
  BY <1>1, <1>3, <1>f DEF FlowCard, op
<1>5. FlowValue(f, t, u)
  BY <1>1, <1>2, <1>3, Zenon DEF FlowValue, op
<1>6. FlowOpen(f, t, u)
  BY <1>o, <1>t, <1>3, Zenon DEF FlowOpen, op, c
<1>7. FlowPhase(f, t, u)
  BY <1>1, <1>3, <1>f DEF FlowPhase, op
<1>8. FlowStage(f, t, u)
  BY <1>1, <1>3, <1>f DEF FlowStage, op
<1>9. Fresh(u)
  BY <1>1, <1>f DEF Fresh
<1> QED BY <1>4, <1>5, <1>6, <1>7, <1>8, <1>9 DEF Flow, u

\* The store of a cache closes it.
LEMMA ClosingFlow ==
  ASSUME NEW f, IsFrame(f), NEW x, "op" \in DOMAIN x, "grant" \notin DOMAIN x, x.op = "store",
         x.category = f.category,
         NEW t, Outside(t, f.category), NEW stage, stage # 0,
         NEW kind, NEW grant, <<kind, grant>> = Fetched(f)
  PROVE  Flow(x, Holding(Within(t, f), kind, grant, stage), Holding(t, kind, grant, stage))
<1> DEFINE op == x.op
           w == Within(t, f)
           v == Holding(w, kind, grant, stage)
           u == Holding(t, kind, grant, stage)
           c == f.category
<1>1. /\ v.kind = kind /\ v.grant = grant /\ v.stage = stage /\ v.card = "closed"
      /\ v.phase = "fetch"
      /\ u.kind = kind /\ u.grant = grant /\ u.stage = stage /\ u.card = "closed"
      /\ u.phase = "fetch" /\ u.open = t.open
  BY DEF Holding, Point
<1>o. c \in Category /\ v.open[c] = {f} /\ \A d \in Category \ {c} : v.open[d] = t.open[d]
  <2>1. v.open = [d \in Category |-> IF d = f.category THEN {f} ELSE t.open[d]]
    BY DEF Within, Holding, Point
  <2> HIDE DEF v
  <2> QED BY <2>1 DEF IsFrame
<1>2. "op" \in DOMAIN x /\ "grant" \notin DOMAIN x /\ op = "store" /\ x.category = c
  OBVIOUS
<1>t. t.open[c] = {} /\ (c # "oidc_token" => t.open["oidc_token"] = {})
  BY DEF Outside
<1>g. <<v.kind, v.grant>> = Fetched(f)
  BY <1>1
<1> HIDE DEF op, u, c, v, w
<1>3. /\ op \notin AnswerOps \cup {"exchange"} /\ op \in AnswerOps \cup {"cache", "store", "pick", "keep", "exchange"}
      /\ op \notin UseOps /\ op \notin AnswerOps /\ op \notin AnswerOps \cup {"pick", "keep", "exchange", "refuse"}
      /\ op \in {"cache", "store"} /\ op # "cache" /\ op # "open card" /\ op # "close"
      /\ op # "pick" /\ op # "keep" /\ op # "exchange" /\ op \notin {"open card", "close"}
      /\ op \in {"open token", "cache", "store", "refuse"}
  BY <1>2 DEF AnswerOps, UseOps
<1>4. FlowCard(x, v, u)
  BY <1>1, <1>3 DEF FlowCard, op
<1>5. FlowValue(x, v, u)
  BY <1>1, <1>2, <1>3, Zenon DEF FlowValue, op
<1>6. FlowOpen(x, v, u)
  <2>1. c # "oidc_token" => v.open["oidc_token"] = {}
    BY <1>o, <1>t DEF Category
  <2>2. u.open[c] = {} /\ \A d \in Category \ {c} : u.open[d] = v.open[d]
    BY <1>o, <1>t, <1>1
  <2> QED BY <1>o, <1>g, <1>2, <1>3, <2>1, <2>2, Zenon DEF FlowOpen, op
<1>7. FlowPhase(x, v, u)
  BY <1>1, <1>3 DEF FlowPhase, op
<1>8. FlowStage(x, v, u)
  BY <1>1, <1>3 DEF FlowStage, op
<1> QED BY <1>4, <1>5, <1>6, <1>7, <1>8 DEF Flow, u, v, w

\* What Cached puts before and after the fetch.
Frame(category, layer, owner, settings, force) ==
  [op |-> "cache", category |-> category, layer |-> layer, owner |-> owner,
   settings |-> settings, force |-> force]

\* So a fetch within a cache leads to the same as the fetch alone
\* (utils/storage.go:117-186).
LEMMA CachedLeads ==
  ASSUME NEW category, NEW layer, NEW owner, NEW settings, NEW force, NEW fetch,
         NEW f, f = Frame(category, layer, owner, settings, force), IsFrame(f),
         NEW t, Fresh(t), Outside(t, category),
         NEW kind, NEW grant, <<kind, grant>> = Fetched(f), NEW stage, stage # 0,
         \A w : w = Within(t, f) => Leads(fetch, w, Holding(w, kind, grant, stage))
  PROVE  Leads(Cached(category, layer, owner, settings, force, fetch), t,
               Holding(t, kind, grant, stage))
<1> DEFINE x == [op |-> "store", category |-> category]
           w == Within(t, f)
           u == Holding(t, kind, grant, stage)
           v == Holding(w, kind, grant, stage)
<1>1. "op" \in DOMAIN f /\ "grant" \notin DOMAIN f /\ f.op = "cache" /\ f.category = category
  BY DEF Frame
<1>2. "op" \in DOMAIN x /\ "grant" \notin DOMAIN x /\ x.op = "store" /\ x.category = category
  OBVIOUS
<1>3. Cached(category, layer, owner, settings, force, fetch) = (<<f>> \o fetch) \o <<x>>
  BY DEF Cached, Frame
<1> HIDE DEF x
<1>4. Flow(f, t, w)
  BY <1>1, OpeningFlow
<1>5. Flow(x, v, u)
  BY <1>1, <1>2, ClosingFlow
<1>6. Leads(fetch, w, v)
  OBVIOUS
<1> HIDE DEF w, u, v
<1>7. Leads(<<f>>, t, w) /\ Leads(<<x>>, v, u)
  BY <1>4, <1>5, LeadsOne
<1>8. Leads((<<f>> \o fetch) \o <<x>>, t, u)
  BY <1>6, <1>7, LeadsJoin
<1> QED BY <1>3, <1>8 DEF u

-----------------------------------------------------------------------------
(* The layers.                                                             *)

\* Only what is held last counts.
LEMMA HoldingTwice ==
  ASSUME NEW t, NEW kind1, NEW grant1, NEW stage1, NEW kind, NEW grant, NEW stage
  PROVE  Holding(Holding(t, kind1, grant1, stage1), kind, grant, stage)
           = Holding(t, kind, grant, stage)
BY DEF Holding, Point

\* A fetch and what is made of its answer.
LEMMA ThenLeads ==
  ASSUME NEW c, NEW x, NEW t, Fresh(t), NEW kind, NEW grant, NEW stage, stage # 0,
         \A w : w = Holding(t, "answer", AnswerGrant(c), 1)
                  => Flow(x, w, Holding(w, kind, grant, stage))
  PROVE  Leads(Then(FetchTokenResponse(c), <<x>>), t, Holding(t, kind, grant, stage))
<1> DEFINE s == FetchTokenResponse(c)
           w == Holding(t, "answer", AnswerGrant(c), 1)
           u == Holding(t, kind, grant, stage)
<1>2. Leads(s, t, w)
  BY AsksTokenResponse, AsksLeads
<1>3. Flow(x, w, u)
  BY HoldingTwice
<1>4. /\ t.card = "closed" /\ u.card = "closed" /\ t.open = u.open /\ t.phase = u.phase
      /\ t.phase \in {"fetch", "use"} /\ t.stage = 0
  BY DEF Fresh, Holding, Point
<1> HIDE DEF s, w, u
<1>5. Leads(<<x>>, w, u)
  BY <1>3, LeadsOne
<1>6. Leads(s \o <<x>>, t, u)
  BY <1>2, <1>5, LeadsJoin
<1>7. Leads(Refuse, t, u)
  BY <1>4, RefuseLeads
<1>8. Leads(Then(s, <<x>>), t, u)
  BY <1>6, <1>7 DEF Then
<1> QED BY <1>8 DEF s, u

\* A fetch from a provider leads to the JWT of its settings.
LEMMA FetchJwtLeads ==
  ASSUME NEW c, NEW t, Fresh(t)
  PROVE  Leads(FetchJwt(c), t, Holding(t, "jwt", JwtGrant(c), 2))
<1> DEFINE x == With("pick", PickedToken(c))
           grant == JwtGrant(c)
<1>1. ASSUME NEW w, w = Holding(t, "answer", AnswerGrant(c), 1)
      PROVE  Flow(x, w, Holding(w, "jwt", grant, 2))
  <2>1. /\ w.kind = "answer" /\ w.stage = 1 /\ w.card = "closed" /\ w.phase = "fetch"
        /\ w.grant = AnswerGrant(c)
    BY <1>1 DEF Holding, Point
  <2>2. Flow(x, w, Holding(w, "jwt", <<PickedToken(c), w.grant>>, 2))
    BY <2>1, PickFlow
  <2> QED BY <2>1, <2>2 DEF JwtGrant
<1> HIDE DEF x, grant
<1>2. Leads(Then(FetchTokenResponse(c), <<x>>), t, Holding(t, "jwt", grant, 2))
  <2>1. 2 # 0
    OBVIOUS
  <2> QED BY <1>1, <2>1, ThenLeads
<1> QED BY <1>2 DEF FetchJwt, x, grant

\* Within the cache of the provider too (idp/client_oidc_common.go:23-49).
LEMMA IdpLeads ==
  ASSUME NEW c, NEW force, NEW t, Fresh(t), t.open["oidc_token"] = {}
  PROVE  Leads(IdpFetchOidcToken(c, force), t, Holding(t, "jwt", JwtGrant(c), 2))
<1> DEFINE f == Frame("oidc_token", "provider", GetId(c), c, force)
           grant == JwtGrant(c)
           fetch == FetchJwt(c)
           id == GetId(c)
<1>1. IsFrame(f)
  BY DEF Frame, IsFrame, Category
<1>2. <<"jwt", grant>> = Fetched(f)
  BY DEF Frame, Fetched
<1>3. Outside(t, "oidc_token")
  BY DEF Outside
<1>4. ASSUME NEW w, w = Within(t, f)
      PROVE  Leads(fetch, w, Holding(w, "jwt", grant, 2))
  <2>1. Fresh(w)
    BY <1>4 DEF Fresh, Within, Point
  <2> QED BY <2>1, FetchJwtLeads
<1>5. IdpFetchOidcToken(c, force) = Cached("oidc_token", "provider", id, c, force, fetch)
  BY DEF IdpFetchOidcToken
<1>6. f = Frame("oidc_token", "provider", id, c, force) /\ 2 # 0
  OBVIOUS
<1> HIDE DEF f, grant, fetch, id
<1>7. Leads(Cached("oidc_token", "provider", id, c, force, fetch), t, Holding(t, "jwt", grant, 2))
  BY <1>1, <1>2, <1>3, <1>4, <1>6, CachedLeads
<1> QED BY <1>5, <1>7 DEF grant

\* Outside all caches.
NoneOpen(t) == \A c \in Category : t.open[c] = {}

\* A cloud's token is held, and nothing is open.
FetchesSome(s) ==
  \A t : Fresh(t) /\ NoneOpen(t) =>
    \E kind \in TokenKinds : \E grant, stage :
      stage # 0 /\ Leads(s, t, Holding(t, kind, grant, stage))

\* Settings that are refused fetch nothing.
LEMMA FetchesProvided ==
  ASSUME NEW ok, NEW s, FetchesSome(s)
  PROVE  FetchesSome(Provided(ok, s)) /\ FetchesSome(Refuse)
<1>1. FetchesSome(Refuse)
  <2> SUFFICES ASSUME NEW t, Fresh(t)
               PROVE  \E kind \in TokenKinds : \E grant, stage :
                        stage # 0 /\ Leads(Refuse, t, Holding(t, kind, grant, stage))
    BY DEF FetchesSome
  <2> DEFINE u == Holding(t, "jwt", Nil, 1)
  <2>1. /\ t.card = "closed" /\ u.card = "closed" /\ t.open = u.open /\ t.phase = u.phase
        /\ t.phase \in {"fetch", "use"} /\ t.stage = 0
    BY DEF Fresh, Holding, Point
  <2> HIDE DEF u
  <2>2. Leads(Refuse, t, u)
    BY <2>1, RefuseLeads
  <2>3. "jwt" \in TokenKinds /\ 1 # 0
    BY DEF TokenKinds
  <2> QED BY <2>2, <2>3 DEF u
<1> QED BY <1>1 DEF Provided

\* A token of a cloud that is exchanged for a JWT.
LEMMA ExchangedLeads ==
  ASSUME NEW layer \in {"AlibabaCloud", "Aws", "CloudAccount"}, NEW owner, NEW settings, NEW force,
         NEW provider, NEW forceNew, NEW before, Quiet(before),
         NEW kind \in CloudKinds, NEW g,
         <<kind, Append(g, JwtGrant(provider))>> =
            Fetched(Frame("cloud_token", layer, owner, settings, force))
  PROVE  /\ FetchesSome(Cached("cloud_token", layer, owner, settings, force,
                        (before \o IdpFetchOidcToken(provider, forceNew)) \o Exchange(kind, g)))
         /\ FetchesSome(Cached("cloud_token", layer, owner, settings, force,
                        IdpFetchOidcToken(provider, forceNew) \o Exchange(kind, g)))
<1> DEFINE f == Frame("cloud_token", layer, owner, settings, force)
           jwt == JwtGrant(provider)
           grant == Append(g, jwt)
           idp == IdpFetchOidcToken(provider, forceNew)
           exchange == Exchange(kind, g)
           short == idp \o exchange
           long == (before \o idp) \o exchange
<1>1. IsFrame(f)
  BY DEF Frame, IsFrame, Category
<1>2. <<kind, grant>> = Fetched(f)
  OBVIOUS
<1>3. f = Frame("cloud_token", layer, owner, settings, force) /\ 3 # 0 /\ f.category = "cloud_token"
  BY DEF Frame
<1> HIDE DEF f
<1>4. ASSUME NEW t, Fresh(t), NoneOpen(t), NEW w, w = Within(t, f)
      PROVE  /\ Leads(long, w, Holding(w, kind, grant, 3))
             /\ Leads(short, w, Holding(w, kind, grant, 3))
  <2>1. Fresh(w)
    BY <1>4 DEF Fresh, Within, Point
  <2>2. w.open["oidc_token"] = {}
    <3>1. w.open = [c \in Category |-> IF c = f.category THEN {f} ELSE t.open[c]]
      BY <1>4 DEF Within, Point
    <3>2. w.open["oidc_token"] = t.open["oidc_token"]
      BY <1>3, <3>1 DEF Category
    <3> QED BY <3>2, <1>4 DEF NoneOpen, Category
  <2> DEFINE m == Holding(w, "jwt", jwt, 2)
             u == Holding(w, kind, grant, 3)
  <2>3. Leads(before, w, w)
    <3>1. Free(w)
      BY <2>1 DEF Free, Fresh
    <3> QED BY <3>1 DEF Quiet
  <2>4. Leads(idp, w, m)
    BY <2>1, <2>2, IdpLeads
  <2>5. Leads(exchange, m, u)
    <3>1. m.kind = "jwt" /\ m.stage = 2 /\ m.card = "closed" /\ m.phase = "fetch" /\ m.grant = jwt
      BY DEF Holding, Point
    <3>2. Holding(m, kind, grant, 3) = u
      BY HoldingTwice
    <3> HIDE DEF m, u, exchange
    <3>3. Leads(Exchange(kind, g), m, Holding(m, kind, Append(g, m.grant), 3))
      BY <3>1, ExchangeLeads
    <3> QED BY <3>1, <3>2, <3>3 DEF exchange
  <2> HIDE DEF m, u, idp, exchange
  <2>6. Leads(short, w, u)
    BY <2>4, <2>5, LeadsJoin
  <2>7. Leads(long, w, u)
    BY <2>3, <2>4, <2>5, LeadsJoin
  <2> QED BY <2>6, <2>7 DEF u
<1> HIDE DEF grant, short, long
<1>5. ASSUME NEW t, Fresh(t), NoneOpen(t)
      PROVE  /\ Leads(Cached("cloud_token", layer, owner, settings, force, long), t,
                      Holding(t, kind, grant, 3))
             /\ Leads(Cached("cloud_token", layer, owner, settings, force, short), t,
                      Holding(t, kind, grant, 3))
  <2>1. Outside(t, "cloud_token")
    BY <1>5 DEF Outside, NoneOpen, Category
  <2>2. \A w : w = Within(t, f) => Leads(long, w, Holding(w, kind, grant, 3))
    BY <1>4, <1>5
  <2>3. \A w : w = Within(t, f) => Leads(short, w, Holding(w, kind, grant, 3))
    BY <1>4, <1>5
  <2>4. Leads(Cached("cloud_token", layer, owner, settings, force, long), t, Holding(t, kind, grant, 3))
    BY <1>1, <1>2, <1>3, <1>5, <2>1, <2>2, CachedLeads
  <2>5. Leads(Cached("cloud_token", layer, owner, settings, force, short), t, Holding(t, kind, grant, 3))
    BY <1>1, <1>2, <1>3, <1>5, <2>1, <2>3, CachedLeads
  <2> QED BY <2>4, <2>5
<1>6. kind \in TokenKinds
  BY DEF TokenKinds
<1>7. /\ FetchesSome(Cached("cloud_token", layer, owner, settings, force, long))
      /\ FetchesSome(Cached("cloud_token", layer, owner, settings, force, short))
  BY <1>3, <1>5, <1>6 DEF FetchesSome
<1> QED BY <1>7 DEF long, short, idp, exchange

\* Each layer leads to the token of its kind and its settings
\* (alibaba_cloud_sts_fetch.go:35-134).
LEMMA AlibabaCloudLeads ==
  ASSUME NEW name, NEW c, NEW a
  PROVE  FetchesSome(FetchAlibabaCloud(name, c, a))
<1> DEFINE endpoint == IF c.StsEndpoint = "" THEN "sts." \o c.Region ELSE c.StsEndpoint
           g == <<endpoint, c.OidcProviderArn, c.RoleArn, c.DurationSeconds, SessionName(c)>>
           force == a.forceNew \/ a.forceNewCloudToken
           before == <<Step("client")>>
           provider == c.OidcTokenProvider
           ok == c.OidcTokenProvider # Nil /\ (c.StsEndpoint # "" \/ c.Region # "")
<1>1. Quiet(before)
  BY QuietStep DEF QuietOps
<1>2. <<"alibaba", Append(g, JwtGrant(provider))>>
        = Fetched(Frame("cloud_token", "AlibabaCloud", name, c, force))
  BY DEF Fetched, Frame
<1>3. FetchAlibabaCloud(name, c, a) =
        Provided(ok, Cached("cloud_token", "AlibabaCloud", name, c, force,
                   (before \o IdpFetchOidcToken(provider, a.forceNew)) \o Exchange("alibaba", g)))
  BY DEF FetchAlibabaCloud
<1>4. "alibaba" \in CloudKinds
  BY DEF CloudKinds
<1> HIDE DEF g, force, before, provider, ok
<1>5. FetchesSome(Cached("cloud_token", "AlibabaCloud", name, c, force,
                   (before \o IdpFetchOidcToken(provider, a.forceNew)) \o Exchange("alibaba", g)))
  BY <1>1, <1>2, <1>4, ExchangedLeads
<1> QED BY <1>3, <1>5, FetchesProvided

\* Likewise for AWS.
LEMMA AwsLeads ==
  ASSUME NEW name, NEW c, NEW a
  PROVE  FetchesSome(FetchAws(name, c, a))
<1> DEFINE g == <<c.Region, c.RoleArn, c.DurationSeconds, SessionName(c)>>
           force == a.forceNew \/ a.forceNewCloudToken
           before == Provided(c.Region # "", <<Step("client")>>)
           provider == c.OidcTokenProvider
           ok == c.OidcTokenProvider # Nil
<1>1. Quiet(before)
  BY QuietStep, QuietProvided DEF QuietOps
<1>2. <<"aws", Append(g, JwtGrant(provider))>>
        = Fetched(Frame("cloud_token", "Aws", name, c, force))
  BY DEF Fetched, Frame
<1>3. FetchAws(name, c, a) =
        Provided(ok, Cached("cloud_token", "Aws", name, c, force,
                   (before \o IdpFetchOidcToken(provider, a.forceNew)) \o Exchange("aws", g)))
  BY DEF FetchAws
<1>4. "aws" \in CloudKinds
  BY DEF CloudKinds
<1> HIDE DEF g, force, before, provider, ok
<1>5. FetchesSome(Cached("cloud_token", "Aws", name, c, force,
                   (before \o IdpFetchOidcToken(provider, a.forceNew)) \o Exchange("aws", g)))
  BY <1>1, <1>2, <1>4, ExchangedLeads
<1> QED BY <1>3, <1>5, FetchesProvided

\* Likewise for a cloud account.
LEMMA CloudAccountLeads ==
  ASSUME NEW name, NEW c, NEW a
  PROVE  FetchesSome(FetchCloudAccount(name, c, a))
<1> DEFINE g == Append(GetCloudAccountEndpoint(c), c.CloudAccountRoleExternalId)
           force == a.forceNew \/ a.forceNewCloudToken
           provider == [c.AccessTokenProvider EXCEPT !.TokenType = "access_token"]
           ok == c.AccessTokenProvider # Nil /\ GetCloudAccountEndpoint(c) # <<>>
<1>2. <<"account", Append(g, JwtGrant(provider))>>
        = Fetched(Frame("cloud_token", "CloudAccount", name, c, force))
  BY DEF Fetched, Frame
<1>3. FetchCloudAccount(name, c, a) =
        Provided(ok, Cached("cloud_token", "CloudAccount", name, c, force,
                   IdpFetchOidcToken(provider, a.forceNew) \o Exchange("account", g)))
  BY DEF FetchCloudAccount
<1>4. "account" \in CloudKinds
  BY DEF CloudKinds
<1> HIDE DEF g, force, provider, ok
<1>5. FetchesSome(Cached("cloud_token", "CloudAccount", name, c, force,
                   IdpFetchOidcToken(provider, a.forceNew) \o Exchange("account", g)))
  BY <1>2, <1>4, QuietNone, ExchangedLeads
<1> QED BY <1>3, <1>5, FetchesProvided

\* Likewise for an OIDC token.
LEMMA CloudOidcTokenLeads ==
  ASSUME NEW name, NEW c, NEW a
  PROVE  FetchesSome(CloudFetchOidcToken(name, c, a))
<1> DEFINE force == a.forceNew \/ a.forceNewCloudToken
           f == Frame("cloud_token", "OidcToken", name, c, force)
           grant == AnswerGrant(c)
           start == <<Step("start")>>
           rest == Then(FetchTokenResponse(c), <<Step("keep")>>)
           fetch == start \o rest
<1>1. CloudFetchOidcToken(name, c, a) =
        Cached("cloud_token", "OidcToken", name, c, force, fetch)
  BY DEF CloudFetchOidcToken
<1>2. IsFrame(f)
  BY DEF Frame, IsFrame, Category
<1>3. <<"oidc", grant>> = Fetched(f)
  BY DEF Frame, Fetched
<1>4. f = Frame("cloud_token", "OidcToken", name, c, force) /\ 1 # 0
  OBVIOUS
<1>5. Quiet(start)
  BY QuietStep DEF QuietOps
<1> HIDE DEF f, force, start
<1>6. ASSUME NEW t, Fresh(t), NEW w, w = Within(t, f)
      PROVE  Leads(fetch, w, Holding(w, "oidc", grant, 1))
  <2>1. Fresh(w)
    BY <1>6 DEF Fresh, Within, Point
  <2>2. Leads(start, w, w)
    <3>1. Free(w)
      BY <2>1 DEF Free, Fresh
    <3> QED BY <3>1, <1>5 DEF Quiet
  <2>3. ASSUME NEW v, v = Holding(w, "answer", AnswerGrant(c), 1)
        PROVE  Flow(Step("keep"), v, Holding(v, "oidc", grant, 1))
    <3>1. /\ v.kind = "answer" /\ v.stage = 1 /\ v.card = "closed" /\ v.phase = "fetch"
          /\ v.grant = grant
      BY <2>3 DEF Holding, Point
    <3> HIDE DEF grant
    <3>2. Flow(Step("keep"), v, Holding(v, "oidc", v.grant, 1))
      BY <3>1, KeepFlow
    <3> QED BY <3>1, <3>2
  <2>4. Leads(rest, w, Holding(w, "oidc", grant, 1))
    <3> DEFINE x == Step("keep")
    <3> HIDE DEF x, grant
    <3>1. Leads(Then(FetchTokenResponse(c), <<x>>), w, Holding(w, "oidc", grant, 1))
      BY <2>1, <2>3, <1>4, ThenLeads DEF x
    <3> QED BY <3>1 DEF x
  <2> HIDE DEF rest
  <2> QED BY <2>2, <2>4, LeadsJoin
<1> HIDE DEF grant, fetch
<1>7. ASSUME NEW t, Fresh(t), NoneOpen(t)
      PROVE  Leads(Cached("cloud_token", "OidcToken", name, c, force, fetch), t,
                   Holding(t, "oidc", grant, 1))
  <2>1. Outside(t, "cloud_token")
    BY <1>7 DEF Outside, NoneOpen, Category
  <2>2. \A w : w = Within(t, f) => Leads(fetch, w, Holding(w, "oidc", grant, 1))
    BY <1>6, <1>7
  <2> QED BY <1>2, <1>3, <1>4, <1>7, <2>1, <2>2, CachedLeads
<1>8. "oidc" \in TokenKinds
  BY DEF TokenKinds
<1>9. FetchesSome(Cached("cloud_token", "OidcToken", name, c, force, fetch))
  BY <1>4, <1>7, <1>8 DEF FetchesSome
<1> QED BY <1>1, <1>9

\* Whichever of them the settings name, some token is fetched.
LEMMA CloudStsLeads ==
  ASSUME NEW name, NEW c, NEW a
  PROVE  FetchesSome(FetchCloudSts(name, c, a))
<1>1. FetchCloudSts(name, c, a) \in
        {FetchAlibabaCloud(name, c.AlibabaCloud, a), FetchAws(name, c.Aws, a),
         CloudFetchOidcToken(name, c.OidcToken, a), FetchCloudAccount(name, c.CloudAccount, a),
         Refuse}
  BY Zenon DEF FetchCloudSts
<1>2. FetchesSome(Refuse)
  BY CloudOidcTokenLeads, FetchesProvided
<1> QED BY <1>1, <1>2, AlibabaCloudLeads, AwsLeads, CloudOidcTokenLeads, CloudAccountLeads

-----------------------------------------------------------------------------
(* The commands.                                                           *)

\* Nothing is known of a request's value when it starts.
Origin == Point("any", Nil, 0, "closed", [c \in Category |-> {}], "fetch")

\* t, when the command has begun to use its token.
Using(t) == Point(t.kind, t.grant, t.stage, "closed", t.open, "use")

\* The request has its token, and no card open.
HasToken(t) == t.card = "closed" /\ t.phase \in {"fetch", "use"} /\ t.kind \in TokenKinds

\* A step that uses the token leaves it as it is.
LEMMA UseFlow ==
  ASSUME NEW x, "op" \in DOMAIN x, "grant" \notin DOMAIN x, x.op \in UseOps,
         NEW t, HasToken(t)
  PROVE  Flow(x, t, Using(t)) /\ HasToken(Using(t)) /\ Using(Using(t)) = Using(t)
<1> DEFINE op == x.op
           u == Using(t)
<1>1. /\ u.kind = t.kind /\ u.grant = t.grant /\ u.stage = t.stage /\ u.card = "closed"
      /\ u.phase = "use" /\ u.open = t.open
  BY DEF Using, Point
<1>2. "op" \in DOMAIN x /\ "grant" \notin DOMAIN x /\ op \in UseOps
  OBVIOUS
<1>f. t.card = "closed" /\ t.phase \in {"fetch", "use"} /\ t.kind \in TokenKinds
  BY DEF HasToken
<1>u. Using(u) = u
  BY DEF Using, Point
<1> HIDE DEF op, u
<1>3. /\ op \notin AnswerOps \cup {"exchange"} /\ op \notin AnswerOps \cup {"cache", "store", "pick", "keep", "exchange"}
      /\ op \notin AnswerOps /\ op \notin AnswerOps \cup {"pick", "keep", "exchange", "refuse"}
      /\ op \notin {"cache", "store"} /\ op # "cache" /\ op # "store" /\ op # "open card" /\ op # "close"
      /\ op # "pick" /\ op # "keep" /\ op # "exchange" /\ op \notin {"open card", "close"}
      /\ op \notin {"open token", "cache", "store", "refuse"}
  BY <1>2 DEF AnswerOps, UseOps
<1>4. FlowCard(x, t, u)
  BY <1>1, <1>3, <1>f DEF FlowCard, op
<1>5. FlowValue(x, t, u)
  BY <1>1, <1>2, <1>3, <1>f, Zenon DEF FlowValue, op
<1>6. FlowOpen(x, t, u)
  BY <1>1, <1>3, Zenon DEF FlowOpen, op
<1>7. FlowPhase(x, t, u)
  BY <1>1, <1>2, <1>3, <1>f DEF FlowPhase, op
<1>8. FlowStage(x, t, u)
  BY <1>1, <1>3, Zenon DEF FlowStage, op
<1>9. HasToken(u)
  BY <1>1, <1>f DEF HasToken
<1> QED BY <1>4, <1>5, <1>6, <1>7, <1>8, <1>9, <1>u DEF Flow, u

\* Steps that use the token that is held.
Uses(s) == \A t : HasToken(t) => Leads(s, Using(t), Using(t))

\* Steps that use the token, or are quiet, one after the other.
LEMMA UsesOne ==
  ASSUME NEW x, "op" \in DOMAIN x, "grant" \notin DOMAIN x, x.op \in UseOps
  PROVE  Uses(<<x>>)
<1> SUFFICES ASSUME NEW t, HasToken(t) PROVE Leads(<<x>>, Using(t), Using(t))
  BY DEF Uses
<1> DEFINE u == Using(t)
<1> HIDE DEF u
<1>1. HasToken(u) /\ Using(u) = u
  BY UseFlow DEF u
<1>2. Flow(x, u, u)
  BY <1>1, UseFlow
<1> QED BY <1>2, LeadsOne DEF u

\* A quiet sequence is such a use.
LEMMA UsesQuiet ==
  ASSUME NEW s, Quiet(s)
  PROVE  Uses(s)
<1> SUFFICES ASSUME NEW t, HasToken(t) PROVE Leads(s, Using(t), Using(t))
  BY DEF Uses
<1>1. Free(Using(t))
  BY DEF Free, Using, Point
<1> QED BY <1>1 DEF Quiet

\* And so are two uses, one after the other.
LEMMA UsesJoin ==
  ASSUME NEW s, NEW t, Uses(s), Uses(t)
  PROVE  Uses(s \o t)
BY LeadsJoin DEF Uses

\* A command leads from its start to a point where nothing is left open.
Closing(t) == t.card = "closed" /\ NoneOpen(t)

\* From the start to an end with everything closed.
Ends(s) == \E u : Closing(u) /\ Leads(s, Origin, u)

\* A request starts with nothing, and may end at once.
LEMMA OriginIs == Fresh(Origin) /\ Closing(Origin)
BY DEF Fresh, Closing, NoneOpen, Origin, Point

\* A command that is refused ends there.
LEMMA RefuseEnds == Ends(Refuse)
<1>1. /\ Origin.card = "closed" /\ Origin.phase \in {"fetch", "use"}
  BY OriginIs DEF Fresh
<1>2. Leads(Refuse, Origin, Origin)
  BY <1>1, RefuseLeads
<1> QED BY <1>2, OriginIs DEF Ends

\* Steps that begin to use the token.
UsesFirst(s) == \A t : HasToken(t) => Leads(s, t, Using(t))

\* A command may format its token before anything else.
LEMMA FormatFirst ==
  ASSUME NEW s, Uses(s)
  PROVE  UsesFirst(<<Step("format")>>) /\ UsesFirst(<<Step("format")>> \o s)
<1> DEFINE x == Step("format")
<1>1. "op" \in DOMAIN x /\ "grant" \notin DOMAIN x /\ x.op \in UseOps
  BY DEF Step, UseOps
<1> HIDE DEF x
<1>2. UsesFirst(<<x>>)
  BY <1>1, UseFlow, LeadsOne DEF UsesFirst
<1>3. UsesFirst(<<x>> \o s)
  BY <1>2, LeadsJoin DEF UsesFirst, Uses
<1> QED BY <1>2, <1>3 DEF x

\* The token is fetched, brought to its form and used.
LEMMA FetchEnds ==
  ASSUME NEW name, NEW c, NEW a, NEW s, UsesFirst(s), NEW r, Uses(r)
  PROVE  /\ Ends(FetchCloudSts(name, c, a) \o s)
         /\ Ends((FetchCloudSts(name, c, a) \o s) \o r)
<1> DEFINE fetch == FetchCloudSts(name, c, a)
           t == Origin
<1>1. Fresh(t) /\ NoneOpen(t)
  BY OriginIs DEF Closing
<1>2. FetchesSome(fetch)
  BY CloudStsLeads
<1> HIDE DEF fetch, t
<1>4. PICK kind, grant, stage :
        kind \in TokenKinds /\ Leads(fetch, t, Holding(t, kind, grant, stage))
  BY <1>1, <1>2 DEF FetchesSome
<1> DEFINE u == Holding(t, kind, grant, stage)
           v == Using(u)
<1>5. u.card = "closed" /\ u.phase = "fetch" /\ u.kind = kind /\ u.open = t.open
  BY DEF Holding, Point
<1>6. v.card = "closed" /\ v.open = u.open
  BY DEF Using, Point
<1> HIDE DEF u, v
<1>7. HasToken(u)
  BY <1>4, <1>5 DEF HasToken
<1>9. Leads(s, u, v) /\ Leads(r, v, v) /\ Leads(fetch, t, u)
  BY <1>4, <1>7 DEF Uses, UsesFirst, u, v
<1>a. Leads(fetch \o s, t, v) /\ Leads((fetch \o s) \o r, t, v)
  BY <1>9, LeadsJoin
<1>b. Closing(v)
  BY <1>1, <1>5, <1>6 DEF Closing, NoneOpen
<1> QED BY <1>a, <1>b DEF Ends, fetch, t

\* A list of credentials is asked for one by one.
CredentialSteps(ids) == [i \in DOMAIN ids |-> With("credential", ids[i])]

\* One step for each identifier, in their order (openclaw_secret/command.go).
LEMMA CredentialStepsAre ==
  ASSUME NEW S, NEW ids \in Seq(S)
  PROVE  /\ IsSeq(CredentialSteps(ids)) /\ Len(CredentialSteps(ids)) = Len(ids) /\ Len(ids) \in Nat
         /\ \A i \in 1..Len(ids) : CredentialSteps(ids)[i] = With("credential", ids[i])
<1> DEFINE s == CredentialSteps(ids)
           X == {With("credential", ids[i]) : i \in 1..Len(ids)}
<1>1. s = [i \in 1..Len(ids) |-> With("credential", ids[i])] /\ Len(ids) \in Nat
  BY DEF CredentialSteps
<1> HIDE DEF s
<1>2. s \in Seq(X) /\ Len(s) = Len(ids)
  BY <1>1
<1>3. \A i \in 1..Len(ids) : s[i] = With("credential", ids[i])
  BY <1>1
<1> HIDE DEF X
<1> QED BY <1>1, <1>2, <1>3 DEF IsSeq, s

\* They use the token, if there are any.
LEMMA CredentialsLead ==
  ASSUME NEW S, NEW ids \in Seq(S), NEW t, HasToken(t)
  PROVE  \E u \in {t, Using(t)} : Leads(CredentialSteps(ids), t, u)
<1> DEFINE s == CredentialSteps(ids)
           n == Len(s)
           v == Using(t)
           points == [i \in 1..(n + 1) |-> IF i = 1 THEN t ELSE v]
<1>1. IsSeq(s) /\ n \in Nat /\ \A i \in 1..n : s[i] = With("credential", ids[i])
  BY CredentialStepsAre
<1>2. ASSUME NEW x PROVE LET y == With("credential", x) IN Flow(y, t, v) /\ Flow(y, v, v)
  <2> DEFINE y == With("credential", x)
  <2>1. "op" \in DOMAIN y /\ "grant" \notin DOMAIN y /\ y.op \in UseOps
    BY DEF With, UseOps
  <2> HIDE DEF y
  <2>2. Flow(y, t, v)
    BY <2>1, UseFlow
  <2>3. HasToken(v) /\ Using(v) = v
    BY <2>1, UseFlow
  <2> HIDE DEF v
  <2>4. Flow(y, v, v)
    BY <2>1, <2>3, UseFlow
  <2> QED BY <2>2, <2>4 DEF y
<1> HIDE DEF s, n, v
<1>3. ASSUME NEW i \in 1..n PROVE Flow(s[i], points[i], points[i + 1])
  <2>1. points[i] \in {t, v} /\ points[i + 1] = v
    BY <1>1
  <2> HIDE DEF points
  <2>2. Flow(With("credential", ids[i]), t, v) /\ Flow(With("credential", ids[i]), v, v)
    BY <1>2
  <2>3. s[i] = With("credential", ids[i])
    BY <1>1
  <2> QED BY <2>1, <2>2, <2>3
<1>4. points[1] = t /\ points[n + 1] \in {t, v}
  BY <1>1
<1> HIDE DEF points
<1>5. Path(s, points)
  BY <1>1, <1>3 DEF Path, n
<1>6. Leads(s, t, points[n + 1])
  BY <1>4, <1>5 DEF Leads, n
<1> QED BY <1>4, <1>6 DEF s, v

\* Each command ends with its card and its caches closed: openclaw-secret ...
LEMMA SecretEnds ==
  ASSUME NEW c, NEW force, NEW S, NEW ids \in Seq(S)
  PROVE  Ends(IdpFetchOidcToken(c, force) \o CredentialSteps(ids))
<1> DEFINE fetch == IdpFetchOidcToken(c, force)
           steps == CredentialSteps(ids)
           t == Origin
           u == Holding(t, "jwt", JwtGrant(c), 2)
<1>1. Fresh(t) /\ Closing(t) /\ t.open["oidc_token"] = {}
  BY OriginIs DEF Closing, NoneOpen, Category
<1>2. Leads(fetch, t, u)
  BY <1>1, IdpLeads
<1>3. u.card = "closed" /\ u.phase = "fetch" /\ u.kind = "jwt" /\ u.open = t.open
  BY DEF Holding, Point
<1>4. HasToken(u)
  BY <1>3 DEF HasToken, TokenKinds
<1> HIDE DEF fetch, steps, t, u
<1>5. PICK v \in {u, Using(u)} : Leads(steps, u, v)
  BY <1>4, CredentialsLead DEF steps
<1>6. Leads(fetch \o steps, t, v)
  BY <1>2, <1>5, LeadsJoin
<1>7. Closing(v)
  <2>1. v.card = "closed" /\ v.open = u.open
    BY <1>3, <1>5 DEF Using, Point
  <2> QED BY <1>1, <1>3, <2>1 DEF Closing, NoneOpen
<1> QED BY <1>6, <1>7 DEF Ends, fetch, steps, t

\* ... fetch-token ...
LEMMA FetchTokenCommandEnds ==
  ASSUME NEW found, NEW a
  PROVE  Ends(FetchTokenCommand(found, a))
<1> DEFINE x == Step("open output")
           y == Step("write output")
           format == <<Step("format")>>
           s == <<x, y>>
           none == <<>>
           fetch == FetchCloudSts(found.name, found.settings, a)
<1>1. /\ "op" \in DOMAIN x /\ "grant" \notin DOMAIN x /\ x.op \in UseOps
      /\ "op" \in DOMAIN y /\ "grant" \notin DOMAIN y /\ y.op \in UseOps
  BY DEF Step, UseOps
<1>2. Uses(none)
  BY QuietNone, UsesQuiet
<1>3. UsesFirst(format)
  BY <1>2, FormatFirst
<1>4. FetchTokenCommand(found, a) \in {(fetch \o format) \o s, (fetch \o format) \o none}
  BY DEF FetchTokenCommand
<1> HIDE DEF x, y, none, format
<1>5. Uses(s)
  BY <1>1, UsesOne, UsesJoin, TwoElements
<1> HIDE DEF s
<1>6. Ends((fetch \o format) \o s) /\ Ends((fetch \o format) \o none)
  BY <1>2, <1>3, <1>5, FetchEnds
<1> QED BY <1>4, <1>6

\* ... execute ...
LEMMA ExecuteEnds ==
  ASSUME NEW found, NEW a
  PROVE  Ends(Execute(found, a))
<1> DEFINE x == [op |-> "environment", environments |-> found.settings.Environments]
           y == Step("format")
           run == Provided(a.args, <<Step("run command")>>)
           s == <<y, x>>
           fetch == FetchCloudSts(found.name, found.settings, a)
<1>1. "op" \in DOMAIN x /\ "grant" \notin DOMAIN x /\ x.op \in UseOps
  BY DEF UseOps
<1>2. Uses(run)
  BY QuietStep, QuietProvided, UsesQuiet DEF QuietOps
<1>3. Execute(found, a) = (fetch \o s) \o run
  BY DEF Execute
<1> HIDE DEF x, y, run, fetch
<1>4. UsesFirst(<<y>> \o <<x>>)
  <2>1. Uses(<<x>>)
    BY <1>1, UsesOne
  <2>2. UsesFirst(<<Step("format")>> \o <<x>>)
    BY <2>1, FormatFirst
  <2> QED BY <2>2 DEF y
<1>5. UsesFirst(s)
  <2>1. s = <<y>> \o <<x>>
    BY TwoElements
  <2> QED BY <1>4, <2>1
<1> HIDE DEF s
<1>6. Ends((fetch \o s) \o run)
  BY <1>2, <1>5, FetchEnds DEF fetch
<1> QED BY <1>3, <1>6

\* ... start-session ...
LEMMA StartSessionEnds ==
  ASSUME NEW found, NEW a
  PROVE  Ends(StartSession(found, a))
<1> DEFINE x == Step("format")
           y == Step("client")
           z == Step("start terminal session")
           w == Step("dial")
           s == <<x, y, z, w>>
           none == <<>>
           fetch == FetchCloudSts(found.name, found.settings, a)
<1>1. Uses(<<y>>) /\ Uses(<<z>>) /\ Uses(<<w>>) /\ Uses(none)
  BY QuietStep, QuietNone, UsesQuiet DEF QuietOps
<1>2. UsesFirst(<<x>>)
  BY <1>1, FormatFirst
<1>3. StartSession(found, a) = fetch \o s
  BY DEF StartSession
<1> HIDE DEF x, y, z, w, none, fetch
<1>4. UsesFirst((<<x>> \o <<y>>) \o (<<z>> \o <<w>>))
  BY <1>1, <1>2, LeadsJoin DEF UsesFirst, Uses
<1>5. UsesFirst(s)
  <2>1. s = (<<x>> \o <<y>>) \o (<<z>> \o <<w>>)
    BY FourElements
  <2> QED BY <1>4, <2>1
<1> HIDE DEF s
<1>6. Ends(fetch \o s)
  BY <1>1, <1>5, FetchEnds DEF fetch
<1> QED BY <1>3, <1>6

\* ... show-token and the requests of serve ...
LEMMA FormatEnds ==
  ASSUME NEW found, NEW a
  PROVE  Ends(ShowToken(found, a)) /\ Ends(HandleCloudToken(found, a))
<1> DEFINE s == <<Step("format")>>
           fetch == FetchCloudSts(found.name, found.settings, a)
           none == <<>>
<1>1. Uses(none)
  BY QuietNone, UsesQuiet
<1>2. UsesFirst(s)
  BY <1>1, FormatFirst
<1>3. ShowToken(found, a) = fetch \o s /\ HandleCloudToken(found, a) = fetch \o s
  BY DEF ShowToken, HandleCloudToken
<1> HIDE DEF s, none
<1>4. Ends(fetch \o s)
  BY <1>1, <1>2, FetchEnds
<1> QED BY <1>3, <1>4

\* The steps of an agent's request end with its credentials, if it is not
\* refused or panics at once.
LEMMA OpenClawSteps ==
  ASSUME NEW found, NEW a
  PROVE  \/ FetchOpenClawSecret(found, a) \in {Refuse, <<Step("panic")>>}
         \/ \E c : FetchOpenClawSecret(found, a) =
                     IdpFetchOidcToken(c, a.forceNew) \o CredentialSteps(a.ids)
BY Zenon DEF FetchOpenClawSecret, CredentialSteps

\* ... openclaw-secret with the settings it finds ...
LEMMA OpenClawEnds ==
  ASSUME NEW found, NEW a, NEW S, a.ids \in Seq(S)
  PROVE  Ends(FetchOpenClawSecret(found, a))
<1> DEFINE ids == a.ids
<1>1. Ends(<<Step("panic")>>)
  <2>1. Free(Origin)
    BY OriginIs DEF Free, Fresh
  <2>2. Leads(<<Step("panic")>>, Origin, Origin)
    BY <2>1, QuietStep DEF Quiet, QuietOps
  <2> QED BY <2>2, OriginIs DEF Ends
<1>2. ASSUME NEW c, NEW force PROVE Ends(IdpFetchOidcToken(c, force) \o CredentialSteps(ids))
  <2> HIDE DEF ids
  <2>1. ids \in Seq(S)
    BY DEF ids
  <2> QED BY <2>1, SecretEnds
<1> QED BY <1>1, <1>2, RefuseEnds, OpenClawSteps

\* ... so every command does.
LEMMA CommandEnds ==
  ASSUME NEW found, NEW a, a.command \in CommandNames, NEW S, a.ids \in Seq(S)
  PROVE  Ends(Command(found, a))
<1>1. Command(found, a) \in
        {Refuse, FetchTokenCommand(found, a), Execute(found, a), ShowToken(found, a),
         StartSession(found, a), HandleCloudToken(found, a), FetchOpenClawSecret(found, a)}
  BY DEF Command, CommandNames
<1> QED BY <1>1, RefuseEnds, FetchTokenCommandEnds, ExecuteEnds, StartSessionEnds, FormatEnds,
           OpenClawEnds

-----------------------------------------------------------------------------
(* Along a path.                                                           *)

\* What holds at a and is kept by each step holds up to b.
LEMMA Onward ==
  ASSUME NEW S, NEW a \in Nat, NEW b \in Nat, a \in S,
         \A i \in a..(b - 1) : i \in S => i + 1 \in S
  PROVE  \A i \in a..b : i \in S
<1> DEFINE T == {i \in a..b : i \notin S}
<1>1. ASSUME T # {} PROVE FALSE
  <2> DEFINE m == Min(T)
  <2>1. T \subseteq Nat
    OBVIOUS
  <2> HIDE DEF T, m
  <2>2. m \in T /\ \A x \in T : m <= x
    BY <1>1, <2>1, LeastExists DEF m
  <2>3. m \in Nat /\ m > a /\ m <= b /\ m \notin S
    <3>1. m \in a..b /\ m \notin S
      BY <2>2 DEF T
    <3>2. m # a
      BY <3>1
    <3> QED BY <3>1, <3>2
  <2>4. m - 1 \in a..(b - 1) /\ (m - 1) + 1 = m
    BY <2>3
  <2>5. m - 1 \notin T
    BY <2>2, <2>3
  <2>6. m - 1 \in S
    BY <2>3, <2>5 DEF T
  <2> QED BY <2>3, <2>4, <2>6
<1> QED BY <1>1

\* A step of a path, taken apart.
LEMMA PathStep ==
  ASSUME NEW s, NEW p, Path(s, p), NEW i \in 1..Len(s)
  PROVE  /\ FlowCard(s[i], p[i], p[i + 1]) /\ FlowValue(s[i], p[i], p[i + 1])
         /\ FlowStage(s[i], p[i], p[i + 1]) /\ FlowOpen(s[i], p[i], p[i + 1])
         /\ FlowPhase(s[i], p[i], p[i + 1])
BY DEF Path, Flow

\* A path has a length.
LEMMA PathLen ==
  ASSUME NEW s, NEW p, Path(s, p)
  PROVE  IsSeq(s) /\ Len(s) \in Nat
BY SeqIndices DEF Path

\* A request that has asked has asked from then on.
LEMMA StageStays ==
  ASSUME NEW s, NEW p, Path(s, p), NEW a \in 1..(Len(s) + 1), p[a].stage # 0
  PROVE  \A i \in a..(Len(s) + 1) : p[i].stage # 0
<1> DEFINE n == Len(s)
           S == {i \in 1..(n + 1) : p[i].stage # 0}
<1>1. n \in Nat
  BY PathLen
<1>2. ASSUME NEW i \in 1..n, p[i].stage # 0 PROVE p[i + 1].stage # 0
  BY <1>2, PathStep DEF FlowStage
<1> HIDE DEF n
<1>3. a \in S /\ a \in Nat /\ n + 1 \in Nat
  BY <1>1 DEF n
<1>4. ASSUME NEW i \in a..((n + 1) - 1), i \in S PROVE i + 1 \in S
  <2>1. i \in 1..n /\ i + 1 \in 1..(n + 1)
    BY <1>1, <1>3
  <2> QED BY <2>1, <1>2, <1>4
<1> HIDE DEF S
<1>5. \A i \in a..(n + 1) : i \in S
  BY <1>3, <1>4, Onward
<1> QED BY <1>5 DEF S, n

\* A command that has begun to use its token fetches nothing any more.
LEMMA PhaseStays ==
  ASSUME NEW s, NEW p, Path(s, p), NEW a \in 1..(Len(s) + 1), p[a].phase = "use"
  PROVE  /\ \A i \in a..(Len(s) + 1) : p[i].phase = "use"
         /\ \A i \in a..Len(s) :
              s[i].op \notin AnswerOps \cup {"cache", "store", "pick", "keep", "exchange"}
<1> DEFINE n == Len(s)
           S == {i \in 1..(n + 1) : p[i].phase = "use"}
<1>1. n \in Nat
  BY PathLen
<1>2. ASSUME NEW i \in 1..n, p[i].phase = "use"
      PROVE  /\ p[i + 1].phase = "use"
             /\ s[i].op \notin AnswerOps \cup {"cache", "store", "pick", "keep", "exchange"}
  <2>1. FlowPhase(s[i], p[i], p[i + 1])
    BY PathStep
  <2> DEFINE x == s[i]
             t == p[i]
             u == p[i + 1]
  <2>2. FlowPhase(x, t, u) /\ t.phase = "use"
    BY <1>2, <2>1
  <2> HIDE DEF x, t, u
  <2>3. /\ u.phase = "use"
        /\ x.op \notin AnswerOps \cup {"cache", "store", "pick", "keep", "exchange"}
    BY <2>2 DEF FlowPhase
  <2> QED BY <2>3 DEF x, u
<1> HIDE DEF n
<1>3. a \in S /\ a \in Nat /\ n + 1 \in Nat
  BY <1>1 DEF n
<1>4. ASSUME NEW i \in a..((n + 1) - 1), i \in S PROVE i + 1 \in S
  <2>1. i \in 1..n /\ i + 1 \in 1..(n + 1)
    BY <1>1, <1>3
  <2> QED BY <2>1, <1>2, <1>4
<1> HIDE DEF S
<1>5. \A i \in a..(n + 1) : i \in S
  BY <1>3, <1>4, Onward
<1>6. \A i \in a..(n + 1) : p[i].phase = "use"
  BY <1>5 DEF S
<1>7. ASSUME NEW i \in a..n
      PROVE  s[i].op \notin AnswerOps \cup {"cache", "store", "pick", "keep", "exchange"}
  <2>1. i \in 1..n /\ i \in a..(n + 1)
    BY <1>1, <1>3 DEF n
  <2> QED BY <2>1, <1>2, <1>6
<1> QED BY <1>6, <1>7 DEF n

\* The closing of an open card is left, and before it no other use of one.
CardEvents == {"open card", "open token", "close"}

\* If a card is open at the start of a path and closed at its end, the first
\* step of a card on it is the one that closes it.
LEMMA CardCloses ==
  ASSUME NEW s, NEW p, Path(s, p), p[1].card = "open", p[Len(s) + 1].card = "closed"
  PROVE  \E j \in 1..Len(s) : s[j].op = "close" /\ \A k \in 1..Len(s) : k < j => s[k].op \notin CardEvents
<1> DEFINE n == Len(s)
           C == {k \in 1..n : s[k].op \in CardEvents}
           S == {i \in 1..(n + 1) : p[i].card = "open"}
<1>1. n \in Nat
  BY PathLen
<1>2. ASSUME NEW i \in 1..n, p[i].card = "open"
      PROVE  /\ s[i].op \notin CardEvents => p[i + 1].card = "open"
             /\ s[i].op \in CardEvents => s[i].op = "close"
  <2> DEFINE x == s[i]
             t == p[i]
             u == p[i + 1]
  <2>1. FlowCard(x, t, u) /\ t.card = "open"
    BY <1>2, PathStep
  <2> HIDE DEF x, t, u
  <2>2. /\ x.op \notin CardEvents => u.card = "open"
        /\ x.op \in CardEvents => x.op = "close"
    BY <2>1 DEF FlowCard, CardEvents
  <2> QED BY <2>2 DEF x, u
<1>e. p[1].card = "open" /\ p[n + 1].card # "open"
  OBVIOUS
<1> HIDE DEF n
<1>3. ASSUME NEW b \in 1..(n + 1), \A k \in 1..n : k < b => s[k].op \notin CardEvents
      PROVE  p[b].card = "open"
  <2>1. 1 \in S /\ 1 \in Nat /\ b \in Nat
    BY <1>1, <1>e
  <2>2. ASSUME NEW i \in 1..(b - 1), i \in S PROVE i + 1 \in S
    <3>1. i \in 1..n /\ i < b /\ i + 1 \in 1..(n + 1)
      BY <1>1, <1>3
    <3> QED BY <3>1, <1>2, <1>3, <2>2
  <2> HIDE DEF S
  <2>3. \A i \in 1..b : i \in S
    BY <2>1, <2>2, Onward
  <2>4. b \in 1..b
    BY <1>1
  <2> QED BY <2>3, <2>4 DEF S
<1>4. C # {}
  <2> SUFFICES ASSUME C = {} PROVE FALSE
    OBVIOUS
  <2>1. \A k \in 1..n : s[k].op \notin CardEvents
    OBVIOUS
  <2>2. n + 1 \in 1..(n + 1)
    BY <1>1
  <2> QED BY <1>e, <1>3, <2>1, <2>2
<1>5. C \subseteq Nat
  BY <1>1
<1> DEFINE j == Min(C)
<1>6. j \in C /\ \A k \in C : j <= k
  <2> HIDE DEF C
  <2> QED BY <1>4, <1>5, LeastExists
<1> HIDE DEF j
<1>7. j \in 1..n /\ s[j].op \in CardEvents
  BY <1>6
<1>8. ASSUME NEW k \in 1..n, k < j PROVE s[k].op \notin CardEvents
  <2>1. k \notin C
    <3> HIDE DEF C
    <3> QED BY <1>6, <1>8, <1>7, <1>1
  <2> QED BY <2>1
<1>9. s[j].op = "close"
  <2>1. j \in 1..(n + 1)
    BY <1>7, <1>1
  <2>2. p[j].card = "open"
    BY <2>1, <1>3, <1>8
  <2> QED BY <2>2, <1>2, <1>7
<1> QED BY <1>7, <1>8, <1>9 DEF n

\* The steps of a cache of category d.
IsStore(x, d) == x.op = "store" /\ x.category = d

IsOpening(x, d) == x.op = "cache" /\ x.category = d

\* What the steps of caches tell about the caches that are open.
LEMMA OpenStep ==
  ASSUME NEW s, NEW p, Path(s, p), NEW i \in 1..Len(s), NEW d \in Category
  PROVE  /\ IsOpening(s[i], d) =>
              /\ p[i].open[d] = {} /\ p[i].stage = 0 /\ p[i + 1].open[d] = {s[i]}
              /\ d # "oidc_token" => p[i].open["oidc_token"] = {}
         /\ IsStore(s[i], d) =>
              /\ \E f : p[i].open[d] = {f} /\ <<p[i].kind, p[i].grant>> = Fetched(f)
              /\ p[i].stage # 0 /\ p[i + 1].open[d] = {}
              /\ d # "oidc_token" => p[i].open["oidc_token"] = {}
              /\ p[i].card = "closed" /\ p[i + 1].card = "closed"
              /\ p[i + 1].kind = p[i].kind /\ p[i + 1].grant = p[i].grant
         /\ ~IsOpening(s[i], d) /\ ~IsStore(s[i], d) => p[i + 1].open[d] = p[i].open[d]
<1> DEFINE x == s[i]
           t == p[i]
           u == p[i + 1]
<1>1. FlowCard(x, t, u) /\ FlowValue(x, t, u) /\ FlowStage(x, t, u) /\ FlowOpen(x, t, u)
  BY PathStep
<1> HIDE DEF x, t, u
<1>2. CASE IsOpening(x, d)
  <2>1. x.op = "cache" /\ x.category = d /\ x.op # "store"
    BY <1>2 DEF IsOpening
  <2>2. t.open[d] = {} /\ u.open[d] = {x} /\ (d # "oidc_token" => t.open["oidc_token"] = {})
    BY <1>1, <2>1 DEF FlowOpen
  <2>3. t.stage = 0
    BY <1>1, <2>1 DEF FlowStage
  <2> QED BY <2>1, <2>2, <2>3, <1>2 DEF x, t, u, IsStore
<1>3. CASE IsStore(x, d)
  <2>1. x.op = "store" /\ x.category = d /\ x.op # "cache"
    BY <1>3 DEF IsStore
  <2>2. /\ \E f : t.open[d] = {f} /\ <<t.kind, t.grant>> = Fetched(f)
        /\ u.open[d] = {} /\ (d # "oidc_token" => t.open["oidc_token"] = {})
    BY <1>1, <2>1 DEF FlowOpen
  <2>3. t.stage # 0
    BY <1>1, <2>1 DEF FlowStage
  <2>4. t.card = "closed" /\ u.card = "closed"
    BY <1>1, <2>1 DEF FlowCard
  <2>5. u.kind = t.kind /\ u.grant = t.grant
    <3> DEFINE op == x.op
    <3>1. op = "store"
      BY <2>1
    <3> HIDE DEF op
    <3>2. op \notin AnswerOps \cup {"pick", "keep", "exchange", "refuse"}
      BY <3>1 DEF AnswerOps
    <3> QED BY <1>1, <3>2, Zenon DEF FlowValue, op
  <2> QED BY <2>1, <2>2, <2>3, <2>4, <2>5, <1>3 DEF x, t, u, IsOpening
<1>4. CASE ~IsOpening(x, d) /\ ~IsStore(x, d)
  <2>1. u.open[d] = t.open[d]
    <3>1. CASE x.op \in {"cache", "store"}
      <4>1. x.category # d
        BY <1>4, <3>1 DEF IsOpening, IsStore
      <4> QED BY <1>1, <3>1, <4>1 DEF FlowOpen
    <3>2. CASE x.op \notin {"cache", "store"}
      BY <1>1, <3>2 DEF FlowOpen
    <3> QED BY <3>1, <3>2
  <2> QED BY <2>1, <1>4 DEF x, t, u
<1> QED BY <1>2, <1>3, <1>4 DEF x

\* The cache of this category is open, and it is f.
IsOpen(t, d, f) == t.open[d] = {f}

\* From a to b the category is not stored in.
Unstored(s, d, a, b) == \A k \in 1..Len(s) : a <= k /\ k < b => ~IsStore(s[k], d)

\* A cache that is open stays so until its store.
LEMMA OpenStays ==
  ASSUME NEW s, NEW p, Path(s, p), NEW d \in Category, NEW a \in 1..(Len(s) + 1),
         NEW f, IsOpen(p[a], d, f), NEW b \in 1..(Len(s) + 1),
         Unstored(s, d, a, b)
  PROVE  \A i \in a..b : IsOpen(p[i], d, f)
<1> DEFINE n == Len(s)
           S == {i \in 1..(n + 1) : p[i].open[d] = {f}}
<1>1. n \in Nat
  BY PathLen
<1>2. ASSUME NEW i \in 1..n, p[i].open[d] = {f}, ~IsStore(s[i], d) PROVE p[i + 1].open[d] = {f}
  <2>1. ~IsOpening(s[i], d)
    <3>1. p[i].open[d] # {}
      BY <1>2
    <3> QED BY <3>1, OpenStep
  <2> QED BY <1>2, <2>1, OpenStep
<1>a. \A k \in 1..n : a <= k /\ k < b => ~IsStore(s[k], d)
  BY DEF Unstored
<1>b. a \in 1..(n + 1) /\ b \in 1..(n + 1)
  OBVIOUS
<1> HIDE DEF n
<1>3. a \in S /\ a \in Nat /\ b \in Nat
  BY <1>1, <1>b DEF IsOpen
<1>4. ASSUME NEW i \in a..(b - 1), i \in S PROVE i + 1 \in S
  <2>1. i \in 1..n /\ i + 1 \in 1..(n + 1) /\ a <= i /\ i < b
    BY <1>1, <1>b
  <2> QED BY <2>1, <1>2, <1>4, <1>a
<1> HIDE DEF S
<1>5. \A i \in a..b : i \in S
  BY <1>3, <1>4, Onward
<1> QED BY <1>5 DEF S, IsOpen

\* No cache is opened once a token has been asked for.
LEMMA ClosedStays ==
  ASSUME NEW s, NEW p, Path(s, p), NEW d \in Category, NEW a \in 1..(Len(s) + 1),
         p[a].open[d] = {}, p[a].stage # 0
  PROVE  /\ \A i \in a..(Len(s) + 1) : p[i].open[d] = {}
         /\ \A i \in a..Len(s) : ~IsStore(s[i], d)
<1> DEFINE n == Len(s)
           S == {i \in 1..(n + 1) : p[i].open[d] = {}}
<1>1. n \in Nat
  BY PathLen
<1>2. ASSUME NEW i \in 1..n, p[i].open[d] = {}, p[i].stage # 0
      PROVE  p[i + 1].open[d] = {} /\ ~IsStore(s[i], d)
  <2>1. ~IsOpening(s[i], d)
    BY <1>2, OpenStep
  <2>2. ~IsStore(s[i], d)
    <3> SUFFICES ASSUME IsStore(s[i], d) PROVE FALSE
      OBVIOUS
    <3>1. PICK f : p[i].open[d] = {f} /\ <<p[i].kind, p[i].grant>> = Fetched(f)
      BY OpenStep
    <3>2. p[i].open[d] # {}
      BY <3>1
    <3> QED BY <3>2, <1>2
  <2> QED BY <1>2, <2>1, <2>2, OpenStep
<1>b. a \in 1..(n + 1) /\ \A i \in a..(n + 1) : p[i].stage # 0
  BY StageStays
<1> HIDE DEF n
<1>3. a \in S /\ a \in Nat /\ n + 1 \in Nat
  BY <1>1, <1>b
<1>4. ASSUME NEW i \in a..((n + 1) - 1), i \in S PROVE i + 1 \in S
  <2>1. i \in 1..n /\ i + 1 \in 1..(n + 1) /\ i \in a..(n + 1)
    BY <1>1, <1>b
  <2> QED BY <2>1, <1>2, <1>4, <1>b
<1> HIDE DEF S
<1>5. \A i \in a..(n + 1) : i \in S
  BY <1>3, <1>4, Onward
<1>6. \A i \in a..(n + 1) : p[i].open[d] = {}
  BY <1>5 DEF S
<1>7. ASSUME NEW i \in a..n PROVE ~IsStore(s[i], d)
  <2>1. i \in 1..n /\ i \in a..(n + 1)
    BY <1>1, <1>b
  <2> QED BY <2>1, <1>2, <1>6, <1>b
<1> QED BY <1>6, <1>7 DEF n

\* A path stores once in each category.
LEMMA OneStore ==
  ASSUME NEW s, NEW p, Path(s, p), NEW d \in Category,
         NEW i \in 1..Len(s), NEW j \in 1..Len(s), IsStore(s[i], d), IsStore(s[j], d)
  PROVE  i = j
<1>1. ASSUME NEW k \in 1..Len(s), NEW l \in 1..Len(s), IsStore(s[k], d), IsStore(s[l], d), k < l
      PROVE  FALSE
  <2>1. p[k].stage # 0 /\ p[k + 1].open[d] = {}
    BY <1>1, OpenStep
  <2>0. Len(s) \in Nat
    BY PathLen
  <2> DEFINE n == Len(s)
  <2>a. n \in Nat /\ k \in 1..n /\ l \in 1..n /\ k < l
    BY <2>0, <1>1
  <2> HIDE DEF n
  <2>2. /\ k + 1 \in 1..(n + 1) /\ k \in 1..(n + 1) /\ k + 1 \in k..(n + 1) /\ l \in (k + 1)..n
    BY <2>a
  <2>3. p[k + 1].stage # 0
    BY <2>1, <2>2, StageStays DEF n
  <2> QED BY <2>1, <2>2, <2>3, <1>1, ClosedStays DEF n
<1>2. Len(s) \in Nat
  BY PathLen
<1> DEFINE n == Len(s)
<1>3. n \in Nat /\ i \in 1..n /\ j \in 1..n
  BY <1>2
<1>4. ~(i < j) /\ ~(j < i)
  BY <1>1
<1> HIDE DEF n
<1> QED BY <1>3, <1>4

\* Where a store is found: the token is what its cache was opened for, and
\* the other cache is as it was or has been closed on the way.
StoredAt(s, p, f, a, i) ==
  /\ <<p[i + 1].kind, p[i + 1].grant>> = Fetched(f)
  /\ p[i + 1].card = "closed"
  /\ \A d \in Category :
       IF \E k \in 1..Len(s) : a <= k /\ k <= i /\ IsStore(s[k], d)
       THEN p[i + 1].open[d] = {}
       ELSE p[i + 1].open[d] = p[a].open[d]

\* Between the opening of a cache and its store nothing else closes it.
LEMMA AtStore ==
  ASSUME NEW s, NEW p, Path(s, p), NEW c \in Category,
         NEW a \in 1..Len(s), NEW i \in 1..Len(s), a <= i, IsStore(s[i], c),
         NEW f, IsOpen(p[a], c, f)
  PROVE  StoredAt(s, p, f, a, i)
<1> DEFINE n == Len(s)
<1>0. n \in Nat /\ a \in 1..n /\ i \in 1..n
  BY PathLen
<1>s. /\ \E g : p[i].open[c] = {g} /\ <<p[i].kind, p[i].grant>> = Fetched(g)
      /\ p[i].stage # 0 /\ p[i + 1].open[c] = {}
      /\ c # "oidc_token" => p[i].open["oidc_token"] = {}
      /\ p[i + 1].card = "closed"
      /\ p[i + 1].kind = p[i].kind /\ p[i + 1].grant = p[i].grant
  BY OpenStep
<1>1. ASSUME NEW k \in 1..n, k < i PROVE ~IsStore(s[k], c)
  <2>1. k # i
    BY <1>0, <1>1
  <2> QED BY <1>1, <2>1, OneStore
<1> HIDE DEF n
<1>2. \A m \in a..i : p[m].open[c] = {f}
  <2>1. a \in 1..(n + 1) /\ i \in 1..(n + 1)
    BY <1>0
  <2>2. \A k \in 1..n : a <= k /\ k < i => ~IsStore(s[k], c)
    BY <1>1
  <2>3. a \in 1..(Len(s) + 1) /\ i \in 1..(Len(s) + 1)
    BY <2>1 DEF n
  <2>4. Unstored(s, c, a, i)
    BY <2>2 DEF n, Unstored
  <2>5. IsOpen(p[a], c, f)
    OBVIOUS
  <2>6. \A m \in a..i : IsOpen(p[m], c, f)
    BY <2>3, <2>4, <2>5, OpenStays
  <2> QED BY <2>6 DEF IsOpen
<1>3. p[i].open[c] = {f}
  BY <1>0, <1>2
<1>4. <<p[i + 1].kind, p[i + 1].grant>> = Fetched(f)
  <2>1. PICK g : p[i].open[c] = {g} /\ <<p[i].kind, p[i].grant>> = Fetched(g)
    BY <1>s
  <2>2. g = f
    BY <2>1, <1>3
  <2> QED BY <2>1, <2>2, <1>s
<1>5. ASSUME NEW d \in Category, NEW k \in 1..n, a <= k, k <= i, IsStore(s[k], d)
      PROVE  p[i + 1].open[d] = {}
  <2>1. p[k].stage # 0 /\ p[k + 1].open[d] = {}
    BY <1>5, OpenStep DEF n
  <2>2. k + 1 \in 1..(n + 1) /\ k \in 1..(n + 1) /\ k + 1 \in k..(n + 1) /\ i + 1 \in (k + 1)..(n + 1)
    BY <1>0, <1>5
  <2>3. p[k + 1].stage # 0
    BY <2>1, <2>2, StageStays DEF n
  <2> QED BY <2>1, <2>2, <2>3, ClosedStays DEF n
<1>6. ASSUME NEW d \in Category, \A k \in 1..n : a <= k /\ k <= i => ~IsStore(s[k], d)
      PROVE  p[i + 1].open[d] = p[a].open[d]
  <2>1. d # c
    BY <1>6, <1>0
  <2>2. ASSUME NEW m \in a..i, IsOpening(s[m], d) PROVE FALSE
    <3>0. m \in 1..n /\ m # i /\ m + 1 \in a..i /\ m + 1 \in 1..(n + 1) /\ i \in 1..(n + 1)
          /\ i \in (m + 1)..i
      <4>1. m # i
        BY <2>2 DEF IsOpening, IsStore
      <4> QED BY <1>0, <4>1
    <3>1. CASE d = "oidc_token"
      <4>1. p[m + 1].open[d] = {s[m]}
        BY <3>0, <2>2, OpenStep DEF n
      <4>2. \A k \in 1..n : m + 1 <= k /\ k < i => ~IsStore(s[k], d)
        BY <1>6, <1>0, <3>0
      <4>3. m + 1 \in 1..(Len(s) + 1) /\ i \in 1..(Len(s) + 1)
        BY <3>0 DEF n
      <4>5. Unstored(s, d, m + 1, i)
        BY <4>2 DEF n, Unstored
      <4>6. \A l \in (m + 1)..i : p[l].open[d] = {s[m]}
        <5>1. IsOpen(p[m + 1], d, s[m])
          BY <4>1 DEF IsOpen
        <5>2. \A l \in (m + 1)..i : IsOpen(p[l], d, s[m])
          BY <5>1, <4>3, <4>5, OpenStays
        <5> QED BY <5>2 DEF IsOpen
      <4>4. p[i].open[d] = {}
        BY <1>s, <2>1, <3>1
      <4> QED BY <3>0, <4>4, <4>6
    <3>2. CASE d # "oidc_token"
      <4>1. c = "oidc_token"
        BY <2>1, <3>2 DEF Category
      <4>2. p[m].open["oidc_token"] = {}
        BY <3>0, <3>2, <2>2, OpenStep DEF n
      <4>3. p[m].open[c] = {f}
        BY <1>2
      <4> QED BY <4>1, <4>2, <4>3
    <3> QED BY <3>1, <3>2
  <2> DEFINE S == {m \in 1..(n + 1) : p[m].open[d] = p[a].open[d]}
  <2>3. a \in S /\ a \in Nat /\ i + 1 \in Nat
    BY <1>0
  <2>4. ASSUME NEW m \in a..((i + 1) - 1), m \in S PROVE m + 1 \in S
    <3>1. m \in a..i /\ m \in 1..n /\ m + 1 \in 1..(n + 1) /\ a <= m /\ m <= i
      BY <1>0
    <3>2. ~IsOpening(s[m], d) /\ ~IsStore(s[m], d)
      BY <2>2, <1>6, <3>1
    <3>3. p[m + 1].open[d] = p[m].open[d]
      BY <3>1, <3>2, OpenStep DEF n
    <3> QED BY <3>1, <3>3, <2>4
  <2> HIDE DEF S
  <2>5. \A m \in a..(i + 1) : m \in S
    BY <2>3, <2>4, Onward
  <2>6. i + 1 \in a..(i + 1)
    BY <1>0
  <2> QED BY <2>5, <2>6 DEF S
<1>7. \A d \in Category :
        IF \E k \in 1..n : a <= k /\ k <= i /\ IsStore(s[k], d)
        THEN p[i + 1].open[d] = {}
        ELSE p[i + 1].open[d] = p[a].open[d]
  BY <1>5, <1>6
<1> QED BY <1>4, <1>s, <1>7 DEF n, StoredAt

-----------------------------------------------------------------------------
(* What a path ends with is what its steps were asked for.                 *)

\* Steps that ask for something.
HasGrant(x) == "grant" \in DOMAIN x

\* What the steps of values tell about the value.
LEMMA ValueStep ==
  ASSUME NEW s, NEW p, Path(s, p), NEW i \in 1..Len(s), s[i].op # "refuse"
  PROVE  LET x == s[i]
             t == p[i]
             u == p[i + 1]
         IN \/ /\ x.op \in AnswerOps /\ HasGrant(x) /\ x.op # "pick"
               /\ t.stage = 0 /\ u.stage = 1 /\ u.kind = "answer" /\ u.grant = x.grant
            \/ /\ x.op = "pick" /\ ~HasGrant(x)
               /\ t.stage = 1 /\ u.stage = 2 /\ u.kind = "jwt" /\ u.grant = <<x.with, t.grant>>
            \/ /\ x.op = "keep" /\ ~HasGrant(x)
               /\ t.stage = 1 /\ u.stage = 1 /\ u.kind = "oidc" /\ u.grant = t.grant
            \/ /\ x.op = "exchange" /\ HasGrant(x)
               /\ t.stage = 2 /\ u.stage = 3 /\ u.kind \in CloudKinds
               /\ u.grant = Append(x.grant, t.grant)
            \/ /\ x.op # "pick" /\ ~HasGrant(x)
               /\ u.stage = t.stage /\ u.kind = t.kind /\ u.grant = t.grant
<1> DEFINE x == s[i]
           op == x.op
           t == p[i]
           u == p[i + 1]
<1>1. FlowValue(x, t, u)
  BY PathStep
<1>2. op # "refuse"
  OBVIOUS
<1> HIDE DEF x, t, u, op
<1>3. CASE op \in AnswerOps
  <2>1. op \in AnswerOps \cup {"exchange"} /\ op # "pick"
    BY <1>3 DEF AnswerOps
  <2>2. HasGrant(x) /\ t.stage = 0 /\ u.stage = 1 /\ u.kind = "answer" /\ u.grant = x.grant
    BY <1>1, <1>3, <2>1, Zenon DEF FlowValue, HasGrant, op
  <2> QED BY <1>3, <2>1, <2>2 DEF x, t, u, op
<1>4. CASE op = "pick"
  <2>1. op \notin AnswerOps \cup {"exchange"}
    BY <1>4 DEF AnswerOps
  <2>2. ~HasGrant(x) /\ t.stage = 1 /\ u.stage = 2 /\ u.kind = "jwt" /\ u.grant = <<x.with, t.grant>>
    BY <1>1, <1>4, <2>1, Zenon DEF FlowValue, HasGrant, op
  <2> QED BY <1>4, <2>2 DEF x, t, u, op
<1>5. CASE op = "keep"
  <2>1. op \notin AnswerOps \cup {"exchange"}
    BY <1>5 DEF AnswerOps
  <2>2. ~HasGrant(x) /\ t.stage = 1 /\ u.stage = 1 /\ u.kind = "oidc" /\ u.grant = t.grant
    BY <1>1, <1>5, <2>1, Zenon DEF FlowValue, HasGrant, op
  <2> QED BY <1>5, <2>2 DEF x, t, u, op
<1>6. CASE op = "exchange"
  <2>1. op \in AnswerOps \cup {"exchange"}
    BY <1>6
  <2>2. HasGrant(x) /\ t.stage = 2 /\ u.stage = 3 /\ u.kind = x.kind /\ x.kind \in CloudKinds
        /\ u.grant = Append(x.grant, t.grant)
    BY <1>1, <1>6, <2>1, Zenon DEF FlowValue, HasGrant, op
  <2> QED BY <1>6, <2>2 DEF x, t, u, op
<1>7. CASE op \notin AnswerOps /\ op # "pick" /\ op # "keep" /\ op # "exchange"
  <2>1. op \notin AnswerOps \cup {"exchange"} /\ op \notin AnswerOps \cup {"pick", "keep", "exchange", "refuse"}
    BY <1>7, <1>2
  <2>2. ~HasGrant(x) /\ u.stage = t.stage /\ u.kind = t.kind /\ u.grant = t.grant
    BY <1>1, <2>1, Zenon DEF FlowValue, HasGrant, op
  <2> QED BY <1>7, <2>2 DEF x, t, u, op
<1> QED BY <1>3, <1>4, <1>5, <1>6, <1>7

\* The first JWT picked from step b on.
FirstPick(s, b) ==
  b \in 1..Len(s) /\ s[b].op = "pick" /\ \A k \in 1..Len(s) : k < b => s[k].op # "pick"

\* What is held before step i, when step a has asked for a token.
Got(s, p, a, i) ==
  \/ /\ p[i].stage = 1 /\ p[i].kind \in {"answer", "oidc"} /\ p[i].grant = s[a].grant
     /\ \A k \in 1..Len(s) : k < i => s[k].op # "pick" /\ (HasGrant(s[k]) => k = a)
  \/ /\ p[i].stage = 2 /\ p[i].kind = "jwt"
     /\ \E b \in 1..Len(s) : b < i /\ FirstPick(s, b) /\ p[i].grant = <<s[b].with, s[a].grant>>
     /\ \A k \in 1..Len(s) : k < i => (HasGrant(s[k]) => k = a)
  \/ /\ p[i].stage = 3 /\ p[i].kind \in CloudKinds
     /\ \E b, e \in 1..Len(s) :
          /\ b < i /\ FirstPick(s, b) /\ e < i /\ HasGrant(s[e]) /\ a < e
          /\ \A k \in 1..Len(s) : k < i => (HasGrant(s[k]) => k <= e)
          /\ p[i].grant = Append(s[e].grant, <<s[b].with, s[a].grant>>)

\* What is known of the value is kept by the next step.
LEMMA GotStep ==
  ASSUME NEW s, NEW p, Path(s, p), NEW a \in 1..Len(s), HasGrant(s[a]),
         NEW i \in (a + 1)..Len(s), s[i].op # "refuse", Got(s, p, a, i)
  PROVE  Got(s, p, a, i + 1)
<1> DEFINE n == Len(s)
           x == s[i]
           t == p[i]
           u == p[i + 1]
           g == s[a].grant
<1>0. n \in Nat
  BY PathLen
<1>1. n \in Nat /\ a \in 1..n /\ i \in 1..n /\ a < i
  BY <1>0
<1>2. \/ /\ x.op \in AnswerOps /\ HasGrant(x) /\ x.op # "pick"
         /\ t.stage = 0 /\ u.stage = 1 /\ u.kind = "answer" /\ u.grant = x.grant
      \/ /\ x.op = "pick" /\ ~HasGrant(x)
         /\ t.stage = 1 /\ u.stage = 2 /\ u.kind = "jwt" /\ u.grant = <<x.with, t.grant>>
      \/ /\ x.op = "keep" /\ ~HasGrant(x)
         /\ t.stage = 1 /\ u.stage = 1 /\ u.kind = "oidc" /\ u.grant = t.grant
      \/ /\ x.op = "exchange" /\ HasGrant(x)
         /\ t.stage = 2 /\ u.stage = 3 /\ u.kind \in CloudKinds
         /\ u.grant = Append(x.grant, t.grant)
      \/ /\ x.op # "pick" /\ ~HasGrant(x)
         /\ u.stage = t.stage /\ u.kind = t.kind /\ u.grant = t.grant
  BY <1>1, ValueStep, Zenon
<1>3. ASSUME NEW k \in 1..n, k < i + 1 PROVE k < i \/ k = i
  BY <1>1, <1>3
<1>g. Got(s, p, a, i)
  OBVIOUS
<1> HIDE DEF n, t, u, g
<1>4. CASE /\ t.stage = 1 /\ t.kind \in {"answer", "oidc"} /\ t.grant = g
           /\ \A k \in 1..n : k < i => s[k].op # "pick" /\ (HasGrant(s[k]) => k = a)
  <2>1. CASE x.op = "pick"
    <3>1. u.stage = 2 /\ u.kind = "jwt" /\ u.grant = <<s[i].with, g>> /\ ~HasGrant(s[i])
      BY <1>2, <1>4, <2>1 DEF AnswerOps
    <3>2. FirstPick(s, i) /\ i < i + 1
      BY <1>1, <1>4, <2>1 DEF FirstPick, n
    <3>3. \A k \in 1..n : k < i + 1 => (HasGrant(s[k]) => k = a)
      BY <1>3, <1>4, <3>1
    <3> QED BY <1>1, <3>1, <3>2, <3>3 DEF Got, n, u, g
  <2>2. CASE x.op # "pick"
    <3>1. /\ u.stage = 1 /\ u.kind \in {"answer", "oidc"} /\ u.grant = g /\ ~HasGrant(s[i])
          /\ s[i].op # "pick"
      <4> HIDE DEF x
      <4>1. /\ u.stage = 1 /\ u.kind \in {"answer", "oidc"} /\ u.grant = g /\ ~HasGrant(x)
            /\ x.op # "pick"
        BY <1>2, <1>4, <2>2
      <4> QED BY <4>1 DEF x
    <3>2. \A k \in 1..n : k < i + 1 => s[k].op # "pick" /\ (HasGrant(s[k]) => k = a)
      BY <1>3, <1>4, <3>1
    <3> QED BY <3>1, <3>2 DEF Got, n, u, g
  <2> QED BY <2>1, <2>2
<1>5. CASE /\ t.stage = 2 /\ t.kind = "jwt"
           /\ \E b \in 1..n : b < i /\ FirstPick(s, b) /\ t.grant = <<s[b].with, g>>
           /\ \A k \in 1..n : k < i => (HasGrant(s[k]) => k = a)
  <2>1. PICK b \in 1..n : b < i /\ FirstPick(s, b) /\ t.grant = <<s[b].with, g>>
    BY <1>5
  <2>b. b < i + 1
    BY <1>1, <2>1
  <2>2. CASE HasGrant(x)
    <3>1. u.stage = 3 /\ u.kind \in CloudKinds /\ u.grant = Append(s[i].grant, <<s[b].with, g>>)
      <4> HIDE DEF x
      <4>1. u.stage = 3 /\ u.kind \in CloudKinds /\ u.grant = Append(x.grant, t.grant)
        BY <1>2, <1>5, <2>2
      <4> QED BY <4>1, <2>1 DEF x
    <3>2. \A k \in 1..n : k < i + 1 => (HasGrant(s[k]) => k <= i)
      BY <1>1, <1>3
    <3>3. i \in 1..n /\ i < i + 1 /\ a < i
      BY <1>1
    <3> QED BY <2>1, <2>2, <2>b, <3>1, <3>2, <3>3 DEF Got, n, u, g
  <2>3. CASE ~HasGrant(x)
    <3>1. u.stage = 2 /\ u.kind = "jwt" /\ u.grant = t.grant
      <4> HIDE DEF x
      <4> QED BY <1>2, <1>5, <2>3
    <3>2. \A k \in 1..n : k < i + 1 => (HasGrant(s[k]) => k = a)
      BY <1>3, <1>5, <2>3
    <3> QED BY <2>1, <2>b, <3>1, <3>2 DEF Got, n, u, g
  <2> QED BY <2>2, <2>3
<1>6. CASE /\ t.stage = 3 /\ t.kind \in CloudKinds
           /\ \E b, e \in 1..n :
                /\ b < i /\ FirstPick(s, b) /\ e < i /\ HasGrant(s[e]) /\ a < e
                /\ \A k \in 1..n : k < i => (HasGrant(s[k]) => k <= e)
                /\ t.grant = Append(s[e].grant, <<s[b].with, g>>)
  <2>1. PICK b \in 1..n, e \in 1..n :
                /\ b < i /\ FirstPick(s, b) /\ e < i /\ HasGrant(s[e]) /\ a < e
                /\ \A k \in 1..n : k < i => (HasGrant(s[k]) => k <= e)
                /\ t.grant = Append(s[e].grant, <<s[b].with, g>>)
    BY <1>6
  <2>2. u.stage = 3 /\ u.kind \in CloudKinds /\ u.grant = t.grant /\ ~HasGrant(s[i])
    <3> HIDE DEF x
    <3>1. u.stage = 3 /\ u.kind \in CloudKinds /\ u.grant = t.grant /\ ~HasGrant(x)
      BY <1>2, <1>6
    <3> QED BY <3>1 DEF x
  <2>3. b < i + 1 /\ e < i + 1
    BY <1>1, <2>1
  <2>4. \A k \in 1..n : k < i + 1 => (HasGrant(s[k]) => k <= e)
    BY <1>3, <2>1, <2>2
  <2>5. u.grant = Append(s[e].grant, <<s[b].with, g>>)
    BY <2>1, <2>2
  <2> QED BY <2>1, <2>2, <2>3, <2>4, <2>5 DEF Got, n, u, g
<1> QED BY <1>g, <1>4, <1>5, <1>6 DEF Got, n, t, g

\* The first step with a grant asks for a token, and gets it.
LEMMA FirstGrant ==
  ASSUME NEW s, NEW p, Path(s, p), p[1].stage = 0,
         \A i \in 1..Len(s) : s[i].op # "refuse",
         NEW a \in 1..Len(s), HasGrant(s[a]),
         \A k \in 1..Len(s) : k < a => ~HasGrant(s[k])
  PROVE  \A i \in (a + 1)..(Len(s) + 1) : Got(s, p, a, i)
<1> DEFINE n == Len(s)
           S == {i \in 1..(n + 1) : p[i].stage = 0 /\ \A k \in 1..n : k < i => s[k].op # "pick"}
           T == {i \in 1..(n + 1) : Got(s, p, a, i)}
<1>0. n \in Nat
  BY PathLen
<1>1. ASSUME NEW i \in 1..n, p[i].stage = 0
      PROVE  /\ ~HasGrant(s[i]) => p[i + 1].stage = 0 /\ s[i].op # "pick"
             /\ HasGrant(s[i]) => /\ p[i + 1].stage = 1 /\ p[i + 1].kind = "answer"
                                  /\ p[i + 1].grant = s[i].grant /\ s[i].op # "pick"
  <2> DEFINE x == s[i]
             t == p[i]
             u == p[i + 1]
  <2>1. \/ /\ x.op \in AnswerOps /\ HasGrant(x) /\ x.op # "pick"
           /\ t.stage = 0 /\ u.stage = 1 /\ u.kind = "answer" /\ u.grant = x.grant
        \/ /\ x.op = "pick" /\ ~HasGrant(x)
           /\ t.stage = 1 /\ u.stage = 2 /\ u.kind = "jwt" /\ u.grant = <<x.with, t.grant>>
        \/ /\ x.op = "keep" /\ ~HasGrant(x)
           /\ t.stage = 1 /\ u.stage = 1 /\ u.kind = "oidc" /\ u.grant = t.grant
        \/ /\ x.op = "exchange" /\ HasGrant(x)
           /\ t.stage = 2 /\ u.stage = 3 /\ u.kind \in CloudKinds
           /\ u.grant = Append(x.grant, t.grant)
        \/ /\ x.op # "pick" /\ ~HasGrant(x)
           /\ u.stage = t.stage /\ u.kind = t.kind /\ u.grant = t.grant
    BY ValueStep, Zenon
  <2>2. t.stage = 0
    BY <1>1
  <2> HIDE DEF x, t, u
  <2>3. /\ ~HasGrant(x) => u.stage = 0 /\ x.op # "pick"
        /\ HasGrant(x) => u.stage = 1 /\ u.kind = "answer" /\ u.grant = x.grant /\ x.op # "pick"
    BY <2>1, <2>2
  <2> QED BY <2>3 DEF x, u
<1>s. /\ p[1].stage = 0 /\ a \in 1..n /\ HasGrant(s[a])
      /\ \A k \in 1..n : k < a => ~HasGrant(s[k])
      /\ \A i \in 1..n : s[i].op # "refuse"
  OBVIOUS
<1> HIDE DEF n
<1>2. a \in S
  <2>1. 1 \in S /\ 1 \in Nat /\ a \in Nat /\ a \in 1..a
    BY <1>0, <1>s
  <2>2. ASSUME NEW i \in 1..(a - 1), i \in S PROVE i + 1 \in S
    <3>1. i \in 1..n /\ i < a /\ i + 1 \in 1..(n + 1)
      BY <1>0, <1>s
    <3>2. p[i + 1].stage = 0 /\ s[i].op # "pick"
      BY <3>1, <1>1, <1>s, <2>2
    <3>3. \A k \in 1..n : k < i + 1 => k < i \/ k = i
      BY <1>0, <3>1
    <3> QED BY <3>1, <3>2, <3>3, <2>2
  <2> HIDE DEF S
  <2> QED BY <2>1, <2>2, Onward
<1>3. a + 1 \in T
  <2>1. /\ p[a + 1].stage = 1 /\ p[a + 1].kind = "answer" /\ p[a + 1].grant = s[a].grant
        /\ s[a].op # "pick"
    BY <1>1, <1>2, <1>s
  <2>2. \A k \in 1..n : k < a + 1 => k < a \/ k = a
    BY <1>0, <1>s
  <2>3. \A k \in 1..n : k < a + 1 => s[k].op # "pick" /\ (HasGrant(s[k]) => k = a)
    BY <1>2, <1>s, <2>1, <2>2
  <2>4. a + 1 \in 1..(n + 1)
    BY <1>0, <1>s
  <2> QED BY <2>1, <2>3, <2>4 DEF Got, n
<1>4. ASSUME NEW i \in (a + 1)..((n + 1) - 1), i \in T PROVE i + 1 \in T
  <2>1. i \in (a + 1)..n /\ i + 1 \in 1..(n + 1) /\ i \in 1..n
    BY <1>0, <1>s
  <2>2. s[i].op # "refuse"
    BY <2>1, <1>s
  <2>3. Got(s, p, a, i + 1)
    BY <2>1, <2>2, <1>4, GotStep DEF n
  <2> QED BY <2>1, <2>3
<1>5. a + 1 \in Nat /\ n + 1 \in Nat
  BY <1>0, <1>s
<1> HIDE DEF T
<1>6. \A i \in (a + 1)..(n + 1) : i \in T
  BY <1>3, <1>4, <1>5, Onward
<1> QED BY <1>6 DEF T, n

\* The point at the end of the steps holds what they are to get a token for.
LEMMA WantedIsGot ==
  ASSUME NEW s, NEW p, Path(s, p), p[1].stage = 0, Wanted(s) # Nil
  PROVE  /\ p[Len(s) + 1].grant = Wanted(s)
         /\ p[Len(s) + 1].kind \in {"answer"} \cup TokenKinds
<1> DEFINE n == Len(s)
           grants == {i \in 1..n : HasGrant(s[i])}
           picks == {i \in 1..n : s[i].op = "pick"}
           a == Min(grants)
           e == Max(grants)
           b == Min(picks)
           answer == s[a].grant
           paid == <<s[b].with, answer>>
           end == p[n + 1]
<1>0. n \in Nat /\ DOMAIN s = 1..n
  BY PathLen, SeqIndices
<1>1. Wanted(s) = CASE grants = {} \/ (\E i \in 1..n : s[i].op = "refuse") -> Nil
                    [] OTHER -> IF picks = {} THEN answer
                                ELSE IF a = e THEN paid
                                ELSE Append(s[e].grant, paid)
  BY <1>0, Zenon DEF Wanted, HasGrant
<1>2. grants # {} /\ \A i \in 1..n : s[i].op # "refuse"
  <2> HIDE DEF grants, picks, a, b, e, answer, paid, n
  <2> QED BY <1>1
<1>3. Wanted(s) = IF picks = {} THEN answer ELSE IF a = e THEN paid ELSE Append(s[e].grant, paid)
  <2> HIDE DEF grants, picks, a, b, e, answer, paid, n
  <2> QED BY <1>1, <1>2
<1>4. grants \subseteq Nat /\ picks \subseteq Nat
  BY <1>0
<1>5. a \in grants /\ \A i \in grants : a <= i
  <2> HIDE DEF grants
  <2> QED BY <1>2, <1>4, LeastExists
<1>6. Got(s, p, a, n + 1)
  <2>1. a \in 1..n /\ HasGrant(s[a])
    BY <1>5
  <2>2. ASSUME NEW k \in 1..n, k < a PROVE ~HasGrant(s[k])
    <3> DEFINE m == a
    <3>1. m \in 1..n /\ k < m /\ (k \in grants => m <= k)
      BY <1>5, <2>1, <2>2
    <3> HIDE DEF m, grants, n
    <3>2. k \notin grants
      BY <1>0, <3>1
    <3> QED BY <3>2 DEF grants
  <2>3. \A i \in (a + 1)..(n + 1) : Got(s, p, a, i)
    <3> HIDE DEF a, grants
    <3> QED BY <1>2, <2>1, <2>2, FirstGrant
  <2>4. n + 1 \in (a + 1)..(n + 1)
    <3> HIDE DEF a, n
    <3> QED BY <1>0, <2>1
  <2> QED BY <2>3, <2>4
<1>t. a \in 1..n /\ HasGrant(s[a])
  BY <1>5
<1>7. ASSUME \A k \in 1..n : HasGrant(s[k]) => k = a
      PROVE  a = e
  <2> DEFINE m == a
  <2>1. m \in grants /\ \A x \in grants : m >= x
    <3> HIDE DEF a
    <3> QED BY <1>5, <1>7, <1>4
  <2> HIDE DEF m, grants
  <2>2. Max(grants) = m
    BY <2>1, <1>4, GreatestOf
  <2> QED BY <2>2 DEF m
<1>8. ASSUME NEW c, FirstPick(s, c)
      PROVE  b = c /\ picks # {}
  <2>1. c \in picks
    BY <1>8 DEF FirstPick
  <2>2. ASSUME NEW x \in picks PROVE c <= x
    <3>1. c \in 1..n /\ x \in 1..n /\ ~(x < c)
      BY <1>8 DEF FirstPick
    <3> HIDE DEF n
    <3> QED BY <1>0, <3>1
  <2> HIDE DEF picks
  <2> QED BY <2>1, <2>2, <1>4, LeastOf
<1> DEFINE g == s[a].grant
<1>g. \/ /\ end.kind \in {"answer", "oidc"} /\ end.grant = g
         /\ \A k \in 1..n : s[k].op # "pick"
      \/ /\ end.kind = "jwt"
         /\ \E c \in 1..n : FirstPick(s, c) /\ end.grant = <<s[c].with, g>>
         /\ \A k \in 1..n : HasGrant(s[k]) => k = a
      \/ /\ end.kind \in CloudKinds
         /\ \E c, d \in 1..n :
              /\ FirstPick(s, c) /\ HasGrant(s[d]) /\ a < d
              /\ \A k \in 1..n : HasGrant(s[k]) => k <= d
              /\ end.grant = Append(s[d].grant, <<s[c].with, g>>)
  <2>1. \A k \in 1..n : k < n + 1
    BY <1>0
  <2> HIDE DEF a, grants
  <2> QED BY <1>6, <2>1, Zenon DEF Got
<1> HIDE DEF n, a, b, e, grants, end
<1>9. CASE /\ end.kind \in {"answer", "oidc"} /\ end.grant = g
           /\ \A k \in 1..n : s[k].op # "pick"
  <2>1. picks = {}
    BY <1>9
  <2>2. Wanted(s) = g
    <3> HIDE DEF picks
    <3> QED BY <1>3, <2>1
  <2>3. end.kind \in {"answer"} \cup TokenKinds
    BY <1>9 DEF TokenKinds
  <2> QED BY <1>9, <2>2, <2>3 DEF end, n
<1>a. CASE /\ end.kind = "jwt"
           /\ \E c \in 1..n : FirstPick(s, c) /\ end.grant = <<s[c].with, g>>
           /\ \A k \in 1..n : HasGrant(s[k]) => k = a
  <2>1. PICK c \in 1..n : FirstPick(s, c) /\ end.grant = <<s[c].with, g>>
    BY <1>a
  <2>2. b = c /\ picks # {} /\ a = e
    BY <1>7, <1>8, <1>a, <2>1
  <2>3. Wanted(s) = <<s[c].with, g>>
    <3> HIDE DEF picks
    <3> QED BY <1>3, <2>2
  <2>4. end.kind \in {"answer"} \cup TokenKinds
    BY <1>a DEF TokenKinds
  <2> QED BY <2>1, <2>3, <2>4 DEF end, n
<1>b. CASE /\ end.kind \in CloudKinds
           /\ \E c, d \in 1..n :
                /\ FirstPick(s, c) /\ HasGrant(s[d]) /\ a < d
                /\ \A k \in 1..n : HasGrant(s[k]) => k <= d
                /\ end.grant = Append(s[d].grant, <<s[c].with, g>>)
  <2>1. PICK c \in 1..n, d \in 1..n :
                /\ FirstPick(s, c) /\ HasGrant(s[d]) /\ a < d
                /\ \A k \in 1..n : HasGrant(s[k]) => k <= d
                /\ end.grant = Append(s[d].grant, <<s[c].with, g>>)
    BY <1>b
  <2>2. b = c /\ picks # {}
    BY <1>8, <2>1
  <2>3. e = d
    <3>1. d \in grants /\ \A x \in grants : d >= x
      <4>1. \A k \in 1..n : HasGrant(s[k]) => d >= k
        BY <2>1, <1>0
      <4> QED BY <2>1, <4>1 DEF grants
    <3> QED BY <3>1, <1>4, GreatestOf DEF e
  <2>4. a # e
    BY <2>1, <2>3, <1>0, <1>t
  <2>5. Wanted(s) = Append(s[d].grant, <<s[c].with, g>>)
    <3> HIDE DEF picks
    <3> QED BY <1>3, <2>2, <2>3, <2>4
  <2>6. end.kind \in {"answer"} \cup TokenKinds
    BY <1>b DEF TokenKinds
  <2> QED BY <2>1, <2>5, <2>6 DEF end, n
<1> QED BY <1>g, <1>9, <1>a, <1>b

\* A coordinate that has lost up to two bytes is aligned to its full length
\* (util.go:98-134).
LEMMA AlignedRestores ==
  \A kind \in {"P-256", "P-384", "P-521"} :
    \A n \in (CoordLen(kind) - 2)..CoordLen(kind) : Aligned(n) = CoordLen(kind)
<1>1. \A n \in 30..32 : Aligned(n) = 32
  BY DEF Aligned
<1>2. \A n \in 46..48 : Aligned(n) = 48
  BY DEF Aligned
<1>3. \A n \in 64..66 : Aligned(n) = 66
  BY DEF Aligned
<1>4. /\ CoordLen("P-256") = 32 /\ CoordLen("P-384") = 48 /\ CoordLen("P-521") = 66
  BY DEF CoordLen
<1> QED
  BY <1>1, <1>2, <1>3, <1>4

\* So the conversion of a signature has one outcome, whatever R and S are.
LEMMA OneLength ==
  ASSUME NEW kind \in {"P-256", "P-384", "P-521"}, NEW alg, alg \notin Rsa
  PROVE  JwtSignature(alg, kind) =
           {IF 2 * CoordLen(kind) \in {64, 96, 128} THEN 2 * CoordLen(kind) ELSE 0}
<1> DEFINE short == (CoordLen(kind) - 2)..CoordLen(kind)
           only == IF 2 * CoordLen(kind) \in {64, 96, 128} THEN 2 * CoordLen(kind) ELSE 0
<1>1. CoordLen(kind) \in Nat
  BY DEF CoordLen
<1>2. JwtSignature(alg, kind) = {SignatureLen(r, s) : r \in short, s \in short}
  BY DEF JwtSignature
<1>3. ASSUME NEW r \in short, NEW s \in short PROVE SignatureLen(r, s) = only
  <2>1. Aligned(r) = CoordLen(kind) /\ Aligned(s) = CoordLen(kind)
    BY AlignedRestores
  <2> QED BY <1>1, <2>1 DEF SignatureLen
<1>4. CoordLen(kind) \in short
  BY <1>1
<1> HIDE DEF short, only
<1> QED BY <1>2, <1>3, <1>4 DEF only

\* Every signature by a P-256 or a P-384 key that fits its algorithm has the
\* length the algorithm prescribes, for every way of signing, every setting
\* and every request, if R and S lose two bytes at most (util.go:84-134,
\* signer.go:187-218).
THEOREM SignaturesFit == Spec => []SignatureFits
<1>1. SignatureFits
  <2> SUFFICES ASSUME NEW r \in Req, At(r, "sign"),
                      NEW s, s = Head(request[r].todo),
                      KeyFits(s.kind, s.with), s.with \in Ecc \ {"ES512"}
               PROVE  JwtSignature(s.with, s.kind) = {2 * CoordLen(s.kind)}
    BY DEF SignatureFits
  <2>1. s.kind \in {"P-256", "P-384"} /\ s.with \notin Rsa
    BY DEF KeyFits, Ecc, Rsa
  <2>2. 2 * CoordLen(s.kind) \in {64, 96}
    BY <2>1 DEF CoordLen
  <2> HIDE DEF Rsa
  <2> QED BY <2>1, <2>2, OneLength
<1> QED BY <1>1, PTL

\* No key makes a signature for ES512, which the settings list: with at most
\* two bytes lost from R and S it is never accepted (util.go:92, config.go:301).
THEOREM NoSignatureForEs512 ==
  ASSUME NEW kind \in {"RSA", "P-256", "P-384", "P-521"}, KeyFits(kind, "ES512")
  PROVE  JwtSignature("ES512", kind) = {0}
<1>1. kind = "P-521" /\ "ES512" \notin Rsa
  BY DEF KeyFits, Rsa
<1>2. 2 * CoordLen(kind) = 132
  BY <1>1 DEF CoordLen
<1> QED BY <1>1, <1>2, OneLength

-----------------------------------------------------------------------------
(* The caches that may be opened, and what is in their files.              *)

\* What may be asked, the steps it leads to, and the caches among them.
Asked == {asks[r] : asks \in Asks, r \in Req}

StepsOf(a, i) ==
  Command(FindProfile(Configs[i].file, a.argument, IgnoreParseFromProfile(a)), a)

CachesOf(s) == {s[j] : j \in {j \in 1..Len(s) : s[j].op = "cache"}}

Frames == UNION {CachesOf(StepsOf(a, i)) : a \in Asked, i \in DOMAIN Configs}

\* Two caches that share a file at some times.
ShareFile(f, g) ==
  \E i, j \in DOMAIN Configs : KeyOf(f, Configs[i].mtime) = KeyOf(g, Configs[j].mtime)

\* A file of OIDC tokens is no file of the tokens of a cloud.
KeysTellLayers ==
  \A f, g \in Frames : ShareFile(f, g) => (f.layer = "OidcToken" <=> g.layer = "OidcToken")

\* The caches that share a file fetch the same.
KeysTellGrants ==
  \A f, g \in Frames : ShareFile(f, g) => Fetched(f)[2] = Fetched(g)[2]

\* The answer of a server for a grant.
AnswerType(grant) == [grant: {grant}, id: Option(Nat), access: Nat, at: Nat, in: Nat]

\* v is of this kind and for this grant, as far as the names of the files
\* tell kinds and grants apart.
HasType(v, kind, grant) ==
  /\ kind = "answer" => v \in AnswerType(grant)
  /\ kind \in TokenKinds =>
       /\ v \in Tokens!Contents({v.grant})
       /\ v.kind = "jwt" <=> kind = "jwt"
       /\ KeysTellLayers => (v.kind = "oidc" <=> kind = "oidc")
       /\ KeysTellGrants => v.grant = grant

\* v is what the cache f gets from its fetch.
IsFetched(v, f) == HasType(v, Fetched(f)[1], Fetched(f)[2])

\* What a request may be asked, by the assumptions on the constants.
LEMMA AskedIs ==
  ASSUME NEW a \in Asked
  PROVE  /\ a.command \in CommandNames /\ a.ids \in Seq(STRING)
         /\ a.region \in STRING /\ a.argument.inline \in Option(CloudStsConfig)
<1>1. PICK asks \in Asks, r \in Req : a = asks[r]
  BY DEF Asked
<1>2. a \in AskType
  BY <1>1, AsksAssumption
<1> QED BY <1>2 DEF AskType

\* The steps of a request it may make end as those of all commands do.
LEMMA StepsEnd ==
  ASSUME NEW a \in Asked, NEW i \in DOMAIN Configs
  PROVE  Ends(StepsOf(a, i))
BY AskedIs, CommandEnds DEF StepsOf

\* The caches on the way are of the layers there are.
LEMMA FramesAre ==
  ASSUME NEW f \in Frames
  PROVE  IsFrame(f) /\ f.op = "cache"
<1>1. PICK a \in Asked, i \in DOMAIN Configs : f \in CachesOf(StepsOf(a, i))
  BY DEF Frames
<1> DEFINE s == StepsOf(a, i)
<1>2. PICK p : Path(s, p)
  BY StepsEnd DEF Ends, Leads
<1> HIDE DEF s
<1>3. PICK j \in 1..Len(s) : f = s[j] /\ f.op = "cache"
  BY <1>1 DEF CachesOf, s
<1>4. FlowOpen(f, p[j], p[j + 1])
  BY <1>2, <1>3, PathStep
<1> QED BY <1>3, <1>4 DEF FlowOpen

\* The kind of token a cache keeps follows from its category and its layer.
LEMMA FetchedKind ==
  ASSUME NEW f, IsFrame(f)
  PROVE  /\ Fetched(f) = <<Fetched(f)[1], Fetched(f)[2]>>
         /\ Fetched(f)[1] \in TokenKinds
         /\ Fetched(f)[1] = "jwt" <=> f.category = "oidc_token"
         /\ Fetched(f)[1] = "oidc" <=> f.layer = "OidcToken"
<1> DEFINE layer == f.layer
           v == Fetched(f)
<1>1. /\ layer \in {"provider", "OidcToken", "AlibabaCloud", "Aws", "CloudAccount"}
      /\ layer = "provider" <=> f.category = "oidc_token"
  BY DEF IsFrame
<1>2. /\ layer = "provider" => \E g : v = <<"jwt", g>>
      /\ layer = "OidcToken" => \E g : v = <<"oidc", g>>
      /\ layer = "AlibabaCloud" => \E g : v = <<"alibaba", g>>
      /\ layer = "Aws" => \E g : v = <<"aws", g>>
      /\ layer = "CloudAccount" => \E g : v = <<"account", g>>
  BY DEF Fetched
<1> HIDE DEF layer, v
<1>3. v = <<v[1], v[2]>> /\ v[1] \in TokenKinds
      /\ (v[1] = "jwt" <=> layer = "provider") /\ (v[1] = "oidc" <=> layer = "OidcToken")
  BY <1>1, <1>2 DEF TokenKinds, CloudKinds
<1> QED BY <1>1, <1>3 DEF v, layer

\* A token in a file that two caches share is right for both, as far as the
\* names of the files tell.
LEMMA SameFile ==
  ASSUME NEW f \in Frames, NEW g \in Frames, NEW i \in DOMAIN Configs, NEW j \in DOMAIN Configs,
         KeyOf(f, Configs[i].mtime) = KeyOf(g, Configs[j].mtime),
         NEW v, IsFetched(v, f)
  PROVE  IsFetched(v, g)
<1>1. IsFrame(f) /\ IsFrame(g) /\ ShareFile(f, g)
  BY FramesAre DEF ShareFile
<1>2. f.category = g.category
  BY DEF KeyOf
<1> DEFINE kf == Fetched(f)[1]
           kg == Fetched(g)[1]
           gf == Fetched(f)[2]
           gg == Fetched(g)[2]
<1>3. /\ kf \in TokenKinds /\ kg \in TokenKinds
      /\ kf = "jwt" <=> kg = "jwt"
      /\ KeysTellLayers => (kf = "oidc" <=> kg = "oidc")
      /\ KeysTellGrants => gf = gg
  <2>1. kf \in TokenKinds /\ kg \in TokenKinds
    BY <1>1, FetchedKind
  <2>2. kf = "jwt" <=> kg = "jwt"
    BY <1>1, <1>2, FetchedKind
  <2>3. KeysTellLayers => (kf = "oidc" <=> kg = "oidc")
    BY <1>1, FetchedKind DEF KeysTellLayers
  <2>4. KeysTellGrants => gf = gg
    BY <1>1 DEF KeysTellGrants
  <2> QED BY <2>1, <2>2, <2>3, <2>4
<1>4. HasType(v, kf, gf)
  BY DEF IsFetched
<1> HIDE DEF kf, kg, gf, gg
<1>5. kg # "answer"
  BY <1>3 DEF TokenKinds, CloudKinds
<1>6. HasType(v, kg, gg)
  BY <1>3, <1>4, <1>5, Zenon DEF HasType
<1> QED BY <1>6 DEF IsFetched, kg, gg

-----------------------------------------------------------------------------
(* What the names of the files tell.  The lists of what is hashed for some *)
(* settings, with the name of their structure; see Settings.               *)

DeviceCodeParts(c) == <<c.Issuer, c.ClientId, c.Scope>>

OpenApiParts(c) ==
  <<c.InstanceId, c.ApplicationId, Digest(c.ScopeValues), c.Audience,
    c.OpenApiEndpoint, c.Type, c.Credential>>

Pkcs7Parts(c) == <<c.Provider, c.AlibabaCloudMode>>

PrivateCaParts(c, m) ==
  <<c.Certificate, FileModTime(c.CertificateFile, m),
    DigestSigner(c.CertificateKeySigner, m), c.CertificateChain,
    FileModTime(c.CertificateChainFile, m)>>

OidcTokenParts(c, m) ==
  <<c.Provider, c.OidcToken, FileModTime(c.OidcTokenFile, m)>>

ClientParts(c, m) ==
  <<c.TokenEndpoint, c.ClientId, c.Scope,
    c.ApplicationFederatedCredentialName, DigestSigner(c.ClientAssertionSinger, m),
    DigestPkcs7(c.ClientAssertionPkcs7Config),
    DigestPrivateCa(c.ClientAssertionPrivateCaConfig, m),
    DigestOidcToken(c.ClientAssertionOidcTokenConfig, m)>>

ProviderParts(c, m) ==
  <<c.TokenType, DigestClientCredentials(c.ClientCredentials, m),
    DigestDeviceCode(c.DeviceCode), DigestOpenApi(c.OpenApi)>>

AlibabaCloudParts(c, m) ==
  <<c.Region, c.StsEndpoint, c.OidcProviderArn, c.RoleArn,
    c.DurationSeconds, c.RoleSessionName, DigestProvider(c.OidcTokenProvider, m)>>

AwsParts(c, m) ==
  <<c.Region, c.RoleArn, c.DurationSeconds, c.RoleSessionName,
    DigestProvider(c.OidcTokenProvider, m)>>

CloudAccountParts(c, m) ==
  <<c.CloudAccountRegion, c.CloudAccountInstanceId, c.CloudAccountEndpoint,
    c.InstanceId, c.DeveloperApiEndpoint, c.CloudAccountRoleExternalId,
    DigestProvider(c.AccessTokenProvider, m)>>

\* The list of some settings, unless they are left out.
Hash(c, structure, parts) == IF c = Nil THEN {} ELSE {<<structure, parts>>}

DeviceCodeHashes(c) == Hash(c, "device code", DeviceCodeParts(c))

OpenApiHashes(c) ==
  Hash(c, "scopes", c.ScopeValues) \cup Hash(c, "open api", OpenApiParts(c))

ClientHashes(c, m) ==
  IF c = Nil THEN {}
  ELSE {<<"client", ClientParts(c, m)>>} \cup
       Hash(c.ClientAssertionPkcs7Config, "pkcs7", Pkcs7Parts(c.ClientAssertionPkcs7Config)) \cup
       Hash(c.ClientAssertionPrivateCaConfig, "private ca",
            PrivateCaParts(c.ClientAssertionPrivateCaConfig, m)) \cup
       Hash(c.ClientAssertionOidcTokenConfig, "oidc token",
            OidcTokenParts(c.ClientAssertionOidcTokenConfig, m))

ProviderHashes(c, m) ==
  IF c = Nil THEN {}
  ELSE {<<"provider", ProviderParts(c, m)>>} \cup ClientHashes(c.ClientCredentials, m) \cup
       DeviceCodeHashes(c.DeviceCode) \cup OpenApiHashes(c.OpenApi)

\* What is hashed for the name of the file of a cache.
FrameHashes(f, m) ==
  LET c == f.settings
  IN CASE f.layer = "provider" -> ProviderHashes(c, m)
       [] f.layer = "OidcToken" -> ProviderHashes(c, m)
       [] f.layer = "AlibabaCloud" ->
            {<<"AlibabaCloud", AlibabaCloudParts(c, m)>>} \cup
            ProviderHashes(c.OidcTokenProvider, m)
       [] f.layer = "Aws" ->
            {<<"Aws", AwsParts(c, m)>>} \cup ProviderHashes(c.OidcTokenProvider, m)
       [] f.layer = "CloudAccount" ->
            {<<"CloudAccount", CloudAccountParts(c, m)>>} \cup
            ProviderHashes(c.AccessTokenProvider, m)

Hashed == UNION {FrameHashes(f, Configs[i].mtime) : f \in Frames, i \in DOMAIN Configs}

\* A digest is not empty, and no two lists that are hashed have the same one.
DigestsTell ==
  \A p, q \in Hashed :
    /\ Digest(p[2]) # ""
    /\ Digest(p[2]) = Digest(q[2]) => p = q

\* The list is hashed, if the settings are there.
IsHashed(c, structure, parts) == c # Nil => <<structure, parts>> \in Hashed

\* Digests tell what is left out, and the lists of what is not.
LEMMA HashTells ==
  ASSUME DigestsTell, NEW structure, NEW c, NEW d, NEW p, NEW q,
         IsHashed(c, structure, p), IsHashed(d, structure, q),
         DigestOf(c, p) = DigestOf(d, q)
  PROVE  (c = Nil /\ d = Nil) \/ (c # Nil /\ d # Nil /\ p = q)
<1> DEFINE x == <<structure, p>>
           y == <<structure, q>>
<1>1. x[2] = p /\ y[2] = q
  OBVIOUS
<1>2. x = y => p = q
  OBVIOUS
<1> HIDE DEF x, y
<1>3. /\ x \in Hashed => Digest(p) # ""
      /\ y \in Hashed => Digest(q) # ""
      /\ x \in Hashed /\ y \in Hashed /\ Digest(p) = Digest(q) => p = q
  BY <1>1, <1>2 DEF DigestsTell
<1>4. /\ c # Nil => x \in Hashed
      /\ d # Nil => y \in Hashed
  BY DEF x, y, IsHashed
<1> QED BY <1>3, <1>4 DEF DigestOf

\* So they tell what a user who signs in is asked for.
LEMMA DeviceCodeTells ==
  ASSUME DigestsTell, NEW c, NEW d, DeviceCodeHashes(c) \subseteq Hashed,
         DeviceCodeHashes(d) \subseteq Hashed, DigestDeviceCode(c) = DigestDeviceCode(d)
  PROVE  (c = Nil <=> d = Nil) /\ DeviceCodeGrant(c) = DeviceCodeGrant(d)
<1>1. DigestOf(c, DeviceCodeParts(c)) = DigestOf(d, DeviceCodeParts(d))
  BY DEF DigestDeviceCode, DeviceCodeParts
<1>2. /\ IsHashed(c, "device code", DeviceCodeParts(c))
      /\ IsHashed(d, "device code", DeviceCodeParts(d))
  BY DEF DeviceCodeHashes, Hash, IsHashed
<1>3. \/ c = Nil /\ d = Nil
      \/ c # Nil /\ d # Nil /\ DeviceCodeParts(c) = DeviceCodeParts(d)
  BY <1>1, <1>2, HashTells
<1>4. CASE c # Nil /\ d # Nil /\ DeviceCodeParts(c) = DeviceCodeParts(d)
  <2>1. c.Issuer = d.Issuer /\ c.ClientId = d.ClientId
        /\ c.Scope = d.Scope
    BY <1>4 DEF DeviceCodeParts
  <2> QED BY <1>4, <2>1 DEF DeviceCodeGrant
<1> QED BY <1>3, <1>4

\* Likewise of the OpenAPI.
LEMMA OpenApiTells ==
  ASSUME DigestsTell, NEW c, NEW d, OpenApiHashes(c) \subseteq Hashed,
         OpenApiHashes(d) \subseteq Hashed, DigestOpenApi(c) = DigestOpenApi(d)
  PROVE  OpenApiGrant(c) = OpenApiGrant(d)
<1>1. DigestOf(c, OpenApiParts(c)) = DigestOf(d, OpenApiParts(d))
  BY DEF DigestOpenApi, OpenApiParts
<1>2. /\ IsHashed(c, "open api", OpenApiParts(c))
      /\ IsHashed(d, "open api", OpenApiParts(d))
  BY DEF OpenApiHashes, Hash, IsHashed
<1>3. \/ c = Nil /\ d = Nil
      \/ c # Nil /\ d # Nil /\ OpenApiParts(c) = OpenApiParts(d)
  BY <1>1, <1>2, HashTells
<1>4. CASE c # Nil /\ d # Nil /\ OpenApiParts(c) = OpenApiParts(d)
  <2>1. /\ c.InstanceId = d.InstanceId
        /\ c.ApplicationId = d.ApplicationId
        /\ c.Audience = d.Audience
        /\ c.OpenApiEndpoint = d.OpenApiEndpoint
        /\ Digest(c.ScopeValues) = Digest(d.ScopeValues)
    BY <1>4 DEF OpenApiParts
  <2>3. c.ScopeValues = d.ScopeValues
    <3>1. /\ IsHashed(c, "scopes", c.ScopeValues)
          /\ IsHashed(d, "scopes", d.ScopeValues)
      BY DEF OpenApiHashes, Hash, IsHashed
    <3>2. DigestOf(c, c.ScopeValues) = DigestOf(d, d.ScopeValues)
      BY <1>4, <2>1 DEF DigestOf
    <3> QED BY <1>4, <3>1, <3>2, HashTells
  <2> QED BY <2>1, <2>3 DEF OpenApiGrant
<1> QED BY <1>3, <1>4

\* Likewise of the token endpoint: that no other way to authenticate is named
\* by settings that share a digest is what the last three parts tell.
LEMMA ClientTells ==
  ASSUME DigestsTell, NEW c, NEW d, NEW m, NEW n, ClientHashes(c, m) \subseteq Hashed,
         ClientHashes(d, n) \subseteq Hashed,
         DigestClientCredentials(c, m) = DigestClientCredentials(d, n)
  PROVE  (c = Nil <=> d = Nil) /\ ClientGrant(c) = ClientGrant(d)
<1>1. DigestOf(c, ClientParts(c, m)) = DigestOf(d, ClientParts(d, n))
  BY DEF DigestClientCredentials, ClientParts
<1>2. /\ IsHashed(c, "client", ClientParts(c, m))
      /\ IsHashed(d, "client", ClientParts(d, n))
  BY DEF ClientHashes, IsHashed
<1>3. \/ c = Nil /\ d = Nil
      \/ c # Nil /\ d # Nil /\ ClientParts(c, m) = ClientParts(d, n)
  BY <1>1, <1>2, HashTells
<1>4. CASE c # Nil /\ d # Nil /\ ClientParts(c, m) = ClientParts(d, n)
  <2> DEFINE c1 == c.ClientAssertionPkcs7Config
             d1 == d.ClientAssertionPkcs7Config
             c2 == c.ClientAssertionPrivateCaConfig
             d2 == d.ClientAssertionPrivateCaConfig
             c3 == c.ClientAssertionOidcTokenConfig
             d3 == d.ClientAssertionOidcTokenConfig
  <2>1. /\ c.TokenEndpoint = d.TokenEndpoint
        /\ c.ClientId = d.ClientId /\ c.Scope = d.Scope
        /\ c.ApplicationFederatedCredentialName
             = d.ApplicationFederatedCredentialName
        /\ DigestPkcs7(c1) = DigestPkcs7(d1)
        /\ DigestPrivateCa(c2, m) = DigestPrivateCa(d2, n)
        /\ DigestOidcToken(c3, m) = DigestOidcToken(d3, n)
    BY <1>4 DEF ClientParts
  <2>3. /\ IsHashed(c1, "pkcs7", Pkcs7Parts(c1))
        /\ IsHashed(d1, "pkcs7", Pkcs7Parts(d1))
        /\ IsHashed(c2, "private ca", PrivateCaParts(c2, m))
        /\ IsHashed(d2, "private ca", PrivateCaParts(d2, n))
        /\ IsHashed(c3, "oidc token", OidcTokenParts(c3, m))
        /\ IsHashed(d3, "oidc token", OidcTokenParts(d3, n))
    BY <1>4 DEF ClientHashes, Hash, IsHashed
  <2>4. /\ DigestOf(c1, Pkcs7Parts(c1)) = DigestOf(d1, Pkcs7Parts(d1))
        /\ DigestOf(c2, PrivateCaParts(c2, m)) = DigestOf(d2, PrivateCaParts(d2, n))
        /\ DigestOf(c3, OidcTokenParts(c3, m)) = DigestOf(d3, OidcTokenParts(d3, n))
    BY <2>1 DEF DigestPkcs7, Pkcs7Parts, DigestPrivateCa, PrivateCaParts, DigestOidcToken,
                OidcTokenParts
  <2> HIDE DEF c1, d1, c2, d2, c3, d3
  <2>5. c1 = Nil <=> d1 = Nil
    BY <2>3, <2>4, HashTells
  <2>6. c2 = Nil <=> d2 = Nil
    BY <2>3, <2>4, HashTells
  <2>7. c3 = Nil <=> d3 = Nil
    BY <2>3, <2>4, HashTells
  <2>8. CommonOptions(c) = CommonOptions(d)
    BY <2>1 DEF CommonOptions
  <2> QED BY <1>4, <2>1, <2>5, <2>6, <2>7, <2>8 DEF ClientGrant, c1, d1, c2, d2, c3, d3
<1> QED BY <1>3, <1>4

\* So the digest of a provider tells what it is asked for, and which token of
\* the answer is picked; whatever the type of the token is set to.
LEMMA ProviderTells ==
  ASSUME DigestsTell, NEW c, NEW d, NEW m, NEW n, ProviderHashes(c, m) \subseteq Hashed,
         ProviderHashes(d, n) \subseteq Hashed, DigestProvider(c, m) = DigestProvider(d, n)
  PROVE  /\ AnswerGrant(c) = AnswerGrant(d) /\ JwtGrant(c) = JwtGrant(d)
         /\ c \in OidcTokenProviderConfig /\ d \in OidcTokenProviderConfig =>
              JwtGrant([c EXCEPT !.TokenType = "access_token"])
                = JwtGrant([d EXCEPT !.TokenType = "access_token"])
<1>1. DigestOf(c, ProviderParts(c, m)) = DigestOf(d, ProviderParts(d, n))
  BY DEF DigestProvider, ProviderParts
<1>2. /\ IsHashed(c, "provider", ProviderParts(c, m))
      /\ IsHashed(d, "provider", ProviderParts(d, n))
  BY DEF ProviderHashes, IsHashed
<1>3. \/ c = Nil /\ d = Nil
      \/ c # Nil /\ d # Nil /\ ProviderParts(c, m) = ProviderParts(d, n)
  BY <1>1, <1>2, HashTells
<1>4. CASE c = Nil /\ d = Nil
  <2>1. c = d
    BY <1>4
  <2> QED BY <2>1
<1>5. CASE c # Nil /\ d # Nil /\ ProviderParts(c, m) = ProviderParts(d, n)
  <2>1. /\ c.TokenType = d.TokenType
        /\ DigestClientCredentials(c.ClientCredentials, m)
             = DigestClientCredentials(d.ClientCredentials, n)
        /\ DigestDeviceCode(c.DeviceCode) = DigestDeviceCode(d.DeviceCode)
        /\ DigestOpenApi(c.OpenApi) = DigestOpenApi(d.OpenApi)
    BY <1>5 DEF ProviderParts
  <2>2. /\ ClientHashes(c.ClientCredentials, m) \subseteq Hashed
        /\ ClientHashes(d.ClientCredentials, n) \subseteq Hashed
        /\ DeviceCodeHashes(c.DeviceCode) \subseteq Hashed
        /\ DeviceCodeHashes(d.DeviceCode) \subseteq Hashed
        /\ OpenApiHashes(c.OpenApi) \subseteq Hashed
        /\ OpenApiHashes(d.OpenApi) \subseteq Hashed
    BY <1>5 DEF ProviderHashes
  <2>4. /\ c.ClientCredentials = Nil <=> d.ClientCredentials = Nil
        /\ ClientGrant(c.ClientCredentials) = ClientGrant(d.ClientCredentials)
    BY <2>1, <2>2, ClientTells
  <2>5. /\ c.DeviceCode = Nil <=> d.DeviceCode = Nil
        /\ DeviceCodeGrant(c.DeviceCode) = DeviceCodeGrant(d.DeviceCode)
    BY <2>1, <2>2, DeviceCodeTells
  <2>6. OpenApiGrant(c.OpenApi) = OpenApiGrant(d.OpenApi)
    BY <2>1, <2>2, OpenApiTells
  <2>7. AnswerGrant(c) = AnswerGrant(d)
    BY <2>4, <2>5, <2>6 DEF AnswerGrant
  <2>8. PickedToken(c) = PickedToken(d)
    BY <2>1, <2>5 DEF PickedToken
  <2>9. ASSUME c \in OidcTokenProviderConfig, d \in OidcTokenProviderConfig
        PROVE  JwtGrant([c EXCEPT !.TokenType = "access_token"])
                 = JwtGrant([d EXCEPT !.TokenType = "access_token"])
    <3> DEFINE v == [c EXCEPT !.TokenType = "access_token"]
               w == [d EXCEPT !.TokenType = "access_token"]
    <3>1. /\ v.TokenType = "access_token" /\ v.DeviceCode = c.DeviceCode
          /\ v.ClientCredentials = c.ClientCredentials /\ v.OpenApi = c.OpenApi
      BY <2>9 DEF OidcTokenProviderConfig
    <3>2. /\ w.TokenType = "access_token" /\ w.DeviceCode = d.DeviceCode
          /\ w.ClientCredentials = d.ClientCredentials /\ w.OpenApi = d.OpenApi
      BY <2>9 DEF OidcTokenProviderConfig
    <3> HIDE DEF v, w
    <3>3. AnswerGrant(v) = AnswerGrant(w)
      BY <3>1, <3>2, <2>4, <2>5, <2>6 DEF AnswerGrant
    <3>4. PickedToken(v) = PickedToken(w)
      BY <3>1, <3>2 DEF PickedToken
    <3>5. JwtGrant(v) = JwtGrant(w)
      BY <3>3, <3>4 DEF JwtGrant
    <3> QED BY <3>5 DEF v, w
  <2> QED BY <2>7, <2>8, <2>9 DEF JwtGrant
<1> QED BY <1>3, <1>4, <1>5

-----------------------------------------------------------------------------
(* The settings of the caches.                                             *)

\* The settings of a cloud are there, and so are those of the provider of a
\* cloud account.
IsSettled(x) ==
  x.op = "cache" /\ x.layer # "provider" =>
    /\ x.settings # Nil
    /\ x.layer = "CloudAccount" => x.settings.AccessTokenProvider \in OidcTokenProviderConfig

Settled(s) == IsSeq(s) /\ \A i \in 1..Len(s) : IsSettled(s[i])

\* Sequences of such steps, and of steps that are not caches.
LEMMA SettledJoin ==
  ASSUME NEW s, NEW t, Settled(s), Settled(t)
  PROVE  Settled(s \o t)
<1> DEFINE u == s \o t
           m == Len(s)
           n == Len(t)
<1>1. /\ IsSeq(u) /\ m \in Nat /\ n \in Nat /\ Len(u) = m + n
      /\ \A i \in 1..m : u[i] = s[i]
      /\ \A i \in 1..n : u[m + i] = t[i]
  BY Joined DEF Settled
<1>2. (\A i \in 1..m : IsSettled(s[i])) /\ (\A i \in 1..n : IsSettled(t[i]))
  BY DEF Settled
<1> HIDE DEF u, m, n
<1>3. ASSUME NEW i \in 1..(m + n) PROVE IsSettled(u[i])
  <2>1. CASE i <= m
    BY <1>1, <1>2, <2>1
  <2>2. CASE i > m
    <3>1. i - m \in 1..n /\ i = m + (i - m)
      BY <1>1, <2>2
    <3>2. u[i] = t[i - m]
      BY <1>1, <3>1
    <3> QED BY <1>2, <3>1, <3>2
  <2> QED BY <1>1, <2>1, <2>2
<1>4. Settled(u)
  BY <1>1, <1>3 DEF Settled
<1> QED BY <1>4 DEF u

\* One such step,
LEMMA SettledOne ==
  ASSUME NEW x, IsSettled(x)
  PROVE  Settled(<<x>>)
<1> DEFINE y == <<x>>
<1>1. IsSeq(y) /\ Len(y) = 1 /\ y[1] = x
  BY OneElement
<1> HIDE DEF y
<1>2. Settled(y)
  BY <1>1 DEF Settled
<1> QED BY <1>2 DEF y

\* or one that is not a cache,
LEMMA SettledOther ==
  ASSUME NEW x, x.op # "cache"
  PROVE  Settled(<<x>>)
BY SettledOne DEF IsSettled

\* in particular a plain one,
LEMMA SettledStep ==
  ASSUME NEW op, op # "cache"
  PROVE  Settled(<<Step(op)>>) /\ \A x : Settled(<<With(op, x)>>)
BY SettledOther DEF Step, With

\* no step,
LEMMA SettledNone == Settled(<<>>)
<1> DEFINE s == <<>>
<1>1. IsSeq(s)
  <2>1. s \in Seq(Nat)
    OBVIOUS
  <2> QED BY <2>1 DEF IsSeq
<1>2. Len(s) = 0
  OBVIOUS
<1> HIDE DEF s
<1>3. Settled(s)
  BY <1>1, <1>2 DEF Settled
<1> QED BY <1>3 DEF s

\* a refusal,
LEMMA SettledRefuse == Settled(Refuse)
BY SettledStep DEF Refuse

\* what is done on a condition,
LEMMA SettledProvided ==
  ASSUME NEW ok, NEW s, ok => Settled(s)
  PROVE  Settled(Provided(ok, s))
BY SettledRefuse DEF Provided

\* what is done after something that may be refused.
LEMMA SettledThen ==
  ASSUME NEW s, NEW t, Settled(s), Settled(t)
  PROVE  Settled(Then(s, t))
BY SettledRefuse, SettledJoin DEF Then

\* Quiet steps open no cache: they may be taken after an answer too.
LEMMA SettledQuiet ==
  ASSUME NEW s, Quiet(s)
  PROVE  Settled(s)
<1> DEFINE t == Point("any", Nil, 1, "closed", NotRead, "fetch")
<1>1. Free(t) /\ t.stage # 0
  BY DEF Free, Point
<1> HIDE DEF t
<1>2. PICK p : Path(s, p) /\ p[1] = t
  BY <1>1 DEF Quiet, Leads
<1>3. IsSeq(s) /\ Len(s) \in Nat
  BY <1>2, PathLen
<1>4. ASSUME NEW i \in 1..Len(s) PROVE IsSettled(s[i])
  <2>1. 1 \in 1..(Len(s) + 1) /\ i \in 1..(Len(s) + 1)
    BY <1>3
  <2>2. p[i].stage # 0
    BY <1>1, <1>2, <2>1, StageStays
  <2>3. FlowStage(s[i], p[i], p[i + 1])
    BY <1>2, PathStep
  <2> QED BY <2>2, <2>3 DEF FlowStage, IsSettled
<1> QED BY <1>3, <1>4 DEF Settled

\* A fetch from a provider opens one cache at most, which is not a cloud's.
LEMMA SettledFetch ==
  ASSUME NEW c
  PROVE  Settled(FetchTokenResponse(c))
<1>1. AsksFor(FetchTokenResponse(c), AnswerGrant(c))
  BY AsksTokenResponse
<1>2. ASSUME NEW p, NEW x, Quiet(p), IsAnswerStep(x) PROVE Settled(p \o <<x>>)
  <2>1. x.op # "cache"
    BY <1>2 DEF IsAnswerStep, AnswerOps
  <2> QED BY <1>2, <2>1, SettledQuiet, SettledOther, SettledJoin
<1> QED BY <1>1, <1>2, SettledRefuse DEF AsksFor

\* A cache of settings that are there.
LEMMA SettledCached ==
  ASSUME NEW category, NEW layer, NEW owner, NEW c, NEW force, NEW fetch, Settled(fetch),
         layer # "provider" => c # Nil,
         layer = "CloudAccount" => c.AccessTokenProvider \in OidcTokenProviderConfig
  PROVE  Settled(Cached(category, layer, owner, c, force, fetch))
<1> DEFINE x == Frame(category, layer, owner, c, force)
           y == [op |-> "store", category |-> category]
<1>1. Settled(<<x>>)
  <2>1. IsSettled(x)
    BY DEF IsSettled, Frame
  <2> HIDE DEF x
  <2> QED BY <2>1, SettledOne
<1>2. Settled(<<y>>)
  <2>1. y.op # "cache"
    OBVIOUS
  <2> HIDE DEF y
  <2> QED BY <2>1, SettledOther
<1>3. Cached(category, layer, owner, c, force, fetch) = <<x>> \o fetch \o <<y>>
  BY DEF Cached, Frame
<1> HIDE DEF x, y
<1> QED BY <1>1, <1>2, <1>3, SettledJoin

\* The cache of a provider, for whatever settings.
LEMMA SettledIdp ==
  ASSUME NEW c, NEW force
  PROVE  Settled(IdpFetchOidcToken(c, force))
<1>1. Settled(FetchJwt(c))
  <2>1. Settled(<<With("pick", PickedToken(c))>>)
    BY SettledStep
  <2> QED BY <2>1, SettledFetch, SettledThen DEF FetchJwt
<1> QED BY <1>1, SettledCached DEF IdpFetchOidcToken

\* What is asked of a cloud.
LEMMA SettledExchange ==
  ASSUME NEW kind, NEW grant
  PROVE  Settled(Exchange(kind, grant))
<1> DEFINE x == [op |-> "exchange", kind |-> kind, grant |-> grant]
<1>1. x.op # "cache" /\ Exchange(kind, grant) = <<x>>
  BY DEF Exchange
<1> HIDE DEF x
<1> QED BY <1>1, SettledOther

\* So the caches of a cloud have its settings.
LEMMA SettledCloud ==
  ASSUME NEW name, NEW c \in CloudStsConfig, NEW a
  PROVE  Settled(FetchCloudSts(name, c, a))
<1>1. ASSUME c.AlibabaCloud # Nil PROVE Settled(FetchAlibabaCloud(name, c.AlibabaCloud, a))
  <2> DEFINE d == c.AlibabaCloud
             endpoint == IF d.StsEndpoint = "" THEN "sts." \o d.Region ELSE d.StsEndpoint
             grant == <<endpoint, d.OidcProviderArn, d.RoleArn, d.DurationSeconds, SessionName(d)>>
             fetch == <<Step("client")>> \o IdpFetchOidcToken(d.OidcTokenProvider, a.forceNew) \o
                      Exchange("alibaba", grant)
             force == a.forceNew \/ a.forceNewCloudToken
             ok == d.OidcTokenProvider # Nil /\ (d.StsEndpoint # "" \/ d.Region # "")
  <2>1. FetchAlibabaCloud(name, d, a) =
          Provided(ok, Cached("cloud_token", "AlibabaCloud", name, d, force, fetch))
    BY DEF FetchAlibabaCloud
  <2> HIDE DEF grant
  <2>2. Settled(fetch)
    BY SettledStep, SettledIdp, SettledExchange, SettledJoin
  <2> HIDE DEF d, fetch, force, ok
  <2>3. Settled(Cached("cloud_token", "AlibabaCloud", name, d, force, fetch))
    BY <1>1, <2>2, SettledCached DEF d
  <2>4. Settled(FetchAlibabaCloud(name, d, a))
    BY <2>1, <2>3, SettledProvided
  <2> QED BY <2>4 DEF d
<1>2. ASSUME c.Aws # Nil PROVE Settled(FetchAws(name, c.Aws, a))
  <2> DEFINE d == c.Aws
             grant == <<d.Region, d.RoleArn, d.DurationSeconds, SessionName(d)>>
             start == Provided(d.Region # "", <<Step("client")>>)
             fetch == start \o IdpFetchOidcToken(d.OidcTokenProvider, a.forceNew) \o
                      Exchange("aws", grant)
             force == a.forceNew \/ a.forceNewCloudToken
             ok == d.OidcTokenProvider # Nil
  <2>1. FetchAws(name, d, a) =
          Provided(ok, Cached("cloud_token", "Aws", name, d, force, fetch))
    BY DEF FetchAws
  <2> HIDE DEF grant
  <2>2. Settled(start)
    BY SettledStep, SettledProvided
  <2> HIDE DEF start
  <2>3. Settled(fetch)
    BY <2>2, SettledIdp, SettledExchange, SettledJoin
  <2> HIDE DEF d, fetch, force, ok
  <2>4. Settled(Cached("cloud_token", "Aws", name, d, force, fetch))
    BY <1>2, <2>3, SettledCached DEF d
  <2>5. Settled(FetchAws(name, d, a))
    BY <2>1, <2>4, SettledProvided
  <2> QED BY <2>5 DEF d
<1>3. ASSUME c.OidcToken # Nil PROVE Settled(CloudFetchOidcToken(name, c.OidcToken, a))
  <2> DEFINE d == c.OidcToken
             fetch == <<Step("start")>> \o Then(FetchTokenResponse(d), <<Step("keep")>>)
             force == a.forceNew \/ a.forceNewCloudToken
  <2>1. CloudFetchOidcToken(name, d, a) =
          Cached("cloud_token", "OidcToken", name, d, force, fetch)
    BY DEF CloudFetchOidcToken
  <2>2. Settled(fetch)
    BY SettledStep, SettledFetch, SettledThen, SettledJoin
  <2> HIDE DEF d, fetch, force
  <2>3. Settled(Cached("cloud_token", "OidcToken", name, d, force, fetch))
    BY <1>3, <2>2, SettledCached DEF d
  <2> QED BY <2>1, <2>3 DEF d
<1>4. ASSUME c.CloudAccount # Nil PROVE Settled(FetchCloudAccount(name, c.CloudAccount, a))
  <2> DEFINE d == c.CloudAccount
             provider == [d.AccessTokenProvider EXCEPT !.TokenType = "access_token"]
             grant == Append(GetCloudAccountEndpoint(d), d.CloudAccountRoleExternalId)
             fetch == IdpFetchOidcToken(provider, a.forceNew) \o Exchange("account", grant)
             force == a.forceNew \/ a.forceNewCloudToken
             ok == d.AccessTokenProvider # Nil /\ GetCloudAccountEndpoint(d) # <<>>
  <2>1. FetchCloudAccount(name, d, a) =
          Provided(ok, Cached("cloud_token", "CloudAccount", name, d, force, fetch))
    BY DEF FetchCloudAccount
  <2>2. ok => d.AccessTokenProvider \in OidcTokenProviderConfig
    <3>1. d \in CloudAccountTokenConfig
      BY <1>4 DEF CloudStsConfig, Option
    <3>2. d.AccessTokenProvider \in Option(OidcTokenProviderConfig)
      BY <3>1 DEF CloudAccountTokenConfig
    <3> HIDE DEF d
    <3> QED BY <3>2 DEF Option
  <2> HIDE DEF provider, grant
  <2>3. Settled(fetch)
    BY SettledIdp, SettledExchange, SettledJoin
  <2> HIDE DEF d, fetch, force, ok
  <2>4. ok => Settled(Cached("cloud_token", "CloudAccount", name, d, force, fetch))
    BY <1>4, <2>2, <2>3, SettledCached DEF d
  <2>5. Settled(FetchCloudAccount(name, d, a))
    BY <2>1, <2>4, SettledProvided
  <2> QED BY <2>5 DEF d
<1>5. \/ FetchCloudSts(name, c, a) = Refuse
      \/ /\ Clouds(c) = {"AlibabaCloud"}
         /\ FetchCloudSts(name, c, a) = FetchAlibabaCloud(name, c.AlibabaCloud, a)
      \/ Clouds(c) = {"Aws"} /\ FetchCloudSts(name, c, a) = FetchAws(name, c.Aws, a)
      \/ /\ Clouds(c) = {"OidcToken"}
         /\ FetchCloudSts(name, c, a) = CloudFetchOidcToken(name, c.OidcToken, a)
      \/ /\ Clouds(c) = {"CloudAccount"}
         /\ FetchCloudSts(name, c, a) = FetchCloudAccount(name, c.CloudAccount, a)
  BY Zenon DEF FetchCloudSts
<1>6. \A s : s \in Clouds(c) => c[s] # Nil
  BY DEF Clouds
<1>7. /\ Clouds(c) = {"AlibabaCloud"} => c.AlibabaCloud # Nil
      /\ Clouds(c) = {"Aws"} => c.Aws # Nil
      /\ Clouds(c) = {"OidcToken"} => c.OidcToken # Nil
      /\ Clouds(c) = {"CloudAccount"} => c.CloudAccount # Nil
  BY <1>6
<1> QED BY <1>1, <1>2, <1>3, <1>4, <1>5, <1>7, SettledRefuse

\* What the commands do besides opens no caches.
LEMMA SettledCommand ==
  ASSUME NEW found, found.settings # Nil => found.settings \in CloudStsConfig,
         NEW a, a.command \in CommandNames, NEW S, a.ids \in Seq(S)
  PROVE  Settled(Command(found, a))
<1> DEFINE fetch == FetchCloudSts(found.name, found.settings, a)
           format == <<Step("format")>>
           write == <<Step("open output"), Step("write output")>>
           x == [op |-> "environment", environments |-> found.settings.Environments]
           s == <<Step("format"), x>>
           run == Provided(a.args, <<Step("run command")>>)
           start == <<Step("format"), Step("client"), Step("start terminal session"), Step("dial")>>
<1>1. \/ Command(found, a) = Refuse
      \/ /\ found.settings # Nil
         /\ Command(found, a) \in {FetchTokenCommand(found, a), Execute(found, a),
                  ShowToken(found, a), StartSession(found, a), HandleCloudToken(found, a)}
      \/ Command(found, a) = FetchOpenClawSecret(found, a)
  BY DEF Command, CommandNames
<1>2. ASSUME found.settings # Nil PROVE Settled(fetch)
  BY <1>2, SettledCloud
<1>3. Settled(format)
  BY SettledStep
<1>4. Settled(write)
  <2> DEFINE y == Step("open output")
             z == Step("write output")
  <2>1. Settled(<<y>>) /\ Settled(<<z>>)
    BY SettledStep
  <2> HIDE DEF y, z
  <2>2. Settled(<<y>> \o <<z>>)
    BY <2>1, SettledJoin
  <2>3. Settled(<<y, z>>)
    BY <2>2, TwoElements
  <2> QED BY <2>3 DEF y, z
<1>5. Settled(s)
  <2> DEFINE y == Step("format")
  <2>1. x.op # "cache"
    OBVIOUS
  <2>2. Settled(<<y>>)
    BY <1>3
  <2> HIDE DEF x, y
  <2>3. Settled(<<x>>)
    BY <2>1, SettledOther
  <2>4. Settled(<<y>> \o <<x>>)
    BY <2>2, <2>3, SettledJoin
  <2>5. Settled(<<y, x>>)
    BY <2>4, TwoElements
  <2> QED BY <2>5 DEF y
<1>6. Settled(run)
  BY SettledStep, SettledProvided
<1>7. Settled(start)
  <2> DEFINE y == Step("format")
             z == Step("client")
             v == Step("start terminal session")
             w == Step("dial")
  <2>1. Settled(<<y>>) /\ Settled(<<z>>) /\ Settled(<<v>>) /\ Settled(<<w>>)
    BY SettledStep
  <2>2. start = <<y, z, v, w>>
    OBVIOUS
  <2> HIDE DEF y, z, v, w, start
  <2>3. <<y, z, v, w>> = (<<y>> \o <<z>>) \o (<<v>> \o <<w>>)
    BY FourElements
  <2> QED BY <2>1, <2>2, <2>3, SettledJoin
<1>8. /\ FetchTokenCommand(found, a) = fetch \o format \o (IF a.output THEN write ELSE <<>>)
      /\ Execute(found, a) = fetch \o s \o run
      /\ ShowToken(found, a) = fetch \o format
      /\ StartSession(found, a) = fetch \o start
      /\ HandleCloudToken(found, a) = fetch \o format
  BY DEF FetchTokenCommand, Execute, ShowToken, StartSession, HandleCloudToken
<1>9. Settled(FetchOpenClawSecret(found, a))
  <2>1. Settled(CredentialSteps(a.ids))
    <3> DEFINE ids == a.ids
    <3> HIDE DEF ids
    <3>1. ids \in Seq(S)
      BY DEF ids
    <3>2. IsSeq(CredentialSteps(ids))
          /\ \A i \in 1..Len(CredentialSteps(ids)) : CredentialSteps(ids)[i] = With("credential", ids[i])
      BY <3>1, CredentialStepsAre
    <3>3. \A y : IsSettled(With("credential", y))
      BY DEF IsSettled, With
    <3>4. Settled(CredentialSteps(ids))
      BY <3>2, <3>3 DEF Settled
    <3> QED BY <3>4 DEF ids
  <2>2. Settled(<<Step("panic")>>)
    BY SettledStep
  <2> QED BY <2>1, <2>2, OpenClawSteps, SettledRefuse, SettledIdp, SettledJoin
<1> HIDE DEF fetch, format, write, s, run, start
<1>a. ASSUME found.settings # Nil
      PROVE  /\ Settled(fetch \o format \o (IF a.output THEN write ELSE <<>>))
             /\ Settled(fetch \o s \o run) /\ Settled(fetch \o format) /\ Settled(fetch \o start)
  BY <1>a, <1>2, <1>3, <1>4, <1>5, <1>6, <1>7, SettledJoin, SettledNone
<1> QED BY <1>1, <1>8, <1>9, <1>a, SettledRefuse

\* The settings that are found have the structure of a profile.
LEMMA FoundSettings ==
  ASSUME NEW i \in DOMAIN Configs, NEW a \in Asked, NEW ignore,
         FindProfile(Configs[i].file, a.argument, ignore).settings # Nil
  PROVE  FindProfile(Configs[i].file, a.argument, ignore).settings \in CloudStsConfig
<1> DEFINE file == Configs[i].file
           c == FindProfile(file, a.argument, ignore).settings
           name == ProfileName(file, a.argument.text)
<1>1. \/ c = a.argument.inline /\ a.argument.inline # Nil
      \/ LoadCloudCredentialConfig(file) /\ name \in DOMAIN file.profile /\ c = file.profile[name]
  BY DEF FindProfile
<1>2. file # Nil => IsConfigFile(file)
  BY ConfigsAssumption
<1>3. c # Nil
  OBVIOUS
<1>4. a.argument.inline \in Option(CloudStsConfig)
  BY AskedIs
<1> HIDE DEF c, file, name
<1>5. c \in CloudStsConfig
  BY <1>1, <1>2, <1>3, <1>4 DEF LoadCloudCredentialConfig, IsConfigFile, Option
<1> QED BY <1>5 DEF c, file

\* So the settings of the caches of a cloud are there.
LEMMA FramesSettled ==
  ASSUME NEW f \in Frames
  PROVE  IsSettled(f)
<1>1. PICK a \in Asked, i \in DOMAIN Configs : f \in CachesOf(StepsOf(a, i))
  BY DEF Frames
<1>2. Settled(StepsOf(a, i))
  BY AskedIs, FoundSettings, SettledCommand DEF StepsOf
<1> QED BY <1>1, <1>2 DEF Settled, CachesOf

\* The digest of a cache's settings, and the structure they are of.
FrameDigest(f, m) == KeyOf(f, m)[3]

\* The lists hashed for the caches are hashed.
LEMMA FrameHashed ==
  ASSUME NEW f \in Frames, NEW i \in DOMAIN Configs
  PROVE  FrameHashes(f, Configs[i].mtime) \subseteq Hashed
BY DEF Hashed

\* Two caches that share a file are of one layer, and their settings have one
\* digest.
LEMMA LayersTell ==
  ASSUME DigestsTell, NEW f \in Frames, NEW g \in Frames, ShareFile(f, g)
  PROVE  f.layer = g.layer
<1>1. PICK i \in DOMAIN Configs, j \in DOMAIN Configs :
        KeyOf(f, Configs[i].mtime) = KeyOf(g, Configs[j].mtime)
  BY DEF ShareFile
<1> DEFINE m == Configs[i].mtime
           n == Configs[j].mtime
           c == f.settings
           d == g.settings
<1>2. IsFrame(f) /\ IsFrame(g) /\ IsSettled(f) /\ IsSettled(g) /\ f.op = "cache" /\ g.op = "cache"
  BY FramesAre, FramesSettled
<1>3. f.category = g.category /\ FrameDigest(f, m) = FrameDigest(g, n)
  BY <1>1 DEF KeyOf, FrameDigest
<1>4. FrameHashes(f, m) \subseteq Hashed /\ FrameHashes(g, n) \subseteq Hashed
  BY FrameHashed
<1> DEFINE Clouds3 == {"OidcToken", "AlibabaCloud", "Aws", "CloudAccount"}
<1>5. \/ f.layer = "provider" /\ g.layer = "provider"
      \/ f.layer \in Clouds3 /\ g.layer \in Clouds3
  BY <1>2, <1>3 DEF IsFrame
<1>6. ASSUME NEW h \in Frames, h.layer \in Clouds3, NEW k \in DOMAIN Configs
      PROVE  \E x \in Hashed :
               /\ FrameDigest(h, Configs[k].mtime) = Digest(x[2])
               /\ x[1] = IF h.layer = "OidcToken" THEN "provider" ELSE h.layer
  <2> DEFINE l == Configs[k].mtime
             e == h.settings
  <2>1. FrameHashes(h, l) \subseteq Hashed
    BY <1>6, FrameHashed
  <2>2. e # Nil
    BY <1>6, FramesAre, FramesSettled DEF IsSettled
  <2>3. CASE h.layer = "OidcToken"
    <3> DEFINE x == <<"provider", ProviderParts(e, l)>>
    <3>1. x \in Hashed
      BY <2>1, <2>2, <2>3 DEF FrameHashes, ProviderHashes
    <3>2. FrameDigest(h, l) = Digest(ProviderParts(e, l))
      BY <2>2, <2>3 DEF FrameDigest, KeyOf, DigestProvider, DigestOf, ProviderParts
    <3> QED BY <2>3, <3>1, <3>2
  <2>4. CASE h.layer = "AlibabaCloud"
    <3> DEFINE x == <<"AlibabaCloud", AlibabaCloudParts(e, l)>>
    <3>1. x \in Hashed
      BY <2>1, <2>4 DEF FrameHashes
    <3>2. FrameDigest(h, l) = Digest(AlibabaCloudParts(e, l))
      BY <2>2, <2>4 DEF FrameDigest, KeyOf, DigestAlibabaCloud, DigestOf, AlibabaCloudParts
    <3> QED BY <2>4, <3>1, <3>2
  <2>5. CASE h.layer = "Aws"
    <3> DEFINE x == <<"Aws", AwsParts(e, l)>>
    <3>1. x \in Hashed
      BY <2>1, <2>5 DEF FrameHashes
    <3>2. FrameDigest(h, l) = Digest(AwsParts(e, l))
      BY <2>2, <2>5 DEF FrameDigest, KeyOf, DigestAws, DigestOf, AwsParts
    <3> QED BY <2>5, <3>1, <3>2
  <2>6. CASE h.layer = "CloudAccount"
    <3> DEFINE x == <<"CloudAccount", CloudAccountParts(e, l)>>
    <3>1. x \in Hashed
      BY <2>1, <2>6 DEF FrameHashes
    <3>2. FrameDigest(h, l) = Digest(CloudAccountParts(e, l))
      BY <2>2, <2>6 DEF FrameDigest, KeyOf, DigestCloudAccount, DigestOf, CloudAccountParts
    <3> QED BY <2>6, <3>1, <3>2
  <2> QED BY <1>6, <2>3, <2>4, <2>5, <2>6
<1>7. CASE f.layer \in Clouds3 /\ g.layer \in Clouds3
  <2>1. PICK x \in Hashed : /\ FrameDigest(f, m) = Digest(x[2])
                            /\ x[1] = IF f.layer = "OidcToken" THEN "provider" ELSE f.layer
    BY <1>6, <1>7
  <2>2. PICK y \in Hashed : /\ FrameDigest(g, n) = Digest(y[2])
                            /\ y[1] = IF g.layer = "OidcToken" THEN "provider" ELSE g.layer
    BY <1>6, <1>7
  <2>3. x = y
    BY <1>3, <2>1, <2>2 DEF DigestsTell
  <2> QED BY <1>7, <2>1, <2>2, <2>3
<1> QED BY <1>5, <1>7

\* The parts of the settings of a cloud that its token is asked for.
LEMMA AlibabaCloudTells ==
  ASSUME DigestsTell, NEW c, NEW d, NEW m, NEW n, c # Nil, d # Nil,
         <<"AlibabaCloud", AlibabaCloudParts(c, m)>> \in Hashed,
         <<"AlibabaCloud", AlibabaCloudParts(d, n)>> \in Hashed,
         ProviderHashes(c.OidcTokenProvider, m) \subseteq Hashed,
         ProviderHashes(d.OidcTokenProvider, n) \subseteq Hashed,
         DigestAlibabaCloud(c, m) = DigestAlibabaCloud(d, n)
  PROVE  /\ c.Region = d.Region /\ c.StsEndpoint = d.StsEndpoint
         /\ c.OidcProviderArn = d.OidcProviderArn /\ c.RoleArn = d.RoleArn
         /\ c.DurationSeconds = d.DurationSeconds /\ SessionName(c) = SessionName(d)
         /\ JwtGrant(c.OidcTokenProvider) = JwtGrant(d.OidcTokenProvider)
<1>1. DigestOf(c, AlibabaCloudParts(c, m)) = DigestOf(d, AlibabaCloudParts(d, n))
  BY DEF DigestAlibabaCloud, AlibabaCloudParts
<1>2. /\ IsHashed(c, "AlibabaCloud", AlibabaCloudParts(c, m))
      /\ IsHashed(d, "AlibabaCloud", AlibabaCloudParts(d, n))
  BY DEF IsHashed
<1>3. AlibabaCloudParts(c, m) = AlibabaCloudParts(d, n)
  BY <1>1, <1>2, HashTells
<1>4. /\ c.Region = d.Region /\ c.StsEndpoint = d.StsEndpoint
      /\ c.OidcProviderArn = d.OidcProviderArn /\ c.RoleArn = d.RoleArn
      /\ c.DurationSeconds = d.DurationSeconds
      /\ c.RoleSessionName = d.RoleSessionName
      /\ DigestProvider(c.OidcTokenProvider, m) = DigestProvider(d.OidcTokenProvider, n)
  BY <1>3 DEF AlibabaCloudParts
<1>6. JwtGrant(c.OidcTokenProvider) = JwtGrant(d.OidcTokenProvider)
  BY <1>4, ProviderTells
<1> QED BY <1>4, <1>6 DEF SessionName

\* Likewise for AWS.
LEMMA AwsTells ==
  ASSUME DigestsTell, NEW c, NEW d, NEW m, NEW n, c # Nil, d # Nil,
         <<"Aws", AwsParts(c, m)>> \in Hashed, <<"Aws", AwsParts(d, n)>> \in Hashed,
         ProviderHashes(c.OidcTokenProvider, m) \subseteq Hashed,
         ProviderHashes(d.OidcTokenProvider, n) \subseteq Hashed,
         DigestAws(c, m) = DigestAws(d, n)
  PROVE  /\ c.Region = d.Region /\ c.RoleArn = d.RoleArn
         /\ c.DurationSeconds = d.DurationSeconds /\ SessionName(c) = SessionName(d)
         /\ JwtGrant(c.OidcTokenProvider) = JwtGrant(d.OidcTokenProvider)
<1>1. DigestOf(c, AwsParts(c, m)) = DigestOf(d, AwsParts(d, n))
  BY DEF DigestAws, AwsParts
<1>2. IsHashed(c, "Aws", AwsParts(c, m)) /\ IsHashed(d, "Aws", AwsParts(d, n))
  BY DEF IsHashed
<1>3. AwsParts(c, m) = AwsParts(d, n)
  BY <1>1, <1>2, HashTells
<1>4. /\ c.Region = d.Region /\ c.RoleArn = d.RoleArn
      /\ c.DurationSeconds = d.DurationSeconds
      /\ c.RoleSessionName = d.RoleSessionName
      /\ DigestProvider(c.OidcTokenProvider, m) = DigestProvider(d.OidcTokenProvider, n)
  BY <1>3 DEF AwsParts
<1>6. JwtGrant(c.OidcTokenProvider) = JwtGrant(d.OidcTokenProvider)
  BY <1>4, ProviderTells
<1> QED BY <1>4, <1>6 DEF SessionName

\* Likewise for a cloud account, whose provider is asked for an access token.
LEMMA CloudAccountTells ==
  ASSUME DigestsTell, NEW c, NEW d, NEW m, NEW n, c # Nil, d # Nil,
         <<"CloudAccount", CloudAccountParts(c, m)>> \in Hashed,
         <<"CloudAccount", CloudAccountParts(d, n)>> \in Hashed,
         ProviderHashes(c.AccessTokenProvider, m) \subseteq Hashed,
         ProviderHashes(d.AccessTokenProvider, n) \subseteq Hashed,
         c.AccessTokenProvider \in OidcTokenProviderConfig,
         d.AccessTokenProvider \in OidcTokenProviderConfig,
         DigestCloudAccount(c, m) = DigestCloudAccount(d, n)
  PROVE  /\ GetCloudAccountEndpoint(c) = GetCloudAccountEndpoint(d)
         /\ c.CloudAccountRoleExternalId = d.CloudAccountRoleExternalId
         /\ JwtGrant([c.AccessTokenProvider EXCEPT !.TokenType = "access_token"])
              = JwtGrant([d.AccessTokenProvider EXCEPT !.TokenType = "access_token"])
<1>1. DigestOf(c, CloudAccountParts(c, m)) = DigestOf(d, CloudAccountParts(d, n))
  BY DEF DigestCloudAccount, CloudAccountParts
<1>2. /\ IsHashed(c, "CloudAccount", CloudAccountParts(c, m))
      /\ IsHashed(d, "CloudAccount", CloudAccountParts(d, n))
  BY DEF IsHashed
<1>3. CloudAccountParts(c, m) = CloudAccountParts(d, n)
  BY <1>1, <1>2, HashTells
<1>4. /\ c.CloudAccountRegion = d.CloudAccountRegion
      /\ c.CloudAccountInstanceId = d.CloudAccountInstanceId
      /\ c.CloudAccountEndpoint = d.CloudAccountEndpoint
      /\ c.InstanceId = d.InstanceId
      /\ c.DeveloperApiEndpoint = d.DeveloperApiEndpoint
      /\ c.CloudAccountRoleExternalId = d.CloudAccountRoleExternalId
      /\ DigestProvider(c.AccessTokenProvider, m) = DigestProvider(d.AccessTokenProvider, n)
  BY <1>3 DEF CloudAccountParts
<1>6. JwtGrant([c.AccessTokenProvider EXCEPT !.TokenType = "access_token"])
        = JwtGrant([d.AccessTokenProvider EXCEPT !.TokenType = "access_token"])
  BY <1>4, ProviderTells
<1>7. GetInstanceId(c) = GetInstanceId(d)
  BY <1>4 DEF GetInstanceId
<1>8. GetCloudAccountEndpoint(c) = GetCloudAccountEndpoint(d)
  BY <1>4, <1>7 DEF GetCloudAccountEndpoint
<1> QED BY <1>4, <1>6, <1>8

\* So the digests tell grants.
LEMMA GrantsTell ==
  ASSUME DigestsTell, NEW f \in Frames, NEW g \in Frames, ShareFile(f, g)
  PROVE  Fetched(f)[2] = Fetched(g)[2]
<1>1. PICK i \in DOMAIN Configs, j \in DOMAIN Configs :
        KeyOf(f, Configs[i].mtime) = KeyOf(g, Configs[j].mtime)
  BY DEF ShareFile
<1> DEFINE m == Configs[i].mtime
           n == Configs[j].mtime
           c == f.settings
           d == g.settings
           layer == f.layer
<1>2. /\ IsFrame(f) /\ IsSettled(f) /\ IsSettled(g) /\ f.op = "cache" /\ g.op = "cache"
  BY FramesAre, FramesSettled
<1>3. g.layer = layer
  BY LayersTell
<1>4. FrameHashes(f, m) \subseteq Hashed /\ FrameHashes(g, n) \subseteq Hashed
  BY FrameHashed
<1>5. CASE layer \in {"provider", "OidcToken"}
  <2>1. DigestProvider(c, m) = DigestProvider(d, n)
    BY <1>1, <1>3, <1>5 DEF KeyOf
  <2>2. ProviderHashes(c, m) \subseteq Hashed /\ ProviderHashes(d, n) \subseteq Hashed
    BY <1>3, <1>4, <1>5 DEF FrameHashes
  <2> HIDE DEF m, n, c, d
  <2>3. AnswerGrant(c) = AnswerGrant(d) /\ JwtGrant(c) = JwtGrant(d)
    BY <2>1, <2>2, ProviderTells
  <2> QED BY <1>3, <1>5, <2>3 DEF Fetched, c, d
<1>6. CASE layer = "AlibabaCloud"
  <2>1. DigestAlibabaCloud(c, m) = DigestAlibabaCloud(d, n)
    BY <1>1, <1>3, <1>6 DEF KeyOf
  <2>2. /\ <<"AlibabaCloud", AlibabaCloudParts(c, m)>> \in Hashed
        /\ <<"AlibabaCloud", AlibabaCloudParts(d, n)>> \in Hashed
        /\ ProviderHashes(c.OidcTokenProvider, m) \subseteq Hashed
        /\ ProviderHashes(d.OidcTokenProvider, n) \subseteq Hashed
    BY <1>3, <1>4, <1>6 DEF FrameHashes
  <2>3. c # Nil /\ d # Nil
    BY <1>2, <1>3, <1>6 DEF IsSettled
  <2> HIDE DEF m, n, c, d
  <2>4. /\ c.Region = d.Region /\ c.StsEndpoint = d.StsEndpoint
        /\ c.OidcProviderArn = d.OidcProviderArn /\ c.RoleArn = d.RoleArn
        /\ c.DurationSeconds = d.DurationSeconds /\ SessionName(c) = SessionName(d)
        /\ JwtGrant(c.OidcTokenProvider) = JwtGrant(d.OidcTokenProvider)
    BY <2>1, <2>2, <2>3, AlibabaCloudTells
  <2> QED BY <1>3, <1>6, <2>4 DEF Fetched, c, d
<1>7. CASE layer = "Aws"
  <2>1. DigestAws(c, m) = DigestAws(d, n)
    BY <1>1, <1>3, <1>7 DEF KeyOf
  <2>2. /\ <<"Aws", AwsParts(c, m)>> \in Hashed /\ <<"Aws", AwsParts(d, n)>> \in Hashed
        /\ ProviderHashes(c.OidcTokenProvider, m) \subseteq Hashed
        /\ ProviderHashes(d.OidcTokenProvider, n) \subseteq Hashed
    BY <1>3, <1>4, <1>7 DEF FrameHashes
  <2>3. c # Nil /\ d # Nil
    BY <1>2, <1>3, <1>7 DEF IsSettled
  <2> HIDE DEF m, n, c, d
  <2>4. /\ c.Region = d.Region /\ c.RoleArn = d.RoleArn
        /\ c.DurationSeconds = d.DurationSeconds /\ SessionName(c) = SessionName(d)
        /\ JwtGrant(c.OidcTokenProvider) = JwtGrant(d.OidcTokenProvider)
    BY <2>1, <2>2, <2>3, AwsTells
  <2> QED BY <1>3, <1>7, <2>4 DEF Fetched, c, d
<1>8. CASE layer = "CloudAccount"
  <2>1. DigestCloudAccount(c, m) = DigestCloudAccount(d, n)
    BY <1>1, <1>3, <1>8 DEF KeyOf
  <2>2. /\ <<"CloudAccount", CloudAccountParts(c, m)>> \in Hashed
        /\ <<"CloudAccount", CloudAccountParts(d, n)>> \in Hashed
        /\ ProviderHashes(c.AccessTokenProvider, m) \subseteq Hashed
        /\ ProviderHashes(d.AccessTokenProvider, n) \subseteq Hashed
    BY <1>3, <1>4, <1>8 DEF FrameHashes
  <2>3. /\ c # Nil /\ d # Nil
        /\ c.AccessTokenProvider \in OidcTokenProviderConfig
        /\ d.AccessTokenProvider \in OidcTokenProviderConfig
    BY <1>2, <1>3, <1>8 DEF IsSettled
  <2> HIDE DEF m, n, c, d
  <2>4. /\ GetCloudAccountEndpoint(c) = GetCloudAccountEndpoint(d)
        /\ c.CloudAccountRoleExternalId = d.CloudAccountRoleExternalId
        /\ JwtGrant([c.AccessTokenProvider EXCEPT !.TokenType = "access_token"])
             = JwtGrant([d.AccessTokenProvider EXCEPT !.TokenType = "access_token"])
    BY <2>1, <2>2, <2>3, CloudAccountTells
  <2> QED BY <1>3, <1>8, <2>4 DEF Fetched, c, d
<1> QED BY <1>2, <1>5, <1>6, <1>7, <1>8 DEF IsFrame

\* The names of the files tell what they should, if the digests do.
LEMMA KeysTell == DigestsTell => KeysTellLayers /\ KeysTellGrants
BY LayersTell, GrantsTell DEF KeysTellLayers, KeysTellGrants

-----------------------------------------------------------------------------
(* The inductive invariant.                                                *)

\* The fields of a request.
Fields ==
  {"stage", "ask", "todo", "wanted", "val", "read", "start", "values", "errors",
   "environment"}

\* What is kept of the open cache f.
IsKept(kept, f) ==
  /\ \E i \in DOMAIN Configs : kept.key = KeyOf(f, Configs[i].mtime)
  /\ kept.layer = f.layer
  /\ kept.token # Nil => IsFetched(kept.token, f)

\* A request keeps what it read of the caches that are open, and of no other.
ReadsCache(read, open, c) ==
  \/ open[c] = {} /\ read[c] = Nil
  \/ \E f \in Frames : f.category = c /\ open[c] = {f} /\ IsKept(read[c], f)

Reads(read, open) == DOMAIN read = Category /\ \A c \in Category : ReadsCache(read, open, c)

\* The request holds what is known at t.
Has(q, t, holds) ==
  /\ HasType(q.val, t.kind, t.grant)
  /\ Reads(q.read, t.open)
  /\ holds => t.card = "open"

\* Along p the steps left lead to the token that is wanted.
Promise(q, p) ==
  LET end == p[Len(q.todo) + 1]
  IN /\ Path(q.todo, p)
     /\ CachesOf(q.todo) \subseteq Frames
     /\ Closing(end)
     /\ q.wanted # Nil => end.grant = q.wanted /\ end.kind \in {"answer"} \cup TokenKinds

\* It has its fields.
IsRequest(q) == DOMAIN q = Fields /\ q.ask \in Asked /\ q.start \in Nat

\* q is at a point of its way, or at the end of it; holds says whether it has
\* the card open.
Sound(q, holds) ==
  /\ IsRequest(q)
  /\ q.stage \in {"idle", "running", "done", "failed"}
  /\ q.stage = "running" => q.todo # <<>> /\ \E p : Promise(q, p) /\ Has(q, p[1], holds)
  /\ q.stage # "running" => q.read = NotRead /\ ~holds
  /\ q.stage = "done" /\ q.wanted # Nil /\ KeysTellGrants => q.val.grant = q.wanted

\* r has the card open.
Holds(r) == card # Nil /\ card = r

\* Every file holds what a fetch of one of its caches got.
CacheOK ==
  \A key \in DOMAIN cache :
    \E f \in Frames, i \in DOMAIN Configs :
      key = KeyOf(f, Configs[i].mtime) /\ IsFetched(cache[key], f)

\* The inductive invariant: every request is on its way, and every file holds
\* what the fetches of its caches got.
IInv ==
  /\ clock \in 0..MaxTime
  /\ config \in DOMAIN Configs
  /\ CacheOK
  /\ card \in Option(Req)
  /\ output.state \in {"old", "empty", "whole", "mixed"}
  /\ DOMAIN request = Req
  /\ \A r \in Req : Sound(request[r], Holds(r))

-----------------------------------------------------------------------------
(* A request that takes a step stays on its way.                           *)

\* What is left of a path is a path.
LEMMA PathRest ==
  ASSUME NEW s, NEW p, Path(s, p), NEW k \in 0..Len(s)
  PROVE  Path(From1(s, k), [i \in 1..(Len(s) - k + 1) |-> p[i + k]])
<1> DEFINE n == Len(s)
           r == From1(s, k)
           g == [i \in 1..(n - k + 1) |-> p[i + k]]
<1>1. n \in Nat /\ IsSeq(s) /\ k \in 0..n
  BY PathLen
<1>2. IsSeq(r) /\ Len(r) = n - k /\ \A i \in 1..(n - k) : r[i] = s[i + k]
  BY <1>1, Rest
<1> HIDE DEF r, n
<1>3. ASSUME NEW i \in 1..Len(r) PROVE Flow(r[i], g[i], g[i + 1])
  <2>1. /\ i \in 1..(n - k) /\ i \in 1..(n - k + 1) /\ i + 1 \in 1..(n - k + 1)
        /\ i + k \in 1..n /\ (i + 1) + k = (i + k) + 1
    BY <1>1, <1>2
  <2>2. g[i] = p[i + k] /\ g[i + 1] = p[(i + k) + 1] /\ r[i] = s[i + k]
    BY <1>2, <2>1
  <2>3. Flow(s[i + k], p[i + k], p[(i + k) + 1])
    BY <2>1 DEF Path, n
  <2> QED BY <2>2, <2>3
<1>4. Path(r, g)
  <2> HIDE DEF g
  <2> QED BY <1>2, <1>3 DEF Path
<1> QED BY <1>4 DEF n, r

\* What Left changes.
LEMMA LeftIs ==
  ASSUME NEW q, DOMAIN q = Fields, NEW s
  PROVE  LET v == Left(q, s)
         IN /\ DOMAIN v = Fields /\ v.todo = s /\ v.ask = q.ask /\ v.wanted = q.wanted
            /\ v.val = q.val
            /\ s = <<>> => v.stage = "done" /\ v.start = 0 /\ v.read = NotRead
            /\ s # <<>> => v.stage = q.stage /\ v.start = q.start /\ v.read = q.read
<1>1. CASE s = <<>>
  BY <1>1 DEF Left, Fields
<1>2. CASE s # <<>>
  BY <1>2 DEF Left, Fields
<1> QED BY <1>1, <1>2

\* A request that goes on behind a step is sound if it has there what the path
\* promises.
LEMMA Arrive ==
  ASSUME NEW q, IsRequest(q), q.stage = "running", NEW p, Promise(q, p),
         NEW k \in 1..Len(q.todo), NEW holds, Has(q, p[k + 1], holds)
  PROVE  Sound(Left(q, From1(q.todo, k)), holds)
<1> DEFINE s == q.todo
           n == Len(s)
           r == From1(s, k)
           g == [i \in 1..(n - k + 1) |-> p[i + k]]
           v == Left(q, r)
           end == p[n + 1]
<1>1. Path(s, p) /\ CachesOf(s) \subseteq Frames /\ Closing(end)
      /\ (q.wanted # Nil => end.grant = q.wanted /\ end.kind \in {"answer"} \cup TokenKinds)
  BY DEF Promise
<1>2. /\ HasType(q.val, p[k + 1].kind, p[k + 1].grant)
      /\ Reads(q.read, p[k + 1].open)
      /\ holds => p[k + 1].card = "open"
  BY DEF Has
<1>3. DOMAIN q = Fields /\ q.ask \in Asked /\ q.start \in Nat /\ q.stage = "running"
  BY DEF IsRequest
<1>4. /\ DOMAIN v = Fields /\ v.todo = r /\ v.ask = q.ask /\ v.wanted = q.wanted
      /\ v.val = q.val
      /\ r = <<>> => v.stage = "done" /\ v.start = 0 /\ v.read = NotRead
      /\ r # <<>> => v.stage = q.stage /\ v.start = q.start /\ v.read = q.read
  <2> HIDE DEF r
  <2> QED BY <1>3, LeftIs
<1>5. n \in Nat /\ IsSeq(s) /\ k \in 1..n /\ IsSeq(r) /\ Len(r) = n - k
      /\ \A i \in 1..(n - k) : r[i] = s[i + k]
  <2>1. n \in Nat /\ IsSeq(s) /\ k \in 1..n
    BY <1>1, PathLen
  <2>2. k \in 0..Len(s)
    BY <2>1
  <2> QED BY <2>1, <2>2, Rest
<1>6. r = <<>> <=> k = n
  <2>1. r = <<>> <=> Len(r) = 0
    BY <1>5, NoElements
  <2> HIDE DEF r, n
  <2> QED BY <1>5, <2>1
<1>7. CASE k = n
  <2>1. v.stage = "done" /\ v.read = NotRead /\ v.start = 0
    BY <1>4, <1>6, <1>7
  <2>2. HasType(q.val, end.kind, end.grant) /\ (holds => end.card = "open")
    BY <1>2, <1>7
  <2>3. end.card = "closed"
    BY <1>1 DEF Closing
  <2>4. ~holds
    BY <2>2, <2>3
  <2> HIDE DEF v, end, r, n, s
  <2>5. ASSUME q.wanted # Nil, KeysTellGrants PROVE q.val.grant = q.wanted
    <3>1. end.grant = q.wanted /\ end.kind \in {"answer"} \cup TokenKinds
      BY <1>1, <2>5
    <3>2. CASE end.kind = "answer"
      BY <2>2, <3>1, <3>2 DEF HasType, AnswerType
    <3>3. CASE end.kind \in TokenKinds
      BY <2>2, <2>5, <3>1, <3>3 DEF HasType
    <3> QED BY <3>1, <3>2, <3>3
  <2>6. Sound(v, holds)
    BY <1>3, <1>4, <2>1, <2>4, <2>5 DEF Sound, IsRequest
  <2> QED BY <2>6 DEF v, r, s
<1>8. CASE k # n
  <2>1. r # <<>> /\ v.stage = "running" /\ v.read = q.read /\ v.start = q.start
    BY <1>3, <1>4, <1>6, <1>8
  <2>2. Path(r, g)
    <3>1. k \in 0..n
      BY <1>5
    <3> HIDE DEF r, g
    <3> QED BY <1>1, <3>1, PathRest DEF r, g
  <2>3. g[1] = p[k + 1] /\ g[Len(r) + 1] = end
    <3> HIDE DEF r, n
    <3>1. 1 \in 1..(n - k + 1) /\ Len(r) + 1 \in 1..(n - k + 1) /\ 1 + k = k + 1
          /\ (Len(r) + 1) + k = n + 1
      BY <1>5
    <3> QED BY <3>1
  <2>4. CachesOf(r) \subseteq CachesOf(s)
    <3> SUFFICES ASSUME NEW j \in 1..Len(r), r[j].op = "cache"
                 PROVE  r[j] \in CachesOf(s)
      BY Zenon DEF CachesOf
    <3> HIDE DEF r, n
    <3>1. j + k \in 1..n /\ r[j] = s[j + k]
      BY <1>5
    <3> QED BY <3>1 DEF CachesOf, n
  <2>5. Promise(v, g)
    <3> HIDE DEF v, r, g, end, n, s
    <3>1. Closing(g[Len(r) + 1]) /\ CachesOf(r) \subseteq Frames
      BY <1>1, <2>3, <2>4
    <3> QED BY <1>1, <1>4, <2>2, <2>3, <3>1 DEF Promise
  <2>6. Has(v, g[1], holds)
    <3> HIDE DEF v, r, g, end, n, s
    <3> QED BY <1>2, <1>4, <2>1, <2>3 DEF Has
  <2>7. Sound(v, holds)
    <3> HIDE DEF v, r, g, end, n, s
    <3> QED BY <1>3, <1>4, <2>1, <2>5, <2>6 DEF Sound, IsRequest
  <2> QED BY <2>7 DEF v, r, s
<1> QED BY <1>7, <1>8

\* Letting go of the card is no harm to those who do not have it.
LEMMA SoundStill ==
  ASSUME NEW q, NEW h, NEW holds, Sound(q, h), holds => h
  PROVE  Sound(q, holds)
<1>1. ASSUME q.stage = "running"
      PROVE  \E p : Promise(q, p) /\ Has(q, p[1], holds)
  <2>1. PICK p : Promise(q, p) /\ Has(q, p[1], h)
    BY <1>1 DEF Sound
  <2>2. Has(q, p[1], holds)
    BY <2>1 DEF Has
  <2> QED BY <2>1, <2>2
<1> QED BY <1>1 DEF Sound

-----------------------------------------------------------------------------
(* A command has steps.                                                    *)

\* Steps that ask for something are at least one.
LEMMA Moves ==
  ASSUME NEW s, NEW t, NEW u, Leads(s, t, u), t.stage # u.stage
  PROVE  IsSeq(s) /\ s # <<>>
<1>1. PICK p : Path(s, p) /\ p[1] = t /\ p[Len(s) + 1] = u
  BY DEF Leads
<1>2. IsSeq(s)
  BY <1>1 DEF Path
<1>3. s # <<>>
  <2> SUFFICES ASSUME s = <<>> PROVE FALSE
    OBVIOUS
  <2>1. Len(s) = 0
    BY <1>2, NoElements
  <2>2. p[Len(s) + 1] = p[1]
    BY <2>1
  <2> QED BY <1>1, <2>2
<1> QED BY <1>2, <1>3

\* Steps and more steps are at least one.
LEMMA MoreSteps ==
  ASSUME NEW s, NEW t, IsSeq(s), IsSeq(t), s # <<>>
  PROVE  IsSeq(s \o t) /\ s \o t # <<>>
<1> DEFINE m == Len(s)
           n == Len(t)
           w == s \o t
<1>1. m \in Nat /\ n \in Nat /\ Len(w) = m + n /\ IsSeq(w)
  BY Joined
<1>2. m # 0
  BY NoElements
<1> HIDE DEF m, n, w
<1>3. Len(w) # 0
  BY <1>1, <1>2
<1>4. w # <<>>
  BY <1>1, <1>3, NoElements
<1> QED BY <1>1, <1>4 DEF w

\* So no fetch and no command is without a step.
LEMMA FetchMoves ==
  ASSUME NEW name, NEW c, NEW a
  PROVE  IsSeq(FetchCloudSts(name, c, a)) /\ FetchCloudSts(name, c, a) # <<>>
<1> DEFINE s == FetchCloudSts(name, c, a)
<1>1. Fresh(Origin) /\ NoneOpen(Origin) /\ Origin.stage = 0
  BY OriginIs DEF Closing, Fresh
<1>2. FetchesSome(s)
  BY CloudStsLeads
<1> HIDE DEF s
<1>3. PICK kind, grant, stage :
        kind \in TokenKinds /\ stage # 0 /\ Leads(s, Origin, Holding(Origin, kind, grant, stage))
  BY <1>1, <1>2 DEF FetchesSome
<1>4. Holding(Origin, kind, grant, stage).stage = stage
  BY DEF Holding, Point
<1> QED BY <1>1, <1>3, <1>4, Moves DEF s

\* A fetch from a provider has steps.
LEMMA IdpMoves ==
  ASSUME NEW c, NEW force
  PROVE  IsSeq(IdpFetchOidcToken(c, force)) /\ IdpFetchOidcToken(c, force) # <<>>
<1>1. Fresh(Origin) /\ Origin.open["oidc_token"] = {} /\ Origin.stage = 0
  BY OriginIs DEF Closing, Fresh, NoneOpen, Category
<1>2. Leads(IdpFetchOidcToken(c, force), Origin, Holding(Origin, "jwt", JwtGrant(c), 2))
  BY <1>1, IdpLeads
<1>3. Holding(Origin, "jwt", JwtGrant(c), 2).stage = 2 /\ 2 # 0
  BY DEF Holding, Point
<1> QED BY <1>1, <1>2, <1>3, Moves

\* A refusal is a step.
LEMMA RefuseMoves == IsSeq(Refuse) /\ Refuse # <<>>
<1>1. IsSeq(Refuse) /\ Len(Refuse) = 1
  BY OneElement DEF Refuse
<1>2. Refuse # <<>>
  BY <1>1, NoElements
<1> QED BY <1>1, <1>2

\* Every command has steps.
LEMMA CommandMoves ==
  ASSUME NEW found, NEW a, a.command \in CommandNames, a.ids \in Seq(STRING)
  PROVE  Command(found, a) # <<>>
<1> DEFINE fetch == FetchCloudSts(found.name, found.settings, a)
<1>1. Command(found, a) \in
        {Refuse, FetchTokenCommand(found, a), Execute(found, a), ShowToken(found, a),
         StartSession(found, a), HandleCloudToken(found, a), FetchOpenClawSecret(found, a)}
  BY DEF Command, CommandNames
<1>2. IsSeq(fetch) /\ fetch # <<>>
  BY FetchMoves
<1> HIDE DEF fetch
<1>3. ASSUME NEW s, IsSeq(s) PROVE IsSeq(fetch \o s) /\ fetch \o s # <<>>
  BY <1>2, <1>3, MoreSteps
<1>4. /\ IsSeq(<<Step("format")>>) /\ IsSeq(<<Step("run command")>>)
      /\ IsSeq(<<Step("open output"), Step("write output")>>)
      /\ IsSeq(<<Step("format"), [op |-> "environment", environments |-> found.settings.Environments]>>)
  BY OneElement, TwoElements
<1>5. IsSeq(<<>>)
  BY QuietNone, OriginIs DEF Quiet, Leads, Path, Free, Fresh
<1>6. FetchTokenCommand(found, a) # <<>>
  <2>1. FetchTokenCommand(found, a) \in
          {(fetch \o <<Step("format")>>) \o <<Step("open output"), Step("write output")>>,
           (fetch \o <<Step("format")>>) \o <<>>}
    BY DEF FetchTokenCommand, fetch
  <2> QED BY <2>1, <1>3, <1>4, <1>5, MoreSteps
<1>7. Execute(found, a) # <<>>
  <2> DEFINE run == Provided(a.args, <<Step("run command")>>)
             s == <<Step("format"), [op |-> "environment", environments |-> found.settings.Environments]>>
  <2>1. Execute(found, a) = (fetch \o s) \o run
    BY DEF Execute, fetch
  <2>2. IsSeq(run) /\ IsSeq(s)
    BY <1>4, RefuseMoves DEF Provided
  <2> HIDE DEF s, run
  <2>3. IsSeq(fetch \o s) /\ fetch \o s # <<>>
    BY <1>3, <2>2
  <2> QED BY <2>1, <2>2, <2>3, MoreSteps
<1>8. ShowToken(found, a) # <<>> /\ HandleCloudToken(found, a) # <<>>
  BY <1>3, <1>4 DEF ShowToken, HandleCloudToken, fetch
<1>9. StartSession(found, a) # <<>>
  <2> DEFINE s == <<Step("format"), Step("client"), Step("start terminal session"), Step("dial")>>
  <2>1. StartSession(found, a) = fetch \o s
    BY DEF StartSession, fetch
  <2>2. IsSeq(s)
    <3>1. s \in Seq({Step("format"), Step("client"), Step("start terminal session"), Step("dial")})
      OBVIOUS
    <3> QED BY <3>1 DEF IsSeq
  <2> HIDE DEF s
  <2> QED BY <2>1, <2>2, <1>3
<1>a. FetchOpenClawSecret(found, a) # <<>>
  <2>1. IsSeq(<<Step("panic")>>) /\ Len(<<Step("panic")>>) = 1
    BY OneElement
  <2>2. <<Step("panic")>> # <<>>
    BY <2>1, NoElements
  <2>3. ASSUME NEW c, NEW force PROVE IdpFetchOidcToken(c, force) \o CredentialSteps(a.ids) # <<>>
    BY IdpMoves, CredentialStepsAre, MoreSteps
  <2> QED BY <2>2, <2>3, RefuseMoves, OpenClawSteps
<1> QED BY <1>1, <1>6, <1>7, <1>8, <1>9, <1>a, RefuseMoves

-----------------------------------------------------------------------------
(* One request takes a step, the others have their card and their way.     *)

\* If one request takes a step that is sound the invariant is kept.
LEMMA OneSteps ==
  ASSUME IInv, NEW r \in Req, NEW q, request' = [request EXCEPT ![r] = q],
         card' = card \/ card' = Nil \/ card' = r,
         UNCHANGED <<clock, config>>, CacheOK',
         output'.state \in {"old", "empty", "whole", "mixed"},
         Sound(q, Holds(r)')
  PROVE  IInv'
<1>1. DOMAIN request' = Req /\ request'[r] = q
      /\ \A o \in Req : o # r => request'[o] = request[o]
  BY DEF IInv
<1>2. ASSUME NEW o \in Req PROVE Sound(request'[o], Holds(o)')
  <2>1. CASE o = r
    BY <1>1, <2>1
  <2>2. CASE o # r
    <3> DEFINE h == Holds(o)
               k == Holds(o)'
    <3>1. Sound(request[o], h)
      BY DEF IInv
    <3>2. k => h
      BY <2>2 DEF Holds
    <3> HIDE DEF h, k
    <3>3. Sound(request[o], k)
      BY <3>1, <3>2, SoundStill
    <3> QED BY <1>1, <2>2, <3>3 DEF k
  <2> QED BY <2>1, <2>2
<1>3. card' \in Option(Req)
  BY DEF IInv, Option
<1> QED BY <1>1, <1>2, <1>3 DEF IInv

\* Files nobody writes stay as they are.
LEMMA CacheStill ==
  ASSUME CacheOK, UNCHANGED cache
  PROVE  CacheOK'
BY DEF CacheOK

\* A request that begins is on the way of its command.
LEMMA AskKeeps ==
  ASSUME IInv, NEW r \in Req, Ask(r)
  PROVE  IInv'
<1> DEFINE q == request[r]
           a == q.ask
           s == StepsOf(a, config)
           v == [q EXCEPT !.stage = "running", !.todo = s, !.wanted = Wanted(s)]
<1>1. /\ q.stage = "idle" /\ request' = [request EXCEPT ![r] = v]
      /\ UNCHANGED <<clock, config, cache, card, output>>
  BY DEF Ask, StepsOf
<1>2. Sound(q, Holds(r)) /\ config \in DOMAIN Configs
  BY DEF IInv
<1>3. DOMAIN q = Fields /\ a \in Asked /\ q.start \in Nat /\ q.read = NotRead /\ ~Holds(r)
  BY <1>1, <1>2 DEF Sound, IsRequest
<1>4. s # <<>>
  BY <1>3, AskedIs, CommandMoves DEF StepsOf
<1>5. PICK p : Path(s, p) /\ p[1] = Origin /\ Closing(p[Len(s) + 1])
  BY <1>2, <1>3, StepsEnd DEF Ends, Leads
<1>6. CachesOf(s) \subseteq Frames
  BY <1>2, <1>3 DEF Frames
<1> HIDE DEF s, q
<1>7. /\ DOMAIN v = Fields /\ v.stage = "running" /\ v.todo = s /\ v.wanted = Wanted(s)
      /\ v.ask = a /\ v.start = q.start /\ v.read = NotRead /\ v.val = q.val
  BY <1>3 DEF Fields
<1> HIDE DEF v, a
<1>o. Origin.stage = 0 /\ Origin.kind = "any" /\ \A c \in Category : Origin.open[c] = {}
  BY DEF Origin, Point
<1>8. Promise(v, p)
  <2>1. v.wanted # Nil => /\ p[Len(s) + 1].grant = Wanted(s)
                          /\ p[Len(s) + 1].kind \in {"answer"} \cup TokenKinds
    BY <1>5, <1>7, <1>o, WantedIsGot
  <2> QED BY <1>5, <1>6, <1>7, <2>1 DEF Promise
<1>9. Has(v, Origin, Holds(r)')
  <2>1. HasType(v.val, Origin.kind, Origin.grant)
    BY <1>o DEF HasType, TokenKinds, CloudKinds
  <2>2. Reads(v.read, Origin.open)
    BY <1>7, <1>o DEF Reads, ReadsCache, NotRead
  <2>3. ~Holds(r)'
    BY <1>1, <1>3 DEF Holds
  <2> QED BY <2>1, <2>2, <2>3 DEF Has
<1>a. Sound(v, Holds(r)')
  BY <1>3, <1>4, <1>5, <1>7, <1>8, <1>9 DEF Sound, IsRequest, a
<1>b. CacheOK'
  BY <1>1, CacheStill DEF IInv
<1> QED BY <1>1, <1>a, <1>b, OneSteps DEF IInv

\* A running request is at the first point of some path.
LEMMA AtStart ==
  ASSUME NEW q, NEW h, Sound(q, h), q.stage = "running"
  PROVE  /\ DOMAIN q = Fields /\ IsRequest(q)
         /\ \E p : Promise(q, p) /\ Has(q, p[1], h)
         /\ Tail(q.todo) = From1(q.todo, 1) /\ Head(q.todo) = q.todo[1]
         /\ 1 \in 1..Len(q.todo) /\ Len(q.todo) \in Nat /\ IsSeq(q.todo)
<1>1. DOMAIN q = Fields /\ IsRequest(q) /\ q.todo # <<>> /\ \E p : Promise(q, p) /\ Has(q, p[1], h)
  BY DEF Sound, IsRequest
<1>2. IsSeq(q.todo)
  BY <1>1 DEF Promise, Path
<1> DEFINE s == q.todo
<1>3. Tail(s) = From1(s, 1) /\ Head(s) = s[1] /\ Len(s) \in Nat /\ Len(s) >= 1
  BY <1>1, <1>2, HeadAndTail
<1>4. 1 \in 1..Len(s)
  BY <1>3
<1> QED BY <1>1, <1>2, <1>3, <1>4

\* Its next step is allowed there.
LEMMA FirstFlow ==
  ASSUME NEW q, NEW h, Sound(q, h), q.stage = "running", NEW p, Promise(q, p)
  PROVE  Flow(Head(q.todo), p[1], p[2])
<1>1. 1 \in 1..Len(q.todo) /\ Head(q.todo) = q.todo[1]
  BY AtStart
<1>2. Flow(q.todo[1], p[1], p[1 + 1])
  BY <1>1 DEF Promise, Path
<1> QED BY <1>1, <1>2

\* It is sound behind the step if it has what is known there.
LEMMA Takes ==
  ASSUME NEW q, NEW h, Sound(q, h), q.stage = "running", NEW p, Promise(q, p),
         NEW v, IsRequest(v), v.stage = "running", v.todo = q.todo, v.wanted = q.wanted,
         NEW holds, Has(v, p[2], holds)
  PROVE  Sound(Advance(v), holds)
<1>1. 1 \in 1..Len(v.todo) /\ Tail(v.todo) = From1(v.todo, 1)
  BY AtStart
<1>2. Promise(v, p)
  BY DEF Promise
<1>3. Has(v, p[1 + 1], holds)
  OBVIOUS
<1>4. Sound(Left(v, From1(v.todo, 1)), holds)
  BY <1>1, <1>2, <1>3, Arrive
<1> QED BY <1>1, <1>4 DEF Advance

\* The steps that change something that is known.
NotNeutral ==
  AnswerOps \cup {"pick", "keep", "exchange", "refuse", "cache", "store", "open card", "close"}

\* Most steps change nothing that is known.
LEMMA Neutral ==
  ASSUME NEW x, NEW t, NEW u, Flow(x, t, u), x.op \notin NotNeutral
  PROVE  u.kind = t.kind /\ u.grant = t.grant /\ u.open = t.open /\ u.card = t.card
<1> DEFINE op == x.op
<1>1. op \notin NotNeutral
  OBVIOUS
<1> HIDE DEF op
<1>2. /\ op \notin AnswerOps \cup {"pick", "keep", "exchange", "refuse"}
      /\ op \notin {"cache", "store"} /\ op \notin {"open card", "close"}
  BY <1>1 DEF NotNeutral
<1>3. u.kind = t.kind /\ u.grant = t.grant
  BY <1>2, Zenon DEF Flow, FlowValue, op
<1>4. u.open = t.open
  BY <1>2, Zenon DEF Flow, FlowOpen, op
<1>5. u.card = t.card
  BY <1>2, Zenon DEF Flow, FlowCard, op
<1> QED BY <1>3, <1>4, <1>5

\* Steps that change nothing but what is not of interest here.
LEMMA NeutralKeeps ==
  ASSUME IInv, NEW r \in Req, request[r].stage = "running",
         Head(request[r].todo).op \notin NotNeutral,
         NEW v, DOMAIN v = Fields, v.stage = "running", v.ask = request[r].ask,
         v.todo = request[r].todo, v.wanted = request[r].wanted, v.val = request[r].val,
         v.read = request[r].read, v.start \in Nat,
         Becomes(r, v), UNCHANGED <<cache, card>>,
         output'.state \in {"old", "empty", "whole", "mixed"}
  PROVE  IInv'
<1> DEFINE q == request[r]
           h == Holds(r)
           k == Holds(r)'
<1>1. Sound(q, h) /\ q.stage = "running"
  BY DEF IInv
<1>k. k <=> h
  BY DEF Holds
<1> HIDE DEF h, k
<1>2. PICK p : Promise(q, p) /\ Has(q, p[1], h)
  BY <1>1, AtStart
<1>3. /\ p[2].kind = p[1].kind /\ p[2].grant = p[1].grant /\ p[2].open = p[1].open
      /\ p[2].card = p[1].card
  <2>1. Flow(Head(q.todo), p[1], p[2])
    BY <1>1, <1>2, FirstFlow
  <2> QED BY <2>1, Neutral
<1>4. IsRequest(v)
  BY <1>1, AtStart DEF IsRequest
<1>5. Has(v, p[2], k)
  BY <1>2, <1>3, <1>k DEF Has
<1>6. Sound(Advance(v), k)
  BY <1>1, <1>2, <1>4, <1>5, Takes
<1>7. CacheOK'
  BY CacheStill DEF IInv
<1>8. request' = [request EXCEPT ![r] = Advance(v)] /\ UNCHANGED <<clock, config>>
  BY DEF Becomes
<1> QED BY <1>6, <1>7, <1>8, OneSteps DEF k

\* The fields of a request.
LEMMA RequestFields ==
  ASSUME IInv, NEW r \in Req
  PROVE  /\ DOMAIN request[r] = Fields /\ request[r].start \in Nat
         /\ output.state \in {"old", "empty", "whole", "mixed"} /\ clock \in Nat
BY TimeAssumption DEF IInv, Sound, IsRequest

\* Each such step keeps the invariant.
LEMMA ProceedKeeps ==
  ASSUME IInv, NEW r \in Req, Proceed(r)
  PROVE  IInv'
<1> DEFINE op == Head(request[r].todo).op
<1>1. request[r].stage = "running" /\ op \in Plain
  BY DEF Proceed, At
<1> HIDE DEF op
<1>2. op \notin NotNeutral
  BY <1>1 DEF Plain, NotNeutral, AnswerOps
<1>3. Becomes(r, request[r]) /\ UNCHANGED <<cache, card, output>>
  BY DEF Proceed
<1> QED BY <1>1, <1>2, <1>3, RequestFields, NeutralKeeps DEF op

\* The signature of an assertion does ...
LEMMA SignAssertionKeeps ==
  ASSUME IInv, NEW r \in Req, SignAssertion(r)
  PROVE  IInv'
<1> DEFINE op == Head(request[r].todo).op
<1>1. request[r].stage = "running" /\ op = "sign"
  BY DEF SignAssertion, At
<1> HIDE DEF op
<1>2. op \notin NotNeutral
  BY <1>1 DEF NotNeutral, AnswerOps
<1>3. Becomes(r, request[r]) /\ UNCHANGED <<cache, card, output>>
  BY DEF SignAssertion
<1> QED BY <1>1, <1>2, <1>3, RequestFields, NeutralKeeps DEF op

\* ... the time taken before a request ...
LEMMA StartKeeps ==
  ASSUME IInv, NEW r \in Req, Start(r)
  PROVE  IInv'
<1> DEFINE q == request[r]
           op == Head(q.todo).op
           v == [q EXCEPT !.start = clock]
<1>1. q.stage = "running" /\ op = "start"
  BY DEF Start, At
<1>2. Becomes(r, v) /\ UNCHANGED <<cache, card, output>>
  BY DEF Start
<1>4. DOMAIN q = Fields /\ clock \in Nat /\ output.state \in {"old", "empty", "whole", "mixed"}
  BY RequestFields
<1> HIDE DEF op, q
<1>3. op \notin NotNeutral
  BY <1>1 DEF NotNeutral, AnswerOps
<1>5. /\ DOMAIN v = Fields /\ v.stage = q.stage /\ v.ask = q.ask /\ v.todo = q.todo
      /\ v.wanted = q.wanted /\ v.val = q.val /\ v.read = q.read /\ v.start = clock
  BY <1>4 DEF Fields
<1> HIDE DEF v
<1> QED BY <1>1, <1>2, <1>3, <1>4, <1>5, NeutralKeeps DEF op, q

\* ... formatting ...
LEMMA FormatKeeps ==
  ASSUME IInv, NEW r \in Req, Format(r)
  PROVE  IInv'
<1> DEFINE op == Head(request[r].todo).op
<1>1. request[r].stage = "running" /\ op = "format"
  BY DEF Format, At
<1> HIDE DEF op
<1>2. op \notin NotNeutral
  BY <1>1 DEF NotNeutral, AnswerOps
<1>3. Becomes(r, request[r]) /\ UNCHANGED <<cache, card, output>>
  BY DEF Format
<1> QED BY <1>1, <1>2, <1>3, RequestFields, NeutralKeeps DEF op

\* ... writing the output file ...
LEMMA OutputKeeps ==
  ASSUME IInv, NEW r \in Req, OpenOutput(r) \/ WriteOutput(r)
  PROVE  IInv'
<1> DEFINE op == Head(request[r].todo).op
<1>1. request[r].stage = "running" /\ op \in {"open output", "write output"}
  BY DEF OpenOutput, WriteOutput, At
<1> HIDE DEF op
<1>2. op \notin NotNeutral
  BY <1>1 DEF NotNeutral, AnswerOps
<1>3. Becomes(r, request[r]) /\ UNCHANGED <<cache, card>>
  BY DEF OpenOutput, WriteOutput
<1>4. output'.state \in {"old", "empty", "whole", "mixed"}
  <2>1. CASE OpenOutput(r)
    BY <2>1 DEF OpenOutput
  <2>2. CASE WriteOutput(r)
    <3>1. PICK state \in {"whole", "mixed"} : output' = [state |-> state, token |-> request[r].val]
      BY <2>2 DEF WriteOutput
    <3> QED BY <3>1
  <2> QED BY <2>1, <2>2
<1> QED BY <1>1, <1>2, <1>3, <1>4, RequestFields, NeutralKeeps DEF op

\* ... setting the environment of a child ...
LEMMA EnvironmentKeeps ==
  ASSUME IInv, NEW r \in Req, Environment(r)
  PROVE  IInv'
<1> DEFINE q == request[r]
           op == Head(q.todo).op
           e == PutEnvForToken(OsEnv, Head(q.todo).environments, q.val.kind, "token", q.ask.region)
           v == [q EXCEPT !.environment = e]
<1>1. q.stage = "running" /\ op = "environment"
  BY DEF Environment, At
<1>2. Becomes(r, v) /\ UNCHANGED <<cache, card, output>>
  BY DEF Environment
<1>4. DOMAIN q = Fields /\ q.start \in Nat /\ output.state \in {"old", "empty", "whole", "mixed"}
  BY RequestFields
<1> HIDE DEF op, q, e
<1>3. op \notin NotNeutral
  BY <1>1 DEF NotNeutral, AnswerOps
<1>5. /\ DOMAIN v = Fields /\ v.stage = q.stage /\ v.ask = q.ask /\ v.todo = q.todo
      /\ v.wanted = q.wanted /\ v.val = q.val /\ v.read = q.read /\ v.start = q.start
  BY <1>4 DEF Fields
<1> HIDE DEF v
<1> QED BY <1>1, <1>2, <1>3, <1>4, <1>5, NeutralKeeps DEF op, q

\* ... and answering for an identifier.
LEMMA CredentialKeeps ==
  ASSUME IInv, NEW r \in Req, Credential(r)
  PROVE  IInv'
<1> DEFINE q == request[r]
           op == Head(q.todo).op
           id == Head(q.todo).with
           v1 == [q EXCEPT !.values = @ \cup {id}]
           v2 == [q EXCEPT !.errors = @ \cup {id}]
<1>1. q.stage = "running" /\ op = "credential"
  BY DEF Credential, At
<1>2. (Becomes(r, v1) \/ Becomes(r, v2)) /\ UNCHANGED <<cache, card, output>>
  BY DEF Credential
<1>4. DOMAIN q = Fields /\ q.start \in Nat /\ output.state \in {"old", "empty", "whole", "mixed"}
  BY RequestFields
<1> HIDE DEF op, q, id
<1>3. op \notin NotNeutral
  BY <1>1 DEF NotNeutral, AnswerOps
<1>5. ASSUME NEW v \in {v1, v2}
      PROVE  /\ DOMAIN v = Fields /\ v.stage = q.stage /\ v.ask = q.ask /\ v.todo = q.todo
             /\ v.wanted = q.wanted /\ v.val = q.val /\ v.read = q.read /\ v.start = q.start
  BY <1>4 DEF Fields
<1> HIDE DEF v1, v2
<1>6. PICK v \in {v1, v2} : Becomes(r, v)
  BY <1>2
<1> QED BY <1>1, <1>2, <1>3, <1>4, <1>5, <1>6, NeutralKeeps DEF op, q

-----------------------------------------------------------------------------
(* The card.                                                               *)

\* The first step of a card, as the model looks it up.
LEMMA FirstCardEvent ==
  ASSUME NEW s, IsSeq(s), NEW j \in 1..Len(s), s[j].op \in CardEvents,
         \A k \in 1..Len(s) : k < j => s[k].op \notin CardEvents
  PROVE  SelectInSeq(s, LAMBDA x : x.op \in CardEvents) = j
<1> DEFINE I == {i \in 1..Len(s) : s[i].op \in CardEvents}
<1>0. Len(s) \in Nat
  BY SeqIndices, Zenon
<1>1. SelectInSeq(s, LAMBDA x : x.op \in CardEvents) = IF I # {} THEN Min(I) ELSE 0
  BY Zenon DEF SelectInSeq
<1>2. j \in I /\ I \subseteq Nat
  BY <1>0
<1>3. ASSUME NEW x \in I PROVE j <= x
  BY <1>0
<1>4. Min(I) = j
  <2> HIDE DEF I
  <2> QED BY <1>2, <1>3, LeastOf
<1> HIDE DEF I
<1> QED BY <1>1, <1>2, <1>4, Zenon

\* Who has the card open at the start of a path is to close it.
LEMMA OpenIsClosed ==
  ASSUME NEW q, NEW p, Promise(q, p), p[1].card = "open"
  PROVE  ToBeClosed(q)
<1> DEFINE s == q.todo
<1>1. IsSeq(s) /\ Len(s) \in Nat /\ Path(s, p) /\ p[Len(s) + 1].card = "closed"
  BY PathLen DEF Promise, Closing
<1> HIDE DEF s
<1>2. PICK j \in 1..Len(s) : s[j].op = "close" /\ \A k \in 1..Len(s) : k < j => s[k].op \notin CardEvents
  BY <1>1, CardCloses
<1>3. s[j].op \in CardEvents
  BY <1>2 DEF CardEvents
<1>4. SelectInSeq(s, LAMBDA x : x.op \in CardEvents) = j
  BY <1>1, <1>2, <1>3, FirstCardEvent, Zenon
<1>5. SelectInSeq(q.todo, LAMBDA x : x.op \in {"open card", "open token", "close"}) = j
  BY <1>4, Zenon DEF CardEvents, s
<1>6. ToBeClosed(q) <=> j > 0 /\ q.todo[j].op = "close"
  BY <1>5, Zenon DEF ToBeClosed
<1>7. j > 0
  BY <1>1
<1> QED BY <1>2, <1>6, <1>7, Zenon DEF s

\* Unwinding leaves the card closed.
LEMMA LetsGo ==
  ASSUME IInv, NEW r \in Req, request[r].stage = "running", card' = Closed(r, request[r])
  PROVE  ~Holds(r)' /\ (card' = card \/ card' = Nil)
<1> DEFINE q == request[r]
<1>1. card' = card \/ card' = Nil
  BY DEF Closed
<1>2. CASE Holds(r)
  <2>1. Sound(q, Holds(r))
    BY DEF IInv
  <2>2. PICK p : Promise(q, p) /\ Has(q, p[1], Holds(r))
    BY <2>1, AtStart
  <2>3. p[1].card = "open"
    BY <1>2, <2>2 DEF Has
  <2>4. ToBeClosed(q)
    BY <2>2, <2>3, OpenIsClosed
  <2>5. card' = Nil
    BY <1>2, <2>4 DEF Closed, Holds
  <2> QED BY <2>5 DEF Holds
<1>3. CASE ~Holds(r)
  BY <1>1, <1>3 DEF Holds
<1> QED BY <1>1, <1>2, <1>3

\* Opening and closing change nothing but the card.
LEMMA CardStep ==
  ASSUME NEW x, NEW t, NEW u, Flow(x, t, u), x.op \in {"open card", "close"}
  PROVE  /\ u.kind = t.kind /\ u.grant = t.grant /\ u.open = t.open
         /\ x.op = "open card" => u.card = "open"
<1> DEFINE op == x.op
<1>1. op \in {"open card", "close"}
  OBVIOUS
<1> HIDE DEF op
<1>2. /\ op \notin AnswerOps \cup {"pick", "keep", "exchange", "refuse"}
      /\ op \notin {"cache", "store"}
  BY <1>1 DEF AnswerOps
<1>3. u.kind = t.kind /\ u.grant = t.grant
  BY <1>2, Zenon DEF Flow, FlowValue, op
<1>4. u.open = t.open
  BY <1>2, Zenon DEF Flow, FlowOpen, op
<1>5. op = "open card" => u.card = "open"
  BY <1>2, Zenon DEF Flow, FlowCard, op
<1> QED BY <1>3, <1>4, <1>5 DEF op

\* Opening and closing keep the invariant.
LEMMA CardKeeps ==
  ASSUME IInv, NEW r \in Req, OpenCard(r) \/ Close(r)
  PROVE  IInv'
<1> DEFINE q == request[r]
           h == Holds(r)
           k == Holds(r)'
           x == Head(q.todo)
<1>1. /\ q.stage = "running" /\ x.op \in {"open card", "close"} /\ Becomes(r, q)
      /\ UNCHANGED <<cache, output>>
  BY DEF OpenCard, Close, At
<1>2. Sound(q, h)
  BY DEF IInv
<1>3. PICK p : Promise(q, p) /\ Has(q, p[1], h)
  BY <1>1, <1>2, AtStart
<1>4. Flow(x, p[1], p[2])
  BY <1>1, <1>2, <1>3, FirstFlow
<1> DEFINE t == p[1]
           u == p[2]
<1>5. /\ u.kind = t.kind /\ u.grant = t.grant /\ u.open = t.open
      /\ x.op = "open card" => u.card = "open"
  BY <1>1, <1>4, CardStep
<1>6. card' = card \/ card' = Nil \/ card' = r
  BY <1>1, LetsGo DEF OpenCard, Close
<1>7. k => x.op = "open card"
  BY <1>1, LetsGo DEF OpenCard, Close, At
<1> HIDE DEF x, h, k
<1>8. Has(q, u, k)
  BY <1>3, <1>5, <1>7 DEF Has
<1>9. IsRequest(q)
  BY <1>1, <1>2, AtStart
<1>a. Sound(Advance(q), k)
  BY <1>1, <1>2, <1>3, <1>8, <1>9, Takes
<1>b. CacheOK'
  BY <1>1, CacheStill DEF IInv
<1>c. request' = [request EXCEPT ![r] = Advance(q)] /\ UNCHANGED <<clock, config>>
  BY <1>1 DEF Becomes
<1>d. output'.state \in {"old", "empty", "whole", "mixed"}
  BY <1>1 DEF IInv
<1> QED BY <1>6, <1>a, <1>b, <1>c, <1>d, OneSteps DEF k

\* A request ends without a token.
Ending(q) ==
  [q EXCEPT !.stage = "failed", !.todo = <<>>, !.start = 0, !.read = NotRead, !.val = Nil]

\* A request that ends at once is sound.
LEMMA EndingIs ==
  ASSUME NEW q, IsRequest(q), NEW holds, ~holds
  PROVE  Sound(Ending(q), holds)
<1> DEFINE v == Ending(q)
<1>1. /\ DOMAIN v = Fields /\ v.stage = "failed" /\ v.start = 0 /\ v.read = NotRead
      /\ v.ask = q.ask /\ v.todo = <<>>
  BY DEF Ending, IsRequest, Fields
<1> HIDE DEF v
<1>2. Sound(v, holds)
  BY <1>1 DEF Sound, IsRequest
<1> QED BY <1>2 DEF v

\* A panic and a crash keep the invariant.
LEMMA EndKeeps ==
  ASSUME IInv, NEW r \in Req, Panic(r) \/ Crash(r)
  PROVE  IInv'
<1> DEFINE q == request[r]
           k == Holds(r)'
<1>1. /\ q.stage = "running" /\ request' = [request EXCEPT ![r] = Ending(q)]
      /\ UNCHANGED <<clock, config, cache, output>>
  BY DEF Panic, Crash, At, Ending
<1>2. ~k /\ (card' = card \/ card' = Nil)
  <2>1. CASE Panic(r)
    BY <1>1, <2>1, LetsGo DEF Panic
  <2>2. CASE Crash(r)
    BY <2>2 DEF Crash, Holds
  <2> QED BY <2>1, <2>2
<1>3. IsRequest(q)
  BY DEF IInv, Sound
<1> HIDE DEF k
<1>5. Sound(Ending(q), k)
  BY <1>2, <1>3, EndingIs
<1>6. CacheOK'
  BY <1>1, CacheStill DEF IInv
<1>7. output'.state \in {"old", "empty", "whole", "mixed"}
  BY <1>1 DEF IInv
<1> QED BY <1>1, <1>2, <1>5, <1>6, <1>7, OneSteps DEF k

-----------------------------------------------------------------------------
(* The token.                                                              *)

\* The steps that get a value.
ValueOps == AnswerOps \cup {"pick", "keep", "exchange"}

\* With w for its value the request holds what is known after its next step.
Gets(q, w) ==
  \A p, h : Promise(q, p) /\ Has(q, p[1], h) => HasType(w, p[2].kind, p[2].grant)

\* A step that gives the request a value of the kind and the grant known at the
\* next point keeps the invariant.
LEMMA ValueKeeps ==
  ASSUME IInv, NEW r \in Req, request[r].stage = "running",
         Head(request[r].todo).op \in ValueOps, NEW w, Gets(request[r], w),
         Becomes(r, [request[r] EXCEPT !.val = w]), UNCHANGED <<cache, card, output>>
  PROVE  IInv'
<1> DEFINE q == request[r]
           h == Holds(r)
           k == Holds(r)'
           op == Head(q.todo).op
           x == Head(q.todo)
           v == [q EXCEPT !.val = w]
<1>1. Sound(q, h) /\ q.stage = "running" /\ op \in ValueOps
  BY DEF IInv
<1>k. k <=> h
  BY DEF Holds
<1>w. Gets(q, w)
  OBVIOUS
<1>b. request' = [request EXCEPT ![r] = Advance(v)] /\ UNCHANGED <<clock, config, cache, card, output>>
  BY DEF Becomes
<1> HIDE DEF h, k, q, x
<1>2. PICK p : Promise(q, p) /\ Has(q, p[1], h)
  BY <1>1, AtStart
<1> DEFINE t == p[1]
           u == p[2]
<1>3. u.open = t.open /\ u.card = t.card
  <2>1. Flow(x, t, u)
    BY <1>1, <1>2, FirstFlow DEF x
  <2> HIDE DEF op, t, u
  <2>2. op \notin {"cache", "store"} /\ op \notin {"open card", "close"}
    BY <1>1 DEF ValueOps, AnswerOps
  <2>3. u.open = t.open
    BY <2>1, <2>2, Zenon DEF Flow, FlowOpen, op, x
  <2>4. u.card = t.card
    BY <2>1, <2>2, Zenon DEF Flow, FlowCard, op, x
  <2> QED BY <2>3, <2>4
<1>q. DOMAIN q = Fields /\ IsRequest(q)
  BY <1>1, AtStart
<1>4. /\ DOMAIN v = Fields /\ v.stage = q.stage /\ v.ask = q.ask /\ v.todo = q.todo
      /\ v.wanted = q.wanted /\ v.val = w /\ v.read = q.read /\ v.start = q.start
  BY <1>q DEF Fields
<1> HIDE DEF v
<1>5. IsRequest(v)
  BY <1>4, <1>q DEF IsRequest
<1>6. Has(v, u, k)
  BY <1>2, <1>3, <1>4, <1>k, <1>w DEF Has, Gets
<1>7. Sound(Advance(v), k)
  BY <1>1, <1>2, <1>4, <1>5, <1>6, Takes
<1>8. CacheOK'
  BY <1>b, CacheStill DEF IInv
<1>9. output'.state \in {"old", "empty", "whole", "mixed"}
  BY <1>b DEF IInv
<1> QED BY <1>7, <1>8, <1>9, <1>b, OneSteps DEF k

\* What is known before and after such a step.
LEMMA ValueFlow ==
  ASSUME NEW x, NEW t, NEW u, Flow(x, t, u)
  PROVE  /\ x.op \in AnswerOps => u.kind = "answer" /\ u.grant = x.grant
         /\ x.op = "pick" => t.kind = "answer" /\ u.kind = "jwt" /\ u.grant = <<x.with, t.grant>>
         /\ x.op = "keep" => t.kind = "answer" /\ u.kind = "oidc" /\ u.grant = t.grant
         /\ x.op = "exchange" => /\ t.kind = "jwt" /\ x.kind \in CloudKinds /\ u.kind = x.kind
                                 /\ u.grant = Append(x.grant, t.grant)
<1>1. FlowValue(x, t, u)
  BY DEF Flow
<1> DEFINE op == x.op
<1>2. op = "exchange" => /\ t.kind = "jwt" /\ x.kind \in CloudKinds /\ u.kind = x.kind
                         /\ u.grant = Append(x.grant, t.grant)
  BY <1>1, Zenon DEF FlowValue
<1>3. op = "pick" => t.kind = "answer" /\ u.kind = "jwt" /\ u.grant = <<x.with, t.grant>>
  BY <1>1, Zenon DEF FlowValue
<1>4. op = "keep" => t.kind = "answer" /\ u.kind = "oidc" /\ u.grant = t.grant
  BY <1>1, Zenon DEF FlowValue
<1>5. op \in AnswerOps => u.kind = "answer" /\ u.grant = x.grant
  BY <1>1, Zenon DEF FlowValue
<1> QED BY <1>2, <1>3, <1>4, <1>5

\* The same of the next step of a request.
LEMMA FirstValue ==
  ASSUME NEW q, NEW h, Sound(q, h), q.stage = "running", NEW p, Promise(q, p)
  PROVE  LET x == Head(q.todo)
             t == p[1]
             u == p[2]
         IN /\ x.op \in AnswerOps => u.kind = "answer" /\ u.grant = x.grant
            /\ x.op = "pick" => t.kind = "answer" /\ u.kind = "jwt" /\ u.grant = <<x.with, t.grant>>
            /\ x.op = "keep" => t.kind = "answer" /\ u.kind = "oidc" /\ u.grant = t.grant
            /\ x.op = "exchange" => /\ t.kind = "jwt" /\ x.kind \in CloudKinds /\ u.kind = x.kind
                                    /\ u.grant = Append(x.grant, t.grant)
<1> DEFINE x == Head(q.todo)
           t == p[1]
           u == p[2]
<1>1. Flow(x, t, u)
  BY FirstFlow
<1> HIDE DEF x, t, u
<1>2. /\ x.op \in AnswerOps => u.kind = "answer" /\ u.grant = x.grant
      /\ x.op = "pick" => t.kind = "answer" /\ u.kind = "jwt" /\ u.grant = <<x.with, t.grant>>
      /\ x.op = "keep" => t.kind = "answer" /\ u.kind = "oidc" /\ u.grant = t.grant
      /\ x.op = "exchange" => /\ t.kind = "jwt" /\ x.kind \in CloudKinds /\ u.kind = x.kind
                              /\ u.grant = Append(x.grant, t.grant)
  BY <1>1, ValueFlow
<1> QED BY <1>2, Zenon DEF x, t, u

\* An answer that came at this time.
LEMMA AnswerIs ==
  ASSUME NEW op \in DOMAIN Answers, NEW a \in Answers[op], NEW now \in Nat, NEW g
  PROVE  [grant |-> g, id |-> From(now, a.id), access |-> now + a.access,
          at |-> IF a.at = Nil THEN 0 ELSE now + a.at, in |-> a.in] \in AnswerType(g)
<1>1. a.id \in Option(Nat) /\ a.access \in Nat /\ a.at \in Option(Nat) /\ a.in \in Nat
  BY AnswersAssumption
<1>2. From(now, a.id) \in Option(Nat)
  BY <1>1 DEF From, Option
<1>3. (IF a.at = Nil THEN 0 ELSE now + a.at) \in Nat
  BY <1>1 DEF Option
<1>4. now + a.access \in Nat
  BY <1>1
<1> QED BY <1>1, <1>2, <1>3, <1>4 DEF AnswerType

\* So an answer keeps the invariant ...
LEMMA AnsweredKeeps ==
  ASSUME IInv, NEW r \in Req, Answered(r)
  PROVE  IInv'
<1> DEFINE q == request[r]
           s == Head(q.todo)
           ans(a) == [grant |-> s.grant, id |-> From(clock, a.id), access |-> clock + a.access,
                      at |-> IF a.at = Nil THEN 0 ELSE clock + a.at, in |-> a.in]
<1>1. /\ q.stage = "running" /\ s.op \in DOMAIN Answers
      /\ UNCHANGED <<cache, card, output>>
  BY DEF Answered, At
<1>2. PICK a \in Answers[s.op] : Becomes(r, [q EXCEPT !.val = ans(a)])
  BY DEF Answered
<1> DEFINE w == ans(a)
<1>3. w \in AnswerType(s.grant)
  BY <1>1, AnswerIs, RequestFields
<1>4. s.op \in AnswerOps /\ s.op \in ValueOps
  BY <1>1, AnswersAssumption DEF AnswerOps, ValueOps
<1>5. Becomes(r, [q EXCEPT !.val = w])
  BY <1>2
<1>s. Sound(q, Holds(r))
  BY DEF IInv
<1> HIDE DEF w, s, q
<1>6. Gets(q, w)
  <2> SUFFICES ASSUME NEW p, Promise(q, p)
               PROVE  HasType(w, p[2].kind, p[2].grant)
    BY DEF Gets
  <2>1. p[2].kind = "answer" /\ p[2].grant = s.grant
    BY <1>1, <1>4, <1>s, FirstValue DEF s
  <2> QED BY <1>3, <2>1 DEF HasType, TokenKinds, CloudKinds
<1> QED BY <1>1, <1>4, <1>5, <1>6, ValueKeeps DEF q, s

\* ... what is made of it for an oidc_token file ...
LEMMA KeepKeeps ==
  ASSUME IInv, NEW r \in Req, Keep(r)
  PROVE  IInv'
<1> DEFINE q == request[r]
           s == Head(q.todo)
           w == Tokens!FromTokenResponse(q.start, q.val)
<1>1. /\ q.stage = "running" /\ s.op = "keep" /\ UNCHANGED <<cache, card, output>>
  BY DEF Keep, At
<1>s. Sound(q, Holds(r)) /\ q.start \in Nat /\ DOMAIN q = Fields
  BY RequestFields DEF IInv
<1>2. Becomes(r, [q EXCEPT !.val = w])
  <2>1. [q EXCEPT !.val = Tokens!FromTokenResponse(q.start, @)] = [q EXCEPT !.val = w]
    BY <1>s DEF Fields
  <2> QED BY <2>1 DEF Keep
<1>3. s.op \in ValueOps
  BY <1>1 DEF ValueOps
<1> HIDE DEF s, q
<1>4. Gets(q, w)
  <2> SUFFICES ASSUME NEW p, NEW h, Promise(q, p), Has(q, p[1], h)
               PROVE  HasType(w, p[2].kind, p[2].grant)
    BY DEF Gets
  <2>1. p[1].kind = "answer" /\ p[2].kind = "oidc" /\ p[2].grant = p[1].grant
    BY <1>1, <1>s, FirstValue DEF s
  <2>2. q.val \in AnswerType(p[1].grant)
    BY <2>1 DEF Has, HasType
  <2> DEFINE a == q.val
             g == p[1].grant
  <2>3. a.grant = g /\ a.id \in Option(Nat) /\ a.at \in Nat /\ a.in \in Nat
    BY <2>2 DEF AnswerType
  <2> HIDE DEF a, g
  <2> DEFINE e == IF a.at > 0 THEN a.at ELSE IF a.in > 0 THEN q.start + a.in ELSE 0
  <2>e. e \in Nat
    BY <1>s, <2>3
  <2>w. w = [grant |-> g, kind |-> "oidc", id |-> a.id, exp |-> e]
    BY <2>3 DEF Tokens!FromTokenResponse, a
  <2> HIDE DEF e, w
  <2>4. w \in Tokens!Contents({w.grant}) /\ w.grant = g /\ w.kind = "oidc"
    BY <2>3, <2>e, <2>w DEF Tokens!Contents, Option
  <2> QED BY <2>1, <2>4 DEF HasType, TokenKinds, g
<1> HIDE DEF w
<1> QED BY <1>1, <1>2, <1>3, <1>4, ValueKeeps DEF q, s

\* ... the JWT picked from it ...
LEMMA PickKeeps ==
  ASSUME IInv, NEW r \in Req, Pick(r)
  PROVE  IInv'
<1> DEFINE q == request[r]
           s == Head(q.todo)
           w == Tokens!Picked(s.with, q.val)
<1>1. /\ q.stage = "running" /\ s.op = "pick" /\ UNCHANGED <<cache, card, output>>
  BY DEF Pick, At
<1>s. Sound(q, Holds(r)) /\ q.start \in Nat /\ DOMAIN q = Fields
  BY RequestFields DEF IInv
<1>2. Becomes(r, [q EXCEPT !.val = w])
  <2>1. [q EXCEPT !.val = Tokens!Picked(s.with, @)] = [q EXCEPT !.val = w]
    BY <1>s DEF Fields
  <2> QED BY <2>1 DEF Pick
<1>3. s.op \in ValueOps
  BY <1>1 DEF ValueOps
<1> HIDE DEF s, q
<1>4. Gets(q, w)
  <2> SUFFICES ASSUME NEW p, NEW h, Promise(q, p), Has(q, p[1], h)
               PROVE  HasType(w, p[2].kind, p[2].grant)
    BY DEF Gets
  <2>1. p[1].kind = "answer" /\ p[2].kind = "jwt" /\ p[2].grant = <<s.with, p[1].grant>>
    BY <1>1, <1>s, FirstValue DEF s
  <2>2. q.val \in AnswerType(p[1].grant)
    BY <2>1 DEF Has, HasType
  <2> DEFINE a == q.val
             g == p[1].grant
  <2>3. a.grant = g /\ a.id \in Option(Nat) /\ a.access \in Nat
    BY <2>2 DEF AnswerType
  <2> HIDE DEF a, g
  <2>4. w \in Tokens!Contents({w.grant}) /\ w.grant = <<s.with, g>> /\ w.kind = "jwt"
    BY <2>3 DEF Tokens!Picked, Tokens!Contents, Option, a
  <2> HIDE DEF w
  <2> QED BY <2>1, <2>4 DEF HasType, TokenKinds, g
<1> HIDE DEF w
<1> QED BY <1>1, <1>2, <1>3, <1>4, ValueKeeps DEF q, s

\* When the token of a cloud expires.
LEMMA LifeIs ==
  ASSUME NEW now \in Nat
  PROVE  now + CloudLife \in Nat
BY TimeAssumption

\* ... and the token of a cloud.
LEMMA ExchangeTokenKeeps ==
  ASSUME IInv, NEW r \in Req, ExchangeToken(r)
  PROVE  IInv'
<1> DEFINE q == request[r]
           s == Head(q.todo)
           kinds == IF s.kind = "account" THEN {"account", "account of another vendor"} ELSE {s.kind}
           out(kind) == [grant |-> Append(s.grant, q.val.grant), kind |-> kind,
                         exp |-> clock + CloudLife]
<1>1. /\ q.stage = "running" /\ s.op = "exchange" /\ UNCHANGED <<cache, card, output>>
  BY DEF ExchangeToken, At
<1>s. Sound(q, Holds(r)) /\ clock \in Nat /\ DOMAIN q = Fields
  BY RequestFields DEF IInv
<1>2. PICK kind \in kinds : Becomes(r, [q EXCEPT !.val = out(kind)])
  <2>1. PICK kind \in kinds :
          Becomes(r, [q EXCEPT !.val =
            [grant |-> Append(s.grant, @.grant), kind |-> kind, exp |-> clock + CloudLife]])
    BY DEF ExchangeToken
  <2>2. [q EXCEPT !.val =
            [grant |-> Append(s.grant, @.grant), kind |-> kind, exp |-> clock + CloudLife]]
          = [q EXCEPT !.val = out(kind)]
    BY <1>s DEF Fields
  <2> QED BY <2>1, <2>2
<1> DEFINE w == out(kind)
<1>3. s.op \in ValueOps
  BY <1>1 DEF ValueOps
<1>w. w.grant = Append(s.grant, q.val.grant) /\ w.kind = kind /\ w.exp = clock + CloudLife
      /\ w = [grant |-> w.grant, kind |-> kind, exp |-> w.exp]
  OBVIOUS
<1>5. Becomes(r, [q EXCEPT !.val = w])
  BY <1>2
<1>t. clock + CloudLife \in Nat
  BY <1>s, LifeIs
<1> HIDE DEF s, q, w
<1>4. Gets(q, w)
  <2> SUFFICES ASSUME NEW p, NEW h, Promise(q, p), Has(q, p[1], h)
               PROVE  HasType(w, p[2].kind, p[2].grant)
    BY DEF Gets
  <2>1. /\ p[1].kind = "jwt" /\ s.kind \in CloudKinds /\ p[2].kind = s.kind
        /\ p[2].grant = Append(s.grant, p[1].grant)
    BY <1>1, <1>s, FirstValue DEF s
  <2>2. KeysTellGrants => q.val.grant = p[1].grant
    BY <2>1 DEF Has, HasType, TokenKinds
  <2>3. KeysTellGrants => w.grant = p[2].grant
    BY <2>1, <2>2, <1>w
  <2>4. kind \in {"alibaba", "aws", "account", "account of another vendor"}
        /\ s.kind # "jwt" /\ s.kind # "oidc" /\ s.kind # "answer" /\ s.kind \in TokenKinds
    BY <2>1 DEF CloudKinds, TokenKinds
  <2>5. w.exp \in Nat
    BY <1>t, <1>w
  <2> DEFINE g == w.grant
             e == w.exp
  <2>6. w = [grant |-> g, kind |-> kind, exp |-> e]
    BY <1>w
  <2>7. w \in Tokens!Contents({g})
    <3> HIDE DEF g, e
    <3>1. e \in Nat
      BY <2>5 DEF e
    <3> QED BY <2>4, <2>6, <3>1 DEF Tokens!Contents
  <2>8. w.kind # "jwt" /\ w.kind # "oidc"
    BY <1>w, <2>4
  <2> QED BY <2>1, <2>3, <2>4, <2>7, <2>8 DEF HasType
<1> QED BY <1>1, <1>5, <1>3, <1>4, ValueKeeps DEF q, s

-----------------------------------------------------------------------------
(* A request is made once more.                                            *)

\* The step of a second try.
Again(x) == [x EXCEPT !.again = FALSE]

\* A second try is the same step.
LEMMA AgainFlow ==
  ASSUME NEW x, x.op = "token", NEW t, NEW u, Flow(x, t, u)
  PROVE  Flow(Again(x), t, u) /\ Again(x).op = "token"
<1> DEFINE y == Again(x)
           op == x.op
<1>1. op = "token" /\ op \in AnswerOps /\ op \in AnswerOps \cup {"exchange"}
  BY DEF AnswerOps
<1>2. "op" \in DOMAIN x /\ ("grant" \in DOMAIN x <=> op \in AnswerOps \cup {"exchange"})
  BY Zenon DEF Flow, FlowValue, op
<1>3. "grant" \in DOMAIN x
  BY <1>1, <1>2
<1>4. DOMAIN y = DOMAIN x /\ y.op = op /\ y.grant = x.grant
  BY <1>2, <1>3 DEF Again
<1> HIDE DEF y, op
<1>5. /\ op # "pick" /\ op # "keep" /\ op # "exchange" /\ op \notin UseOps
      /\ op \notin {"cache", "store"} /\ op # "cache" /\ op # "store"
      /\ op # "open card" /\ op # "close"
  BY <1>1 DEF UseOps
<1>6. FlowCard(y, t, u)
  BY <1>4, <1>5, Zenon DEF Flow, FlowCard, op
<1>7. FlowValue(y, t, u)
  <2>1. FlowValue(x, t, u)
    BY DEF Flow
  <2>2. t.stage = 0 /\ u.stage = 1 /\ u.kind = "answer" /\ u.grant = x.grant
    BY <1>1, <2>1, Zenon DEF FlowValue, op
  <2>3. "op" \in DOMAIN y /\ "grant" \in DOMAIN y
    BY <1>2, <1>3, <1>4
  <2>4. op \in AnswerOps \cup {"pick", "keep", "exchange", "refuse"}
    BY <1>1
  <2> QED BY <1>1, <1>4, <1>5, <2>2, <2>3, <2>4, Zenon DEF FlowValue
<1>8. FlowOpen(y, t, u)
  BY <1>4, <1>5, Zenon DEF Flow, FlowOpen, op
<1>9. FlowPhase(y, t, u)
  BY <1>4, <1>5, Zenon DEF Flow, FlowPhase, op
<1>a. FlowStage(y, t, u)
  BY <1>4, <1>5, Zenon DEF Flow, FlowStage, op
<1> QED BY <1>1, <1>4, <1>6, <1>7, <1>8, <1>9, <1>a DEF Flow, y

\* So the way is the same.
LEMMA PathAgain ==
  ASSUME NEW s, NEW p, Path(s, p), 1 \in 1..Len(s), s[1].op = "token"
  PROVE  LET z == [s EXCEPT ![1] = Again(s[1])]
         IN /\ Path(z, p) /\ Len(z) = Len(s) /\ CachesOf(z) \subseteq CachesOf(s)
            /\ IsSeq(z) /\ \A i \in 1..Len(s) : i # 1 => z[i] = s[i]
            /\ z[1] = Again(s[1])
<1> DEFINE y == Again(s[1])
           z == [s EXCEPT ![1] = y]
           n == Len(s)
<1>0. IsSeq(s) /\ n \in Nat
  BY PathLen
<1>1. PICK S : s \in Seq(S)
  BY <1>0 DEF IsSeq
<1>2. IsSeq(z) /\ Len(z) = n /\ z[1] = y /\ \A i \in 1..n : i # 1 => z[i] = s[i]
  <2> HIDE DEF y
  <2>1. s \in Seq(S \cup {y})
    BY <1>1
  <2>2. z \in Seq(S \cup {y}) /\ Len(z) = n /\ z[1] = y
    BY <2>1
  <2>3. \A i \in 1..n : i # 1 => z[i] = s[i]
    BY <1>1
  <2> QED BY <2>2, <2>3 DEF IsSeq
<1> HIDE DEF z, n
<1>3. Flow(s[1], p[1], p[1 + 1])
  BY DEF Path
<1>4. Flow(y, p[1], p[1 + 1]) /\ y.op = "token"
  BY <1>3, AgainFlow
<1> HIDE DEF y
<1>5. ASSUME NEW i \in 1..n PROVE Flow(z[i], p[i], p[i + 1])
  <2>1. CASE i = 1
    BY <1>2, <1>4, <2>1
  <2>2. CASE i # 1
    BY <1>2, <2>2 DEF Path, n
  <2> QED BY <2>1, <2>2
<1>6. Path(z, p)
  BY <1>2, <1>5 DEF Path
<1>7. CachesOf(z) \subseteq CachesOf(s)
  <2> SUFFICES ASSUME NEW j \in 1..n, z[j].op = "cache"
               PROVE  z[j] \in CachesOf(s)
    BY <1>2, Zenon DEF CachesOf
  <2>1. j # 1
    BY <1>2, <1>4
  <2>2. z[j] = s[j]
    BY <1>2, <2>1
  <2> QED BY <2>2, Zenon DEF CachesOf, n
<1> QED BY <1>2, <1>6, <1>7, Zenon DEF z, n, y

\* A server error that is tried again keeps the invariant.
LEMMA ServerErrorKeeps ==
  ASSUME IInv, NEW r \in Req, ServerError(r)
  PROVE  IInv'
<1> DEFINE q == request[r]
           h == Holds(r)
           k == Holds(r)'
           s == q.todo
           z == [s EXCEPT ![1] = Again(s[1])]
           v == [q EXCEPT !.todo = z]
<1>1. /\ q.stage = "running" /\ Head(s).op = "token"
      /\ UNCHANGED <<clock, config, cache, card, output>>
  BY DEF ServerError, At
<1>2. Sound(q, h)
  BY DEF IInv
<1>3. /\ DOMAIN q = Fields /\ IsRequest(q) /\ Head(s) = s[1]
      /\ 1 \in 1..Len(s) /\ IsSeq(s) /\ Len(s) \in Nat
  BY <1>1, <1>2, AtStart
<1>4. request' = [request EXCEPT ![r] = v]
  <2>1. request' = [request EXCEPT ![r].todo[1].again = FALSE]
    BY DEF ServerError
  <2>2. [request EXCEPT ![r].todo[1].again = FALSE] = [request EXCEPT ![r] = v]
    BY <1>3 DEF Again, Fields, IInv
  <2> QED BY <2>1, <2>2
<1>5. PICK p : Promise(q, p) /\ Has(q, p[1], h)
  BY <1>1, <1>2, AtStart
<1>6. Path(s, p) /\ CachesOf(s) \subseteq Frames
  BY <1>5 DEF Promise
<1>k. k <=> h
  BY <1>1 DEF Holds
<1> HIDE DEF h, k, s, q
<1>7. Path(z, p) /\ Len(z) = Len(s) /\ CachesOf(z) \subseteq CachesOf(s) /\ IsSeq(z)
  BY <1>1, <1>3, <1>6, PathAgain
<1> HIDE DEF z
<1>8. /\ DOMAIN v = Fields /\ v.stage = q.stage /\ v.ask = q.ask /\ v.todo = z
      /\ v.wanted = q.wanted /\ v.val = q.val /\ v.read = q.read /\ v.start = q.start
  BY <1>3 DEF Fields
<1> HIDE DEF v
<1>9. z # <<>>
  <2>1. Len(z) # 0
    BY <1>3, <1>7
  <2> QED BY <1>7, <2>1, NoElements
<1>a. Promise(v, p)
  BY <1>5, <1>6, <1>7, <1>8 DEF Promise, s
<1>b. Has(v, p[1], k)
  BY <1>5, <1>8, <1>k DEF Has
<1>c. IsRequest(v)
  BY <1>3, <1>8 DEF IsRequest
<1>d. Sound(v, k)
  BY <1>1, <1>8, <1>9, <1>a, <1>b, <1>c DEF Sound
<1>e. CacheOK'
  BY <1>1, CacheStill DEF IInv
<1>f. output'.state \in {"old", "empty", "whole", "mixed"}
  BY <1>1 DEF IInv
<1> QED BY <1>1, <1>4, <1>d, <1>e, <1>f, OneSteps DEF k

-----------------------------------------------------------------------------
(* A cache gives its token, and the request goes on behind the store.      *)

\* An open cache that is closed at the end has its store ahead.
LEMMA StoreAhead ==
  ASSUME NEW s, NEW p, Path(s, p), NEW c \in Category, NEW a \in 1..(Len(s) + 1),
         NEW f, IsOpen(p[a], c, f), p[Len(s) + 1].open[c] = {}
  PROVE  \E i \in 1..Len(s) : a <= i /\ IsStore(s[i], c)
<1> SUFFICES ASSUME \A i \in 1..Len(s) : ~(a <= i /\ IsStore(s[i], c))
             PROVE  FALSE
  OBVIOUS
<1> DEFINE n == Len(s)
           b == n + 1
<1>1. n \in Nat
  BY PathLen
<1>2. b \in 1..(Len(s) + 1) /\ b \in a..b
  BY <1>1
<1>3. Unstored(s, c, a, b)
  BY DEF Unstored
<1> HIDE DEF b
<1>4. \A i \in a..b : IsOpen(p[i], c, f)
  BY <1>2, <1>3, OpenStays
<1>5. p[b].open[c] = {f}
  BY <1>2, <1>4 DEF IsOpen
<1> QED BY <1>5 DEF b

\* The store the model looks up.
LEMMA FirstStore ==
  ASSUME NEW q, NEW c, IsSeq(q.todo), NEW i \in 1..Len(q.todo), IsStore(q.todo[i], c)
  PROVE  IndexOfStore(q, c) \in 1..Len(q.todo) /\ IsStore(q.todo[IndexOfStore(q, c)], c)
<1> DEFINE I == {j \in 1..Len(q.todo) : q.todo[j].op = "store" /\ q.todo[j].category = c}
<1>0. Len(q.todo) \in Nat
  BY SeqIndices, Zenon
<1>1. SelectInSeq(q.todo, LAMBDA s : s.op = "store" /\ s.category = c)
        = IF I # {} THEN Min(I) ELSE 0
  BY Zenon DEF SelectInSeq
<1>2. i \in I /\ I \subseteq Nat
  BY <1>0 DEF IsStore
<1>3. IndexOfStore(q, c) = SelectInSeq(q.todo, LAMBDA s : s.op = "store" /\ s.category = c)
  BY Zenon DEF IndexOfStore
<1>4. Min(I) \in I
  <2> HIDE DEF I
  <2> QED BY <1>2, LeastExists
<1> HIDE DEF I
<1>5. IndexOfStore(q, c) = Min(I)
  BY <1>1, <1>2, <1>3, Zenon
<1>6. Min(I) \in 1..Len(q.todo) /\ IsStore(q.todo[Min(I)], c)
  BY <1>4 DEF IsStore, I
<1> QED BY <1>5, <1>6

\* What has been stored in on the way to i.
Passed(s, i) == {s[j].category : j \in {j \in 1..i : s[j].op = "store"}}

\* The categories whose stores are passed over.
LEMMA PassedIs ==
  ASSUME NEW s, NEW i, NEW d
  PROVE  d \in Passed(s, i) <=> \E j \in 1..i : IsStore(s[j], d)
BY DEF Passed, IsStore

\* A request that is given the token of a cache and goes on behind its store is
\* sound (utils/storage.go:165-182).
LEMMA GivenIs ==
  ASSUME NEW q, NEW h, Sound(q, h), q.stage = "running", NEW p, Promise(q, p),
         NEW c \in Category, NEW f \in Frames, NEW a \in 1..Len(q.todo),
         NEW i \in 1..Len(q.todo), a <= i, IsStore(q.todo[i], c), IsOpen(p[a], c, f),
         \A j \in 1..i : q.todo[j].op = "store" => a <= j,
         \A d \in Category : d # c => ReadsCache(q.read, p[a].open, d),
         NEW token, IsFetched(token, f), NEW holds, ~holds
  PROVE  Sound(Given(q, i, token), holds)
<1> DEFINE s == q.todo
           n == Len(s)
           passed == Passed(s, i)
           read == [d \in Category |-> IF d \in passed THEN Nil ELSE q.read[d]]
           v == [q EXCEPT !.val = token, !.read = read]
           u == p[i + 1]
<1>1. DOMAIN q = Fields /\ IsRequest(q) /\ n \in Nat
  BY AtStart
<1>2. Path(s, p)
  BY DEF Promise
<1>4. /\ DOMAIN v = Fields /\ v.stage = q.stage /\ v.ask = q.ask /\ v.todo = s
      /\ v.wanted = q.wanted /\ v.val = token /\ v.read = read /\ v.start = q.start
  BY <1>1 DEF Fields
<1>5. Given(q, i, token) = Left(v, From1(s, i))
  BY <1>1 DEF Given, From1, Passed, Fields
<1>s. IsStore(s[i], c) /\ i \in 1..n /\ a \in 1..n
      /\ (\A j \in 1..i : s[j].op = "store" => a <= j)
      /\ (\A d \in Category : d # c => ReadsCache(q.read, p[a].open, d))
  OBVIOUS
<1> HIDE DEF v, passed, u, s, n
<1>o. IsOpen(p[a], c, f) /\ a <= i
  OBVIOUS
<1>3. /\ <<u.kind, u.grant>> = Fetched(f)
      /\ \A d \in Category :
           IF \E k \in 1..n : a <= k /\ k <= i /\ IsStore(s[k], d)
           THEN u.open[d] = {}
           ELSE u.open[d] = p[a].open[d]
  <2>1. i \in 1..Len(s) /\ a \in 1..Len(s)
    BY <1>s DEF n
  <2>2. StoredAt(s, p, f, a, i)
    BY <1>2, <1>s, <1>o, <2>1, AtStore
  <2> QED BY <2>2 DEF StoredAt, u, n
<1>6. HasType(token, u.kind, u.grant)
  BY <1>3 DEF IsFetched
<1>7. Reads(read, u.open)
  <2> SUFFICES ASSUME NEW d \in Category PROVE ReadsCache(read, u.open, d)
    BY DEF Reads
  <2>1. CASE d \in passed
    <3>1. PICK j \in 1..i : IsStore(s[j], d)
      BY <2>1, PassedIs DEF passed
    <3>2. a <= j
      BY <1>s, <3>1 DEF IsStore
    <3>3. j \in 1..n /\ j <= i
      BY <1>1, <1>s
    <3>4. u.open[d] = {}
      BY <1>3, <3>1, <3>2, <3>3
    <3>5. read[d] = Nil
      BY <2>1
    <3> QED BY <3>4, <3>5 DEF ReadsCache
  <2>2. CASE d \notin passed
    <3>1. \A j \in 1..i : ~IsStore(s[j], d)
      BY <2>2, PassedIs DEF passed
    <3>2. ASSUME NEW k \in 1..n, a <= k, k <= i PROVE ~IsStore(s[k], d)
      <4>1. k \in 1..i
        BY <1>1, <1>s, <3>2
      <4> QED BY <3>1, <4>1
    <3>3. u.open[d] = p[a].open[d]
      BY <1>3, <3>2
    <3>4. d # c
      <4>1. i \in 1..i
        BY <1>1, <1>s
      <4> QED BY <1>s, <3>1, <4>1
    <3>5. ReadsCache(q.read, p[a].open, d)
      BY <1>s, <3>4
    <3>6. read[d] = q.read[d]
      BY <2>2
    <3> HIDE DEF read
    <3> QED BY <3>3, <3>5, <3>6 DEF ReadsCache
  <2> QED BY <2>1, <2>2
<1> HIDE DEF read
<1>8. Has(v, u, holds)
  BY <1>4, <1>6, <1>7 DEF Has
<1>9. IsRequest(v)
  BY <1>1, <1>4 DEF IsRequest
<1>a. Promise(v, p)
  BY <1>4 DEF Promise, s
<1>b. Sound(Left(v, From1(v.todo, i)), holds)
  BY <1>4, <1>8, <1>9, <1>a, <1>s, Arrive DEF u, n
<1> QED BY <1>4, <1>5, <1>b

\* A failure keeps the invariant, whether a cache answers for it or the
\* request fails.
LEMMA UnwindKeeps ==
  ASSUME IInv, NEW r \in Req, request[r].stage = "running", NEW denied, Unwind(r, denied)
  PROVE  IInv'
<1> DEFINE q == request[r]
           h == Holds(r)
           k == Holds(r)'
           caches == {i \in DOMAIN q.todo : q.todo[i].op = "store" /\ q.read[q.todo[i].category] # Nil}
           asked == IF denied /\ caches # {} THEN caches \ {Min(caches)} ELSE caches
           usable == {i \in asked : Usable(q, q.todo[i].category)}
           m == Min(usable)
           token == q.read[q.todo[m].category].token
           v == IF usable = {} THEN Ending(q) ELSE Given(q, m, token)
<1>1. /\ request' = [request EXCEPT ![r] = v] /\ card' = Closed(r, q)
      /\ UNCHANGED <<clock, config, cache, output>>
  BY DEF Unwind, Ending
<1>2. Sound(q, h) /\ q.stage = "running"
  BY DEF IInv
<1>3. ~k /\ (card' = card \/ card' = Nil)
  BY <1>1, LetsGo
<1>4. IsRequest(q) /\ IsSeq(q.todo) /\ Len(q.todo) \in Nat
  BY <1>2, AtStart
<1> HIDE DEF h, k, q
<1>5. PICK p : Promise(q, p) /\ Has(q, p[1], h)
  BY <1>2, AtStart
<1>6. DOMAIN q.todo = 1..Len(q.todo)
  BY <1>4, SeqIndices
<1>7. Sound(v, k)
  <2>1. CASE usable = {}
    <3>1. v = Ending(q)
      BY <2>1
    <3> HIDE DEF v, usable, asked, caches
    <3> QED BY <1>3, <1>4, <3>1, EndingIs
  <2>2. CASE usable # {}
    <3>1. usable \subseteq caches
      <4> HIDE DEF caches
      <4> QED OBVIOUS
    <3>2. caches \subseteq Nat
      BY <1>4, <1>6
    <3>v. v = Given(q, m, token)
      BY <2>2
    <3>u. \A i \in usable : Usable(q, q.todo[i].category)
      OBVIOUS
    <3> HIDE DEF v, usable, asked
    <3>3. m \in usable
      <4> HIDE DEF caches
      <4> QED BY <2>2, <3>1, <3>2, LeastExists
    <3> DEFINE c == q.todo[m].category
    <3>4. m \in 1..Len(q.todo) /\ q.todo[m].op = "store" /\ q.read[c] # Nil
      BY <1>6, <3>1, <3>3
    <3>5. Usable(q, c)
      BY <3>3, <3>u
    <3> HIDE DEF m, caches
    <3>6. c \in Category
      <4>1. FlowOpen(q.todo[m], p[m], p[m + 1])
        BY <1>5, <3>4, PathStep DEF Promise
      <4> QED BY <3>4, <4>1 DEF FlowOpen
    <3>7. ReadsCache(q.read, p[1].open, c) /\ \A d \in Category : ReadsCache(q.read, p[1].open, d)
      BY <1>5, <3>6 DEF Has, Reads
    <3> HIDE DEF c
    <3>8. PICK f \in Frames : f.category = c /\ p[1].open[c] = {f} /\ IsKept(q.read[c], f)
      BY <3>4, <3>7 DEF ReadsCache
    <3>9. token = q.read[c].token /\ token # Nil
      BY <3>5 DEF Usable, c
    <3> HIDE DEF token
    <3>a. IsFetched(token, f)
      BY <3>8, <3>9 DEF IsKept
    <3>b. IsStore(q.todo[m], c) /\ IsOpen(p[1], c, f)
      BY <3>4, <3>8 DEF IsStore, IsOpen, c
    <3>c. 1 \in 1..Len(q.todo) /\ 1 <= m /\ \A j \in 1..m : q.todo[j].op = "store" => 1 <= j
      BY <1>4, <3>4
    <3>d. Sound(Given(q, m, token), k)
      BY <1>2, <1>3, <1>5, <3>4, <3>6, <3>7, <3>a, <3>b, <3>c, GivenIs
    <3> QED BY <3>d, <3>v
  <2> QED BY <2>1, <2>2
<1>8. CacheOK'
  BY <1>1, CacheStill DEF IInv
<1>9. output'.state \in {"old", "empty", "whole", "mixed"}
  BY <1>1 DEF IInv
<1> HIDE DEF v
<1> QED BY <1>1, <1>3, <1>7, <1>8, <1>9, OneSteps DEF k, q

\* So do errors and denials.
LEMMA FailKeeps ==
  ASSUME IInv, NEW r \in Req, Fail(r) \/ Deny(r)
  PROVE  IInv'
<1>1. request[r].stage = "running"
  BY DEF Fail, Deny, At
<1>2. Unwind(r, FALSE) \/ Unwind(r, TRUE)
  BY DEF Fail, Deny
<1> QED BY <1>1, <1>2, UnwindKeeps

-----------------------------------------------------------------------------
(* The files.                                                              *)

\* The steps of a cache change nothing but what is open.
LEMMA CacheFlow ==
  ASSUME NEW x, NEW t, NEW u, Flow(x, t, u), x.op \in {"cache", "store"}
  PROVE  /\ x.category \in Category
         /\ \A d \in Category : d # x.category => u.open[d] = t.open[d]
         /\ x.op = "cache" => IsOpen(u, x.category, x)
         /\ x.op = "store" => u.open[x.category] = {}
         /\ x.op = "store" => \E f : IsOpen(t, x.category, f) /\ <<t.kind, t.grant>> = Fetched(f)
         /\ u.kind = t.kind /\ u.grant = t.grant /\ u.card = t.card /\ t.card = "closed"
<1> DEFINE op == x.op
<1>1. op \in {"cache", "store"}
  OBVIOUS
<1>2. FlowOpen(x, t, u) /\ FlowValue(x, t, u) /\ FlowCard(x, t, u)
  BY DEF Flow
<1> HIDE DEF op
<1>3. /\ op \notin AnswerOps \cup {"pick", "keep", "exchange", "refuse"}
      /\ op \notin {"open card", "close"} /\ op \in {"open token", "cache", "store", "refuse"}
  BY <1>1 DEF AnswerOps
<1>4. u.kind = t.kind /\ u.grant = t.grant
  BY <1>2, <1>3, Zenon DEF FlowValue, op
<1>5. u.card = t.card /\ t.card = "closed"
  BY <1>2, <1>3, Zenon DEF FlowCard, op
<1>6. /\ x.category \in Category
      /\ \A d \in Category : d # x.category => u.open[d] = t.open[d]
  BY <1>1, <1>2 DEF FlowOpen, op
<1>7. op = "cache" => u.open[x.category] = {x}
  BY <1>2, Zenon DEF FlowOpen, op
<1>8. op = "store" => /\ u.open[x.category] = {}
                      /\ \E f : t.open[x.category] = {f} /\ <<t.kind, t.grant>> = Fetched(f)
  BY <1>2, Zenon DEF FlowOpen, op
<1> QED BY <1>4, <1>5, <1>6, <1>7, <1>8 DEF IsOpen, op

\* What is read from the file of a cache was fetched for it.
LEMMA ContentFits ==
  ASSUME IInv, NEW f \in Frames,
         LET key == KeyOf(f, Configs[config].mtime)
         IN Content(key) # Nil
  PROVE  IsFetched(Content(KeyOf(f, Configs[config].mtime)), f)
<1> DEFINE key == KeyOf(f, Configs[config].mtime)
<1>1. config \in DOMAIN Configs /\ CacheOK
  BY DEF IInv
<1>2. key \in DOMAIN cache /\ Content(key) = cache[key]
  BY DEF Content
<1>3. PICK g \in Frames, i \in DOMAIN Configs :
        key = KeyOf(g, Configs[i].mtime) /\ IsFetched(cache[key], g)
  BY <1>1, <1>2 DEF CacheOK
<1>4. KeyOf(g, Configs[i].mtime) = KeyOf(f, Configs[config].mtime)
  BY <1>3
<1> HIDE DEF key
<1>5. IsFetched(cache[key], f)
  BY <1>1, <1>3, <1>4, SameFile
<1> QED BY <1>2, <1>5 DEF key

\* A store writes what was fetched for the caches of that file.
LEMMA StoreKeeps ==
  ASSUME IInv, NEW r \in Req, Store(r)
  PROVE  IInv'
<1> DEFINE q == request[r]
           h == Holds(r)
           k == Holds(r)'
           x == Head(q.todo)
           c == x.category
           v == [q EXCEPT !.read[c] = Nil]
           key == q.read[c].key
           written == [e \in DOMAIN cache \cup {key} |-> IF e = key THEN q.val ELSE cache[e]]
<1>1. /\ q.stage = "running" /\ x.op = "store" /\ UNCHANGED <<card, output>>
      /\ Becomes(r, v) /\ cache' \in {cache, written}
  BY DEF Store, At
<1>2. Sound(q, h) /\ CacheOK
  BY DEF IInv
<1>k. k <=> h
  BY <1>1 DEF Holds
<1>3. DOMAIN q = Fields /\ IsRequest(q)
  BY <1>1, <1>2, AtStart
<1> HIDE DEF h, k, q, x, v
<1>4. PICK p : Promise(q, p) /\ Has(q, p[1], h)
  BY <1>1, <1>2, AtStart
<1> DEFINE t == p[1]
           u == p[2]
<1>5. Flow(x, t, u)
  BY <1>1, <1>2, <1>4, FirstFlow DEF x
<1>6. /\ c \in Category
      /\ \A d \in Category : d # c => u.open[d] = t.open[d]
      /\ u.open[c] = {}
      /\ \E f : IsOpen(t, c, f) /\ <<t.kind, t.grant>> = Fetched(f)
      /\ u.kind = t.kind /\ u.grant = t.grant /\ u.card = t.card /\ t.card = "closed"
  BY <1>1, <1>5, CacheFlow
<1>h. HasType(q.val, t.kind, t.grant) /\ Reads(q.read, t.open) /\ (h => t.card = "open")
  BY <1>4 DEF Has
<1> HIDE DEF c, t, u, key
<1>7. PICK f \in Frames, i \in DOMAIN Configs :
        key = KeyOf(f, Configs[i].mtime) /\ IsFetched(q.val, f)
  <2>1. PICK g : IsOpen(t, c, g) /\ <<t.kind, t.grant>> = Fetched(g)
    BY <1>6
  <2>2. ReadsCache(q.read, t.open, c)
    BY <1>6, <1>h DEF Reads
  <2>3. t.open[c] # {}
    BY <2>1 DEF IsOpen
  <2>4. PICK f \in Frames : t.open[c] = {f} /\ IsKept(q.read[c], f)
    BY <2>2, <2>3 DEF ReadsCache
  <2>5. f = g
    BY <2>1, <2>4 DEF IsOpen
  <2>6. IsFetched(q.val, f)
    BY <1>h, <2>1, <2>5 DEF IsFetched
  <2>7. PICK i \in DOMAIN Configs : key = KeyOf(f, Configs[i].mtime)
    BY <2>4 DEF IsKept, key
  <2> QED BY <2>6, <2>7
<1>8. CacheOK'
  <2>1. CASE cache' = cache
    BY <1>2, <2>1, CacheStill
  <2>2. CASE cache' = written
    <3>1. /\ DOMAIN cache' = {key} \cup DOMAIN cache
          /\ \A e \in DOMAIN cache' : cache'[e] = IF e = key THEN q.val ELSE cache[e]
      BY <2>2
    <3>2. ASSUME NEW e \in DOMAIN cache'
          PROVE  \E g \in Frames, j \in DOMAIN Configs :
                   e = KeyOf(g, Configs[j].mtime) /\ IsFetched(cache'[e], g)
      <4>1. CASE e = key
        <5>1. cache'[e] = q.val
          BY <3>1, <4>1
        <5> QED BY <1>7, <4>1, <5>1
      <4>2. CASE e # key
        <5>1. e \in DOMAIN cache /\ cache'[e] = cache[e]
          BY <3>1, <4>2
        <5> QED BY <1>2, <5>1 DEF CacheOK
      <4> QED BY <4>1, <4>2
    <3> QED BY <3>2 DEF CacheOK
  <2> QED BY <1>1, <2>1, <2>2
<1>9. /\ DOMAIN v = Fields /\ v.stage = q.stage /\ v.ask = q.ask /\ v.todo = q.todo
      /\ v.wanted = q.wanted /\ v.val = q.val /\ v.start = q.start
      /\ v.read = [q.read EXCEPT ![c] = Nil]
  BY <1>3 DEF Fields, v, c
<1>a. Has(v, u, k)
  <2>1. Reads(v.read, u.open)
    <3> DEFINE a == q.read
               b == v.read
    <3>1. DOMAIN a = Category /\ DOMAIN b = Category /\ b[c] = Nil
          /\ \A d \in Category : d # c => b[d] = a[d]
      BY <1>h, <1>6, <1>9 DEF Reads
    <3> HIDE DEF b
    <3>2. ASSUME NEW d \in Category PROVE ReadsCache(b, u.open, d)
      <4>1. CASE d = c
        BY <1>6, <3>1, <4>1 DEF ReadsCache
      <4>2. CASE d # c
        <5>1. ReadsCache(a, t.open, d)
          BY <1>h DEF Reads
        <5>2. u.open[d] = t.open[d] /\ b[d] = a[d]
          BY <1>6, <3>1, <4>2
        <5> HIDE DEF a
        <5> QED BY <5>1, <5>2 DEF ReadsCache
      <4> QED BY <4>1, <4>2
    <3> QED BY <3>1, <3>2 DEF Reads, b
  <2>2. HasType(v.val, u.kind, u.grant) /\ (k => u.card = "open")
    BY <1>6, <1>9, <1>h, <1>k
  <2> QED BY <2>1, <2>2 DEF Has
<1>b. IsRequest(v)
  BY <1>3, <1>9 DEF IsRequest
<1>c. Sound(Advance(v), k)
  BY <1>1, <1>2, <1>4, <1>9, <1>a, <1>b, Takes DEF u
<1>d. request' = [request EXCEPT ![r] = Advance(v)] /\ UNCHANGED <<clock, config>>
  BY <1>1 DEF Becomes
<1>e. output'.state \in {"old", "empty", "whole", "mixed"}
  BY <1>1 DEF IInv
<1> QED BY <1>1, <1>8, <1>c, <1>d, <1>e, OneSteps DEF k

\* A lookup keeps what it reads, and a token that is still valid answers.
LEMMA LookupKeeps ==
  ASSUME IInv, NEW r \in Req, Lookup(r)
  PROVE  IInv'
<1> DEFINE q == request[r]
           h == Holds(r)
           k == Holds(r)'
           x == Head(q.todo)
           c == x.category
           key == KeyOf(x, Configs[config].mtime)
           token == Content(key)
           kept == [key |-> key, layer |-> x.layer, token |-> token, force |-> x.force]
           v == [q EXCEPT !.read[c] = kept]
           i == IndexOfStore(q, c)
           fetches == \/ x.force \/ token = Nil
                      \/ Tokens!IsContentExpiringOrExpired(x.layer, token, FetchTokenType(q), clock)
           w == IF fetches THEN Advance(v) ELSE Given(q, i, token)
<1>1. /\ q.stage = "running" /\ x.op = "cache" /\ request' = [request EXCEPT ![r] = w]
      /\ UNCHANGED <<clock, config, cache, card, output>>
  BY DEF Lookup, At
<1>2. Sound(q, h) /\ config \in DOMAIN Configs
  BY DEF IInv
<1>k. k <=> h
  BY <1>1 DEF Holds
<1>f. ~fetches => token # Nil
  OBVIOUS
<1>w. w \in {Advance(v), Given(q, i, token)} /\ (fetches => w = Advance(v))
      /\ (~fetches => w = Given(q, i, token))
  OBVIOUS
<1> HIDE DEF h, k, q, w, fetches
<1>3. /\ DOMAIN q = Fields /\ IsRequest(q) /\ x = q.todo[1] /\ 1 \in 1..Len(q.todo)
      /\ Len(q.todo) \in Nat /\ IsSeq(q.todo)
  BY <1>1, <1>2, AtStart
<1>4. PICK p : Promise(q, p) /\ Has(q, p[1], h)
  BY <1>1, <1>2, AtStart
<1>p. Path(q.todo, p) /\ p[Len(q.todo) + 1].open = p[Len(q.todo) + 1].open
      /\ Closing(p[Len(q.todo) + 1]) /\ CachesOf(q.todo) \subseteq Frames
  BY <1>4 DEF Promise
<1>x. x \in Frames
  <2>1. x \in CachesOf(q.todo)
    BY <1>1, <1>3 DEF CachesOf
  <2> QED BY <1>p, <2>1
<1>t. token # Nil => IsFetched(token, x)
  BY <1>x, ContentFits
<1> DEFINE t == p[1]
           u == p[2]
<1>5. Flow(x, t, u)
  BY <1>1, <1>2, <1>4, FirstFlow
<1> HIDE DEF x, v, key, token
<1>6. /\ c \in Category
      /\ \A d \in Category : d # c => u.open[d] = t.open[d]
      /\ IsOpen(u, c, x)
      /\ u.kind = t.kind /\ u.grant = t.grant /\ u.card = t.card /\ t.card = "closed"
  BY <1>1, <1>5, CacheFlow
<1>h. HasType(q.val, t.kind, t.grant) /\ Reads(q.read, t.open) /\ (h => t.card = "open")
  BY <1>4 DEF Has
<1>n. ~h /\ ~k
  BY <1>6, <1>h, <1>k
<1>r. \A d \in Category : d # c => ReadsCache(q.read, u.open, d)
  <2> SUFFICES ASSUME NEW d \in Category, d # c PROVE ReadsCache(q.read, u.open, d)
    OBVIOUS
  <2>1. ReadsCache(q.read, t.open, d)
    BY <1>h DEF Reads
  <2>2. u.open[d] = t.open[d]
    BY <1>6
  <2> HIDE DEF t, u
  <2> QED BY <2>1, <2>2 DEF ReadsCache
<1>7. ASSUME fetches PROVE Sound(w, k)
  <2> HIDE DEF c, t, u
  <2>1. /\ DOMAIN v = Fields /\ v.stage = q.stage /\ v.ask = q.ask /\ v.todo = q.todo
        /\ v.wanted = q.wanted /\ v.val = q.val /\ v.start = q.start
        /\ v.read = [q.read EXCEPT ![c] = kept]
    BY <1>3 DEF Fields, v, c
  <2>k. kept.key = key /\ kept.layer = x.layer /\ kept.token = token
    OBVIOUS
  <2> HIDE DEF kept
  <2>2. IsKept(kept, x)
    BY <1>2, <1>t, <2>k DEF IsKept, key
  <2>3. Reads(v.read, u.open)
    <3> DEFINE a == q.read
               b == v.read
    <3>1. DOMAIN a = Category /\ DOMAIN b = Category /\ b[c] = kept
          /\ \A d \in Category : d # c => b[d] = a[d]
      BY <1>h, <1>6, <2>1 DEF Reads
    <3> HIDE DEF a, b
    <3>2. ASSUME NEW d \in Category PROVE ReadsCache(b, u.open, d)
      <4>1. CASE d = c
        <5>1. x \in Frames /\ x.category = c /\ u.open[c] = {x} /\ IsKept(b[c], x)
          BY <1>x, <1>6, <2>2, <3>1 DEF IsOpen, c
        <5> QED BY <4>1, <5>1 DEF ReadsCache
      <4>2. CASE d # c
        <5>1. ReadsCache(a, u.open, d)
          BY <1>r, <4>2 DEF a
        <5>2. b[d] = a[d]
          BY <3>1, <4>2
        <5> QED BY <5>1, <5>2 DEF ReadsCache
      <4> QED BY <4>1, <4>2
    <3> QED BY <3>1, <3>2 DEF Reads, b
  <2>4. Has(v, u, k)
    BY <1>6, <1>h, <1>n, <2>1, <2>3 DEF Has
  <2>5. IsRequest(v)
    BY <1>3, <2>1 DEF IsRequest
  <2>6. Sound(Advance(v), k)
    BY <1>1, <1>2, <1>4, <2>1, <2>4, <2>5, Takes DEF u
  <2> QED BY <1>w, <1>7, <2>6
<1>8. ASSUME ~fetches PROVE Sound(w, k)
  <2>1. IsFetched(token, x)
    BY <1>f, <1>t, <1>8 DEF token
  <2> DEFINE n == Len(q.todo)
             end == p[n + 1]
  <2>2. 2 \in 1..(Len(q.todo) + 1)
    BY <1>3
  <2>3. end.open[c] = {}
    BY <1>p, <1>6 DEF Closing, NoneOpen
  <2>4. PICK j \in 1..n : 2 <= j /\ IsStore(q.todo[j], c)
    <3> HIDE DEF c
    <3> QED BY <1>p, <1>6, <2>2, <2>3, StoreAhead
  <2> HIDE DEF c, end
  <2>5. i \in 1..n /\ IsStore(q.todo[i], c)
    BY <1>3, <2>4, FirstStore
  <2>6. i # 1
    <3>1. q.todo[1].op # "store"
      BY <1>1, <1>3 DEF x
    <3> HIDE DEF i
    <3> QED BY <2>5, <3>1 DEF IsStore
  <2> HIDE DEF i
  <2>7. 2 <= i /\ 2 \in 1..n
    <3> HIDE DEF n
    <3>1. n \in Nat
      BY <1>3 DEF n
    <3> QED BY <2>5, <2>6, <3>1
  <2>8. ASSUME NEW l \in 1..i, q.todo[l].op = "store" PROVE 2 <= l
    <3>1. l # 1
      BY <1>1, <1>3, <2>8 DEF x
    <3>2. i \in Nat
      BY <2>5, <1>3
    <3> QED BY <3>1, <3>2
  <2>9. IsOpen(p[2], c, x) /\ \A d \in Category : d # c => ReadsCache(q.read, p[2].open, d)
    BY <1>6, <1>r
  <2>a. Sound(Given(q, i, token), k)
    BY <1>1, <1>2, <1>4, <1>6, <1>n, <1>x, <2>1, <2>5, <2>7, <2>8, <2>9, GivenIs
  <2> QED BY <1>w, <1>8, <2>a
<1>9. Sound(w, k)
  BY <1>7, <1>8
<1>a. CacheOK'
  BY <1>1, CacheStill DEF IInv
<1>b. output'.state \in {"old", "empty", "whole", "mixed"}
  BY <1>1 DEF IInv
<1> QED BY <1>1, <1>9, <1>a, <1>b, OneSteps DEF k

-----------------------------------------------------------------------------
(* The invariant.                                                          *)

\* The invariant holds at the start.
LEMMA InitOK == Init => IInv
<1> SUFFICES ASSUME Init PROVE IInv
  OBVIOUS
<1>1. PICK asks \in Asks :
        request = [r \in Req |->
          [stage |-> "idle", ask |-> asks[r], todo |-> <<>>, wanted |-> Nil, val |-> Nil,
           read |-> NotRead, start |-> 0, values |-> {}, errors |-> {},
           environment |-> <<>>]]
  BY DEF Init
<1>2. ASSUME NEW r \in Req PROVE Sound(request[r], Holds(r))
  <2> DEFINE q == request[r]
             h == Holds(r)
  <2>1. /\ DOMAIN q = Fields /\ q.stage = "idle" /\ q.ask = asks[r] /\ q.read = NotRead
        /\ q.start = 0
    BY <1>1 DEF Fields
  <2>2. asks[r] \in Asked
    BY <1>1 DEF Asked
  <2>3. ~h
    BY DEF Init, Holds
  <2> HIDE DEF q, h
  <2>4. Sound(q, h)
    BY <2>1, <2>2, <2>3 DEF Sound, IsRequest
  <2> QED BY <2>4 DEF q, h
<1>3. clock \in 0..MaxTime /\ config \in DOMAIN Configs
  BY TimeAssumption, ConfigsAssumption DEF Init
<1>4. CacheOK
  BY DEF Init, CacheOK
<1> QED BY <1>1, <1>2, <1>3, <1>4 DEF IInv, Init, Option

\* Time and an edit of the settings keep it, as it is about all of them.
LEMMA WorldKeeps ==
  ASSUME IInv, EditConfig \/ Tick \/ UNCHANGED vars
  PROVE  IInv'
<1>1. UNCHANGED <<cache, card, output, request>>
  BY DEF EditConfig, Tick, vars
<1>2. clock' \in 0..MaxTime
  BY TimeAssumption DEF IInv, EditConfig, Tick, vars
<1>3. config' \in DOMAIN Configs
  BY ConfigsAssumption DEF IInv, EditConfig, Tick, vars
<1>4. CacheOK'
  BY <1>1, CacheStill DEF IInv
<1>5. ASSUME NEW r \in Req PROVE Sound(request'[r], Holds(r)')
  <2> DEFINE h == Holds(r)
             k == Holds(r)'
  <2>1. Sound(request[r], h)
    BY DEF IInv
  <2>2. k => h
    BY <1>1 DEF Holds
  <2> HIDE DEF h, k
  <2>3. Sound(request[r], k)
    BY <2>1, <2>2, SoundStill
  <2> QED BY <1>1, <2>3 DEF k
<1> QED BY <1>1, <1>2, <1>3, <1>4, <1>5 DEF IInv

\* Every step keeps it.
LEMMA NextKeeps ==
  ASSUME IInv, [Next]_vars
  PROVE  IInv'
<1>1. ASSUME NEW r \in Req, Ask(r) PROVE IInv'
  BY <1>1, AskKeeps
<1>2. ASSUME NEW r \in Req, FetchStep(r) PROVE IInv'
  BY <1>2, LookupKeeps, StoreKeeps, ProceedKeeps, CardKeeps, SignAssertionKeeps, StartKeeps,
     AnsweredKeeps, ServerErrorKeeps, FailKeeps, KeepKeeps, PickKeeps, ExchangeTokenKeeps
     DEF FetchStep
<1>3. ASSUME NEW r \in Req, CommandStep(r) PROVE IInv'
  BY <1>3, FormatKeeps, OutputKeeps, EnvironmentKeeps, CredentialKeeps DEF CommandStep
<1>4. ASSUME NEW r \in Req, Fail(r) \/ Panic(r) \/ Crash(r) PROVE IInv'
  BY <1>4, FailKeeps, EndKeeps
<1>5. CASE EditConfig \/ Tick \/ UNCHANGED vars
  BY <1>5, WorldKeeps
<1> QED BY <1>1, <1>2, <1>3, <1>4, <1>5 DEF Next

\* At all times every request is on its way and every cache file holds what the
\* fetches of its caches got, whatever the settings, the edits, the requests and
\* the failures are (utils/storage.go:117-186, cloud/cloud_sts.go:34-89).
THEOREM Inductive == Spec => []IInv
<1>1. Init => IInv
  BY InitOK
<1>2. IInv /\ [Next]_vars => IInv'
  BY NextKeeps
<1> QED BY <1>1, <1>2, PTL DEF Spec

\* What is in a file, by its category.
LEMMA FileIs ==
  ASSUME IInv, NEW key \in DOMAIN cache
  PROVE  /\ cache[key] \in Tokens!Contents({cache[key].grant})
         /\ cache[key].kind = "jwt" <=> key[1] = "oidc_token"
<1>1. PICK f \in Frames, i \in DOMAIN Configs :
        key = KeyOf(f, Configs[i].mtime) /\ IsFetched(cache[key], f)
  BY DEF IInv, CacheOK
<1> DEFINE v == cache[key]
           kind == Fetched(f)[1]
           grant == Fetched(f)[2]
<1>2. kind \in TokenKinds /\ (kind = "jwt" <=> f.category = "oidc_token")
  BY FramesAre, FetchedKind
<1>3. key[1] = f.category
  BY <1>1 DEF KeyOf
<1>4. HasType(v, kind, grant)
  BY <1>1 DEF IsFetched
<1> HIDE DEF v, kind, grant
<1>5. v \in Tokens!Contents({v.grant}) /\ (v.kind = "jwt" <=> kind = "jwt")
  BY <1>2, <1>4, Zenon DEF HasType
<1> QED BY <1>2, <1>3, <1>5 DEF v

\* The variables have their types, and no file of a category holds what its
\* readers do not expect (utils/storage.go:117-186, cloud/oidc/oidc_common.go:60-77).
THEOREM TypeCorrect == Spec => []TypeOK
<1>1. IInv => TypeOK
  <2> SUFFICES ASSUME IInv PROVE TypeOK
    OBVIOUS
  <2>1. clock \in 0..MaxTime /\ config \in DOMAIN Configs /\ card \in Option(Req)
        /\ output.state \in {"old", "empty", "whole", "mixed"}
    BY DEF IInv
  <2>2. ASSUME NEW key \in DOMAIN cache
        PROVE  /\ cache[key] \in Tokens!Contents({cache[key].grant})
               /\ (cache[key].kind = "jwt") = (key[1] = "oidc_token")
    BY FileIs
  <2>3. ASSUME NEW r \in Req
        PROVE  /\ request[r].stage \in {"idle", "running", "done", "failed"}
               /\ request[r].stage = "running" => request[r].todo # <<>>
               /\ request[r].stage # "running" => request[r].read = NotRead
    BY DEF IInv, Sound
  <2> QED BY <2>1, <2>2, <2>3 DEF TypeOK
<1> QED BY <1>1, Inductive, PTL

\* However the steps of a request fail, the card it opened is closed before the
\* request ends, by every signer and for all settings
\* (signer/yubikey_piv/yubikey_piv_signer.go:40-132).
THEOREM CardIsReleased == Spec => []CardReleased
<1>1. IInv => CardReleased
  <2> SUFFICES ASSUME IInv, card # Nil
               PROVE  request[card].stage = "running" /\ ToBeClosed(request[card])
    BY DEF CardReleased
  <2> DEFINE q == request[card]
             h == Holds(card)
  <2>1. card \in Req /\ h
    BY DEF IInv, Option, Holds
  <2>2. Sound(q, h)
    BY <2>1 DEF IInv
  <2> HIDE DEF q, h
  <2>3. q.stage = "running"
    BY <2>1, <2>2 DEF Sound
  <2>4. PICK p : Promise(q, p) /\ Has(q, p[1], h)
    BY <2>2, <2>3 DEF Sound
  <2>5. p[1].card = "open"
    BY <2>1, <2>4 DEF Has
  <2> QED BY <2>3, <2>4, <2>5, OpenIsClosed DEF q
<1> QED BY <1>1, Inductive, PTL

\* If no two lists of settings in use are hashed to the same digest, a request that
\* ends well has the token its settings ask for, whoever wrote the file it comes
\* from and under whichever settings: the digests have every setting that decides
\* what a token is good for (config/digest.go:13-158, utils/storage.go:117-186).
THEOREM AnsweredForItsSettings == DigestsTell => (Spec => []AnsweredForTheseSettings)
<1> SUFFICES ASSUME DigestsTell PROVE Spec => []AnsweredForTheseSettings
  OBVIOUS
<1>1. IInv => AnsweredForTheseSettings
  BY KeysTell DEF IInv, Sound, AnsweredForTheseSettings
<1> QED BY <1>1, Inductive, PTL

-----------------------------------------------------------------------------
(* The output file.                                                        *)

\* No token is Nil.
NilIsNoToken == \A g : Nil \notin Tokens!Contents({g})

\* A command that uses its token has one, and no fetch ahead.
LEMMA UserHasToken ==
  ASSUME NilIsNoToken, NEW q, NEW h, Sound(q, h), q.stage = "running",
         Head(q.todo).op \in UseOps
  PROVE  q.val # Nil /\ ~HasStore(q)
<1> DEFINE s == q.todo
           n == Len(s)
           x == Head(s)
           op == x.op
<1>1. /\ s[1] = x /\ n \in Nat /\ 1 \in 1..n /\ DOMAIN s = 1..n
  BY AtStart, SeqIndices
<1>2. PICK p : Promise(q, p) /\ Has(q, p[1], h)
  BY AtStart
<1> DEFINE t == p[1]
           u == p[2]
<1>3. Path(s, p)
  BY <1>2 DEF Promise
<1>4. op \in UseOps /\ Flow(x, t, u)
  BY <1>2, FirstFlow
<1>5. HasType(q.val, t.kind, t.grant)
  BY <1>2 DEF Has
<1> HIDE DEF x, op, t, u, s, n
<1>6. t.kind \in TokenKinds /\ u.phase = "use"
  BY <1>4, Zenon DEF Flow, FlowValue, FlowPhase, op
<1>7. q.val # Nil
  <2>1. q.val \in Tokens!Contents({q.val.grant})
    BY <1>5, <1>6 DEF HasType
  <2> QED BY <2>1 DEF NilIsNoToken
<1>8. ASSUME NEW j \in 1..n, s[j].op = "store" PROVE FALSE
  <2>1. CASE j = 1
    <3>1. op = "store"
      BY <1>1, <1>8, <2>1 DEF op
    <3> QED BY <1>4, <3>1 DEF UseOps
  <2>2. CASE j # 1
    <3>1. 2 \in 1..(n + 1) /\ j \in 2..n
      BY <1>1, <2>2
    <3>2. s[j].op \notin AnswerOps \cup {"cache", "store", "pick", "keep", "exchange"}
      BY <1>3, <1>6, <3>1, PhaseStays DEF u, n
    <3> QED BY <1>8, <3>2
  <2> QED BY <2>1, <2>2
<1> QED BY <1>1, <1>7, <1>8 DEF HasStore, s

\* Only these two steps touch the output file.
LEMMA WhoWritesOutput ==
  ASSUME [Next]_vars, output' # output
  PROVE  \E r \in Req : At(r, "open output") \/ At(r, "write output")
<1>1. ASSUME NEW r \in Req, FetchStep(r) \/ Ask(r) \/ Fail(r) \/ Panic(r) \/ Crash(r)
      PROVE  UNCHANGED output
  BY <1>1 DEF FetchStep, Ask, Lookup, Store, Proceed, OpenCard, Close, SignAssertion, Start,
     Answered, ServerError, Deny, Keep, Pick, ExchangeToken, Fail, Panic, Crash, Unwind
<1>2. ASSUME NEW r \in Req, CommandStep(r)
      PROVE  UNCHANGED output \/ At(r, "open output") \/ At(r, "write output")
  BY <1>2 DEF CommandStep, Format, OpenOutput, WriteOutput, Environment, Credential
<1>3. CASE EditConfig \/ Tick \/ UNCHANGED vars
  BY <1>3 DEF EditConfig, Tick, vars
<1> QED BY <1>1, <1>2, <1>3 DEF Next

\* Only a command that has its token, and nothing more to fetch, touches its
\* output file: one that fails leaves the last good credentials
\* (fetch_token/command.go:87-171).
THEOREM OutputIsKept == NilIsNoToken => (Spec => OutputKept)
<1> SUFFICES ASSUME NilIsNoToken PROVE Spec => OutputKept
  OBVIOUS
<1> DEFINE Touched == output' # output =>
             \E r \in Req :
               /\ At(r, "open output") \/ At(r, "write output")
               /\ request[r].val # Nil /\ ~HasStore(request[r])
<1>1. IInv /\ [Next]_vars => [Touched]_vars
  <2> SUFFICES ASSUME IInv, [Next]_vars, output' # output
               PROVE  \E r \in Req :
                        /\ At(r, "open output") \/ At(r, "write output")
                        /\ request[r].val # Nil /\ ~HasStore(request[r])
    OBVIOUS
  <2>1. PICK r \in Req : At(r, "open output") \/ At(r, "write output")
    BY WhoWritesOutput
  <2> DEFINE q == request[r]
             h == Holds(r)
             op == Head(q.todo).op
  <2>2. Sound(q, h) /\ q.stage = "running" /\ op \in {"open output", "write output"}
    BY <2>1 DEF IInv, At
  <2> HIDE DEF q, h, op
  <2>3. op \in UseOps
    BY <2>2 DEF UseOps
  <2>4. q.val # Nil /\ ~HasStore(q)
    BY <2>2, <2>3, UserHasToken DEF op
  <2> QED BY <2>1, <2>4 DEF q
<1> QED BY <1>1, Inductive, PTL DEF Spec, OutputKept

-----------------------------------------------------------------------------
(* What is taken from a file.                                              *)

\* A step that succeeds leaves the others for later.
LEMMA Advances ==
  ASSUME IInv, NEW r \in Req,
         \/ Proceed(r) \/ OpenCard(r) \/ Close(r) \/ SignAssertion(r) \/ Start(r)
         \/ Answered(r) \/ Keep(r) \/ Pick(r) \/ ExchangeToken(r) \/ CommandStep(r)
  PROVE  \E v : DOMAIN v = Fields /\ v.todo = request[r].todo /\ Becomes(r, v)
<1> DEFINE q == request[r]
<1>1. DOMAIN q = Fields
  BY RequestFields
<1>2. CASE Proceed(r) \/ OpenCard(r) \/ Close(r) \/ SignAssertion(r)
  BY <1>1, <1>2 DEF Proceed, OpenCard, Close, SignAssertion
<1> DEFINE Changes(f) == \E w : Becomes(r, [q EXCEPT ![f] = w])
<1>3. ASSUME NEW f, f # "todo", Changes(f)
      PROVE  \E v : DOMAIN v = Fields /\ v.todo = q.todo /\ Becomes(r, v)
  <2>1. PICK w : Becomes(r, [q EXCEPT ![f] = w])
    BY <1>3
  <2> DEFINE v == [q EXCEPT ![f] = w]
  <2> HIDE DEF q
  <2>2. DOMAIN v = Fields /\ v.todo = q.todo
    BY <1>1, <1>3 DEF Fields
  <2> HIDE DEF v
  <2>3. Becomes(r, v)
    BY <2>1 DEF v
  <2> QED BY <2>2, <2>3
<1>4. CASE Start(r)
  <2>1. Changes("start")
    BY <1>4 DEF Start
  <2> QED BY <2>1, <1>3
<1>5. CASE Answered(r)
  <2>1. Changes("val")
    BY <1>5, Zenon DEF Answered
  <2> QED BY <2>1, <1>3
<1>6. CASE Keep(r)
  <2>1. Becomes(r, [q EXCEPT !.val = Tokens!FromTokenResponse(q.start, q.val)])
    BY <1>1, <1>6 DEF Keep, Fields
  <2> QED BY <2>1, <1>3, Zenon
<1>7. CASE Pick(r)
  <2>1. Becomes(r, [q EXCEPT !.val = Tokens!Picked(Head(q.todo).with, q.val)])
    BY <1>1, <1>7 DEF Pick, Fields
  <2> QED BY <2>1, <1>3, Zenon
<1>8. CASE ExchangeToken(r)
  <2>1. PICK kind :
          Becomes(r, [q EXCEPT !.val =
            [grant |-> Append(Head(q.todo).grant, @.grant), kind |-> kind,
             exp |-> clock + CloudLife]])
    BY <1>8 DEF ExchangeToken
  <2>2. Becomes(r, [q EXCEPT !.val =
            [grant |-> Append(Head(q.todo).grant, q.val.grant), kind |-> kind,
             exp |-> clock + CloudLife]])
    BY <2>1, <1>1 DEF Fields
  <2> QED BY <2>2, <1>3, Zenon
<1>9. CASE Format(r) \/ OpenOutput(r) \/ WriteOutput(r)
  BY <1>1, <1>9 DEF Format, OpenOutput, WriteOutput
<1>a. CASE Environment(r)
  <2>1. Changes("environment")
    BY <1>a DEF Environment
  <2> QED BY <2>1, <1>3
<1>b. CASE Credential(r)
  <2> DEFINE id == Head(q.todo).with
  <2>1. \/ Becomes(r, [q EXCEPT !.values = q.values \cup {id}])
        \/ Becomes(r, [q EXCEPT !.errors = q.errors \cup {id}])
    BY <1>1, <1>b DEF Credential, Fields
  <2>2. Changes("values") \/ Changes("errors")
    BY <2>1, Zenon
  <2> QED BY <2>2, <1>3
<1> QED BY <1>2, <1>4, <1>5, <1>6, <1>7, <1>8, <1>9, <1>a, <1>b DEF CommandStep

\* The others do not move.
LEMMA OneMoves ==
  ASSUME IInv, NEW r \in Req,
         Ask(r) \/ FetchStep(r) \/ CommandStep(r) \/ Fail(r) \/ Panic(r) \/ Crash(r)
  PROVE  \A o \in Req : o # r => request'[o] = request[o]
<1>1. DOMAIN request = Req
  BY DEF IInv
<1>2. \E w : request' = [request EXCEPT ![r] = w]
  <2>1. ASSUME NEW v, Becomes(r, v) PROVE \E w : request' = [request EXCEPT ![r] = w]
    BY <2>1 DEF Becomes
  <2>2. CASE \/ Proceed(r) \/ OpenCard(r) \/ Close(r) \/ SignAssertion(r) \/ Start(r)
             \/ Answered(r) \/ Keep(r) \/ Pick(r) \/ ExchangeToken(r) \/ CommandStep(r)
    BY <2>1, <2>2, Advances
  <2>3. CASE Store(r)
    BY <2>1, <2>3 DEF Store
  <2>4. CASE ServerError(r)
    <3>1. request' = [request EXCEPT ![r] = [@ EXCEPT !.todo[1].again = FALSE]]
      BY <2>4, <1>1 DEF ServerError
    <3> QED BY <3>1, <1>1
  <2>5. CASE Lookup(r) \/ Fail(r) \/ Deny(r)
    BY <2>5 DEF Lookup, Fail, Deny, Unwind
  <2>6. CASE Ask(r) \/ Panic(r) \/ Crash(r)
    BY <2>6, <1>1 DEF Ask, Panic, Crash
  <2> QED BY <2>2, <2>3, <2>4, <2>5, <2>6 DEF FetchStep
<1> QED BY <1>1, <1>2

\* So a store that is not the next step is still to come.
LEMMA StoreToCome ==
  ASSUME IInv, NEW r \in Req, request[r].stage = "running", HasStore(request[r]),
         Head(request[r].todo).op # "store",
         NEW v, DOMAIN v = Fields, v.todo = request[r].todo, Becomes(r, v)
  PROVE  HasStore(request'[r])
<1> DEFINE q == request[r]
           h == Holds(r)
           s == q.todo
           n == Len(s)
           z == Tail(s)
<1>1. Sound(q, h) /\ request'[r] = Left(v, z)
  BY DEF IInv, Becomes, Advance
<1> HIDE DEF h
<1>2. /\ z = From1(s, 1) /\ Head(s) = s[1] /\ 1 \in 1..n /\ n \in Nat /\ IsSeq(s)
      /\ DOMAIN s = 1..n
  BY <1>1, AtStart, SeqIndices
<1>3. /\ IsSeq(z) /\ Len(z) = n - 1 /\ \A i \in 1..(n - 1) : z[i] = s[i + 1]
  <2>1. 1 \in 0..n
    BY <1>2
  <2> HIDE DEF z, s
  <2> QED BY <1>2, <2>1, Rest
<1>4. PICK j \in 1..n : s[j].op = "store"
  BY <1>2 DEF HasStore
<1>5. j # 1
  BY <1>2, <1>4
<1> HIDE DEF z, s, n
<1>6. j - 1 \in 1..(n - 1) /\ (j - 1) + 1 = j
  BY <1>2, <1>5
<1>7. z[j - 1].op = "store" /\ DOMAIN z = 1..(n - 1)
  BY <1>3, <1>4, <1>6, SeqIndices
<1>8. Left(v, z).todo = z
  BY LeftIs
<1> QED BY <1>1, <1>6, <1>7, <1>8 DEF HasStore

\* A token that is valid by the minutes of its cache is in force, for what
\* the command takes from it.
LEMMA ValidIsInForce ==
  ASSUME KeysTellLayers, NEW f \in Frames, NEW v, IsFetched(v, f), clock \in Nat,
         NEW a, NEW threshold \in Nat,
         Tokens!IsValid(f.layer, v, Tokens!GetOidcTokenType(a.oidcField), threshold, clock)
  PROVE  InForce(v, a)
<1> DEFINE type == Tokens!GetOidcTokenType(a.oidcField)
           kind == Fetched(f)[1]
           grant == Fetched(f)[2]
<1>1. kind \in TokenKinds /\ (kind = "oidc" <=> f.layer = "OidcToken")
  BY FramesAre, FetchedKind
<1>2. HasType(v, kind, grant)
  BY DEF IsFetched
<1> HIDE DEF kind, grant
<1>3. v \in Tokens!Contents({v.grant}) /\ (v.kind = "oidc" <=> f.layer = "OidcToken")
  BY <1>1, <1>2, Zenon DEF HasType
<1>4. CASE f.layer = "OidcToken"
  <2>1. v.kind = "oidc" /\ Tokens!OidcTokenIsValid(v, type, threshold, clock)
    BY <1>3, <1>4 DEF Tokens!IsValid
  <2>2. v.exp \in Nat /\ v.id \in Nat \cup {Nil}
    BY <1>3, <2>1 DEF Tokens!Contents
  <2>3. /\ UsesIdToken(a) => Tokens!IsFetchIdToken(type)
        /\ UsesAccessToken(a) => Tokens!IsFetchAccessToken(type)
    BY DEF UsesIdToken, UsesAccessToken, Tokens!IsFetchIdToken, Tokens!IsFetchAccessToken,
       Tokens!GetOidcTokenType
  <2> HIDE DEF type
  <2>4. ASSUME UsesIdToken(a), v.id # Nil PROVE v.id > clock
    <3>1. v.id > clock + threshold /\ v.id \in Nat
      BY <2>1, <2>2, <2>3, <2>4 DEF Tokens!OidcTokenIsValid
    <3> QED BY <3>1
  <2>5. ASSUME UsesAccessToken(a), v.exp > 0 PROVE v.exp > clock
    <3>1. v.exp > clock + threshold
      BY <2>1, <2>3, <2>5 DEF Tokens!OidcTokenIsValid
    <3> QED BY <2>2, <3>1
  <2> QED BY <2>1, <2>4, <2>5 DEF InForce
<1>5. CASE f.layer # "OidcToken"
  <2>1. v.kind # "oidc" /\ v.exp > clock + threshold
    BY <1>3, <1>5 DEF Tokens!IsValid, Tokens!IsValidAtLeastThreshold
  <2>2. v.exp \in Nat
    BY <1>3 DEF Tokens!Contents
  <2>3. v.exp > clock
    BY <2>1, <2>2
  <2> QED BY <2>1, <2>3 DEF InForce
<1> QED BY <1>4, <1>5

\* The minutes of every layer are natural numbers.
LEMMA MinutesAre ==
  ASSUME NEW layer
  PROVE  Tokens!Minutes(layer).expiring \in Nat /\ Tokens!Minutes(layer).expired \in Nat
<1>1. Tokens!Minutes(layer) \in
        {[expiring |-> 2, expired |-> 1], [expiring |-> 3, expired |-> 1],
         [expiring |-> 20, expired |-> 3]}
  BY DEF Tokens!Minutes
<1> QED BY <1>1

\* Who is given a token keeps what it asked for.
LEMMA GivenHas ==
  ASSUME NEW q, DOMAIN q = Fields, NEW i, NEW token
  PROVE  Given(q, i, token).val = token /\ Given(q, i, token).ask = q.ask
<1> DEFINE read == [c \in Category |-> IF c \in Passed(q.todo, i) THEN Nil ELSE q.read[c]]
           v == [q EXCEPT !.val = token, !.read = read]
<1>1. Given(q, i, token) = Left(v, SubSeq(q.todo, i + 1, Len(q.todo)))
  BY DEF Given, Passed, Fields
<1>2. DOMAIN v = Fields /\ v.val = token /\ v.ask = q.ask
  BY DEF Fields
<1> HIDE DEF v
<1> QED BY <1>1, <1>2, LeftIs

\* What a lookup takes from a file.
LEMMA LookupInForce ==
  ASSUME IInv, KeysTellLayers, NEW r \in Req, Lookup(r), HasStore(request[r])
  PROVE  HasStore(request'[r]) \/ InForce(request'[r].val, request'[r].ask)
<1> DEFINE q == request[r]
           h == Holds(r)
           x == Head(q.todo)
           key == KeyOf(x, Configs[config].mtime)
           token == Content(key)
           kept == [key |-> key, layer |-> x.layer, token |-> token, force |-> x.force]
           v == [q EXCEPT !.read[x.category] = kept]
           i == IndexOfStore(q, x.category)
           type == FetchTokenType(q)
           fetches == \/ x.force \/ token = Nil
                      \/ Tokens!IsContentExpiringOrExpired(x.layer, token, type, clock)
           w == IF fetches THEN Advance(v) ELSE Given(q, i, token)
<1>1. /\ q.stage = "running" /\ x.op = "cache" /\ request' = [request EXCEPT ![r] = w]
      /\ UNCHANGED <<clock, config>>
  BY DEF Lookup, At
<1>2. Sound(q, h) /\ clock \in Nat /\ DOMAIN q = Fields /\ request'[r] = w
  BY <1>1, RequestFields DEF IInv
<1> HIDE DEF h
<1>3. CASE fetches
  <2>1. DOMAIN v = Fields /\ v.todo = q.todo
    BY <1>2 DEF Fields
  <2>2. Becomes(r, v)
    BY <1>1, <1>3 DEF Becomes
  <2> HIDE DEF v
  <2>3. x.op # "store"
    BY <1>1
  <2> QED BY <1>1, <2>1, <2>2, <2>3, StoreToCome
<1>4. CASE ~fetches
  <2>1. x \in Frames
    <3>1. PICK p : Promise(q, p)
      BY <1>1, <1>2, AtStart
    <3>2. x = q.todo[1] /\ 1 \in 1..Len(q.todo)
      BY <1>1, <1>2, AtStart
    <3>3. x \in CachesOf(q.todo)
      BY <1>1, <3>2 DEF CachesOf
    <3> QED BY <3>1, <3>3 DEF Promise
  <2>2. token # Nil /\ ~Tokens!IsContentExpiringOrExpired(x.layer, token, type, clock)
    BY <1>4
  <2>3. request'[r] = Given(q, i, token)
    BY <1>2, <1>4
  <2> HIDE DEF x, w, fetches, i, v, q
  <2>4. IsFetched(token, x)
    BY <2>1, <2>2, ContentFits
  <2> HIDE DEF token
  <2> DEFINE threshold == Tokens!Minutes(x.layer).expiring
  <2>5. /\ Tokens!IsValid(x.layer, token, Tokens!GetOidcTokenType(q.ask.oidcField), threshold,
                          clock)
        /\ threshold \in Nat
    BY <2>2, MinutesAre DEF Tokens!IsContentExpiringOrExpired, FetchTokenType
  <2> HIDE DEF threshold
  <2>6. InForce(token, q.ask)
    BY <1>2, <2>1, <2>4, <2>5, ValidIsInForce
  <2>7. request'[r].val = token /\ request'[r].ask = q.ask
    BY <1>2, <2>3, GivenHas
  <2> QED BY <2>6, <2>7
<1> QED BY <1>3, <1>4

\* What was kept of an open cache.
LEMMA KeptIs ==
  ASSUME NEW q, NEW h, Sound(q, h), q.stage = "running", NEW m \in DOMAIN q.todo,
         q.todo[m].op = "store", q.read[q.todo[m].category] # Nil
  PROVE  \E f \in Frames : IsKept(q.read[q.todo[m].category], f)
<1> DEFINE c == q.todo[m].category
<1>1. m \in 1..Len(q.todo)
  BY AtStart, SeqIndices
<1>2. PICK p : Promise(q, p) /\ Has(q, p[1], h)
  BY AtStart
<1>3. c \in Category
  <2>1. FlowOpen(q.todo[m], p[m], p[m + 1])
    BY <1>1, <1>2, PathStep DEF Promise
  <2> QED BY <2>1 DEF FlowOpen
<1>4. ReadsCache(q.read, p[1].open, c)
  BY <1>2, <1>3 DEF Has, Reads
<1> QED BY <1>4 DEF ReadsCache

\* What a failure falls back on.
LEMMA UnwindInForce ==
  ASSUME IInv, KeysTellLayers, NEW r \in Req, request[r].stage = "running",
         NEW denied, Unwind(r, denied)
  PROVE  request'[r].stage = "failed" \/ InForce(request'[r].val, request'[r].ask)
<1> DEFINE q == request[r]
           h == Holds(r)
           caches == {i \in DOMAIN q.todo : q.todo[i].op = "store" /\ q.read[q.todo[i].category] # Nil}
           asked == IF denied /\ caches # {} THEN caches \ {Min(caches)} ELSE caches
           usable == {i \in asked : Usable(q, q.todo[i].category)}
           m == Min(usable)
           kept == q.read[q.todo[m].category]
           w == IF usable = {} THEN Ending(q) ELSE Given(q, m, kept.token)
<1>1. /\ request' = [request EXCEPT ![r] = w] /\ clock' = clock
  BY DEF Unwind, Ending
<1>2. Sound(q, h) /\ q.stage = "running" /\ clock \in Nat /\ DOMAIN q = Fields
      /\ request'[r] = w
  BY <1>1, RequestFields DEF IInv
<1> HIDE DEF h, q
<1>3. IsSeq(q.todo) /\ DOMAIN q.todo = 1..Len(q.todo) /\ Len(q.todo) \in Nat
  BY <1>2, AtStart, SeqIndices
<1>4. CASE usable = {}
  <2>1. request'[r] = Ending(q)
    BY <1>2, <1>4
  <2> HIDE DEF w, usable, asked, caches
  <2>2. Ending(q).stage = "failed"
    BY <1>2 DEF Ending, Fields
  <2> QED BY <2>1, <2>2
<1>5. CASE usable # {}
  <2>1. usable \subseteq caches
    <3> HIDE DEF caches
    <3> QED OBVIOUS
  <2>2. caches \subseteq Nat
    BY <1>3
  <2>3. request'[r] = Given(q, m, kept.token)
    BY <1>2, <1>5
  <2>u. \A i \in usable : Usable(q, q.todo[i].category)
    OBVIOUS
  <2> HIDE DEF w, usable, asked
  <2>4. m \in usable
    <3> HIDE DEF caches
    <3> QED BY <1>5, <2>1, <2>2, LeastExists
  <2>5. m \in DOMAIN q.todo /\ q.todo[m].op = "store" /\ kept # Nil
    BY <2>1, <2>4
  <2>6. Usable(q, q.todo[m].category)
    BY <2>4, <2>u
  <2>7. PICK f \in Frames : IsKept(kept, f)
    <3> HIDE DEF m
    <3> QED BY <1>2, <2>5, KeptIs
  <2>8. /\ kept.token # Nil
        /\ ~Tokens!IsContentExpired(kept.layer, kept.token, FetchTokenType(q), clock)
    BY <2>6 DEF Usable
  <2> HIDE DEF kept, m, caches
  <2>9. IsFetched(kept.token, f) /\ kept.layer = f.layer
    BY <2>7, <2>8 DEF IsKept
  <2> DEFINE threshold == Tokens!Minutes(f.layer).expired
             token == kept.token
  <2>a. /\ Tokens!IsValid(f.layer, token, Tokens!GetOidcTokenType(q.ask.oidcField), threshold,
                          clock)
        /\ threshold \in Nat
    BY <2>8, <2>9, MinutesAre DEF Tokens!IsContentExpired, FetchTokenType
  <2> HIDE DEF threshold
  <2>b. IsFetched(token, f)
    BY <2>9
  <2> HIDE DEF token
  <2>c. InForce(token, q.ask)
    BY <1>2, <2>7, <2>a, <2>b, ValidIsInForce
  <2>d. request'[r].val = token /\ request'[r].ask = q.ask
    BY <1>2, <2>3, GivenHas DEF token
  <2> QED BY <2>c, <2>d
<1> QED BY <1>4, <1>5

\* A store that is to come is still to come after a second try.
LEMMA AgainHasStore ==
  ASSUME IInv, NEW r \in Req, ServerError(r), HasStore(request[r])
  PROVE  HasStore(request'[r])
<1> DEFINE q == request[r]
           s == q.todo
           z == [s EXCEPT ![1] = Again(s[1])]
           v == [q EXCEPT !.todo = z]
<1>1. q.stage = "running" /\ Head(s).op = "token" /\ Sound(q, Holds(r))
  BY DEF ServerError, At, IInv
<1>2. /\ DOMAIN q = Fields /\ Head(s) = s[1] /\ 1 \in 1..Len(s) /\ DOMAIN s = 1..Len(s)
  BY <1>1, AtStart, SeqIndices
<1>3. request'[r] = v
  BY <1>2 DEF ServerError, Again, Fields, IInv
<1>4. v.todo = z
  BY <1>2 DEF Fields
<1>5. PICK j \in DOMAIN s : s[j].op = "store"
  BY DEF HasStore
<1>6. j # 1
  BY <1>1, <1>2, <1>5
<1>7. j \in DOMAIN z /\ z[j] = s[j]
  BY <1>6
<1> HIDE DEF v, z
<1> QED BY <1>3, <1>4, <1>5, <1>7 DEF HasStore

\* If no two lists of settings in use are hashed to the same digest, a token that
\* is taken from a file, when it is read or for want of an answer of the server,
\* is in force, for the part of it the command uses (utils/storage.go:117-186,
\* cloud/oidc/oidc_fetch.go:20-71).
THEOREM AnswersInForce == DigestsTell => (Spec => FileAnswersAreInForce)
<1> SUFFICES ASSUME KeysTellLayers PROVE Spec => FileAnswersAreInForce
  BY KeysTell
<1> DEFINE Good ==
             \A r \in Req :
               LET q == request[r]
                   p == request'[r]
               IN q.stage = "running" /\ HasStore(q) /\ Head(q.todo).op # "store"
                  /\ p.stage # "failed" /\ ~HasStore(p)
                    => InForce(p.val, p.ask)
<1>1. IInv /\ [Next]_vars => [Good]_vars
  <2> SUFFICES ASSUME IInv, Next, NEW r \in Req, request[r].stage = "running",
                      HasStore(request[r]), Head(request[r].todo).op # "store",
                      request'[r].stage # "failed", ~HasStore(request'[r])
               PROVE  InForce(request'[r].val, request'[r].ask)
    BY Zenon
  <2>0. request'[r] # request[r]
    OBVIOUS
  <2>2. DOMAIN request = Req
    BY DEF IInv
  <2>3. ASSUME NEW o \in Req,
               Ask(o) \/ FetchStep(o) \/ CommandStep(o) \/ Fail(o) \/ Panic(o) \/ Crash(o)
        PROVE  o = r
    BY <2>0, <2>3, OneMoves
  <2>4. ASSUME \/ Proceed(r) \/ OpenCard(r) \/ Close(r) \/ SignAssertion(r) \/ Start(r)
               \/ Answered(r) \/ Keep(r) \/ Pick(r) \/ ExchangeToken(r) \/ CommandStep(r)
        PROVE  FALSE
    BY <2>4, Advances, StoreToCome
  <2>5. ~Ask(r) /\ ~Store(r) /\ ~Panic(r) /\ ~Crash(r) /\ ~ServerError(r)
    <3>1. ~Ask(r) /\ ~Store(r)
      BY DEF Ask, Store, At
    <3>2. ~ServerError(r)
      BY AgainHasStore
    <3>3. ASSUME Panic(r) \/ Crash(r) PROVE FALSE
      <4>1. request' = [request EXCEPT ![r] = Ending(request[r])]
        BY <3>3, <2>2 DEF Panic, Crash, Ending
      <4>2. Ending(request[r]).stage = "failed"
        BY RequestFields DEF Ending, Fields
      <4> QED BY <2>2, <4>1, <4>2
    <3> QED BY <3>1, <3>2, <3>3
  <2>6. ASSUME Lookup(r) PROVE InForce(request'[r].val, request'[r].ask)
    BY <2>6, LookupInForce
  <2>7. ASSUME Fail(r) \/ Deny(r) PROVE InForce(request'[r].val, request'[r].ask)
    BY <2>7, UnwindInForce DEF Fail, Deny
  <2>8. ~EditConfig /\ ~Tick
    BY <2>0 DEF EditConfig, Tick
  <2>9. PICK o \in Req :
          Ask(o) \/ FetchStep(o) \/ CommandStep(o) \/ Fail(o) \/ Panic(o) \/ Crash(o)
    BY <2>8 DEF Next
  <2>a. o = r
    BY <2>3, <2>9
  <2>b. Lookup(r) \/ Fail(r) \/ Deny(r)
    BY <2>4, <2>5, <2>9, <2>a DEF FetchStep
  <2> QED BY <2>6, <2>7, <2>b
<1> QED BY <1>1, Inductive, PTL DEF Spec, FileAnswersAreInForce

-----------------------------------------------------------------------------
(* What a step of a request changes.                                       *)

\* The steps of a fetch.
FetchOps == AnswerOps \cup {"cache", "store", "pick", "keep", "exchange"}

\* v is q but for these fields.
Alike(v, q, changed) ==
  DOMAIN v = Fields /\ \A f \in Fields : f \notin changed => v[f] = q[f]

\* The request has its k first steps behind it, of which the last one tells
\* nothing of secrets or environments; a step that fetches nothing leaves the
\* token alone.
Skips(q, p) ==
  \E v, k :
    /\ k \in 1..Len(q.todo) /\ Alike(v, q, {"start", "val", "read"})
    /\ p = Left(v, From1(q.todo, k))
    /\ q.todo[k].op \notin {"credential", "environment", "refuse", "panic"}
    /\ q.todo[k].op \notin FetchOps => k = 1 /\ v.val = q.val

\* The same request is made once more.
Repeats(q, p) ==
  /\ Head(q.todo).op = "token"
  /\ p = [q EXCEPT !.todo = [q.todo EXCEPT ![1] = Again(q.todo[1])]]

\* A step that answers for nothing and sets no environment leaves both.
LEMMA SkipsOne ==
  ASSUME IInv, NEW r \in Req, request[r].stage = "running",
         NEW v, Alike(v, request[r], {"start", "val", "read"}), Becomes(r, v),
         Head(request[r].todo).op \notin {"credential", "environment", "refuse", "panic"},
         Head(request[r].todo).op \notin FetchOps => v.val = request[r].val
  PROVE  Skips(request[r], request'[r])
<1> DEFINE q == request[r]
           h == Holds(r)
<1>1. Sound(q, h) /\ request'[r] = Left(v, Tail(v.todo))
  BY DEF IInv, Becomes, Advance
<1> HIDE DEF h
<1>2. Tail(q.todo) = From1(q.todo, 1) /\ Head(q.todo) = q.todo[1] /\ 1 \in 1..Len(q.todo)
  BY <1>1, AtStart
<1>3. v.todo = q.todo
  BY DEF Alike, Fields
<1> HIDE DEF q
<1>4. request'[r] = Left(v, From1(q.todo, 1))
  BY <1>1, <1>2, <1>3
<1>5. Alike(v, q, {"start", "val", "read"}) /\ (q.todo[1].op \notin FetchOps => v.val = q.val)
      /\ q.todo[1].op \notin {"credential", "environment", "refuse", "panic"}
  BY <1>2 DEF q
<1>6. Skips(q, request'[r])
  BY <1>2, <1>4, <1>5 DEF Skips
<1> QED BY <1>6 DEF q

\* So does the token of a cache, wherever its store is ...
LEMMA SkipsGiven ==
  ASSUME NEW q, DOMAIN q = Fields, NEW i \in 1..Len(q.todo), q.todo[i].op = "store", NEW token
  PROVE  Skips(q, Given(q, i, token))
<1> DEFINE read == [c \in Category |-> IF c \in Passed(q.todo, i) THEN Nil ELSE q.read[c]]
           v == [q EXCEPT !.val = token, !.read = read]
<1>1. Given(q, i, token) = Left(v, From1(q.todo, i))
  BY DEF Given, Passed, Fields, From1
<1>2. DOMAIN v = Fields /\ v.todo = q.todo
  BY DEF Fields
<1>3. Alike(v, q, {"start", "val", "read"})
  <2> HIDE DEF read
  <2> QED BY DEF Alike, Fields
<1> HIDE DEF v
<1>4. "store" \in FetchOps
  BY DEF FetchOps
<1> QED BY <1>1, <1>3, <1>4 DEF Skips

\* The store of the cache that is next.
LEMMA StoreOf ==
  ASSUME NEW q, NEW h, Sound(q, h), q.stage = "running", Head(q.todo).op = "cache"
  PROVE  LET i == IndexOfStore(q, Head(q.todo).category)
         IN i \in 1..Len(q.todo) /\ IsStore(q.todo[i], Head(q.todo).category)
<1> DEFINE x == Head(q.todo)
           c == x.category
           n == Len(q.todo)
<1>1. n \in Nat /\ 1 \in 1..n /\ IsSeq(q.todo)
  BY AtStart
<1>2. PICK p : Promise(q, p)
  BY AtStart
<1> DEFINE t == p[1]
           u == p[2]
           end == p[n + 1]
<1>3. Flow(x, t, u) /\ x.op = "cache"
  BY <1>2, FirstFlow
<1> HIDE DEF x, t, u
<1>4. c \in Category /\ IsOpen(u, c, x)
  BY <1>3, CacheFlow
<1>5. Path(q.todo, p) /\ end.open[c] = {}
  BY <1>2, <1>4 DEF Promise, Closing, NoneOpen
<1> HIDE DEF end, c
<1>6. 2 \in 1..(Len(q.todo) + 1)
  BY <1>1
<1>7. PICK j \in 1..n : IsStore(q.todo[j], c)
  BY <1>4, <1>5, <1>6, StoreAhead DEF u, end
<1>8. IndexOfStore(q, c) \in 1..n /\ IsStore(q.todo[IndexOfStore(q, c)], c)
  BY <1>1, <1>7, FirstStore
<1> QED BY <1>8 DEF c, x

\* ... a lookup ...
LEMMA LookupSkips ==
  ASSUME IInv, NEW r \in Req, Lookup(r)
  PROVE  Skips(request[r], request'[r])
<1> DEFINE q == request[r]
           h == Holds(r)
           x == Head(q.todo)
           key == KeyOf(x, Configs[config].mtime)
           token == Content(key)
           kept == [key |-> key, layer |-> x.layer, token |-> token, force |-> x.force]
           v == [q EXCEPT !.read[x.category] = kept]
           i == IndexOfStore(q, x.category)
           fetches == \/ x.force \/ token = Nil
                      \/ Tokens!IsContentExpiringOrExpired(x.layer, token, FetchTokenType(q), clock)
           w == IF fetches THEN Advance(v) ELSE Given(q, i, token)
<1>1. /\ q.stage = "running" /\ x.op = "cache" /\ request' = [request EXCEPT ![r] = w]
      /\ UNCHANGED <<clock, config>>
  BY DEF Lookup, At
<1>2. Sound(q, h) /\ DOMAIN q = Fields /\ request'[r] = w
  BY <1>1, RequestFields DEF IInv
<1> HIDE DEF h
<1>3. CASE fetches
  <2>1. Alike(v, q, {"start", "val", "read"})
    <3> HIDE DEF q, kept
    <3> QED BY <1>2 DEF Alike, Fields
  <2>2. Becomes(r, v)
    BY <1>1, <1>3 DEF Becomes
  <2> HIDE DEF v
  <2>3. x.op \notin {"credential", "environment", "refuse", "panic"} /\ x.op \in FetchOps
    BY <1>1 DEF FetchOps
  <2> QED BY <1>1, <2>1, <2>2, <2>3, SkipsOne
<1>4. CASE ~fetches
  <2>1. request'[r] = Given(q, i, token)
    BY <1>2, <1>4
  <2> HIDE DEF q, token, fetches, w, v
  <2>2. i \in 1..Len(q.todo) /\ q.todo[i].op = "store"
    BY <1>1, <1>2, StoreOf DEF IsStore
  <2> HIDE DEF i
  <2>3. Skips(q, Given(q, i, token))
    BY <1>2, <2>2, SkipsGiven
  <2> QED BY <2>1, <2>3 DEF q
<1> QED BY <1>3, <1>4

\* ... a failure a cache answers for ...
LEMMA UnwindSkips ==
  ASSUME IInv, NEW r \in Req, request[r].stage = "running", NEW denied, Unwind(r, denied)
  PROVE  request'[r].stage = "failed" \/ Skips(request[r], request'[r])
<1> DEFINE q == request[r]
           h == Holds(r)
           caches == {i \in DOMAIN q.todo : q.todo[i].op = "store" /\ q.read[q.todo[i].category] # Nil}
           asked == IF denied /\ caches # {} THEN caches \ {Min(caches)} ELSE caches
           usable == {i \in asked : Usable(q, q.todo[i].category)}
           m == Min(usable)
           token == q.read[q.todo[m].category].token
           w == IF usable = {} THEN Ending(q) ELSE Given(q, m, token)
<1>1. request' = [request EXCEPT ![r] = w]
  BY DEF Unwind, Ending
<1>2. Sound(q, h) /\ q.stage = "running" /\ DOMAIN q = Fields /\ request'[r] = w
  BY <1>1, RequestFields DEF IInv
<1> HIDE DEF h, q
<1>3. IsSeq(q.todo) /\ DOMAIN q.todo = 1..Len(q.todo) /\ Len(q.todo) \in Nat
  BY <1>2, AtStart, SeqIndices
<1>4. CASE usable = {}
  <2>1. request'[r] = Ending(q)
    BY <1>2, <1>4
  <2> HIDE DEF w, usable, asked, caches
  <2>2. Ending(q).stage = "failed"
    BY <1>2 DEF Ending, Fields
  <2> QED BY <2>1, <2>2
<1>5. CASE usable # {}
  <2>1. usable \subseteq caches
    <3> HIDE DEF caches
    <3> QED OBVIOUS
  <2>2. caches \subseteq Nat
    BY <1>3
  <2>3. request'[r] = Given(q, m, token)
    BY <1>2, <1>5
  <2> HIDE DEF w, usable, asked
  <2>4. m \in usable
    <3> HIDE DEF caches
    <3> QED BY <1>5, <2>1, <2>2, LeastExists
  <2>5. m \in 1..Len(q.todo) /\ q.todo[m].op = "store"
    BY <1>3, <2>1, <2>4
  <2> HIDE DEF m, token, caches
  <2>6. Skips(q, Given(q, m, token))
    BY <1>2, <2>5, SkipsGiven
  <2> QED BY <2>3, <2>6 DEF q
<1> QED BY <1>4, <1>5

\* A second try leaves everything but the step itself.
LEMMA ServerErrorRepeats ==
  ASSUME IInv, NEW r \in Req, ServerError(r)
  PROVE  Repeats(request[r], request'[r])
<1> DEFINE q == request[r]
<1>1. Head(q.todo).op = "token" /\ q.stage = "running" /\ Sound(q, Holds(r))
  BY DEF ServerError, At, IInv
<1>2. DOMAIN q = Fields /\ 1 \in DOMAIN q.todo
  BY <1>1, AtStart, SeqIndices
<1>3. request'[r] = [q EXCEPT !.todo = [q.todo EXCEPT ![1] = Again(q.todo[1])]]
  BY <1>2 DEF ServerError, Again, Fields, IInv
<1> QED BY <1>1, <1>3 DEF Repeats

\* Steps of which it is only of interest here that they succeed.
LEMMA PlainSkips ==
  ASSUME IInv, NEW r \in Req,
         \/ Proceed(r) \/ OpenCard(r) \/ Close(r) \/ SignAssertion(r) \/ Start(r)
         \/ Format(r) \/ OpenOutput(r) \/ WriteOutput(r)
  PROVE  Skips(request[r], request'[r])
<1> DEFINE q == request[r]
           op == Head(q.todo).op
           v == [q EXCEPT !.start = clock]
<1>1. DOMAIN q = Fields
  BY RequestFields
<1>2. /\ q.stage = "running"
      /\ op \in Plain \cup {"open card", "close", "sign", "start", "format", "open output",
                            "write output"}
  BY DEF Proceed, OpenCard, Close, SignAssertion, Start, Format, OpenOutput, WriteOutput, At
<1>3. Becomes(r, q) \/ Becomes(r, v)
  BY DEF Proceed, OpenCard, Close, SignAssertion, Start, Format, OpenOutput, WriteOutput
<1> HIDE DEF q, op
<1>4. op \notin {"credential", "environment", "refuse", "panic"}
  BY <1>2 DEF Plain
<1>5. Alike(q, q, {"start", "val", "read"}) /\ Alike(v, q, {"start", "val", "read"})
      /\ v.val = q.val
  BY <1>1 DEF Alike, Fields
<1> HIDE DEF v
<1> QED BY <1>2, <1>3, <1>4, <1>5, SkipsOne DEF q, op

\* A store leaves them too ...
LEMMA StoreSkips ==
  ASSUME IInv, NEW r \in Req, Store(r)
  PROVE  Skips(request[r], request'[r])
<1> DEFINE q == request[r]
           c == Head(q.todo).category
           v == [q EXCEPT !.read[c] = Nil]
<1>1. q.stage = "running" /\ Head(q.todo).op = "store" /\ DOMAIN q = Fields
  BY RequestFields DEF Store, At
<1>2. Becomes(r, v)
  BY DEF Store
<1> HIDE DEF q
<1>3. Alike(v, q, {"start", "val", "read"})
  BY <1>1 DEF Alike, Fields
<1> HIDE DEF v
<1>4. "store" \in FetchOps
  BY DEF FetchOps
<1> QED BY <1>1, <1>2, <1>3, <1>4, SkipsOne DEF q

\* ... and so does every step of the value.
LEMMA ValueSkips ==
  ASSUME IInv, NEW r \in Req, Answered(r) \/ Keep(r) \/ Pick(r) \/ ExchangeToken(r)
  PROVE  Skips(request[r], request'[r])
<1> DEFINE q == request[r]
           op == Head(q.todo).op
<1>1. q.stage = "running" /\ op \in AnswerOps \cup {"keep", "pick", "exchange"}
      /\ DOMAIN q = Fields
  BY RequestFields, AnswersAssumption DEF Answered, Keep, Pick, ExchangeToken, At, AnswerOps
<1>2. \E w : Becomes(r, [q EXCEPT !.val = w])
  <2>1. CASE Answered(r)
    BY <2>1 DEF Answered
  <2>2. CASE Keep(r)
    BY <1>1, <2>2 DEF Keep, Fields
  <2>3. CASE Pick(r)
    BY <1>1, <2>3 DEF Pick, Fields
  <2>4. CASE ExchangeToken(r)
    <3>1. PICK kind :
            Becomes(r, [q EXCEPT !.val =
              [grant |-> Append(Head(q.todo).grant, @.grant), kind |-> kind,
               exp |-> clock + CloudLife]])
      BY <2>4 DEF ExchangeToken
    <3> QED BY <1>1, <3>1 DEF Fields
  <2> QED BY <2>1, <2>2, <2>3, <2>4
<1>3. PICK w : Becomes(r, [q EXCEPT !.val = w])
  BY <1>2
<1> DEFINE v == [q EXCEPT !.val = w]
<1> HIDE DEF q, op
<1>4. op \in FetchOps /\ op \notin {"credential", "environment", "refuse", "panic"}
  BY <1>1 DEF FetchOps, AnswerOps
<1>5. Alike(v, q, {"start", "val", "read"})
  BY <1>1 DEF Alike, Fields
<1>6. Becomes(r, v)
  BY <1>3
<1> HIDE DEF v
<1> QED BY <1>1, <1>4, <1>5, <1>6, SkipsOne DEF q, op

\* All that a step of r can do to it.
LEMMA StepOf ==
  ASSUME IInv, NEW r \in Req, FetchStep(r) \/ CommandStep(r) \/ Fail(r) \/ Panic(r) \/ Crash(r)
  PROVE  /\ request[r].stage = "running"
         /\ \/ Skips(request[r], request'[r])
            \/ Repeats(request[r], request'[r])
            \/ request'[r].stage = "failed"
            \/ Environment(r)
            \/ Credential(r)
<1>1. request[r].stage = "running"
  BY DEF FetchStep, CommandStep, Lookup, Store, Proceed, OpenCard, Close, SignAssertion, Start,
     Answered, ServerError, Deny, Keep, Pick, ExchangeToken, Format, OpenOutput, WriteOutput,
     Environment, Credential, Fail, Panic, Crash, At
<1>2. CASE Lookup(r)
  BY <1>1, <1>2, LookupSkips
<1>3. CASE Fail(r) \/ Deny(r)
  BY <1>1, <1>3, UnwindSkips DEF Fail, Deny
<1>4. CASE Panic(r) \/ Crash(r)
  <2>1. request' = [request EXCEPT ![r] = Ending(request[r])]
    BY <1>4 DEF Panic, Crash, Ending, IInv
  <2>2. Ending(request[r]).stage = "failed"
    BY RequestFields DEF Ending, Fields
  <2> QED BY <1>1, <2>1, <2>2 DEF IInv
<1>5. CASE ServerError(r)
  BY <1>1, <1>5, ServerErrorRepeats
<1>6. CASE Proceed(r) \/ OpenCard(r) \/ Close(r) \/ SignAssertion(r) \/ Start(r)
           \/ Format(r) \/ OpenOutput(r) \/ WriteOutput(r)
  BY <1>1, <1>6, PlainSkips
<1>7. CASE Store(r)
  BY <1>1, <1>7, StoreSkips
<1>8. CASE Answered(r) \/ Keep(r) \/ Pick(r) \/ ExchangeToken(r)
  BY <1>1, <1>8, ValueSkips
<1>9. CASE Environment(r) \/ Credential(r)
  BY <1>1, <1>9
<1> QED BY <1>1, <1>2, <1>3, <1>4, <1>5, <1>6, <1>7, <1>8, <1>9, Zenon DEF FetchStep, CommandStep

\* What Left leaves alike.
LEMMA LeftAlike ==
  ASSUME NEW v, DOMAIN v = Fields, NEW s
  PROVE  /\ Alike(Left(v, s), v, {"stage", "todo", "start", "read"})
         /\ Left(v, s).todo = s
         /\ Left(v, s).stage = IF s = <<>> THEN "done" ELSE v.stage
<1>1. CASE s = <<>>
  BY <1>1 DEF Left, Alike, Fields
<1>2. CASE s # <<>>
  BY <1>2 DEF Left, Alike, Fields
<1> QED BY <1>1, <1>2

\* The fields of a request that goes on behind its first k steps.
LEMMA StepsLeft ==
  ASSUME NEW q, NEW h, Sound(q, h), q.stage = "running", NEW v, NEW k \in 1..Len(q.todo),
         NEW changed, "stage" \notin changed, "todo" \notin changed, Alike(v, q, changed)
  PROVE  LET p == Left(v, From1(q.todo, k))
         IN /\ Alike(p, q, {"stage", "todo", "start", "read"} \cup changed) /\ p.val = v.val
            /\ p.values = v.values /\ p.errors = v.errors /\ p.environment = v.environment
            /\ IsSeq(p.todo) /\ Len(p.todo) = Len(q.todo) - k
            /\ \A i \in 1..(Len(q.todo) - k) : p.todo[i] = q.todo[i + k]
            /\ p.stage \in {"running", "done"}
            /\ p.stage = "done" <=> k = Len(q.todo)
<1> DEFINE s == From1(q.todo, k)
           p == Left(v, s)
<1>1. IsSeq(q.todo) /\ Len(q.todo) \in Nat
  BY AtStart
<1>2. IsSeq(s) /\ Len(s) = Len(q.todo) - k
      /\ \A i \in 1..(Len(q.todo) - k) : s[i] = q.todo[i + k]
  <2>1. k \in 0..Len(q.todo)
    BY <1>1
  <2> QED BY <1>1, <2>1, Rest
<1> HIDE DEF s
<1>3. s = <<>> <=> k = Len(q.todo)
  <2>1. s = <<>> <=> Len(s) = 0
    BY <1>2, NoElements
  <2> DEFINE n == Len(q.todo)
  <2>2. n \in Nat /\ k \in 1..n /\ Len(s) = n - k
    BY <1>1, <1>2
  <2> HIDE DEF n
  <2> QED BY <2>1, <2>2 DEF n
<1>4. v.stage = "running"
  BY DEF Alike, Fields
<1>5. /\ Alike(p, v, {"stage", "todo", "start", "read"}) /\ p.todo = s
      /\ p.stage = IF s = <<>> THEN "done" ELSE v.stage
  <2>1. DOMAIN v = Fields
    BY DEF Alike
  <2> HIDE DEF p
  <2> QED BY <2>1, LeftAlike DEF p
<1> HIDE DEF p
<1>6. Alike(p, q, {"stage", "todo", "start", "read"} \cup changed)
  <2>1. ASSUME NEW f \in Fields, f \notin {"stage", "todo", "start", "read"} \cup changed
        PROVE  p[f] = q[f]
    BY <1>5, <2>1 DEF Alike
  <2> QED BY <1>5, <2>1 DEF Alike
<1>7. p.stage \in {"running", "done"} /\ (p.stage = "done" <=> k = Len(q.todo))
  BY <1>3, <1>4, <1>5
<1>8. /\ p.val = v.val /\ p.values = v.values /\ p.errors = v.errors
      /\ p.environment = v.environment
  BY <1>5 DEF Alike, Fields
<1>9. /\ Alike(p, q, {"stage", "todo", "start", "read"} \cup changed) /\ p.val = v.val
      /\ p.values = v.values /\ p.errors = v.errors /\ p.environment = v.environment
      /\ IsSeq(p.todo) /\ Len(p.todo) = Len(q.todo) - k
      /\ \A i \in 1..(Len(q.todo) - k) : p.todo[i] = q.todo[i + k]
      /\ p.stage \in {"running", "done"}
      /\ p.stage = "done" <=> k = Len(q.todo)
  BY <1>2, <1>5, <1>6, <1>7, <1>8
<1> QED BY <1>9, Zenon DEF p, s

-----------------------------------------------------------------------------
(* The secrets of an agent.                                                *)

\* The first k identifiers have a value or an error.
GivenFor(q, k) ==
  /\ q.values \cup q.errors = {q.ask.ids[i] : i \in 1..k}
  /\ \A id \in q.values \cap q.errors :
       \E i, j \in 1..k : i # j /\ q.ask.ids[i] = id /\ q.ask.ids[j] = id

\* All the request can do is to fail.
Doomed(s) == Len(s) = 1 /\ s[1].op \in {"refuse", "panic"}

\* The last steps ask for the last identifiers, the others for none.
AsksForTheRest(q) ==
  LET s == q.todo
      n == Len(s)
      l == Len(q.ask.ids)
  IN \A i \in 1..n : IF i + l > n THEN s[i] = With("credential", q.ask.ids[i + l - n])
                     ELSE s[i].op # "credential"

\* The number of identifiers that have been asked for.
Behind(q) ==
  LET n == Len(q.todo)
      l == Len(q.ask.ids)
  IN IF n > l THEN 0 ELSE l - n

\* Of openclaw-secret: the identifiers whose steps are behind have their answers,
\* and those of the others are ahead, or nothing but a refusal is.
Secrets(q) ==
  q.ask.command = "openclaw-secret" =>
    /\ q.stage = "idle" => q.values = {} /\ q.errors = {}
    /\ q.stage = "running" => Doomed(q.todo) \/ (AsksForTheRest(q) /\ GivenFor(q, Behind(q)))
    /\ q.stage = "done" => GivenFor(q, Len(q.ask.ids))

\* At the start no identifier has an answer.
LEMMA GivenNone ==
  ASSUME NEW q, q.values = {}, q.errors = {}
  PROVE  GivenFor(q, 0)
BY DEF GivenFor

\* Only values and errors matter.
LEMMA GivenAlike ==
  ASSUME NEW q, NEW p, NEW k, GivenFor(q, k), p.values = q.values, p.errors = q.errors,
         p.ask = q.ask
  PROVE  GivenFor(p, k)
BY DEF GivenFor

\* One more step, one more answer.
LEMMA GivenOneMore ==
  ASSUME NEW q, NEW p, NEW k \in Nat, GivenFor(q, k), p.ask = q.ask,
         NEW id, id = q.ask.ids[k + 1],
         \/ p.values = q.values \cup {id} /\ p.errors = q.errors
         \/ p.values = q.values /\ p.errors = q.errors \cup {id}
  PROVE  GivenFor(p, k + 1)
<1> DEFINE ids == q.ask.ids
           V == q.values
           E == q.errors
<1>1. V \cup E = {ids[i] : i \in 1..k}
      /\ \A x \in V \cap E : \E i, j \in 1..k : i # j /\ ids[i] = x /\ ids[j] = x
  BY DEF GivenFor
<1>2. /\ p.values \cup p.errors = V \cup E \cup {id}
      /\ \A x \in p.values \cap p.errors : x \in V \cap E \/ (x = id /\ x \in V \cup E)
  OBVIOUS
<1>d. id = ids[k + 1]
  OBVIOUS
<1> HIDE DEF ids, V, E
<1>3. /\ \A i \in 1..k : i \in 1..(k + 1) /\ i # k + 1
      /\ \A i \in 1..(k + 1) : i \in 1..k \/ i = k + 1
      /\ k + 1 \in 1..(k + 1)
  OBVIOUS
<1>4. p.values \cup p.errors = {ids[i] : i \in 1..(k + 1)}
  <2>1. ASSUME NEW x PROVE x \in V \cup E \cup {id} <=> \E i \in 1..(k + 1) : x = ids[i]
    BY <1>1, <1>3, <1>d
  <2> QED BY <1>2, <2>1
<1>5. ASSUME NEW x \in p.values \cap p.errors
      PROVE  \E i, j \in 1..(k + 1) : i # j /\ ids[i] = x /\ ids[j] = x
  <2>1. CASE x \in V \cap E
    BY <1>1, <1>3, <2>1
  <2>2. CASE x = id /\ x \in V \cup E
    <3>1. PICK i \in 1..k : ids[i] = x
      BY <1>1, <2>2
    <3> QED BY <1>3, <1>d, <2>2, <3>1
  <2> QED BY <1>2, <2>1, <2>2
<1> QED BY <1>4, <1>5 DEF GivenFor, ids

\* What is fetched first asks for no secret.
LEMMA UsesNothing ==
  ASSUME NEW s, NEW t, NEW u, Leads(s, t, u), u.phase = "fetch"
  PROVE  IsSeq(s) /\ Len(s) \in Nat /\ \A i \in 1..Len(s) : s[i].op \notin UseOps
<1>1. PICK p : Path(s, p) /\ p[Len(s) + 1] = u
  BY DEF Leads
<1> DEFINE n == Len(s)
<1>2. n \in Nat /\ IsSeq(s)
  BY <1>1, PathLen
<1>3. ASSUME NEW i \in 1..n, s[i].op \in UseOps PROVE FALSE
  <2>1. p[i + 1].phase = "use"
    <3>1. FlowPhase(s[i], p[i], p[i + 1])
      BY <1>1, PathStep
    <3> QED BY <1>3, <3>1 DEF FlowPhase
  <2> HIDE DEF n
  <2>2. i + 1 \in 1..(n + 1) /\ n + 1 \in (i + 1)..(n + 1)
    BY <1>2
  <2>3. p[n + 1].phase = "use"
    BY <1>1, <2>1, <2>2, PhaseStays DEF n
  <2> QED BY <1>1, <2>3 DEF n
<1> QED BY <1>2, <1>3

\* A fetch from a provider uses no token.
LEMMA IdpUsesNothing ==
  ASSUME NEW c, NEW force
  PROVE  LET s == IdpFetchOidcToken(c, force)
         IN IsSeq(s) /\ Len(s) \in Nat /\ \A i \in 1..Len(s) : s[i].op \notin UseOps
<1> DEFINE s == IdpFetchOidcToken(c, force)
           u == Holding(Origin, "jwt", JwtGrant(c), 2)
<1>1. Fresh(Origin) /\ Origin.open["oidc_token"] = {}
  BY OriginIs DEF Closing, NoneOpen, Category
<1>2. Leads(s, Origin, u)
  BY <1>1, IdpLeads
<1>3. u.phase = "fetch"
  BY DEF Holding, Point
<1> HIDE DEF s, u
<1>4. IsSeq(s) /\ Len(s) \in Nat /\ \A i \in 1..Len(s) : s[i].op \notin UseOps
  BY <1>2, <1>3, UsesNothing
<1> QED BY <1>4 DEF s

\* The steps of an agent's command ask for all its identifiers.
LEMMA CommandAsks ==
  ASSUME NEW found, NEW a \in Asked, a.command = "openclaw-secret"
  PROVE  LET s == Command(found, a)
             l == Len(a.ids)
             n == Len(s)
         IN \/ Doomed(s)
            \/ /\ n >= l
               /\ \A i \in 1..n : IF i + l > n THEN s[i] = With("credential", a.ids[i + l - n])
                                  ELSE s[i].op # "credential"
<1> DEFINE s == Command(found, a)
           l == Len(a.ids)
           n == Len(s)
<1>1. s = Refuse \/ s = FetchOpenClawSecret(found, a)
  BY DEF Command
<1>2. Doomed(Refuse) /\ Doomed(<<Step("panic")>>)
  BY OneElement DEF Doomed, Refuse, Step
<1>3. Doomed(s) \/ \E c : s = IdpFetchOidcToken(c, a.forceNew) \o CredentialSteps(a.ids)
  BY <1>1, <1>2, OpenClawSteps
<1> HIDE DEF s
<1>4. ASSUME NEW c, s = IdpFetchOidcToken(c, a.forceNew) \o CredentialSteps(a.ids)
      PROVE  /\ n >= l
             /\ \A i \in 1..n : IF i + l > n THEN s[i] = With("credential", a.ids[i + l - n])
                                ELSE s[i].op # "credential"
  <2> DEFINE f == IdpFetchOidcToken(c, a.forceNew)
             m == Len(f)
             g == CredentialSteps(a.ids)
  <2>1. IsSeq(f) /\ m \in Nat /\ \A i \in 1..m : f[i].op \notin UseOps
    BY IdpUsesNothing
  <2>2. /\ IsSeq(g) /\ Len(g) = l /\ l \in Nat
        /\ \A i \in 1..l : g[i] = With("credential", a.ids[i])
    BY AskedIs, CredentialStepsAre
  <2>0. s = f \o g
    BY <1>4
  <2> HIDE DEF f, g
  <2>3. /\ n = m + l
        /\ \A i \in 1..m : s[i] = f[i]
        /\ \A i \in 1..l : s[m + i] = g[i]
    BY <2>0, <2>1, <2>2, Joined
  <2> HIDE DEF l
  <2> HIDE DEF n, m
  <2>4. ASSUME NEW i \in 1..n, i + l > n PROVE s[i] = With("credential", a.ids[i + l - n])
    <3>1. i - m \in 1..l /\ m + (i - m) = i /\ i + l - n = i - m
      BY <2>1, <2>2, <2>3, <2>4
    <3>2. s[m + (i - m)] = g[i - m] /\ g[i - m] = With("credential", a.ids[i - m])
      BY <2>2, <2>3, <3>1
    <3> QED BY <3>1, <3>2
  <2>5. ASSUME NEW i \in 1..n, ~(i + l > n) PROVE s[i].op # "credential"
    <3>1. i \in 1..m
      BY <2>1, <2>2, <2>3, <2>5
    <3>2. s[i].op \notin UseOps
      BY <2>1, <2>3, <3>1
    <3> QED BY <3>2 DEF UseOps
  <2> QED BY <2>1, <2>2, <2>3, <2>4, <2>5
<1> QED BY <1>3, <1>4 DEF s

\* What is left asks for the rest.
LEMMA SecretsSkip ==
  ASSUME NEW q, NEW h, Sound(q, h), q.stage = "running", Secrets(q), NEW v,
         NEW k \in 1..Len(q.todo), NEW changed,
         changed \cap {"stage", "todo", "ask", "values", "errors"} = {}, Alike(v, q, changed),
         q.todo[k].op \notin {"credential", "refuse", "panic"}
  PROVE  Secrets(Left(v, From1(q.todo, k)))
<1> DEFINE p == Left(v, From1(q.todo, k))
           s == q.todo
           z == p.todo
           n == Len(s)
           l == Len(q.ask.ids)
<1>1. n \in Nat /\ l \in Nat
  BY AtStart, AskedIs DEF IsRequest
<1>2. /\ Alike(p, q, {"stage", "todo", "start", "read"} \cup changed)
      /\ p.values = v.values /\ p.errors = v.errors
      /\ Len(z) = n - k /\ \A i \in 1..(n - k) : z[i] = s[i + k]
      /\ p.stage \in {"running", "done"} /\ (p.stage = "done" <=> k = n)
  <2>1. "stage" \notin changed /\ "todo" \notin changed
    OBVIOUS
  <2>2. /\ Alike(p, q, {"stage", "todo", "start", "read"} \cup changed) /\ p.val = v.val
        /\ p.values = v.values /\ p.errors = v.errors /\ p.environment = v.environment
        /\ IsSeq(p.todo) /\ Len(p.todo) = Len(q.todo) - k
        /\ \A i \in 1..(Len(q.todo) - k) : p.todo[i] = q.todo[i + k]
        /\ p.stage \in {"running", "done"}
        /\ p.stage = "done" <=> k = Len(q.todo)
    BY <2>1, StepsLeft, Zenon
  <2> HIDE DEF p
  <2> QED BY <2>2
<1>3. p.ask = q.ask /\ p.values = q.values /\ p.errors = q.errors
  BY <1>2 DEF Alike, Fields
<1> SUFFICES ASSUME q.ask.command = "openclaw-secret" PROVE Secrets(p)
  BY <1>3 DEF Secrets
<1>4. Doomed(s) \/ (AsksForTheRest(q) /\ GivenFor(q, Behind(q)))
  BY DEF Secrets
<1>5. ~Doomed(s)
  BY <1>1 DEF Doomed
<1>6. \A i \in 1..n : IF i + l > n THEN s[i] = With("credential", q.ask.ids[i + l - n])
                      ELSE s[i].op # "credential"
  BY <1>4, <1>5 DEF AsksForTheRest
<1>7. GivenFor(q, IF n > l THEN 0 ELSE l - n)
  BY <1>4, <1>5 DEF Behind
<1>8. k + l <= n
  <2> SUFFICES ASSUME k + l > n PROVE FALSE
    BY <1>1
  <2>1. s[k] = With("credential", q.ask.ids[k + l - n])
    BY <1>6
  <2>2. s[k].op = "credential"
    BY <2>1 DEF With
  <2> QED BY <2>2
<1> HIDE DEF p, n, s, z, l
<1>9. ASSUME p.stage = "running" PROVE AsksForTheRest(p) /\ GivenFor(p, Behind(p))
  <2>1. n - k \in Nat /\ n - k >= l
    BY <1>1, <1>8
  <2>2. ASSUME NEW i \in 1..(n - k)
        PROVE  IF i + l > n - k THEN z[i] = With("credential", q.ask.ids[i + l - (n - k)])
               ELSE z[i].op # "credential"
    <3>1. i + k \in 1..n /\ (i + l > n - k <=> (i + k) + l > n)
          /\ i + l - (n - k) = (i + k) + l - n
      BY <1>1, <1>8, <2>2
    <3>2. z[i] = s[i + k]
      BY <1>2
    <3> QED BY <1>6, <3>1, <3>2
  <2>3. AsksForTheRest(p)
    BY <1>2, <1>3, <2>2 DEF AsksForTheRest, z, l
  <2>4. Behind(p) = 0
    <3>1. Behind(p) = IF n - k > l THEN 0 ELSE l - (n - k)
      BY <1>2, <1>3 DEF Behind, z, l
    <3> QED BY <1>1, <2>1, <3>1
  <2>5. GivenFor(q, 0)
    <3>1. (IF n > l THEN 0 ELSE l - n) = 0
      BY <1>1, <1>8
    <3> QED BY <1>7, <3>1
  <2>6. GivenFor(p, 0)
    BY <1>3, <2>5, GivenAlike
  <2> QED BY <2>3, <2>4, <2>6
<1>a. ASSUME p.stage = "done" PROVE GivenFor(p, Len(p.ask.ids))
  <2>1. k = n
    BY <1>2, <1>a
  <2>2. l = 0 /\ (IF n > l THEN 0 ELSE l - n) = 0
    BY <1>1, <1>8, <2>1
  <2>3. GivenFor(p, 0)
    BY <1>3, <1>7, <2>2, GivenAlike
  <2> QED BY <1>3, <2>2, <2>3 DEF l
<1> QED BY <1>2, <1>9, <1>a DEF Secrets, p

\* One who asks the server again has as much before it.
LEMMA SecretsRepeat ==
  ASSUME NEW q, NEW h, Sound(q, h), q.stage = "running", Secrets(q), NEW p, Repeats(q, p)
  PROVE  Secrets(p)
<1> DEFINE s == q.todo
           z == [s EXCEPT ![1] = Again(s[1])]
           n == Len(s)
           l == Len(q.ask.ids)
<1>1. /\ n \in Nat /\ l \in Nat /\ 1 \in 1..n /\ DOMAIN q = Fields /\ s[1].op = "token"
      /\ p = [q EXCEPT !.todo = z]
  BY AtStart, AskedIs DEF IsRequest, Repeats
<1>2. PICK points : Path(s, points)
  BY AtStart DEF Promise
<1>3. /\ Len(z) = n /\ \A i \in 1..n : i # 1 => z[i] = s[i]
      /\ z[1] = Again(s[1])
  BY <1>1, <1>2, PathAgain
<1>4. z[1].op = "token"
  <2>1. Flow(s[1], points[1], points[1 + 1])
    BY <1>1, <1>2 DEF Path
  <2> QED BY <1>1, <1>3, <2>1, AgainFlow
<1> HIDE DEF z
<1>5. /\ p.todo = z /\ p.ask = q.ask /\ p.values = q.values /\ p.errors = q.errors
      /\ p.stage = "running"
  BY <1>1 DEF Fields
<1> SUFFICES ASSUME q.ask.command = "openclaw-secret"
             PROVE  AsksForTheRest(p) /\ GivenFor(p, Behind(p))
  BY <1>5 DEF Secrets
<1>6. ~Doomed(s)
  BY <1>1 DEF Doomed
<1>7. AsksForTheRest(q) /\ GivenFor(q, Behind(q))
  BY <1>6 DEF Secrets
<1>8. Behind(p) = Behind(q)
  BY <1>3, <1>5 DEF Behind
<1>9. ASSUME NEW i \in 1..n
      PROVE  IF i + l > n THEN z[i] = With("credential", q.ask.ids[i + l - n])
             ELSE z[i].op # "credential"
  <2>1. IF i + l > n THEN s[i] = With("credential", q.ask.ids[i + l - n])
        ELSE s[i].op # "credential"
    BY <1>7 DEF AsksForTheRest
  <2>2. CASE i = 1
    <3>1. s[1].op # With("credential", q.ask.ids[i + l - n]).op
      BY <1>1 DEF With
    <3> HIDE DEF s, n, l
    <3> QED BY <1>4, <2>1, <2>2, <3>1
  <2>3. CASE i # 1
    BY <1>3, <2>1, <2>3
  <2> QED BY <2>2, <2>3
<1>a. AsksForTheRest(p)
  BY <1>3, <1>5, <1>9 DEF AsksForTheRest
<1>b. GivenFor(p, Behind(q))
  BY <1>5, <1>7, GivenAlike
<1> QED BY <1>8, <1>a, <1>b

\* One more identifier gets a value or an error.
LEMMA SecretsCredential ==
  ASSUME IInv, NEW r \in Req, Credential(r), Secrets(request[r])
  PROVE  Secrets(request'[r])
<1> DEFINE q == request[r]
           h == Holds(r)
           s == q.todo
           n == Len(s)
           l == Len(q.ask.ids)
           id == s[1].with
           v == [q EXCEPT !.values = q.values \cup {id}]
           w == [q EXCEPT !.errors = q.errors \cup {id}]
<1>1. Sound(q, h) /\ q.stage = "running" /\ Head(s).op = "credential"
  BY DEF IInv, Credential, At
<1> HIDE DEF h
<1>2. /\ n \in Nat /\ l \in Nat /\ 1 \in 1..n /\ DOMAIN q = Fields /\ s[1].op = "credential"
      /\ Head(s) = s[1] /\ Tail(s) = From1(s, 1)
  BY <1>1, AtStart, AskedIs DEF IsRequest
<1>3. Becomes(r, v) \/ Becomes(r, w)
  BY <1>2 DEF Credential, Fields
<1>4. PICK x \in {v, w} : request'[r] = Left(x, From1(s, 1))
  <2>1. v.todo = s /\ w.todo = s
    BY <1>2 DEF Fields
  <2> HIDE DEF v, w
  <2> QED BY <1>2, <1>3, <2>1 DEF IInv, Becomes, Advance
<1> DEFINE p == Left(x, From1(s, 1))
<1> HIDE DEF q
<1>5. /\ Alike(x, q, {"values", "errors"})
      /\ \/ x.values = q.values \cup {id} /\ x.errors = q.errors
         \/ x.values = q.values /\ x.errors = q.errors \cup {id}
  BY <1>2, <1>4 DEF Alike, Fields
<1> HIDE DEF v, w
<1>6. /\ Alike(p, q, {"stage", "todo", "start", "read", "values", "errors"})
      /\ p.values = x.values /\ p.errors = x.errors
      /\ Len(p.todo) = n - 1 /\ \A i \in 1..(n - 1) : p.todo[i] = s[i + 1]
      /\ p.stage \in {"running", "done"} /\ (p.stage = "done" <=> n = 1)
  <2> DEFINE changed == {"values", "errors"}
  <2>1. "stage" \notin changed /\ "todo" \notin changed /\ Alike(x, q, changed)
    BY <1>5
  <2>x. {"stage", "todo", "start", "read"} \cup changed
          = {"stage", "todo", "start", "read", "values", "errors"}
    OBVIOUS
  <2> HIDE DEF changed
  <2>2. /\ Alike(p, q, {"stage", "todo", "start", "read"} \cup changed) /\ p.val = x.val
        /\ p.values = x.values /\ p.errors = x.errors /\ p.environment = x.environment
        /\ IsSeq(p.todo) /\ Len(p.todo) = Len(q.todo) - 1
        /\ \A i \in 1..(Len(q.todo) - 1) : p.todo[i] = q.todo[i + 1]
        /\ p.stage \in {"running", "done"}
        /\ p.stage = "done" <=> 1 = Len(q.todo)
    BY <1>1, <1>2, <2>1, StepsLeft, Zenon
  <2> HIDE DEF p
  <2> QED BY <2>2, <2>x
<1>7. p.ask = q.ask
  BY <1>6 DEF Alike, Fields
<1> SUFFICES ASSUME q.ask.command = "openclaw-secret" PROVE Secrets(p)
  BY <1>4, <1>7 DEF Secrets, q
<1>8. ~Doomed(s)
  BY <1>2 DEF Doomed
<1>9. AsksForTheRest(q) /\ GivenFor(q, Behind(q))
  BY <1>1, <1>8 DEF Secrets, q
<1>a. \A i \in 1..n : IF i + l > n THEN s[i] = With("credential", q.ask.ids[i + l - n])
                      ELSE s[i].op # "credential"
  BY <1>9 DEF AsksForTheRest
<1> HIDE DEF p, n, s, l
<1>b. l >= n
  <2>1. 1 + l > n
    BY <1>2, <1>a
  <2> QED BY <1>2, <2>1
<1>c. s[1] = With("credential", q.ask.ids[l - n + 1])
  <2>1. s[1] = With("credential", q.ask.ids[1 + l - n])
    BY <1>2, <1>a, <1>b
  <2>2. 1 + l - n = l - n + 1
    BY <1>2
  <2> QED BY <2>1, <2>2
<1>d. id = q.ask.ids[l - n + 1]
  BY <1>c DEF With
<1>e. Behind(q) = l - n /\ l - n \in Nat
  <2>1. Behind(q) = IF n > l THEN 0 ELSE l - n
    BY DEF Behind, n, l, s
  <2> QED BY <1>2, <1>b, <2>1
<1>f. GivenFor(p, l - n + 1)
  <2> HIDE DEF id
  <2>1. \/ p.values = q.values \cup {id} /\ p.errors = q.errors
        \/ p.values = q.values /\ p.errors = q.errors \cup {id}
    BY <1>5, <1>6
  <2> QED BY <1>7, <1>9, <1>d, <1>e, <2>1, GivenOneMore
<1>g. ASSUME p.stage = "running" PROVE AsksForTheRest(p) /\ GivenFor(p, Behind(p))
  <2>1. n - 1 \in Nat
    BY <1>2
  <2>2. ASSUME NEW i \in 1..(n - 1)
        PROVE  IF i + l > n - 1 THEN p.todo[i] = With("credential", q.ask.ids[i + l - (n - 1)])
               ELSE p.todo[i].op # "credential"
    <3>1. i + 1 \in 1..n /\ (i + 1) + l > n /\ i + l - (n - 1) = (i + 1) + l - n
      BY <1>2, <1>b, <2>2
    <3>2. p.todo[i] = s[i + 1] /\ s[i + 1] = With("credential", q.ask.ids[(i + 1) + l - n])
      BY <1>6, <1>a, <3>1
    <3>3. i + l > n - 1
      BY <1>2, <1>b, <2>2
    <3> QED BY <3>1, <3>2, <3>3
  <2>3. AsksForTheRest(p)
    BY <1>6, <1>7, <2>2 DEF AsksForTheRest, l
  <2>4. Behind(p) = l - n + 1
    <3>1. Behind(p) = IF n - 1 > l THEN 0 ELSE l - (n - 1)
      BY <1>6, <1>7 DEF Behind, l
    <3> QED BY <1>2, <1>b, <3>1
  <2> QED BY <1>f, <2>3, <2>4
<1>h. ASSUME p.stage = "done" PROVE GivenFor(p, Len(p.ask.ids))
  <2>1. n = 1
    BY <1>6, <1>h
  <2>2. l - n + 1 = l
    BY <1>2, <2>1
  <2> QED BY <1>7, <1>f, <2>2 DEF l
<1> QED BY <1>6, <1>g, <1>h DEF Secrets

\* A request starts with all its identifiers before it.
LEMMA SecretsAsk ==
  ASSUME IInv, NEW r \in Req, Ask(r), Secrets(request[r])
  PROVE  Secrets(request'[r])
<1> DEFINE q == request[r]
           a == q.ask
           found == FindProfile(Configs[config].file, a.argument, IgnoreParseFromProfile(a))
           s == Command(found, a)
           p == [q EXCEPT !.stage = "running", !.todo = s, !.wanted = Wanted(s)]
           n == Len(s)
           l == Len(a.ids)
<1>1. q.stage = "idle" /\ DOMAIN q = Fields /\ a \in Asked /\ request'[r] = p
  BY RequestFields DEF Ask, IInv, Sound, IsRequest
<1> HIDE DEF s
<1>2. /\ p.stage = "running" /\ p.todo = s /\ p.ask = a /\ p.values = q.values
      /\ p.errors = q.errors
  <2> HIDE DEF q
  <2> QED BY <1>1 DEF Fields
<1> HIDE DEF p
<1> SUFFICES ASSUME a.command = "openclaw-secret", ~Doomed(s)
             PROVE  AsksForTheRest(p) /\ GivenFor(p, Behind(p))
  <2> HIDE DEF a, q
  <2> QED BY <1>1, <1>2 DEF Secrets
<1>3. q.values = {} /\ q.errors = {}
  BY <1>1 DEF Secrets
<1> HIDE DEF q, a
<1>4. /\ n >= l
      /\ \A i \in 1..n : IF i + l > n THEN s[i] = With("credential", a.ids[i + l - n])
                         ELSE s[i].op # "credential"
  BY <1>1, CommandAsks DEF s
<1>5. AsksForTheRest(p)
  BY <1>2, <1>4 DEF AsksForTheRest
<1>6. Behind(p) = 0
  <2>1. Behind(p) = IF n > l THEN 0 ELSE l - n
    BY <1>2 DEF Behind
  <2>2. n \in Nat /\ l \in Nat
    <3>1. PICK t, u : Leads(s, t, u)
      BY <1>1, CommandEnds, AskedIs DEF Ends, s
    <3>2. n \in Nat
      BY <3>1, PathLen DEF Leads
    <3> QED BY <1>1, <3>2, AskedIs
  <2> HIDE DEF n, l
  <2> QED BY <1>4, <2>1, <2>2
<1>7. GivenFor(p, 0)
  BY <1>2, <1>3, GivenNone
<1> QED BY <1>5, <1>6, <1>7

\* Of all requests.
AllSecrets == \A r \in Req : Secrets(request[r])

\* It holds at the start, and every step keeps it.
LEMMA SecretsInit == Init => AllSecrets
BY DEF Init, AllSecrets, Secrets

\* The steps, one by one.
LEMMA SecretsNext ==
  ASSUME IInv, AllSecrets, [Next]_vars
  PROVE  AllSecrets'
<1>1. ASSUME NEW r \in Req,
             Ask(r) \/ FetchStep(r) \/ CommandStep(r) \/ Fail(r) \/ Panic(r) \/ Crash(r)
      PROVE  AllSecrets'
  <2> DEFINE q == request[r]
             p == request'[r]
             h == Holds(r)
  <2>1. Secrets(q) /\ Sound(q, h)
    BY DEF AllSecrets, IInv
  <2>2. Secrets(p)
    <3>1. CASE Ask(r)
      BY <2>1, <3>1, SecretsAsk
    <3>2. CASE Credential(r)
      BY <2>1, <3>2, SecretsCredential
    <3>3. ASSUME q.stage = "running", Skips(q, p) PROVE Secrets(p)
      <4> HIDE DEF p, q, h
      <4> DEFINE changed == {"start", "val", "read"}
      <4>1. PICK v, k : /\ k \in 1..Len(q.todo) /\ Alike(v, q, changed)
                        /\ p = Left(v, From1(q.todo, k))
                        /\ q.todo[k].op \notin {"credential", "environment", "refuse", "panic"}
        BY <3>3 DEF Skips
      <4>2. changed \cap {"stage", "todo", "ask", "values", "errors"} = {}
        OBVIOUS
      <4> HIDE DEF changed
      <4>3. q.todo[k].op \notin {"credential", "refuse", "panic"}
        BY <4>1
      <4> QED BY <2>1, <3>3, <4>1, <4>2, <4>3, SecretsSkip
    <3>4. ASSUME q.stage = "running", Repeats(q, p) PROVE Secrets(p)
      <4> HIDE DEF p, q, h
      <4> QED BY <2>1, <3>4, SecretsRepeat
    <3>5. ASSUME q.stage = "running", Environment(r) PROVE Secrets(p)
      <4> DEFINE changed == {"environment"}
      <4>1. PICK w : Becomes(r, [q EXCEPT !.environment = w])
        BY <3>5 DEF Environment
      <4> DEFINE v == [q EXCEPT !.environment = w]
      <4>2. Alike(v, q, changed) /\ v.todo = q.todo
        <5>1. DOMAIN q = Fields
          BY RequestFields
        <5> HIDE DEF q
        <5> QED BY <5>1 DEF Alike, Fields
      <4>3. Head(q.todo).op = "environment"
        BY <3>5 DEF Environment, At
      <4>4. p = Left(v, Tail(v.todo))
        BY <4>1 DEF Becomes, Advance, IInv
      <4> HIDE DEF p, q, h, v
      <4>5. /\ 1 \in 1..Len(q.todo) /\ Tail(q.todo) = From1(q.todo, 1) /\ Head(q.todo) = q.todo[1]
        BY <2>1, <3>5, AtStart
      <4>6. p = Left(v, From1(q.todo, 1)) /\ q.todo[1].op \notin {"credential", "refuse", "panic"}
        BY <4>2, <4>3, <4>4, <4>5
      <4>7. changed \cap {"stage", "todo", "ask", "values", "errors"} = {}
        OBVIOUS
      <4> HIDE DEF changed
      <4> QED BY <2>1, <3>5, <4>2, <4>5, <4>6, <4>7, SecretsSkip
    <3>6. ASSUME p.stage = "failed" PROVE Secrets(p)
      BY <3>6 DEF Secrets
    <3> QED BY <1>1, <3>1, <3>2, <3>3, <3>4, <3>5, <3>6, StepOf
  <2>3. ASSUME NEW o \in Req PROVE Secrets(request'[o])
    <3>1. CASE o = r
      BY <2>2, <3>1
    <3>2. CASE o # r
      BY <1>1, <3>2, OneMoves DEF AllSecrets
    <3> QED BY <3>1, <3>2
  <2> QED BY <2>3 DEF AllSecrets
<1>2. CASE EditConfig \/ Tick \/ UNCHANGED vars
  BY <1>2 DEF EditConfig, Tick, vars, AllSecrets
<1> QED BY <1>1, <1>2 DEF Next

\* Every identifier an agent asks for gets a value or an error, and only one that
\* is asked for twice may get both (openclaw_secret/command.go:55-144).
THEOREM EverySecretIsAnswered == Spec => []SecretsAnswered
<1>1. Init => AllSecrets
  BY SecretsInit
<1>2. IInv /\ AllSecrets /\ [Next]_vars => AllSecrets'
  BY SecretsNext
<1>3. IInv /\ AllSecrets => SecretsAnswered
  <2> SUFFICES ASSUME IInv, AllSecrets, NEW r \in Req, request[r].stage = "done",
                      request[r].ask.command = "openclaw-secret"
               PROVE  LET q == request[r]
                          ids == q.ask.ids
                      IN /\ q.values \cup q.errors = {ids[i] : i \in DOMAIN ids}
                         /\ \A id \in q.values \cap q.errors :
                              \E i, j \in DOMAIN ids : i # j /\ ids[i] = id /\ ids[j] = id
    BY DEF SecretsAnswered
  <2>1. GivenFor(request[r], Len(request[r].ask.ids))
    BY DEF AllSecrets, Secrets
  <2>2. DOMAIN request[r].ask.ids = 1..Len(request[r].ask.ids)
    BY AskedIs DEF IInv, Sound, IsRequest
  <2> QED BY <2>1, <2>2 DEF GivenFor
<1> QED BY <1>1, <1>2, <1>3, Inductive, PTL DEF Spec

-----------------------------------------------------------------------------
(* The environment of a child process.                                     *)

\* A set of numbers up to n that is not empty has a greatest one.
LEMMA GreatestExists ==
  ASSUME NEW n \in Nat, NEW S, S \subseteq 0..n, S # {}
  PROVE  Max(S) \in S /\ \A x \in S : Max(S) >= x
<1> DEFINE T == {x \in 0..n : n - x \in S}
<1>1. T \subseteq Nat /\ T # {}
  <2>1. PICK x \in S : TRUE
    OBVIOUS
  <2>2. x \in Nat /\ x <= n
    OBVIOUS
  <2>3. n - x \in 0..n /\ n - (n - x) = x
    BY <2>2
  <2>4. n - x \in T
    BY <2>3
  <2>5. T \subseteq Nat
    OBVIOUS
  <2> HIDE DEF T
  <2> QED BY <2>4, <2>5
<1> DEFINE m == n - Min(T)
<1>2. Min(T) \in T /\ \A x \in T : Min(T) <= x
  <2> HIDE DEF T
  <2> QED BY <1>1, LeastExists
<1>3. m \in S /\ Min(T) \in 0..n
  BY <1>2
<1>4. ASSUME NEW x \in S PROVE m >= x
  <2>1. x \in Nat /\ x <= n
    OBVIOUS
  <2>2. n - x \in 0..n /\ n - (n - x) = x
    BY <2>1
  <2>3. n - x \in T
    BY <2>2
  <2>4. Min(T) <= n - x
    BY <1>2, <2>3
  <2> HIDE DEF T
  <2> QED BY <1>3, <2>1, <2>4
<1>5. S \subseteq Nat
  OBVIOUS
<1> HIDE DEF m
<1>6. Max(S) = m
  BY <1>3, <1>4, <1>5, GreatestOf
<1> QED BY <1>3, <1>4, <1>6

\* SetToSeq lists the elements of a set.
LEMMA ListOf ==
  ASSUME NEW S, IsFiniteSet(S)
  PROVE  LET f == SetToSeq(S)
         IN /\ IsSeq(f) /\ Len(f) \in Nat /\ \A i \in 1..Len(f) : f[i] \in S
            /\ \A x \in S : \E i \in 1..Len(f) : f[i] = x
<1> DEFINE n == Cardinality(S)
           f == SetToSeq(S)
<1>1. n \in Nat /\ ExistsBijection(1..n, S)
  BY FS_CardinalityType
<1>2. PICK g : g \in Bijection(1..n, S)
  BY <1>1 DEF ExistsBijection
<1>3. g \in [1..n -> S] /\ IsInjective(g)
  BY <1>2 DEF Bijection, Injection
<1>4. f \in [1..n -> S] /\ IsInjective(f)
  BY <1>3, Zenon DEF SetToSeq
<1> HIDE DEF f
<1>5. f \in Injection(1..n, S)
  BY <1>4 DEF Injection
<1>6. IsFiniteSet(1..n) /\ Cardinality(1..n) = n
  BY <1>1, FS_Interval
<1> HIDE DEF n
<1>7. f \in Surjection(1..n, S)
  BY <1>5, <1>6, FS_Injection DEF n
<1>8. \A x \in S : \E i \in 1..n : f[i] = x
  BY <1>7 DEF Surjection
<1>9. f \in Seq(S) /\ Len(f) = n
  BY <1>1, <1>4
<1>a. IsSeq(f)
  BY <1>9 DEF IsSeq
<1>b. \A i \in 1..n : f[i] \in S
  BY <1>4
<1>c. /\ IsSeq(f) /\ Len(f) \in Nat /\ \A i \in 1..Len(f) : f[i] \in S
      /\ \A x \in S : \E i \in 1..Len(f) : f[i] = x
  BY <1>1, <1>8, <1>9, <1>a, <1>b
<1> QED BY <1>c DEF f

\* The i-th pair of e has this name, and all of that name from there on have
\* this value.
Lasts(e, i, name, value) ==
  /\ i \in 1..Len(e) /\ e[i][1] = name
  /\ \A j \in i..Len(e) : e[j][1] = name => e[j][2] = value

\* The last value of a name counts.
LEMMA GetenvLast ==
  ASSUME NEW e, IsSeq(e), NEW name, NEW value, NEW i, Lasts(e, i, name, value)
  PROVE  Getenv(e, name) = value
<1> DEFINE n == Len(e)
           I == {j \in 1..n : e[j][1] = name}
           m == Max(I)
<1>0. /\ i \in 1..n /\ e[i][1] = name
      /\ \A j \in i..n : e[j][1] = name => e[j][2] = value
  BY DEF Lasts
<1>1. n \in Nat
  BY SeqIndices
<1>2. I \subseteq 0..n /\ i \in I
  BY <1>0, <1>1
<1>3. Getenv(e, name) = IF m = 0 THEN "" ELSE e[m][2]
  BY <1>2 DEF Getenv, SelectLastInSeq
<1>i. \A j \in I : j \in 1..n /\ e[j][1] = name
  OBVIOUS
<1> HIDE DEF I, n
<1>4. m \in I /\ m >= i
  BY <1>1, <1>2, GreatestExists
<1>5. m \in i..n /\ m # 0 /\ e[m][1] = name
  <2>1. m \in 1..n /\ e[m][1] = name
    BY <1>4, <1>i
  <2> HIDE DEF m
  <2> QED BY <1>0, <1>1, <1>4, <2>1
<1>6. e[m][2] = value
  <2> HIDE DEF m
  <2> QED BY <1>0, <1>5
<1> QED BY <1>3, <1>5, <1>6

\* What PutEnv adds.
LEMMA PutEnvIs ==
  ASSUME NEW names, IsFiniteSet(names), NEW value
  PROVE  LET f == PutEnv(names, value)
         IN /\ IsSeq(f) /\ Len(f) \in Nat
            /\ \A i \in 1..Len(f) : f[i][1] \in names /\ f[i][2] = value
            /\ \A name \in names : \E i \in 1..Len(f) : f[i][1] = name
<1> DEFINE S == {<<n, value>> : n \in names}
           f == PutEnv(names, value)
<1>1. IsFiniteSet(S)
  <2> DEFINE g == [n \in names |-> <<n, value>>]
  <2>1. g \in Surjection(names, S)
    BY DEF Surjection
  <2> HIDE DEF g, S
  <2> QED BY <2>1, FS_Surjection
<1>2. \A x \in S : x[1] \in names /\ x[2] = value
  OBVIOUS
<1>3. \A name \in names : <<name, value>> \in S
  OBVIOUS
<1>4. f = SetToSeq(S)
  BY DEF PutEnv
<1> HIDE DEF S, f
<1>5. /\ IsSeq(f) /\ Len(f) \in Nat /\ \A i \in 1..Len(f) : f[i] \in S
      /\ \A x \in S : \E i \in 1..Len(f) : f[i] = x
  BY <1>1, <1>4, ListOf
<1>6. \A i \in 1..Len(f) : f[i][1] \in names /\ f[i][2] = value
  BY <1>2, <1>5
<1>7. ASSUME NEW name \in names PROVE \E i \in 1..Len(f) : f[i][1] = name
  <2>1. PICK i \in 1..Len(f) : f[i] = <<name, value>>
    BY <1>3, <1>5
  <2> QED BY <2>1
<1>8. /\ IsSeq(f) /\ Len(f) \in Nat
      /\ \A i \in 1..Len(f) : f[i][1] \in names /\ f[i][2] = value
      /\ \A name \in names : \E i \in 1..Len(f) : f[i][1] = name
  BY <1>5, <1>6, <1>7
<1> QED BY <1>8 DEF f

\* The names a child is given are finitely many.
LEMMA FiniteNames ==
  ASSUME NEW kind
  PROVE  IsFiniteSet(CredentialNames(kind)) /\ IsFiniteSet(RegionNames(kind))
<1>1. \A x : IsFiniteSet({x})
  BY FS_Singleton
<1>2. ASSUME NEW x, NEW y, NEW z PROVE IsFiniteSet({x, y, z})
  <2>1. IsFiniteSet({x} \cup {y})
    BY <1>1, FS_AddElement
  <2>2. IsFiniteSet(({x} \cup {y}) \cup {z})
    BY <2>1, FS_AddElement
  <2>3. ({x} \cup {y}) \cup {z} = {x, y, z}
    OBVIOUS
  <2> QED BY <2>2, <2>3
<1> QED BY <1>1, <1>2 DEF CredentialNames, RegionNames

\* Whatever comes before, a child sees the token.
LEMMA ChildSees ==
  ASSUME NEW e, IsSeq(e), NEW kind, NEW region, NEW name \in CredentialNames(kind), NEW value
  PROVE  Getenv((e \o PutEnv(CredentialNames(kind), value)) \o PutEnvForRegion(kind, region),
                name) = value
<1> DEFINE c == PutEnv(CredentialNames(kind), value)
           d == PutEnvForRegion(kind, region)
           ec == e \o c
           all == ec \o d
<1>1. IsFiniteSet(CredentialNames(kind)) /\ IsFiniteSet(RegionNames(kind))
  BY FiniteNames
<1>2. /\ IsSeq(c) /\ Len(c) \in Nat
      /\ \A i \in 1..Len(c) : c[i][2] = value
      /\ \E i \in 1..Len(c) : c[i][1] = name
  BY <1>1, PutEnvIs
<1>3. IsSeq(d) /\ Len(d) \in Nat /\ \A i \in 1..Len(d) : d[i][1] \in RegionNames(kind)
  <2>1. CASE region = ""
    <3>1. IsSeq(<<>>) /\ Len(<<>>) = 0
      <4>1. <<>> \in Seq({}) /\ Len(<<>>) = 0
        OBVIOUS
      <4> QED BY <4>1 DEF IsSeq
    <3>2. d = <<>>
      BY <2>1 DEF PutEnvForRegion
    <3> HIDE DEF d
    <3> QED BY <3>1, <3>2
  <2>2. CASE region # ""
    <3>1. d = PutEnv(RegionNames(kind), region)
      BY <2>2 DEF PutEnvForRegion
    <3> HIDE DEF d
    <3> QED BY <1>1, <3>1, PutEnvIs
  <2> QED BY <2>1, <2>2
<1>4. name \notin RegionNames(kind)
  BY DEF CredentialNames, RegionNames
<1> HIDE DEF c, d
<1>5. /\ IsSeq(ec) /\ Len(e) \in Nat /\ Len(ec) = Len(e) + Len(c)
      /\ \A i \in 1..Len(c) : ec[Len(e) + i] = c[i]
  BY <1>2, Joined
<1> HIDE DEF ec
<1>6. /\ IsSeq(all) /\ Len(all) = Len(ec) + Len(d)
      /\ \A i \in 1..Len(ec) : all[i] = ec[i]
      /\ \A i \in 1..Len(d) : all[Len(ec) + i] = d[i]
  <2>1. IsSeq(ec) /\ IsSeq(d)
    BY <1>3, <1>5
  <2> QED BY <2>1, Joined
<1> HIDE DEF all
<1>7. PICK k \in 1..Len(c) : c[k][1] = name
  BY <1>2
<1> DEFINE i == Len(e) + k
<1>8. i \in 1..Len(ec) /\ i \in 1..Len(all)
  BY <1>2, <1>3, <1>5, <1>6
<1>9. all[i][1] = name
  BY <1>5, <1>6, <1>7, <1>8
<1>a. ASSUME NEW j \in i..Len(all), all[j][1] = name PROVE all[j][2] = value
  <2>1. CASE j <= Len(ec)
    <3>1. j - Len(e) \in 1..Len(c) /\ Len(e) + (j - Len(e)) = j /\ j \in 1..Len(ec)
      BY <1>2, <1>3, <1>5, <1>6, <2>1
    <3>2. all[j] = c[j - Len(e)]
      BY <1>5, <1>6, <3>1
    <3> QED BY <1>2, <3>1, <3>2
  <2>2. CASE ~(j <= Len(ec))
    <3>1. j - Len(ec) \in 1..Len(d) /\ Len(ec) + (j - Len(ec)) = j
      BY <1>2, <1>3, <1>5, <1>6, <2>2
    <3>2. all[j] = d[j - Len(ec)]
      BY <1>6, <3>1
    <3> QED BY <1>3, <1>4, <1>a, <3>1, <3>2
  <2> QED BY <2>1, <2>2
<1> HIDE DEF i
<1>b. Getenv(all, name) = value
  <2>1. Lasts(all, i, name, value)
    BY <1>8, <1>9, <1>a DEF Lasts
  <2> QED BY <1>6, <2>1, GetenvLast
<1> QED BY <1>b DEF all, ec, c, d

\* The child sees the token.
Sees(q) == \A name \in CredentialNames(q.val.kind) : Getenv(q.environment, name) = "token"

\* The settings have told a sequence of variables.
KnowsVariables(s) ==
  \A i \in 1..Len(s) : s[i].op = "environment" => IsSeq(s[i].environments)

\* The environment is made after everything has been fetched.
MakesEnvironment(s) ==
  \E e \in 1..Len(s) : s[e].op = "environment" /\ \A i \in e..Len(s) : s[i].op \notin FetchOps

\* No step of a fetch is left.
FetchesNothing(s) == \A i \in 1..Len(s) : s[i].op \notin FetchOps

\* Of execute: the environment is still to be made, when all is fetched, or the
\* child sees the token, and nothing is fetched any more.
Child(q) ==
  q.ask.command = "execute" =>
    /\ q.stage = "running" =>
         /\ KnowsVariables(q.todo)
         /\ \/ Doomed(q.todo)
            \/ MakesEnvironment(q.todo)
            \/ Sees(q) /\ FetchesNothing(q.todo)
    /\ q.stage = "done" => Sees(q)

\* The environment of a profile is a sequence.
LEMMA SettingsAre ==
  ASSUME NEW i \in DOMAIN Configs, NEW a \in Asked, NEW ignore,
         FindProfile(Configs[i].file, a.argument, ignore).settings # Nil
  PROVE  IsSeq(FindProfile(Configs[i].file, a.argument, ignore).settings.Environments)
<1> DEFINE c == FindProfile(Configs[i].file, a.argument, ignore).settings
<1>1. c \in CloudStsConfig
  BY FoundSettings
<1> HIDE DEF c
<1>2. c.Environments \in Seq(STRING \X STRING)
  BY <1>1 DEF CloudStsConfig
<1>3. IsSeq(c.Environments)
  BY <1>2 DEF IsSeq
<1> QED BY <1>3 DEF c

\* A fetch from a cloud uses no token.
LEMMA CloudUsesNothing ==
  ASSUME NEW name, NEW c, NEW a
  PROVE  LET s == FetchCloudSts(name, c, a)
         IN IsSeq(s) /\ Len(s) \in Nat /\ \A i \in 1..Len(s) : s[i].op \notin UseOps
<1> DEFINE s == FetchCloudSts(name, c, a)
<1>1. Fresh(Origin) /\ NoneOpen(Origin)
  BY OriginIs DEF Closing
<1>2. FetchesSome(s)
  BY CloudStsLeads
<1> HIDE DEF s
<1>3. PICK kind, grant, stage :
        kind \in TokenKinds /\ stage # 0 /\ Leads(s, Origin, Holding(Origin, kind, grant, stage))
  BY <1>1, <1>2 DEF FetchesSome
<1> DEFINE u == Holding(Origin, kind, grant, stage)
<1>4. u.phase = "fetch"
  BY DEF Holding, Point
<1> HIDE DEF u
<1>5. Leads(s, Origin, u)
  BY <1>3 DEF u
<1>6. IsSeq(s) /\ Len(s) \in Nat /\ \A i \in 1..Len(s) : s[i].op \notin UseOps
  BY <1>4, <1>5, UsesNothing
<1> QED BY <1>6 DEF s

\* The steps of execute.
LEMMA ExecuteMakes ==
  ASSUME NEW found, IsSeq(found.settings.Environments), NEW a
  PROVE  LET s == Execute(found, a) IN KnowsVariables(s) /\ MakesEnvironment(s)
<1> DEFINE x == [op |-> "environment", environments |-> found.settings.Environments]
           y == Step("format")
           run == Provided(a.args, <<Step("run command")>>)
           z == <<y, x>>
           fetch == FetchCloudSts(found.name, found.settings, a)
           s == Execute(found, a)
           m == Len(fetch)
<1>1. x.op = "environment" /\ IsSeq(x.environments) /\ y.op = "format"
  BY DEF Step
<1>2. s = (fetch \o z) \o run
  BY DEF Execute
<1>3. IsSeq(fetch) /\ m \in Nat /\ \A i \in 1..m : fetch[i].op \notin UseOps
  BY CloudUsesNothing
<1>4. IsSeq(run) /\ Len(run) = 1 /\ run[1].op \in {"refuse", "run command"}
  BY OneElement DEF Provided, Refuse, Step
<1> HIDE DEF x, y, run, fetch, s
<1>5. IsSeq(z) /\ Len(z) = 2 /\ z[1] = y /\ z[2] = x
  BY TwoElements
<1> HIDE DEF z
<1> DEFINE w == fetch \o z
<1>6. /\ IsSeq(w) /\ Len(w) = m + 2 /\ \A i \in 1..m : w[i] = fetch[i]
      /\ w[m + 1] = y /\ w[m + 2] = x
  <2>1. /\ IsSeq(w) /\ Len(w) = Len(fetch) + Len(z)
        /\ \A i \in 1..Len(fetch) : w[i] = fetch[i]
        /\ \A i \in 1..Len(z) : w[Len(fetch) + i] = z[i]
    <3>1. IsSeq(fetch) /\ IsSeq(z)
      BY <1>3, <1>5
    <3> QED BY <3>1, Joined
  <2>2. 1 \in 1..Len(z) /\ 2 \in 1..Len(z)
    BY <1>5
  <2> HIDE DEF w
  <2> QED BY <1>5, <2>1, <2>2
<1>7. s = w \o run
  BY <1>2
<1> HIDE DEF w, m
<1>8. /\ IsSeq(s) /\ Len(s) = m + 3 /\ \A i \in 1..m : s[i] = fetch[i]
      /\ s[m + 1] = y /\ s[m + 2] = x /\ s[m + 3] = run[1]
  <2>1. /\ IsSeq(w \o run) /\ Len(w \o run) = Len(w) + Len(run)
        /\ \A i \in 1..Len(w) : (w \o run)[i] = w[i]
        /\ \A i \in 1..Len(run) : (w \o run)[Len(w) + i] = run[i]
    <3>1. IsSeq(w) /\ IsSeq(run)
      BY <1>4, <1>6
    <3> QED BY <3>1, Joined
  <2>n. m \in Nat /\ Len(w) = m + 2 /\ Len(run) = 1
    BY <1>3, <1>4, <1>6
  <2>2. /\ \A i \in 1..m : i \in 1..Len(w)
        /\ m + 1 \in 1..Len(w) /\ m + 2 \in 1..Len(w) /\ 1 \in 1..Len(run)
        /\ Len(w) + 1 = m + 3
    BY <2>n
  <2>3. s[m + 3] = run[1]
    BY <1>7, <2>1, <2>2
  <2>4. Len(s) = m + 3
    BY <1>7, <2>1, <2>n
  <2> QED BY <1>6, <1>7, <2>1, <2>2, <2>3, <2>4
<1>9. ASSUME NEW i \in 1..Len(s) PROVE i \in 1..m \/ i = m + 1 \/ i = m + 2 \/ i = m + 3
  BY <1>3, <1>8
<1>a. KnowsVariables(s)
  <2> SUFFICES ASSUME NEW i \in 1..Len(s), s[i].op = "environment"
               PROVE  IsSeq(s[i].environments)
    BY DEF KnowsVariables
  <2>1. i \notin 1..m
    <3>1. "environment" \in UseOps
      BY DEF UseOps
    <3> QED BY <1>3, <1>8, <3>1
  <2>2. i # m + 1 /\ i # m + 3
    BY <1>1, <1>4, <1>8
  <2>3. i = m + 2
    BY <1>9, <2>1, <2>2
  <2> QED BY <1>1, <1>8, <2>3
<1>b. MakesEnvironment(s)
  <2>1. m + 2 \in 1..Len(s) /\ s[m + 2].op = "environment"
    BY <1>1, <1>3, <1>8
  <2>2. ASSUME NEW i \in (m + 2)..Len(s) PROVE s[i].op \notin FetchOps
    <3>1. i = m + 2 \/ i = m + 3
      BY <1>3, <1>8
    <3>2. s[i].op \in {"environment", "refuse", "run command"}
      BY <1>1, <1>4, <1>8, <3>1
    <3> QED BY <3>2 DEF FetchOps, AnswerOps
  <2> QED BY <2>1, <2>2 DEF MakesEnvironment
<1> QED BY <1>a, <1>b DEF s

\* The steps of execute.
LEMMA ExecuteIs ==
  ASSUME NEW found, NEW a, a.command = "execute"
  PROVE  \/ Command(found, a) = Refuse
         \/ Command(found, a) = Execute(found, a) /\ found.settings # Nil
<1>1. Command(found, a) = Refuse \/ Command(found, a) = Execute(found, a)
  BY DEF Command
<1>2. CASE found.settings = Nil
  <2>1. Command(found, a) = Refuse
    BY <1>2 DEF Command
  <2> QED BY <2>1
<1>3. CASE found.settings # Nil
  BY <1>1, <1>3
<1> QED BY <1>2, <1>3

\* It holds of a request that begins ...
LEMMA ChildAsk ==
  ASSUME IInv, NEW r \in Req, Ask(r)
  PROVE  Child(request'[r])
<1> DEFINE q == request[r]
           a == q.ask
           found == FindProfile(Configs[config].file, a.argument, IgnoreParseFromProfile(a))
           s == Command(found, a)
           p == [q EXCEPT !.stage = "running", !.todo = s, !.wanted = Wanted(s)]
<1>1. q.stage = "idle" /\ DOMAIN q = Fields /\ a \in Asked /\ request'[r] = p
      /\ config \in DOMAIN Configs
  BY RequestFields DEF Ask, IInv, Sound, IsRequest
<1>s. s = Command(found, a)
  OBVIOUS
<1> HIDE DEF s
<1>2. p.stage = "running" /\ p.todo = s /\ p.ask = a
  <2> HIDE DEF q
  <2> QED BY <1>1 DEF Fields
<1> HIDE DEF p
<1> SUFFICES ASSUME a.command = "execute"
             PROVE  KnowsVariables(s) /\ (Doomed(s) \/ MakesEnvironment(s))
  <2> HIDE DEF q
  <2> QED BY <1>1, <1>2 DEF Child
<1>f. found.settings # Nil => IsSeq(found.settings.Environments)
  <2> HIDE DEF a
  <2> QED BY <1>1, SettingsAre
<1> HIDE DEF q, a, found
<1>3. s = Refuse \/ (s = Execute(found, a) /\ found.settings # Nil)
  BY <1>s, ExecuteIs
<1>4. Doomed(Refuse) /\ KnowsVariables(Refuse)
  <2> DEFINE x == Step("refuse")
             t == <<x>>
  <2>1. Len(t) = 1 /\ t[1] = x
    BY OneElement
  <2>2. x.op = "refuse"
    BY DEF Step
  <2>3. Refuse = t
    BY DEF Refuse
  <2> HIDE DEF t, x
  <2>4. \A i \in 1..Len(t) : t[i].op # "environment"
    BY <2>1, <2>2
  <2> QED BY <2>1, <2>2, <2>3, <2>4 DEF Doomed, KnowsVariables
<1>5. CASE s = Execute(found, a) /\ found.settings # Nil
  BY <1>f, <1>5, ExecuteMakes
<1> QED BY <1>3, <1>4, <1>5

\* ... is kept by steps that set no environment ...
LEMMA ChildSkip ==
  ASSUME NEW q, NEW h, Sound(q, h), q.stage = "running", Child(q), NEW v,
         NEW k \in 1..Len(q.todo), NEW changed,
         changed \cap {"stage", "todo", "ask", "environment"} = {}, Alike(v, q, changed),
         q.todo[k].op \notin {"environment", "refuse", "panic"},
         q.todo[k].op \notin FetchOps => k = 1 /\ v.val = q.val
  PROVE  Child(Left(v, From1(q.todo, k)))
<1> DEFINE p == Left(v, From1(q.todo, k))
           s == q.todo
           n == Len(s)
           z == p.todo
<1>1. n \in Nat
  BY AtStart
<1>2. /\ k \in 1..n /\ s[k].op \notin {"environment", "refuse", "panic"}
      /\ s[k].op \notin FetchOps => k = 1 /\ v.val = q.val
  OBVIOUS
<1>3. /\ Alike(p, q, {"stage", "todo", "start", "read"} \cup changed) /\ p.val = v.val
      /\ p.values = v.values /\ p.errors = v.errors /\ p.environment = v.environment
      /\ IsSeq(p.todo) /\ Len(p.todo) = Len(q.todo) - k
      /\ \A i \in 1..(Len(q.todo) - k) : p.todo[i] = q.todo[i + k]
      /\ p.stage \in {"running", "done"}
      /\ p.stage = "done" <=> k = Len(q.todo)
  <2>1. "stage" \notin changed /\ "todo" \notin changed
    OBVIOUS
  <2> QED BY <2>1, StepsLeft, Zenon
<1>4. p.ask = q.ask /\ p.environment = q.environment
  <2> HIDE DEF p
  <2> QED BY <1>3 DEF Alike, Fields
<1>e. q.ask.command # "execute" => Child(p)
  <2> HIDE DEF p
  <2> QED BY <1>4 DEF Child
<1> SUFFICES ASSUME q.ask.command = "execute" PROVE Child(p)
  BY <1>e
<1>5. KnowsVariables(s) /\ (Doomed(s) \/ MakesEnvironment(s) \/ (Sees(q) /\ FetchesNothing(s)))
  BY DEF Child
<1>6. Len(z) = n - k /\ \A i \in 1..(n - k) : z[i] = s[i + k] /\ i + k \in 1..n
  <2> HIDE DEF p
  <2> QED BY <1>1, <1>2, <1>3
<1>7. p.stage \in {"running", "done"} /\ (p.stage = "done" <=> k = n) /\ p.val = v.val
  <2> HIDE DEF p
  <2> QED BY <1>3
<1> HIDE DEF p, s, n, z
<1>8. KnowsVariables(z)
  BY <1>5, <1>6 DEF KnowsVariables, n
<1>9. ~Doomed(s)
  <2>1. ASSUME Len(s) = 1 PROVE k = 1
    BY <1>2, <2>1 DEF n
  <2> QED BY <1>2, <2>1 DEF Doomed
<1>a. CASE MakesEnvironment(s)
  <2>1. PICK e \in 1..n : s[e].op = "environment" /\ \A i \in e..n : s[i].op \notin FetchOps
    BY <1>a DEF MakesEnvironment, n
  <2>2. k < e
    <3>1. CASE s[k].op \in FetchOps
      <4>1. k \notin e..n
        BY <2>1, <3>1
      <4> QED BY <1>1, <1>2, <2>1, <4>1
    <3>2. CASE s[k].op \notin FetchOps
      <4>1. k = 1 /\ e # k
        BY <1>2, <2>1, <3>2
      <4> QED BY <2>1, <4>1
    <3> QED BY <3>1, <3>2
  <2>3. e - k \in 1..(n - k) /\ (e - k) + k = e /\ k # n
    BY <1>1, <1>2, <2>1, <2>2
  <2>4. ASSUME NEW i \in (e - k)..(n - k) PROVE z[i].op \notin FetchOps
    <3>1. i \in 1..(n - k) /\ i + k \in e..n
      BY <1>1, <1>2, <2>1, <2>2, <2>4
    <3> QED BY <1>6, <2>1, <3>1
  <2>5. MakesEnvironment(z)
    <3>1. z[e - k].op = "environment"
      BY <1>6, <2>1, <2>3
    <3> QED BY <1>6, <2>3, <2>4, <3>1 DEF MakesEnvironment
  <2> QED BY <1>7, <1>8, <2>3, <2>5 DEF Child, z
<1>b. CASE Sees(q) /\ FetchesNothing(s)
  <2>1. s[k].op \notin FetchOps
    BY <1>2, <1>b DEF FetchesNothing, n
  <2>2. p.val = q.val
    BY <1>2, <1>7, <2>1
  <2>3. Sees(p)
    BY <1>4, <1>b, <2>2 DEF Sees
  <2>4. FetchesNothing(z)
    BY <1>6, <1>b DEF FetchesNothing, n
  <2> QED BY <1>7, <1>8, <2>3, <2>4 DEF Child, z
<1> QED BY <1>5, <1>9, <1>a, <1>b

\* ... by a second try ...
LEMMA ChildRepeat ==
  ASSUME NEW q, NEW h, Sound(q, h), q.stage = "running", Child(q), NEW p, Repeats(q, p)
  PROVE  Child(p)
<1> DEFINE s == q.todo
           z == [s EXCEPT ![1] = Again(s[1])]
           n == Len(s)
<1>1. /\ n \in Nat /\ 1 \in 1..n /\ DOMAIN q = Fields /\ s[1].op = "token"
      /\ p = [q EXCEPT !.todo = z]
  BY AtStart DEF Repeats
<1>2. PICK points : Path(s, points)
  BY AtStart DEF Promise
<1>3. /\ Len(z) = n /\ \A i \in 1..n : i # 1 => z[i] = s[i]
      /\ z[1] = Again(s[1])
  BY <1>1, <1>2, PathAgain
<1>4. z[1].op = "token"
  <2>1. Flow(s[1], points[1], points[1 + 1])
    BY <1>1, <1>2 DEF Path
  <2> QED BY <1>1, <1>3, <2>1, AgainFlow
<1> HIDE DEF z
<1>5. p.todo = z /\ p.ask = q.ask /\ p.stage = "running"
  BY <1>1 DEF Fields
<1> SUFFICES ASSUME q.ask.command = "execute"
             PROVE  KnowsVariables(z) /\ MakesEnvironment(z)
  BY <1>5 DEF Child
<1>6. KnowsVariables(s) /\ (Doomed(s) \/ MakesEnvironment(s) \/ (Sees(q) /\ FetchesNothing(s)))
  BY DEF Child
<1>7. s[1].op \in FetchOps
  BY <1>1 DEF FetchOps, AnswerOps
<1> HIDE DEF s, n
<1>8. ~Doomed(s) /\ ~FetchesNothing(s)
  BY <1>1, <1>7 DEF Doomed, FetchesNothing, n
<1>9. PICK e \in 1..n : s[e].op = "environment" /\ \A i \in e..n : s[i].op \notin FetchOps
  BY <1>6, <1>8 DEF MakesEnvironment, n
<1>a. e # 1 /\ \A i \in e..n : i \in 1..n /\ i # 1
  <2>1. e # 1
    BY <1>1, <1>9
  <2> QED BY <1>1, <2>1
<1>b. MakesEnvironment(z)
  <2>1. z[e].op = "environment" /\ \A i \in e..n : z[i].op \notin FetchOps
    BY <1>3, <1>9, <1>a
  <2> QED BY <1>3, <2>1 DEF MakesEnvironment
<1>c. KnowsVariables(z)
  BY <1>3, <1>4, <1>6 DEF KnowsVariables, n
<1> QED BY <1>b, <1>c

\* ... is what the step that sets it makes true ...
LEMMA ChildEnvironment ==
  ASSUME IInv, NEW r \in Req, Environment(r), Child(request[r])
  PROVE  Child(request'[r])
<1> DEFINE q == request[r]
           h == Holds(r)
           s == q.todo
           n == Len(s)
           new == PutEnvForToken(OsEnv, s[1].environments, q.val.kind, "token", q.ask.region)
           v == [q EXCEPT !.environment = new]
           changed == {"environment"}
           p == Left(v, From1(s, 1))
<1>1. Sound(q, h) /\ q.stage = "running" /\ Head(s).op = "environment"
  BY DEF IInv, Environment, At
<1> HIDE DEF h
<1>2. /\ n \in Nat /\ 1 \in 1..n /\ DOMAIN q = Fields /\ s[1].op = "environment"
      /\ Head(s) = s[1] /\ Tail(s) = From1(s, 1)
  BY <1>1, AtStart
<1>3. request'[r] = p
  <2>1. Becomes(r, v)
    BY <1>2 DEF Environment
  <2>2. v.todo = s
    BY <1>2 DEF Fields
  <2> HIDE DEF v
  <2> QED BY <1>2, <2>1, <2>2 DEF IInv, Becomes, Advance
<1>q. Child(q)
  OBVIOUS
<1> HIDE DEF q
<1>4. Alike(v, q, changed) /\ v.environment = new
  BY <1>2 DEF Alike, Fields
<1> HIDE DEF v
<1>5. /\ Alike(p, q, {"stage", "todo", "start", "read"} \cup changed) /\ p.val = v.val
      /\ p.values = v.values /\ p.errors = v.errors /\ p.environment = v.environment
      /\ IsSeq(p.todo) /\ Len(p.todo) = Len(q.todo) - 1
      /\ \A i \in 1..(Len(q.todo) - 1) : p.todo[i] = q.todo[i + 1]
      /\ p.stage \in {"running", "done"}
      /\ p.stage = "done" <=> 1 = Len(q.todo)
  <2>1. "stage" \notin changed /\ "todo" \notin changed
    OBVIOUS
  <2> HIDE DEF changed
  <2> QED BY <1>1, <1>2, <1>4, <2>1, StepsLeft, Zenon
<1>6. p.ask = q.ask /\ p.val = q.val /\ p.environment = new
  BY <1>4, <1>5 DEF Alike, Fields
<1> DEFINE z == p.todo
<1> SUFFICES ASSUME q.ask.command = "execute" PROVE Child(p)
  <2> HIDE DEF p
  <2> QED BY <1>3, <1>6 DEF Child
<1>7. KnowsVariables(s) /\ (Doomed(s) \/ MakesEnvironment(s) \/ (Sees(q) /\ FetchesNothing(s)))
  BY <1>1, <1>q DEF Child
<1>8. Sees(p)
  <2>1. IsSeq(s[1].environments) /\ IsSeq(OsEnv)
    BY <1>2, <1>7, OsEnvAssumption DEF KnowsVariables, IsSeq
  <2>2. ASSUME NEW name \in CredentialNames(q.val.kind) PROVE Getenv(new, name) = "token"
    <3> DEFINE e == OsEnv \o s[1].environments
    <3>1. IsSeq(e)
      BY <2>1, Joined
    <3>2. new = (e \o PutEnv(CredentialNames(q.val.kind), "token"))
                  \o PutEnvForRegion(q.val.kind, q.ask.region)
      BY DEF PutEnvForToken, AddEnvironmentsFromConfig
    <3> HIDE DEF e, new
    <3> QED BY <3>1, <3>2, ChildSees
  <2> HIDE DEF new, p
  <2> QED BY <1>6, <2>2 DEF Sees
<1>9. Len(z) = n - 1 /\ \A i \in 1..(n - 1) : z[i] = s[i + 1] /\ i + 1 \in 1..n
  BY <1>2, <1>5
<1>a. p.stage \in {"running", "done"} /\ (p.stage = "done" <=> n = 1)
  BY <1>5
<1> HIDE DEF p, z, n, s
<1>b. KnowsVariables(z)
  BY <1>7, <1>9 DEF KnowsVariables, n
<1>c. MakesEnvironment(z) \/ FetchesNothing(z)
  <2>1. ~Doomed(s)
    BY <1>2 DEF Doomed
  <2>2. CASE FetchesNothing(s)
    BY <1>9, <2>2 DEF FetchesNothing, n
  <2>3. CASE MakesEnvironment(s)
    <3>1. PICK e \in 1..n : s[e].op = "environment" /\ \A i \in e..n : s[i].op \notin FetchOps
      BY <2>3 DEF MakesEnvironment, n
    <3>2. CASE e = 1
      BY <1>9, <3>1, <3>2 DEF FetchesNothing
    <3>3. CASE e # 1
      <4>1. e - 1 \in 1..(n - 1) /\ (e - 1) + 1 = e
        BY <1>2, <3>1, <3>3
      <4>2. ASSUME NEW i \in (e - 1)..(n - 1) PROVE z[i].op \notin FetchOps
        <5>1. i \in 1..(n - 1) /\ i + 1 \in e..n
          BY <1>2, <4>1, <4>2
        <5> QED BY <1>9, <3>1, <5>1
      <4>3. z[e - 1].op = "environment"
        BY <1>9, <3>1, <4>1
      <4> QED BY <1>9, <4>1, <4>2, <4>3 DEF MakesEnvironment
    <3> QED BY <3>2, <3>3
  <2> QED BY <1>7, <2>1, <2>2, <2>3
<1> QED BY <1>8, <1>a, <1>b, <1>c DEF Child, z

\* ... and is kept by the others.
LEMMA ChildCredential ==
  ASSUME IInv, NEW r \in Req, Credential(r), Child(request[r])
  PROVE  Child(request'[r])
<1> DEFINE q == request[r]
           h == Holds(r)
           s == q.todo
           id == s[1].with
           v == [q EXCEPT !.values = q.values \cup {id}]
           w == [q EXCEPT !.errors = q.errors \cup {id}]
           changed == {"values", "errors"}
<1>1. Sound(q, h) /\ q.stage = "running" /\ Head(s).op = "credential" /\ Child(q)
  BY DEF IInv, Credential, At
<1> HIDE DEF h
<1>2. /\ 1 \in 1..Len(s) /\ DOMAIN q = Fields /\ s[1].op = "credential"
      /\ Head(s) = s[1] /\ Tail(s) = From1(s, 1)
  BY <1>1, AtStart
<1>3. Becomes(r, v) \/ Becomes(r, w)
  BY <1>2 DEF Credential, Fields
<1>4. PICK x \in {v, w} : request'[r] = Left(x, From1(s, 1))
  <2>1. v.todo = s /\ w.todo = s
    BY <1>2 DEF Fields
  <2> HIDE DEF v, w
  <2> QED BY <1>2, <1>3, <2>1 DEF IInv, Becomes, Advance
<1> HIDE DEF q
<1>5. Alike(x, q, changed) /\ x.val = q.val
  BY <1>2, <1>4 DEF Alike, Fields
<1>6. /\ changed \cap {"stage", "todo", "ask", "environment"} = {}
      /\ s[1].op \notin {"environment", "refuse", "panic"}
  BY <1>2
<1> HIDE DEF v, w, changed
<1>7. Child(Left(x, From1(q.todo, 1)))
  BY <1>1, <1>2, <1>5, <1>6, ChildSkip
<1> QED BY <1>4, <1>7

\* Of all requests.
AllChildren == \A r \in Req : Child(request[r])

\* It holds at the start, and every step keeps it.
LEMMA ChildInit == Init => AllChildren
BY DEF Init, AllChildren, Child

\* The steps, one by one.
LEMMA ChildNext ==
  ASSUME IInv, AllChildren, [Next]_vars
  PROVE  AllChildren'
<1>1. ASSUME NEW r \in Req,
             Ask(r) \/ FetchStep(r) \/ CommandStep(r) \/ Fail(r) \/ Panic(r) \/ Crash(r)
      PROVE  AllChildren'
  <2> DEFINE q == request[r]
             p == request'[r]
             h == Holds(r)
  <2>1. Child(q) /\ Sound(q, h)
    BY DEF AllChildren, IInv
  <2>2. Child(p)
    <3>1. CASE Ask(r)
      BY <3>1, ChildAsk
    <3>2. ASSUME Credential(r), q.stage = "running" PROVE Child(p)
      BY <2>1, <3>2, ChildCredential
    <3>3. ASSUME q.stage = "running", Skips(q, p) PROVE Child(p)
      <4> HIDE DEF p, q, h
      <4> DEFINE changed == {"start", "val", "read"}
      <4>1. PICK v, k : /\ k \in 1..Len(q.todo) /\ Alike(v, q, changed)
                        /\ p = Left(v, From1(q.todo, k))
                        /\ q.todo[k].op \notin {"credential", "environment", "refuse", "panic"}
                        /\ q.todo[k].op \notin FetchOps => k = 1 /\ v.val = q.val
        BY <3>3 DEF Skips
      <4>2. changed \cap {"stage", "todo", "ask", "environment"} = {}
        OBVIOUS
      <4> HIDE DEF changed
      <4>3. q.todo[k].op \notin {"environment", "refuse", "panic"}
        BY <4>1
      <4> QED BY <2>1, <3>3, <4>1, <4>2, <4>3, ChildSkip
    <3>4. ASSUME q.stage = "running", Repeats(q, p) PROVE Child(p)
      <4> HIDE DEF p, q, h
      <4> QED BY <2>1, <3>4, ChildRepeat
    <3>5. ASSUME q.stage = "running", Environment(r) PROVE Child(p)
      BY <2>1, <3>5, ChildEnvironment
    <3>6. ASSUME p.stage = "failed" PROVE Child(p)
      BY <3>6 DEF Child
    <3> QED BY <1>1, <3>1, <3>2, <3>3, <3>4, <3>5, <3>6, StepOf
  <2>3. ASSUME NEW o \in Req PROVE Child(request'[o])
    <3>1. CASE o = r
      BY <2>2, <3>1
    <3>2. CASE o # r
      BY <1>1, <3>2, OneMoves DEF AllChildren
    <3> QED BY <3>1, <3>2
  <2> QED BY <2>3 DEF AllChildren
<1>2. CASE EditConfig \/ Tick \/ UNCHANGED vars
  BY <1>2 DEF EditConfig, Tick, vars, AllChildren
<1> QED BY <1>1, <1>2 DEF Next

\* The child of execute sees the credentials that were fetched, whatever is in
\* the environment it inherits and in the profile (execute/command.go:147-213).
THEOREM ChildGetsItsToken == Spec => []ChildHasItsToken
<1>1. Init => AllChildren
  BY ChildInit
<1>2. IInv /\ AllChildren /\ [Next]_vars => AllChildren'
  BY ChildNext
<1>3. AllChildren => ChildHasItsToken
  BY DEF AllChildren, Child, ChildHasItsToken, Sees
<1> QED BY <1>1, <1>2, <1>3, Inductive, PTL DEF Spec
=============================================================================
