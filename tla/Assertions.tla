----------------------------- MODULE Assertions -----------------------------
(***************************************************************************)
(* What a client shows to the token endpoint instead of a secret: a JWT    *)
(* signed by a key file, a token, a card or an external program, or a      *)
(* document of the cloud the program runs in.  Each method is the sequence *)
(* of its steps, every one of which may fail and end the request there.    *)
(*                                                                         *)
(* A step is a record: op says what is done, with what it is done with.    *)
(* "refuse" is a check of the settings that fails, "panic" a nil pointer   *)
(* that is always met; TokenRequest!MayPanic names the steps that may.     *)
(***************************************************************************)
EXTENDS Settings

CONSTANT KeyIn  \* what a key, a key file, a slot or a program signs with:
                \* records with fields form ("pem", "encrypted", "base64", or
                \* "dashes" for what is none of them) and kind

Step(op) == [op |-> op, with |-> ""]

With(op, x) == [op |-> op, with |-> x]

Refuse == <<Step("refuse")>>

\* The steps, if the settings pass the checks.
Provided(ok, steps) == IF ok THEN steps ELSE Refuse

\* More steps, after a check that may have refused.
Then(first, rest) == IF first = Refuse THEN Refuse ELSE first \o rest

-----------------------------------------------------------------------------
(* Algorithms and the form of ECDSA signatures.                            *)

Rsa == {"RS256", "RS384", "RS512"}

Ecc == {"ES256", "ES384", "ES512"}

JwtSignAlgorithm == Rsa \cup Ecc

\* A key fits an algorithm by its type and, for ECDSA, by its curve.
KeyFits(kind, alg) ==
  \/ kind = "RSA" /\ alg \in Rsa
  \/ kind = "P-256" /\ alg = "ES256"
  \/ kind = "P-384" /\ alg = "ES384"
  \/ kind = "P-521" /\ alg = "ES512"

\* The bytes of a coordinate of a curve.
CoordLen(kind) == CASE kind = "P-256" -> 32 [] kind = "P-384" -> 48 [] kind = "P-521" -> 66

\* A slip: a coordinate that lost its leading zero is taken as it is.
AlignedUnpadded(n) ==
  CASE n \in 32..33 -> 32 [] n \in 48..49 -> 48 [] n \in 66..67 -> 66 [] OTHER -> n

\* The length of a coordinate after alignEcCoord.
Aligned(n) ==
  CASE n \in 30..33 -> 32 [] n \in 46..49 -> 48 [] n \in 64..67 -> 66 [] OTHER -> n

\* The length of the signature that ParseECDSASignatureToRs makes of R and S
\* with r and s bytes, 0 standing for an error.
SignatureLen(r, s) ==
  LET n == Aligned(r) + Aligned(s) IN IF n \in {64, 96, 128} THEN n ELSE 0

\* The lengths a JWT's signature may end up with, 0 standing for an error.
\* Only ECDSA signatures are converted, and nothing asks what signed them.
\* One or two leading zeros in R or S are the boundary; three have a chance
\* of one in 2^24.
RawLen == 256

JwtSignature(alg, kind) ==
  IF alg \in Rsa THEN {RawLen}
  ELSE IF kind = "RSA" THEN {0}
  ELSE LET short == (CoordLen(kind) - 2)..CoordLen(kind)
       IN {SignatureLen(r, s) : r \in short, s \in short}

-----------------------------------------------------------------------------
(* The signers: what they do when they are made, and to sign.              *)

Sign(alg, signedBy) == [op |-> "sign", with |-> alg, kind |-> KeyIn[signedBy].kind]

LoadKey(c) ==
  LET source == IF c.Key = "" THEN c.File ELSE c.Key
      key == KeyIn[source]
  IN (IF c.Key = "" THEN <<With("read file", c.File)>> ELSE <<>>) \o
     CASE key.form = "dashes" -> <<Step("panic")>>
       [] key.form = "encrypted" -> <<With("decrypt", c.Password)>>
       [] OTHER -> <<>>

KeyFileSign(c, alg) ==
  LET source == IF c.Key = "" THEN c.File ELSE c.Key
  IN LoadKey(c) \o
     Provided(KeyFits(KeyIn[source].kind, alg), <<Sign(alg, source)>>)

NewKeyFileSigner(c) ==
  Provided((c.Key = "") # (c.File = ""), <<>>)

NewPkcs11Signer(c) ==
  Provided(c.LibraryPath # "" /\ c.TokenLabel # "" /\ c.KeyLabel # "", <<>>)

\* The library answers for a key that is not there with nil and no error.
Pkcs11Sign(c, alg) ==
  <<Step("open token"), With("find key pair", c.KeyLabel), Sign(alg, c.KeyLabel), Step("close")>>

NewExCommandSigner(c) == Provided(c.Command # "" /\ c.Parameter # "", <<>>)

ExternalSign(c, alg) == <<With("run signer", c.Command), Sign(alg, c.Command)>>

\* The full names are listed without a body of their own, so that they come
\* to the test for a retired slot and fail it.  That test takes either case;
\* the sign and the zeros it also takes before the number are left out.
SlotId ==
  {"auth", "sign", "cardAuth"} \cup {r \o ToString(n) : r \in {"r", "R"}, n \in 1..20}

PinPolicy == {"never", "once", "always"}

\* A slip: the card is left open once the certificate is read.
NewYubiKeyPivSignerLeavesOpen(c) ==
  Provided(c.Slot \in SlotId /\ c.PinPolicy \in PinPolicy,
           <<Step("open card"), Step("certificate")>>)

NewYubiKeyPivSigner(c) ==
  Provided(c.Slot \in SlotId /\ c.PinPolicy \in PinPolicy,
           <<Step("open card"), Step("certificate"), Step("close")>>)

YubiKeyPivSign(c, alg) ==
  <<Step("open card"), With("find key", c.Slot), Sign(alg, c.Slot), Step("close")>>

\* Making the signer, making the claims, signing.
SignJwt(c) ==
  LET alg == c.Algorithm
      chosen == {s \in {"Pkcs11", "YubikeyPiv", "ExternalCommand", "KeyFile"} : c[s] # Nil}
      claims == <<Step("claims")>>
  IN IF c = Nil THEN Refuse
     ELSE IF alg \notin JwtSignAlgorithm THEN Refuse
     ELSE CASE chosen = {"Pkcs11"} ->
                 Then(NewPkcs11Signer(c.Pkcs11), claims \o Pkcs11Sign(c.Pkcs11, alg))
            [] chosen = {"YubikeyPiv"} ->
                 Then(NewYubiKeyPivSigner(c.YubikeyPiv),
                      claims \o YubiKeyPivSign(c.YubikeyPiv, alg))
            [] chosen = {"ExternalCommand"} ->
                 Then(NewExCommandSigner(c.ExternalCommand),
                      claims \o ExternalSign(c.ExternalCommand, alg))
            [] chosen = {"KeyFile"} ->
                 Then(NewKeyFileSigner(c.KeyFile), claims \o KeyFileSign(c.KeyFile, alg))
            [] OTHER -> Refuse

-----------------------------------------------------------------------------
(* The other assertions.                                                   *)

ReadCertificate(text, file) ==
  IF text # "" THEN <<>>
  ELSE Provided(file # "", <<With("read file", file)>>)

\* The answer of Azure must be JSON in an encoding that is known, those of
\* the others are taken as they are if they are not base64.
FetchPkcs7(c) ==
  CASE c.Provider = "alibaba_cloud" /\ c.AlibabaCloudMode = "secure" ->
         <<Step("metadata token"), Step("metadata")>>
    [] c.Provider = "alibaba_cloud" /\ c.AlibabaCloudMode \in {"", "normal"} ->
         <<Step("metadata")>>
    [] c.Provider = "aws" -> <<Step("metadata token"), Step("metadata")>>
    [] c.Provider = "azure" -> <<Step("metadata"), Step("decode")>>
    [] OTHER -> Refuse

FetchOidcToken(c) ==
  CASE c.Provider = "gcp" -> <<Step("metadata")>>
    [] c.Provider = "custom" /\ c.OidcToken # "" /\ c.OidcTokenFile = "" -> <<>>
    [] c.Provider = "custom" /\ c.OidcToken = "" /\ c.OidcTokenFile # "" ->
         <<With("read file", c.OidcTokenFile)>>
    [] OTHER -> Refuse

PrivateCa(c) ==
  ReadCertificate(c.Certificate, c.CertificateFile) \o
  ReadCertificate(c.CertificateChain, c.CertificateChainFile) \o
  SignJwt(c.CertificateKeySigner)
=============================================================================
