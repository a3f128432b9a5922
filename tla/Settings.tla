------------------------------ MODULE Settings ------------------------------
(***************************************************************************)
(* The configuration file: its structure, how a command finds its profile  *)
(* in it, and the digests of settings that name the cache files.           *)
(*                                                                         *)
(* A hash is the text it is made of, in brackets: two hashes are equal     *)
(* exactly if the same text was fed to them.  As in the code the fields    *)
(* are joined with nothing between them: "ab" and "c" make the digest that *)
(* "a" and "bc" make, and an empty field leaves no trace.                  *)
(* A nil pointer is Nil.  The fields that only tell the SDK of open_api    *)
(* how to sign in are one field, Credential.                               *)
(***************************************************************************)
EXTENDS Naturals, Sequences, SequencesExt

CONSTANT Nil

Option(S) == S \cup {Nil}

-----------------------------------------------------------------------------
(* The structure of the file.                                              *)

ExSignerPkcs11Config ==
  [LibraryPath: STRING, TokenLabel: STRING, KeyLabel: STRING, Pin: STRING]

ExSignerYubikeyPivConfig == [Slot: STRING, Pin: STRING, PinPolicy: STRING]

ExSignerExternalCommandConfig == [Command: STRING, Parameter: STRING]

ExSingerKeyFileConfig == [Key: STRING, File: STRING, Password: STRING]

ExSingerConfig ==
  [KeyID: STRING, Algorithm: STRING,
   Pkcs11: Option(ExSignerPkcs11Config),
   YubikeyPiv: Option(ExSignerYubikeyPivConfig),
   ExternalCommand: Option(ExSignerExternalCommandConfig),
   KeyFile: Option(ExSingerKeyFileConfig)]

Pkcs7Config ==
  [Provider: STRING, AlibabaCloudMode: STRING, AlibabaCloudIdaasInstanceId: STRING]

PrivateCaConfig ==
  [Certificate: STRING, CertificateFile: STRING,
   CertificateChain: STRING, CertificateChainFile: STRING,
   CertificateKeySigner: Option(ExSingerConfig)]

OidcTokenConfig ==
  [Provider: STRING, GoogleVmIdentityUrl: STRING, GoogleVmIdentityAud: STRING,
   OidcToken: STRING, OidcTokenFile: STRING]

ClientCredentialsConfig ==
  [TokenEndpoint: STRING, ClientId: STRING, Scope: STRING,
   ApplicationFederatedCredentialName: STRING, ClientSecret: STRING,
   ClientAssertionSinger: Option(ExSingerConfig),
   ClientAssertionPkcs7Config: Option(Pkcs7Config),
   ClientAssertionPrivateCaConfig: Option(PrivateCaConfig),
   ClientAssertionOidcTokenConfig: Option(OidcTokenConfig)]

DeviceCodeConfig ==
  [Issuer: STRING, ClientId: STRING, Scope: STRING, ClientSecret: STRING]

OpenApiConfig ==
  [InstanceId: STRING, ApplicationId: STRING, ScopeValues: Seq(STRING),
   Audience: STRING, OpenApiEndpoint: STRING, Type: STRING, Credential: STRING]

OidcTokenProviderConfig ==
  [TokenType: STRING,
   ClientCredentials: Option(ClientCredentialsConfig),
   DeviceCode: Option(DeviceCodeConfig),
   OpenApi: Option(OpenApiConfig)]

AlibabaCloudStsConfig ==
  [Region: STRING, StsEndpoint: STRING, OidcProviderArn: STRING, RoleArn: STRING,
   DurationSeconds: STRING, RoleSessionName: STRING,
   OidcTokenProvider: Option(OidcTokenProviderConfig)]

AwsCloudStsConfig ==
  [Region: STRING, RoleArn: STRING, DurationSeconds: STRING, RoleSessionName: STRING,
   OidcTokenProvider: Option(OidcTokenProviderConfig)]

CloudAccountTokenConfig ==
  [CloudAccountRegion: STRING, CloudAccountInstanceId: STRING,
   CloudAccountEndpoint: STRING, InstanceId: STRING, DeveloperApiEndpoint: STRING,
   CloudAccountRoleExternalId: STRING,
   AccessTokenProvider: Option(OidcTokenProviderConfig)]

AgentConfig ==
  [InstanceId: STRING, DeveloperApiEndpoint: STRING,
   AccessTokenProvider: Option(OidcTokenProviderConfig)]

CloudStsConfig ==
  [AlibabaCloud: Option(AlibabaCloudStsConfig), Aws: Option(AwsCloudStsConfig),
   OidcToken: Option(OidcTokenProviderConfig),
   CloudAccount: Option(CloudAccountTokenConfig), Agent: Option(AgentConfig),
   Environments: Seq(STRING \X STRING)]

-----------------------------------------------------------------------------
(* Digests.  mtime gives the modification time of the files that exist.    *)

Digest(parts) == "[" \o FoldLeft(LAMBDA a, b : a \o b, "", parts) \o "]"

\* The digest of a nil pointer is the empty string.
DigestOf(c, parts) == IF c = Nil THEN "" ELSE Digest(parts)

FileModTime(file, mtime) == IF file \in DOMAIN mtime THEN mtime[file] ELSE ""

DigestKeyFile(c, mtime) ==
  DigestOf(c, <<c.Key, c.File, FileModTime(c.File, mtime)>>)

DigestSigner(c, mtime) ==
  DigestOf(c,
    <<c.KeyID, c.Algorithm,
      DigestOf(c.Pkcs11, <<c.Pkcs11.LibraryPath, c.Pkcs11.TokenLabel,
                           c.Pkcs11.KeyLabel>>),
      DigestOf(c.YubikeyPiv, <<c.YubikeyPiv.Slot>>),
      DigestOf(c.ExternalCommand, <<c.ExternalCommand.Command,
                                    c.ExternalCommand.Parameter>>),
      DigestKeyFile(c.KeyFile, mtime)>>)

DigestPkcs7(c) == DigestOf(c, <<c.Provider, c.AlibabaCloudMode>>)

DigestPrivateCa(c, mtime) ==
  DigestOf(c,
    <<c.Certificate, FileModTime(c.CertificateFile, mtime),
      DigestSigner(c.CertificateKeySigner, mtime),
      c.CertificateChain, FileModTime(c.CertificateChainFile, mtime)>>)

DigestOidcToken(c, mtime) ==
  DigestOf(c, <<c.Provider, c.OidcToken, FileModTime(c.OidcTokenFile, mtime)>>)

\* A slip: the scope is left out.
DigestNoScope(c, mtime) ==
  DigestOf(c,
    <<c.TokenEndpoint, c.ClientId,
      c.ApplicationFederatedCredentialName,
      DigestSigner(c.ClientAssertionSinger, mtime),
      DigestPkcs7(c.ClientAssertionPkcs7Config),
      DigestPrivateCa(c.ClientAssertionPrivateCaConfig, mtime),
      DigestOidcToken(c.ClientAssertionOidcTokenConfig, mtime)>>)

DigestClientCredentials(c, mtime) ==
  DigestOf(c,
    <<c.TokenEndpoint, c.ClientId, c.Scope,
      c.ApplicationFederatedCredentialName,
      DigestSigner(c.ClientAssertionSinger, mtime),
      DigestPkcs7(c.ClientAssertionPkcs7Config),
      DigestPrivateCa(c.ClientAssertionPrivateCaConfig, mtime),
      DigestOidcToken(c.ClientAssertionOidcTokenConfig, mtime)>>)

DigestDeviceCode(c) == DigestOf(c, <<c.Issuer, c.ClientId, c.Scope>>)

DigestOpenApi(c) ==
  DigestOf(c,
    <<c.InstanceId, c.ApplicationId, Digest(c.ScopeValues),
      c.Audience, c.OpenApiEndpoint, c.Type, c.Credential>>)

DigestProvider(c, mtime) ==
  DigestOf(c,
    <<c.TokenType, DigestClientCredentials(c.ClientCredentials, mtime),
      DigestDeviceCode(c.DeviceCode), DigestOpenApi(c.OpenApi)>>)

DigestAlibabaCloud(c, mtime) ==
  DigestOf(c,
    <<c.Region, c.StsEndpoint, c.OidcProviderArn, c.RoleArn,
      c.DurationSeconds, c.RoleSessionName,
      DigestProvider(c.OidcTokenProvider, mtime)>>)

DigestAws(c, mtime) ==
  DigestOf(c,
    <<c.Region, c.RoleArn, c.DurationSeconds,
      c.RoleSessionName, DigestProvider(c.OidcTokenProvider, mtime)>>)

DigestCloudAccount(c, mtime) ==
  DigestOf(c,
    <<c.CloudAccountRegion, c.CloudAccountInstanceId,
      c.CloudAccountEndpoint, c.InstanceId, c.DeveloperApiEndpoint,
      c.CloudAccountRoleExternalId, DigestProvider(c.AccessTokenProvider, mtime)>>)

-----------------------------------------------------------------------------
(* What the code asks of the settings.                                     *)

\* The owner of an oidc_token cache file.
GetId(c) ==
  IF c.ClientCredentials # Nil THEN c.ClientCredentials.ClientId
  ELSE IF c.DeviceCode # Nil THEN c.DeviceCode.ClientId
  ELSE "unknown_oidc"

GetInstanceId(c) == IF c.InstanceId # "" THEN c.InstanceId ELSE c.CloudAccountInstanceId

\* The URL a cloud account's token comes from, <<>> standing for an error.
GetCloudAccountEndpoint(c) ==
  IF c.CloudAccountEndpoint # "" THEN <<c.CloudAccountEndpoint>>
  ELSE IF GetInstanceId(c) = "" THEN <<>>
  ELSE IF c.DeveloperApiEndpoint # "" THEN <<c.DeveloperApiEndpoint, GetInstanceId(c)>>
  ELSE IF c.CloudAccountRegion = "" THEN <<>>
  ELSE <<"eiam-developerapi", c.CloudAccountRegion, GetInstanceId(c)>>

\* The URL an agent's credentials come from, <<>> standing for an error.
GetCredentialEndpoint(c) ==
  IF c.DeveloperApiEndpoint = "" \/ c.InstanceId = "" THEN <<>>
  ELSE <<c.DeveloperApiEndpoint, c.InstanceId>>

-----------------------------------------------------------------------------
(* Finding a profile.  A file that cannot be read, parsed or found is Nil. *)
(* An argument is a name, or settings written out as JSON or base64.       *)

IsConfigFile(file) ==
  /\ file.version \in STRING /\ file.current \in STRING
  /\ \A name \in DOMAIN file.profile : file.profile[name] \in Option(CloudStsConfig)

LoadCloudCredentialConfig(file) == file # Nil /\ file.version = "1"

\* The name that is looked up when a command names no profile.
ProfileName(file, text) ==
  IF text # "" THEN text
  ELSE IF file.current # "" THEN file.current ELSE "default"

\* The profile of a command's argument and its name, settings Nil standing
\* for an error.  The HTTP server takes no settings from its argument.
FindProfile(file, argument, ignoreParseFromProfile) ==
  LET name == ProfileName(file, argument.text)
  IN IF argument.inline # Nil /\ ~ignoreParseFromProfile
     THEN [name |-> "temp-" \o argument.text, settings |-> argument.inline]
     ELSE IF LoadCloudCredentialConfig(file) /\ name \in DOMAIN file.profile
     THEN [name |-> name, settings |-> file.profile[name]]
     ELSE [name |-> argument.text, settings |-> Nil]
=============================================================================
