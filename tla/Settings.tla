------------------------------ MODULE Settings ------------------------------
(***************************************************************************)
(* The configuration a process starts with: config.Load merges defaults,   *)
(* YAML, .env and environment, reads the secret files, judges the result,  *)
(* and auth.NewTokens makes the key ring of it.  No state: the operators   *)
(* are what one start computes from the files and variables it finds.      *)
(*                                                                         *)
(* Abstraction of the fields.  Those a rule relates to another are kept,   *)
(* with a twin folded in where the code treats two pairs alike: tls is     *)
(* database.ssl_mode and redis.tls, which production insists on; password  *)
(* is database.password and redis.password; minConns and maxConns are the  *)
(* pools of the database and (min_idle_conns, pool_size) of Redis.  rest   *)
(* stands for every field that is only parsed and range-checked by itself. *)
(* auth.access_token_ttl is the same in every source.  Sizes are in MiB.   *)
(***************************************************************************)
EXTENDS Integers, FiniteSets

CONSTANTS
  Keys,       \* Ed25519 key pairs
  KeyIds,     \* values of auth.key_id, the JWT kid
  TTL,        \* auth.access_token_ttl
  Paths,      \* paths a _FILE setting can name
  Content,    \* [Paths -> Keys and other file contents, or Missing]
  DefaultId,  \* "default", the key_id of Default()
  Empty,      \* the empty string of a secret or a path
  Missing,    \* a file that cannot be read
  Malformed,  \* a value that does not decode, or an unknown YAML key
  OutOfRange, \* a value Validate refuses by itself
  Fine,       \* any other value of rest
  Refused     \* Load, or NewTokens, returned an error

ASSUME SettingsAssumption ==
  /\ DefaultId \in KeyIds /\ TTL \in Nat \ {0}
  /\ Content \in [Paths -> Keys \cup {Empty, Fine, Missing}]
  /\ Empty \notin Paths \cup Keys

Environments == {"development", "test", "production"}

Numbers == {"imageMax", "videoMax", "minConns", "maxConns", "refreshTTL"}
Fields == {"environment", "debug", "docs", "tls", "password", "passwordFile", "privateKey",
           "privateKeyFile", "keyId", "oldKeys", "files", "video", "configs", "origins",
           "credentials", "secure", "sameSite", "rest"} \cup Numbers

\* A source names some of the fields.
Over(upper, lower) ==
  [f \in DOMAIN upper \cup DOMAIN lower |-> IF f \in DOMAIN upper THEN upper[f] ELSE lower[f]]

NoKeys == [i \in {} |-> Empty]

\* A value that decodes is of the type of its field.
Typed(source) ==
  /\ "keyId" \in DOMAIN source => source["keyId"] \in KeyIds \cup {Malformed}
  /\ \A f \in Numbers \cap DOMAIN source : source[f] \in Nat \cup {Malformed}

\* What a process may find: the YAML file, the .env file, the environment, and whether
\* .env is to be loaded.
IsDeployment(d) ==
  /\ d = [yaml |-> d.yaml, dotEnv |-> d.dotEnv, env |-> d.env, loadDotEnv |-> d.loadDotEnv]
  /\ Typed(d.yaml) /\ Typed(d.dotEnv) /\ Typed(d.env)

Default ==
  [environment |-> "development", debug |-> FALSE, docs |-> TRUE, tls |-> FALSE,
   password |-> Empty, passwordFile |-> Empty, privateKey |-> Empty, privateKeyFile |-> Empty,
   keyId |-> DefaultId, oldKeys |-> NoKeys, files |-> FALSE, imageMax |-> 5,
   video |-> FALSE, videoMax |-> 100, configs |-> FALSE, origins |-> {},
   credentials |-> FALSE, secure |-> FALSE, sameSite |-> "strict", minConns |-> 1,
   maxConns |-> 10, refreshTTL |-> 2880 * TTL, rest |-> Fine]

\* No value of the source fails to decode.
Decodes(source) == \A f \in DOMAIN source : source[f] # Malformed

\* mutant: the .env lines are appended after the environment and so replace it.
DotEnvLast(d) == IF d.loadDotEnv THEN Over(d.dotEnv, d.env) ELSE d.env
\* What applyEnvironment sees: a variable of the environment replaces the same line of
\* .env, which is read only when asked for.
Environment(d) == IF d.loadDotEnv THEN Over(d.env, d.dotEnv) ELSE d.env

\* An unknown YAML key is an error; an unknown variable is nobody's.
LoadYAML(yaml) == Decodes(yaml) /\ DOMAIN yaml \subseteq Fields

Merged(d) ==
  LET cfg == Over(Environment(d), Over(d.yaml, Default)) IN [f \in Fields |-> cfg[f]]

\* A secret comes as a value or as a file, whichever sources they are named in.
ResolveSecret(secret, path) ==
  IF path = Empty THEN secret
  ELSE IF secret # Empty \/ Content[path] = Missing THEN Refused
  ELSE Content[path]

\* Over a merged configuration: the secrets and the public keys read from their files.
ResolveSecrets(cfg) ==
  [cfg EXCEPT !["password"] = ResolveSecret(cfg["password"], cfg["passwordFile"]),
              !["privateKey"] = ResolveSecret(cfg["privateKey"], cfg["privateKeyFile"])]

Resolved(cfg) ==
  /\ cfg["password"] # Refused /\ cfg["privateKey"] # Refused
  /\ \A i \in DOMAIN cfg["oldKeys"] : Content[cfg["oldKeys"][i]] # Missing

\* mutant: the environment is not one of a list.
ValidAnywhere(cfg) ==
  /\ cfg["rest"] # OutOfRange
  /\ cfg["minConns"] <= cfg["maxConns"] /\ cfg["maxConns"] >= 1
  /\ TTL < cfg["refreshTTL"]
  /\ cfg["keyId"] \notin DOMAIN cfg["oldKeys"]
  /\ cfg["sameSite"] = "none" => cfg["secure"]
  /\ cfg["credentials"] => "*" \notin cfg["origins"]
  /\ cfg["environment"] = "production" => ~cfg["debug"] /\ ~cfg["docs"] /\ cfg["tls"] /\ cfg["secure"]
Validate(cfg) ==
  /\ cfg["environment"] \in Environments
  /\ cfg["rest"] # OutOfRange
  /\ cfg["minConns"] <= cfg["maxConns"] /\ cfg["maxConns"] >= 1
  /\ TTL < cfg["refreshTTL"]
  /\ cfg["keyId"] \notin DOMAIN cfg["oldKeys"]
  /\ cfg["sameSite"] = "none" => cfg["secure"]
  /\ cfg["credentials"] => "*" \notin cfg["origins"]
  /\ cfg["environment"] = "production" => ~cfg["debug"] /\ ~cfg["docs"] /\ cfg["tls"] /\ cfg["secure"]

\* d: [yaml, dotEnv, env, loadDotEnv].  The rule against .env in production is judged on
\* what is left after .env itself has been applied.
Load(d) ==
  LET env == Environment(d)
      merged == Merged(d)
      resolved == ResolveSecrets(merged) IN
  IF /\ LoadYAML(d.yaml)
     /\ \A f \in DOMAIN env \cap Fields : env[f] # Malformed
     /\ ~(d.loadDotEnv /\ merged["environment"] = "production")
     /\ Resolved(resolved)
     /\ Validate(resolved)
  THEN resolved ELSE Refused

\* mutant: the public keys of the rotation are not taken over.
OwnKeyOnly(cfg) == [i \in {cfg["keyId"]} |-> cfg["privateKey"]]
\* NewTokens: kid to public key, the own one first.
PublicKeys(cfg) ==
  [i \in DOMAIN cfg["oldKeys"] \cup {cfg["keyId"]} |->
     IF i = cfg["keyId"] THEN cfg["privateKey"] ELSE Content[cfg["oldKeys"][i]]]

\* Load and Build: the configuration, if the keys it names parse.
Boot(d) ==
  LET cfg == Load(d) IN
  IF cfg = Refused THEN Refused
  ELSE IF \A i \in DOMAIN PublicKeys(cfg) : PublicKeys(cfg)[i] \in Keys THEN cfg ELSE Refused
=============================================================================
