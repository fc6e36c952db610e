------------------------------ MODULE MCGateway ------------------------------
EXTENDS Gateway, TLC

CONSTANTS r1, r2, k1, k2, k3, p1, p2, p3, secret, blank, gone, origin, elsewhere, other, pw

MCContent ==
  p1 :> k1 @@ p2 :> k2 @@ p3 :> k3 @@ secret :> Fine @@ blank :> Empty @@ gone :> Missing

\* Sources that start a development process, one that starts in production, and mistakes.
Good == [privateKeyFile |-> p1]
Safe == [environment |-> "production", docs |-> FALSE, tls |-> TRUE, secure |-> TRUE,
         privateKeyFile |-> p1]
Bad == [rest |-> OutOfRange]

YAMLs ==
  {Good, Safe,
   Over([files |-> TRUE, video |-> TRUE, configs |-> TRUE, origins |-> {origin}, credentials |-> TRUE], Safe),
   Over([files |-> TRUE, videoMax |-> 4, video |-> TRUE, origins |-> {"*"}], Good),
   Over([sameSite |-> "none", secure |-> TRUE, minConns |-> 10], Good),
   Over([sameSite |-> "none"], Good), Over([sameSite |-> "none", secure |-> FALSE], Safe),
   Over([password |-> pw, oldKeys |-> other :> p2], Good),
   Over([porrt |-> Fine], Good), Over([rest |-> Malformed], Good)}

DotEnvs ==
  {[environment |-> "development", passwordFile |-> secret, debug |-> TRUE],
   [rest |-> Malformed, environment |-> "staging"]}

Plainly == [porrt |-> Fine]

Envs ==
  {Plainly, [environment |-> "production"], [environment |-> "staging"], Bad, [privateKey |-> k2],
   [oldKeys |-> DefaultId :> p2], [oldKeys |-> other :> secret], [oldKeys |-> other :> gone],
   [passwordFile |-> gone], [keyId |-> other],
   [minConns |-> 11], [maxConns |-> 0, minConns |-> 0], [refreshTTL |-> 2]}

MCDeployments ==
  [yaml : {Good}, dotEnv : {[debug |-> TRUE]}, env : Envs, loadDotEnv : {FALSE}]
  \cup [yaml : YAMLs \ {Good}, dotEnv : {[debug |-> TRUE]}, loadDotEnv : {FALSE},
        env : {Plainly, [credentials |-> TRUE], [password |-> Empty, passwordFile |-> blank]}]
  \cup [yaml : {Good, Safe}, dotEnv : DotEnvs, loadDotEnv : {TRUE},
        env : {Plainly, [rest |-> Fine, environment |-> "production"],
               [rest |-> Fine, environment |-> "development"]}]

\* A request with nothing wrong about it, and what may be wrong: the slash, the caller, the
\* parameters, the body, what the service says of it, the handler.
Plain == [origin |-> elsewhere, preflight |-> FALSE, slash |-> FALSE, valid |-> TRUE, caller |-> "superuser",
          form |-> TRUE, kind |-> "image", size |-> 0, rest |-> 0, says |-> 200, panics |-> "no"]
Odd ==
  {[slash |-> TRUE], [caller |-> "user"], [valid |-> FALSE], [form |-> FALSE], [size |-> 11],
   [says |-> 404], [panics |-> "early"], [panics |-> "late", says |-> 201]}
Ask(m, p) == Over([method |-> m, path |-> p], Plain)

MCRequests ==
  {Over(o, Ask("GET", p)) : p \in {"docs", "configs", "unknown"}, o \in Odd}
  \cup {Over(o, Ask(m, "configs")) : m \in {"POST", "PUT"}, o \in Odd}
  \cup {Over(o, Ask("DELETE", "object")) : o \in {[slash |-> TRUE], [caller |-> "nobody"], [says |-> 404]}}
  \cup {Over([origin |-> origin, preflight |-> m = "OPTIONS"], Over(o, Ask(m, "core"))) :
          m \in {"GET", "OPTIONS"}, o \in {[slash |-> TRUE], [valid |-> FALSE], [panics |-> "late"]}}
  \cup {Ask("POST", "session"), Ask("DELETE", "configs")}
  \cup {Over([caller |-> "nobody"], Ask("GET", p)) : p \in {"public", "download"}}
  \cup {Over([kind |-> k, size |-> n, rest |-> m], Ask("POST", "uploads")) :
          k \in {"image", "video"}, n \in {5, 6, 100}, m \in {1, 2}}
  \cup {Over(o, Ask("POST", "uploads")) : o \in {[kind |-> "text"], [rest |-> 102], [form |-> FALSE], [caller |-> "nobody"]}}

Symmetry == Permutations(Replicas)
=============================================================================
