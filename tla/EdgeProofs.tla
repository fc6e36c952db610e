------------------------------ MODULE EdgeProofs ------------------------------
(***************************************************************************)
(* Proofs about what stands between a client and the services.             *)
(*                                                                         *)
(* Of Gateway, for any replicas, deployments, requests and keys: what a    *)
(* process computes from its sources, what the middlewares make of any     *)
(* answer of the router, and the rotation of the signing key.              *)
(* Of LoginLimiter, for any clients, accounts and processes and any limit  *)
(* and window.  The two share no name and no variable.                     *)
(***************************************************************************)
EXTENDS Gateway, LoginLimiter, TLAPS

(* ------------------------------ settings ------------------------------ *)

(* The fields that ResolveSecrets replaces by what their files hold. *)
Secrets == {"password", "privateKey"}

(* The source a setting comes from, .env being one of them only when it is loaded. *)
MergedOf(d, f) ==
  IF f \in DOMAIN d.env THEN d.env[f]
  ELSE IF d.loadDotEnv /\ f \in DOMAIN d.dotEnv THEN d.dotEnv[f]
  ELSE IF f \in DOMAIN d.yaml THEN d.yaml[f] ELSE Default[f]

(* Default() names every field, each with a value of its type. *)
LEMMA DefaultTyped == DOMAIN Default = Fields /\ Typed(Default)
  BY SettingsAssumption DEF Default, Fields, Numbers, Typed

(* The merge of Load takes each setting from the first source that names it. *)
LEMMA MergedReads ==
    ASSUME NEW d
    PROVE  /\ DOMAIN Merged(d) = Fields
           /\ \A f \in Fields : Merged(d)[f] = MergedOf(d, f)
  <1>1. CASE d.loadDotEnv
    BY <1>1, DefaultTyped DEF Merged, Over, Environment, MergedOf
  <1>2. CASE ~d.loadDotEnv
    BY <1>2, DefaultTyped DEF Merged, Over, Environment, MergedOf
  <1> QED BY <1>1, <1>2

(* Reading the files changes the two secrets and nothing else. *)
LEMMA ResolveReads ==
    ASSUME NEW cfg, DOMAIN cfg = Fields, cfg = [f \in Fields |-> cfg[f]]
    PROVE  LET s == ResolveSecrets(cfg) IN
           /\ DOMAIN s = Fields /\ s = [f \in Fields |-> s[f]]
           /\ \A f \in Fields \ Secrets : s[f] = cfg[f]
           /\ s["password"] = ResolveSecret(cfg["password"], cfg["passwordFile"])
           /\ s["privateKey"] = ResolveSecret(cfg["privateKey"], cfg["privateKeyFile"])
  BY DEF ResolveSecrets, Secrets, Fields, Numbers

(* What Load and NewTokens let through. *)
LEMMA BootReads ==
    ASSUME NEW d, Boot(d) # Refused
    PROVE  LET s == Boot(d)
               m == Merged(d) IN
           /\ s = ResolveSecrets(m) /\ Resolved(s) /\ Validate(s)
           /\ Decodes(d.yaml)
           /\ \A f \in DOMAIN Environment(d) \cap Fields : Environment(d)[f] # Malformed
           /\ ~(d.loadDotEnv /\ m["environment"] = "production")
           /\ \A i \in DOMAIN PublicKeys(s) : PublicKeys(s)[i] \in Keys
  <1>1. Load(d) # Refused /\ Boot(d) = Load(d)
        /\ \A i \in DOMAIN PublicKeys(Load(d)) : PublicKeys(Load(d))[i] \in Keys
    BY DEF Boot
  <1>2. /\ Load(d) = ResolveSecrets(Merged(d)) /\ Resolved(Load(d)) /\ Validate(Load(d))
        /\ Decodes(d.yaml)
        /\ \A f \in DOMAIN Environment(d) \cap Fields : Environment(d)[f] # Malformed
        /\ ~(d.loadDotEnv /\ Merged(d)["environment"] = "production")
    BY <1>1 DEF Load, LoadYAML
  <1> QED BY <1>1, <1>2

(* What a process that has started runs with. *)
LEMMA Booted ==
    ASSUME NEW d, Boot(d) # Refused
    PROVE  LET s == Boot(d) IN
           /\ DOMAIN s = Fields
           /\ \A f \in Fields \ Secrets : s[f] = MergedOf(d, f)
           /\ s["password"] = ResolveSecret(MergedOf(d, "password"), MergedOf(d, "passwordFile"))
           /\ s["privateKey"] = ResolveSecret(MergedOf(d, "privateKey"), MergedOf(d, "privateKeyFile"))
  <1>1. Merged(d) = [f \in Fields |-> Merged(d)[f]]
    BY DEF Merged
  <1>2. {"password", "passwordFile", "privateKey", "privateKeyFile"} \subseteq Fields
    BY DEF Fields, Numbers
  <1> QED BY <1>1, <1>2, MergedReads, BootReads, ResolveReads

(* A key ring verifies with the key under the kid. *)
Knows(s, id, key) == id \in DOMAIN PublicKeys(s) /\ PublicKeys(s)[id] = key

(* Its settings are typed where something is computed of them, and it verifies its own tokens. *)
LEMMA BootTyped ==
    ASSUME NEW d, IsDeployment(d), Boot(d) # Refused
    PROVE  LET s == Boot(d) IN
           /\ s["environment"] \in Environments
           /\ s["keyId"] \in KeyIds /\ s["privateKey"] \in Keys
           /\ s["imageMax"] \in Nat /\ s["videoMax"] \in Nat
           /\ s["keyId"] \notin DOMAIN s["oldKeys"]
           /\ Knows(s, s["keyId"], s["privateKey"])
  <1> DEFINE s == Boot(d)
  <1>1. s["environment"] \in Environments /\ s["keyId"] \notin DOMAIN s["oldKeys"]
    BY BootReads DEF Validate
  <1>2. Knows(s, s["keyId"], s["privateKey"]) /\ s["privateKey"] \in Keys
    BY BootReads DEF PublicKeys, Knows
  <1>3. \A f \in {"keyId", "imageMax", "videoMax"} : s[f] = MergedOf(d, f)
    BY Booted DEF Fields, Numbers, Secrets
  <1>4. ASSUME NEW f \in {"keyId", "imageMax", "videoMax"}
        PROVE  \/ f \in DOMAIN d.env /\ s[f] = d.env[f] /\ s[f] # Malformed
               \/ f \in DOMAIN d.dotEnv /\ s[f] = d.dotEnv[f] /\ s[f] # Malformed
               \/ f \in DOMAIN d.yaml /\ s[f] = d.yaml[f] /\ s[f] # Malformed
               \/ s[f] = Default[f]
    <2>1. f \in Fields
      BY DEF Fields, Numbers
    <2>2. f \in DOMAIN Environment(d) => Environment(d)[f] # Malformed
      BY <2>1, BootReads
    <2>3. f \in DOMAIN d.yaml => d.yaml[f] # Malformed
      BY BootReads DEF Decodes
    <2> QED BY <1>3, <2>2, <2>3 DEF MergedOf, Environment, Over
  <1>5. s["keyId"] \in KeyIds
    BY <1>4, DefaultTyped, SettingsAssumption DEF IsDeployment, Typed, Default
  <1>6. s["imageMax"] \in Nat /\ s["videoMax"] \in Nat
    BY <1>4 DEF IsDeployment, Typed, Default, Numbers
  <1> QED BY <1>1, <1>2, <1>5, <1>6

(* RunsAsDeployed, of one deployment. *)
LEMMA BootFollows ==
    ASSUME NEW d, Boot(d) # Refused
    PROVE  LET s == Boot(d)
               plain == Fields \ Secrets IN
           /\ \A f \in DOMAIN d.env \cap plain : s[f] = d.env[f]
           /\ \A f \in (DOMAIN d.yaml \cap plain) \ (DOMAIN d.env \cup DOMAIN d.dotEnv) : s[f] = d.yaml[f]
           /\ ~d.loadDotEnv =>
                \A f \in (DOMAIN d.dotEnv \cap plain) \ (DOMAIN d.env \cup DOMAIN d.yaml) : s[f] = Default[f]
           /\ s["environment"] = "production" => ~d.loadDotEnv /\ s["tls"] /\ s["secure"] /\ ~s["debug"] /\ ~Documented(s)
           /\ s["passwordFile"] # Empty => s["password"] = Content[s["passwordFile"]]
  <1> DEFINE s == Boot(d)
             plain == Fields \ Secrets
  <1>1. \A f \in plain : s[f] = MergedOf(d, f)
    BY Booted
  <1>2. s["environment"] = "production" => ~d.loadDotEnv /\ s["tls"] /\ s["secure"] /\ ~s["debug"] /\ ~Documented(s)
    <2>1. s["environment"] = Merged(d)["environment"]
      BY <1>1, MergedReads DEF Fields, Numbers, Secrets
    <2>2. s["environment"] = "production" => ~s["debug"] /\ ~s["docs"] /\ s["tls"] /\ s["secure"]
      BY BootReads DEF Validate
    <2> QED BY <2>1, <2>2, BootReads DEF Documented
  <1>3. s["passwordFile"] # Empty => s["password"] = Content[s["passwordFile"]]
    <2>1. s["passwordFile"] = MergedOf(d, "passwordFile")
      BY <1>1 DEF Fields, Numbers, Secrets
    <2>2. s["password"] # Refused
      BY BootReads DEF Resolved
    <2> QED BY <2>1, <2>2, Booted DEF ResolveSecret
  <1> QED BY <1>1, <1>2, <1>3 DEF MergedOf

(* ------------------------------- router ------------------------------- *)

IsAnswer(a) == a = [status |-> a.status, marks |-> a.marks, calls |-> a.calls]

(* The answer of CORS to a preflight of a named origin, whatever is inside. *)
Preflight(s, q) == q.origin \in s["origins"] /\ q.preflight

(* The router adds nothing to the answers of the handlers. *)
LEMMA RouteAnswers ==
    ASSUME NEW s, NEW q
    PROVE  IsAnswer(Route(s, q)) /\ Route(s, q).marks = {}
  <1>1. \A status, service : IsAnswer(Answered(status, service)) /\ Answered(status, service).marks = {}
    BY DEF IsAnswer, Answered
  <1>2. IsAnswer(Handle(s, q)) /\ Handle(s, q).marks = {}
    BY <1>1 DEF Handle, Upload, Serve
  <1>3. IsAnswer(ValidateRequest(s, q)) /\ ValidateRequest(s, q).marks = {}
    BY <1>1, <1>2 DEF ValidateRequest, Bind
  <1> QED BY <1>1, <1>3 DEF Route

(* The routes of a module are registered if and only if its service is given. *)
LEMMA SwitchesAgree ==
    ASSUME NEW s, NEW q, <<q.method, q.path>> \in Contract
    PROVE  /\ ServiceOf(q.path) \in Services(s) <=> <<q.method, q.path>> \in Routes(s)
           /\ q.path # "docs" /\ q.method # "OPTIONS"
  <1>1. /\ ServiceOf(q.path) \in Services(s) <=> <<q.method, q.path>> \notin SwitchedOff(s)
        /\ q.path # "docs" /\ q.method # "OPTIONS"
    BY DEF Contract, FileRoutes, ConfigRoutes, SwitchedOff, ServiceOf, Services
  <1> QED BY <1>1 DEF Routes

(* What a handler answers: it panics only if its service does, when there is one, and calls
   that service for a request with nothing wrong about it.                               *)
LEMMA HandleReads ==
    ASSUME NEW s, NEW q \in Requests, ServiceOf(q.path) \in Services(s), BodyLimit(s, q) \in Nat
    PROVE  LET h == Handle(s, q) IN
           /\ h.status = Panic => q.panics # "no"
           /\ Passes(s, q) => h.calls = ServiceOf(q.path)
  <1> DEFINE service == ServiceOf(q.path)
             h == Handle(s, q)
  <1>1. \A status, called : Answered(status, called).status = status /\ Answered(status, called).calls = called
    BY DEF Answered
  <1>2. q.says # Panic /\ q.size \in Nat /\ q.rest \in Nat
    BY GatewayAssumption DEF Panic
  <1>3. \A called : /\ Serve(q, called).status = Panic => q.panics # "no"
                    /\ Serve(q, called).calls = called
    BY <1>1, <1>2 DEF Serve
  <1>4. q.path = "uploads" => service = "files"
    BY DEF ServiceOf
  <1>5. /\ Upload(s, q).status = Panic => q.panics # "no"
        /\ q.form /\ ~(q.rest > BodyLimit(s, q)) => Upload(s, q).calls = "files"
    BY <1>1, <1>3 DEF Upload, Panic
  <1>6. Passes(s, q) => ~(q.rest > BodyLimit(s, q))
    BY <1>2 DEF Passes
  <1>7. \/ \E status \in {401, 403} : h = Answered(status, "core") /\ q.caller \notin Admitted(q.path)
        \/ h = Upload(s, q) /\ q.path = "uploads"
        \/ h = Answered(400, None) /\ ~q.form
        \/ h = Serve(q, service)
    BY DEF Handle
  <1>8. 401 # Panic /\ 403 # Panic /\ 400 # Panic
    BY DEF Panic
  <1> QED BY <1>1, <1>3, <1>4, <1>5, <1>6, <1>7, <1>8 DEF Passes

(* What the router answers by itself: a route that is off is as one that is not there, and
   one that is on leads to its service.                                                  *)
LEMMA RouteReads ==
    ASSUME NEW s, NEW q \in Requests, BodyLimit(s, q) \in Nat
    PROVE  LET b == Route(s, q) IN
           /\ q.path = "docs" => b.status # Panic /\ (b.status = 200 => Documented(s))
           /\ b.status = Panic => q.panics # "no"
           /\ <<q.method, q.path>> \in Contract =>
                /\ ServiceOf(q.path) \notin Services(s) => b.status = 404 /\ b.calls = None
                /\ ServiceOf(q.path) \in Services(s) /\ Passes(s, q) => b.calls = ServiceOf(q.path)
  <1> DEFINE b == Route(s, q)
             h == Handle(s, q)
             v == ValidateRequest(s, q)
  <1>1. \A status, called : Answered(status, called).status = status /\ Answered(status, called).calls = called
    BY DEF Answered
  <1>2. v = Answered(400, None) \/ v = h
    BY DEF ValidateRequest, Bind
  <1>3. Passes(s, q) => v = h
    BY DEF ValidateRequest, Bind, Passes
  <1>4. \/ b = Answered(404, None) /\ (q.slash \/ <<q.method, q.path>> \notin Routes(s))
        \/ b = Answered(200, None) /\ q.path = "docs" /\ <<q.method, q.path>> \in Routes(s)
        \/ b = v /\ q.path # "docs" /\ ~q.slash /\ <<q.method, q.path>> \in Routes(s)
    BY DEF Route
  <1>5. 404 # Panic /\ 200 # Panic /\ 400 # Panic /\ 404 # 200
    BY DEF Panic
  <1>6. <<q.method, q.path>> \in Routes(s) =>
          <<q.method, q.path>> \in Contract \/ (q.path = "docs" /\ Documented(s))
    BY DEF Routes
  <1>7. q.path = "docs" => b.status # Panic /\ (b.status = 200 => Documented(s))
    BY <1>1, <1>4, <1>5, <1>6, SwitchesAgree
  <1>8. b.status = Panic => q.panics # "no"
    BY <1>1, <1>2, <1>4, <1>5, <1>6, SwitchesAgree, HandleReads
  <1>9. ASSUME <<q.method, q.path>> \in Contract
        PROVE  /\ ServiceOf(q.path) \notin Services(s) => b.status = 404 /\ b.calls = None
               /\ ServiceOf(q.path) \in Services(s) /\ Passes(s, q) => b.calls = ServiceOf(q.path)
    <2>1. /\ ServiceOf(q.path) \in Services(s) <=> <<q.method, q.path>> \in Routes(s)
          /\ q.path # "docs"
      BY <1>9, SwitchesAgree
    <2>2. Passes(s, q) => ~q.slash
      BY DEF Passes
    <2> QED BY <1>1, <1>3, <1>4, <2>1, <2>2, HandleReads
  <1> QED BY <1>7, <1>8, <1>9

LEMMA DocsRead ==
    ASSUME NEW s, NEW q \in Requests, BodyLimit(s, q) \in Nat, q.path = "docs"
    PROVE  Route(s, q).status # Panic /\ (Route(s, q).status = 200 => s["environment"] # "production")
  BY RouteReads DEF Documented

(* What the middlewares make of it. *)
LEMMA AnswerReads ==
    ASSUME NEW s, NEW q, ~Redirected(s, q)
    PROVE  LET a == Answer(s, q)
               b == Route(s, q) IN
           /\ a.status = IF Preflight(s, q) THEN 204
                         ELSE IF b.status # Panic THEN b.status
                         ELSE IF q.panics = "late" THEN q.says ELSE 500
           /\ a.calls = IF Preflight(s, q) THEN None ELSE b.calls
           /\ {"id", "guard"} \subseteq a.marks
           /\ "deadline" \in a.marks <=> ~Preflight(s, q)
           /\ "logged" \in a.marks <=> ~Preflight(s, q) /\ b.status # Panic
           /\ "origin" \in a.marks <=> q.origin \in s["origins"]
           /\ "credentials" \in a.marks <=> q.origin \in s["origins"] /\ s["credentials"]
  <1> DEFINE b == Route(s, q)
             t == Timeout(b)
             l == AccessLog(t)
             c == CORS(s, q, l)
             i == RequestID(SecurityHeaders(c))
             a == Answer(s, q)
  <1> HIDE DEF t, l, c, i, a
  <1>1. IsAnswer(b) /\ b.marks = {}
    BY RouteAnswers
  <1> HIDE DEF b
  <1>2. t = [status |-> b.status, marks |-> {"deadline"}, calls |-> b.calls]
    BY <1>1 DEF t, IsAnswer, Timeout, Mark
  <1>3. l = [status |-> b.status, calls |-> b.calls,
             marks |-> IF b.status = Panic THEN {"deadline"} ELSE {"deadline", "logged"}]
    BY <1>2 DEF l, AccessLog, Mark
  <1>4. /\ IsAnswer(c)
        /\ c.status = IF Preflight(s, q) THEN 204 ELSE b.status
        /\ c.calls = IF Preflight(s, q) THEN None ELSE b.calls
        /\ "deadline" \in c.marks <=> ~Preflight(s, q)
        /\ "logged" \in c.marks <=> ~Preflight(s, q) /\ b.status # Panic
        /\ "origin" \in c.marks <=> q.origin \in s["origins"]
        /\ "credentials" \in c.marks <=> q.origin \in s["origins"] /\ s["credentials"]
    BY <1>3 DEF c, CORS, Mark, Answered, Preflight, IsAnswer
  <1>5. i = [status |-> c.status, marks |-> c.marks \cup {"guard", "id"}, calls |-> c.calls]
    <2>1. SecurityHeaders(c) = [status |-> c.status, marks |-> c.marks \cup {"guard"}, calls |-> c.calls]
      BY <1>4 DEF IsAnswer, SecurityHeaders, Mark
    <2> QED BY <2>1 DEF i, RequestID, Mark
  <1>6. a = Recovery(q, i)
    BY DEF Answer, a, b, t, l, c, i
  <1>7. /\ a.status = IF c.status # Panic THEN c.status ELSE IF q.panics = "late" THEN q.says ELSE 500
        /\ a.marks = c.marks \cup {"guard", "id"} /\ a.calls = c.calls
    BY <1>5, <1>6 DEF Recovery
  <1>8. 204 # Panic
    BY DEF Panic
  <1> QED BY <1>4, <1>7, <1>8 DEF a, b

(* ------------------------------ replicas ------------------------------ *)

(* The deployed sources are well typed, whatever was changed in them; so are the keys used. *)
DeployedTyped ==
  /\ IsDeployment(deployed.from)
  /\ deployed.gen \in 0 .. MaxGen /\ deployed.used \subseteq Keys

(* A replica runs with what Boot made of the deployment it was started from, which is the
   one deployed now if the generation is.                                                *)
RunsWhatWasDeployed ==
  /\ DOMAIN replica = Replicas
  /\ \A r \in Up :
       /\ IsDeployment(replica[r].from)
       /\ Boot(replica[r].from) # Refused
       /\ replica[r].settings = Boot(replica[r].from)
       /\ replica[r].gen \in 0 .. deployed.gen
       /\ replica[r].gen = deployed.gen => replica[r].from = deployed.from

(* A key that a replica signs with is in the key ring of every replica of a generation
   not older, and in the one deployed.                                                *)
SignersKnown ==
  \A r \in Up :
    LET s == replica[r].settings IN
    /\ Knows(Boot(deployed.from), s["keyId"], s["privateKey"])
    /\ \A q \in Up : replica[r].gen <= replica[q].gen =>
                       Knows(replica[q].settings, s["keyId"], s["privateKey"])

(* So is the key of every token in its lifetime. *)
TokensKnown ==
  \A t \in tokens : now < t.at + TTL =>
    /\ Knows(Boot(deployed.from), t.id, t.key)
    /\ \A q \in Up : t.gen <= replica[q].gen => Knows(replica[q].settings, t.id, t.key)

(* A token was signed before the last start or stop, or a replica that signs like it runs:
   this is why waiting from `settled` on is enough.                                       *)
SignersCounted ==
  \A t \in tokens :
    \/ t.at <= settled
    \/ \E r \in Up : replica[r].gen = t.gen /\ replica[r].settings["keyId"] = t.id

TokensTyped ==
  \A t \in tokens : /\ t.id \in KeyIds /\ t.key \in Keys /\ t.gen \in 0 .. deployed.gen
                    /\ t.at \in 0 .. now

ClockTyped == settled \in 0 .. now /\ now \in 0 .. MaxTime

GatewayIInv ==
  /\ DeployedTyped
  /\ RunsWhatWasDeployed
  /\ SignersKnown
  /\ TokensKnown
  /\ SignersCounted
  /\ TokensTyped
  /\ ClockTyped

----------------------------------------------------------------------------
(* What the invariant says of each property. *)
LEMMA TypeHolds == ASSUME GatewayIInv PROVE TypeOK
  <1>1. \A r \in Up : /\ DOMAIN replica[r].settings = Fields
                      /\ replica[r].settings["environment"] \in Environments
                      /\ replica[r].settings["privateKey"] \in Keys
    BY Booted, BootTyped DEF GatewayIInv, RunsWhatWasDeployed
  <1> QED BY <1>1 DEF GatewayIInv, DeployedTyped, RunsWhatWasDeployed, TokensTyped, ClockTyped, TypeOK

LEMMA RunsAsDeployedHolds == ASSUME GatewayIInv PROVE RunsAsDeployed
  BY BootFollows DEF GatewayIInv, RunsWhatWasDeployed, RunsAsDeployed, Secrets

LEMMA BodyLimitTyped ==
    ASSUME GatewayIInv, NEW r \in Up, NEW q
    PROVE  BodyLimit(replica[r].settings, q) \in Nat
  <1>1. replica[r].settings["imageMax"] \in Nat /\ replica[r].settings["videoMax"] \in Nat
    BY BootTyped DEF GatewayIInv, RunsWhatWasDeployed
  <1> QED BY <1>1 DEF BodyLimit, Overhead, BodyMax

(* The limit of an upload is above the largest file by the room for the form. *)
LEMMA BodyLimitFits ==
    ASSUME NEW d, IsDeployment(d), Boot(d) # Refused, NEW q \in Requests,
           <<q.method, q.path>> = <<"POST", "uploads">>, "files" \in Services(Boot(d)),
           AllowedType(Boot(d), q.kind), q.size <= Largest(Boot(d), q.kind), q.rest <= Overhead
    PROVE  q.rest + q.size <= BodyLimit(Boot(d), q)
  <1> DEFINE s == Boot(d)
  <1>1. /\ s["imageMax"] \in Nat /\ s["videoMax"] \in Nat
        /\ q.size \in Nat /\ q.rest \in Nat /\ Overhead \in Nat
    BY BootTyped, GatewayAssumption DEF Overhead
  <1>2. s["files"]
    BY DEF Services
  <1> HIDE DEF s
  <1>3. BodyLimit(s, q)
          = Overhead + (IF s["video"] /\ s["videoMax"] > s["imageMax"] THEN s["videoMax"] ELSE s["imageMax"])
    BY <1>2 DEF BodyLimit
  <1>4. CASE q.kind = "video"
    <2>1. s["video"] /\ q.size <= s["videoMax"]
      BY <1>4 DEF s, AllowedType, Largest
    <2> QED BY <1>1, <1>3, <2>1 DEF s
  <1>5. CASE q.kind # "video"
    <2>1. q.size <= s["imageMax"]
      BY <1>5 DEF s, AllowedType, Largest
    <2> QED BY <1>1, <1>3, <2>1 DEF s
  <1> QED BY <1>4, <1>5

LEMMA RouterFitsServicesHolds == ASSUME GatewayIInv PROVE RouterFitsServices
  <1> SUFFICES ASSUME NEW r \in Up, NEW q \in Requests, <<q.method, q.path>> \in Contract
               PROVE  LET s == replica[r].settings
                          a == Answer(s, q)
                          service == ServiceOf(q.path) IN
                      /\ service \notin Services(s) => a.status = 404 /\ a.calls = None
                      /\ service \in Services(s) /\ Passes(s, q) => a.calls = service
                      /\ /\ q.path = "uploads" /\ service \in Services(s)
                         /\ AllowedType(s, q.kind) /\ q.size <= Largest(s, q.kind) /\ q.rest <= Overhead
                         => q.rest + q.size <= BodyLimit(s, q)
    BY DEF RouterFitsServices, Running
  <1> DEFINE s == replica[r].settings
             a == Answer(s, q)
             b == Route(s, q)
             service == ServiceOf(q.path)
  <1>1. ~Preflight(s, q)
    BY SwitchesAgree, GatewayAssumption DEF Preflight
  <1>2. (service \notin Services(s) \/ Passes(s, q)) => ~Redirected(s, q)
    BY SwitchesAgree DEF Redirected, Passes
  <1>3. ~Redirected(s, q) =>
          /\ b.status # Panic => a.status = b.status
          /\ a.calls = b.calls
    BY <1>1, AnswerReads
  <1>4. /\ service \notin Services(s) => b.status = 404 /\ b.calls = None
        /\ service \in Services(s) /\ Passes(s, q) => b.calls = service
    BY RouteReads, BodyLimitTyped
  <1>5. service \notin Services(s) => a.status = 404 /\ a.calls = None
    BY <1>2, <1>3, <1>4 DEF Panic
  <1>6. ASSUME q.path = "uploads", service \in Services(s), AllowedType(s, q.kind),
               q.size <= Largest(s, q.kind), q.rest <= Overhead
        PROVE  q.rest + q.size <= BodyLimit(s, q)
    <2>1. <<q.method, q.path>> = <<"POST", "uploads">> /\ "files" \in Services(s)
      BY <1>6 DEF Contract, FileRoutes, ConfigRoutes, ServiceOf
    <2> QED BY <1>6, <2>1, BodyLimitFits DEF GatewayIInv, RunsWhatWasDeployed
  <1> QED BY <1>2, <1>3, <1>4, <1>5, <1>6

LEMMA AnswersAreGuardedHolds == ASSUME GatewayIInv PROVE AnswersAreGuarded
  <1> SUFFICES ASSUME NEW r \in Up, NEW q \in Requests
               PROVE  LET s == replica[r].settings
                          a == Answer(s, q) IN
                      /\ {"id", "guard"} \subseteq a.marks \/ (Redirected(s, q) /\ a.calls = None)
                      /\ a.calls # None => "deadline" \in a.marks
                      /\ "credentials" \in a.marks => q.origin \in s["origins"] /\ "*" \notin s["origins"]
                      /\ "logged" \notin a.marks =>
                           \/ Redirected(s, q) \/ q.panics # "no"
                           \/ a.status = 204 /\ q.preflight /\ "origin" \in a.marks
                      /\ q.path = "docs" /\ a.status = 200 => s["environment"] # "production"
    BY DEF AnswersAreGuarded, Running
  <1> DEFINE s == replica[r].settings
             a == Answer(s, q)
             b == Route(s, q)
  <1>1. CASE Redirected(s, q)
    <2>1. a = Redirect(q)
      BY <1>1 DEF Answer
    <2>2. a.marks = {} /\ a.calls = None /\ a.status # 200
      BY <2>1 DEF Redirect, Answered
    <2> QED BY <1>1, <2>2
  <1>2. CASE ~Redirected(s, q)
    <2>1. s["credentials"] => "*" \notin s["origins"]
      BY BootReads DEF GatewayIInv, RunsWhatWasDeployed, Validate
    <2>2. q.path = "docs" => b.status # Panic /\ (b.status = 200 => s["environment"] # "production")
      BY DocsRead, BodyLimitTyped
    <2>3. b.status = Panic => q.panics # "no"
      BY RouteReads, BodyLimitTyped
    <2>4. /\ a.status = IF Preflight(s, q) THEN 204
                        ELSE IF b.status # Panic THEN b.status
                        ELSE IF q.panics = "late" THEN q.says ELSE 500
          /\ a.calls = IF Preflight(s, q) THEN None ELSE b.calls
          /\ {"id", "guard"} \subseteq a.marks
          /\ "deadline" \in a.marks <=> ~Preflight(s, q)
          /\ "logged" \in a.marks <=> ~Preflight(s, q) /\ b.status # Panic
          /\ "origin" \in a.marks <=> q.origin \in s["origins"]
          /\ "credentials" \in a.marks <=> q.origin \in s["origins"] /\ s["credentials"]
      BY <1>2, AnswerReads
    <2>5. "logged" \notin a.marks =>
            q.panics # "no" \/ (a.status = 204 /\ q.preflight /\ "origin" \in a.marks)
      BY <2>3, <2>4 DEF Preflight
    <2>6. q.path = "docs" /\ a.status = 200 => s["environment"] # "production"
      BY <2>2, <2>4
    <2> QED BY <2>1, <2>4, <2>5, <2>6
  <1> QED BY <1>1, <1>2

(* A live token under a kid the ring knows is refused for its times only. *)
LEMMA RefusalHolds == ASSUME GatewayIInv PROVE RefusalHasACause
  <1> SUFFICES ASSUME NEW r \in Up, NEW t \in tokens, now < t.at + TTL,
                      ~Expired(r, t), ~TooEarly(r, t), t.gen <= replica[r].gen
               PROVE  Verify(r, t)
    <2>1. now \in Nat /\ TTL \in Nat /\ \A t \in tokens : t.at \in Nat /\ t.gen \in Nat
      BY SettingsAssumption, GatewayAssumption DEF GatewayIInv, ClockTyped, TokensTyped
    <2>2. \A r \in Up : replica[r].gen \in Nat
      BY DEF GatewayIInv, RunsWhatWasDeployed
    <2> QED BY <2>1, <2>2 DEF RefusalHasACause
  <1>1. Knows(replica[r].settings, t.id, t.key)
    BY DEF GatewayIInv, TokensKnown
  <1> QED BY <1>1 DEF Knows, Verify

----------------------------------------------------------------------------
(* The rotation puts the old key under its kid and keeps the others: a ring that grows
   knows what it knew.                                                                 *)
LEMMA RotateKeepsKeys ==
    ASSUME GatewayIInv, NEW path \in Paths, NEW id \in KeyIds, Rotate(path, id),
           NEW i, NEW key, Knows(Boot(deployed.from), i, key)
    PROVE  Knows(Boot(deployed'.from), i, key)
  <1> DEFINE old == Boot(deployed.from)
             new == Boot(deployed'.from)
  <1>1. PICK public \in Paths :
          /\ Content[public] = old["privateKey"]
          /\ Deploy([privateKeyFile |-> path, keyId |-> id,
                     oldKeys |-> Over([j \in {old["keyId"]} |-> public], old["oldKeys"])],
                    {Content[path], old["privateKey"]})
    BY DEF Rotate
  <1> DEFINE olds == Over([j \in {old["keyId"]} |-> public], old["oldKeys"])
             changes == [privateKeyFile |-> path, keyId |-> id, oldKeys |-> olds]
  <1>2. new # Refused /\ deployed'.from = [deployed.from EXCEPT !.env = Over(changes, @)]
    BY <1>1 DEF Deploy
  <1>3. deployed'.from.env = Over(changes, deployed.from.env)
    BY <1>2 DEF GatewayIInv, DeployedTyped, IsDeployment
  <1>4. "oldKeys" \in DOMAIN deployed'.from.env /\ deployed'.from.env["oldKeys"] = olds
    BY <1>3 DEF Over
  <1>5. new["oldKeys"] = olds
    <2>1. "oldKeys" \in Fields \ Secrets
      BY DEF Fields, Numbers, Secrets
    <2>2. new["oldKeys"] = MergedOf(deployed'.from, "oldKeys")
      BY <1>2, <2>1, Booted
    <2> HIDE DEF olds, new
    <2> QED BY <1>4, <2>2 DEF MergedOf
  <1>6. new["keyId"] \notin DOMAIN new["oldKeys"]
    BY <1>2, BootReads DEF Validate
  <1> HIDE DEF old, new
  <1>7. DOMAIN olds = DOMAIN old["oldKeys"] \cup {old["keyId"]}
        /\ \A j \in DOMAIN olds : olds[j] = IF j = old["keyId"] THEN public ELSE old["oldKeys"][j]
    BY DEF Over
  <1> HIDE DEF olds
  <1>8. i \in DOMAIN olds /\ key = Content[olds[i]]
    BY <1>1, <1>7 DEF Knows, PublicKeys, old
  <1>9. i \in DOMAIN PublicKeys(new) /\ PublicKeys(new)[i] = Content[olds[i]]
    BY <1>5, <1>6, <1>8 DEF PublicKeys
  <1> QED BY <1>8, <1>9 DEF Knows, new

(* Dropping a public key takes away its kid and nothing else. *)
LEMMA RetireKeepsKeys ==
    ASSUME GatewayIInv, NEW id \in KeyIds, Retire(id),
           NEW i, NEW key, Knows(Boot(deployed.from), i, key), i # id
    PROVE  Knows(Boot(deployed'.from), i, key)
  <1> DEFINE old == Boot(deployed.from)
             new == Boot(deployed'.from)
             olds == [j \in DOMAIN old["oldKeys"] \ {id} |-> old["oldKeys"][j]]
             changes == [oldKeys |-> olds]
  <1>1. old # Refused /\ new # Refused /\ deployed'.from = [deployed.from EXCEPT !.env = Over(changes, @)]
    BY DEF Retire, Deploy
  <1>2. /\ deployed'.from.env = Over(changes, deployed.from.env)
        /\ deployed'.from.yaml = deployed.from.yaml
        /\ deployed'.from.dotEnv = deployed.from.dotEnv
        /\ deployed'.from.loadDotEnv = deployed.from.loadDotEnv
    BY <1>1 DEF GatewayIInv, DeployedTyped, IsDeployment
  <1>3. "oldKeys" \in DOMAIN deployed'.from.env /\ deployed'.from.env["oldKeys"] = olds
    BY <1>2 DEF Over
  <1>4. new["oldKeys"] = olds
    <2>1. "oldKeys" \in Fields \ Secrets
      BY DEF Fields, Numbers, Secrets
    <2>2. new["oldKeys"] = MergedOf(deployed'.from, "oldKeys")
      BY <1>1, <2>1, Booted
    <2> HIDE DEF olds, new
    <2> QED BY <1>3, <2>2 DEF MergedOf
  <1>5. \A f \in Fields \ {"oldKeys"} : MergedOf(deployed'.from, f) = MergedOf(deployed.from, f)
    BY <1>2 DEF MergedOf, Over
  <1>6. new["keyId"] = old["keyId"] /\ new["privateKey"] = old["privateKey"]
    BY <1>1, <1>5, Booted DEF Fields, Numbers, Secrets
  <1> HIDE DEF old, new
  <1>7. PublicKeys(new) = [j \in DOMAIN olds \cup {old["keyId"]} |->
                             IF j = old["keyId"] THEN old["privateKey"] ELSE Content[olds[j]]]
    BY <1>4, <1>6 DEF PublicKeys
  <1> QED BY <1>7 DEF Knows, PublicKeys, old, new

----------------------------------------------------------------------------
LEMMA InitHolds == ASSUME Init PROVE GatewayIInv
  <1>1. Up = {} /\ DOMAIN replica = Replicas
    BY DEF Init, Up
  <1> QED BY <1>1, GatewayAssumption
          DEF Init, GatewayIInv, DeployedTyped, RunsWhatWasDeployed, SignersKnown, TokensKnown,
              SignersCounted, TokensTyped, ClockTyped

(* A new token is signed with a key that every ring it may be shown to knows. *)
LEMMA LoginKeeps ==
    ASSUME GatewayIInv, NEW r \in Replicas, Login(r)
    PROVE  GatewayIInv'
  <1> DEFINE s == replica[r].settings
             t == [id |-> s["keyId"], key |-> s["privateKey"], gen |-> replica[r].gen,
                   at |-> now, iat |-> now + skew[r]]
  <1>1. r \in Up /\ tokens' = tokens \cup {t} /\ UNCHANGED <<deployed, replica, settled, now>>
    BY DEF Login
  <1>2. Up' = Up
    BY <1>1 DEF Up
  <1>3. t.id \in KeyIds /\ t.key \in Keys /\ t.gen \in 0 .. deployed.gen /\ t.at \in 0 .. now
    BY <1>1, BootTyped DEF GatewayIInv, RunsWhatWasDeployed, ClockTyped
  <1>4. DeployedTyped' /\ RunsWhatWasDeployed' /\ SignersKnown' /\ ClockTyped'
    BY <1>1, <1>2 DEF GatewayIInv, DeployedTyped, RunsWhatWasDeployed, SignersKnown, ClockTyped
  <1>5. /\ Knows(Boot(deployed.from), t.id, t.key)
        /\ \A q \in Up : t.gen <= replica[q].gen => Knows(replica[q].settings, t.id, t.key)
    BY <1>1 DEF GatewayIInv, SignersKnown
  <1>6. replica[r].gen = t.gen /\ replica[r].settings["keyId"] = t.id
    OBVIOUS
  <1> HIDE DEF t
  <1>7. TokensKnown'
    BY <1>1, <1>2, <1>5 DEF GatewayIInv, TokensKnown
  <1>8. SignersCounted'
    BY <1>1, <1>2, <1>6 DEF GatewayIInv, SignersCounted
  <1>9. TokensTyped'
    BY <1>1, <1>3 DEF GatewayIInv, TokensTyped
  <1> QED BY <1>4, <1>7, <1>8, <1>9 DEF GatewayIInv

(* A replica starts with the deployed key ring, which knows every signer and every token. *)
LEMMA StartKeeps ==
    ASSUME GatewayIInv, NEW r \in Replicas, Start(r)
    PROVE  GatewayIInv'
  <1>1. CASE Boot(deployed.from) = Refused
    <2>1. UNCHANGED vars
      BY <1>1 DEF Start, vars
    <2> QED BY <2>1 DEF vars, GatewayIInv, DeployedTyped, RunsWhatWasDeployed, SignersKnown, TokensKnown,
                        SignersCounted, TokensTyped, ClockTyped, Up
  <1>2. CASE Boot(deployed.from) # Refused
    <2> DEFINE s == Boot(deployed.from)
               new == [gen |-> deployed.gen, from |-> deployed.from, settings |-> s]
    <2>1. /\ s # Refused /\ r \notin Up
          /\ replica' = [replica EXCEPT ![r] = new]
          /\ settled' = now /\ UNCHANGED <<deployed, tokens, now>>
      BY <1>2 DEF Start, Up
    <2>2. \A q \in Up : q # r /\ replica'[q] = replica[q]
      BY <2>1 DEF Up
    <2>3. replica'[r] = new /\ DOMAIN replica' = Replicas
      BY <2>1 DEF GatewayIInv, RunsWhatWasDeployed
    <2>4. Up \subseteq Up' /\ Up' \subseteq Up \cup {r}
      BY <2>1, <2>2 DEF Up
    <2>5. deployed.gen \in Nat /\ \A q \in Up : replica[q].gen \in 0 .. deployed.gen
      BY DEF GatewayIInv, DeployedTyped, RunsWhatWasDeployed
    <2>6. DeployedTyped' /\ ClockTyped' /\ TokensTyped'
      BY <2>1 DEF GatewayIInv, DeployedTyped, ClockTyped, TokensTyped
    <2>7. RunsWhatWasDeployed'
      BY <2>1, <2>2, <2>3, <2>4, <2>5 DEF GatewayIInv, DeployedTyped, RunsWhatWasDeployed
    <2>8. SignersKnown'
      <3>1. Knows(s, s["keyId"], s["privateKey"])
        BY <2>1, BootTyped DEF GatewayIInv, DeployedTyped
      <3>2. \A q \in Up : deployed.gen <= replica[q].gen => replica[q].settings = s
        BY <2>5 DEF GatewayIInv, RunsWhatWasDeployed
      <3>3. \A q \in Up' : replica'[q] = IF q = r THEN new ELSE replica[q]
        BY <2>2, <2>3, <2>4
      <3> HIDE DEF s
      <3>4. \A p \in Up' : Knows(s, replica'[p].settings["keyId"], replica'[p].settings["privateKey"])
        BY <2>4, <3>1, <3>3 DEF GatewayIInv, SignersKnown, s
      <3>5. \A p, q \in Up' : replica'[p].gen <= replica'[q].gen =>
              Knows(replica'[q].settings, replica'[p].settings["keyId"], replica'[p].settings["privateKey"])
        BY <2>4, <3>1, <3>2, <3>3, <3>4 DEF GatewayIInv, SignersKnown
      <3> QED BY <2>1, <3>4, <3>5 DEF SignersKnown, s
    <2>9. TokensKnown'
      BY <2>1, <2>2, <2>3, <2>4 DEF GatewayIInv, TokensKnown
    <2>10. SignersCounted'
      BY <2>1 DEF GatewayIInv, SignersCounted, TokensTyped, ClockTyped
    <2> QED BY <2>6, <2>7, <2>8, <2>9, <2>10 DEF GatewayIInv
  <1> QED BY <1>1, <1>2

LEMMA StopKeeps ==
    ASSUME GatewayIInv, NEW r \in Replicas, Stop(r)
    PROVE  GatewayIInv'
  <1>1. /\ replica' = [replica EXCEPT ![r] = Down]
        /\ settled' = now /\ UNCHANGED <<deployed, tokens, now>>
    BY DEF Stop
  <1>2. Up' = Up \ {r} /\ DOMAIN replica' = Replicas /\ \A q \in Up' : replica'[q] = replica[q]
    BY <1>1 DEF GatewayIInv, RunsWhatWasDeployed, Up
  <1>3. DeployedTyped' /\ ClockTyped' /\ TokensTyped'
    BY <1>1 DEF GatewayIInv, DeployedTyped, ClockTyped, TokensTyped
  <1>4. RunsWhatWasDeployed' /\ SignersKnown' /\ TokensKnown'
    BY <1>1, <1>2 DEF GatewayIInv, RunsWhatWasDeployed, SignersKnown, TokensKnown
  <1>5. SignersCounted'
    BY <1>1 DEF GatewayIInv, SignersCounted, TokensTyped, ClockTyped
  <1> QED BY <1>3, <1>4, <1>5 DEF GatewayIInv

(* A change of the deployment, whatever it changes: no replica runs with it yet. *)
LEMMA DeployKeeps ==
    ASSUME GatewayIInv, NEW changes, Typed(changes), NEW key \in SUBSET Keys, Deploy(changes, key),
           \A r \in Up : Knows(Boot(deployed'.from), replica[r].settings["keyId"],
                               replica[r].settings["privateKey"]),
           \A t \in tokens : now < t.at + TTL => Knows(Boot(deployed'.from), t.id, t.key)
    PROVE  GatewayIInv'
  <1>1. /\ deployed.gen < MaxGen /\ deployed'.gen = deployed.gen + 1
        /\ deployed'.from = [deployed.from EXCEPT !.env = Over(changes, @)]
        /\ deployed'.used = deployed.used \cup key
        /\ UNCHANGED <<replica, tokens, settled, now>> /\ Up' = Up
    BY DEF Deploy, Up
  <1>2. DeployedTyped'
    <2>1. Typed(Over(changes, deployed.from.env))
      BY DEF GatewayIInv, DeployedTyped, IsDeployment, Typed, Over
    <2>2. IsDeployment([deployed.from EXCEPT !.env = Over(changes, @)])
      BY <2>1 DEF GatewayIInv, DeployedTyped, IsDeployment
    <2> QED BY <1>1, <2>2, GatewayAssumption DEF GatewayIInv, DeployedTyped
  <1>3. deployed.gen \in Nat
    BY DEF GatewayIInv, DeployedTyped
  <1>4. RunsWhatWasDeployed'
    BY <1>1, <1>3 DEF GatewayIInv, RunsWhatWasDeployed
  <1>5. SignersKnown'
    BY <1>1 DEF GatewayIInv, SignersKnown
  <1>6. TokensKnown' /\ SignersCounted' /\ ClockTyped'
    BY <1>1 DEF GatewayIInv, TokensKnown, SignersCounted, ClockTyped
  <1>7. TokensTyped'
    BY <1>1, <1>3 DEF GatewayIInv, TokensTyped
  <1> QED BY <1>2, <1>4, <1>5, <1>6, <1>7 DEF GatewayIInv

LEMMA RotateKeeps ==
    ASSUME GatewayIInv, NEW path \in Paths, NEW id \in KeyIds, Rotate(path, id)
    PROVE  GatewayIInv'
  <1> DEFINE old == Boot(deployed.from)
  <1>1. PICK public \in Paths :
          Deploy([privateKeyFile |-> path, keyId |-> id,
                  oldKeys |-> Over([j \in {old["keyId"]} |-> public], old["oldKeys"])],
                 {Content[path], old["privateKey"]})
    BY DEF Rotate
  <1>2. Content[path] \in Keys /\ old["privateKey"] \in Keys
    BY BootTyped DEF Rotate, GatewayIInv, DeployedTyped
  <1>3. Typed([privateKeyFile |-> path, keyId |-> id,
               oldKeys |-> Over([j \in {old["keyId"]} |-> public], old["oldKeys"])])
    BY DEF Typed, Numbers
  <1>4. \A r \in Up : Knows(Boot(deployed'.from), replica[r].settings["keyId"],
                            replica[r].settings["privateKey"])
    BY RotateKeepsKeys DEF GatewayIInv, SignersKnown
  <1>5. \A t \in tokens : now < t.at + TTL => Knows(Boot(deployed'.from), t.id, t.key)
    BY RotateKeepsKeys DEF GatewayIInv, TokensKnown
  <1> QED BY <1>1, <1>2, <1>3, <1>4, <1>5, DeployKeeps

(* Nobody signs with the key that is dropped, and what it signed has expired: every replica
   runs with the deployed key, and the last that ran with another stopped long enough ago. *)
LEMMA RetireKeeps ==
    ASSUME GatewayIInv, NEW id \in KeyIds, Retire(id)
    PROVE  GatewayIInv'
  <1> DEFINE old == Boot(deployed.from)
             olds == [j \in DOMAIN old["oldKeys"] \ {id} |-> old["oldKeys"][j]]
  <1>1. /\ old # Refused /\ id \in DOMAIN old["oldKeys"]
        /\ \A r \in Up : replica[r].gen = deployed.gen
        /\ now >= settled + TTL
        /\ Deploy([oldKeys |-> olds], {})
    BY DEF Retire, Waited
  <1>2. old["keyId"] # id
    BY <1>1, BootReads DEF Validate
  <1>3. \A r \in Up : replica[r].settings = old
    BY <1>1 DEF GatewayIInv, RunsWhatWasDeployed
  <1>4. \A r \in Up : Knows(Boot(deployed'.from), replica[r].settings["keyId"],
                            replica[r].settings["privateKey"])
    BY <1>2, <1>3, RetireKeepsKeys DEF GatewayIInv, SignersKnown
  <1>5. ASSUME NEW t \in tokens, now < t.at + TTL
        PROVE  Knows(Boot(deployed'.from), t.id, t.key)
    <2>1. ~(t.at <= settled)
      BY <1>1, <1>5, SettingsAssumption, GatewayAssumption DEF GatewayIInv, TokensTyped, ClockTyped
    <2>2. t.id # id
      BY <1>2, <1>3, <2>1 DEF GatewayIInv, SignersCounted
    <2> QED BY <1>5, <2>2, RetireKeepsKeys DEF GatewayIInv, TokensKnown
  <1>6. Typed([oldKeys |-> olds])
    BY DEF Typed, Numbers
  <1> HIDE DEF olds
  <1> QED BY <1>1, <1>4, <1>5, <1>6, DeployKeeps

LEMMA TickKeeps ==
    ASSUME GatewayIInv, Tick
    PROVE  GatewayIInv'
  <1>1. /\ now' = now + 1 /\ now < MaxTime /\ tokens' \subseteq tokens
        /\ UNCHANGED <<deployed, replica, settled>> /\ Up' = Up
    BY DEF Tick, Up
  <1>2. now \in Nat /\ TTL \in Nat /\ \A t \in tokens : t.at \in Nat
    BY SettingsAssumption, GatewayAssumption DEF GatewayIInv, ClockTyped, TokensTyped
  <1>3. DeployedTyped' /\ RunsWhatWasDeployed' /\ SignersKnown'
    BY <1>1 DEF GatewayIInv, DeployedTyped, RunsWhatWasDeployed, SignersKnown
  <1>4. TokensKnown'
    BY <1>1, <1>2 DEF GatewayIInv, TokensKnown
  <1>5. SignersCounted'
    BY <1>1 DEF GatewayIInv, SignersCounted
  <1>6. TokensTyped' /\ ClockTyped'
    BY <1>1, <1>2, SettingsAssumption, GatewayAssumption DEF GatewayIInv, TokensTyped, ClockTyped
  <1> QED BY <1>3, <1>4, <1>5, <1>6 DEF GatewayIInv

----------------------------------------------------------------------------
(* The inductive invariant of the rotation: what replicas of each generation run with, and
   that no key is dropped while a token it signed is in its lifetime.                     *)
THEOREM GatewayInvariant == Spec => []GatewayIInv
  <1>1. Init => GatewayIInv
    BY InitHolds
  <1>2. GatewayIInv /\ [Next]_vars => GatewayIInv'
    <2> SUFFICES ASSUME GatewayIInv, [Next]_vars PROVE GatewayIInv'
      OBVIOUS
    <2>1. ASSUME NEW r \in Replicas, Start(r) \/ Stop(r) \/ Login(r) PROVE GatewayIInv'
      BY <2>1, StartKeeps, StopKeeps, LoginKeeps
    <2>2. ASSUME NEW path \in Paths, NEW id \in KeyIds, Rotate(path, id) PROVE GatewayIInv'
      BY <2>2, RotateKeeps
    <2>3. ASSUME NEW id \in KeyIds, Retire(id) PROVE GatewayIInv'
      BY <2>3, RetireKeeps
    <2>4. CASE Tick
      BY <2>4, TickKeeps
    <2>5. CASE UNCHANGED vars
      BY <2>5 DEF vars, GatewayIInv, DeployedTyped, RunsWhatWasDeployed, SignersKnown, TokensKnown,
                  SignersCounted, TokensTyped, ClockTyped, Up
    <2> QED BY <2>1, <2>2, <2>3, <2>4, <2>5 DEF Next
  <1> QED BY <1>1, <1>2, PTL DEF Spec

(* The settings, the deployment, the tokens and the clocks are well typed. *)
THEOREM GatewayTyped == Spec => []TypeOK
  BY GatewayInvariant, TypeHolds, PTL

(* Every replica runs with what its deployment says, by the order of the sources. *)
THEOREM GatewayRunsAsDeployed == Spec => []RunsAsDeployed
  BY GatewayInvariant, RunsAsDeployedHolds, PTL

(* However often keys are rotated and retired and replicas started and stopped meanwhile,
   a token in its lifetime is refused only by a replica that lags behind, or for a clock. *)
THEOREM GatewayRefusalHasACause == Spec => []RefusalHasACause
  BY GatewayInvariant, RefusalHolds, PTL

(* Routes, services and body limits agree, for every configuration that starts and every
   request.                                                                              *)
THEOREM GatewayRouterFitsServices == Spec => []RouterFitsServices
  BY GatewayInvariant, RouterFitsServicesHolds, PTL

(* No answer is without its guards, whatever the middlewares and the handlers do. *)
THEOREM GatewayAnswersAreGuarded == Spec => []AnswersAreGuarded
  BY GatewayInvariant, AnswersAreGuardedHolds, PTL

(* ---------------------------- login limiter ---------------------------- *)

(* A login that talks to Redis is at one of the counters. *)
Keyed(c) == c.pc \in {"incr", "expire"} => c.key \in Counters

CallsKeyed == \A p \in Procs : Keyed(call[p])

(* Every login let past has counted: the history and the counter are born and expire
   together, and no step counts less than it lets past.                              *)
PassedWereCounted == \A k \in Counters : passed[k] <= count[k]

LimiterIInv ==
    /\ LimiterTypeOK
    /\ CallsKeyed
    /\ PassedWereCounted
    /\ AtMostLimit

----------------------------------------------------------------------------
LEMMA LoginFacts ==
    ASSUME LimiterIInv, NEW p \in Procs
    PROVE  call[p] \in Call /\ Keyed(call[p])
  BY DEF LimiterIInv, LimiterTypeOK, CallsKeyed

LEMMA IdleTyped == Idle \in Call /\ Keyed(Idle)
  BY DEF Idle, Call, Pcs, Replies, Keyed

LEMMA DecidedTyped ==
    ASSUME NEW answer \in Replies
    PROVE  Decided(answer) \in Call /\ Keyed(Decided(answer))
  BY DEF Decided, Idle, Call, Pcs, Replies, Keyed

(* Allowed goes on to the account, or answers. *)
LEMMA AllowedTyped ==
    ASSUME NEW c \in Call
    PROVE  Allowed(c) \in Call /\ Keyed(Allowed(c))
  <1>1. CASE c.next = NoKey
    <2>1. Allowed(c) = Decided("allowed")
      BY <1>1 DEF Allowed
    <2>2. "allowed" \in Replies
      BY DEF Replies
    <2> QED BY <2>1, <2>2, DecidedTyped
  <1>2. CASE c.next # NoKey
    <2>1. c.next \in Accounts
      BY <1>2 DEF Call
    <2>2. Allowed(c) = [c EXCEPT !.pc = "incr", !.key = c.next, !.next = NoKey]
      BY <1>2 DEF Allowed
    <2> QED BY <2>1, <2>2 DEF Call, Pcs, Keyed, Counters
  <1> QED BY <1>1, <1>2

(* A login moves on: its own part of the invariant. *)
LEMMA OneCallMoves ==
    ASSUME LimiterIInv, NEW p \in Procs, NEW c \in Call, Keyed(c), call' = [call EXCEPT ![p] = c]
    PROVE  call' \in [Procs -> Call] /\ CallsKeyed'
  BY DEF LimiterIInv, LimiterTypeOK, CallsKeyed

(* The counters and the history stay. *)
LEMMA CountersStay ==
    ASSUME LimiterIInv, UNCHANGED <<count, passed>>
    PROVE  PassedWereCounted' /\ AtMostLimit'
  BY DEF LimiterIInv, PassedWereCounted, AtMostLimit

LEMMA IncrKeeps ==
    ASSUME LimiterIInv, NEW p \in Procs, Incr(p)
    PROVE  LimiterIInv'
  <1> DEFINE k == call[p].key
             n == count[k] + 1
  <1>1. k \in Counters /\ call[p] \in Call
    BY LoginFacts DEF Incr, Keyed
  <1>2. count[k] \in Nat /\ n \in 1 .. MaxCount /\ passed[k] \in Nat
    BY <1>1, LimiterAssumption DEF LimiterIInv, LimiterTypeOK, Incr
  <1>3. count' \in [Counters -> 0 .. MaxCount] /\ left' \in [Counters -> 0 .. Window]
    BY <1>1, <1>2 DEF LimiterIInv, LimiterTypeOK, Incr
  <1>4. call' \in [Procs -> Call] /\ CallsKeyed'
    <2>1. CASE call' = call
      BY <2>1 DEF LimiterIInv, LimiterTypeOK, CallsKeyed
    <2>2. CASE n = 1 /\ call' = [call EXCEPT ![p] = [@ EXCEPT !.pc = "expire"]]
      <3>1. [call[p] EXCEPT !.pc = "expire"] \in Call /\ Keyed([call[p] EXCEPT !.pc = "expire"])
        BY <1>1 DEF Call, Pcs, Keyed
      <3> QED BY <2>2, <3>1, OneCallMoves
    <2>3. CASE call' = [call EXCEPT ![p] = Allowed(@)]
      BY <1>1, <2>3, AllowedTyped, OneCallMoves
    <2>4. CASE call' = [call EXCEPT ![p] = Decided("limited")]
      <3>1. "limited" \in Replies
        BY DEF Replies
      <3> QED BY <2>4, <3>1, DecidedTyped, OneCallMoves
    <2> QED BY <2>1, <2>2, <2>3, <2>4 DEF Incr
  <1>5. \/ passed' = passed
        \/ passed' = [passed EXCEPT ![k] = IF Within(n) THEN @ + 1 ELSE @]
    BY DEF Incr
  <1>6. passed' \in [Counters -> Nat]
    BY <1>1, <1>2, <1>5 DEF LimiterIInv, LimiterTypeOK
  <1>7. \A q \in Counters : passed'[q] <= count'[q] /\ passed'[q] <= Limit
    <2> TAKE q \in Counters
    <2>0. count' = [count EXCEPT ![k] = n] /\ passed[q] <= count[q] /\ passed[q] <= Limit
          /\ count[q] \in Nat /\ passed[q] \in Nat /\ Limit \in Nat
      BY LimiterAssumption DEF Incr, LimiterIInv, LimiterTypeOK, PassedWereCounted, AtMostLimit
    <2>1. CASE q # k
      BY <1>1, <1>5, <2>0, <2>1 DEF LimiterIInv, LimiterTypeOK
    <2>2. CASE q = k
      BY <1>1, <1>2, <1>5, <2>0, <2>2 DEF LimiterIInv, LimiterTypeOK, Within
    <2> QED BY <2>1, <2>2
  <1> QED BY <1>3, <1>4, <1>6, <1>7 DEF LimiterIInv, LimiterTypeOK, PassedWereCounted, AtMostLimit

LEMMA ExpireKeeps ==
    ASSUME LimiterIInv, NEW p \in Procs, Expire(p)
    PROVE  LimiterIInv'
  <1>1. call[p] \in Call /\ call[p].key \in Counters
    BY LoginFacts DEF Expire, Keyed
  <1>2. left' \in [Counters -> 0 .. Window] /\ UNCHANGED <<count, passed>>
    BY <1>1, LimiterAssumption DEF LimiterIInv, LimiterTypeOK, Expire
  <1>3. call' \in [Procs -> Call] /\ CallsKeyed'
    <2>1. CASE call' = call
      BY <2>1 DEF LimiterIInv, LimiterTypeOK, CallsKeyed
    <2>2. CASE call' = [call EXCEPT ![p] = Allowed(@)]
      BY <1>1, <2>2, AllowedTyped, OneCallMoves
    <2> QED BY <2>1, <2>2 DEF Expire
  <1> QED BY <1>2, <1>3, CountersStay DEF LimiterIInv, LimiterTypeOK

LEMMA ElapseKeeps ==
    ASSUME LimiterIInv, Elapse
    PROVE  LimiterIInv'
  <1>1. \A k \in Counters : /\ count[k] \in 0 .. MaxCount /\ left[k] \in 0 .. Window /\ passed[k] \in Nat
                            /\ passed[k] <= count[k] /\ passed[k] <= Limit
    BY DEF LimiterIInv, LimiterTypeOK, PassedWereCounted, AtMostLimit
  <1>2. count' \in [Counters -> 0 .. MaxCount]
    BY <1>1, LimiterAssumption DEF Elapse
  <1>3. left' \in [Counters -> 0 .. Window]
    BY <1>1, LimiterAssumption DEF Elapse
  <1>4. passed' \in [Counters -> Nat]
    BY <1>1 DEF Elapse
  <1>5. PassedWereCounted' /\ AtMostLimit'
    BY <1>1, LimiterAssumption DEF Elapse, PassedWereCounted, AtMostLimit
  <1>6. call' \in [Procs -> Call] /\ CallsKeyed'
    BY DEF LimiterIInv, LimiterTypeOK, CallsKeyed, Elapse
  <1> QED BY <1>2, <1>3, <1>4, <1>5, <1>6 DEF LimiterIInv, LimiterTypeOK

(* Starting, failing and returning only move the login. *)
LEMMA LoginMoveKeeps ==
    ASSUME LimiterIInv, NEW p \in Procs, Attempt(p) \/ Fail(p) \/ Return(p)
    PROVE  LimiterIInv'
  <1>1. UNCHANGED <<count, left, passed>>
    BY DEF Attempt, Fail, Return
  <1>2. \E c \in Call : Keyed(c) /\ call' = [call EXCEPT ![p] = c]
    <2>1. CASE Attempt(p)
      <3>1. PICK c \in Clients, a \in Accounts :
              call' = [call EXCEPT ![p] = [Idle EXCEPT !.pc = "incr", !.key = c, !.next = a]]
        BY <2>1 DEF Attempt
      <3>2. [Idle EXCEPT !.pc = "incr", !.key = c, !.next = a] \in Call
            /\ Keyed([Idle EXCEPT !.pc = "incr", !.key = c, !.next = a])
        BY DEF Idle, Call, Pcs, Replies, Keyed, Counters
      <3> QED BY <3>1, <3>2
    <2>2. CASE Fail(p)
      <3>1. "error" \in Replies
        BY DEF Replies
      <3> QED BY <2>2, <3>1, DecidedTyped DEF Fail, Reply
    <2>3. CASE Return(p)
      BY <2>3, IdleTyped DEF Return
    <2> QED BY <2>1, <2>2, <2>3
  <1>3. call' \in [Procs -> Call] /\ CallsKeyed'
    BY <1>2, OneCallMoves
  <1> QED BY <1>1, <1>3, CountersStay DEF LimiterIInv, LimiterTypeOK

----------------------------------------------------------------------------
(* The inductive invariant of the rate limit of Login and Allow. *)
THEOREM LimiterInvariant == LimiterSpec => []LimiterIInv
  <1>1. LimiterInit => LimiterIInv
    <2> SUFFICES ASSUME LimiterInit PROVE LimiterIInv
      OBVIOUS
    <2>1. LimiterTypeOK /\ CallsKeyed
      BY IdleTyped, LimiterAssumption DEF LimiterInit, LimiterTypeOK, CallsKeyed
    <2>2. PassedWereCounted /\ AtMostLimit
      BY LimiterAssumption DEF LimiterInit, PassedWereCounted, AtMostLimit
    <2> QED BY <2>1, <2>2 DEF LimiterIInv
  <1>2. LimiterIInv /\ [LimiterNext]_limiterVars => LimiterIInv'
    <2> SUFFICES ASSUME LimiterIInv, [LimiterNext]_limiterVars PROVE LimiterIInv'
      OBVIOUS
    <2>1. CASE Elapse
      BY <2>1, ElapseKeeps
    <2>2. CASE UNCHANGED limiterVars
      BY <2>2 DEF limiterVars, LimiterIInv, LimiterTypeOK, CallsKeyed, PassedWereCounted, AtMostLimit
    <2>3. ASSUME NEW p \in Procs, Attempt(p) \/ Incr(p) \/ Expire(p) \/ Fail(p) \/ Return(p)
          PROVE  LimiterIInv'
      BY <2>3, LoginMoveKeeps, IncrKeeps, ExpireKeeps
    <2> QED BY <2>1, <2>2, <2>3 DEF LimiterNext
  <1> QED BY <1>1, <1>2, PTL DEF LimiterSpec

(* The counters, their expiry and the logins are well typed. *)
THEOREM LimiterTyped == LimiterSpec => []LimiterTypeOK
  <1>1. LimiterIInv => LimiterTypeOK
    BY DEF LimiterIInv
  <1> QED BY <1>1, LimiterInvariant, PTL

(* No more logins than Limit get past a client or an account while its counter lives,
   however many run at once and however often INCR and EXPIRE are sent.              *)
THEOREM LimiterAtMostLimit == LimiterSpec => []AtMostLimit
  <1>1. LimiterIInv => AtMostLimit
    BY DEF LimiterIInv
  <1> QED BY <1>1, LimiterInvariant, PTL
=============================================================================
