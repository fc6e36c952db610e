------------------------------- MODULE Gateway -------------------------------
(***************************************************************************)
(* Replicas that start from the deployed configuration, the router each    *)
(* builds from it, and the access tokens they sign and verify while an     *)
(* operator rotates the signing key by the steps of docs/deployment.md.    *)
(*                                                                         *)
(* The router keeps nothing between requests, so an answer is an operator  *)
(* of the settings and the request: the middlewares of NewRouter, each     *)
(* over the answer of the ones inside it.                                  *)
(***************************************************************************)
EXTENDS Settings

CONSTANTS
  Replicas,
  Deployments,  \* what may be deployed first: [yaml, dotEnv, env, loadDotEnv]
  Requests,     \* what is asked and how it fares below the router, see Handle
  MaxSkew,      \* bound: how far the clock of a replica is ahead
  MaxTime,      \* bound on the clock
  MaxGen,       \* bound on the number of changes of the deployment
  MaxTokens,    \* bound on the tokens at a time
  Down,         \* a replica that does not run
  None          \* no service called

ASSUME GatewayAssumption ==
  /\ MaxSkew \in Nat /\ MaxTime \in Nat /\ MaxGen \in Nat
  /\ \A d \in Deployments : IsDeployment(d)
  /\ \A q \in Requests :
       /\ q.size \in Nat /\ q.rest \in Nat /\ q.says \in 200 .. 599
       /\ q.preflight => q.method = "OPTIONS"

VARIABLES
  deployed,  \* [gen, from: the deployment, used: the key pairs generated so far]
  replica,   \* [Replicas -> Down or [gen, from, settings]]
  tokens,    \* unexpired access tokens: [id, key, gen, at, iat]
  skew,      \* the clock of each replica, ahead of now
  settled,   \* when a replica last started or stopped
  now

vars == <<deployed, replica, tokens, skew, settled, now>>

Up == {r \in Replicas : replica[r] # Down}

(* ------------------------------- router ------------------------------- *)

BodyMax == 10
Overhead == 1
Panic == 0

FileRoutes == {<<"POST", "uploads">>, <<"DELETE", "object">>, <<"GET", "download">>}
ConfigRoutes == ({"GET", "POST", "PUT", "DELETE"} \X {"configs"}) \cup {<<"GET", "public">>}

\* The routes of the contract, paths of one module and handler kind taken together; "session"
\* stands for refresh and logout, which are posted without a body.
Contract ==
  ({"GET", "POST", "PUT", "PATCH", "DELETE"} \X {"core"}) \cup {<<"POST", "session">>}
    \cup FileRoutes \cup ConfigRoutes

\* The operations whose body the validator reads and the handler decodes.
Bodied == {"POST", "PUT", "PATCH"} \X {"core", "configs"}

\* mutant: PUT does not look at the module switch.
SwitchedOffNotPut(s) ==
  (IF s["files"] THEN {} ELSE FileRoutes)
    \cup (IF s["configs"] THEN {} ELSE ConfigRoutes \ {<<"PUT", "configs">>})
\* optionalModuleRouter: the routes it leaves out.
SwitchedOff(s) ==
  (IF s["files"] THEN {} ELSE FileRoutes) \cup (IF s["configs"] THEN {} ELSE ConfigRoutes)

Documented(s) == s["environment"] # "production" /\ s["docs"]

\* Build: the services the handlers are given.
Services(s) ==
  {"core"} \cup (IF s["files"] THEN {"files"} ELSE {}) \cup (IF s["configs"] THEN {"configs"} ELSE {})

ServiceOf(path) ==
  IF path \in {"uploads", "object", "download"} THEN "files"
  ELSE IF path \in {"configs", "public"} THEN "configs" ELSE "core"

\* identity and superuser: whom the handlers of a module let through.  Those of the core ask
\* as well, which is left to the answer of the core.
Callers == {"nobody", "user", "superuser"}
Admitted(path) ==
  IF path = "configs" THEN {"superuser"}
  ELSE IF path \in {"uploads", "object"} THEN {"user", "superuser"} ELSE Callers

\* allowedType: what a file may be, and how large.
AllowedType(s, kind) == kind = "image" \/ (kind = "video" /\ s["video"])
Largest(s, kind) == IF kind = "video" THEN s["videoMax"] ELSE s["imageMax"]

\* bodyLimitMiddleware and fileUploadBodyLimit.
BodyLimit(s, q) ==
  IF <<q.method, q.path>> = <<"POST", "uploads">> /\ s["files"]
  THEN Overhead + (IF s["video"] /\ s["videoMax"] > s["imageMax"] THEN s["videoMax"] ELSE s["imageMax"])
  ELSE BodyMax

\* An answer: its status, what the middlewares added to it, the service that was called.
Answered(status, service) == [status |-> status, marks |-> {}, calls |-> service]
Mark(a, m) == [a EXCEPT !.marks = @ \cup {m}]

\* A request may find its handler panic, early or with the answer partly written; otherwise
\* it has the answer of the service: done, missing, forbidden, a conflict, unavailable.
Serve(q, service) == Answered(IF q.panics = "no" THEN q.says ELSE Panic, service)

\* UploadFile reads the parts before the file and then lets the service read the file: both
\* meet the limit of the body, the service that of the kind of file too.
Upload(s, q) ==
  IF q.rest > BodyLimit(s, q) THEN Answered(413, None)
  ELSE IF ~q.form THEN Answered(400, None)
  ELSE IF ~AllowedType(s, q.kind) THEN Answered(415, "files")
  ELSE IF q.size > Largest(s, q.kind) \/ q.rest + q.size > BodyLimit(s, q) THEN Answered(413, "files")
  ELSE Serve(q, "files")

\* The handlers ask the core who is calling, look whether the file service is there (the
\* others just use theirs), decode the body, and call their service.
Handle(s, q) ==
  LET service == ServiceOf(q.path) IN
  IF q.caller \notin Admitted(q.path) THEN Answered(IF q.caller = "nobody" THEN 401 ELSE 403, "core")
  ELSE IF service = "files" /\ service \notin Services(s)
    THEN Answered(IF q.path = "uploads" THEN 503 ELSE 404, None)
  ELSE IF q.path = "uploads" THEN Upload(s, q)
  ELSE IF <<q.method, q.path>> \in Bodied /\ ~q.form THEN Answered(400, None)
  ELSE IF service \notin Services(s) THEN Answered(Panic, service)
  ELSE Serve(q, service)

\* The generated wrapper parses the parameters once more, for the handler.
Bind(s, q) == IF q.valid THEN Handle(s, q) ELSE Answered(400, None)

\* The validator knows the contract and reads the body of an operation that has one, uploads
\* excepted.
ValidateRequest(s, q) ==
  IF q.valid /\ (<<q.method, q.path>> \in Bodied => q.rest + q.size <= BodyLimit(s, q)) THEN Bind(s, q)
  ELSE Answered(400, None)

Routes(s) == (Contract \ SwitchedOff(s)) \cup (IF Documented(s) THEN {<<"GET", "docs">>} ELSE {})

\* No route ends in a slash.
Route(s, q) ==
  IF q.slash \/ <<q.method, q.path>> \notin Routes(s) THEN Answered(404, None)
  ELSE IF q.path = "docs" THEN Answered(200, None)
  ELSE ValidateRequest(s, q)

Timeout(a) == Mark(a, "deadline")

\* Not deferred: a panic passes the access log by.
AccessLog(a) == IF a.status = Panic THEN a ELSE Mark(a, "logged")

CORS(s, q, a) ==
  IF q.origin \notin s["origins"] THEN a
  ELSE LET answer == IF q.preflight THEN Answered(204, None) ELSE a IN
       Mark(IF s["credentials"] THEN Mark(answer, "credentials") ELSE answer, "origin")

SecurityHeaders(a) == Mark(a, "guard")
RequestID(a) == Mark(a, "id")

\* Nothing is added to an answer that is partly written.
Recovery(q, a) ==
  IF a.status # Panic THEN a
  ELSE [a EXCEPT !.status = IF q.panics = "late" THEN q.says ELSE 500]

\* gin.New leaves RedirectTrailingSlash on: a route asked for with a slash too many is answered
\* by the engine, before any middleware.
Redirected(s, q) == q.slash /\ <<q.method, q.path>> \in Routes(s)
Redirect(q) == Answered(IF q.method = "GET" THEN 301 ELSE 307, None)

\* mutant: CORS is the first of the middlewares.
CORSFirst(s, q) ==
  IF Redirected(s, q) THEN Redirect(q)
  ELSE Recovery(q, CORS(s, q, RequestID(SecurityHeaders(AccessLog(Timeout(Route(s, q)))))))
\* NewRouter: the order of router.Use.
Answer(s, q) ==
  IF Redirected(s, q) THEN Redirect(q)
  ELSE Recovery(q, RequestID(SecurityHeaders(CORS(s, q, AccessLog(Timeout(Route(s, q)))))))

(* ------------------------------- tokens ------------------------------- *)

\* Sign: issued, not before and expiry by the clock of the replica.
Login(r) ==
  /\ r \in Up
  /\ Cardinality(tokens) < MaxTokens
  /\ tokens' = tokens \cup
       {[id |-> replica[r].settings["keyId"], key |-> replica[r].settings["privateKey"],
         gen |-> replica[r].gen, at |-> now, iat |-> now + skew[r]]}
  /\ UNCHANGED <<deployed, replica, skew, settled, now>>

Expired(r, t) == now + skew[r] >= t.iat + TTL
TooEarly(r, t) == now + skew[r] < t.iat

\* Verify: the kid names a key, the signature is of that key, and the times hold.
Verify(r, t) ==
  LET keys == PublicKeys(replica[r].settings) IN
  /\ t.id \in DOMAIN keys /\ keys[t.id] = t.key
  /\ ~Expired(r, t) /\ ~TooEarly(r, t)

(* ------------------------------ replicas ------------------------------ *)

Init ==
  /\ deployed \in {[gen |-> 0, from |-> d, used |-> {}] : d \in Deployments}
  /\ replica = [r \in Replicas |-> Down]
  /\ tokens = {}
  /\ skew \in [Replicas -> 0 .. MaxSkew]
  /\ settled = 0 /\ now = 0

\* goba serve: the process ends if Load or Build refuse.
Start(r) ==
  /\ replica[r] = Down
  /\ IF Boot(deployed.from) = Refused THEN UNCHANGED <<replica, settled>>
     ELSE /\ replica' = [replica EXCEPT ![r] = [gen |-> deployed.gen, from |-> deployed.from,
                                                settings |-> Boot(deployed.from)]]
          /\ settled' = now
  /\ UNCHANGED <<deployed, tokens, skew, now>>

Stop(r) ==
  /\ r \in Up
  /\ replica' = [replica EXCEPT ![r] = Down]
  /\ settled' = now
  /\ UNCHANGED <<deployed, tokens, skew, now>>

\* The operator changes variables of the environment, after trying them (goba doctor).
Deploy(changes, key) ==
  LET d == [deployed.from EXCEPT !.env = Over(changes, @)] IN
  /\ deployed.gen < MaxGen
  /\ Boot(d) # Refused
  /\ deployed' = [gen |-> deployed.gen + 1, from |-> d, used |-> deployed.used \cup key]
  /\ UNCHANGED <<replica, tokens, skew, settled, now>>

\* docs/deployment.md: a new key pair under a new kid, the public key of the old one kept.
Rotate(path, id) ==
  LET old == Boot(deployed.from) IN
  /\ old # Refused
  /\ Content[path] \in Keys \ (deployed.used \cup {PublicKeys(old)[i] : i \in DOMAIN PublicKeys(old)})
  /\ \E public \in Paths :
       /\ Content[public] = old["privateKey"]
       /\ Deploy([privateKeyFile |-> path, keyId |-> id,
                  oldKeys |-> Over([i \in {old["keyId"]} |-> public], old["oldKeys"])],
                 {Content[path], old["privateKey"]})

\* At least one access_token_ttl.
Waited == now >= settled + TTL

\* The old public key is dropped, when no replica has signed with it for a token's life.
Retire(id) ==
  LET old == Boot(deployed.from) IN
  /\ old # Refused /\ id \in DOMAIN old["oldKeys"]
  /\ \A r \in Up : replica[r].gen = deployed.gen
  /\ Waited
  /\ Deploy([oldKeys |-> [i \in DOMAIN old["oldKeys"] \ {id} |-> old["oldKeys"][i]]], {})

Tick ==
  /\ now < MaxTime
  /\ now' = now + 1
  /\ tokens' = {t \in tokens : now + 1 < t.iat + TTL}
  /\ UNCHANGED <<deployed, replica, skew, settled>>

Next ==
  \/ \E r \in Replicas : Start(r) \/ Stop(r) \/ Login(r)
  \/ \E path \in Paths, id \in KeyIds : Rotate(path, id)
  \/ \E id \in KeyIds : Retire(id)
  \/ Tick

Spec == Init /\ [][Next]_vars

(* ----------------------------- properties ----------------------------- *)

Running == {replica[r].settings : r \in Up}

\* What runs has passed Validate, and signs and verifies with keys.
TypeOK ==
  /\ deployed.gen \in 0 .. MaxGen /\ deployed.used \subseteq Keys
  /\ \A r \in Up :
       /\ replica[r].gen \in 0 .. deployed.gen
       /\ DOMAIN replica[r].settings = Fields
       /\ replica[r].settings["environment"] \in Environments
       /\ replica[r].settings["privateKey"] \in Keys
  /\ \A t \in tokens : t.id \in KeyIds /\ t.key \in Keys /\ t.gen \in 0 .. deployed.gen
  /\ settled \in 0 .. now /\ now \in 0 .. MaxTime

\* A replica runs with what the deployment says, read as docs/configuration.md orders the
\* sources: a variable of the environment over everything else, the .env lines only where
\* asked for and never in production, a secret from its one source, and nothing in
\* production that the variables did not make safe.
RunsAsDeployed ==
  \A r \in Up :
    LET s == replica[r].settings
        d == replica[r].from
        plain == Fields \ {"password", "privateKey"} IN
    /\ \A f \in DOMAIN d.env \cap plain : s[f] = d.env[f]
    /\ \A f \in (DOMAIN d.yaml \cap plain) \ (DOMAIN d.env \cup DOMAIN d.dotEnv) : s[f] = d.yaml[f]
    /\ ~d.loadDotEnv =>
         \A f \in (DOMAIN d.dotEnv \cap plain) \ (DOMAIN d.env \cup DOMAIN d.yaml) : s[f] = Default[f]
    /\ s["environment"] = "production" =>
         ~d.loadDotEnv /\ s["tls"] /\ s["secure"] /\ ~s["debug"] /\ ~Documented(s)
    /\ s["passwordFile"] # Empty => s["password"] = Content[s["passwordFile"]]

\* While the keys are rotated, a replica refuses a token in its lifetime only if it has not
\* been restarted since a key newer than its own signed it, or for its clock.
RefusalHasACause ==
  \A r \in Up, t \in tokens :
    ~Verify(r, t) =>
      \/ now >= t.at + TTL \/ Expired(r, t)
      \/ TooEarly(r, t)
      \/ replica[r].gen < t.gen

\* What a request passes on its way to the service of its path.
Passes(s, q) ==
  /\ ~q.slash /\ q.valid /\ q.caller \in Admitted(q.path) /\ q.form
  /\ q.rest + q.size <= BodyLimit(s, q)

\* Router, handlers and services come from the same switches.  A request to a module that is
\* off is answered like a path that does not exist, and calls nothing: no handler is left
\* with a service it was not given.  In a module that is on, a request with nothing wrong
\* about it reaches the service, whatever that answers.  And a file the file service takes is
\* within the body limit of the upload, with room for the rest of the form.
RouterFitsServices ==
  \A s \in Running, q \in Requests :
    LET a == Answer(s, q)
        service == ServiceOf(q.path) IN
    <<q.method, q.path>> \in Contract =>
      /\ service \notin Services(s) => a.status = 404 /\ a.calls = None
      /\ service \in Services(s) /\ Passes(s, q) => a.calls = service
      /\ /\ q.path = "uploads" /\ service \in Services(s)
         /\ AllowedType(s, q.kind) /\ q.size <= Largest(s, q.kind) /\ q.rest <= Overhead
         => q.rest + q.size <= BodyLimit(s, q)

\* An answer has the request id and the security headers, unless it is the redirect of a
\* route asked for with a slash too many, which calls no service.  A service is called with a
\* deadline set, credentials are offered only to an origin that the deployment names, the
\* documentation is not in production, and only redirects, answered preflights and panics
\* are not in the access log.
AnswersAreGuarded ==
  \A s \in Running, q \in Requests :
    LET a == Answer(s, q) IN
    /\ {"id", "guard"} \subseteq a.marks \/ (Redirected(s, q) /\ a.calls = None)
    /\ a.calls # None => "deadline" \in a.marks
    /\ "credentials" \in a.marks => q.origin \in s["origins"] /\ "*" \notin s["origins"]
    /\ "logged" \notin a.marks =>
         \/ Redirected(s, q) \/ q.panics # "no"
         \/ a.status = 204 /\ q.preflight /\ "origin" \in a.marks
    /\ q.path = "docs" /\ a.status = 200 => s["environment"] # "production"
=============================================================================
