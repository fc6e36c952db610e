# goba-slim in TLA+

goba-slim is a Go backend skeleton: one HTTP process, started in any number of
replicas, over PostgreSQL and Redis. Its hard part is authentication. Short-lived
access tokens are checked against a session in Redis and an account in PostgreSQL on
every request, refresh tokens rotate in Redis, and nothing but single Redis commands,
one Lua script and a few SQL statements is atomic. This project models that part first,
and then the rest of the program from its start to its end: the configuration a process
reads, the router it builds, the files it keeps, the schema it waits for and migrates,
and how it stops.

## 1. The system

| Component | State | Operations | Shared with | What is hard, and what makes it correct |
|---|---|---|---|---|
| Session store, `auth/redis/store.go`, `rotate.lua` | three Redis keyspaces with a TTL: `session:<id>` (user, current digest), `refresh:<digest>` (session, active or spent), `user-sessions:<user>` (a set) | `Create`, `Get`, `ListByUser`, `Rotate`, `Revoke`, `RevokeUser` | every replica; go-redis sends a command again when its reply is lost | each operation but `Rotate` is several commands. One usable refresh token per live session; reuse of a spent token ends the session; a session that ended never comes back; the index keeps every live session, as far as `EXPIRE` in whole seconds can keep it |
| Login limiter, `Allow` in the same file | one counter per client and per account | `INCR`, then `EXPIRE` if it was the first | every replica | the two are not atomic. At most `login_attempts` get past in one window of a counter; that the window ends is not certain (section 4) |
| User accounts, `user/service.go`, `user/postgres/repository.go`, `db/queries/users.sql` | the `users` table; a transaction-level advisory lock | creation, credential check with rehash, password change and reset, status, superuser, session policy | all replicas; authentication reads it | read-check-write over several statements. The last active superuser stays; every change of what an account may do takes a new `session_version`; the lock is always given back |
| Authentication service, `auth/service.go`, and the handlers of `transport/httpapi/handler.go` | none of its own; locals of a request between store calls | `Login`, `Refresh`, `Authenticate`, `Logout`, `RevokeSession`, `RevokeOtherSessions`, `RevokeUser`, administration | both stores | session and account are read one after the other while they change. A grant was right at one moment of the request; a revocation that answers ok ended its sessions; only the caller's own sessions |
| Dynamic configuration, `systemconfig/` | the `system_configs` table; one Redis key with the public list | `Create`, `Update`, `Delete`, `ListPublic` | all replicas | a fill races a change, a commit whose invalidation is lost. How stale the cache may be, and for which reasons |
| Local file store, `file/localstore.go`, `file/service.go` | a directory of objects and temporary files, the open root | `Put`, `Open`, `Delete`, `Start`, `Stop` | requests and the lifecycle | `Put` is five operations on the directory, between which the root may be closed or the process killed. An object is whole or absent; what is left behind has a cause; an answer holds |
| Lifecycle and HTTP server, `app/run.go`, `app/lifecycle.go`, `httpserver/server.go`, `database/database.go` | started components, the running server, the pool and its lock | `Run`, start and stop in order, graceful shutdown | signals, requests under way | partial failure of start; a shutdown that runs out of time while requests hold connections. What started is stopped, in reverse; `Run` returns |
| Migration and readiness, `database/migrate.go`, `database/database.go`, `health/service.go` | the schema and its version; a session-level advisory lock | `Migrate`, `Start`, `Health` | several migrating processes, replicas that serve | a lost connection frees the lock. No migration twice; a replica the schema has moved past leaves |
| Configuration, `config/config.go` | none: what one start computes | `Load`, `Validate` | defaults, YAML, `.env`, environment, secret files | four sources and rules between their fields |
| Router and middleware, `httpserver/router.go`, `httpserver/middleware.go` | none between requests | the answer to a request | the configuration, the handlers | what a redirect, an answered preflight, a refused request or a panic still carries; switches read in three places; two limits on one upload |
| Access tokens, `auth/jwt.go` | the private key and the public keys by `kid` | `Sign`, `Verify` | replicas with different key rings during a rotation | a replica that lags behind; clocks that differ |
| Logging, command line, `devtool` | none | | | sequential code; no protocol of its own |

A request comes through the router to a handler, the handler calls the services, the
services call the two stores. Nothing is kept in memory between requests, so replicas
and goroutines are the same thing to the models: a *process*.

## 2. The modules

| Module | Models | State and actions |
|---|---|---|
| `SessionStore` | `redis/store.go`, `redis/rotate.lua` | `session`, `refresh` and `index` are the three keyspaces, each key with the ticks it has left: `TTL` after a `SET` or the script, which work in milliseconds, `IndexTTL` after the `EXPIRE` of `Create`, which go-redis sends in whole seconds of `Second` ticks; `proc` is the call a process is in, with the locals it carries from one command to the next. One action per command, `MULTI` or script: `SMembers`, `ListGet`, `SRem`, `RevokeGet`, `RevokeTx`, `DelIndex`, `CreateTx`, and the branches of `rotate.lua` (`RotateUnknown`, `RotateReuse`, `RotateOrphan`, `RotateFresh`). `Answer` lets the script run once more, as after a lost reply. `Fail` is an error of Redis before a command or a process that stops there. `Tick` is expiry. `owner` and `atStart` are history variables |
| `SessionLife` | nothing in the code: the promise of the session store | a session is unborn, live or ended; it has one token; tokens are never used twice |
| `SessionRefinement` | the mapping from the store to `SessionLife` | a session is live while its key is there, ended when it is gone after its creation; stated as `ImplementsLife` |
| `UserAccounts` | `user/service.go` over PostgreSQL | `accounts` is the table, `lock` the advisory lock, `proc` the calls. One SQL statement is one action (`ReadAndCheck`, `Rehash`, `UpdatePassword`, `Lock`, `TxGet`, `TxCount`, `TxWrite`); an `UPDATE` and the `COMMIT` after it are one, because the change is unseen in between. Failures may commit or not (a lost reply) |
| `AccountVersions`, `AccountRefinement` | the promise of the user module, and the mapping | an account is created with version 1 and every change is one version up |
| `AuthService` | `auth/service.go` and the handlers that call it | composes `SessionLife` and `AccountVersions` (both as `INSTANCE`, whose steps its actions take) and adds the requests: one action per store call. `holder` is the user and version a session was opened with, `family` the session of a token, `given` the sessions whose login has answered |
| `LoginLimiter` | the rate-limit loop of `Login`, `Allow` | `count` and `left` are the counters and their expiry; `Incr`, `Expire`, each possibly sent again |
| `LocalFileStore` | `file/localstore.go`, `file/service.go` and the file handlers | a file is as many blocks as were written to it. `objects` and `temps` are the directory, `root` which opening of it is current, `proc` the requests with the root they captured. One action per operation on the directory: `CreateTemp`, `CopyBlock`, `CopyEnd`, `Rename`, `Cleanup`, `RemoveObject`. `Crash`, `PowerLoss` (renames the disk does not hold are undone) and `Fail` come at any time. `upload`, `gone` and `disturbed` are history |
| `Lifecycle` | `app/run.go`, `app/lifecycle.go`, `Server.Run`, the lock and pool of `database.Component` | `main` is where `Run` is, `comp` the components, `serve` and `errCh` the goroutine of `Serve` and its channel, `locked` the write lock of the component, `handler` the requests, each a number of calls of which a database call is `CurrentPool`, `Acquire`, `Release` |
| `Migration` | `Migrate` and `inspect` over one database | `version`, `managed` and `foreign` are the schema, `lock` and `session` the server's view of the migrators, `migrator` and `replica` the processes. One action per statement, and one per transaction of the migration library |
| `Settings` | `config.Load`, `Validate`, `NewTokens` | no state: `Boot` is what one start computes from its sources, or `Refused`. Fields that a rule relates to another are kept, a pair that is treated like another folded into it (the two passwords, the two transports, the two pools); those only range-checked by themselves are one field, `rest` |
| `Gateway` | `NewRouter` and its middlewares, `jwt.go`, and the rotation of `docs/deployment.md` | `Answer` composes the engine's redirect, the middlewares, the route table, the validator and the handlers as operators of the settings and the request. A request says how it fares below the router: who calls, whether its parameters and its form are right, how large its file and the rest of its body are, what the service says of it (`says`, any status) and whether the handler panics, before or after the answer has begun. `replica` is what each process runs with, `tokens` the access tokens, `skew` the clocks; `Deploy`, `Rotate` and `Retire` are the operator's steps |
| `ConfigCache` | `systemconfig/` | `configs` is the table, `cached` the Redis key with its ttl and the age of its contents; `Transaction`, `Invalidate`, `Get`, `Query`, `Put` |
| `SessionStoreProofs`, `UserAccountsProofs`, `AuthServiceProofs`, `ConfigCacheProofs`, `LocalFileStoreProofs`, `LifecycleProofs`, `MigrationProofs` | | the proofs about the module of that name; the first two also prove the refinements |
| `EdgeProofs` | | the proofs about `Gateway` (with `Settings`) and `LoginLimiter`, which stand between a client and the services; the definitions of `LoginLimiter` have names of their own (`LimiterInit`, `LimiterSpec`, ...), so that one module can extend both |
| `MC...` | | the symmetry sets for TLC |

Definitions marked *mutant* in the modules are deliberate wrong variants of the
definition below them. No action uses them: they show that the property named for them
in `PROJECT.json` would notice the bug.

How the data is abstracted: users, sessions, passwords and digests are model values. A
password hash is the password with the parameters it was made with. A session record is
the fields a decision is made on. Names, profiles, timestamps, JSON and UUID parsing,
cookies and messages are left out. An access token is the session it was signed for,
because user and version of a session never change.

A call that answers an error may have had its last command executed (the reply was
lost) or not: both are in the models, `Fail` being enabled before and after each
command. What is not in them is a command that the server executes only after the
caller has gone on, as when a connection that timed out still delivers its bytes.

## 3. The runs

| Run | Checks | Bounds, and why they are enough |
|---|---|---|
| `session_store` | `TypeOK`, `OneCurrentToken`, `ReuseEndsSession`, `RevokeEndsSession`, `RevokeUserEndsListed`, `NeverResurrected`, `IndexKeepsLive`, and `ImplementsLife` | two processes, because every race of the store is of two calls over one session; two sessions and three digests allow a session rotated twice or two sessions and one rotation; a TTL of three ticks of half a second lets one key be renewed while another expires and has the fraction that `EXPIRE` cuts off. 1.9 million states |
| `user_accounts` | `TypeOK`, `DecidesOnTruth`, `SuperuserRemains` | two accounts and two requests, the least that can remove both superusers; version up to 3 |
| `account_passwords` | `ImplementsVersions`, `NoLockStarvation` | one account, two passwords, old and new parameters, two requests, under `FairSpec` and without symmetry |
| `auth_service` | `TypeOK`, `GrantsLinearize`, `RevokedIsEnded`, `OwnSessionsOnly` | two users, two sessions, two tokens, two requests at once, one change of each account. 1.4 million states |
| `config_cache` | `TypeOK`, `StaleHasACause`, `BoundedStaleness` | one configuration with two values, public or private; two requests; TTL 2, requests of one tick, so a fill can land a tick after its read. The list of one key shows every staleness, since a list is read and stored whole |
| `login_limiter` | `LimiterTypeOK`, `AtMostLimit` | two clients and one account, two logins at once, limit 2, window 2, counters up to 3, one above the limit |
| `local_files` | `TypeOK`, `VisibleWhole`, `LeftoversHaveACause`, `AnswersHold`, `TooLargeIsSaid` | two requests and two users over one object identifier; an allowed and a forbidden kind; a limit and a header of two blocks and streams up to three, so a stream can end before, in and after its header and one block over the limit; the store is opened twice. 4.7 million states |
| `lifecycle` | `TypeOK`, `OrderedLifecycle`, `InFlightIsServed`, `RunReturns` | three components, a pool of two connections and three requests of up to two calls, so that one waits for a connection while the pool closes; under `FairSpec` |
| `migration` | `TypeOK`, `MigrationsOnce`, `ReportIsOwn`, `StaleReplicaLeaves` | a migrator with two and one with three migrations, a server built with one and one with three; every database they may meet: empty, foreign, and managed at each version; under `FairSpec` |
| `gateway` | `TypeOK`, `RunsAsDeployed`, `RefusalHasACause`, `RouterFitsServices`, `AnswersAreGuarded` | some fifty deployments, right and wrong; two replicas, three key pairs, two rotation steps, a token life of two ticks and clocks one tick apart; for every running configuration some seventy requests: each thing that can be wrong with one, sizes around each limit, and answers of the services; the replicas are symmetric |
| `session_listing`, `account_rehash` | the two disagreements below | as small as shows them |

Bounds that are not constants of the program: `MaxVersion` on `session_version` (a
`bigint`), `MaxCount` on a counter (64 bits in Redis), the finite sets, and `Patience`,
the longest life of one request in ticks. The code bounds a request by the timeouts of
`timeoutMiddleware`, Redis and PostgreSQL; the model only says that some bound exists.
`MaxStarts`, `MaxSize` and `MaxCalls` bound how often the file store is opened, the
blocks of a stream and the calls of a request; `MaxGen`, `MaxTokens`, `MaxTime` and
`MaxSkew` the rotation. Connections, retries and lost sessions are not bounded.

Deadlock is checked in every run but `lifecycle`, where the process ends: a process that
has answered returns to idle, and a `Start` or `Tick` is possible in every state.

**Fairness.** Three properties need it.

- `NoLockStarvation`: `FairSpec` of `UserAccounts` assumes that a statement that was
  sent answers or fails (weak fairness on `Answered`: pgx has a deadline on every
  request), and that PostgreSQL hands the advisory lock to waiting transactions in the
  order they asked (strong fairness on `Lock`). Waiting for the lock is not assumed to
  fail, so the property does not hold by giving up.
- `RunReturns`: `FairSpec` of `Lifecycle` assumes that `Run` goes on when it can, that
  `Serve` returns after `Shutdown`, and that a handler goes on: its calls answer or meet
  the deadline of `timeoutMiddleware`, and a transaction that has a connection gives it
  back. No request has to be accepted, none has to end in time for the shutdown, and
  waiting for the component's lock has no deadline, as in the code. The
  deadline is always set: `Validate` refuses a `server.read_timeout` of zero.
- `StaleReplicaLeaves`: the platform asks `/readyz` again and again, and `inspect` ends
  (its context has `health_timeout`).

## 4. What the code does and the documents do not say

Two runs in which TLC finds a counterexample to something a document says;
`PROJECT.json` quotes the lines.

- `session_listing`: `RevokeUser` reads the user's index, revokes those sessions one by
  one and then deletes the index as a whole. A login in between adds its session to the
  key that is about to go: the session stays live, but in no listing, and neither
  "revoke my other sessions" nor the next `RevokeUser` finds it. (A password change
  still ends it, through the session version.)
- `account_rehash`: a login that finds outdated Argon2 parameters writes the new hash of
  the password it verified with `WHERE id` only. A reset that committed between the read
  and the write is undone, with its session version still up.

Met while modelling, part of the models, and worth knowing; no document claims otherwise
in so many words:

- The record of a spent refresh token lives one TTL from the rotation that spent it,
  while later rotations keep the session alive. Presented after that, the old token is
  answered as unknown and does not end the session.
- `Create` sets the session's keys for the lifetime in milliseconds and the index with
  `EXPIRE`, which go-redis cuts to whole seconds. With a `refresh_token_ttl` that has a
  fraction (`Validate` accepts one) and no rotation since the login, the index expires
  first, and for that fraction of a second the session is live but in no listing.
  `IndexKeepsLive` allows exactly that, and no lifetime of whole seconds does it
  (`WholeSecondsKeepIndexed`).
- `Create` revokes and opens in separate commands: two logins at once of a user with
  `allow_multiple_sessions` false leave two sessions.
- `EXPIRE` of a login counter is sent only by the login that saw the count 1. If that
  reply is lost and `INCR` sent again, or the process stops, the counter has no expiry.
- `Put` syncs the file but not its directory: an upload answered 201 can be gone after a
  power loss (`AnswersHold` allows exactly that). A `Stop` under an upload leaves its
  temporary file, because the cleanup uses the closed root too; nothing removes
  temporary files later.
- `Server.Run` that ends because `Serve` failed stops the components under the requests
  that are still being served; only a signal gives them the shutdown timeout.
- Whether `.env` is allowed is judged on the final environment: a `.env` that sets
  `GOBA_APP_ENVIRONMENT=development` under a YAML file of production starts a
  development process. A secret and its `_FILE` conflict across sources, and an empty
  variable counts as set. `AUTH_VERIFICATION_KEY_FILES` replaces the map of the YAML
  file as a whole. An unknown YAML key is refused, an unknown variable is ignored.
- While a key is rotated as `docs/deployment.md` says, a token of a replica that has
  been restarted is refused by one that has not (`RefusalHasACause` allows exactly
  that), and `nbf` has no leeway: a token of a replica whose clock is ahead is refused
  for the difference.
- gin's `RedirectTrailingSlash` is on: a route asked for with a slash too many is answered
  301 or 307 by the engine, before any middleware, so without request id, security
  headers, CORS and log entry (`AnswersAreGuarded` names this exception).
- An image over its own limit and under the larger limit of a video is read and answered
  413 by the service; the limit of the body is only the larger of the two.
- The access log is not deferred: neither a request that panicked nor an answered
  preflight is in it. A panic after the first byte leaves a truncated 200. `"*"` as a
  CORS origin matches no origin.

## 5. What is proved

All theorems are for every value of the constants, under the assumptions named in the
modules (`ConstantsAssumption`, `AccountsAssumption`, `PromiseAssumption`,
`AuthAssumption`, `CacheAssumption`, `LimiterAssumption`, `FilesAssumption`,
`LifecycleAssumption`, `MigrationAssumption`, `SettingsAssumption`,
`GatewayAssumption`): `None` is no member of a set and no record,
bounds are positive, a limit on files leaves room for the header that is sniffed, the set
of account ids is finite, which counting the superusers needs, at least PostgreSQL and
Redis are started, among the processes that migrate and serve one has a newest binary, a
source's values are of their fields' types where they decode, and the empty string is
neither a path nor a key.

Each module has one or two inductive invariants, which TLC checked on the instance of the
run first, a lemma for each action, and one theorem per property.

- **`SessionStoreProofs`**: `StoreInvariant`, and from it `StoreTyped`,
  `StoreOneCurrentToken`, `StoreNeverResurrects`. `OneCurrentToken` is not inductive:
  a rotation needs to know that the current digest of a live session is recorded as
  active and with the session's own TTL (or expiry would take it first,
  `CurrentActive`), that an active record of a live session is the current one
  (`ActiveCurrent`), that the session and token a login is about to write belong to
  nobody else (`PendingFresh`, `PendingDistinct`), and that a revocation deletes a
  token of the session it revokes (`RevokesOwn`, `TokensOwned`).

  On top of it `RevocationInvariant`, about what a call may claim while others run, and
  from that `StoreReuseEnds`, `StoreRevokeEnds`, `StoreRevokeUserEnds` and
  `StoreIndexKeepsLive`. A call claims the end only of sessions that were created before
  (`CallSettled`), which no later login can bring back, since a session id is generated
  once; what it has dealt with is over (`CallEnds`), and a revocation is past its loop
  only with nothing left to look at (`CallPlaced`). `ListByUser` removes from the index
  only what is no live session of the user (`CallSifts`), and the index key outlives
  every session in it (`IndexOutlives`), because each rotation puts its expiry off, but
  for `CutOff`, the fraction of a second that `EXPIRE` cuts off the lifetime. With a
  lifetime of whole seconds `CutOff` is zero, and `WholeSecondsKeepIndexed` says that then
  only the deletion of the whole index takes a live session out of it.

  `StoreImplementsLife` is the refinement: under the mapping of `SessionRefinement` every
  command is one step of `SessionLife` or a stutter, and a tick ends all the sessions that
  expire in it at once.
- **`UserAccountsProofs`**: `AccountsInvariant`, `AccountsTyped`,
  `AccountsDecideOnTruth`, `AccountsKeepSuperuser`. The advisory lock excludes
  (`LockHeld`); therefore the row a protected transaction read is still true when it
  writes, except for calls that do not touch status or flag (`DecidesOnTruth` is itself
  inductive with these); a count above one gives another superuser
  (`AnotherOne`, by the cardinality facts of the library), and a step that removes one
  leaves that other. `AccountsImplementVersions` is the refinement of `AccountVersions`:
  an `UPDATE` either leaves status and version alone or takes exactly one new version.
- **`AuthServiceProofs`**: `AuthInvariant`, `AuthTyped`, `AuthGrantsLinearize`,
  `AuthRevokedIsEnded`, `AuthOwnSessionsOnly`. Session and account are read one after the
  other, so a grant can only be right for the earlier of the two instants. The argument:
  the account of a session exists and is never behind the session's version
  (`SessionsHeld`), versions only grow, and one version has one status. An account that
  is no good for a session can therefore never become good for it again (`BadStaysBad`),
  and a request that finds it good at the second read was right at the first
  (`CallJudges`). `CallRevokes` is the same for revocations: the sessions on the list are
  the user's, and those that are done with have ended. `World` says what any step does to
  sessions and accounts as seen from a request that takes no part in it; every action is
  shown to keep to it once, and no pair of actions has to be looked at.

  `AuthKeepsToTheStores` closes the composition: every step of the service is a step of
  `SessionLife` and of `AccountVersions` or leaves them alone, and the two stores are
  proved to implement these.
- **`LocalFileStoreProofs`**: `FilesInvariant`, `FilesTyped`, `FilesVisibleWhole`,
  `FilesLeftoversHaveACause`, `FilesAnswersHold`, `FilesTooLargeIsSaid`. No two uploads
  have the same identifier (`Distinct`), so the temporary file holds what its own upload
  wrote (`Written`) and the rename makes a whole stream visible. Nothing is found, or
  was found and deleted, under an identifier before its rename, and something is after
  it (`Recorded`); a deletion keeps that true because only the owner named in the key,
  who is the one who uploaded it (`VisibleWhole`), or a superuser may delete. Answers
  hold from that. The length of a stream, the limits and the number of restarts are
  arbitrary.
- **`ConfigCacheProofs`**: `CacheInvariant`, `CacheTyped`, `CacheStaleHasACause`,
  `CacheBoundedStaleness`. A list in hand equals the public list unless a change
  committed since (`FreshInHand`), and age plus remaining ttl of the cached list never
  exceeds `TTL + Patience` (`CachedBounded`).
- **`EdgeProofs`**, about `Gateway`: `GatewayInvariant`, `GatewayTyped`,
  `GatewayRunsAsDeployed`, `GatewayRefusalHasACause`, `GatewayRouterFitsServices`,
  `GatewayAnswersAreGuarded`. They hold for any YAML, `.env` and environment whose values
  decode to the type of their field or not at all (`IsDeployment`), any request and any
  number of replicas, keys and rotations.

  What a replica runs with is what `Boot` makes of the sources it found
  (`RunsWhatWasDeployed`); `Booted` says where each setting comes from, and with
  `BootReads`, what `Load` lets through, gives `RunsAsDeployed`. `HandleReads`,
  `RouteReads` and `AnswerReads` say what a handler answers and calls, what the router
  makes of it, and what the middlewares make of any answer that is no redirect;
  `BodyLimitFits` is the arithmetic of the two limits of an upload. The two properties of
  the router are their combination. `RouterFitsServices` says that a service is reached
  and not what it answers: an object may be missing, a file too large.

  `RefusalHasACause` is the one that is not inductive. A rotation only adds to the key
  ring (`RotateKeepsKeys`: `Validate` refuses a `kid` that is among the old ones, so no
  entry is overwritten), and dropping a key takes away its `kid` alone
  (`RetireKeepsKeys`). So the ring of a generation knows every key that a replica of an
  earlier one still signs with (`SignersKnown`) and the key of every token in its lifetime
  (`TokensKnown`). That a dropped key has no such token is `SignersCounted`: a token was
  signed before the last start or stop, and has expired when the operator has waited for
  one `access_token_ttl` since then, or a replica that signs like its own still runs, and
  all that run sign with the deployed key. Both halves of the guard of `Retire`, that every
  replica runs with the new key and that the wait is over, are needed: without either TLC
  finds a live token that is refused. The document asks to keep the old public key for at
  least one `GOBA_AUTH_ACCESS_TOKEN_TTL`; the theorem says from when it is enough to count,
  from the last start or stop before every replica ran with the new key.
- **`EdgeProofs`**, about `LoginLimiter`: `LimiterInvariant`, `LimiterTyped`,
  `LimiterAtMostLimit`. The bound is on the logins that were let past, while the code
  bounds the counter. The two are born and expire together and no step counts less than it
  lets past (`PassedWereCounted`), however often a command was sent again.
- **`LifecycleProofs`**: `LifecycleInvariant`, `LifecycleTyped`, `LifecycleOrdered`,
  `LifecycleServesInFlight`. The components that are started are always the first `up`
  (`StartedAreFirst`), all of them while `Run` selects, shuts down or drains (`Phase`); the
  server accepts only while `Run` selects (`Listening`), so a request that is to be waited
  for keeps `Run` in the select or the shutdown (`WaitedFor`). The pool is not overdrawn
  by the cardinality facts of the library.
- **`MigrationProofs`**: `MigrationInvariant`, `MigrationTyped`, `MigrationAppliesOnce`,
  `MigrationReportsOwn`. A migrator with an open session past the lock holds it
  (`LockHeld`); one whose session is lost has a version that may be old, but can run no
  statement any more, because every statement goes through that session; so the version
  of the one at work is the schema's (`AtTheVersion`).

Only model-checked: the three liveness properties, `NoLockStarvation`, `RunReturns` and
`StaleReplicaLeaves`, which are liveness under fairness and beyond the prover, and the two
properties that the code violates (section 4), whose counterexamples TLC finds.
No module uses a recursive operator.

## 6. What is not modelled

What `PROJECT.json` calls `partly` or `not_modelled`, with the reasons there. In the parts
that are modelled: unique indexes on names and e-mails, profile updates and login
timestamps (nothing decides on them), the check that an administrator is a superuser
in `AuthService` (an administration request is simply possible; `Gateway` has the check), validation of configuration values, the
configuration event bus (it has no subscriber in the repository), Redis failover and
loss of data, and clock skew between replicas and Redis. The logging package, flag
parsing, pagination and `devtool` make no decision another part relies on. Of an upload
`LocalFileStore` has the file part alone; `Gateway` has the form parts before it, by their
size, and a form without a file, but not one that breaks off between two parts. A syntactically broken
`.env` line or YAML file is the same as a value that does not decode.

## 7. Plan

Written, in this order because each stands on the ones before: `SessionStore`,
`UserAccounts`, `AuthService` over their promises, `LoginLimiter`, `ConfigCache`,
`LocalFileStore`, `Lifecycle`, `Migration`, `Settings` and `Gateway`.

The proofs followed the same order. Every safety property that a passing run checks is
proved, and so are the two refinements and that `AuthService` keeps to the promises it is
composed of.

Left, if the code around it grows: a form that breaks off between two of its parts, and
what an administrator may do about a login counter that has lost its expiry.
