------------------------------ MODULE Migration ------------------------------
(* `goba db migrate` run by several processes at once, built from different   *)
(* versions of the repository, while replicas of `goba serve` start and       *)
(* answer /readyz: platform/database and platform/health.                     *)
(*                                                                            *)
(* A migrator works in one session of PostgreSQL, which holds the session's   *)
(* advisory lock and runs every statement. One statement, or one transaction  *)
(* of the migration library, is one action. The migration library (tern) is   *)
(* external: NewMigrator creates the version table, Migrate runs each missing *)
(* migration and its new version in one transaction.                          *)
EXTENDS Integers, FiniteSets

CONSTANTS
  Migrators,
  Replicas,
  Built,        \* how many migrations are embedded in each one's binary
  None

Processes == Migrators \cup Replicas

ASSUME MigrationAssumption ==
  /\ Built \in [Processes -> Nat \ {0}]
  /\ \E p \in Processes : \A q \in Processes : Built[q] <= Built[p]
  /\ None \notin Processes

Last == CHOOSE n \in {Built[p] : p \in Processes} : \A p \in Processes : Built[p] <= n
Numbers == 1 .. Last

VARIABLES
  managed,      \* the version table is there
  version,      \* the version in it
  foreign,      \* there are tables of somebody else
  applied,      \* history: how often each migration was committed
  lock,         \* the migrator whose session holds the advisory lock
  session,      \* of each migrator: none, open, orphan (its client is gone) or dead
  migrator,
  replica

vars == <<managed, version, foreign, applied, lock, session, migrator, replica>>
schema == <<managed, version, foreign, applied>>

Idle == [pc |-> "idle", previous |-> 0, at |-> 0, mine |-> 0, result |-> 0]
Down == [pc |-> "down", ready |-> FALSE]

Init ==
  /\ \/ managed = FALSE /\ version = 0 /\ foreign \in BOOLEAN
     \/ managed = TRUE /\ version \in 0 .. Last /\ foreign = FALSE
  /\ applied = [n \in Numbers |-> IF n <= version THEN 1 ELSE 0]
  /\ lock = None
  /\ session = [m \in Migrators |-> "none"]
  /\ migrator = [m \in Migrators |-> Idle]
  /\ replica = [r \in Replicas |-> Down]

At(m, label) == migrator[m].pc = label
Go(m, label) == migrator' = [migrator EXCEPT ![m].pc = label]

(* ------------------------------ migrating ------------------------------ *)

\* Open, serverVersion and Acquire; any of them may fail instead, which changes nothing.
Connect(m) ==
  /\ At(m, "idle") /\ session[m] = "none"
  /\ session' = [session EXCEPT ![m] = "open"]
  /\ Go(m, "lock")
  /\ UNCHANGED <<schema, lock, replica>>

\* mutant: the statements go through the pool, on whatever connection is alive.
UsableByPool(m) == TRUE
\* Every statement goes through the session that holds the lock.
Usable(m) == session[m] = "open"

LockMigration(m) ==
  /\ At(m, "lock") /\ session[m] = "open" /\ lock = None
  /\ lock' = m
  /\ Go(m, "check")
  /\ UNCHANGED <<schema, session, replica>>

\* versionTableExists and hasPublicTables
TakesOver == managed \/ ~foreign

CheckManaged(m) ==
  /\ At(m, "check") /\ Usable(m)
  /\ Go(m, IF TakesOver THEN "prepare" ELSE "unlock")
  /\ UNCHANGED <<schema, lock, session, replica>>

\* NewMigrator: the version table with version 0, unless it is there.
Prepare(m) ==
  /\ At(m, "prepare") /\ Usable(m)
  /\ managed' = TRUE
  /\ Go(m, "previous")
  /\ UNCHANGED <<version, foreign, applied, lock, session, replica>>

\* GetCurrentVersion, and the first thing Migrate does is to read it again; a version that
\* is newer than the binary is an error.
ReadPrevious(m) ==
  /\ At(m, "previous") /\ Usable(m)
  /\ migrator' = [migrator EXCEPT ![m].previous = version, ![m].at = version, ![m].mine = 0,
                    ![m].pc = IF version > Built[m] THEN "unlock" ELSE "apply"]
  /\ UNCHANGED <<schema, lock, session, replica>>

NextOne(m) == migrator[m].at + 1

\* One transaction: the migration's statements and its version. It may fail as a whole.
Apply(m) ==
  /\ At(m, "apply") /\ Usable(m)
  /\ migrator[m].at < Built[m]
  /\ \/ /\ version' = NextOne(m)
        /\ applied' = [applied EXCEPT ![NextOne(m)] = @ + 1]
        /\ migrator' = [migrator EXCEPT ![m].at = NextOne(m), ![m].mine = @ + 1]
     \/ /\ Go(m, "unlock")
        /\ UNCHANGED <<version, applied>>
  /\ UNCHANGED <<managed, foreign, lock, session, replica>>

\* mutant: the difference is taken the wrong way round.
AppliedBackwards(m) == migrator[m].previous - version
\* MigrationResult: what Migrate says it applied.
Applied(m) == version - migrator[m].previous

\* GetCurrentVersion again, for the result.
ReadCurrent(m) ==
  /\ At(m, "apply") /\ Usable(m)
  /\ migrator[m].at = Built[m]
  /\ migrator' = [migrator EXCEPT ![m].pc = "report", ![m].at = version, ![m].result = Applied(m)]
  /\ UNCHANGED <<schema, lock, session, replica>>

\* The deferred unlock, Release and Close: the session ends, and its lock with it.
Finish(m) ==
  /\ migrator[m].pc \in {"unlock", "report"} \/ (~At(m, "idle") /\ session[m] = "dead")
  /\ migrator' = [migrator EXCEPT ![m] = Idle]
  /\ session' = [session EXCEPT ![m] = "none"]
  /\ lock' = IF lock = m THEN None ELSE lock
  /\ UNCHANGED <<schema, replica>>

\* The process is killed or loses its connection: the server may not know it yet, and the
\* session keeps the lock until it does.
Lose(m) ==
  /\ ~At(m, "idle") /\ session[m] = "open"
  /\ session' = [session EXCEPT ![m] = "orphan"]
  /\ migrator' = [migrator EXCEPT ![m] = Idle]
  /\ UNCHANGED <<schema, lock, replica>>

\* The server ends the session of a client that is gone, or of one that is still at work.
EndSession(m) ==
  /\ session[m] \in {"open", "orphan"}
  /\ session' = [session EXCEPT ![m] = IF session[m] = "orphan" THEN "none" ELSE "dead"]
  /\ lock' = IF lock = m THEN None ELSE lock
  /\ UNCHANGED <<schema, migrator, replica>>

(* --------------------- serving: Start and Health --------------------- *)

Steps(r, pc, ready) == replica' = [replica EXCEPT ![r] = [pc |-> pc, ready |-> ready]]

\* inspect with requireSchema: is the version table there.
LookForTable(r) ==
  /\ replica[r].pc \in {"down", "up"}
  /\ IF managed THEN Steps(r, IF replica[r].pc = "up" THEN "probing" ELSE "starting", replica[r].ready)
     ELSE Steps(r, replica[r].pc, FALSE)
  /\ UNCHANGED <<schema, lock, session, migrator>>

\* mutant: an older binary accepts a newer schema.
MatchesOrOlder(r) == version >= Built[r]
Matches(r) == version = Built[r]

\* inspect: the version. Start keeps its pool only if it is the binary's own; Health
\* answers /readyz.
ReadVersion(r) ==
  /\ replica[r].pc \in {"starting", "probing"}
  /\ Steps(r, IF replica[r].pc = "probing" \/ Matches(r) THEN "up" ELSE "down", Matches(r))
  /\ UNCHANGED <<schema, lock, session, migrator>>

\* The database does not answer in time, or the replica is stopped.
FailProbe(r) ==
  /\ replica[r].pc = "probing"
  /\ Steps(r, "up", FALSE)
  /\ UNCHANGED <<schema, lock, session, migrator>>

StopReplica(r) ==
  /\ replica[r].pc # "down"
  /\ Steps(r, "down", FALSE)
  /\ UNCHANGED <<schema, lock, session, migrator>>

Next ==
  \/ \E m \in Migrators :
       \/ Connect(m) \/ LockMigration(m) \/ CheckManaged(m) \/ Prepare(m) \/ ReadPrevious(m)
       \/ Apply(m) \/ ReadCurrent(m) \/ Finish(m) \/ Lose(m) \/ EndSession(m)
  \/ \E r \in Replicas : LookForTable(r) \/ ReadVersion(r) \/ FailProbe(r) \/ StopReplica(r)

Spec == Init /\ [][Next]_vars

\* The platform asks /readyz again and again, and inspect ends: its context has a timeout.
FairSpec == Spec /\ \A r \in Replicas : WF_vars(LookForTable(r)) /\ WF_vars(ReadVersion(r))

(* ----------------------------- properties ----------------------------- *)

\* The schema, the sessions and the processes are well typed.
TypeOK ==
  /\ managed \in BOOLEAN /\ foreign \in BOOLEAN
  /\ version \in 0 .. Last
  /\ applied \in [Numbers -> Nat]
  /\ lock \in Migrators \cup {None}
  /\ session \in [Migrators -> {"none", "open", "orphan", "dead"}]
  /\ migrator \in [Migrators ->
       [pc : {"idle", "lock", "check", "prepare", "previous", "apply", "report", "unlock"},
        previous : Nat, at : Nat, mine : Nat, result : Nat]]
  /\ replica \in [Replicas -> [pc : {"down", "starting", "up", "probing"}, ready : BOOLEAN]]

\* However many processes migrate and whichever of their sessions is lost on the way, the
\* schema holds each migration up to its version exactly once and none above it.
MigrationsOnce == \A n \in Numbers : applied[n] = IF n <= version THEN 1 ELSE 0

\* What Migrate reports as applied, the difference of two reads, is what this process
\* committed and not the work of another one in between.
ReportIsOwn ==
  \A m \in Migrators : At(m, "report") =>
    /\ migrator[m].at = Built[m]
    /\ migrator[m].mine = migrator[m].result

\* A replica whose schema was migrated past it takes itself out of the traffic.
StaleReplicaLeaves == \A r \in Replicas : version > Built[r] ~> ~replica[r].ready
=============================================================================
