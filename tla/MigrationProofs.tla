---------------------------- MODULE MigrationProofs ----------------------------
(* Proofs about Migration, for any migrators and replicas and any versions of   *)
(* the repository they are built from.                                          *)
EXTENDS Migration, TLAPS

(* The session that is open after lockMigration holds the advisory lock, and only it. *)
Inside == {"check", "prepare", "previous", "apply"}

LockHeld == \A m \in Migrators : migrator[m].pc \in Inside /\ session[m] = "open" => lock = m

(* A migrator that applies is where the schema is, as long as its session is open; its
   own count of what it committed does not depend on the session.                     *)
AtTheVersion ==
  \A m \in Migrators : At(m, "apply") =>
    /\ session[m] = "open" => migrator[m].at = version
    /\ migrator[m].at <= Built[m]
    /\ migrator[m].mine = migrator[m].at - migrator[m].previous

IInv ==
  /\ TypeOK
  /\ LockHeld
  /\ AtTheVersion
  /\ MigrationsOnce
  /\ ReportIsOwn

----------------------------------------------------------------------------
LEMMA LastBounds == Last \in Nat /\ \A p \in Processes : Built[p] \in Nat /\ Built[p] <= Last
  <1> DEFINE Bound(n) == \A p \in Processes : Built[p] <= n
  <1>1. \E n \in {Built[p] : p \in Processes} : Bound(n)
    BY MigrationAssumption
  <1>2. Last \in {Built[p] : p \in Processes} /\ Bound(Last)
    BY <1>1 DEF Last
  <1> QED BY <1>2, MigrationAssumption

States == [pc : {"idle", "lock", "check", "prepare", "previous", "apply", "report", "unlock"},
           previous : Nat, at : Nat, mine : Nat, result : Nat]

LEMMA SameState ==
  ASSUME NEW r \in States, NEW s \in States,
         r.pc = s.pc, r.previous = s.previous, r.at = s.at, r.mine = s.mine, r.result = s.result
  PROVE  r = s
  BY DEF States

LEMMA MigratorTyped ==
    ASSUME TypeOK, NEW m \in Migrators
    PROVE  migrator[m] \in States /\ Built[m] \in Nat /\ Built[m] <= Last
  BY LastBounds DEF TypeOK, States, Processes

(* A step of one migrator that leaves the schema alone: the lock it may take or give up,
   and the place it goes to, are all there is to check.                                *)
LEMMA QuietStep ==
    ASSUME IInv, NEW m \in Migrators, NEW s \in States,
           migrator' = [migrator EXCEPT ![m] = s],
           UNCHANGED <<version, applied, replica>>, managed' \in BOOLEAN, foreign' \in BOOLEAN,
           session' \in [Migrators -> {"none", "open", "orphan", "dead"}],
           \A n \in Migrators \ {m} : session'[n] = session[n],
           lock' \in Migrators \cup {None},
           \A n \in Migrators \ {m} : lock = n => lock' = n,
           s.pc \in Inside /\ session'[m] = "open" => lock' = m,
           s.pc = "apply" => /\ session'[m] = "open" => s.at = version
                             /\ s.at <= Built[m]
                             /\ s.mine = s.at - s.previous,
           s.pc = "report" => s.at = Built[m] /\ s.mine = s.result
    PROVE  IInv'
  <1>1. migrator' \in [Migrators -> States] /\ migrator'[m] = s
        /\ \A n \in Migrators \ {m} : migrator'[n] = migrator[n]
    BY DEF IInv, TypeOK, States
  <1>2. TypeOK'
    BY <1>1 DEF IInv, TypeOK, States, Numbers
  <1>3. LockHeld'
    BY <1>1 DEF IInv, LockHeld
  <1>4. AtTheVersion'
    BY <1>1 DEF IInv, AtTheVersion, At
  <1>5. MigrationsOnce'
    BY DEF IInv, MigrationsOnce
  <1>6. ReportIsOwn'
    BY <1>1 DEF IInv, ReportIsOwn, At
  <1> QED BY <1>2, <1>3, <1>4, <1>5, <1>6 DEF IInv

(* Connecting, the steps before Apply, the read after it and the end of a run. *)
LEMMA MigratorKeeps ==
    ASSUME IInv, NEW m \in Migrators,
           \/ Connect(m) \/ LockMigration(m) \/ CheckManaged(m) \/ Prepare(m)
           \/ ReadPrevious(m) \/ ReadCurrent(m) \/ Finish(m) \/ Lose(m)
    PROVE  IInv'
  <1>1. /\ migrator \in [Migrators -> States] /\ migrator[m] \in States
        /\ session \in [Migrators -> {"none", "open", "orphan", "dead"}]
        /\ lock \in Migrators \cup {None} /\ version \in Nat
        /\ managed \in BOOLEAN /\ foreign \in BOOLEAN /\ Built[m] \in Nat
        /\ None \notin Migrators
    BY MigratorTyped, LastBounds, MigrationAssumption DEF IInv, TypeOK, States, Processes
  <1>2. Idle \in States
    BY DEF Idle, States
  <1>3. CASE Connect(m)
    <2> DEFINE s == [migrator[m] EXCEPT !.pc = "lock"]
    <2>1. s \in States /\ s.pc = "lock"
      BY <1>1 DEF States
    <2> QED BY <1>1, <1>3, <2>1, QuietStep DEF Connect, Go, schema, Inside
  <1>4. CASE LockMigration(m)
    <2> DEFINE s == [migrator[m] EXCEPT !.pc = "check"]
    <2>1. s \in States /\ s.pc = "check"
      BY <1>1 DEF States
    <2> QED BY <1>1, <1>4, <2>1, QuietStep DEF LockMigration, Go, schema, Inside
  <1>5. CASE CheckManaged(m)
    <2> DEFINE s == [migrator[m] EXCEPT !.pc = IF TakesOver THEN "prepare" ELSE "unlock"]
    <2>1. s \in States /\ s.pc \in {"prepare", "unlock"}
      BY <1>1 DEF States
    <2>2. lock = m
      BY <1>5 DEF CheckManaged, At, Usable, IInv, LockHeld, Inside
    <2> QED BY <1>1, <1>5, <2>1, <2>2, QuietStep DEF CheckManaged, Go, schema, Inside
  <1>6. CASE Prepare(m)
    <2> DEFINE s == [migrator[m] EXCEPT !.pc = "previous"]
    <2>1. s \in States /\ s.pc = "previous"
      BY <1>1 DEF States
    <2>2. lock = m
      BY <1>6 DEF Prepare, At, Usable, IInv, LockHeld, Inside
    <2> QED BY <1>1, <1>6, <2>1, <2>2, QuietStep DEF Prepare, Go, Inside
  <1>7. CASE ReadPrevious(m)
    <2> DEFINE pc == IF version > Built[m] THEN "unlock" ELSE "apply"
               s == [pc |-> pc, previous |-> version, at |-> version, mine |-> 0,
                     result |-> migrator[m].result]
    <2>0. pc \in {"apply", "unlock"} /\ (pc = "apply" => version <= Built[m])
      BY <1>1
    <2>1. /\ s \in States /\ s.pc = pc /\ s.at = version /\ s.previous = version /\ s.mine = 0
          /\ s.result = migrator[m].result
      BY <1>1, <2>0 DEF States
    <2>2. lock = m
      BY <1>7 DEF ReadPrevious, At, Usable, IInv, LockHeld, Inside
    <2>3. migrator' = [migrator EXCEPT ![m] = s]
      <3> DEFINE t == [migrator[m] EXCEPT !.previous = version, !.at = version, !.mine = 0,
                         !.pc = pc]
      <3>0. version \in Nat /\ migrator[m] \in States
        BY <1>1, LastBounds DEF IInv, TypeOK, States
      <3>1. /\ t \in States /\ t.pc = pc /\ t.previous = version /\ t.at = version /\ t.mine = 0
            /\ t.result = migrator[m].result
        BY <3>0, <2>0 DEF States
      <3>2. migrator' = [migrator EXCEPT ![m] = t]
        BY <1>1, <1>7 DEF ReadPrevious
      <3> HIDE DEF s, t, pc
      <3>3. t = s
        BY <2>1, <3>1, SameState
      <3> QED BY <3>2, <3>3
    <2> HIDE DEF s, pc
    <2>4. s.mine = s.at - s.previous
      BY <1>1, <2>1
    <2>5. /\ UNCHANGED <<version, applied, replica, managed, foreign, session, lock>>
          /\ s.pc = "apply" => s.at <= Built[m]
          /\ s.pc # "report"
      BY <1>7, <2>0, <2>1 DEF ReadPrevious, schema
    <2> QED BY <1>1, <2>1, <2>2, <2>3, <2>4, <2>5, QuietStep
  <1>8. CASE ReadCurrent(m)
    <2> DEFINE s == [pc |-> "report", previous |-> migrator[m].previous, at |-> version,
                     mine |-> migrator[m].mine, result |-> Applied(m)]
    <2>0. Applied(m) \in Nat /\ Applied(m) = migrator[m].mine
      BY <1>1, <1>8 DEF ReadCurrent, At, Usable, IInv, AtTheVersion, Applied, States
    <2>1. /\ s \in States /\ s.pc = "report" /\ s.at = version
          /\ s.previous = migrator[m].previous /\ s.mine = migrator[m].mine /\ s.result = Applied(m)
      BY <1>1, <2>0 DEF States
    <2>2. /\ migrator[m].at = version /\ version = Built[m]
          /\ migrator[m].mine = migrator[m].at - migrator[m].previous
      BY <1>8 DEF ReadCurrent, At, Usable, IInv, AtTheVersion
    <2>3. migrator' = [migrator EXCEPT ![m] = s]
      <3> DEFINE t == [migrator[m] EXCEPT !.pc = "report", !.at = version, !.result = Applied(m)]
      <3>0. version \in Nat /\ migrator[m] \in States
        BY <1>1, LastBounds DEF IInv, TypeOK, States
      <3>1. /\ t \in States /\ t.pc = "report" /\ t.at = version
            /\ t.previous = migrator[m].previous /\ t.mine = migrator[m].mine /\ t.result = Applied(m)
        BY <3>0, <2>0 DEF States
      <3>2. migrator' = [migrator EXCEPT ![m] = t]
        BY <1>1, <1>8 DEF ReadCurrent
      <3> HIDE DEF s, t
      <3>3. t = s
        BY <2>1, <3>1, SameState
      <3> QED BY <3>2, <3>3
    <2> HIDE DEF s
    <2>4. UNCHANGED <<version, applied, replica, managed, foreign, session, lock>>
      BY <1>8 DEF ReadCurrent, schema
    <2>5. s.pc \notin Inside /\ s.pc # "apply" /\ s.at = Built[m] /\ s.mine = s.result
      BY <2>0, <2>1, <2>2 DEF Inside
    <2> QED BY <1>1, <2>1, <2>3, <2>4, <2>5, QuietStep
  <1>9. CASE Finish(m)
    BY <1>1, <1>2, <1>9, QuietStep DEF Finish, schema, Idle, Inside
  <1>10. CASE Lose(m)
    BY <1>1, <1>2, <1>10, QuietStep DEF Lose, schema, Idle, Inside
  <1> QED BY <1>3, <1>4, <1>5, <1>6, <1>7, <1>8, <1>9, <1>10

(* A session that ends takes its lock with it; its migrator, dead or gone, is no longer
   bound to the schema, and nobody else had the lock.                                  *)
LEMMA EndSessionKeeps ==
    ASSUME IInv, NEW m \in Migrators, EndSession(m)
    PROVE  IInv'
  <1>1. /\ session' \in [Migrators -> {"none", "open", "orphan", "dead"}]
        /\ session'[m] # "open" /\ \A n \in Migrators \ {m} : session'[n] = session[n]
    BY DEF EndSession, IInv, TypeOK
  <1>2. /\ lock' \in Migrators \cup {None}
        /\ \A n \in Migrators \ {m} : lock = n => lock' = n
    BY DEF EndSession, IInv, TypeOK
  <1>3. TypeOK'
    BY <1>1, <1>2 DEF EndSession, schema, IInv, TypeOK, Numbers
  <1>4. LockHeld'
    BY <1>1, <1>2 DEF EndSession, schema, IInv, LockHeld
  <1>5. AtTheVersion'
    BY <1>1 DEF EndSession, schema, IInv, AtTheVersion, At
  <1>6. MigrationsOnce' /\ ReportIsOwn'
    BY DEF EndSession, schema, IInv, MigrationsOnce, ReportIsOwn, At
  <1> QED BY <1>3, <1>4, <1>5, <1>6 DEF IInv

(* The heart of it: one more migration, by the one session that has the lock. *)
LEMMA ApplyKeeps ==
    ASSUME IInv, NEW m \in Migrators, Apply(m)
    PROVE  IInv'
  <1> DEFINE n == migrator[m].at + 1
  <1>1. /\ migrator \in [Migrators -> States] /\ migrator[m] \in States
        /\ Built[m] \in Nat /\ Built[m] <= Last /\ Last \in Nat
        /\ session[m] = "open" /\ At(m, "apply") /\ migrator[m].at < Built[m]
    BY MigratorTyped, LastBounds DEF IInv, TypeOK, States, Apply, Usable
  <1>2. migrator[m].at = version /\ version \in Nat /\ n \in Numbers /\ n = version + 1
        /\ migrator[m].mine = migrator[m].at - migrator[m].previous
    BY <1>1 DEF IInv, AtTheVersion, States, Numbers, TypeOK
  <1>3. \A k \in Migrators : migrator[k].pc \in Inside /\ session[k] = "open" => k = m
    BY <1>1 DEF IInv, LockHeld, Inside, At
  <1>4. CASE Go(m, "unlock") /\ UNCHANGED <<version, applied>>
    <2> DEFINE s == [migrator[m] EXCEPT !.pc = "unlock"]
    <2>1. s \in States /\ s.pc = "unlock"
      BY <1>1 DEF States
    <2> QED BY <1>1, <1>4, <2>1, QuietStep DEF Apply, Go, Inside, IInv, TypeOK
  <1>5. CASE /\ version' = NextOne(m)
             /\ applied' = [applied EXCEPT ![NextOne(m)] = @ + 1]
             /\ migrator' = [migrator EXCEPT ![m].at = NextOne(m), ![m].mine = @ + 1]
    <2> DEFINE s == [pc |-> "apply", previous |-> migrator[m].previous, at |-> n,
                     mine |-> migrator[m].mine + 1, result |-> migrator[m].result]
    <2>1. /\ s \in States /\ s.pc = "apply" /\ s.at = n
          /\ s.mine = migrator[m].mine + 1 /\ s.previous = migrator[m].previous
      BY <1>1 DEF States, At
    <2>2. migrator' = [migrator EXCEPT ![m] = s]
      BY <1>1, <1>5 DEF NextOne, States, At
    <2> HIDE DEF s
    <2>3. migrator' \in [Migrators -> States] /\ migrator'[m] = s
          /\ \A k \in Migrators \ {m} : migrator'[k] = migrator[k]
      BY <1>1, <2>1, <2>2
    <2>4. applied' \in [Numbers -> Nat] /\ \A k \in Numbers :
            applied'[k] = IF k = n THEN applied[n] + 1 ELSE applied[k]
      BY <1>2, <1>5 DEF IInv, TypeOK, NextOne
    <2>5. version' \in 0 .. Last /\ version' = version + 1
      BY <1>2, <1>1, <1>5 DEF NextOne, Numbers
    <2>6. TypeOK'
      BY <2>3, <2>4, <2>5 DEF Apply, IInv, TypeOK, States
    <2>7. LockHeld'
      BY <1>1, <2>1, <2>3 DEF Apply, IInv, LockHeld, At
    <2>8. AtTheVersion'
      <3>1. s.at = version' /\ s.at <= Built[m] /\ s.mine = s.at - s.previous
        BY <1>1, <1>2, <2>1, <2>5 DEF States
      <3> QED BY <1>3, <2>3, <3>1 DEF Apply, IInv, AtTheVersion, At, Inside
    <2>9. MigrationsOnce'
      <3> SUFFICES ASSUME NEW k \in Numbers
                   PROVE  applied'[k] = IF k <= version' THEN 1 ELSE 0
        BY DEF MigrationsOnce
      <3>1. applied[k] = IF k <= version THEN 1 ELSE 0
        BY DEF IInv, MigrationsOnce
      <3>2. k \in Nat /\ n \in Nat /\ version \in Nat /\ n = version + 1 /\ version' = n
        BY <1>1, <1>2, <2>5 DEF Numbers
      <3>3. applied[n] = 0
        BY <1>2, <3>2 DEF IInv, MigrationsOnce
      <3>4. applied'[k] = IF k = n THEN applied[n] + 1 ELSE applied[k]
        BY <2>4
      <3> HIDE DEF n
      <3> QED BY <3>1, <3>2, <3>3, <3>4
    <2>10. ReportIsOwn'
      BY <2>1, <2>3 DEF IInv, ReportIsOwn, At
    <2> QED BY <2>6, <2>7, <2>8, <2>9, <2>10 DEF IInv
  <1> QED BY <1>4, <1>5 DEF Apply

(* The replicas only look. *)
LEMMA ReplicaKeeps ==
    ASSUME IInv, NEW r \in Replicas,
           LookForTable(r) \/ ReadVersion(r) \/ FailProbe(r) \/ StopReplica(r)
    PROVE  IInv'
  <1>1. UNCHANGED <<schema, lock, session, migrator>>
    BY DEF LookForTable, ReadVersion, FailProbe, StopReplica
  <1>2. \A q \in Replicas : replica[q].ready \in BOOLEAN
        /\ replica[q].pc \in {"down", "starting", "up", "probing"}
    BY DEF IInv, TypeOK
  <1>3. Matches(r) \in BOOLEAN
    BY DEF Matches
  <1>4. \E pc \in {"down", "starting", "up", "probing"}, ready \in BOOLEAN : Steps(r, pc, ready)
    BY <1>2, <1>3 DEF LookForTable, ReadVersion, FailProbe, StopReplica
  <1>5. replica' \in [Replicas -> [pc : {"down", "starting", "up", "probing"}, ready : BOOLEAN]]
    BY <1>4 DEF Steps, IInv, TypeOK
  <1>6. TypeOK'
    BY <1>1, <1>5 DEF schema, IInv, TypeOK, Numbers
  <1> QED BY <1>1, <1>6
    DEF schema, IInv, LockHeld, AtTheVersion, MigrationsOnce, ReportIsOwn, At

----------------------------------------------------------------------------
(* The inductive invariant of Migrate in any number of processes. *)
THEOREM MigrationInvariant == Spec => []IInv
  <1>1. Init => IInv
    <2> SUFFICES ASSUME Init PROVE IInv
      OBVIOUS
    <2>1. version \in 0 .. Last
      BY LastBounds DEF Init
    <2>2. Idle \in States /\ Idle.pc = "idle"
      BY DEF Idle, States
    <2>3. applied \in [Numbers -> Nat] /\ MigrationsOnce
      BY DEF Init, MigrationsOnce
    <2>4. TypeOK
      BY <2>1, <2>2, <2>3 DEF Init, TypeOK, States, Down
    <2>5. LockHeld /\ AtTheVersion /\ ReportIsOwn
      BY <2>2 DEF Init, LockHeld, AtTheVersion, ReportIsOwn, At, Inside
    <2> QED BY <2>3, <2>4, <2>5 DEF IInv
  <1>2. IInv /\ [Next]_vars => IInv'
    <2> SUFFICES ASSUME IInv, [Next]_vars PROVE IInv'
      OBVIOUS
    <2>1. ASSUME NEW m \in Migrators,
                 \/ Connect(m) \/ LockMigration(m) \/ CheckManaged(m) \/ Prepare(m)
                 \/ ReadPrevious(m) \/ ReadCurrent(m) \/ Finish(m) \/ Lose(m)
          PROVE  IInv'
      BY <2>1, MigratorKeeps
    <2>2. ASSUME NEW m \in Migrators, Apply(m) PROVE IInv'
      BY <2>2, ApplyKeeps
    <2>3. ASSUME NEW m \in Migrators, EndSession(m) PROVE IInv'
      BY <2>3, EndSessionKeeps
    <2>4. ASSUME NEW r \in Replicas,
                 LookForTable(r) \/ ReadVersion(r) \/ FailProbe(r) \/ StopReplica(r)
          PROVE  IInv'
      BY <2>4, ReplicaKeeps
    <2>5. CASE UNCHANGED vars
      BY <2>5 DEF vars, schema, IInv, TypeOK, LockHeld, AtTheVersion, MigrationsOnce,
                  ReportIsOwn, At, Numbers
    <2> QED BY <2>1, <2>2, <2>3, <2>4, <2>5 DEF Next
  <1> QED BY <1>1, <1>2, PTL DEF Spec

(* The schema, the sessions and the processes are well typed. *)
THEOREM MigrationTyped == Spec => []TypeOK
  <1>1. IInv => TypeOK
    BY DEF IInv
  <1> QED BY <1>1, MigrationInvariant, PTL

(* However many processes migrate, from whichever versions, and whichever sessions are
   lost, each migration up to the version was committed exactly once and none above it. *)
THEOREM MigrationAppliesOnce == Spec => []MigrationsOnce
  <1>1. IInv => MigrationsOnce
    BY DEF IInv
  <1> QED BY <1>1, MigrationInvariant, PTL

(* What Migrate reports as applied is what this process committed. *)
THEOREM MigrationReportsOwn == Spec => []ReportIsOwn
  <1>1. IInv => ReportIsOwn
    BY DEF IInv
  <1> QED BY <1>1, MigrationInvariant, PTL
=============================================================================
