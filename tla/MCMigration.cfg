SPECIFICATION FairSpec
CONSTANTS
  Old = Old
  New = New
  OldReplica = OldReplica
  NewReplica = NewReplica
  Migrators = {Old, New}
  Replicas = {OldReplica, NewReplica}
  Built <- MCBuilt
  None = None
INVARIANTS
  TypeOK
  MigrationsOnce
  ReportIsOwn
PROPERTY
  StaleReplicaLeaves
