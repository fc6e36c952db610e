----------------------------- MODULE MCMigration -----------------------------
(* The instance of Migration that TLC checks: binaries with one, two and      *)
(* three migrations.                                                          *)
EXTENDS Migration

CONSTANTS Old, New, OldReplica, NewReplica
MCBuilt == [p \in {Old, New, OldReplica, NewReplica} |->
              IF p = Old THEN 2 ELSE IF p = OldReplica THEN 1 ELSE 3]
=============================================================================
