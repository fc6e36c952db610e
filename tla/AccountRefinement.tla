-------------------------- MODULE AccountRefinement --------------------------
(* The user module implements AccountVersions: creation gives version 1, every
   committed change of status, superuser flag, session policy or password takes
   exactly one new version, and a rehash takes none.                           *)
EXTENDS UserAccounts

(* An account of the promise is not the absent one. *)
ASSUME PromiseAssumption ==
    \A s \in Statuses, v \in 1..MaxVersion : None # [status |-> s, version |-> v]

Promise == INSTANCE AccountVersions WITH
    account <- [u \in Ids |-> IF Known(u)
                  THEN [status |-> accounts[u].status, version |-> accounts[u].version]
                  ELSE None]

(* Every behaviour of the users table, under any interleaving of calls, failures and
   rollbacks, is one of AccountVersions (the UPDATEs of db/queries/users.sql).      *)
ImplementsVersions == Promise!Spec
====
