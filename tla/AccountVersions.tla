--------------------------- MODULE AccountVersions ---------------------------
(***************************************************************************)
(* What the user module promises the rest of the program about accounts,   *)
(* without passwords, transactions or locks: an account is created active  *)
(* with version 1, and every change of what it may do takes a new version. *)
(* A version once seen with one status never comes back with another, so a *)
(* session opened under a version can be trusted exactly as long as the    *)
(* account still has that version.                                         *)
(***************************************************************************)
EXTENDS Naturals

CONSTANTS Ids, None

Statuses == {"active", "disabled", "archived"}

VARIABLE account      \* account[u]: None, or the status and version of account u

Init == account = [u \in Ids |-> None]

Create(u) ==
    /\ account[u] = None
    /\ account' = [account EXCEPT ![u] = [status |-> "active", version |-> 1]]

Change(u) ==
    /\ account[u] # None
    /\ \E s \in Statuses :
         account' = [account EXCEPT ![u] = [status |-> s, version |-> @.version + 1]]

Next == \E u \in Ids : Create(u) \/ Change(u)

Spec == Init /\ [][Next]_account
====
