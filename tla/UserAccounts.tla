----------------------------- MODULE UserAccounts -----------------------------
(***************************************************************************)
(* The user module: internal/modules/user/service.go over the users table  *)
(* (user/postgres/repository.go, db/queries/users.sql).                    *)
(*                                                                         *)
(* One SQL statement is one action, and so is the UPDATE a transaction     *)
(* ends with, together with its COMMIT: the row is locked and the change   *)
(* unseen in between.  Between two statements of a call anything else may  *)
(* happen, except that SetStatus and SetSuperuser hold the advisory lock   *)
(* of LockSuperuserChanges from their first statement to their last.       *)
(*                                                                         *)
(* Names, profiles and timestamps are left out: nothing below depends on   *)
(* them.  A password hash is the password and the Argon2 parameters it was *)
(* made with.                                                              *)
(***************************************************************************)
EXTENDS Naturals, FiniteSets

CONSTANTS
    Ids,            \* user ids, taken fresh by Create
    Passwords,      \* passwords that pass Validate
    Params,         \* Argon2 parameter sets in use, old and new replicas side by side
    Procs,          \* goroutines serving a request, of any number of replicas
    MaxVersion,     \* bound on session_version, a bigint in the code
    None

ASSUME AccountsAssumption ==
    /\ IsFiniteSet(Ids)                 \* there are only so many UUIDs
    /\ MaxVersion \in Nat \ {0}
    /\ None \notin Ids \cup Passwords \cup Params \cup Procs
    /\ \A h \in [password: Passwords, params: Params], v \in 1..MaxVersion :
         \A s \in {"active", "disabled", "archived"}, x, m \in BOOLEAN :
           /\ None # [hash |-> h, status |-> s, super |-> x, multi |-> m, version |-> v]
           /\ None # [status |-> s, super |-> x]

VARIABLES
    accounts,       \* the users table
    lock,           \* the process whose transaction holds the advisory lock, or None
    proc            \* the call each process is in, with the locals of service.go

vars == <<accounts, lock, proc>>

----------------------------------------------------------------------------
Statuses == {"active", "disabled", "archived"}
HashRec  == [password: Passwords, params: Params]
Account  == [hash: HashRec, status: Statuses, super: BOOLEAN, multi: BOOLEAN,
             version: 1..MaxVersion]

Ops     == {"none", "verify", "change", "reset", "status", "super"}
Pcs     == {"idle", "read", "rehash", "update", "lock", "get", "count", "write", "done"}
Replies == {"none", "ok", "mismatch", "notFound", "lastSuperuser", "error"}

(* user: the account the call is about;  old, new: the passwords presented and to be
   set;  params: the parameters of the replica;  status, flag: what SetStatus or
   SetSuperuser is to set;  row: what the transaction read of the account.         *)
Proc == [op: Ops, pc: Pcs, reply: Replies, user: Ids \cup {None},
         old: Passwords \cup {None}, new: Passwords \cup {None}, params: Params \cup {None},
         status: Statuses \cup {None}, flag: BOOLEAN \cup {None},
         row: [status: Statuses, super: BOOLEAN] \cup {None}]

Idle == [op |-> "none", pc |-> "idle", reply |-> "none", user |-> None, old |-> None,
         new |-> None, params |-> None, status |-> None, flag |-> None, row |-> None]

Init ==
    /\ accounts = [u \in Ids |-> None]
    /\ lock = None
    /\ proc = [p \in Procs |-> Idle]

Known(u)         == accounts[u] # None
Powerful(a)      == a.super /\ a.status = "active"
ActiveSuperusers == {u \in Ids : Known(u) /\ Powerful(accounts[u])}

----------------------------------------------------------------------------
(* Statements that are a call of their own. *)

NewAccountUnversioned(pw, k, s, m) ==             \* mutant: SessionVersion left at zero
    [hash |-> [password |-> pw, params |-> k], status |-> "active", super |-> s,
     multi |-> m, version |-> 0]

NewAccount(pw, k, s, m) ==
    [hash |-> [password |-> pw, params |-> k], status |-> "active", super |-> s,
     multi |-> m, version |-> 1]

(* Create and CreateAdmin: one INSERT under a fresh id. *)
Create(u) ==
    /\ ~Known(u)
    /\ \E pw \in Passwords, k \in Params, s, m \in BOOLEAN :
         accounts' = [accounts EXCEPT ![u] = NewAccount(pw, k, s, m)]
    /\ UNCHANGED <<lock, proc>>

MayBump(u) == Known(u) /\ accounts[u].version < MaxVersion

(* SetMultipleSessions: one UPDATE, whether or not the flag changes. *)
SetMultipleSessions(u) ==
    /\ MayBump(u)
    /\ \E m \in BOOLEAN :
         accounts' = [accounts EXCEPT ![u].multi = m, ![u].version = @ + 1]
    /\ UNCHANGED <<lock, proc>>

----------------------------------------------------------------------------
Begin(p, call) ==
    /\ proc[p].pc = "idle"
    /\ proc' = [proc EXCEPT ![p] = call]
    /\ UNCHANGED <<accounts, lock>>

StartVerify(p) == \E u \in Ids, pw \in Passwords, k \in Params :
    Begin(p, [Idle EXCEPT !.op = "verify", !.pc = "read", !.user = u, !.old = pw, !.params = k])

StartChange(p) == \E u \in Ids, pw, new \in Passwords, k \in Params :
    Begin(p, [Idle EXCEPT !.op = "change", !.pc = "read", !.user = u, !.old = pw,
                          !.new = new, !.params = k])

StartReset(p) == \E u \in Ids, new \in Passwords, k \in Params :
    Begin(p, [Idle EXCEPT !.op = "reset", !.pc = "update", !.user = u, !.new = new, !.params = k])

StartSetStatus(p) == \E u \in Ids, s \in Statuses :
    Begin(p, [Idle EXCEPT !.op = "status", !.pc = "lock", !.user = u, !.status = s])

StartSetSuperuser(p) == \E u \in Ids, b \in BOOLEAN :
    Begin(p, [Idle EXCEPT !.op = "super", !.pc = "lock", !.user = u, !.flag = b])

Goto(p, pc)      == proc' = [proc EXCEPT ![p].pc = pc]
Reply(p, answer) == proc' = [proc EXCEPT ![p] =
                        [Idle EXCEPT !.op = proc[p].op, !.pc = "done", !.reply = answer]]

----------------------------------------------------------------------------
(* VerifyCredentials and ChangePassword read the account and check the password
   against the hash they read; a hash with other parameters is to be renewed.    *)
ReadAndCheck(p) ==
    /\ proc[p].pc = "read"
    /\ LET c == proc[p]
       IN  \/ ~Known(c.user) /\ Reply(p, "notFound")
           \/ Known(c.user) /\ accounts[c.user].hash.password # c.old /\ Reply(p, "mismatch")
           \/ /\ Known(c.user) /\ accounts[c.user].hash.password = c.old
              /\ IF c.op = "change" THEN Goto(p, "update")
                 ELSE IF accounts[c.user].hash.params # c.params THEN Goto(p, "rehash")
                 ELSE Reply(p, "ok")
    /\ UNCHANGED <<accounts, lock>>

(* UpdateUserPasswordHash: WHERE id = $1 only, and no new version. *)
Rehash(p) ==
    /\ proc[p].pc = "rehash"
    /\ accounts' = [accounts EXCEPT ![proc[p].user].hash =
                       [password |-> proc[p].old, params |-> proc[p].params]]
    /\ Reply(p, "ok")
    /\ UNCHANGED lock

(* UpdateUserPassword, the UPDATE of ResetPassword and of ChangePassword. *)
UpdatePassword(p) ==
    /\ proc[p].pc = "update"
    /\ LET c == proc[p]
       IN  \/ ~Known(c.user) /\ Reply(p, "notFound") /\ UNCHANGED accounts
           \/ /\ MayBump(c.user)
              /\ accounts' = [accounts EXCEPT
                     ![c.user].hash = [password |-> c.new, params |-> c.params],
                     ![c.user].version = @ + 1]
              /\ Reply(p, "ok")
    /\ UNCHANGED lock

----------------------------------------------------------------------------
(* protectLastSuperuser: SetStatus and SetSuperuser. *)

LockAnyway(p) ==                           \* mutant: the lock is taken but not waited for
    /\ proc[p].pc = "lock"
    /\ lock' = IF lock = None THEN p ELSE lock
    /\ Goto(p, "get")
    /\ UNCHANGED accounts

Lock(p) ==
    /\ proc[p].pc = "lock" /\ lock = None
    /\ lock' = p
    /\ Goto(p, "get")
    /\ UNCHANGED accounts

Unlocked(p) == IF lock = p THEN None ELSE lock

(* Mutant: an early return without the deferred rollback. *)
EndWithoutRollback(p, answer) ==
    /\ Reply(p, answer)
    /\ UNCHANGED <<accounts, lock>>

(* A transaction that ends without a change: rolled back, or committed empty. *)
EndWithout(p, answer) ==
    /\ Reply(p, answer)
    /\ lock' = Unlocked(p)
    /\ UNCHANGED accounts

MayRemove(c)  == IF c.op = "status" THEN c.status # "active" ELSE ~c.flag
Same(c, a)    == IF c.op = "status" THEN a.status = c.status ELSE a.super = c.flag

ChangedUnversioned(c, a) ==                \* mutant: the UPDATE leaves session_version
    IF c.op = "status" THEN [a EXCEPT !.status = c.status]
    ELSE [a EXCEPT !.super = c.flag]

Changed(c, a) ==
    IF c.op = "status" THEN [a EXCEPT !.status = c.status, !.version = @ + 1]
    ELSE [a EXCEPT !.super = c.flag, !.version = @ + 1]

TxGet(p) ==
    /\ proc[p].pc = "get"
    /\ LET c == proc[p]
       IN  \/ ~Known(c.user) /\ EndWithout(p, "notFound")
           \/ /\ Known(c.user)
              /\ LET a == accounts[c.user]
                 IN  proc' = [proc EXCEPT ![p] =
                       [c EXCEPT !.row = [status |-> a.status, super |-> a.super],
                                 !.pc = IF MayRemove(c) /\ Powerful(a) THEN "count" ELSE "write"]]
              /\ UNCHANGED <<accounts, lock>>

TxCountLoose(p) ==                         \* mutant: count < 1 for count <= 1
    /\ proc[p].pc = "count"
    /\ \/ Cardinality(ActiveSuperusers) < 1 /\ EndWithout(p, "lastSuperuser")
       \/ /\ Cardinality(ActiveSuperusers) >= 1
          /\ Goto(p, "write")
          /\ UNCHANGED <<accounts, lock>>

TxCount(p) ==
    /\ proc[p].pc = "count"
    /\ \/ Cardinality(ActiveSuperusers) <= 1 /\ EndWithout(p, "lastSuperuser")
       \/ /\ Cardinality(ActiveSuperusers) > 1
          /\ Goto(p, "write")
          /\ UNCHANGED <<accounts, lock>>

(* The closure: nothing when the row read already is as asked, else the UPDATE. *)
TxWrite(p) ==
    /\ proc[p].pc = "write"
    /\ LET c == proc[p]
       IN  \/ Same(c, c.row) /\ EndWithout(p, "ok")
           \/ /\ ~Same(c, c.row) /\ MayBump(c.user)
              /\ accounts' = [accounts EXCEPT ![c.user] = Changed(c, @)]
              /\ lock' = Unlocked(p)
              /\ Reply(p, "ok")

----------------------------------------------------------------------------
(* A database error, a cancelled request or a crash ends a call anywhere; its
   transaction is rolled back, or was committed and the reply lost.            *)
Fail(p) ==
    /\ proc[p].pc # "idle" /\ proc[p].reply # "error"
    /\ EndWithout(p, "error")

Return(p) ==
    /\ proc[p].pc = "done"
    /\ proc' = [proc EXCEPT ![p] = Idle]
    /\ UNCHANGED <<accounts, lock>>

Start(p) ==
    StartVerify(p) \/ StartChange(p) \/ StartReset(p) \/ StartSetStatus(p) \/ StartSetSuperuser(p)

Statement(p) ==
    \/ ReadAndCheck(p) \/ Rehash(p) \/ UpdatePassword(p)
    \/ TxGet(p) \/ TxCount(p) \/ TxWrite(p)

Next ==
    \/ \E u \in Ids : Create(u) \/ SetMultipleSessions(u)
    \/ \E p \in Procs : Start(p) \/ Statement(p) \/ Lock(p) \/ Fail(p) \/ Return(p)

Spec == Init /\ [][Next]_vars

(* A statement that was sent answers or fails, and PostgreSQL grants the advisory
   lock to waiting transactions in the order they asked for it.  Waiting for the lock
   is not taken to fail ever.                                                       *)
Answered(p) == Statement(p) \/ (proc[p].pc # "lock" /\ Fail(p))

Fairness == \A p \in Procs : WF_vars(Answered(p)) /\ SF_vars(Lock(p))

FairSpec == Spec /\ Fairness

----------------------------------------------------------------------------
(* Every variable has its type. *)
TypeOK ==
    /\ accounts \in [Ids -> Account \cup {None}]
    /\ lock \in Procs \cup {None}
    /\ proc \in [Procs -> Proc]

(* Once there is an active superuser there is always one, however many status and
   superuser changes run at once (service.go:192-218).                            *)
SuperuserRemains == [][ActiveSuperusers # {} => ActiveSuperusers' # {}]_vars

(* From its read to its commit, a protected transaction decides on what is still
   true: the account keeps the status and the flag it read, and a removal it let
   through still has another active superuser to leave (service.go:198-211).      *)
Deciding(p) == proc[p].pc \in {"count", "write"}

DecidesOnTruth ==
    \A p \in Procs : Deciding(p) =>
        LET c == proc[p]
            a == accounts[c.user]
        IN  /\ a.status = c.row.status /\ a.super = c.row.super
            /\ c.pc = "write" /\ MayRemove(c) /\ Powerful(a) =>
                  \E u \in ActiveSuperusers : u # c.user

(* Every status or superuser change gets its turn: no way out of a transaction
   keeps the lock (postgres/repository.go:35-52).                                 *)
NoLockStarvation == \A p \in Procs : proc[p].pc = "lock" ~> proc[p].pc # "lock"

----------------------------------------------------------------------------
(* What the documents say and the code does not do. *)

(* docs/architecture.md:52: a password change takes effect at once.  The password an
   account accepts changes only with a new session version.                         *)
PasswordChangeRenewsVersion ==
    [][\A u \in Ids : Known(u) /\ accounts'[u].hash.password # accounts[u].hash.password
          => accounts'[u].version > accounts[u].version]_vars
====
