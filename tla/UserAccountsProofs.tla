------------------------- MODULE UserAccountsProofs -------------------------
(***************************************************************************)
(* Proofs about UserAccounts, for any number of accounts, passwords and    *)
(* processes: the typing of the tables, and that status and superuser      *)
(* changes never lose the last active superuser.                           *)
(***************************************************************************)
EXTENDS AccountRefinement, FiniteSetTheorems, TLAPS

InTx(p) == proc[p].pc \in {"get", "count", "write"}

(* The locals a call uses at a given statement have been set before. *)
Formed(c) ==
    /\ c.pc \notin {"idle", "done"} => c.user \in Ids
    /\ c.pc \in {"read", "rehash"} => c.old \in Passwords /\ c.params \in Params
    /\ c.pc = "read" /\ c.op = "change" => c.new \in Passwords
    /\ c.pc = "update" => c.new \in Passwords /\ c.params \in Params
    /\ c.pc \in {"lock", "get", "count", "write"} =>
          \/ c.op = "status" /\ c.status \in Statuses
          \/ c.op = "super" /\ c.flag \in BOOLEAN

CallsFormed == \A p \in Procs : Formed(proc[p])

(* Only the process that holds the advisory lock is past LockSuperuserChanges. *)
LockHeld == \A p \in Procs : InTx(p) => lock = p

(* An account that was read stays: no call deletes a row. *)
Found == \A p \in Procs : proc[p].pc \in {"rehash", "count", "write"} => Known(proc[p].user)

IInv ==
    /\ TypeOK
    /\ CallsFormed
    /\ LockHeld
    /\ Found
    /\ DecidesOnTruth

----------------------------------------------------------------------------
(* Counting two active superusers or more finds one besides any given account. *)
LEMMA AnotherOne ==
    ASSUME Cardinality(ActiveSuperusers) > 1, NEW x
    PROVE  \E u \in ActiveSuperusers : u # x
  <1>1. IsFiniteSet(ActiveSuperusers)
    BY AccountsAssumption, FS_Subset DEF ActiveSuperusers
  <1>2. CASE ActiveSuperusers \subseteq {x}
    <2>1. ActiveSuperusers = {} \/ ActiveSuperusers = {x}
      BY <1>2
    <2>2. Cardinality(ActiveSuperusers) \in {0, 1}
      BY <2>1, FS_EmptySet, FS_Singleton
    <2> QED BY <2>2
  <1> QED BY <1>2

LEMMA AccountFacts ==
    ASSUME TypeOK, NEW u \in Ids, Known(u)
    PROVE  /\ accounts[u] \in Account
           /\ accounts[u].hash \in HashRec
           /\ accounts[u].status \in Statuses /\ accounts[u].super \in BOOLEAN
           /\ accounts[u].multi \in BOOLEAN /\ accounts[u].version \in 1..MaxVersion
  BY DEF TypeOK, Known, Account

LEMMA AccountIsNotNone ==
    \A a \in Account : a # None
  <1> SUFFICES ASSUME NEW a \in Account PROVE a # None
    OBVIOUS
  <1>1. a = [hash |-> a.hash, status |-> a.status, super |-> a.super,
             multi |-> a.multi, version |-> a.version]
    BY DEF Account
  <1>2. /\ a.hash \in HashRec /\ a.status \in Statuses /\ a.super \in BOOLEAN
        /\ a.multi \in BOOLEAN /\ a.version \in 1..MaxVersion
    BY DEF Account
  <1> QED BY <1>1, <1>2, AccountsAssumption DEF HashRec, Statuses

----------------------------------------------------------------------------
(* Process p's call becomes c, and it neither takes the lock nor leaves it behind. *)
Continues(p, c) ==
    /\ c \in Proc /\ Formed(c)
    /\ proc' = [proc EXCEPT ![p] = c]

(* A step that leaves every status and flag alone, adds accounts at most, and keeps
   its call out of the transaction, or in it with the lock held.                   *)
Calm ==
    /\ accounts' \in [Ids -> Account \cup {None}]
    /\ \A u \in Ids : Known(u) =>
          /\ accounts'[u] # None
          /\ accounts'[u].status = accounts[u].status
          /\ accounts'[u].super = accounts[u].super

LEMMA CalmKeepsPower ==
    ASSUME Calm PROVE ActiveSuperusers \subseteq ActiveSuperusers'
  BY DEF Calm, ActiveSuperusers, Known, Powerful

LEMMA UnchangedIsCalm ==
    ASSUME TypeOK, UNCHANGED accounts PROVE Calm
  BY DEF TypeOK, Calm, Known

LEMMA CalmStep ==
    ASSUME IInv, NEW p \in Procs, NEW c, Continues(p, c), Calm,
           c.pc \in {"idle", "read", "rehash", "update", "lock", "done"},
           c.pc = "rehash" => Known(c.user),
           lock' = lock \/ (lock = p /\ lock' = None)
    PROVE  IInv'
  <1>1. proc' \in [Procs -> Proc] /\ \A q \in Procs : proc'[q] = IF q = p THEN c ELSE proc[q]
    BY DEF IInv, TypeOK, Continues
  <1>2. TypeOK'
    BY <1>1 DEF IInv, TypeOK, Calm
  <1>3. CallsFormed'
    BY <1>1 DEF IInv, CallsFormed, Continues
  <1>4. LockHeld'
    BY <1>1 DEF IInv, LockHeld, InTx
  <1>5. \A q \in Procs : proc'[q].pc \in {"rehash", "count", "write"} => Known(proc'[q].user)
    BY <1>1 DEF IInv, Found
  <1>6. \A q \in Procs : proc'[q].pc \in {"rehash", "count", "write"} => proc'[q].user \in Ids
    BY <1>3 DEF CallsFormed, Formed
  <1>7. Found'
    BY <1>5, <1>6 DEF Found, Calm, Known
  <1>8. DecidesOnTruth'
    <2> SUFFICES ASSUME NEW q \in Procs, Deciding(q)'
                 PROVE  /\ accounts'[proc'[q].user].status = proc'[q].row.status
                        /\ accounts'[proc'[q].user].super = proc'[q].row.super
                        /\ (proc'[q].pc = "write" /\ MayRemove(proc'[q])
                            /\ Powerful(accounts'[proc'[q].user]) =>
                              \E u \in ActiveSuperusers' : u # proc'[q].user)
      BY DEF DecidesOnTruth
    <2>1. q # p /\ proc'[q] = proc[q] /\ Deciding(q)
      BY <1>1 DEF Deciding
    <2>2. Known(proc[q].user) /\ proc[q].user \in Ids
      BY <2>1 DEF Deciding, IInv, Found, CallsFormed, Formed
    <2>3. /\ accounts'[proc[q].user].status = accounts[proc[q].user].status
          /\ accounts'[proc[q].user].super = accounts[proc[q].user].super
      BY <2>2 DEF Calm
    <2> QED BY <2>1, <2>2, <2>3, CalmKeepsPower DEF IInv, DecidesOnTruth, Powerful
  <1> QED BY <1>2, <1>3, <1>4, <1>7, <1>8 DEF IInv

----------------------------------------------------------------------------
LEMMA CallFacts ==
    ASSUME IInv, NEW p \in Procs
    PROVE  proc[p] \in Proc /\ Formed(proc[p])
  BY DEF IInv, TypeOK, CallsFormed

(* A finished call is well typed and keeps no locals. *)
LEMMA ReplyEnds ==
    ASSUME IInv, NEW p \in Procs, NEW r \in Replies, Reply(p, r)
    PROVE  \E c : Continues(p, c) /\ c.pc = "done"
  <1> DEFINE c == [Idle EXCEPT !.op = proc[p].op, !.pc = "done", !.reply = r]
  <1>1. proc[p].op \in Ops
    BY CallFacts DEF Proc
  <1>2. c \in Proc /\ Formed(c) /\ c.pc = "done"
    BY <1>1 DEF Idle, Proc, Pcs, Formed
  <1>3. proc' = [proc EXCEPT ![p] = c]
    BY DEF Reply
  <1> QED BY <1>2, <1>3 DEF Continues

LEMMA GotoGoes ==
    ASSUME IInv, NEW p \in Procs, NEW pc \in Pcs, Goto(p, pc)
    PROVE  /\ proc' \in [Procs -> Proc]
           /\ \A q \in Procs : q # p => proc'[q] = proc[q]
           /\ proc' = [proc EXCEPT ![p] = [proc[p] EXCEPT !.pc = pc]]
           /\ [proc[p] EXCEPT !.pc = pc] \in Proc
  <1>1. proc[p] \in Proc BY CallFacts
  <1>2. [proc[p] EXCEPT !.pc = pc] \in Proc
    BY <1>1 DEF Proc
  <1>3. proc' = [proc EXCEPT ![p] = [proc[p] EXCEPT !.pc = pc]]
    BY DEF Goto
  <1> QED BY <1>2, <1>3 DEF IInv, TypeOK

LEMMA EndWithoutStep ==
    ASSUME IInv, NEW p \in Procs, NEW r \in Replies, EndWithout(p, r)
    PROVE  IInv' /\ Calm
  <1>1. Calm
    BY UnchangedIsCalm DEF EndWithout, IInv
  <1>2. PICK c : Continues(p, c) /\ c.pc = "done"
    BY ReplyEnds DEF EndWithout
  <1> QED BY <1>1, <1>2, CalmStep DEF EndWithout, Unlocked

(* A calm step of no call: Create and SetMultipleSessions. *)
LEMMA QuietStep ==
    ASSUME IInv, Calm, UNCHANGED <<lock, proc>> PROVE IInv'
  <1>1. TypeOK'
    BY DEF IInv, TypeOK, Calm
  <1>2. CallsFormed' /\ LockHeld'
    BY DEF IInv, CallsFormed, LockHeld, InTx
  <1>3. Found'
    BY DEF IInv, Found, CallsFormed, Formed, Calm, Known
  <1>4. DecidesOnTruth'
    <2> SUFFICES ASSUME NEW q \in Procs, Deciding(q)'
                 PROVE  /\ accounts'[proc[q].user].status = proc[q].row.status
                        /\ accounts'[proc[q].user].super = proc[q].row.super
                        /\ (proc[q].pc = "write" /\ MayRemove(proc[q])
                            /\ Powerful(accounts'[proc[q].user]) =>
                              \E x \in ActiveSuperusers' : x # proc[q].user)
      BY DEF DecidesOnTruth
    <2>1. Deciding(q) BY DEF Deciding
    <2>2. Known(proc[q].user) /\ proc[q].user \in Ids
      BY <2>1 DEF Deciding, IInv, Found, CallsFormed, Formed
    <2>3. /\ accounts'[proc[q].user].status = accounts[proc[q].user].status
          /\ accounts'[proc[q].user].super = accounts[proc[q].user].super
      BY <2>2 DEF Calm
    <2> QED BY <2>1, <2>2, <2>3, CalmKeepsPower DEF IInv, DecidesOnTruth, Powerful
  <1> QED BY <1>1, <1>2, <1>3, <1>4 DEF IInv

LEMMA CreateStep ==
    ASSUME IInv, NEW u \in Ids, Create(u) PROVE IInv' /\ Calm
  <1>1. PICK pw \in Passwords, k \in Params, s \in BOOLEAN, m \in BOOLEAN :
            accounts' = [accounts EXCEPT ![u] = NewAccount(pw, k, s, m)]
    BY DEF Create
  <1>2. NewAccount(pw, k, s, m) \in Account
    BY AccountsAssumption DEF NewAccount, Account, HashRec, Statuses
  <1>3. Calm
    BY <1>1, <1>2, AccountIsNotNone DEF Calm, Create, Known, IInv, TypeOK
  <1> QED BY <1>3, QuietStep DEF Create

(* An UPDATE of one account that leaves its status and its flag. *)
LEMMA CalmUpdate ==
    ASSUME TypeOK, NEW u \in Ids, Known(u), NEW a \in Account,
           a.status = accounts[u].status, a.super = accounts[u].super,
           accounts' = [accounts EXCEPT ![u] = a]
    PROVE  Calm
  BY AccountIsNotNone DEF TypeOK, Calm, Known

(* The version an UPDATE gives stays within the bound. *)
LEMMA NextVersion ==
    ASSUME TypeOK, NEW u \in Ids, MayBump(u)
    PROVE  \E w \in 1..MaxVersion : w = accounts[u].version + 1
  <1>1. accounts[u].version \in 1..MaxVersion /\ accounts[u].version < MaxVersion
    BY AccountFacts DEF MayBump
  <1> QED BY <1>1, AccountsAssumption

LEMMA SetMultipleSessionsStep ==
    ASSUME IInv, NEW u \in Ids, SetMultipleSessions(u) PROVE IInv' /\ Calm
  <1>1. PICK m \in BOOLEAN :
            accounts' = [accounts EXCEPT ![u].multi = m, ![u].version = @ + 1]
    BY DEF SetMultipleSessions
  <1>2. accounts[u] \in Account
    BY AccountFacts DEF IInv, SetMultipleSessions, MayBump
  <1>0. PICK w \in 1..MaxVersion : w = accounts[u].version + 1
    BY NextVersion DEF IInv, SetMultipleSessions
  <1> DEFINE a == [accounts[u] EXCEPT !.multi = m, !.version = w]
  <1>3. a \in Account /\ a.status = accounts[u].status /\ a.super = accounts[u].super
    BY <1>2 DEF Account
  <1>4. accounts' = [accounts EXCEPT ![u] = a]
    BY <1>0, <1>1
  <1> HIDE DEF a
  <1>5. Calm
    BY <1>3, <1>4, CalmUpdate DEF IInv, SetMultipleSessions, MayBump
  <1> QED BY <1>5, QuietStep DEF SetMultipleSessions

----------------------------------------------------------------------------
LEMMA StartStep ==
    ASSUME IInv, NEW p \in Procs, Start(p) PROVE IInv' /\ Calm
  <1>1. ASSUME NEW c, Begin(p, c), c \in Proc, Formed(c), c.pc \in {"read", "update", "lock"}
        PROVE  IInv' /\ Calm
    <2>1. Continues(p, c)
      BY <1>1 DEF Begin, Continues
    <2>2. Calm
      BY <1>1, UnchangedIsCalm DEF Begin, IInv
    <2> QED BY <1>1, <2>1, <2>2, CalmStep DEF Begin
  <1>2. CASE StartVerify(p)
    <2>1. PICK u \in Ids, pw \in Passwords, k \in Params :
              Begin(p, [Idle EXCEPT !.op = "verify", !.pc = "read", !.user = u, !.old = pw, !.params = k])
      BY <1>2 DEF StartVerify
    <2> DEFINE c == [Idle EXCEPT !.op = "verify", !.pc = "read", !.user = u, !.old = pw, !.params = k]
    <2>2. c \in Proc /\ Formed(c) /\ c.pc = "read"
      BY DEF Idle, Proc, Ops, Pcs, Replies, Formed
    <2> QED BY <1>1, <2>1, <2>2
  <1>3. CASE StartChange(p)
    <2>1. PICK u \in Ids, pw \in Passwords, new \in Passwords, k \in Params :
              Begin(p, [Idle EXCEPT !.op = "change", !.pc = "read", !.user = u, !.old = pw,
                                    !.new = new, !.params = k])
      BY <1>3 DEF StartChange
    <2> DEFINE c == [Idle EXCEPT !.op = "change", !.pc = "read", !.user = u, !.old = pw,
                                 !.new = new, !.params = k]
    <2>2. c \in Proc /\ Formed(c) /\ c.pc = "read"
      BY DEF Idle, Proc, Ops, Pcs, Replies, Formed
    <2> QED BY <1>1, <2>1, <2>2
  <1>4. CASE StartReset(p)
    <2>1. PICK u \in Ids, new \in Passwords, k \in Params :
              Begin(p, [Idle EXCEPT !.op = "reset", !.pc = "update", !.user = u, !.new = new, !.params = k])
      BY <1>4 DEF StartReset
    <2> DEFINE c == [Idle EXCEPT !.op = "reset", !.pc = "update", !.user = u, !.new = new, !.params = k]
    <2>2. c \in Proc /\ Formed(c) /\ c.pc = "update"
      BY DEF Idle, Proc, Ops, Pcs, Replies, Formed
    <2> QED BY <1>1, <2>1, <2>2
  <1>5. CASE StartSetStatus(p)
    <2>1. PICK u \in Ids, s \in Statuses :
              Begin(p, [Idle EXCEPT !.op = "status", !.pc = "lock", !.user = u, !.status = s])
      BY <1>5 DEF StartSetStatus
    <2> DEFINE c == [Idle EXCEPT !.op = "status", !.pc = "lock", !.user = u, !.status = s]
    <2>2. c \in Proc /\ Formed(c) /\ c.pc = "lock"
      BY DEF Idle, Proc, Ops, Pcs, Replies, Formed
    <2> QED BY <1>1, <2>1, <2>2
  <1>6. CASE StartSetSuperuser(p)
    <2>1. PICK u \in Ids, b \in BOOLEAN :
              Begin(p, [Idle EXCEPT !.op = "super", !.pc = "lock", !.user = u, !.flag = b])
      BY <1>6 DEF StartSetSuperuser
    <2> DEFINE c == [Idle EXCEPT !.op = "super", !.pc = "lock", !.user = u, !.flag = b]
    <2>2. c \in Proc /\ Formed(c) /\ c.pc = "lock"
      BY DEF Idle, Proc, Ops, Pcs, Replies, Formed
    <2> QED BY <1>1, <2>1, <2>2
  <1> QED BY <1>2, <1>3, <1>4, <1>5, <1>6 DEF Start

(* A call that answers after a calm statement outside a transaction. *)
LEMMA CalmReply ==
    ASSUME IInv, NEW p \in Procs, NEW r \in Replies, Reply(p, r), Calm, UNCHANGED lock
    PROVE  IInv'
  <1>1. PICK c : Continues(p, c) /\ c.pc = "done"
    BY ReplyEnds
  <1> QED BY <1>1, CalmStep

LEMMA ReadAndCheckStep ==
    ASSUME IInv, NEW p \in Procs, ReadAndCheck(p) PROVE IInv' /\ Calm
  <1>1. Calm
    BY UnchangedIsCalm DEF ReadAndCheck, IInv
  <1>2. proc[p].pc = "read" /\ UNCHANGED lock
    BY DEF ReadAndCheck
  <1>3. CASE \E r \in {"notFound", "mismatch", "ok"} : Reply(p, r)
    BY <1>1, <1>2, <1>3, CalmReply DEF Replies
  <1>4. ASSUME Known(proc[p].user), NEW pc \in {"update", "rehash"},
               pc = "update" => proc[p].op = "change", Goto(p, pc) PROVE IInv'
    <2> DEFINE c == [proc[p] EXCEPT !.pc = pc]
    <2>1. proc[p] \in Proc /\ Formed(proc[p]) BY CallFacts
    <2>2. c \in Proc /\ Formed(c) /\ c.pc = pc /\ c.user = proc[p].user
      BY <1>2, <1>4, <2>1 DEF Proc, Pcs, Formed
    <2>3. Continues(p, c)
      BY <1>4, <2>2 DEF Continues, Goto
    <2> HIDE DEF c
    <2> QED BY <1>1, <1>2, <1>4, <2>2, <2>3, CalmStep
  <1>5. \/ \E r \in {"notFound", "mismatch", "ok"} : Reply(p, r)
        \/ Known(proc[p].user) /\ proc[p].op = "change" /\ Goto(p, "update")
        \/ Known(proc[p].user) /\ Goto(p, "rehash")
    BY DEF ReadAndCheck
  <1> QED BY <1>1, <1>3, <1>4, <1>5

LEMMA RehashStep ==
    ASSUME IInv, NEW p \in Procs, Rehash(p) PROVE IInv' /\ Calm
  <1> DEFINE h == [password |-> proc[p].old, params |-> proc[p].params]
  <1>0. PICK u \in Ids : u = proc[p].user
    BY CallFacts DEF Rehash, Formed
  <1> DEFINE a == [accounts[u] EXCEPT !.hash = h]
  <1>1. h \in HashRec
    BY CallFacts DEF Rehash, Formed, HashRec
  <1>2. Known(u) /\ accounts[u] \in Account
    BY <1>0, AccountFacts DEF IInv, Found, Rehash
  <1>3. a \in Account /\ a.status = accounts[u].status /\ a.super = accounts[u].super
    BY <1>1, <1>2 DEF Account
  <1>4. accounts' = [accounts EXCEPT ![u] = a]
    BY <1>0 DEF Rehash
  <1> HIDE DEF a, h
  <1>5. Calm
    BY <1>2, <1>3, <1>4, CalmUpdate DEF IInv
  <1> QED BY <1>5, CalmReply DEF Rehash, Replies

LEMMA UpdatePasswordStep ==
    ASSUME IInv, NEW p \in Procs, UpdatePassword(p) PROVE IInv' /\ Calm
  <1>1. CASE Reply(p, "notFound") /\ UNCHANGED accounts
    <2>1. Calm BY <1>1, UnchangedIsCalm DEF IInv
    <2> QED BY <1>1, <2>1, CalmReply DEF UpdatePassword, Replies
  <1>2. CASE ~(Reply(p, "notFound") /\ UNCHANGED accounts)
    <2> DEFINE h == [password |-> proc[p].new, params |-> proc[p].params]
    <2>0. PICK u \in Ids : u = proc[p].user
      BY CallFacts DEF UpdatePassword, Formed
    <2>1. h \in HashRec
      BY CallFacts DEF UpdatePassword, Formed, HashRec
    <2>2. /\ MayBump(u) /\ Reply(p, "ok") /\ UNCHANGED lock
          /\ accounts' = [accounts EXCEPT ![u].hash = h, ![u].version = @ + 1]
      BY <1>2, <2>0 DEF UpdatePassword
    <2>3. Known(u) /\ accounts[u] \in Account
      BY <2>2, AccountFacts DEF IInv, MayBump
    <2>7. PICK w \in 1..MaxVersion : w = accounts[u].version + 1
      BY <2>2, NextVersion DEF IInv
    <2> DEFINE a == [accounts[u] EXCEPT !.hash = h, !.version = w]
    <2>4. a \in Account /\ a.status = accounts[u].status /\ a.super = accounts[u].super
      BY <2>1, <2>3 DEF Account
    <2>5. accounts' = [accounts EXCEPT ![u] = a]
      BY <2>2, <2>7
    <2> HIDE DEF a, h
    <2>6. Calm
      BY <2>3, <2>4, <2>5, CalmUpdate DEF IInv
    <2> QED BY <2>2, <2>6, CalmReply DEF Replies
  <1> QED BY <1>1, <1>2

----------------------------------------------------------------------------
(* The steps of protectLastSuperuser.  Process p is in a transaction after the step,
   and so no other process is.                                                     *)
LEMMA TxStep ==
    ASSUME IInv, NEW p \in Procs, NEW c, Continues(p, c), UNCHANGED accounts,
           lock' = p, lock \in {None, p}, c.user \in Ids,
           c.pc \in {"get", "count", "write"},
           c.pc # "get" =>
              /\ Known(c.user)
              /\ accounts[c.user].status = c.row.status
              /\ accounts[c.user].super = c.row.super
              /\ c.pc = "write" /\ MayRemove(c) /\ Powerful(accounts[c.user]) =>
                    \E u \in ActiveSuperusers : u # c.user
    PROVE  IInv'
  <1>1. proc' \in [Procs -> Proc] /\ \A q \in Procs : proc'[q] = IF q = p THEN c ELSE proc[q]
    BY DEF IInv, TypeOK, Continues
  <1>2. TypeOK'
    BY <1>1 DEF IInv, TypeOK
  <1>3. CallsFormed'
    BY <1>1 DEF IInv, CallsFormed, Continues
  <1>4. \A q \in Procs : q # p => ~InTx(q)
    BY AccountsAssumption DEF IInv, LockHeld
  <1>5. LockHeld'
    BY <1>1, <1>4 DEF LockHeld, InTx
  <1>6. Found'
    BY <1>1 DEF IInv, Found, Known
  <1>7. ActiveSuperusers' = ActiveSuperusers
    BY DEF ActiveSuperusers, Known
  <1>8. DecidesOnTruth'
    BY <1>1, <1>4, <1>7 DEF DecidesOnTruth, Deciding, InTx, Powerful, MayRemove
  <1> QED BY <1>2, <1>3, <1>5, <1>6, <1>8 DEF IInv

LEMMA LockStep ==
    ASSUME IInv, NEW p \in Procs, Lock(p) PROVE IInv' /\ Calm
  <1> DEFINE c == [proc[p] EXCEPT !.pc = "get"]
  <1>1. proc[p] \in Proc /\ Formed(proc[p]) BY CallFacts
  <1>2. c \in Proc /\ Formed(c) /\ c.pc = "get" /\ c.user \in Ids
    BY <1>1 DEF Proc, Pcs, Formed, Lock
  <1>3. Continues(p, c)
    BY <1>2 DEF Continues, Goto, Lock
  <1> HIDE DEF c
  <1>4. IInv'
    BY <1>2, <1>3, TxStep DEF Lock
  <1> QED BY <1>4, UnchangedIsCalm DEF Lock, IInv

LEMMA TxGetStep ==
    ASSUME IInv, NEW p \in Procs, TxGet(p) PROVE IInv' /\ Calm
  <1>1. CASE EndWithout(p, "notFound")
    BY <1>1, EndWithoutStep DEF Replies
  <1>2. CASE ~EndWithout(p, "notFound")
    <2>0. PICK u \in Ids : u = proc[p].user
      BY CallFacts DEF TxGet, Formed
    <2>1. /\ proc[p] \in Proc /\ Formed(proc[p]) /\ proc[p].pc = "get" /\ lock = p
      BY CallFacts DEF TxGet, IInv, LockHeld, InTx
    <2>2. Known(u) /\ accounts[u].status \in Statuses /\ accounts[u].super \in BOOLEAN
      BY <1>2, <2>0, AccountFacts DEF TxGet, IInv
    <2>3. PICK r \in [status: Statuses, super: BOOLEAN] :
             r = [status |-> accounts[u].status, super |-> accounts[u].super]
      BY <2>2
    <2>4. PICK pc \in {"count", "write"} :
             pc = IF MayRemove(proc[p]) /\ Powerful(accounts[u]) THEN "count" ELSE "write"
      OBVIOUS
    <2> DEFINE c == [proc[p] EXCEPT !.row = r, !.pc = pc]
    <2>5. /\ c \in Proc /\ Formed(c) /\ c.pc = pc /\ c.user = u /\ c.row = r
          /\ c.op = proc[p].op /\ c.status = proc[p].status /\ c.flag = proc[p].flag
      BY <2>0, <2>1 DEF Proc, Pcs, Formed
    <2>6. proc' = [proc EXCEPT ![p] = c] /\ UNCHANGED <<accounts, lock>>
      BY <1>2, <2>0, <2>3, <2>4 DEF TxGet
    <2> HIDE DEF c
    <2>7. Continues(p, c)
      BY <2>5, <2>6 DEF Continues
    <2>8. pc = "write" => ~(MayRemove(c) /\ Powerful(accounts[u]))
      BY <2>4, <2>5 DEF MayRemove
    <2>9. IInv'
      BY <2>1, <2>2, <2>3, <2>5, <2>6, <2>7, <2>8, TxStep
    <2> QED BY <2>6, <2>9, UnchangedIsCalm DEF IInv
  <1> QED BY <1>1, <1>2

LEMMA TxCountStep ==
    ASSUME IInv, NEW p \in Procs, TxCount(p) PROVE IInv' /\ Calm
  <1>1. CASE EndWithout(p, "lastSuperuser")
    BY <1>1, EndWithoutStep DEF Replies
  <1>2. CASE Cardinality(ActiveSuperusers) > 1 /\ Goto(p, "write") /\ UNCHANGED <<accounts, lock>>
    <2> DEFINE c == [proc[p] EXCEPT !.pc = "write"]
    <2>1. /\ proc[p] \in Proc /\ Formed(proc[p]) /\ proc[p].pc = "count" /\ lock = p
      BY CallFacts DEF TxCount, IInv, LockHeld, InTx
    <2>2. /\ c \in Proc /\ Formed(c) /\ c.pc = "write"
          /\ c.user = proc[p].user /\ c.user \in Ids /\ c.row = proc[p].row
      BY <2>1 DEF Proc, Pcs, Formed
    <2>3. Continues(p, c)
      BY <1>2, <2>2 DEF Continues, Goto
    <2> HIDE DEF c
    <2>4. Known(c.user) /\ accounts[c.user].status = c.row.status
          /\ accounts[c.user].super = c.row.super
      BY <2>1, <2>2 DEF IInv, Found, DecidesOnTruth, Deciding
    <2>5. \E u \in ActiveSuperusers : u # c.user
      BY <1>2, AnotherOne
    <2>6. IInv'
      BY <1>2, <2>1, <2>2, <2>3, <2>4, <2>5, TxStep
    <2> QED BY <1>2, <2>6, UnchangedIsCalm DEF IInv
  <1> QED BY <1>1, <1>2 DEF TxCount

(* The UPDATE: nobody else is in a transaction, and if the account was an active
   superuser and is none now, another one is left.                                 *)
LEMMA TxWriteStep ==
    ASSUME IInv, NEW p \in Procs, TxWrite(p)
    PROVE  IInv' /\ (ActiveSuperusers # {} => ActiveSuperusers' # {})
  <1>1. CASE EndWithout(p, "ok")
    <2>1. IInv' /\ Calm
      BY <1>1, EndWithoutStep DEF Replies
    <2> QED BY <2>1, CalmKeepsPower
  <1>2. CASE ~EndWithout(p, "ok")
    <2>0. PICK u \in Ids : u = proc[p].user
      BY CallFacts DEF TxWrite, Formed
    <2>1. /\ proc[p] \in Proc /\ Formed(proc[p]) /\ proc[p].pc = "write" /\ lock = p
      BY CallFacts DEF TxWrite, IInv, LockHeld, InTx
    <2>2. /\ MayBump(u) /\ Reply(p, "ok") /\ lock' = None
          /\ accounts' = [accounts EXCEPT ![u] = Changed(proc[p], @)]
          /\ ~Same(proc[p], proc[p].row)
      BY <1>2, <2>0, <2>1 DEF TxWrite, Unlocked
    <2>3. /\ Known(u) /\ accounts[u] \in Account
          /\ accounts[u].status \in Statuses /\ accounts[u].super \in BOOLEAN
      BY <2>2, AccountFacts DEF IInv, MayBump
    <2>4. PICK w \in 1..MaxVersion : w = accounts[u].version + 1
      BY <2>2, NextVersion DEF IInv
    <2>5. \E a \in Account :
             /\ accounts' = [accounts EXCEPT ![u] = a]
             /\ proc[p].op = "status" => a.status = proc[p].status /\ a.super = accounts[u].super
             /\ proc[p].op = "super" => a.super = proc[p].flag /\ a.status = accounts[u].status
      <3>1. CASE proc[p].op = "status" /\ proc[p].status \in Statuses
        <4> DEFINE a == [accounts[u] EXCEPT !.status = proc[p].status, !.version = w]
        <4>1. a \in Account /\ a.status = proc[p].status /\ a.super = accounts[u].super
          BY <2>3, <3>1 DEF Account
        <4>2. accounts' = [accounts EXCEPT ![u] = a]
          BY <2>2, <2>4, <3>1 DEF Changed
        <4> QED BY <3>1, <4>1, <4>2
      <3>2. CASE proc[p].op = "super" /\ proc[p].flag \in BOOLEAN
        <4> DEFINE a == [accounts[u] EXCEPT !.super = proc[p].flag, !.version = w]
        <4>1. a \in Account /\ a.super = proc[p].flag /\ a.status = accounts[u].status
          BY <2>3, <3>2 DEF Account
        <4>2. accounts' = [accounts EXCEPT ![u] = a]
          BY <2>2, <2>4, <3>2 DEF Changed
        <4> QED BY <3>2, <4>1, <4>2
      <3> QED BY <2>1, <3>1, <3>2 DEF Formed
    <2>6. PICK a \in Account :
             /\ accounts' = [accounts EXCEPT ![u] = a]
             /\ proc[p].op = "status" => a.status = proc[p].status /\ a.super = accounts[u].super
             /\ proc[p].op = "super" => a.super = proc[p].flag /\ a.status = accounts[u].status
      BY <2>5
    <2>7. /\ accounts' \in [Ids -> Account \cup {None}] /\ a # None
          /\ \A x \in Ids : accounts'[x] = IF x = u THEN a ELSE accounts[x]
      BY <2>6, AccountIsNotNone DEF IInv, TypeOK
    <2>8. PICK c : Continues(p, c) /\ c.pc = "done"
      BY <2>2, ReplyEnds DEF Replies
    <2>9. proc' \in [Procs -> Proc] /\ \A q \in Procs : proc'[q] = IF q = p THEN c ELSE proc[q]
      BY <2>8 DEF IInv, TypeOK, Continues
    <2>10. \A q \in Procs : ~InTx(q)'
      BY <2>1, <2>8, <2>9 DEF IInv, LockHeld, InTx
    <2>11. TypeOK'
      BY <2>2, <2>7, <2>9 DEF TypeOK
    <2>12. CallsFormed'
      BY <2>8, <2>9 DEF IInv, CallsFormed, Continues
    <2>13. LockHeld' /\ DecidesOnTruth'
      BY <2>10 DEF LockHeld, DecidesOnTruth, Deciding, InTx
    <2>14. Found'
      BY <2>7, <2>8, <2>9, <2>12 DEF IInv, Found, Known, CallsFormed, Formed
    <2>15. IInv'
      BY <2>11, <2>12, <2>13, <2>14 DEF IInv
    <2>16. ASSUME ActiveSuperusers # {} PROVE ActiveSuperusers' # {}
      <3>1. PICK x \in ActiveSuperusers : TRUE
        BY <2>16
      <3>2. CASE \E y \in ActiveSuperusers : y # u
        BY <2>7, <3>2 DEF ActiveSuperusers, Known, Powerful
      <3>3. CASE \A y \in ActiveSuperusers : y = u
        <4>1. u \in ActiveSuperusers /\ Powerful(accounts[u])
          BY <3>1, <3>3 DEF ActiveSuperusers
        <4>2. ~MayRemove(proc[p])
          BY <2>0, <2>1, <3>3, <4>1 DEF IInv, DecidesOnTruth, Deciding
        <4>3. Powerful(a)
          BY <2>1, <2>6, <4>1, <4>2 DEF Powerful, MayRemove, Formed
        <4> QED BY <2>7, <4>3 DEF ActiveSuperusers, Known
      <3> QED BY <3>2, <3>3
    <2> QED BY <2>15, <2>16
  <1> QED BY <1>1, <1>2

LEMMA ReturnStep ==
    ASSUME IInv, NEW p \in Procs, Return(p) PROVE IInv' /\ Calm
  <1>1. Idle \in Proc /\ Formed(Idle) /\ Idle.pc = "idle"
    BY DEF Idle, Proc, Ops, Pcs, Replies, Formed
  <1>2. Continues(p, Idle)
    BY <1>1 DEF Continues, Return
  <1>3. Calm
    BY UnchangedIsCalm DEF Return, IInv
  <1> QED BY <1>1, <1>2, <1>3, CalmStep DEF Return

----------------------------------------------------------------------------
LEMMA InitIInv == Init => IInv
  <1> SUFFICES ASSUME Init PROVE IInv
    OBVIOUS
  <1>1. Idle \in Proc /\ Formed(Idle) /\ Idle.pc = "idle"
    BY DEF Idle, Proc, Ops, Pcs, Replies, Formed
  <1>2. TypeOK
    BY <1>1 DEF Init, TypeOK
  <1> QED BY <1>1, <1>2 DEF Init, IInv, CallsFormed, LockHeld, InTx, Found, DecidesOnTruth, Deciding

LEMMA NextIInv ==
    IInv /\ [Next]_vars => IInv' /\ (ActiveSuperusers # {} => ActiveSuperusers' # {})
  <1> SUFFICES ASSUME IInv, [Next]_vars
               PROVE  IInv' /\ (ActiveSuperusers # {} => ActiveSuperusers' # {})
    OBVIOUS
  <1>1. ASSUME IInv' /\ Calm
        PROVE  IInv' /\ (ActiveSuperusers # {} => ActiveSuperusers' # {})
    BY <1>1, CalmKeepsPower
  <1>2. CASE UNCHANGED vars
    <2>1. Calm BY <1>2, UnchangedIsCalm DEF vars, IInv
    <2> QED BY <1>1, <1>2, <2>1, QuietStep DEF vars
  <1>3. ASSUME NEW u \in Ids, Create(u) \/ SetMultipleSessions(u) PROVE IInv' /\ Calm
    BY <1>3, CreateStep, SetMultipleSessionsStep
  <1>4. ASSUME NEW p \in Procs, TxWrite(p)
        PROVE  IInv' /\ (ActiveSuperusers # {} => ActiveSuperusers' # {})
    BY <1>4, TxWriteStep
  <1>5. ASSUME NEW p \in Procs, Start(p) \/ Lock(p) \/ Fail(p) \/ Return(p) PROVE IInv' /\ Calm
    <2>1. CASE Fail(p)
      BY <2>1, EndWithoutStep DEF Fail, Replies
    <2> QED BY <1>5, <2>1, StartStep, LockStep, ReturnStep
  <1>6. ASSUME NEW p \in Procs,
               ReadAndCheck(p) \/ Rehash(p) \/ UpdatePassword(p) \/ TxGet(p) \/ TxCount(p)
        PROVE  IInv' /\ Calm
    BY <1>6, ReadAndCheckStep, RehashStep, UpdatePasswordStep, TxGetStep, TxCountStep
  <1> QED BY <1>1, <1>2, <1>3, <1>4, <1>5, <1>6 DEF Next, Statement

(* The inductive invariant holds: exclusive transactions that decide on the truth. *)
THEOREM AccountsInvariant == Spec => []IInv
  <1>1. IInv /\ [Next]_vars => IInv'
    BY NextIInv
  <1> QED BY InitIInv, <1>1, PTL DEF Spec

(* The users table, the lock and the calls keep their types. *)
THEOREM AccountsTyped == Spec => []TypeOK
  <1>1. IInv => TypeOK BY DEF IInv
  <1> QED BY <1>1, AccountsInvariant, PTL

(* Between its read and its commit a protected transaction acts on the truth. *)
THEOREM AccountsDecideOnTruth == Spec => []DecidesOnTruth
  <1>1. IInv => DecidesOnTruth BY DEF IInv
  <1> QED BY <1>1, AccountsInvariant, PTL

(* No interleaving of status and superuser changes loses the last active superuser. *)
THEOREM AccountsKeepSuperuser == Spec => SuperuserRemains
  <1>1. IInv /\ [Next]_vars => [ActiveSuperusers # {} => ActiveSuperusers' # {}]_vars
    BY NextIInv
  <1> QED BY <1>1, AccountsInvariant, PTL DEF Spec, SuperuserRemains

----------------------------------------------------------------------------
(* The users table implements AccountVersions: what a step does to the accounts. *)
Updates(u, a) ==
    /\ Known(u) /\ a \in Account
    /\ accounts' = [accounts EXCEPT ![u] = a]
    /\ \/ a.version = accounts[u].version + 1
       \/ a.version = accounts[u].version /\ a.status = accounts[u].status

LEMMA UpdateSteps ==
    ASSUME IInv, NEW u \in Ids, NEW p \in Procs, u = proc[p].user,
           Rehash(p) \/ (UpdatePassword(p) /\ accounts' # accounts) \/ (TxWrite(p) /\ accounts' # accounts)
    PROVE  \E a : Updates(u, a)
  <1>0. proc[p] \in Proc /\ Formed(proc[p])
    BY CallFacts
  <1>1. CASE Rehash(p)
    <2> DEFINE h == [password |-> proc[p].old, params |-> proc[p].params]
               a == [accounts[u] EXCEPT !.hash = h]
    <2>1. h \in HashRec
      BY <1>0, <1>1 DEF Rehash, Formed, HashRec
    <2>2. Known(u) /\ accounts[u] \in Account
      BY <1>1, AccountFacts DEF IInv, Found, Rehash
    <2>3. a \in Account /\ a.status = accounts[u].status /\ a.version = accounts[u].version
      BY <2>1, <2>2 DEF Account
    <2>4. accounts' = [accounts EXCEPT ![u] = a]
      BY <1>1 DEF Rehash
    <2> HIDE DEF a
    <2> QED BY <2>2, <2>3, <2>4 DEF Updates
  <1>2. CASE UpdatePassword(p) /\ accounts' # accounts
    <2> DEFINE h == [password |-> proc[p].new, params |-> proc[p].params]
    <2>1. h \in HashRec
      BY <1>0, <1>2 DEF UpdatePassword, Formed, HashRec
    <2>2. MayBump(u) /\ accounts' = [accounts EXCEPT ![u].hash = h, ![u].version = @ + 1]
      BY <1>2 DEF UpdatePassword
    <2>3. Known(u) /\ accounts[u] \in Account
      BY <2>2, AccountFacts DEF IInv, MayBump
    <2>4. PICK w \in 1..MaxVersion : w = accounts[u].version + 1
      BY <2>2, NextVersion DEF IInv
    <2> DEFINE a == [accounts[u] EXCEPT !.hash = h, !.version = w]
    <2>5. a \in Account /\ a.version = accounts[u].version + 1
      BY <2>1, <2>3, <2>4 DEF Account
    <2>6. accounts' = [accounts EXCEPT ![u] = a]
      BY <2>2, <2>4
    <2> HIDE DEF a
    <2> QED BY <2>3, <2>5, <2>6 DEF Updates
  <1>3. CASE TxWrite(p) /\ accounts' # accounts
    <2>1. proc[p].pc = "write" /\ MayBump(u) /\ accounts' = [accounts EXCEPT ![u] = Changed(proc[p], @)]
      BY <1>3 DEF TxWrite, EndWithout
    <2>2. Known(u) /\ accounts[u] \in Account
      BY <2>1, AccountFacts DEF IInv, MayBump
    <2>3. PICK w \in 1..MaxVersion : w = accounts[u].version + 1
      BY <2>1, NextVersion DEF IInv
    <2>4. CASE proc[p].op = "status" /\ proc[p].status \in Statuses
      <3> DEFINE a == [accounts[u] EXCEPT !.status = proc[p].status, !.version = w]
      <3>1. a \in Account /\ a.version = accounts[u].version + 1
        BY <2>2, <2>3, <2>4 DEF Account
      <3>2. accounts' = [accounts EXCEPT ![u] = a]
        BY <2>1, <2>3, <2>4 DEF Changed
      <3> HIDE DEF a
      <3> QED BY <2>2, <3>1, <3>2 DEF Updates
    <2>5. CASE proc[p].op = "super" /\ proc[p].flag \in BOOLEAN
      <3> DEFINE a == [accounts[u] EXCEPT !.super = proc[p].flag, !.version = w]
      <3>1. a \in Account /\ a.version = accounts[u].version + 1
        BY <2>2, <2>3, <2>5 DEF Account
      <3>2. accounts' = [accounts EXCEPT ![u] = a]
        BY <2>1, <2>3, <2>5 DEF Changed
      <3> HIDE DEF a
      <3> QED BY <2>2, <3>1, <3>2 DEF Updates
    <2> QED BY <1>0, <2>1, <2>4, <2>5 DEF Formed
  <1> QED BY <1>1, <1>2, <1>3

LEMMA PolicyUpdates ==
    ASSUME IInv, NEW u \in Ids, SetMultipleSessions(u)
    PROVE  \E a : Updates(u, a)
  <1>1. PICK m \in BOOLEAN :
            accounts' = [accounts EXCEPT ![u].multi = m, ![u].version = @ + 1]
    BY DEF SetMultipleSessions
  <1>2. Known(u) /\ accounts[u] \in Account
    BY AccountFacts DEF IInv, SetMultipleSessions, MayBump
  <1>3. PICK w \in 1..MaxVersion : w = accounts[u].version + 1
    BY NextVersion DEF IInv, SetMultipleSessions
  <1> DEFINE a == [accounts[u] EXCEPT !.multi = m, !.version = w]
  <1>4. a \in Account /\ a.version = accounts[u].version + 1
    BY <1>2, <1>3 DEF Account
  <1>5. accounts' = [accounts EXCEPT ![u] = a]
    BY <1>1, <1>3
  <1> HIDE DEF a
  <1> QED BY <1>2, <1>4, <1>5 DEF Updates

(* A step leaves the accounts alone, adds one, or updates one. *)
LEMMA AccountSteps ==
    ASSUME IInv, [Next]_vars
    PROVE  \/ accounts' = accounts
           \/ \E u \in Ids : Create(u)
           \/ \E u \in Ids : \E a : Updates(u, a)
  <1>1. ASSUME NEW p \in Procs, Statement(p), accounts' # accounts
        PROVE  \E u \in Ids : \E a : Updates(u, a)
    <2>1. Rehash(p) \/ UpdatePassword(p) \/ TxWrite(p)
      BY <1>1 DEF Statement, ReadAndCheck, TxGet, TxCount, EndWithout
    <2>2. proc[p].pc \in {"rehash", "update", "write"}
      BY <2>1 DEF Rehash, UpdatePassword, TxWrite
    <2>3. PICK u \in Ids : u = proc[p].user
      BY <2>2, CallFacts DEF Formed
    <2> QED BY <1>1, <2>1, <2>3, UpdateSteps
  <1>2. ASSUME NEW p \in Procs, Start(p) \/ Lock(p) \/ Fail(p) \/ Return(p)
        PROVE  accounts' = accounts
    BY <1>2 DEF Start, StartVerify, StartChange, StartReset, StartSetStatus, StartSetSuperuser,
                Begin, Lock, Fail, EndWithout, Return
  <1>3. ASSUME UNCHANGED vars PROVE accounts' = accounts
    BY <1>3 DEF vars
  <1> QED BY <1>1, <1>2, <1>3, PolicyUpdates DEF Next

(* What AccountVersions sees of the users table. *)
Shown == [u \in Ids |-> IF Known(u)
            THEN [status |-> accounts[u].status, version |-> accounts[u].version]
            ELSE None]

LEMMA VersionSteps == IInv /\ [Next]_vars => [Promise!Next]_Shown
  <1> SUFFICES ASSUME IInv, [Next]_vars PROVE Promise!Next \/ UNCHANGED Shown
    OBVIOUS
  <1>0. TypeOK
    BY DEF IInv
  <1>1. CASE accounts' = accounts
    BY <1>1 DEF Shown, Known
  <1>2. ASSUME NEW u \in Ids, Create(u) PROVE Promise!Next
    <2>1. PICK a \in Account : /\ accounts' = [accounts EXCEPT ![u] = a]
                               /\ a.status = "active" /\ a.version = 1
      <3>1. PICK pw \in Passwords, k \in Params, s \in BOOLEAN, m \in BOOLEAN :
                accounts' = [accounts EXCEPT ![u] = NewAccount(pw, k, s, m)]
        BY <1>2 DEF Create
      <3>2. NewAccount(pw, k, s, m) \in Account
        BY AccountsAssumption DEF NewAccount, Account, HashRec, Statuses
      <3> QED BY <3>1, <3>2 DEF NewAccount
    <2>2. a # None /\ \A x \in Ids : accounts'[x] = IF x = u THEN a ELSE accounts[x]
      BY <1>0, <2>1, AccountIsNotNone DEF TypeOK
    <2>3. Shown[u] = None
      BY <1>2 DEF Shown, Create
    <2>4. Shown' = [Shown EXCEPT ![u] = [status |-> "active", version |-> 1]]
      BY <2>1, <2>2 DEF Shown, Known
    <2>5. Promise!Create(u)
      BY <2>3, <2>4 DEF Promise!Create, Shown
    <2> QED BY <2>5 DEF Promise!Next
  <1>3. ASSUME NEW u \in Ids, NEW a, Updates(u, a) PROVE Promise!Next \/ UNCHANGED Shown
    <2>1. /\ Known(u) /\ a \in Account /\ a # None
          /\ \A x \in Ids : accounts'[x] = IF x = u THEN a ELSE accounts[x]
      BY <1>0, <1>3, AccountIsNotNone DEF Updates, TypeOK
    <2>2. CASE a.version = accounts[u].version /\ a.status = accounts[u].status
      BY <2>1, <2>2 DEF Shown, Known
    <2>3. CASE a.version = accounts[u].version + 1
      <3>1. a.status \in Promise!Statuses
        BY <2>1 DEF Account, Statuses, Promise!Statuses
      <3>2. accounts[u].status \in Statuses /\ accounts[u].version \in 1..MaxVersion
        BY <1>0, <2>1, AccountFacts
      <3>3. Shown[u] # None /\ Shown[u].version = accounts[u].version
        BY <2>1, <3>2, PromiseAssumption DEF Shown
      <3>4. Shown' = [Shown EXCEPT ![u] = [status |-> a.status, version |-> @.version + 1]]
        BY <2>1, <2>3, <3>3 DEF Shown, Known
      <3>5. Promise!Change(u)
        BY <3>1, <3>3, <3>4 DEF Promise!Change, Shown
      <3> QED BY <3>5 DEF Promise!Next
    <2> QED BY <1>3, <2>2, <2>3 DEF Updates
  <1> QED BY <1>1, <1>2, <1>3, AccountSteps

(* The users table implements AccountVersions: a version once seen with one status
   never comes back with another, whatever calls, failures and rollbacks interleave. *)
THEOREM AccountsImplementVersions == Spec => ImplementsVersions
  <1>1. Init => Promise!Init
    BY DEF Init, Known, Promise!Init
  <1>2. IInv /\ [Next]_vars => [Promise!Next]_Shown
    BY VersionSteps
  <1> QED BY <1>1, <1>2, AccountsInvariant, PTL DEF Spec, ImplementsVersions, Promise!Spec, Shown
====
