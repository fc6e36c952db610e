---------------------------- MODULE SessionStore ----------------------------
(***************************************************************************)
(* The Redis session store of internal/modules/auth/redis: store.go and    *)
(* rotate.lua.  The keyspace holds three families of keys                  *)
(*                                                                         *)
(*   session[s]  the JSON session record, or None when the key is absent   *)
(*   refresh[d]  the record of the refresh token whose digest is d         *)
(*   index[u]    the set of session ids of user u                          *)
(*                                                                         *)
(* each with the time it has left to live.  Several API processes call the *)
(* store at once.  Redis runs one command, one MULTI/EXEC transaction or   *)
(* one script at a time, so an action below is one of those, and between   *)
(* two commands of a call anything else may happen.                        *)
(***************************************************************************)
EXTENDS Naturals, FiniteSets

CONSTANTS
    Users,          \* user ids
    SingleUsers,    \* the users with allow_multiple_sessions = false
    SessionIds,     \* session ids, taken fresh by every login
    Digests,        \* refresh token digests, taken fresh by login and rotation
    Procs,          \* goroutines calling the store, of any number of replicas
    TTL,            \* refresh token lifetime, in clock ticks
    Second,         \* clock ticks in a second
    None            \* an absent key, or a field not in use

SessionRec == [user: Users, digest: Digests, ttl: 1..TTL]
RefreshRec == [sid: SessionIds, user: Users, state: {"active", "spent"}, ttl: 1..TTL]

(* SET takes the lifetime in milliseconds, EXPIRE in whole seconds: go-redis cuts the
   fraction off, and sends one second for less.  Validate lets a lifetime have one.   *)
CutOff   == IF TTL < Second THEN 0 ELSE TTL % Second
IndexTTL == IF TTL < Second THEN Second ELSE TTL - CutOff

IndexRec == [members: SUBSET SessionIds, ttl: (0..TTL) \cup (0..IndexTTL)]

ASSUME ConstantsAssumption ==
    /\ SingleUsers \subseteq Users
    /\ TTL \in Nat \ {0} /\ Second \in Nat \ {0}
    /\ None \notin Users \cup SessionIds \cup Digests
    /\ None \notin SessionRec \cup RefreshRec \cup [user: Users, digest: Digests]

VARIABLES session, refresh, index,
    proc,      \* the call each process is in, with the locals of store.go
    owner,     \* history: the session each digest was generated for
    atStart    \* history: the user's sessions when a listing or revocation began

keys == <<session, refresh, index>>
vars == <<session, refresh, index, proc, owner, atStart>>

----------------------------------------------------------------------------
Ops     == {"none", "create", "list", "rotate", "revoke", "revokeUser"}
Pcs     == {"idle", "smembers", "get", "del", "delIndex", "exec", "srem", "eval", "done"}
Replies == {"none", "ok", "invalid", "reuse", "error"}

(* sid and digest: the session and token the call is about;  ids: what SMEMBERS
   returned;  todo: ids not yet looked up;  stale: ids ListByUser will remove;
   cur and read: the session Revoke is at, and what its GET returned.        *)
Proc == [op: Ops, pc: Pcs, reply: Replies,
         user: Users \cup {None}, sid: SessionIds \cup {None}, digest: Digests \cup {None},
         ids: SUBSET SessionIds, todo: SUBSET SessionIds, stale: SUBSET SessionIds,
         cur: SessionIds \cup {None}, read: [user: Users, digest: Digests] \cup {None}]

Idle == [op |-> "none", pc |-> "idle", reply |-> "none",
         user |-> None, sid |-> None, digest |-> None,
         ids |-> {}, todo |-> {}, stale |-> {}, cur |-> None, read |-> None]

NoIndex == [members |-> {}, ttl |-> 0]

Init ==
    /\ session = [s \in SessionIds |-> None]
    /\ refresh = [d \in Digests |-> None]
    /\ index   = [u \in Users |-> NoIndex]
    /\ proc    = [p \in Procs |-> Idle]
    /\ owner   = [d \in Digests |-> None]
    /\ atStart = [p \in Procs |-> {}]

Live(s) == session[s] # None
Minted  == {d \in Digests : owner[d] # None}
Issued  == {s \in SessionIds : \E d \in Digests : owner[d] = s}
LiveSessions(u) == {s \in SessionIds : Live(s) /\ session[s].user = u}

(* A call of Create whose transaction has not run yet. *)
Creating(p) == proc[p].op = "create" /\ proc[p].pc \in {"smembers", "get", "del", "delIndex", "exec"}
Pending     == {proc[p].sid : p \in {q \in Procs : Creating(q)}}

----------------------------------------------------------------------------
(* Starting a call.  Login generates the session id and the refresh token
   (service.go:62-68) before it calls Create.                                *)
StartCreate(p, u) ==
    /\ proc[p].pc = "idle"
    /\ \E s \in SessionIds \ Issued, d \in Digests \ Minted :
         /\ proc' = [proc EXCEPT ![p] =
                [Idle EXCEPT !.op = "create", !.user = u, !.sid = s, !.digest = d,
                             !.pc = IF u \in SingleUsers THEN "smembers" ELSE "exec"]]
         /\ owner' = [owner EXCEPT ![d] = s]
    /\ UNCHANGED <<keys, atStart>>

StartUserCall(p, op, u) ==
    /\ proc[p].pc = "idle"
    /\ proc' = [proc EXCEPT ![p] = [Idle EXCEPT !.op = op, !.user = u, !.pc = "smembers"]]
    /\ atStart' = [atStart EXCEPT ![p] = LiveSessions(u)]
    /\ UNCHANGED <<keys, owner>>

StartList(p, u)       == StartUserCall(p, "list", u)
StartRevokeUser(p, u) == StartUserCall(p, "revokeUser", u)

StartRevoke(p, s) ==
    /\ proc[p].pc = "idle"
    /\ s \in Issued \ Pending                   \* an id is known once Create has returned
    /\ proc' = [proc EXCEPT ![p] =
                  [Idle EXCEPT !.op = "revoke", !.sid = s, !.todo = {s}, !.pc = "get"]]
    /\ UNCHANGED <<keys, owner, atStart>>

StartRotate(p, d) ==
    /\ proc[p].pc = "idle"
    /\ d \in Minted /\ owner[d] \notin Pending    \* clients learn a token from Login's reply
    /\ proc' = [proc EXCEPT ![p] = [Idle EXCEPT !.op = "rotate", !.digest = d, !.pc = "eval"]]
    /\ UNCHANGED <<keys, owner, atStart>>

----------------------------------------------------------------------------
(* Where a call goes once the loop over the ids has the given rest to do. *)
AfterIds(c) ==
    IF c.todo # {} THEN [c EXCEPT !.pc = "get"]
    ELSE IF c.op \in {"create", "revokeUser"} THEN [c EXCEPT !.pc = "delIndex"]
    ELSE IF c.op = "list" /\ c.stale # {} THEN [c EXCEPT !.pc = "srem"]
    ELSE [c EXCEPT !.pc = "done", !.reply = "ok"]

Reply(p, r) == proc' = [proc EXCEPT ![p].pc = "done", ![p].reply = r]

(* SMEMBERS on the user's index: the first command of ListByUser and RevokeUser. *)
SMembers(p) ==
    /\ proc[p].pc = "smembers"
    /\ LET found == index[proc[p].user].members
       IN  proc' = [proc EXCEPT ![p] = AfterIds([@ EXCEPT !.ids = found, !.todo = found])]
    /\ UNCHANGED <<keys, owner, atStart>>

Looked(c, s)     == [c EXCEPT !.todo = @ \ {s}]
Stale(c, s)      == [c EXCEPT !.todo = @ \ {s}, !.stale = @ \cup {s}]
Found(c, s, rec) == [c EXCEPT !.todo = @ \ {s}, !.pc = "del", !.cur = s,
                              !.read = [user |-> rec.user, digest |-> rec.digest]]

(* GET of one session in ListByUser: an id without a session of this user is stale. *)
ListGet(p) ==
    /\ proc[p].pc = "get" /\ proc[p].op = "list"
    /\ \E s \in proc[p].todo :
         IF Live(s) /\ session[s].user = proc[p].user
         THEN proc' = [proc EXCEPT ![p] = AfterIds(Looked(@, s))]
         ELSE proc' = [proc EXCEPT ![p] = AfterIds(Stale(@, s))]
    /\ UNCHANGED <<keys, owner, atStart>>

(* Mutant: a missing session ends the loop instead of being skipped. *)
RevokeGetStops(p) ==
    /\ proc[p].pc = "get" /\ proc[p].op # "list"
    /\ \E s \in proc[p].todo :
         IF Live(s)
         THEN proc' = [proc EXCEPT ![p] = Found(@, s, session[s])]
         ELSE proc' = [proc EXCEPT ![p] = AfterIds([@ EXCEPT !.todo = {}])]
    /\ UNCHANGED <<keys, owner, atStart>>

(* GET of one session in Revoke.  A missing session is already revoked. *)
RevokeGet(p) ==
    /\ proc[p].pc = "get" /\ proc[p].op # "list"
    /\ \E s \in proc[p].todo :
         IF Live(s)
         THEN proc' = [proc EXCEPT ![p] = Found(@, s, session[s])]
         ELSE proc' = [proc EXCEPT ![p] = AfterIds(Looked(@, s))]
    /\ UNCHANGED <<keys, owner, atStart>>

(* Removing ids from an index.  Redis deletes a set that becomes empty, its TTL too. *)
Without(x, gone) ==
    IF x.members \subseteq gone THEN NoIndex ELSE [x EXCEPT !.members = @ \ gone]

(* Mutant: delete the session only if its token is still the one that was read. *)
RevokeTxIfUnchanged(p) ==
    /\ proc[p].pc = "del"
    /\ LET s == proc[p].cur
           r == proc[p].read
       IN  IF Live(s) /\ session[s].digest = r.digest
           THEN /\ session' = [session EXCEPT ![s] = None]
                /\ refresh' = [refresh EXCEPT ![r.digest] = None]
                /\ index' = [index EXCEPT ![r.user] = Without(@, {s})]
           ELSE UNCHANGED keys
    /\ proc' = [proc EXCEPT ![p] = AfterIds([@ EXCEPT !.cur = None, !.read = None])]
    /\ UNCHANGED <<owner, atStart>>

(* MULTI: DEL session and the refresh token Revoke read, SREM from the index; EXEC.
   The keys are those of the GET, whatever happened since.                          *)
RevokeTx(p) ==
    /\ proc[p].pc = "del"
    /\ LET s == proc[p].cur
           r == proc[p].read
       IN  /\ session' = [session EXCEPT ![s] = None]
           /\ refresh' = [refresh EXCEPT ![r.digest] = None]
           /\ index' = [index EXCEPT ![r.user] = Without(@, {s})]
    /\ proc' = [proc EXCEPT ![p] = AfterIds([@ EXCEPT !.cur = None, !.read = None])]
    /\ UNCHANGED <<owner, atStart>>

(* DEL of the whole index key, the last command of RevokeUser.  go-redis sends a
   lone command again when its reply is lost, so the call may stay where it is. *)
DelIndex(p) ==
    /\ proc[p].pc = "delIndex"
    /\ index' = [index EXCEPT ![proc[p].user] = NoIndex]
    /\ \/ proc' = proc
       \/ proc[p].op = "create" /\ proc' = [proc EXCEPT ![p].pc = "exec"]
       \/ proc[p].op = "revokeUser" /\ Reply(p, "ok")
    /\ UNCHANGED <<session, refresh, owner, atStart>>

(* SREM of the ids ListByUser found stale. *)
SRem(p) ==
    /\ proc[p].pc = "srem"
    /\ index' = [index EXCEPT ![proc[p].user] = Without(@, proc[p].stale)]
    /\ proc' = proc \/ Reply(p, "ok")
    /\ UNCHANGED <<session, refresh, owner, atStart>>

(* Mutant: SET with lifetime 0, which go-redis sends without one. *)
OpenedForever(c) == [user |-> c.user, digest |-> c.digest, ttl |-> 0]

Opened(c)  == [user |-> c.user, digest |-> c.digest, ttl |-> TTL]
Granted(c) == [sid |-> c.sid, user |-> c.user, state |-> "active", ttl |-> TTL]

(* Mutant: the transaction is sent again when its reply is lost. *)
CreateTxResent(p) ==
    /\ proc[p].pc = "exec"
    /\ LET c == proc[p]
       IN  /\ session' = [session EXCEPT ![c.sid] = Opened(c)]
           /\ refresh' = [refresh EXCEPT ![c.digest] = Granted(c)]
           /\ index' = [index EXCEPT ![c.user] =
                  [members |-> @.members \cup {c.sid}, ttl |-> IndexTTL]]
    /\ Reply(p, "ok") \/ proc' = proc
    /\ UNCHANGED <<owner, atStart>>

(* MULTI: SET session, SET refresh, SADD and EXPIRE the index, which may lengthen what
   the index has left or shorten it; EXEC.  A transaction that was sent is never sent
   again.                                                                             *)
CreateTx(p) ==
    /\ proc[p].pc = "exec"
    /\ LET c == proc[p]
       IN  /\ session' = [session EXCEPT ![c.sid] = Opened(c)]
           /\ refresh' = [refresh EXCEPT ![c.digest] = Granted(c)]
           /\ index' = [index EXCEPT ![c.user] =
                  [members |-> @.members \cup {c.sid}, ttl |-> IndexTTL]]
    /\ Reply(p, "ok")
    /\ UNCHANGED <<owner, atStart>>

----------------------------------------------------------------------------
(* rotate.lua, run by EVALSHA with the digest the client presents and a fresh one.
   Its four ways out are the four actions below.  The reply may be lost, and then
   go-redis runs the same script again: Answer leaves the call where it is.        *)
Answer(p, r) == Reply(p, r) \/ proc' = proc

Token(p)     == refresh[proc[p].digest]
IsCurrent(p) == Live(Token(p).sid) /\ session[Token(p).sid].digest = proc[p].digest

RotateUnknown(p) ==                              \* rotate.lua:2-5
    /\ proc[p].pc = "eval" /\ Token(p) = None
    /\ Reply(p, "invalid")
    /\ UNCHANGED <<keys, owner, atStart>>

(* Mutant: the reused token is dropped, its session stays. *)
RotateReuseKeeps(p) ==
    /\ proc[p].pc = "eval" /\ Token(p) # None /\ Token(p).state = "spent"
    /\ refresh' = [refresh EXCEPT ![proc[p].digest] = None]
    /\ Answer(p, "reuse")
    /\ UNCHANGED <<session, index, owner, atStart>>

RotateReuse(p) ==                                \* rotate.lua:9-18
    /\ proc[p].pc = "eval" /\ Token(p) # None /\ Token(p).state = "spent"
    /\ LET t == Token(p)
       IN  /\ refresh' = IF Live(t.sid)
                         THEN [refresh EXCEPT ![session[t.sid].digest] = None]
                         ELSE refresh
           /\ session' = [session EXCEPT ![t.sid] = None]
           /\ index' = [index EXCEPT ![t.user] = Without(@, {t.sid})]
    /\ Answer(p, "reuse")
    /\ UNCHANGED <<owner, atStart>>

(* Mutant: the session record is written again from what the token's own names. *)
RotateOrphanRevives(p) ==
    /\ proc[p].pc = "eval" /\ Token(p) # None /\ Token(p).state = "active"
    /\ ~IsCurrent(p)
    /\ LET t == Token(p)
       IN  session' = [session EXCEPT ![t.sid] =
               [user |-> t.user, digest |-> proc[p].digest, ttl |-> t.ttl]]
    /\ Reply(p, "ok")
    /\ UNCHANGED <<refresh, index, owner, atStart>>

RotateOrphan(p) ==                               \* rotate.lua:20-27
    /\ proc[p].pc = "eval" /\ Token(p) # None /\ Token(p).state = "active"
    /\ ~IsCurrent(p)
    /\ Reply(p, "invalid")
    /\ UNCHANGED <<keys, owner, atStart>>

MarkSpentForgotten(t) == [t EXCEPT !.ttl = TTL]                       \* mutant
MarkSpent(t)          == [t EXCEPT !.state = "spent", !.ttl = TTL]

RenewIndexForgotten(x) == x                                           \* mutant
RenewIndex(x) == IF x = NoIndex THEN x ELSE [x EXCEPT !.ttl = TTL]

RotateFresh(p) ==                                \* rotate.lua:29-37
    /\ proc[p].pc = "eval" /\ Token(p) # None /\ Token(p).state = "active"
    /\ IsCurrent(p)
    /\ \E n \in Digests \ Minted :
         LET t == Token(p)
         IN  /\ refresh' = [refresh EXCEPT ![proc[p].digest] = MarkSpent(t),
                                           ![n] = [t EXCEPT !.ttl = TTL]]
             /\ session' = [session EXCEPT ![t.sid] = [@ EXCEPT !.digest = n, !.ttl = TTL]]
             /\ index' = [index EXCEPT ![t.user] = RenewIndex(@)]
             /\ owner' = [owner EXCEPT ![n] = t.sid]
    /\ Answer(p, "ok")
    /\ UNCHANGED atStart

RotateLua(p) == RotateUnknown(p) \/ RotateReuse(p) \/ RotateOrphan(p) \/ RotateFresh(p)

----------------------------------------------------------------------------
(* A Redis error, a timeout or a crash ends a call wherever it is; "done" is the
   case where the last command ran and its reply was lost.                        *)
Fail(p) ==
    /\ proc[p].pc # "idle" /\ proc[p].reply # "error"
    /\ Reply(p, "error")
    /\ UNCHANGED <<keys, owner, atStart>>

Return(p) ==
    /\ proc[p].pc = "done"
    /\ proc' = [proc EXCEPT ![p] = Idle]
    /\ atStart' = [atStart EXCEPT ![p] = {}]
    /\ UNCHANGED <<keys, owner>>

(* One tick of the server's clock: every key is one tick older, and goes when its
   time is up.                                                                     *)
Aged(key) == IF key = None \/ key.ttl = 1 THEN None ELSE [key EXCEPT !.ttl = @ - 1]

AgedIndex(x) == IF x.ttl <= 1 THEN NoIndex ELSE [x EXCEPT !.ttl = @ - 1]

Tick ==
    /\ session' = [s \in SessionIds |-> Aged(session[s])]
    /\ refresh' = [d \in Digests |-> Aged(refresh[d])]
    /\ index'   = [u \in Users |-> AgedIndex(index[u])]
    /\ UNCHANGED <<proc, owner, atStart>>

Start(p) ==
    \/ \E u \in Users : StartCreate(p, u) \/ StartList(p, u) \/ StartRevokeUser(p, u)
    \/ \E s \in SessionIds : StartRevoke(p, s)
    \/ \E d \in Digests : StartRotate(p, d)

Command(p) ==
    \/ SMembers(p) \/ ListGet(p) \/ RevokeGet(p) \/ RevokeTx(p) \/ DelIndex(p)
    \/ SRem(p) \/ CreateTx(p) \/ RotateLua(p)

Next ==
    \/ \E p \in Procs : Start(p) \/ Command(p) \/ Fail(p) \/ Return(p)
    \/ Tick

Spec == Init /\ [][Next]_vars

----------------------------------------------------------------------------
(* Every variable has its type. *)
TypeOK ==
    /\ session \in [SessionIds -> SessionRec \cup {None}]
    /\ refresh \in [Digests -> RefreshRec \cup {None}]
    /\ index   \in [Users -> IndexRec]
    /\ proc    \in [Procs -> Proc]
    /\ owner   \in [Digests -> SessionIds \cup {None}]
    /\ atStart \in [Procs -> SUBSET SessionIds]

(* A live session has exactly one refresh token that can be rotated: the one its
   record names as current.  Concurrent rotations, revocations and expiry never
   leave it with two, or with none (rotate.lua, Create, Revoke).                   *)
Active(d) == refresh[d] # None /\ refresh[d].state = "active"

OneCurrentToken ==
    \A s \in SessionIds : Live(s) =>
        {d \in Digests : Active(d) /\ refresh[d].sid = s} = {session[s].digest}

(* Once a rotation has answered "reuse", the session of the presented token is
   gone and stays gone, whatever runs concurrently (rotate.lua:9-18).              *)
ReuseEndsSession ==
    \A p \in Procs : proc[p].reply = "reuse" => ~Live(owner[proc[p].digest])

(* A Revoke that returned nil has ended the session, also when a rotation renewed
   the session between its GET and its transaction (store.go:146-161).             *)
RevokeEndsSession ==
    \A p \in Procs : proc[p].op = "revoke" /\ proc[p].reply = "ok" => ~Live(proc[p].sid)

(* RevokeUser, alone or at the head of Create, goes on only when every session its
   SMEMBERS returned has ended (store.go:163-182).                                 *)
RevokeUserEndsListed ==
    \A p \in Procs :
        /\ proc[p].op \in {"create", "revokeUser"}
        /\ proc[p].pc \in {"delIndex", "exec"} \/ (proc[p].op = "revokeUser" /\ proc[p].reply = "ok")
        => \A s \in proc[p].ids : ~Live(s)

(* A session that ended, or whose creation was given up, never becomes live. *)
NeverResurrected ==
    [][\A s \in Issued \ Pending : ~Live(s) => ~Live(s)']_vars

(* A session that stays live stays in its user's index, unless RevokeUser deletes the
   whole key or the session has no more left to live than the fraction of a second the
   EXPIRE of store.go:56 cuts off (nothing, when the lifetime is a whole number of
   seconds): ListByUser's clean-up, Revoke, another login that sets the index's
   lifetime anew, and the expiry of the index, which every rotation has to put off,
   never take a session with more left away.                                          *)
Indexed(s) == Live(s) /\ s \in index[session[s].user].members

IndexKeepsLive ==
    [][\A s \in SessionIds :
         Indexed(s) /\ Live(s)' =>
             \/ Indexed(s)'
             \/ \E p \in Procs : DelIndex(p)
             \/ session'[s].ttl <= CutOff]_vars

----------------------------------------------------------------------------
(* What a document says and the code does not do. *)

(* docs/adr/0003-auth-session-model.md:8: a user can see his sessions.  A listing
   contains every session of the user that was live when it began and still is.    *)
ListingComplete ==
    \A p \in Procs : proc[p].op = "list" /\ proc[p].reply = "ok" =>
        \A s \in atStart[p] : Live(s) => s \in proc[p].ids \ proc[p].stale
====
