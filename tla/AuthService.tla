------------------------------ MODULE AuthService ------------------------------
(***************************************************************************)
(* The authentication service and the handlers that use it:                *)
(* internal/modules/auth/service.go and internal/transport/httpapi.        *)
(*                                                                         *)
(* It stands on the two stores by their promises: sessions change as in    *)
(* SessionLife, which SessionStore implements, and accounts change as in   *)
(* AccountVersions, which UserAccounts implements.  An action below is one *)
(* call to one of the stores; between two calls of a request the sessions  *)
(* and the account may change under it.                                    *)
(*                                                                         *)
(* An access token is a signed pair of a session and the account version   *)
(* it was signed for.  The two never change for a session, so the token of *)
(* session s is known by s.                                                *)
(***************************************************************************)
EXTENDS Naturals, FiniteSets

CONSTANTS Users, SessionIds, Digests, Procs,
    MaxVersion,     \* bound on session_version
    None

ASSUME AuthAssumption ==
    /\ MaxVersion \in Nat \ {0}
    /\ None \notin Users \cup SessionIds \cup Digests
    /\ \A v \in 1..MaxVersion :
          /\ \A u \in Users : None # [user |-> u, version |-> v]
          /\ \A s \in {"active", "disabled", "archived"} : None # [status |-> s, version |-> v]

VARIABLES
    phase, token, used,   \* the sessions, as in SessionLife
    account,              \* the accounts, as in AccountVersions
    holder,     \* the user and the account version a session was opened for
    family,     \* the session a refresh token was made for
    given,      \* the sessions whose login has answered: their tokens are out
    call        \* the request each process serves

sessions == <<phase, token, used, holder, family>>
vars == <<sessions, account, given, call>>

Life     == INSTANCE SessionLife
Accounts == INSTANCE AccountVersions WITH Ids <- Users

----------------------------------------------------------------------------
Ops  == {"none", "login", "refresh", "me", "logout", "revokeOne", "revokeOthers", "password", "admin"}
Pcs  == {"idle", "verify", "create", "record", "undo", "rotate", "reload", "discard",
         "get", "load", "check", "list", "revoke", "commit", "done"}
Replies == {"none", "ok", "invalid", "reuse", "disabled", "notFound", "error"}

(* sid: the session of the access token, or the one a login or refresh is about;
   digest: the refresh token presented;  seen: the account version a login verified;
   listed: the sessions to be revoked;  todo: those not revoked yet;  good, a history
   field: was the account good when the request saw its session live?               *)
Call == [op: Ops, pc: Pcs, reply: Replies, user: Users \cup {None},
         sid: SessionIds \cup {None}, digest: Digests \cup {None},
         seen: (1..MaxVersion) \cup {None},
         listed: SUBSET SessionIds, todo: SUBSET SessionIds, good: BOOLEAN]

Idle == [op |-> "none", pc |-> "idle", reply |-> "none", user |-> None, sid |-> None,
         digest |-> None, seen |-> None, listed |-> {}, todo |-> {}, good |-> FALSE]

Init ==
    /\ Life!Init /\ Accounts!Init
    /\ holder = [s \in SessionIds |-> None]
    /\ family = [d \in Digests |-> None]
    /\ given  = {}
    /\ call   = [p \in Procs |-> Idle]

Live(s)      == phase[s] = "live"
Known(u)     == account[u] # None
SessionsOf(u) == {s \in SessionIds : Live(s) /\ holder[s].user = u}

(* What Authenticate and Refresh ask of the account of a session. *)
Good(s) ==
    LET a == account[holder[s].user]
    IN  a.status = "active" /\ a.version = holder[s].version

AcceptsByStatus(c) == account[holder[c.sid].user].status = "active"     \* mutant
Accepts(c)         == Good(c.sid)

----------------------------------------------------------------------------
Begin(p, c) ==
    /\ call[p].pc = "idle"
    /\ call' = [call EXCEPT ![p] = c]
    /\ UNCHANGED <<sessions, account, given>>

StartLogin(p) == \E u \in Users :
    Known(u) /\ Begin(p, [Idle EXCEPT !.op = "login", !.pc = "verify", !.user = u])

StartRefresh(p) == \E d \in Digests :
    /\ family[d] \in given
    /\ Begin(p, [Idle EXCEPT !.op = "refresh", !.pc = "rotate", !.digest = d, !.sid = family[d]])

(* Every handler that needs a caller begins with Authenticate (handler.go:564-575);
   RevokeCurrentUserSession names the session to be revoked, of whatever user.      *)
StartRequest(p) == \E s \in given, op \in {"me", "logout", "revokeOthers", "password"} :
    Begin(p, [Idle EXCEPT !.op = op, !.pc = "get", !.sid = s, !.user = holder[s].user])

StartRevokeOne(p) == \E s \in given, t \in SessionIds :
    Begin(p, [Idle EXCEPT !.op = "revokeOne", !.pc = "get", !.sid = s,
                          !.user = holder[s].user, !.listed = {t}])

(* SetUserStatus, ArchiveUser and ResetUserPassword of some superuser. *)
StartAdmin(p) == \E u \in Users :
    Known(u) /\ Begin(p, [Idle EXCEPT !.op = "admin", !.pc = "commit", !.user = u])

Goto(p, pc)       == call' = [call EXCEPT ![p].pc = pc]
Succeed(p)        == call' = [call EXCEPT ![p] =
                        [Idle EXCEPT !.op = call[p].op, !.pc = "done", !.reply = "ok",
                                     !.sid = call[p].sid, !.listed = call[p].listed,
                                     !.good = call[p].good]]
Refuse(p, answer) == call' = [call EXCEPT ![p] =
                        [Idle EXCEPT !.op = call[p].op, !.pc = "done", !.reply = answer]]

----------------------------------------------------------------------------
(* Login. *)

VerifyForgets(p) ==                        \* mutant: the session gets no version
    /\ call[p].pc = "verify"
    /\ account[call[p].user].status = "active"
    /\ Goto(p, "create")
    /\ UNCHANGED <<sessions, account, given>>

(* VerifyCredentials and the status check on what it returned (service.go:52-61). *)
Verify(p) ==
    /\ call[p].pc = "verify"
    /\ LET a == account[call[p].user]
       IN  \/ Refuse(p, "invalid")
           \/ a.status # "active" /\ Refuse(p, "disabled")
           \/ /\ a.status = "active"
              /\ call' = [call EXCEPT ![p].pc = "create", ![p].seen = a.version]
    /\ UNCHANGED <<sessions, account, given>>

(* The RevokeUser a login without allow_multiple_sessions begins Create with. *)
Evict(p) ==
    /\ call[p].pc = "create"
    /\ \E s \in SessionsOf(call[p].user) : Life!End({s})
    /\ UNCHANGED <<holder, family, account, given, call>>

(* Create under a fresh session id and token, or its failure (service.go:62-71). *)
CreateSession(p) ==
    /\ call[p].pc = "create"
    /\ \E s \in SessionIds, d \in Digests :
         /\ \/ Life!Open(s, d) /\ call' = [call EXCEPT ![p].pc = "record", ![p].sid = s]
            \/ Life!Abandon(s, d) /\ Refuse(p, "error")
         /\ holder' = [holder EXCEPT ![s] = [user |-> call[p].user, version |-> call[p].seen]]
         /\ family' = [family EXCEPT ![d] = s]
    /\ UNCHANGED <<account, given>>

(* Sign and RecordLogin; when one fails the new session is to be revoked again. *)
RecordLogin(p) ==
    /\ call[p].pc = "record"
    /\ \/ Succeed(p) /\ given' = given \cup {call[p].sid}
       \/ Goto(p, "undo") /\ UNCHANGED given
    /\ UNCHANGED <<sessions, account>>

(* Revoke of one session: nothing to do when it has ended already. *)
EndIfLive(s) ==
    \/ Life!End({s})
    \/ ~Live(s) /\ UNCHANGED <<phase, token, used>>

(* The Revoke of a login that failed, its own error ignored (service.go:74, :78). *)
UndoLogin(p) ==
    /\ call[p].pc = "undo"
    /\ EndIfLive(call[p].sid) \/ UNCHANGED <<phase, token, used>>
    /\ Refuse(p, "error")
    /\ UNCHANGED <<holder, family, account, given>>

----------------------------------------------------------------------------
(* Refresh. *)

SeenLive(p, pc) == call' = [call EXCEPT ![p].pc = pc, ![p].good = Good(call[p].sid)]

(* Rotate gave the session a new token; if that reply is lost the script runs again. *)
RotateFresh(p) ==
    /\ call[p].pc = "rotate" /\ token[call[p].sid] = call[p].digest
    /\ \E d \in Digests :
         Life!Renew(call[p].sid, d) /\ family' = [family EXCEPT ![d] = call[p].sid]
    /\ SeenLive(p, "reload") \/ call' = call
    /\ UNCHANGED <<holder, account, given>>

(* Rotate found a spent token and ended its session. *)
RotateReuse(p) ==
    /\ call[p].pc = "rotate" /\ token[call[p].sid] # call[p].digest
    /\ EndIfLive(call[p].sid)
    /\ Refuse(p, "reuse") \/ call' = call
    /\ UNCHANGED <<holder, family, account, given>>

(* Rotate knows the token no more, or its session has ended. *)
RotateUnknown(p) ==
    /\ call[p].pc = "rotate" /\ token[call[p].sid] # call[p].digest
    /\ Refuse(p, "invalid")
    /\ UNCHANGED <<sessions, account, given>>

(* GetByID and the check on the account; an error of the database counts as a refusal
   (service.go:97-101).                                                             *)
Reload(p) ==
    /\ call[p].pc = "reload"
    /\ \/ Accepts(call[p]) /\ Succeed(p)
       \/ Goto(p, "discard")
    /\ UNCHANGED <<sessions, account, given>>

(* The Revoke of a refused refresh, its own error ignored. *)
Discard(p) ==
    /\ call[p].pc = "discard"
    /\ EndIfLive(call[p].sid) \/ UNCHANGED <<phase, token, used>>
    /\ Refuse(p, "invalid")
    /\ UNCHANGED <<holder, family, account, given>>

----------------------------------------------------------------------------
(* Authenticate: the session from Redis, then the account from PostgreSQL. *)

GetSession(p) ==
    /\ call[p].pc = "get"
    /\ \/ Live(call[p].sid) /\ SeenLive(p, "load")
       \/ ~Live(call[p].sid) /\ Refuse(p, "invalid")
    /\ UNCHANGED <<sessions, account, given>>

Revoking(c, S) == [c EXCEPT !.pc = "revoke", !.listed = S, !.todo = S]

NextStep(op) ==
    CASE op = "logout"       -> "revoke"
      [] op = "revokeOne"    -> "check"
      [] op = "revokeOthers" -> "list"
      [] op = "password"     -> "commit"

LoadAccount(p) ==
    /\ call[p].pc = "load"
    /\ \/ Accepts(call[p]) /\ call[p].op = "me" /\ Succeed(p)
       \/ /\ Accepts(call[p]) /\ call[p].op # "me"
          /\ LET c == [call[p] EXCEPT !.pc = NextStep(call[p].op)]
             IN  call' = [call EXCEPT ![p] =
                    IF c.op = "logout" THEN Revoking(c, {c.sid}) ELSE c]
       \/ Refuse(p, "invalid")              \* the account changed, or the read failed
    /\ UNCHANGED <<sessions, account, given>>

----------------------------------------------------------------------------
(* What an authenticated request does. *)

CheckExists(p) ==                          \* mutant: the owner is not compared
    /\ call[p].pc = "check"
    /\ IF \A t \in call[p].listed : Live(t)
       THEN call' = [call EXCEPT ![p] = Revoking(@, @.listed)]
       ELSE Refuse(p, "notFound")
    /\ UNCHANGED <<sessions, account, given>>

(* RevokeSession looks at the session and its owner first (service.go:165-175). *)
Check(p) ==
    /\ call[p].pc = "check"
    /\ IF call[p].listed \subseteq SessionsOf(call[p].user)
       THEN call' = [call EXCEPT ![p] = Revoking(@, @.listed)]
       ELSE Refuse(p, "notFound")
    /\ UNCHANGED <<sessions, account, given>>

(* ListByUser, in RevokeOtherSessions and in RevokeUser; it may miss a session whose
   index entry another request removed.                                             *)
Spared(c) == IF c.op = "revokeOthers" THEN {c.sid} ELSE {}

List(p) ==
    /\ call[p].pc = "list"
    /\ \E S \in SUBSET SessionsOf(call[p].user) :
         call' = [call EXCEPT ![p] = Revoking(@, S \ Spared(@))]
    /\ UNCHANGED <<sessions, account, given>>

RevokeFirst(p) ==                          \* mutant: only one of the sessions is revoked
    /\ call[p].pc = "revoke"
    /\ \/ call[p].todo = {} /\ UNCHANGED <<phase, token, used>> /\ Succeed(p)
       \/ \E s \in call[p].todo :
            EndIfLive(s) /\ Succeed(p)
    /\ UNCHANGED <<holder, family, account, given>>

RevokeNext(p) ==
    /\ call[p].pc = "revoke"
    /\ \/ call[p].todo = {} /\ UNCHANGED <<phase, token, used>> /\ Succeed(p)
       \/ \E s \in call[p].todo :
            EndIfLive(s) /\ call' = [call EXCEPT ![p].todo = @ \ {s}]
    /\ UNCHANGED <<holder, family, account, given>>

(* users.ChangePassword, SetStatus, Archive or ResetPassword commits, or SetStatus has
   nothing to change; RevokeUser follows unless the account is active again.         *)
Commit(p) ==
    /\ call[p].pc = "commit"
    /\ LET u == call[p].user
       IN  \/ /\ account[u].version < MaxVersion /\ Accounts!Change(u)
              /\ call[p].op = "password" => account'[u].status = account[u].status
              /\ Goto(p, "list") \/ (call[p].op = "admin" /\ account'[u].status = "active" /\ Succeed(p))
           \/ UNCHANGED account /\ call[p].op = "admin" /\ (Goto(p, "list") \/ Succeed(p))
           \/ UNCHANGED account /\ Refuse(p, "invalid")
    /\ UNCHANGED <<sessions, given>>

----------------------------------------------------------------------------
(* A request may fail at any point: an error of Redis or PostgreSQL, a cancelled
   context, a crash.                                                              *)
Fail(p) ==
    /\ call[p].pc # "idle" /\ call[p].reply # "error"
    /\ Refuse(p, "error")
    /\ UNCHANGED <<sessions, account, given>>

Return(p) ==
    /\ call[p].pc = "done"
    /\ call' = [call EXCEPT ![p] = Idle]
    /\ UNCHANGED <<sessions, account, given>>

(* Sessions expire, several at a time. *)
Expire ==
    /\ \E S \in SUBSET SessionIds : Life!End(S)
    /\ UNCHANGED <<holder, family, account, given, call>>

(* Accounts are made by administrators and by the command line. *)
CreateAccount(u) ==
    /\ Accounts!Create(u)
    /\ UNCHANGED <<sessions, given, call>>

Start(p) ==
    StartLogin(p) \/ StartRefresh(p) \/ StartRequest(p) \/ StartRevokeOne(p) \/ StartAdmin(p)

Step(p) ==
    \/ Verify(p) \/ Evict(p) \/ CreateSession(p) \/ RecordLogin(p) \/ UndoLogin(p)
    \/ RotateFresh(p) \/ RotateReuse(p) \/ RotateUnknown(p) \/ Reload(p) \/ Discard(p)
    \/ GetSession(p) \/ LoadAccount(p) \/ Check(p) \/ List(p) \/ RevokeNext(p) \/ Commit(p)

Next ==
    \/ \E p \in Procs : Start(p) \/ Step(p) \/ Fail(p) \/ Return(p)
    \/ \E u \in Users : CreateAccount(u)
    \/ Expire

Spec == Init /\ [][Next]_vars

----------------------------------------------------------------------------
(* Every variable has its type. *)
TypeOK ==
    /\ phase \in [SessionIds -> {"unborn", "live", "ended"}]
    /\ token \in [SessionIds -> Digests \cup {None}]
    /\ used \in SUBSET Digests
    /\ account \in [Users -> [status: {"active", "disabled", "archived"}, version: 1..MaxVersion]
                              \cup {None}]
    /\ holder \in [SessionIds -> [user: Users, version: 1..MaxVersion] \cup {None}]
    /\ family \in [Digests -> SessionIds \cup {None}]
    /\ given \in SUBSET SessionIds
    /\ call \in [Procs -> Call]

(* What a request was let through to do, or a refresh was granted, was right at one
   moment of the request: session and account are read one after the other, and still
   the account was active, with the version of the session, at the instant the session
   was seen live.  So a password change, a disabling or a revocation that committed
   before the request began is never missed (service.go:84-133).                      *)
Requests == {"me", "logout", "revokeOne", "revokeOthers", "password"}

Granted(p) ==
    \/ call[p].op \in Requests /\ call[p].pc \in {"check", "list", "revoke", "commit"}
    \/ call[p].op \in Requests /\ call[p].reply = "ok"
    \/ call[p].op = "refresh" /\ call[p].reply = "ok"

GrantsLinearize == \A p \in Procs : Granted(p) => call[p].good

(* A request that answers ok has ended every session it set out to revoke, whatever
   logins, refreshes and other revocations did meanwhile (service.go:135-203).       *)
RevokedIsEnded ==
    \A p \in Procs : call[p].reply = "ok" => \A s \in call[p].listed : phase[s] = "ended"

(* A request revokes sessions of its own user only, and RevokeOtherSessions not the
   one it came with (service.go:165-196).                                            *)
OwnSessionsOnly ==
    \A p \in Procs : call[p].pc = "revoke" =>
        /\ \A s \in call[p].listed : holder[s].user = call[p].user
        /\ call[p].op = "revokeOthers" => call[p].sid \notin call[p].listed
====
