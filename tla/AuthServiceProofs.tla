--------------------------- MODULE AuthServiceProofs ---------------------------
(***************************************************************************)
(* Proofs about AuthService, for any number of users, sessions, tokens and *)
(* concurrent requests: what a request is let through to do was right at   *)
(* one instant of it, a request that says it has revoked sessions has, and *)
(* it revokes sessions of its own user only.                               *)
(***************************************************************************)
EXTENDS AuthService, TLAPS

(* A session that was opened, or was to be and could not. *)
Born(s) == phase[s] # "unborn"

(* The locals a request uses at a given call have been set before, and name what
   exists.                                                                        *)
CallFormed(c) ==
    /\ c.sid # None => Born(c.sid)
    /\ c.pc \in {"verify", "create", "commit", "list"} => c.user \in Users
    /\ c.pc \in {"verify", "create", "commit"} => Known(c.user)
    /\ c.pc = "create" => c.seen \in 1..MaxVersion /\ c.seen <= account[c.user].version
    /\ c.pc \in {"record", "undo", "rotate", "reload", "discard", "get", "load"} => c.sid \in SessionIds
    /\ c.pc \in {"verify", "create", "record", "undo"} => c.op = "login"
    /\ c.pc \in {"rotate", "reload", "discard"} => c.op = "refresh"
    /\ c.pc \in {"get", "load"} => c.op \in Requests
    /\ c.pc = "check" => c.op = "revokeOne"
    /\ c.pc = "commit" => c.op \in {"password", "admin"}
    /\ c.pc = "list" => c.op \in {"revokeOthers", "password", "admin"}
    /\ c.pc = "revoke" => c.op \in {"logout", "revokeOne", "revokeOthers", "password", "admin"}
    /\ c.op \in Requests /\ c.pc # "done" => c.sid \in SessionIds /\ c.user = holder[c.sid].user
    /\ c.reply # "none" => c.pc = "done"

(* The sessions a request is revoking are its user's, and those it is done with have
   ended.  Before it revokes, only RevokeSession has a list: the id of its path.     *)
CallRevokes(c) ==
    /\ c.listed # {} => c.pc \in {"revoke", "done"} \/ c.op = "revokeOne"
    /\ c.pc = "revoke" =>
          /\ \A s \in c.listed : Born(s) /\ holder[s].user = c.user
          /\ \A s \in c.listed \ c.todo : phase[s] = "ended"
          /\ c.op = "revokeOthers" => c.sid \notin c.listed
    /\ c.reply = "ok" => \A s \in c.listed : phase[s] = "ended"

(* An account that was no good when the session was seen live is no good any more. *)
CallJudges(c) ==
    /\ c.pc \in {"reload", "load"} /\ ~c.good => ~Good(c.sid)
    /\ \/ c.op \in Requests /\ c.pc \in {"check", "list", "revoke", "commit"}
       \/ c.op \in Requests \cup {"refresh"} /\ c.reply = "ok"
       => c.good

CallOK(c) == CallFormed(c) /\ CallRevokes(c) /\ CallJudges(c)

(* The account of a session is there, and never behind the version of the session. *)
SessionsHeld ==
    /\ \A s \in SessionIds : Born(s) =>
          /\ holder[s] # None
          /\ Known(holder[s].user)
          /\ holder[s].version <= account[holder[s].user].version
    /\ \A d \in Digests : family[d] # None => Born(family[d])
    /\ \A s \in given : Born(s)

IInv ==
    /\ TypeOK
    /\ SessionsHeld
    /\ \A p \in Procs : CallOK(call[p])

----------------------------------------------------------------------------
(* The typing of everything but the requests. *)
Typed ==
    /\ phase \in [SessionIds -> {"unborn", "live", "ended"}]
    /\ token \in [SessionIds -> Digests \cup {None}]
    /\ used \in SUBSET Digests
    /\ account \in [Users -> [status: {"active", "disabled", "archived"}, version: 1..MaxVersion]
                              \cup {None}]
    /\ holder \in [SessionIds -> [user: Users, version: 1..MaxVersion] \cup {None}]
    /\ family \in [Digests -> SessionIds \cup {None}]
    /\ given \in SUBSET SessionIds

(* What every step does to the sessions and the accounts, seen from a request that
   takes no part in it: a session keeps its holder and stays ended once it has ended,
   an account keeps its status as long as it keeps its version.                      *)
World ==
    /\ Typed' /\ SessionsHeld'
    /\ \A s \in SessionIds : Born(s) => phase'[s] # "unborn" /\ holder'[s] = holder[s]
    /\ \A s \in SessionIds : phase[s] = "ended" => phase'[s] = "ended"
    /\ \A u \in Users : Known(u) =>
          /\ account'[u] # None
          /\ account'[u].version >= account[u].version
          /\ account'[u].version = account[u].version => account'[u].status = account[u].status

LEMMA Types ==
    ASSUME IInv
    PROVE  /\ Typed /\ SessionsHeld /\ call \in [Procs -> Call]
           /\ \A p \in Procs : call[p] \in Call /\ CallOK(call[p])
  BY DEF IInv, TypeOK, Typed

(* A session that was opened has a holder, whose account there is. *)
LEMMA Held ==
    ASSUME Typed, SessionsHeld, NEW s \in SessionIds, Born(s)
    PROVE  /\ holder[s] \in [user: Users, version: 1..MaxVersion]
           /\ holder[s].user \in Users /\ holder[s].version \in 1..MaxVersion
           /\ Known(holder[s].user)
           /\ account[holder[s].user].version \in 1..MaxVersion
           /\ holder[s].version <= account[holder[s].user].version
  BY DEF Typed, SessionsHeld, Known

(* An account that stopped being good for a session never is again. *)
LEMMA BadStaysBad ==
    ASSUME IInv, World, NEW s \in SessionIds, Born(s), ~Good(s)
    PROVE  ~Good(s)'
  <1>1. PICK u \in Users : u = holder[s].user
    BY Types, Held
  <1>2. PICK v \in 1..MaxVersion : v = holder[s].version
    BY Types, Held
  <1>3. holder'[s] = holder[s]
    BY DEF World
  <1>4. /\ Known(u) /\ account[u].version \in 1..MaxVersion /\ v <= account[u].version
    BY Types, Held, <1>1, <1>2
  <1>5. ~(account[u].status = "active" /\ account[u].version = v)
    BY <1>1, <1>2 DEF Good
  <1>6. /\ account'[u] # None
        /\ account'[u].version >= account[u].version
        /\ account'[u].version = account[u].version => account'[u].status = account[u].status
    BY <1>4 DEF World
  <1>7. account'[u].version \in 1..MaxVersion
    BY <1>6 DEF World, Typed
  <1>8. ~(account'[u].status = "active" /\ account'[u].version = v)
    BY <1>4, <1>5, <1>6, <1>7
  <1> QED BY <1>1, <1>2, <1>3, <1>8 DEF Good

LEMMA CallKept ==
    ASSUME IInv, World, NEW c \in Call, CallOK(c)
    PROVE  CallOK(c)'
  <1>1. /\ c.sid \in SessionIds \cup {None} /\ c.user \in Users \cup {None}
        /\ c.listed \in SUBSET SessionIds /\ c.todo \in SUBSET SessionIds
        /\ c.seen \in (1..MaxVersion) \cup {None}
    BY DEF Call
  <1>2. CallFormed(c) /\ CallRevokes(c) /\ CallJudges(c)
    BY DEF CallOK
  <1>3. ASSUME NEW u \in Users, Known(u)
        PROVE  Known(u)' /\ account[u].version \in 1..MaxVersion
               /\ account'[u].version \in 1..MaxVersion /\ account'[u].version >= account[u].version
    <2>1. account'[u] # None /\ account'[u].version >= account[u].version
      BY <1>3 DEF World
    <2> QED BY <1>3, <2>1, Types DEF World, Typed, Known
  <1>4. ASSUME NEW s \in SessionIds, Born(s)
        PROVE  Born(s)' /\ holder'[s] = holder[s]
    BY <1>4 DEF World, Born
  <1>5. c.sid # None => c.sid \in SessionIds /\ Born(c.sid)
    BY <1>1, <1>2 DEF CallFormed
  <1>6. CallFormed(c)'
    <2>1. c.sid # None => Born(c.sid)'
      BY <1>4, <1>5
    <2>2. c.pc \in {"verify", "create", "commit"} => Known(c.user)'
      BY <1>2, <1>3 DEF CallFormed
    <2>3. c.pc = "create" => c.seen \in 1..MaxVersion /\ c.seen <= account'[c.user].version
      BY <1>2, <1>3 DEF CallFormed
    <2>4. c.op \in Requests /\ c.pc # "done" => c.sid \in SessionIds /\ c.user = holder'[c.sid].user
      BY <1>2, <1>4, <1>5, AuthAssumption DEF CallFormed
    <2> QED BY <1>2, <2>1, <2>2, <2>3, <2>4 DEF CallFormed
  <1>7. CallRevokes(c)'
    <2>1. \A s \in c.listed : phase[s] = "ended" => phase'[s] = "ended"
      BY <1>1 DEF World
    <2>2. c.pc = "revoke" => \A s \in c.listed : Born(s)' /\ holder'[s].user = c.user
      BY <1>1, <1>2, <1>4 DEF CallRevokes
    <2> QED BY <1>2, <2>1, <2>2 DEF CallRevokes
  <1>8. CallJudges(c)'
    <2>1. c.pc \in {"reload", "load"} /\ ~c.good => ~Good(c.sid)'
      <3>1. SUFFICES ASSUME c.pc \in {"reload", "load"}, ~c.good PROVE ~Good(c.sid)'
        OBVIOUS
      <3>2. c.sid \in SessionIds
        BY <1>2, <3>1 DEF CallFormed
      <3>3. PICK s \in SessionIds : s = c.sid
        BY <3>2
      <3>4. Born(s) /\ ~Good(s)
        BY <1>2, <1>5, <3>1, <3>3, AuthAssumption DEF CallJudges
      <3> QED BY <3>3, <3>4, BadStaysBad
    <2> QED BY <1>2, <2>1 DEF CallJudges
  <1> QED BY <1>6, <1>7, <1>8 DEF CallOK

(* Only process p's request moves on, and to c. *)
LEMMA StepKeeps ==
    ASSUME IInv, World, NEW p \in Procs, NEW c \in Call, CallOK(c)',
           call' = [call EXCEPT ![p] = c]
    PROVE  IInv'
  <1>1. call' \in [Procs -> Call] /\ call'[p] = c
        /\ \A q \in Procs : q # p => call'[q] = call[q]
    BY Types
  <1>2. \A q \in Procs : CallOK(call[q])'
    <2> TAKE q \in Procs
    <2>1. CASE q = p
      BY <1>1, <2>1 DEF CallOK, CallFormed, CallRevokes, CallJudges, Good, Born, Known
    <2>2. CASE q # p
      <3>1. PICK d \in Call : d = call[q]
        BY Types
      <3>2. CallOK(d)'
        BY <3>1, Types, CallKept
      <3>3. d = call'[q]
        BY <1>1, <2>2, <3>1
      <3> QED BY <3>2, <3>3 DEF CallOK, CallFormed, CallRevokes, CallJudges, Good, Born, Known
    <2> QED BY <2>1, <2>2
  <1>3. TypeOK'
    BY <1>1 DEF World, Typed, TypeOK
  <1> QED BY <1>2, <1>3 DEF IInv, World

LEMMA StayKeeps ==
    ASSUME IInv, World, UNCHANGED call
    PROVE  IInv'
  <1>1. TypeOK'
    BY Types DEF World, Typed, TypeOK
  <1>2. \A q \in Procs : CallOK(call[q])'
    <2> TAKE q \in Procs
    <2>1. PICK d \in Call : d = call[q]
      BY Types
    <2>2. CallOK(d)'
      BY <2>1, Types, CallKept
    <2>3. d = call'[q]
      BY <2>1
    <2> QED BY <2>2, <2>3 DEF CallOK, CallFormed, CallRevokes, CallJudges, Good, Born, Known
  <1> QED BY <1>1, <1>2 DEF IInv, World

----------------------------------------------------------------------------
(* The steps of the two stores, as a request sees them. *)
LEMMA NothingChanged ==
    ASSUME IInv, UNCHANGED <<sessions, account>>,
           given' = given \/ \E s \in SessionIds : Born(s) /\ given' = given \cup {s}
    PROVE  World
  <1>1. Typed'
    BY Types DEF Typed, sessions
  <1>2. SessionsHeld'
    <2>1. \A s \in given' : Born(s)
      BY Types DEF SessionsHeld
    <2> QED BY <2>1, Types DEF SessionsHeld, Born, Known, sessions
  <1> QED BY <1>1, <1>2, Types DEF World, Typed, Born, Known, sessions

LEMMA SessionsEnd ==
    ASSUME IInv, NEW S \in SUBSET SessionIds, Life!End(S),
           UNCHANGED <<holder, family, account, given>>
    PROVE  World
  <1>1. /\ phase' = [s \in SessionIds |-> IF s \in S THEN "ended" ELSE phase[s]]
        /\ token' = [s \in SessionIds |-> IF s \in S THEN None ELSE token[s]]
        /\ used' = used /\ \A s \in S : phase[s] = "live"
    BY DEF Life!End
  <1>2. Typed'
    BY <1>1, Types DEF Typed
  <1>3. \A s \in SessionIds : Born(s)' <=> Born(s)
    BY <1>1 DEF Born
  <1>4. SessionsHeld'
    BY <1>3, Types DEF SessionsHeld, Known, Typed
  <1> QED BY <1>1, <1>2, <1>4, Types DEF World, Typed, Born, Known

LEMMA OneEnds ==
    ASSUME IInv, NEW s \in SessionIds, Life!End({s}) \/ UNCHANGED <<phase, token, used>>,
           UNCHANGED <<holder, family, account, given>>
    PROVE  World
  <1>1. CASE Life!End({s})
    BY <1>1, SessionsEnd
  <1>2. CASE UNCHANGED <<phase, token, used>>
    BY <1>2, NothingChanged DEF sessions
  <1> QED BY <1>1, <1>2

LEMMA SessionRenewed ==
    ASSUME IInv, NEW s \in SessionIds, NEW d \in Digests, Life!Renew(s, d),
           family' = [family EXCEPT ![d] = s],
           UNCHANGED <<holder, account, given>>
    PROVE  World
  <1>1. /\ phase[s] = "live" /\ phase' = phase
        /\ token' = [token EXCEPT ![s] = d] /\ used' = used \cup {d}
    BY DEF Life!Renew
  <1>2. Typed'
    BY <1>1, Types DEF Typed
  <1>3. SessionsHeld'
    BY <1>1, Types DEF SessionsHeld, Born, Known, Typed
  <1> QED BY <1>1, <1>2, <1>3, Types DEF World, Typed, Born, Known

LEMMA SessionOpened ==
    ASSUME IInv, NEW s \in SessionIds, NEW d \in Digests, NEW u \in Users, NEW v \in 1..MaxVersion,
           Known(u), v <= account[u].version,
           Life!Open(s, d) \/ Life!Abandon(s, d),
           holder' = [holder EXCEPT ![s] = [user |-> u, version |-> v]],
           family' = [family EXCEPT ![d] = s],
           UNCHANGED <<account, given>>
    PROVE  World /\ Born(s)'
  <1>1. /\ phase[s] = "unborn" /\ used' = used \cup {d}
        /\ token' = token \/ token' = [token EXCEPT ![s] = d]
        /\ \E x \in {"live", "ended"} : phase' = [phase EXCEPT ![s] = x]
    BY DEF Life!Open, Life!Abandon
  <1>2. PICK x \in {"live", "ended"} : phase' = [phase EXCEPT ![s] = x]
    BY <1>1
  <1>3. \A t \in SessionIds : phase'[t] = IF t = s THEN x ELSE phase[t]
    BY <1>2, Types DEF Typed
  <1>4. /\ \A t \in SessionIds : t # s => holder'[t] = holder[t]
        /\ holder'[s] = [user |-> u, version |-> v]
    BY Types DEF Typed
  <1>5. Typed'
    <2>1. phase' \in [SessionIds -> {"unborn", "live", "ended"}]
      BY <1>2, Types DEF Typed
    <2>2. holder' \in [SessionIds -> [user: Users, version: 1..MaxVersion] \cup {None}]
      BY Types DEF Typed
    <2>3. token' \in [SessionIds -> Digests \cup {None}] /\ used' \in SUBSET Digests
      BY <1>1, Types DEF Typed
    <2>4. family' \in [Digests -> SessionIds \cup {None}]
      BY Types DEF Typed
    <2> QED BY <2>1, <2>2, <2>3, <2>4, Types DEF Typed
  <1>6. SessionsHeld'
    <2>1. ASSUME NEW t \in SessionIds, Born(t)'
          PROVE  /\ holder'[t] # None /\ account[holder'[t].user] # None
                 /\ holder'[t].version <= account[holder'[t].user].version
      <3>1. CASE t = s
        BY <1>4, <3>1, AuthAssumption DEF Known
      <3>2. CASE t # s
        BY <1>3, <1>4, <2>1, <3>2, Types DEF Born, SessionsHeld, Known
      <3> QED BY <3>1, <3>2
    <2>2. \A e \in Digests : family'[e] # None => phase'[family'[e]] # "unborn"
      <3> TAKE e \in Digests
      <3>1. CASE e = d
        BY <1>3, <3>1, Types DEF Typed, Born
      <3>2. CASE e # d
        BY <1>3, <3>2, Types DEF Typed, Born, SessionsHeld
      <3> QED BY <3>1, <3>2
    <2>3. \A t \in given : Born(t)'
      BY <1>3, Types DEF Typed, Born, SessionsHeld
    <2> QED BY <2>1, <2>2, <2>3 DEF SessionsHeld, Known, Born
  <1> QED BY <1>1, <1>3, <1>4, <1>5, <1>6, Types DEF World, Typed, Born, Known

LEMMA AccountChanged ==
    ASSUME IInv, NEW u \in Users,
           \/ Accounts!Create(u)
           \/ account[u].version < MaxVersion /\ Accounts!Change(u),
           UNCHANGED <<sessions, given>>
    PROVE  World
  <1>0. Known(u) => account[u].version \in 1..MaxVersion
    BY Types DEF Typed, Known
  <1>1. PICK st \in {"active", "disabled", "archived"}, v \in 1..MaxVersion :
            /\ account' = [account EXCEPT ![u] = [status |-> st, version |-> v]]
            /\ Known(u) => v = account[u].version + 1
    <2>1. CASE Accounts!Create(u)
      <3>1. /\ ~Known(u) /\ 1 \in 1..MaxVersion
            /\ account' = [account EXCEPT ![u] = [status |-> "active", version |-> 1]]
        BY <2>1, AuthAssumption DEF Accounts!Create, Known
      <3> QED BY <3>1
    <2>2. CASE account[u].version < MaxVersion /\ Accounts!Change(u)
      <3>1. PICK st \in {"active", "disabled", "archived"} :
                account' = [account EXCEPT ![u] = [status |-> st, version |-> @.version + 1]]
        BY <2>2 DEF Accounts!Change, Accounts!Statuses
      <3>2. Known(u)
        BY <2>2 DEF Accounts!Change, Known
      <3>3. account[u].version + 1 \in 1..MaxVersion
        BY <1>0, <2>2, <3>2, AuthAssumption
      <3> QED BY <3>1, <3>3
    <2> QED BY <2>1, <2>2
  <1>2. /\ account'[u] = [status |-> st, version |-> v]
        /\ \A w \in Users : w # u => account'[w] = account[w]
    BY <1>1, Types DEF Typed
  <1>3. account'[u] # None
    BY <1>2, AuthAssumption
  <1>4. Typed'
    BY <1>1, Types DEF Typed, sessions
  <1>5. \A w \in Users : Known(w) =>
          /\ account'[w] # None
          /\ account'[w].version >= account[w].version
          /\ account'[w].version = account[w].version => account'[w].status = account[w].status
    <2> TAKE w \in Users
    <2>1. CASE w = u
      BY <1>0, <1>1, <1>2, <1>3, <2>1
    <2>2. CASE w # u
      <3>1. Known(w) => account[w].version \in 1..MaxVersion
        BY Types DEF Typed, Known
      <3> QED BY <1>2, <2>2, <3>1 DEF Known
    <2> QED BY <2>1, <2>2
  <1>6. SessionsHeld'
    <2>1. ASSUME NEW t \in SessionIds, Born(t)
          PROVE  /\ account'[holder[t].user] # None
                 /\ holder[t].version <= account'[holder[t].user].version
      <3>1. PICK w \in Users : w = holder[t].user
        BY <2>1, Types, Held
      <3>2. PICK x \in 1..MaxVersion : x = holder[t].version
        BY <2>1, Types, Held
      <3>3. Known(w) /\ account[w].version \in 1..MaxVersion /\ x <= account[w].version
        BY <2>1, <3>1, <3>2, Types, Held
      <3>4. account'[w] # None /\ account'[w].version >= account[w].version
        BY <1>5, <3>3
      <3>5. account'[w].version \in 1..MaxVersion
        BY <1>4, <3>4 DEF Typed
      <3> QED BY <3>1, <3>2, <3>3, <3>4, <3>5
    <2> QED BY <2>1, Types DEF SessionsHeld, Born, Known, sessions
  <1> QED BY <1>4, <1>5, <1>6, Types DEF World, Typed, Born, Known, sessions

----------------------------------------------------------------------------
(* How a request moves on. *)
LEMMA IdleFacts ==
    /\ Idle \in Call
    /\ Idle.op = "none" /\ Idle.pc = "idle" /\ Idle.reply = "none" /\ Idle.user = None
    /\ Idle.sid = None /\ Idle.digest = None /\ Idle.seen = None
    /\ Idle.listed = {} /\ Idle.todo = {} /\ Idle.good = FALSE
  BY DEF Idle, Call, Ops, Pcs, Replies

LEMMA RefuseKeeps ==
    ASSUME IInv, World, NEW p \in Procs, NEW answer \in Replies \ {"ok"}, Refuse(p, answer)
    PROVE  IInv'
  <1>1. PICK c : c = [Idle EXCEPT !.op = call[p].op, !.pc = "done", !.reply = answer]
    OBVIOUS
  <1>2. call[p] \in Call
    BY Types
  <1>3. /\ c \in Call /\ c.pc = "done" /\ c.reply = answer /\ c.sid = None /\ c.listed = {}
    BY <1>1, <1>2, IdleFacts DEF Call, Pcs
  <1>4. CallOK(c)
    BY <1>3 DEF CallOK, CallFormed, CallRevokes, CallJudges, Replies
  <1> QED BY <1>1, <1>3, <1>4, CallKept, StepKeeps DEF Refuse

LEMMA SucceedKeeps ==
    ASSUME IInv, World, NEW p \in Procs, Succeed(p),
           \A s \in call[p].listed : phase[s] = "ended",
           call[p].op \in Requests \cup {"refresh"} => call[p].good
    PROVE  IInv'
  <1>1. PICK c : c = [Idle EXCEPT !.op = call[p].op, !.pc = "done", !.reply = "ok",
                          !.sid = call[p].sid, !.listed = call[p].listed, !.good = call[p].good]
    OBVIOUS
  <1>2. PICK b \in Call : b = call[p] /\ CallOK(b)
    BY Types
  <1>3. /\ c \in Call /\ c.pc = "done" /\ c.reply = "ok" /\ c.op = b.op
        /\ c.sid = b.sid /\ c.listed = b.listed /\ c.good = b.good
    BY <1>1, <1>2, IdleFacts DEF Call, Pcs, Replies
  <1>4. CallOK(c)
    BY <1>2, <1>3 DEF CallOK, CallFormed, CallRevokes, CallJudges
  <1> QED BY <1>1, <1>3, <1>4, CallKept, StepKeeps DEF Succeed

(* A request goes on as c, whatever the others did before. *)
LEMMA MoveKeeps ==
    ASSUME IInv, World, NEW p \in Procs, NEW c \in Call, CallOK(c), call' = [call EXCEPT ![p] = c]
    PROVE  IInv'
  BY CallKept, StepKeeps

LEMMA GotoKeeps ==
    ASSUME IInv, World, NEW p \in Procs, NEW pc \in Pcs, Goto(p, pc),
           CallOK([call[p] EXCEPT !.pc = pc])
    PROVE  IInv'
  <1>1. PICK c : c = [call[p] EXCEPT !.pc = pc]
    OBVIOUS
  <1>2. call[p] \in Call
    BY Types
  <1>3. c \in Call
    BY <1>1, <1>2 DEF Call
  <1>4. call' = [call EXCEPT ![p] = c]
    BY <1>1, <1>2, Types DEF Goto
  <1> QED BY <1>1, <1>3, <1>4, MoveKeeps

----------------------------------------------------------------------------
(* Starting, ending and failing. *)
LEMMA StartKeeps ==
    ASSUME IInv, NEW p \in Procs, Start(p)
    PROVE  IInv'
  <1>1. ASSUME NEW c \in Call, CallOK(c), Begin(p, c) PROVE IInv'
    BY <1>1, MoveKeeps, NothingChanged DEF Begin
  <1>2. CASE StartLogin(p)
    <2>1. PICK u \in Users :
              Known(u) /\ Begin(p, [Idle EXCEPT !.op = "login", !.pc = "verify", !.user = u])
      BY <1>2 DEF StartLogin
    <2>2. PICK c : c = [Idle EXCEPT !.op = "login", !.pc = "verify", !.user = u]
      OBVIOUS
    <2>3. /\ c \in Call /\ c.op = "login" /\ c.pc = "verify" /\ c.reply = "none" /\ c.user = u
          /\ c.sid = None /\ c.listed = {}
      BY <2>2, IdleFacts DEF Call, Ops, Pcs
    <2>4. CallOK(c)
      BY <2>1, <2>3 DEF CallOK, CallFormed, CallRevokes, CallJudges, Requests
    <2> QED BY <1>1, <2>1, <2>2, <2>3, <2>4
  <1>3. CASE StartRefresh(p)
    <2>1. PICK d \in Digests :
              /\ family[d] \in given
              /\ Begin(p, [Idle EXCEPT !.op = "refresh", !.pc = "rotate", !.digest = d, !.sid = family[d]])
      BY <1>3 DEF StartRefresh
    <2>2. PICK c : c = [Idle EXCEPT !.op = "refresh", !.pc = "rotate", !.digest = d, !.sid = family[d]]
      OBVIOUS
    <2>3. family[d] \in SessionIds /\ Born(family[d])
      BY <2>1, Types DEF Typed, SessionsHeld
    <2>4. /\ c \in Call /\ c.op = "refresh" /\ c.pc = "rotate" /\ c.reply = "none"
          /\ c.sid = family[d] /\ c.listed = {}
      BY <2>2, <2>3, IdleFacts DEF Call, Ops, Pcs
    <2>5. CallOK(c)
      BY <2>3, <2>4 DEF CallOK, CallFormed, CallRevokes, CallJudges, Requests
    <2> QED BY <1>1, <2>1, <2>2, <2>4, <2>5
  <1>4. CASE StartRequest(p)
    <2>1. PICK s \in given, op \in {"me", "logout", "revokeOthers", "password"} :
              Begin(p, [Idle EXCEPT !.op = op, !.pc = "get", !.sid = s, !.user = holder[s].user])
      BY <1>4 DEF StartRequest
    <2>2. PICK c : c = [Idle EXCEPT !.op = op, !.pc = "get", !.sid = s, !.user = holder[s].user]
      OBVIOUS
    <2>3. s \in SessionIds /\ Born(s) /\ holder[s].user \in Users
      BY Types, Held DEF Typed, SessionsHeld
    <2>4. /\ c \in Call /\ c.op = op /\ c.pc = "get" /\ c.reply = "none" /\ c.user = holder[s].user
          /\ c.sid = s /\ c.listed = {}
      BY <2>2, <2>3, IdleFacts DEF Call, Ops, Pcs
    <2>5. CallOK(c)
      BY <2>3, <2>4 DEF CallOK, CallFormed, CallRevokes, CallJudges, Requests
    <2> QED BY <1>1, <2>1, <2>2, <2>4, <2>5
  <1>5. CASE StartRevokeOne(p)
    <2>1. PICK s \in given, t \in SessionIds :
              Begin(p, [Idle EXCEPT !.op = "revokeOne", !.pc = "get", !.sid = s,
                                    !.user = holder[s].user, !.listed = {t}])
      BY <1>5 DEF StartRevokeOne
    <2>2. PICK c : c = [Idle EXCEPT !.op = "revokeOne", !.pc = "get", !.sid = s,
                                    !.user = holder[s].user, !.listed = {t}]
      OBVIOUS
    <2>3. s \in SessionIds /\ Born(s) /\ holder[s].user \in Users
      BY Types, Held DEF Typed, SessionsHeld
    <2>4. /\ c \in Call /\ c.op = "revokeOne" /\ c.pc = "get" /\ c.reply = "none"
          /\ c.user = holder[s].user /\ c.sid = s
      BY <2>2, <2>3, IdleFacts DEF Call, Ops, Pcs
    <2>5. CallOK(c)
      BY <2>3, <2>4 DEF CallOK, CallFormed, CallRevokes, CallJudges, Requests
    <2> QED BY <1>1, <2>1, <2>2, <2>4, <2>5
  <1>6. CASE StartAdmin(p)
    <2>1. PICK u \in Users :
              Known(u) /\ Begin(p, [Idle EXCEPT !.op = "admin", !.pc = "commit", !.user = u])
      BY <1>6 DEF StartAdmin
    <2>2. PICK c : c = [Idle EXCEPT !.op = "admin", !.pc = "commit", !.user = u]
      OBVIOUS
    <2>3. /\ c \in Call /\ c.op = "admin" /\ c.pc = "commit" /\ c.reply = "none" /\ c.user = u
          /\ c.sid = None /\ c.listed = {}
      BY <2>2, IdleFacts DEF Call, Ops, Pcs
    <2>4. CallOK(c)
      BY <2>1, <2>3 DEF CallOK, CallFormed, CallRevokes, CallJudges, Requests
    <2> QED BY <1>1, <2>1, <2>2, <2>3, <2>4
  <1> QED BY <1>2, <1>3, <1>4, <1>5, <1>6 DEF Start

LEMMA FailKeeps ==
    ASSUME IInv, NEW p \in Procs, Fail(p)
    PROVE  IInv'
  BY NothingChanged, RefuseKeeps DEF Fail, Replies

LEMMA ReturnKeeps ==
    ASSUME IInv, NEW p \in Procs, Return(p)
    PROVE  IInv'
  <1>1. PICK c : c = Idle
    OBVIOUS
  <1>2. CallOK(c)
    BY <1>1, IdleFacts DEF CallOK, CallFormed, CallRevokes, CallJudges, Requests
  <1>3. World /\ call' = [call EXCEPT ![p] = c]
    BY <1>1, NothingChanged DEF Return
  <1> QED BY <1>1, <1>2, <1>3, IdleFacts, MoveKeeps

LEMMA ExpireKeeps ==
    ASSUME IInv, Expire PROVE IInv'
  BY SessionsEnd, StayKeeps DEF Expire

LEMMA CreateAccountKeeps ==
    ASSUME IInv, NEW u \in Users, CreateAccount(u) PROVE IInv'
  BY AccountChanged, StayKeeps DEF CreateAccount

----------------------------------------------------------------------------
(* Login. *)
LEMMA VerifyKeeps ==
    ASSUME IInv, NEW p \in Procs, Verify(p)
    PROVE  IInv'
  <1>1. World
    BY NothingChanged DEF Verify
  <1>2. PICK b \in Call : b = call[p] /\ CallOK(b)
    BY Types
  <1>3. b.pc = "verify" /\ b.user \in Users /\ Known(b.user)
    BY <1>2 DEF Verify, CallOK, CallFormed
  <1>4. account[b.user].version \in 1..MaxVersion
    BY <1>3, Types DEF Typed, Known
  <1>5. CASE Refuse(p, "invalid") \/ Refuse(p, "disabled")
    BY <1>1, <1>5, RefuseKeeps DEF Replies
  <1>6. CASE call' = [call EXCEPT ![p].pc = "create", ![p].seen = account[call[p].user].version]
    <2>1. PICK c : c = [b EXCEPT !.pc = "create", !.seen = account[b.user].version]
      OBVIOUS
    <2>2. /\ c \in Call /\ c.pc = "create" /\ c.op = b.op /\ c.sid = b.sid /\ c.user = b.user
          /\ c.seen = account[b.user].version /\ c.reply = b.reply /\ c.listed = b.listed
      BY <1>4, <2>1 DEF Call, Pcs
    <2>3. CallOK(c)
      BY <1>2, <1>3, <1>4, <2>2 DEF CallOK, CallFormed, CallRevokes, CallJudges, Requests
    <2>4. call' = [call EXCEPT ![p] = c]
      BY <1>2, <1>6, <2>1, Types
    <2> QED BY <1>1, <2>2, <2>3, <2>4, MoveKeeps
  <1> QED BY <1>5, <1>6 DEF Verify

LEMMA EvictKeeps ==
    ASSUME IInv, NEW p \in Procs, Evict(p)
    PROVE  IInv'
  <1>1. PICK s \in SessionIds : Life!End({s})
    BY DEF Evict, SessionsOf
  <1> QED BY <1>1, SessionsEnd, StayKeeps DEF Evict

LEMMA CreateSessionKeeps ==
    ASSUME IInv, NEW p \in Procs, CreateSession(p)
    PROVE  IInv'
  <1>1. PICK b \in Call : b = call[p] /\ CallOK(b)
    BY Types
  <1>2. PICK u \in Users, v \in 1..MaxVersion : u = b.user /\ v = b.seen
    BY <1>1 DEF CreateSession, CallOK, CallFormed
  <1>3. Known(u) /\ v <= account[u].version /\ b.pc = "create" /\ b.op = "login"
    BY <1>1, <1>2 DEF CreateSession, CallOK, CallFormed
  <1>4. PICK s \in SessionIds, d \in Digests :
            /\ \/ Life!Open(s, d) /\ call' = [call EXCEPT ![p].pc = "record", ![p].sid = s]
               \/ Life!Abandon(s, d) /\ Refuse(p, "error")
            /\ holder' = [holder EXCEPT ![s] = [user |-> u, version |-> v]]
            /\ family' = [family EXCEPT ![d] = s]
    BY <1>1, <1>2 DEF CreateSession
  <1>5. World /\ Born(s)'
    <2>1. UNCHANGED <<account, given>>
      BY DEF CreateSession
    <2> QED BY <1>3, <1>4, <2>1, SessionOpened
  <1>6. CASE Refuse(p, "error")
    BY <1>5, <1>6, RefuseKeeps DEF Replies
  <1>7. CASE call' = [call EXCEPT ![p].pc = "record", ![p].sid = s]
    <2>1. PICK c : c = [b EXCEPT !.pc = "record", !.sid = s]
      OBVIOUS
    <2>2. /\ c \in Call /\ c.pc = "record" /\ c.op = "login" /\ c.sid = s
          /\ c.reply = b.reply /\ c.listed = b.listed
      BY <1>3, <2>1 DEF Call, Pcs
    <2>3. /\ b.reply = "none" /\ b.listed = {}
      BY <1>1, <1>3 DEF CallOK, CallFormed, CallRevokes, Call, Replies
    <2>4. CallOK(c)'
      BY <1>5, <2>2, <2>3 DEF CallOK, CallFormed, CallRevokes, CallJudges, Requests
    <2>5. call' = [call EXCEPT ![p] = c]
      BY <1>1, <1>7, <2>1, Types
    <2> QED BY <1>5, <2>2, <2>4, <2>5, StepKeeps
  <1> QED BY <1>4, <1>6, <1>7

LEMMA RecordLoginKeeps ==
    ASSUME IInv, NEW p \in Procs, RecordLogin(p)
    PROVE  IInv'
  <1>1. PICK b \in Call : b = call[p] /\ CallOK(b)
    BY Types
  <1>2. /\ b.pc = "record" /\ b.op = "login" /\ b.sid \in SessionIds /\ Born(b.sid)
        /\ b.reply = "none" /\ b.listed = {}
    BY <1>1, AuthAssumption DEF RecordLogin, CallOK, CallFormed, CallRevokes, Call, Replies
  <1>3. World
    BY <1>1, <1>2, NothingChanged DEF RecordLogin
  <1>4. CASE Succeed(p)
    BY <1>1, <1>2, <1>3, <1>4, SucceedKeeps DEF Requests
  <1>5. CASE Goto(p, "undo")
    <2>1. PICK c : c = [b EXCEPT !.pc = "undo"]
      OBVIOUS
    <2>2. /\ c.pc = "undo" /\ c.op = "login" /\ c.sid = b.sid /\ c.reply = "none" /\ c.listed = {}
      BY <1>2, <2>1 DEF Call
    <2>3. CallOK(c)
      BY <1>2, <2>2 DEF CallOK, CallFormed, CallRevokes, CallJudges, Requests
    <2> QED BY <1>1, <1>3, <1>5, <2>1, <2>3, GotoKeeps DEF Pcs
  <1> QED BY <1>4, <1>5 DEF RecordLogin

LEMMA UndoLoginKeeps ==
    ASSUME IInv, NEW p \in Procs, UndoLogin(p)
    PROVE  IInv'
  <1>1. PICK s \in SessionIds : s = call[p].sid
    BY Types DEF UndoLogin, CallOK, CallFormed
  <1>2. World
    BY <1>1, OneEnds DEF UndoLogin, EndIfLive
  <1> QED BY <1>2, RefuseKeeps DEF UndoLogin, Replies

----------------------------------------------------------------------------
(* Refresh. *)
LEMMA RotateFreshKeeps ==
    ASSUME IInv, NEW p \in Procs, RotateFresh(p)
    PROVE  IInv'
  <1>1. PICK b \in Call : b = call[p] /\ CallOK(b)
    BY Types
  <1>2. /\ b.pc = "rotate" /\ b.op = "refresh" /\ b.sid \in SessionIds /\ Born(b.sid)
        /\ b.reply = "none" /\ b.listed = {}
    BY <1>1, AuthAssumption DEF RotateFresh, CallOK, CallFormed, CallRevokes, Call, Replies
  <1>3. PICK s \in SessionIds : s = b.sid
    BY <1>2
  <1>4. World
    <2>1. PICK d \in Digests : Life!Renew(s, d) /\ family' = [family EXCEPT ![d] = s]
      BY <1>1, <1>3 DEF RotateFresh
    <2>2. UNCHANGED <<holder, account, given>>
      BY DEF RotateFresh
    <2> QED BY <2>1, <2>2, SessionRenewed
  <1>5. CASE call' = call
    BY <1>4, <1>5, StayKeeps
  <1>6. CASE SeenLive(p, "reload")
    <2>1. PICK c : c = [b EXCEPT !.pc = "reload", !.good = Good(s)]
      OBVIOUS
    <2>2. /\ c \in Call /\ c.pc = "reload" /\ c.op = "refresh" /\ c.sid = s
          /\ c.reply = "none" /\ c.listed = {} /\ c.good = Good(s)
      BY <1>2, <1>3, <2>1 DEF Call, Pcs, Good
    <2>3. CallOK(c)
      BY <1>2, <1>3, <2>2 DEF CallOK, CallFormed, CallRevokes, CallJudges, Requests
    <2>4. call' = [call EXCEPT ![p] = c]
      BY <1>1, <1>3, <1>6, <2>1, Types DEF SeenLive
    <2> QED BY <1>4, <2>2, <2>3, <2>4, MoveKeeps
  <1> QED BY <1>5, <1>6 DEF RotateFresh

LEMMA RotateReuseKeeps ==
    ASSUME IInv, NEW p \in Procs, RotateReuse(p)
    PROVE  IInv'
  <1>1. PICK s \in SessionIds : s = call[p].sid
    BY Types DEF RotateReuse, CallOK, CallFormed
  <1>2. World
    BY <1>1, OneEnds DEF RotateReuse, EndIfLive
  <1> QED BY <1>2, RefuseKeeps, StayKeeps DEF RotateReuse, Replies

LEMMA RotateUnknownKeeps ==
    ASSUME IInv, NEW p \in Procs, RotateUnknown(p)
    PROVE  IInv'
  BY NothingChanged, RefuseKeeps DEF RotateUnknown, Replies

LEMMA ReloadKeeps ==
    ASSUME IInv, NEW p \in Procs, Reload(p)
    PROVE  IInv'
  <1>1. World
    BY NothingChanged DEF Reload
  <1>2. PICK b \in Call : b = call[p] /\ CallOK(b)
    BY Types
  <1>3. /\ b.pc = "reload" /\ b.op = "refresh" /\ b.sid \in SessionIds
        /\ b.reply = "none" /\ b.listed = {}
    BY <1>2 DEF Reload, CallOK, CallFormed, CallRevokes, Call, Replies
  <1>4. CASE Accepts(call[p]) /\ Succeed(p)
    <2>1. Good(b.sid) => b.good
      BY <1>2, <1>3 DEF CallOK, CallJudges
    <2> QED BY <1>1, <1>2, <1>3, <1>4, <2>1, SucceedKeeps DEF Accepts
  <1>5. CASE Goto(p, "discard")
    <2>1. PICK c : c = [b EXCEPT !.pc = "discard"]
      OBVIOUS
    <2>2. /\ c.pc = "discard" /\ c.op = "refresh" /\ c.sid = b.sid /\ c.reply = "none" /\ c.listed = {}
      BY <1>3, <2>1 DEF Call
    <2>3. CallOK(c)
      BY <1>2, <1>3, <2>2 DEF CallOK, CallFormed, CallRevokes, CallJudges, Requests
    <2> QED BY <1>1, <1>2, <1>5, <2>1, <2>3, GotoKeeps DEF Pcs
  <1> QED BY <1>4, <1>5 DEF Reload

LEMMA DiscardKeeps ==
    ASSUME IInv, NEW p \in Procs, Discard(p)
    PROVE  IInv'
  <1>1. PICK s \in SessionIds : s = call[p].sid
    BY Types DEF Discard, CallOK, CallFormed
  <1>2. World
    BY <1>1, OneEnds DEF Discard, EndIfLive
  <1> QED BY <1>2, RefuseKeeps DEF Discard, Replies

----------------------------------------------------------------------------
(* Requests with an access token. *)
LEMMA GetSessionKeeps ==
    ASSUME IInv, NEW p \in Procs, GetSession(p)
    PROVE  IInv'
  <1>1. World
    BY NothingChanged DEF GetSession
  <1>2. PICK b \in Call : b = call[p] /\ CallOK(b)
    BY Types
  <1>3. /\ b.pc = "get" /\ b.op \in Requests /\ b.sid \in SessionIds /\ Born(b.sid)
        /\ b.reply = "none" /\ b.user = holder[b.sid].user
        /\ b.listed # {} => b.op = "revokeOne"
    BY <1>2, AuthAssumption DEF GetSession, CallOK, CallFormed, CallRevokes, Call, Replies
  <1>4. CASE Refuse(p, "invalid")
    BY <1>1, <1>4, RefuseKeeps DEF Replies
  <1>5. CASE SeenLive(p, "load")
    <2>1. PICK c : c = [b EXCEPT !.pc = "load", !.good = Good(b.sid)]
      OBVIOUS
    <2>2. /\ c \in Call /\ c.pc = "load" /\ c.op = b.op /\ c.sid = b.sid /\ c.user = b.user
          /\ c.reply = "none" /\ c.listed = b.listed /\ c.good = Good(b.sid)
      BY <1>3, <2>1 DEF Call, Pcs, Good
    <2>3. CallOK(c)
      BY <1>2, <1>3, <2>2 DEF CallOK, CallFormed, CallRevokes, CallJudges, Requests
    <2>4. call' = [call EXCEPT ![p] = c]
      BY <1>2, <1>5, <2>1, Types DEF SeenLive
    <2> QED BY <1>1, <2>2, <2>3, <2>4, MoveKeeps
  <1> QED BY <1>4, <1>5 DEF GetSession

(* A request whose account was found good was right to be let through. *)
LEMMA LoadAccountKeeps ==
    ASSUME IInv, NEW p \in Procs, LoadAccount(p)
    PROVE  IInv'
  <1>1. World
    BY NothingChanged DEF LoadAccount
  <1>2. PICK b \in Call : b = call[p] /\ CallOK(b)
    BY Types
  <1>3. /\ b.pc = "load" /\ b.op \in Requests /\ b.sid \in SessionIds /\ Born(b.sid)
        /\ b.reply = "none" /\ b.user = holder[b.sid].user
        /\ b.listed # {} => b.op = "revokeOne"
    BY <1>2, AuthAssumption DEF LoadAccount, CallOK, CallFormed, CallRevokes, Call, Replies
  <1>4. b.user \in Users /\ Known(b.user)
    BY <1>3, Types, Held
  <1>5. Accepts(call[p]) => b.good
    BY <1>2, <1>3 DEF CallOK, CallJudges, Accepts
  <1>6. CASE Refuse(p, "invalid")
    BY <1>1, <1>6, RefuseKeeps DEF Replies
  <1>7. CASE Accepts(call[p]) /\ call[p].op = "me" /\ Succeed(p)
    BY <1>1, <1>2, <1>3, <1>5, <1>7, SucceedKeeps
  <1>8. ASSUME Accepts(call[p]), call[p].op # "me",
               call' = [call EXCEPT ![p] =
                    IF call[p].op = "logout"
                    THEN Revoking([call[p] EXCEPT !.pc = NextStep(call[p].op)], {call[p].sid})
                    ELSE [call[p] EXCEPT !.pc = NextStep(call[p].op)]]
        PROVE  IInv'
    <2>1. CASE b.op = "logout"
      <3>1. PICK c : c = Revoking([b EXCEPT !.pc = NextStep(b.op)], {b.sid})
        OBVIOUS
      <3>2. /\ c \in Call /\ c.pc = "revoke" /\ c.op = b.op /\ c.sid = b.sid /\ c.user = b.user
            /\ c.reply = "none" /\ c.listed = {b.sid} /\ c.todo = {b.sid} /\ c.good = b.good
        BY <1>3, <2>1, <3>1 DEF Call, Pcs, Revoking, NextStep
      <3>3. CallOK(c)
        BY <1>3, <1>5, <1>8, <2>1, <3>2 DEF CallOK, CallFormed, CallRevokes, CallJudges, Requests
      <3> QED BY <1>1, <1>2, <1>8, <2>1, <3>1, <3>2, <3>3, MoveKeeps
    <2>2. CASE b.op \in {"revokeOne", "revokeOthers", "password"}
      <3>1. PICK c : c = [b EXCEPT !.pc = NextStep(b.op)]
        OBVIOUS
      <3>2. /\ b.op = "revokeOne" => NextStep(b.op) = "check"
            /\ b.op = "revokeOthers" => NextStep(b.op) = "list"
            /\ b.op = "password" => NextStep(b.op) = "commit"
        BY DEF NextStep
      <3>3. /\ c \in Call /\ c.pc = NextStep(b.op) /\ c.op = b.op /\ c.sid = b.sid /\ c.user = b.user
            /\ c.reply = "none" /\ c.listed = b.listed /\ c.good = b.good
        BY <1>3, <2>2, <3>1, <3>2 DEF Call, Pcs
      <3>4. CallOK(c)
        BY <1>3, <1>4, <1>5, <1>8, <2>2, <3>2, <3>3
           DEF CallOK, CallFormed, CallRevokes, CallJudges, Requests
      <3> QED BY <1>1, <1>2, <1>8, <2>2, <3>1, <3>3, <3>4, MoveKeeps
    <2> QED BY <1>2, <1>3, <1>8, <2>1, <2>2 DEF Requests
  <1> QED BY <1>6, <1>7, <1>8 DEF LoadAccount

(* A request that is let through sets out to revoke S, sessions of its own user. *)
LEMMA RevokingKeeps ==
    ASSUME IInv, World, NEW p \in Procs, NEW S \in SUBSET SessionIds,
           call[p].pc \in {"check", "list"},
           \A s \in S : Born(s) /\ holder[s].user = call[p].user,
           call[p].op = "revokeOthers" => call[p].sid \notin S,
           call' = [call EXCEPT ![p] = Revoking(call[p], S)]
    PROVE  IInv'
  <1>1. PICK b \in Call : b = call[p] /\ CallOK(b)
    BY Types
  <1>2. PICK c : c = Revoking(b, S)
    OBVIOUS
  <1>3. /\ c \in Call /\ c.pc = "revoke" /\ c.op = b.op /\ c.sid = b.sid /\ c.user = b.user
        /\ c.reply = b.reply /\ c.listed = S /\ c.todo = S /\ c.good = b.good
    BY <1>2 DEF Call, Pcs, Revoking
  <1>4. b.reply = "none"
    BY <1>1 DEF CallOK, CallFormed, Call, Replies
  <1>5. CallOK(c)
    <2>1. CallFormed(c)
      BY <1>1, <1>3, <1>4 DEF CallOK, CallFormed, Requests
    <2>2. CallRevokes(c)
      BY <1>1, <1>3, <1>4 DEF CallRevokes
    <2>3. CallJudges(c)
      BY <1>1, <1>3, <1>4 DEF CallOK, CallFormed, CallJudges, Requests
    <2> QED BY <2>1, <2>2, <2>3 DEF CallOK
  <1> QED BY <1>1, <1>2, <1>3, <1>5, MoveKeeps

LEMMA CheckKeeps ==
    ASSUME IInv, NEW p \in Procs, Check(p)
    PROVE  IInv'
  <1>1. World
    BY NothingChanged DEF Check
  <1>2. call[p] \in Call /\ call[p].pc = "check" /\ call[p].op = "revokeOne"
    BY Types DEF Check, CallOK, CallFormed
  <1>3. CASE call[p].listed \subseteq SessionsOf(call[p].user)
    <2>1. PICK S \in SUBSET SessionIds : S = call[p].listed
      BY <1>2 DEF Call
    <2>2. \A s \in S : Born(s) /\ holder[s].user = call[p].user
      BY <1>3, <2>1 DEF SessionsOf, Live, Born
    <2>3. call' = [call EXCEPT ![p] = Revoking(call[p], S)]
      BY <1>3, <2>1, Types DEF Check
    <2> QED BY <1>1, <1>2, <2>2, <2>3, RevokingKeeps
  <1>4. CASE Refuse(p, "notFound")
    BY <1>1, <1>4, RefuseKeeps DEF Replies
  <1> QED BY <1>3, <1>4 DEF Check

LEMMA ListKeeps ==
    ASSUME IInv, NEW p \in Procs, List(p)
    PROVE  IInv'
  <1>1. World
    BY NothingChanged DEF List
  <1>2. PICK T \in SUBSET SessionsOf(call[p].user) :
            call' = [call EXCEPT ![p] = Revoking(@, T \ Spared(@))]
    BY DEF List
  <1>3. PICK S \in SUBSET SessionIds : S = T \ Spared(call[p])
    BY DEF SessionsOf
  <1>4. \A s \in S : Born(s) /\ holder[s].user = call[p].user
    BY <1>3 DEF SessionsOf, Live, Born
  <1>5. call[p].op = "revokeOthers" => call[p].sid \notin S
    BY <1>3 DEF Spared
  <1>6. call' = [call EXCEPT ![p] = Revoking(call[p], S)]
    BY <1>2, <1>3, Types
  <1> QED BY <1>1, <1>4, <1>5, <1>6, RevokingKeeps DEF List

LEMMA RevokeNextKeeps ==
    ASSUME IInv, NEW p \in Procs, RevokeNext(p)
    PROVE  IInv'
  <1>1. PICK b \in Call : b = call[p] /\ CallOK(b)
    BY Types
  <1>2. /\ b.pc = "revoke" /\ b.reply = "none" /\ b.todo \in SUBSET SessionIds
        /\ b.listed \in SUBSET SessionIds
        /\ b.op \in {"logout", "revokeOne", "revokeOthers", "password", "admin"}
        /\ \A s \in b.listed : Born(s) /\ holder[s].user = b.user
        /\ \A s \in b.listed \ b.todo : phase[s] = "ended"
        /\ b.op = "revokeOthers" => b.sid \notin b.listed
        /\ b.op \in Requests => b.good /\ b.sid \in SessionIds /\ b.user = holder[b.sid].user
        /\ b.sid # None => Born(b.sid)
    BY <1>1 DEF RevokeNext, CallOK, CallFormed, CallRevokes, CallJudges, Call, Replies
  <1>3. CASE call[p].todo = {} /\ UNCHANGED <<phase, token, used>> /\ Succeed(p)
    <2>1. World
      BY <1>3, NothingChanged DEF RevokeNext, sessions
    <2> QED BY <1>1, <1>2, <1>3, <2>1, SucceedKeeps
  <1>4. ASSUME NEW s \in call[p].todo, EndIfLive(s),
               call' = [call EXCEPT ![p].todo = @ \ {s}]
        PROVE  IInv'
    <2>1. s \in SessionIds
      BY <1>1, <1>2, <1>4
    <2>2. World
      BY <1>4, <2>1, OneEnds DEF RevokeNext, EndIfLive
    <2>3. s \in b.listed => phase'[s] = "ended"
      <3>1. CASE Life!End({s})
        BY <2>1, <3>1 DEF Life!End
      <3>2. CASE ~Live(s) /\ UNCHANGED <<phase, token, used>>
        BY <1>2, <2>1, <3>2, Types DEF Live, Born, Typed
      <3> QED BY <1>4, <3>1, <3>2 DEF EndIfLive
    <2>4. PICK c : c = [b EXCEPT !.todo = b.todo \ {s}]
      OBVIOUS
    <2>5. /\ c \in Call /\ c.pc = "revoke" /\ c.op = b.op /\ c.sid = b.sid /\ c.user = b.user
          /\ c.reply = "none" /\ c.listed = b.listed /\ c.todo = b.todo \ {s} /\ c.good = b.good
      BY <1>2, <2>4 DEF Call
    <2>6. CallOK(b)'
      BY <1>1, <2>2, CallKept
    <2>7. CallOK(c)'
      <3>1. CallFormed(c)'
        BY <1>2, <2>5, <2>6 DEF CallOK, CallFormed
      <3>2. CallRevokes(c)'
        BY <1>2, <2>3, <2>5, <2>6 DEF CallOK, CallRevokes
      <3>3. CallJudges(c)'
        BY <1>2, <2>5, <2>6 DEF CallOK, CallJudges
      <3> QED BY <3>1, <3>2, <3>3 DEF CallOK
    <2>8. call' = [call EXCEPT ![p] = c]
      BY <1>1, <1>4, <2>4, Types
    <2> QED BY <2>2, <2>5, <2>7, <2>8, StepKeeps
  <1> QED BY <1>3, <1>4 DEF RevokeNext

LEMMA CommitKeeps ==
    ASSUME IInv, NEW p \in Procs, Commit(p)
    PROVE  IInv'
  <1>1. PICK b \in Call : b = call[p] /\ CallOK(b)
    BY Types
  <1>2. PICK u \in Users : u = b.user
    BY <1>1 DEF Commit, CallOK, CallFormed
  <1>3. /\ b.pc = "commit" /\ b.op \in {"password", "admin"} /\ b.reply = "none" /\ b.listed = {}
    BY <1>1 DEF Commit, CallOK, CallFormed, CallRevokes, Call, Replies
  <1>4. World
    <2>1. \/ account[u].version < MaxVersion /\ Accounts!Change(u)
          \/ UNCHANGED account
      BY <1>1, <1>2 DEF Commit
    <2>2. UNCHANGED <<sessions, given>>
      BY DEF Commit
    <2> QED BY <2>1, <2>2, AccountChanged, NothingChanged
  <1>5. CASE Goto(p, "list")
    <2>1. PICK c : c = [b EXCEPT !.pc = "list"]
      OBVIOUS
    <2>2. /\ c.pc = "list" /\ c.op = b.op /\ c.sid = b.sid /\ c.user = b.user /\ c.good = b.good
          /\ c.reply = "none" /\ c.listed = {}
      BY <1>3, <2>1 DEF Call
    <2>3. CallOK(c)
      BY <1>1, <1>2, <1>3, <2>2 DEF CallOK, CallFormed, CallRevokes, CallJudges, Requests
    <2> QED BY <1>1, <1>4, <1>5, <2>1, <2>3, GotoKeeps DEF Pcs
  <1>6. CASE Succeed(p) /\ call[p].op = "admin"
    BY <1>1, <1>3, <1>4, <1>6, SucceedKeeps DEF Requests
  <1>7. CASE Refuse(p, "invalid")
    BY <1>4, <1>7, RefuseKeeps DEF Replies
  <1> QED BY <1>5, <1>6, <1>7 DEF Commit

----------------------------------------------------------------------------
LEMMA InitHolds == Init => IInv
  <1> SUFFICES ASSUME Init PROVE IInv
    OBVIOUS
  <1>1. TypeOK
    BY IdleFacts DEF Init, Life!Init, Accounts!Init, TypeOK
  <1>2. SessionsHeld
    BY DEF Init, Life!Init, SessionsHeld, Born
  <1>3. ASSUME NEW p \in Procs PROVE CallOK(call[p])
    <2>1. call[p] = Idle
      BY DEF Init
    <2> QED BY <2>1, IdleFacts DEF CallOK, CallFormed, CallRevokes, CallJudges, Requests
  <1> QED BY <1>1, <1>2, <1>3 DEF IInv

LEMMA NextKeeps == IInv /\ [Next]_vars => IInv'
  <1> SUFFICES ASSUME IInv, [Next]_vars PROVE IInv'
    OBVIOUS
  <1>1. CASE UNCHANGED vars
    BY <1>1, NothingChanged, StayKeeps DEF vars
  <1>2. ASSUME NEW p \in Procs, Step(p) PROVE IInv'
    BY <1>2, VerifyKeeps, EvictKeeps, CreateSessionKeeps, RecordLoginKeeps, UndoLoginKeeps,
       RotateFreshKeeps, RotateReuseKeeps, RotateUnknownKeeps, ReloadKeeps, DiscardKeeps,
       GetSessionKeeps, LoadAccountKeeps, CheckKeeps, ListKeeps, RevokeNextKeeps, CommitKeeps
       DEF Step
  <1> QED BY <1>1, <1>2, StartKeeps, FailKeeps, ReturnKeeps, ExpireKeeps, CreateAccountKeeps DEF Next

(* The inductive invariant holds in every reachable state. *)
THEOREM AuthInvariant == Spec => []IInv
  BY InitHolds, NextKeeps, PTL DEF Spec

(* Every variable of the service keeps its type: a request never reaches a call of a
   store with a local it has not set.                                                *)
THEOREM AuthTyped == Spec => []TypeOK
  <1>1. IInv => TypeOK
    BY DEF IInv
  <1> QED BY <1>1, AuthInvariant, PTL

(* What a request was let through to do, or a refresh was granted, was right at the
   instant its session was seen live, for any number of concurrent revocations,
   password changes and disablings (service.go:84-133).                             *)
THEOREM AuthGrantsLinearize == Spec => []GrantsLinearize
  <1>1. IInv => GrantsLinearize
    BY DEF IInv, CallOK, CallJudges, GrantsLinearize, Granted
  <1> QED BY <1>1, AuthInvariant, PTL

(* A request that answers ok has ended every session it set out to revoke, whatever
   the other requests did meanwhile (service.go:135-203).                           *)
THEOREM AuthRevokedIsEnded == Spec => []RevokedIsEnded
  <1>1. IInv => RevokedIsEnded
    BY DEF IInv, CallOK, CallRevokes, RevokedIsEnded
  <1> QED BY <1>1, AuthInvariant, PTL

(* A request revokes sessions of its own user only, and RevokeOtherSessions never the
   one it came with (service.go:165-196).                                            *)
THEOREM AuthOwnSessionsOnly == Spec => []OwnSessionsOnly
  <1>1. IInv => OwnSessionsOnly
    BY DEF IInv, CallOK, CallRevokes, OwnSessionsOnly
  <1> QED BY <1>1, AuthInvariant, PTL

----------------------------------------------------------------------------
(* The service moves the sessions and the accounts only as their promises allow. *)
LEMMA LifeSteps ==
    ASSUME IInv, [Next]_vars
    PROVE  [Life!Next]_<<phase, token, used>>
  <1>1. CASE UNCHANGED <<phase, token, used>>
    BY <1>1
  <1>2. ASSUME NEW S \in SUBSET SessionIds, Life!End(S) PROVE Life!Next
    BY <1>2 DEF Life!Next
  <1>3. ASSUME NEW s \in SessionIds, NEW d \in Digests,
               Life!Open(s, d) \/ Life!Abandon(s, d) \/ Life!Renew(s, d)
        PROVE  Life!Next
    <2>1. d \in Digests \ used
      BY <1>3 DEF Life!Open, Life!Abandon, Life!Renew
    <2> QED BY <1>3, <2>1 DEF Life!Next
  <1>4. ASSUME NEW s \in SessionIds, EndIfLive(s)
        PROVE  Life!Next \/ UNCHANGED <<phase, token, used>>
    BY <1>2, <1>4 DEF EndIfLive
  <1>5. ASSUME NEW p \in Procs,
               \/ Evict(p) \/ CreateSession(p) \/ UndoLogin(p) \/ RotateFresh(p)
               \/ RotateReuse(p) \/ Discard(p) \/ RevokeNext(p)
        PROVE  Life!Next \/ UNCHANGED <<phase, token, used>>
    <2>1. PICK b \in Call : b = call[p] /\ CallOK(b)
      BY Types
    <2>2. /\ b.pc \in {"undo", "rotate", "discard"} => b.sid \in SessionIds
          /\ b.todo \in SUBSET SessionIds
      BY <2>1 DEF CallOK, CallFormed, Call
    <2>3. CASE Evict(p)
      <3>1. PICK s \in SessionIds : Life!End({s})
        BY <2>3 DEF Evict, SessionsOf
      <3> QED BY <1>2, <3>1
    <2>4. CASE CreateSession(p)
      <3>1. PICK s \in SessionIds, d \in Digests : Life!Open(s, d) \/ Life!Abandon(s, d)
        BY <2>4 DEF CreateSession
      <3> QED BY <1>3, <3>1
    <2>5. CASE RotateFresh(p)
      <3>1. PICK s \in SessionIds : s = b.sid
        BY <2>1, <2>2, <2>5 DEF RotateFresh
      <3>2. PICK d \in Digests : Life!Renew(s, d)
        BY <2>1, <2>5, <3>1 DEF RotateFresh
      <3> QED BY <1>3, <3>2
    <2>6. CASE UndoLogin(p) \/ RotateReuse(p) \/ Discard(p)
      <3>1. PICK s \in SessionIds : s = b.sid
        BY <2>1, <2>2, <2>6 DEF UndoLogin, RotateReuse, Discard
      <3>2. EndIfLive(s) \/ UNCHANGED <<phase, token, used>>
        BY <2>1, <2>6, <3>1 DEF UndoLogin, RotateReuse, Discard
      <3> QED BY <1>4, <3>2
    <2>7. CASE RevokeNext(p)
      BY <1>4, <2>1, <2>2, <2>7 DEF RevokeNext
    <2> QED BY <1>5, <2>3, <2>4, <2>5, <2>6, <2>7
  <1>6. ASSUME NEW p \in Procs,
               \/ Start(p) \/ Fail(p) \/ Return(p)
               \/ Verify(p) \/ RecordLogin(p) \/ RotateUnknown(p) \/ Reload(p)
               \/ GetSession(p) \/ LoadAccount(p) \/ Check(p) \/ List(p) \/ Commit(p)
        PROVE  UNCHANGED <<phase, token, used>>
    BY <1>6 DEF Start, StartLogin, StartRefresh, StartRequest, StartRevokeOne, StartAdmin, Begin,
       Fail, Return, Verify, RecordLogin, RotateUnknown, Reload, GetSession, LoadAccount, Check,
       List, Commit, sessions
  <1>7. CASE Expire
    BY <1>2, <1>7 DEF Expire
  <1>8. CASE \E u \in Users : CreateAccount(u)
    BY <1>8 DEF CreateAccount, sessions
  <1>9. CASE UNCHANGED vars
    BY <1>9 DEF vars, sessions
  <1> QED BY <1>5, <1>6, <1>7, <1>8, <1>9 DEF Next, Step

LEMMA AccountSteps ==
    ASSUME IInv, [Next]_vars
    PROVE  [Accounts!Next]_account
  <1>1. ASSUME NEW p \in Procs, Commit(p) PROVE Accounts!Next \/ UNCHANGED account
    <2>1. PICK b \in Call : b = call[p] /\ CallOK(b)
      BY Types
    <2>2. PICK u \in Users : u = b.user
      BY <1>1, <2>1 DEF Commit, CallOK, CallFormed
    <2>3. Accounts!Change(u) \/ UNCHANGED account
      BY <1>1, <2>1, <2>2 DEF Commit
    <2> QED BY <2>3 DEF Accounts!Next
  <1>2. ASSUME NEW u \in Users, CreateAccount(u) PROVE Accounts!Next
    BY <1>2 DEF CreateAccount, Accounts!Next
  <1>3. ASSUME NEW p \in Procs,
               \/ Start(p) \/ Fail(p) \/ Return(p)
               \/ Verify(p) \/ Evict(p) \/ CreateSession(p) \/ RecordLogin(p) \/ UndoLogin(p)
               \/ RotateFresh(p) \/ RotateReuse(p) \/ RotateUnknown(p) \/ Reload(p) \/ Discard(p)
               \/ GetSession(p) \/ LoadAccount(p) \/ Check(p) \/ List(p) \/ RevokeNext(p)
        PROVE  UNCHANGED account
    BY <1>3 DEF Start, StartLogin, StartRefresh, StartRequest, StartRevokeOne, StartAdmin, Begin,
       Fail, Return, Verify, Evict, CreateSession, RecordLogin, UndoLogin, RotateFresh, RotateReuse,
       RotateUnknown, Reload, Discard, GetSession, LoadAccount, Check, List, RevokeNext
  <1>4. CASE Expire
    BY <1>4 DEF Expire
  <1>5. CASE UNCHANGED vars
    BY <1>5 DEF vars
  <1> QED BY <1>1, <1>2, <1>3, <1>4, <1>5 DEF Next, Step

(* Seen from its stores the service is a client that keeps to the rules: its sessions
   behave as SessionLife, which the store implements, and its accounts as AccountVersions,
   which the users table implements.                                                     *)
THEOREM AuthKeepsToTheStores == Spec => Life!Spec /\ Accounts!Spec
  <1>1. Init => Life!Init /\ Accounts!Init
    BY DEF Init
  <1>2. IInv /\ [Next]_vars => [Life!Next]_<<phase, token, used>>
    BY LifeSteps
  <1>3. IInv /\ [Next]_vars => [Accounts!Next]_account
    BY AccountSteps
  <1> QED BY <1>1, <1>2, <1>3, AuthInvariant, PTL DEF Spec, Life!Spec, Life!vars, Accounts!Spec
====
