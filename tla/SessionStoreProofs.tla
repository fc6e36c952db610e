------------------------- MODULE SessionStoreProofs -------------------------
(***************************************************************************)
(* Proofs about SessionStore, for any number of users, sessions, tokens    *)
(* and processes and any token lifetime.                                   *)
(***************************************************************************)
EXTENDS SessionRefinement, TLAPS

(* The locals a call uses at a given command have been set before. *)
Formed(c) ==
    /\ c.op \in {"create", "list", "revokeUser"} => c.user \in Users
    /\ c.op = "create" => c.sid \in SessionIds /\ c.digest \in Digests
    /\ c.op = "rotate" => c.digest \in Digests
    /\ c.pc \in {"smembers", "delIndex", "srem"} => c.op \in {"create", "list", "revokeUser"}
    /\ c.pc = "exec" => c.op = "create"
    /\ c.pc = "eval" => c.op = "rotate"
    /\ c.pc = "del" => c.cur \in SessionIds /\ c.read # None

CallsFormed == \A p \in Procs : Formed(proc[p])

(* A token record names the session its digest was generated for. *)
TokensOwned == \A d \in Digests : refresh[d] # None => owner[d] = refresh[d].sid

(* The current token of a live session is there, active, and dies with it. *)
CurrentActive ==
    \A s \in SessionIds : Live(s) =>
        refresh[session[s].digest] =
            [sid |-> s, user |-> session[s].user, state |-> "active", ttl |-> session[s].ttl]

(* An active token of a live session is its current one. *)
ActiveCurrent ==
    \A d \in Digests : Active(d) /\ Live(refresh[d].sid) => session[refresh[d].sid].digest = d

(* The session a login is about to create, and its token, are nobody else's. *)
PendingFresh ==
    \A p \in Procs : Creating(p) =>
        /\ ~Live(proc[p].sid)
        /\ refresh[proc[p].digest] = None
        /\ owner[proc[p].digest] = proc[p].sid
        /\ \A d \in Digests : owner[d] = proc[p].sid => d = proc[p].digest

PendingDistinct ==
    \A p, q \in Procs : Creating(p) /\ Creating(q) /\ proc[p].sid = proc[q].sid => p = q

(* The token a revocation is about to delete belongs to the session it deletes. *)
RevokesOwn == \A p \in Procs : proc[p].pc = "del" => owner[proc[p].read.digest] = proc[p].cur

IInv ==
    /\ TypeOK
    /\ CallsFormed
    /\ TokensOwned
    /\ CurrentActive
    /\ ActiveCurrent
    /\ PendingFresh
    /\ PendingDistinct
    /\ RevokesOwn
----------------------------------------------------------------------------
(* A call is well typed and keeps what it is about when it moves on. *)
LEMMA AfterIdsMoves ==
    ASSUME NEW c \in Proc
    PROVE  /\ AfterIds(c) \in Proc
           /\ AfterIds(c).op = c.op /\ AfterIds(c).user = c.user
           /\ AfterIds(c).sid = c.sid /\ AfterIds(c).digest = c.digest
           /\ AfterIds(c).cur = c.cur /\ AfterIds(c).read = c.read
           /\ AfterIds(c).pc \in {"get", "delIndex", "srem", "done"}
           /\ AfterIds(c).pc = "delIndex" => c.op \in {"create", "revokeUser"}
           /\ AfterIds(c).pc = "srem" => c.op = "list"
  <1>1. CASE c.todo # {}
    BY <1>1 DEF AfterIds, Proc, Pcs, Replies
  <1>2. CASE c.todo = {} /\ c.op \in {"create", "revokeUser"}
    BY <1>2 DEF AfterIds, Proc, Pcs, Replies
  <1>3. CASE c.todo = {} /\ c.op = "list" /\ c.stale # {}
    BY <1>3 DEF AfterIds, Proc, Pcs, Replies
  <1>4. CASE c.todo = {} /\ c.op \notin {"create", "revokeUser"} /\ ~(c.op = "list" /\ c.stale # {})
    BY <1>4 DEF AfterIds, Proc, Pcs, Replies
  <1> QED BY <1>1, <1>2, <1>3, <1>4

(* What the invariant says of a live session and of its current token. *)
LEMMA LiveOwns ==
    ASSUME IInv, NEW s \in SessionIds, Live(s)
    PROVE  /\ session[s] \in SessionRec /\ session[s].digest \in Digests /\ session[s].user \in Users
           /\ Active(session[s].digest)
           /\ refresh[session[s].digest].sid = s
           /\ owner[session[s].digest] = s
  <1>1. session[s] \in SessionRec
    BY DEF IInv, TypeOK, Live
  <1>2. refresh[session[s].digest] =
            [sid |-> s, user |-> session[s].user, state |-> "active", ttl |-> session[s].ttl]
    BY DEF IInv, CurrentActive
  <1>3. refresh[session[s].digest] \in RefreshRec
    BY <1>1, <1>2 DEF SessionRec, RefreshRec
  <1>4. session[s].digest \in Digests /\ session[s].user \in Users
    BY <1>1 DEF SessionRec
  <1>5. refresh[session[s].digest] # None
    BY <1>3, ConstantsAssumption
  <1> QED BY <1>1, <1>2, <1>4, <1>5 DEF IInv, TokensOwned, Active

(* Process p's call becomes c: well typed and formed, revoking its own session, and
   not the beginning of a creation.                                                *)
Begins(c) == c.op = "create" /\ c.pc \in {"smembers", "get", "del", "delIndex", "exec"}

Continues(p, c) ==
    /\ c \in Proc /\ Formed(c)
    /\ proc' = [proc EXCEPT ![p] = c]
    /\ c.pc = "del" => owner[c.read.digest] = c.cur
    /\ Begins(c) => Creating(p) /\ c.sid = proc[p].sid /\ c.digest = proc[p].digest

(* The facts about proc survive such a step if no session and no token appears and
   no owner changes.                                                               *)
LEMMA CallMoves ==
    ASSUME IInv, NEW p \in Procs, NEW c, Continues(p, c),
           owner' = owner,
           \A s \in SessionIds : session'[s] # None => Live(s),
           \A d \in Digests : refresh'[d] # None => refresh[d] # None
    PROVE  /\ proc' \in [Procs -> Proc]
           /\ CallsFormed' /\ PendingFresh' /\ PendingDistinct' /\ RevokesOwn'
  <1>1. proc' \in [Procs -> Proc] /\ \A q \in Procs : proc'[q] = IF q = p THEN c ELSE proc[q]
    BY DEF IInv, TypeOK, Continues
  <1>2. CallsFormed'
    BY <1>1 DEF IInv, CallsFormed, Formed, Continues
  <1>3. \A q \in Procs : Creating(q)' =>
            Creating(q) /\ proc'[q].sid = proc[q].sid /\ proc'[q].digest = proc[q].digest
    BY <1>1 DEF Creating, Begins, Continues
  <1>4. \A q \in Procs : Creating(q) => proc[q].sid \in SessionIds /\ proc[q].digest \in Digests
    BY DEF IInv, CallsFormed, Formed, Creating
  <1>5. PendingFresh'
    BY <1>3, <1>4 DEF IInv, PendingFresh, Live
  <1>6. PendingDistinct'
    BY <1>3 DEF IInv, PendingDistinct
  <1>7. RevokesOwn'
    BY <1>1 DEF IInv, RevokesOwn, Continues
  <1> QED BY <1>1, <1>2, <1>5, <1>6, <1>7

(* The steps that change no session, no token and no owner keep the invariant. *)
LEMMA KeysStay ==
    ASSUME IInv, NEW p \in Procs, NEW c, Continues(p, c),
           session' = session, refresh' = refresh, owner' = owner,
           index' \in [Users -> IndexRec],
           atStart' \in [Procs -> SUBSET SessionIds]
    PROVE  IInv'
  <1>1. /\ proc' \in [Procs -> Proc]
        /\ CallsFormed' /\ PendingFresh' /\ PendingDistinct' /\ RevokesOwn'
    BY CallMoves DEF Live
  <1>2. TypeOK'
    BY <1>1 DEF IInv, TypeOK
  <1>3. TokensOwned' /\ CurrentActive' /\ ActiveCurrent'
    BY DEF IInv, TokensOwned, CurrentActive, ActiveCurrent, Live, Active
  <1> QED BY <1>1, <1>2, <1>3 DEF IInv

(* EXPIRE cuts no more than a fraction of a second off the lifetime. *)
LEMMA Lifetimes ==
    /\ TTL \in Nat /\ TTL > 0 /\ CutOff \in Nat /\ CutOff < Second
    /\ IndexTTL \in Nat /\ IndexTTL > 0 /\ TTL <= IndexTTL + CutOff
  <1>1. TTL \in Nat /\ TTL > 0 /\ Second \in Nat /\ Second > 0
    BY ConstantsAssumption
  <1>2. TTL % Second \in 0..(Second - 1)
    BY <1>1
  <1>3. CASE TTL < Second
    BY <1>1, <1>3 DEF CutOff, IndexTTL
  <1>4. CASE ~(TTL < Second)
    <2> DEFINE f == TTL % Second
    <2>1. CutOff = f /\ IndexTTL = TTL - f
      BY <1>4 DEF CutOff, IndexTTL
    <2>2. f \in 0..(Second - 1)
      BY <1>2
    <2> HIDE DEF f
    <2> QED BY <1>1, <1>4, <2>1, <2>2
  <1> QED BY <1>3, <1>4

(* Indexes stay well typed under everything the actions do to them. *)
LEMMA IndexTypes ==
    /\ NoIndex \in IndexRec
    /\ \A x \in IndexRec, S \in SUBSET SessionIds :
           Without(x, S) \in IndexRec /\ RenewIndex(x) \in IndexRec /\ AgedIndex(x) \in IndexRec
  BY Lifetimes DEF NoIndex, IndexRec, Without, RenewIndex, AgedIndex

LEMMA IdleIsACall ==
    Idle \in Proc /\ Formed(Idle) /\ Idle.op = "none" /\ Idle.pc = "idle"
  BY DEF Idle, Proc, Formed, Ops, Pcs, Replies

LEMMA StartKeeps ==
    ASSUME IInv, NEW p \in Procs, Start(p) PROVE IInv'
  <1>0. TypeOK BY DEF IInv
  <1>1. ASSUME NEW u \in Users, StartCreate(p, u) PROVE IInv'
    <2>1. PICK s \in SessionIds \ Issued, d \in Digests \ Minted :
              /\ proc' = [proc EXCEPT ![p] =
                    [Idle EXCEPT !.op = "create", !.user = u, !.sid = s, !.digest = d,
                                 !.pc = IF u \in SingleUsers THEN "smembers" ELSE "exec"]]
              /\ owner' = [owner EXCEPT ![d] = s]
      BY <1>1 DEF StartCreate
    <2> DEFINE c == [Idle EXCEPT !.op = "create", !.user = u, !.sid = s, !.digest = d,
                                 !.pc = IF u \in SingleUsers THEN "smembers" ELSE "exec"]
    <2>2. c \in Proc /\ Formed(c) /\ c.pc \in {"smembers", "exec"} /\ c.sid = s /\ c.digest = d
      BY DEF Idle, Proc, Formed, Ops, Pcs, Replies
    <2>0. proc' = [proc EXCEPT ![p] = c]
      BY <2>1
    <2> HIDE DEF c
    <2>3. \A q \in Procs : proc'[q] = IF q = p THEN c ELSE proc[q]
      BY <2>0, <1>0 DEF TypeOK
    <2>4. \A x \in Digests : owner'[x] = IF x = d THEN s ELSE owner[x]
      BY <2>1, <1>0 DEF TypeOK
    <2>5. /\ UNCHANGED <<session, refresh, index, atStart>>
          /\ proc[p].pc = "idle"
      BY <1>1 DEF StartCreate, keys
    <2>6. TypeOK'
      BY <2>1, <2>2, <2>0, <2>5, <1>0 DEF TypeOK
    <2>7. CallsFormed'
      BY <2>2, <2>3 DEF IInv, CallsFormed, Formed
    <2>8. owner[d] = None /\ refresh[d] = None /\ \A x \in Digests : owner[x] # s
      BY <1>0, ConstantsAssumption DEF IInv, TokensOwned, Minted, Issued, TypeOK, RefreshRec
    <2>9. ~Live(s)
      BY <2>8, LiveOwns
    <2>10. TokensOwned'
      BY <2>4, <2>5, <2>8 DEF IInv, TokensOwned
    <2>11. CurrentActive' /\ ActiveCurrent'
      BY <2>5 DEF IInv, CurrentActive, ActiveCurrent, Live, Active
    <2>12. \A q \in Procs : Creating(q)' =>
              \/ q = p
              \/ q # p /\ Creating(q) /\ proc'[q] = proc[q] /\ proc[q].digest # d /\ proc[q].sid # s
                 /\ proc[q].digest \in Digests /\ proc[q].sid \in SessionIds
      <3>1. \A q \in Procs : Creating(q) => proc[q].digest \in Digests /\ proc[q].sid \in SessionIds
        BY DEF IInv, CallsFormed, Formed, Creating
      <3>2. \A q \in Procs : Creating(q) => proc[q].digest # d /\ proc[q].sid # s
        BY <2>8, <3>1, ConstantsAssumption DEF IInv, PendingFresh
      <3> QED BY <2>3, <3>1, <3>2 DEF Creating
    <2>13. PendingFresh'
      BY <2>2, <2>3, <2>4, <2>5, <2>8, <2>9, <2>12 DEF IInv, PendingFresh, Live
    <2>14. PendingDistinct'
      BY <2>2, <2>3, <2>12 DEF IInv, PendingDistinct
    <2>15. RevokesOwn'
      <3>1. \A q \in Procs : proc[q].pc = "del" => proc[q].read.digest # d
        BY <2>8, ConstantsAssumption DEF IInv, RevokesOwn, CallsFormed, Formed
      <3>2. \A q \in Procs : proc[q].pc = "del" => proc[q].read.digest \in Digests
        BY <1>0 DEF IInv, CallsFormed, Formed, TypeOK, Proc
      <3> QED BY <2>2, <2>3, <2>4, <3>1, <3>2 DEF IInv, RevokesOwn
    <2> QED BY <2>6, <2>7, <2>10, <2>11, <2>13, <2>14, <2>15 DEF IInv
  <1>2. ASSUME NEW u \in Users, NEW op \in {"list", "revokeUser"}, StartUserCall(p, op, u) PROVE IInv'
    <2> DEFINE c == [Idle EXCEPT !.op = op, !.user = u, !.pc = "smembers"]
    <2>1. c \in Proc /\ Formed(c) /\ c.pc = "smembers" /\ c.op # "create"
      BY DEF Idle, Proc, Formed, Ops, Pcs, Replies
    <2>2. /\ proc' = [proc EXCEPT ![p] = c]
          /\ UNCHANGED <<session, refresh, index, owner>>
          /\ atStart' = [atStart EXCEPT ![p] = LiveSessions(u)]
      BY <1>2 DEF StartUserCall, keys
    <2>3. atStart' \in [Procs -> SUBSET SessionIds] /\ index' \in [Users -> IndexRec]
      BY <2>2, <1>0 DEF TypeOK, LiveSessions
    <2> HIDE DEF c
    <2>4. Continues(p, c)
      BY <2>1, <2>2 DEF Continues, Begins
    <2> QED BY <2>2, <2>3, <2>4, KeysStay
  <1>3. ASSUME NEW s \in SessionIds, StartRevoke(p, s) PROVE IInv'
    <2> DEFINE c == [Idle EXCEPT !.op = "revoke", !.sid = s, !.todo = {s}, !.pc = "get"]
    <2>1. c \in Proc /\ Formed(c) /\ c.pc = "get" /\ c.op = "revoke"
      BY DEF Idle, Proc, Formed, Ops, Pcs, Replies
    <2>2. /\ proc' = [proc EXCEPT ![p] = c]
          /\ UNCHANGED <<session, refresh, index, owner, atStart>>
      BY <1>3 DEF StartRevoke, keys
    <2> HIDE DEF c
    <2>3. Continues(p, c)
      BY <2>1, <2>2 DEF Continues, Begins
    <2> QED BY <2>2, <2>3, <1>0, KeysStay DEF TypeOK
  <1>4. ASSUME NEW d \in Digests, StartRotate(p, d) PROVE IInv'
    <2> DEFINE c == [Idle EXCEPT !.op = "rotate", !.digest = d, !.pc = "eval"]
    <2>1. c \in Proc /\ Formed(c) /\ c.pc = "eval" /\ c.op = "rotate"
      BY DEF Idle, Proc, Formed, Ops, Pcs, Replies
    <2>2. /\ proc' = [proc EXCEPT ![p] = c]
          /\ UNCHANGED <<session, refresh, index, owner, atStart>>
      BY <1>4 DEF StartRotate, keys
    <2> HIDE DEF c
    <2>3. Continues(p, c)
      BY <2>1, <2>2 DEF Continues, Begins
    <2> QED BY <2>2, <2>3, <1>0, KeysStay DEF TypeOK
  <1> QED BY <1>1, <1>2, <1>3, <1>4 DEF Start, StartList, StartRevokeUser

(* The call process p is in is well typed and formed, and may stay as it is. *)
LEMMA CallFacts ==
    ASSUME IInv, NEW p \in Procs
    PROVE  /\ proc[p] \in Proc /\ Formed(proc[p])
           /\ proc' = proc => Continues(p, proc[p])
  BY DEF IInv, TypeOK, CallsFormed, RevokesOwn, Creating, Begins, Continues

(* A reply ends the call. *)
LEMMA ReplyEnds ==
    ASSUME IInv, NEW p \in Procs, NEW r \in Replies, Reply(p, r)
    PROVE  \E c : Continues(p, c) /\ c.pc = "done"
  <1> DEFINE c == [proc[p] EXCEPT !.pc = "done", !.reply = r]
  <1>1. proc[p] \in Proc /\ Formed(proc[p])
    BY CallFacts
  <1>2. c \in Proc /\ c.pc = "done"
    BY <1>1 DEF Proc, Pcs
  <1>3. Formed(c)
    BY <1>1 DEF Formed, Proc
  <1>4. proc' = [proc EXCEPT ![p] = c]
    BY <1>1 DEF Reply, IInv, TypeOK
  <1> HIDE DEF c
  <1>5. Continues(p, c)
    BY <1>2, <1>3, <1>4 DEF Continues, Begins
  <1> QED BY <1>2, <1>5

(* Looking at one id, or at none, leaves the rest of the loop to do. *)
LEMMA LoopContinues ==
    ASSUME IInv, NEW p \in Procs, NEW b \in Proc,
           proc[p].pc \in {"smembers", "get", "del"},
           b.op = proc[p].op, b.user = proc[p].user,
           b.sid = proc[p].sid, b.digest = proc[p].digest,
           proc' = [proc EXCEPT ![p] = AfterIds(b)]
    PROVE  Continues(p, AfterIds(b))
  <1> DEFINE c == AfterIds(b)
  <1>1. /\ c \in Proc /\ c.op = proc[p].op /\ c.user = proc[p].user
        /\ c.sid = proc[p].sid /\ c.digest = proc[p].digest
        /\ c.pc \in {"get", "delIndex", "srem", "done"}
        /\ c.pc = "delIndex" => c.op \in {"create", "revokeUser"}
        /\ c.pc = "srem" => c.op = "list"
    BY AfterIdsMoves
  <1>2. proc' = [proc EXCEPT ![p] = c]
    OBVIOUS
  <1> HIDE DEF c
  <1>3. Formed(c)
    BY <1>1, CallFacts DEF Formed
  <1>4. Continues(p, c)
    BY <1>1, <1>2, <1>3 DEF Continues, Begins, Creating
  <1> QED BY <1>4 DEF c

(* What a look at an id does to the call. *)
LEMMA Looks ==
    ASSUME NEW c \in Proc, NEW s \in SessionIds
    PROVE  /\ Looked(c, s) \in Proc /\ Stale(c, s) \in Proc
           /\ \A b \in {Looked(c, s), Stale(c, s)} :
                  b.op = c.op /\ b.user = c.user /\ b.sid = c.sid /\ b.digest = c.digest
  BY DEF Looked, Stale, Proc

LEMMA Finds ==
    ASSUME NEW c \in Proc, NEW s \in SessionIds, NEW rec \in SessionRec
    PROVE  LET f == Found(c, s, rec)
           IN  /\ f \in Proc
               /\ f.op = c.op /\ f.user = c.user /\ f.sid = c.sid /\ f.digest = c.digest
               /\ f.pc = "del" /\ f.cur = s
               /\ f.read # None /\ f.read.digest = rec.digest /\ f.read.user = rec.user
  <1> DEFINE r == [user |-> rec.user, digest |-> rec.digest]
  <1>1. r \in [user: Users, digest: Digests] /\ r.digest = rec.digest /\ r.user = rec.user
    BY DEF SessionRec
  <1>2. r # None
    BY <1>1, ConstantsAssumption
  <1> DEFINE f == [c EXCEPT !.todo = @ \ {s}, !.pc = "del", !.cur = s, !.read = r]
  <1>3. f = Found(c, s, rec)
    BY DEF Found
  <1> HIDE DEF r
  <1>4. /\ f \in Proc /\ f.op = c.op /\ f.user = c.user /\ f.sid = c.sid /\ f.digest = c.digest
        /\ f.pc = "del" /\ f.cur = s /\ f.read = r
    BY <1>1 DEF Proc, Pcs
  <1> HIDE DEF f
  <1> QED BY <1>1, <1>2, <1>3, <1>4

(* The commands that write no session and no token. *)
LEMMA ReadsKeep ==
    ASSUME IInv, NEW p \in Procs, SMembers(p) \/ ListGet(p) \/ RevokeGet(p)
    PROVE  IInv'
  <1>0. TypeOK /\ proc[p] \in Proc /\ Formed(proc[p])
    BY CallFacts DEF IInv
  <1>1. /\ UNCHANGED <<session, refresh, owner>>
        /\ index' \in [Users -> IndexRec] /\ atStart' \in [Procs -> SUBSET SessionIds]
    BY <1>0 DEF SMembers, ListGet, RevokeGet, keys, TypeOK
  <1>2. \E c : Continues(p, c)
    <2>1. CASE SMembers(p)
      <3> DEFINE found == index[proc[p].user].members
                 b == [proc[p] EXCEPT !.ids = found, !.todo = found]
      <3>1. proc[p].pc = "smembers" /\ proc[p].user \in Users /\ proc' = [proc EXCEPT ![p] = AfterIds(b)]
        BY <1>0, <2>1 DEF SMembers, Formed, TypeOK
      <3>2. b \in Proc /\ b.op = proc[p].op /\ b.user = proc[p].user /\ b.sid = proc[p].sid
                      /\ b.digest = proc[p].digest
        BY <1>0, <3>1 DEF TypeOK, IndexRec, Proc
      <3> HIDE DEF b
      <3> QED BY <3>1, <3>2, LoopContinues
    <2>2. CASE ListGet(p)
      <3>1. PICK s \in proc[p].todo :
                \/ proc' = [proc EXCEPT ![p] = AfterIds(Looked(proc[p], s))]
                \/ proc' = [proc EXCEPT ![p] = AfterIds(Stale(proc[p], s))]
        BY <2>2 DEF ListGet
      <3>2. s \in SessionIds /\ proc[p].pc = "get"
        BY <1>0, <2>2 DEF Proc, ListGet
      <3>3. PICK b \in {Looked(proc[p], s), Stale(proc[p], s)} : proc' = [proc EXCEPT ![p] = AfterIds(b)]
        BY <3>1
      <3>4. b \in Proc /\ b.op = proc[p].op /\ b.user = proc[p].user /\ b.sid = proc[p].sid
                      /\ b.digest = proc[p].digest
        BY <1>0, <3>2, Looks
      <3> QED BY <3>2, <3>3, <3>4, LoopContinues
    <2>3. CASE RevokeGet(p)
      <3>1. PICK s \in proc[p].todo :
                IF Live(s)
                THEN proc' = [proc EXCEPT ![p] = Found(proc[p], s, session[s])]
                ELSE proc' = [proc EXCEPT ![p] = AfterIds(Looked(proc[p], s))]
        BY <2>3 DEF RevokeGet
      <3>2. s \in SessionIds /\ proc[p].pc = "get"
        BY <1>0, <2>3 DEF Proc, RevokeGet
      <3>3. CASE Live(s)
        <4> DEFINE f == Found(proc[p], s, session[s])
        <4>1. /\ f \in Proc /\ f.op = proc[p].op /\ f.user = proc[p].user
              /\ f.sid = proc[p].sid /\ f.digest = proc[p].digest
              /\ f.pc = "del" /\ f.cur = s /\ f.read # None /\ f.read.digest = session[s].digest
          BY <1>0, <3>2, <3>3, LiveOwns, Finds
        <4>2. proc' = [proc EXCEPT ![p] = f]
          BY <3>1, <3>3
        <4> HIDE DEF f
        <4>3. owner[f.read.digest] = f.cur
          BY <3>2, <3>3, <4>1, LiveOwns
        <4>4. Formed(f)
          BY <1>0, <3>2, <4>1 DEF Formed
        <4>5. Continues(p, f)
          BY <3>2, <4>1, <4>2, <4>3, <4>4 DEF Continues, Begins, Creating
        <4> QED BY <4>5
      <3>4. CASE ~Live(s)
        <4>1. proc' = [proc EXCEPT ![p] = AfterIds(Looked(proc[p], s))]
          BY <3>1, <3>4
        <4> QED BY <1>0, <3>2, <4>1, Looks, LoopContinues
      <3> QED BY <3>3, <3>4
    <2> QED BY <2>1, <2>2, <2>3
  <1> QED BY <1>1, <1>2, KeysStay

LEMMA IndexWritesKeep ==
    ASSUME IInv, NEW p \in Procs, DelIndex(p) \/ SRem(p)
    PROVE  IInv'
  <1>0. TypeOK /\ proc[p] \in Proc /\ Formed(proc[p])
    BY CallFacts DEF IInv
  <1>1. UNCHANGED <<session, refresh, owner, atStart>>
    BY DEF DelIndex, SRem
  <1>2. index' \in [Users -> IndexRec]
    <2>1. CASE DelIndex(p)
      BY <1>0, <2>1, IndexTypes DEF DelIndex, TypeOK
    <2>2. CASE SRem(p)
      <3>1. proc[p].stale \in SUBSET SessionIds /\ proc[p].user \in Users
        BY <1>0, <2>2 DEF SRem, Proc, Formed
      <3> QED BY <1>0, <2>2, <3>1, IndexTypes DEF SRem, TypeOK
    <2> QED BY <2>1, <2>2
  <1>3. \E c : Continues(p, c)
    <2>1. CASE proc' = proc
      BY <2>1, CallFacts
    <2>2. CASE proc' = [proc EXCEPT ![p].pc = "exec"] /\ DelIndex(p) /\ proc[p].op = "create"
      <3> DEFINE c == [proc[p] EXCEPT !.pc = "exec"]
      <3>1. proc' = [proc EXCEPT ![p] = c]
        BY <1>0, <2>2 DEF TypeOK
      <3>2. c \in Proc /\ c.pc = "exec" /\ c.op = "create" /\ c.user = proc[p].user
               /\ c.sid = proc[p].sid /\ c.digest = proc[p].digest
        BY <1>0, <2>2 DEF Proc, Pcs
      <3> HIDE DEF c
      <3>3. Formed(c) /\ Creating(p)
        BY <1>0, <2>2, <3>2 DEF Formed, Creating, DelIndex
      <3>4. Continues(p, c)
        BY <3>1, <3>2, <3>3 DEF Continues
      <3> QED BY <3>4
    <2>3. CASE Reply(p, "ok")
      BY <2>3, ReplyEnds DEF Replies
    <2> QED BY <2>1, <2>2, <2>3 DEF DelIndex, SRem
  <1> QED BY <1>0, <1>1, <1>2, <1>3, KeysStay DEF TypeOK

(* Deleting keys keeps the invariant, if a current token goes only with its session. *)
LEMMA KeysGo ==
    ASSUME IInv, NEW p \in Procs, NEW c, Continues(p, c),
           NEW S \in SUBSET SessionIds, NEW D \in SUBSET Digests,
           session' = [s \in SessionIds |-> IF s \in S THEN None ELSE session[s]],
           refresh' = [d \in Digests |-> IF d \in D THEN None ELSE refresh[d]],
           \A d \in D : refresh[d] # None => refresh[d].sid \in S,
           owner' = owner, atStart' = atStart,
           index' \in [Users -> IndexRec]
    PROVE  IInv'
  <1>1. /\ \A s \in SessionIds : session'[s] = IF s \in S THEN None ELSE session[s]
        /\ \A d \in Digests : refresh'[d] = IF d \in D THEN None ELSE refresh[d]
    OBVIOUS
  <1>2. TypeOK'
    <2>1. proc' \in [Procs -> Proc]
      BY <1>1, CallMoves DEF Live
    <2> QED BY <2>1 DEF IInv, TypeOK
  <1>3. CallsFormed' /\ PendingFresh' /\ PendingDistinct' /\ RevokesOwn'
    BY <1>1, CallMoves DEF Live
  <1>4. TokensOwned'
    BY <1>1 DEF IInv, TokensOwned
  <1>5. CurrentActive'
    <2> SUFFICES ASSUME NEW s \in SessionIds, Live(s)'
                 PROVE  (refresh[session[s].digest] =
                           [sid |-> s, user |-> session[s].user, state |-> "active",
                            ttl |-> session[s].ttl])'
      BY DEF CurrentActive
    <2>1. s \notin S /\ Live(s) /\ session'[s] = session[s]
      BY <1>1 DEF Live
    <2>2. session[s].digest \in Digests /\ session[s].digest \notin D
      BY <2>1, LiveOwns DEF Active
    <2>3. refresh'[session[s].digest] = refresh[session[s].digest]
      BY <1>1, <2>2
    <2> QED BY <2>1, <2>3 DEF IInv, CurrentActive
  <1>6. ActiveCurrent'
    <2> SUFFICES ASSUME NEW d \in Digests, Active(d)', Live(refresh[d].sid)'
                 PROVE  (session[refresh[d].sid].digest = d)'
      BY DEF ActiveCurrent
    <2>1. refresh'[d] = refresh[d] /\ Active(d) /\ refresh[d] \in RefreshRec
      BY <1>1 DEF Active, IInv, TypeOK
    <2>2. refresh[d].sid \in SessionIds
      BY <2>1 DEF RefreshRec
    <2>3. Live(refresh[d].sid) /\ session'[refresh[d].sid] = session[refresh[d].sid]
      BY <1>1, <2>1, <2>2 DEF Live
    <2> QED BY <2>1, <2>3 DEF IInv, ActiveCurrent
  <1> QED BY <1>2, <1>3, <1>4, <1>5, <1>6 DEF IInv

LEMMA RevokeTxStep ==
    ASSUME IInv, NEW p \in Procs, RevokeTx(p) PROVE IInv'
  <1>0. TypeOK /\ proc[p] \in Proc /\ Formed(proc[p]) /\ proc[p].pc = "del"
    BY CallFacts DEF IInv, RevokeTx
  <1> DEFINE s == proc[p].cur
             r == proc[p].read
             b == [proc[p] EXCEPT !.cur = None, !.read = None]
             S == {s}
             D == {r.digest}
  <1>1. s \in SessionIds /\ r.digest \in Digests /\ r.user \in Users /\ owner[r.digest] = s
    BY <1>0 DEF Formed, Proc, IInv, RevokesOwn
  <1>2. /\ session' = [session EXCEPT ![s] = None]
        /\ refresh' = [refresh EXCEPT ![r.digest] = None]
        /\ index' = [index EXCEPT ![r.user] = Without(@, {s})]
        /\ proc' = [proc EXCEPT ![p] = AfterIds(b)]
        /\ owner' = owner /\ atStart' = atStart
    BY DEF RevokeTx
  <1>3. b \in Proc /\ b.op = proc[p].op /\ b.user = proc[p].user /\ b.sid = proc[p].sid
                  /\ b.digest = proc[p].digest
    BY <1>0 DEF Proc
  <1>4. Continues(p, AfterIds(b))
    <2> HIDE DEF b
    <2> QED BY <1>0, <1>2, <1>3, LoopContinues
  <1>5. index' \in [Users -> IndexRec]
    BY <1>0, <1>1, <1>2, IndexTypes DEF TypeOK
  <1>6. /\ session' = [x \in SessionIds |-> IF x \in S THEN None ELSE session[x]]
        /\ refresh' = [d \in Digests |-> IF d \in D THEN None ELSE refresh[d]]
        /\ S \in SUBSET SessionIds /\ D \in SUBSET Digests
    BY <1>0, <1>1, <1>2 DEF TypeOK
  <1>7. \A d \in D : refresh[d] # None => refresh[d].sid \in S
    BY <1>1 DEF IInv, TokensOwned
  <1> HIDE DEF b, s, r, S, D
  <1> QED BY <1>1, <1>2, <1>4, <1>5, <1>6, <1>7, KeysGo

LEMMA RotateReuseStep ==
    ASSUME IInv, NEW p \in Procs, RotateReuse(p) PROVE IInv'
  <1>0. TypeOK /\ proc[p] \in Proc /\ Formed(proc[p])
    BY CallFacts DEF IInv
  <1> DEFINE t == Token(p)
  <1>1. t \in RefreshRec
    BY <1>0 DEF RotateReuse, Token, TypeOK, Formed
  <1>2. t.sid \in SessionIds /\ t.user \in Users
    BY <1>1 DEF RefreshRec
  <1>3. \E c : Continues(p, c)
    BY CallFacts, ReplyEnds DEF RotateReuse, Answer, Replies
  <1>4. /\ refresh' = IF Live(t.sid) THEN [refresh EXCEPT ![session[t.sid].digest] = None] ELSE refresh
        /\ session' = [session EXCEPT ![t.sid] = None]
        /\ index' = [index EXCEPT ![t.user] = Without(@, {t.sid})]
        /\ owner' = owner /\ atStart' = atStart
    BY DEF RotateReuse
  <1> DEFINE D == IF Live(t.sid) THEN {session[t.sid].digest} ELSE {}
             S == {t.sid}
  <1>5. S \in SUBSET SessionIds /\ D \in SUBSET Digests /\ \A d \in D : refresh[d].sid \in S
    BY <1>2, LiveOwns
  <1>6. /\ session' = [x \in SessionIds |-> IF x \in S THEN None ELSE session[x]]
        /\ refresh' = [d \in Digests |-> IF d \in D THEN None ELSE refresh[d]]
    BY <1>0, <1>4 DEF TypeOK
  <1>7. index' \in [Users -> IndexRec]
    BY <1>0, <1>2, <1>4, IndexTypes DEF TypeOK
  <1> HIDE DEF D, S, t
  <1> QED BY <1>2, <1>3, <1>4, <1>5, <1>6, <1>7, KeysGo

LEMMA CreateTxStep ==
    ASSUME IInv, NEW p \in Procs, CreateTx(p) PROVE IInv'
  <1>0. TypeOK /\ proc[p] \in Proc /\ Formed(proc[p]) /\ proc[p].pc = "exec" /\ Creating(p)
    BY CallFacts DEF IInv, CreateTx, Formed, Creating
  <1> DEFINE s == proc[p].sid
             d == proc[p].digest
             u == proc[p].user
             S == [user |-> u, digest |-> d, ttl |-> TTL]
             R == [sid |-> s, user |-> u, state |-> "active", ttl |-> TTL]
  <1>1. s \in SessionIds /\ d \in Digests /\ u \in Users
    BY <1>0 DEF Formed
  <1>2. /\ ~Live(s) /\ refresh[d] = None /\ owner[d] = s
        /\ \A x \in Digests : owner[x] = s => x = d
    BY <1>0 DEF IInv, PendingFresh
  <1>3. /\ session' = [session EXCEPT ![s] = S]
        /\ refresh' = [refresh EXCEPT ![d] = R]
        /\ index' = [index EXCEPT ![u] = [members |-> @.members \cup {s}, ttl |-> IndexTTL]]
        /\ owner' = owner /\ atStart' = atStart
    BY DEF CreateTx, Opened, Granted
  <1>4. S \in SessionRec /\ R \in RefreshRec /\ S # None /\ R # None
    BY <1>1, ConstantsAssumption DEF SessionRec, RefreshRec
  <1>5. index' \in [Users -> IndexRec]
    BY <1>0, <1>1, <1>3, Lifetimes DEF TypeOK, IndexRec
  <1>6. PICK c : Continues(p, c) /\ c.pc = "done"
    BY ReplyEnds DEF CreateTx, Replies
  <1>7. proc' \in [Procs -> Proc] /\ \A q \in Procs : proc'[q] = IF q = p THEN c ELSE proc[q]
    BY <1>0, <1>6 DEF Continues, TypeOK
  <1>8. TypeOK'
    BY <1>0, <1>1, <1>3, <1>4, <1>5, <1>7 DEF TypeOK
  <1>9. CallsFormed' /\ RevokesOwn'
    BY <1>3, <1>6, <1>7 DEF IInv, CallsFormed, RevokesOwn, Continues
  <1>10. /\ \A x \in SessionIds : session'[x] = IF x = s THEN S ELSE session[x]
         /\ \A x \in Digests : refresh'[x] = IF x = d THEN R ELSE refresh[x]
    BY <1>0, <1>3 DEF TypeOK
  <1>11. \A q \in Procs : Creating(q)' => /\ q # p /\ Creating(q) /\ proc'[q] = proc[q]
                                         /\ proc[q].sid \in SessionIds /\ proc[q].digest \in Digests
                                         /\ proc[q].sid # s /\ proc[q].digest # d
    <2>1. \A q \in Procs : Creating(q)' => q # p /\ Creating(q) /\ proc'[q] = proc[q]
      BY <1>6, <1>7 DEF Creating
    <2>2. \A q \in Procs : Creating(q) => proc[q].sid \in SessionIds /\ proc[q].digest \in Digests
      BY DEF IInv, CallsFormed, Formed, Creating
    <2>3. \A q \in Procs : Creating(q) /\ q # p => proc[q].sid # s
      BY <1>0 DEF IInv, PendingDistinct
    <2>4. \A q \in Procs : Creating(q) /\ q # p => proc[q].digest # d
      BY <1>2, <2>3 DEF IInv, PendingFresh
    <2> QED BY <2>1, <2>2, <2>3, <2>4
  <1>12. PendingFresh' /\ PendingDistinct'
    BY <1>3, <1>10, <1>11 DEF IInv, PendingFresh, PendingDistinct, Live
  <1>13. TokensOwned'
    BY <1>2, <1>3, <1>10 DEF IInv, TokensOwned
  <1>14. CurrentActive'
    <2> SUFFICES ASSUME NEW x \in SessionIds, Live(x)'
                 PROVE  (refresh[session[x].digest] =
                           [sid |-> x, user |-> session[x].user, state |-> "active",
                            ttl |-> session[x].ttl])'
      BY DEF CurrentActive
    <2>1. CASE x = s
      BY <1>1, <1>10, <2>1
    <2>2. CASE x # s
      <3>1. Live(x) /\ session'[x] = session[x]
        BY <1>10, <2>2 DEF Live
      <3>2. session[x].digest \in Digests /\ session[x].digest # d
        BY <1>2, <3>1, LiveOwns DEF Active
      <3> QED BY <1>10, <3>1, <3>2 DEF IInv, CurrentActive
    <2> QED BY <2>1, <2>2
  <1>15. ActiveCurrent'
    <2> SUFFICES ASSUME NEW x \in Digests, Active(x)', Live(refresh[x].sid)'
                 PROVE  (session[refresh[x].sid].digest = x)'
      BY DEF ActiveCurrent
    <2>1. CASE x = d
      BY <1>1, <1>10, <2>1
    <2>2. CASE x # d
      <3>1. refresh'[x] = refresh[x] /\ Active(x) /\ refresh[x] \in RefreshRec
        BY <1>0, <1>10, <2>2 DEF Active, TypeOK
      <3>2. refresh[x].sid \in SessionIds /\ refresh[x].sid # s
        BY <1>2, <2>2, <3>1 DEF RefreshRec, IInv, TokensOwned, Active
      <3>3. Live(refresh[x].sid) /\ session'[refresh[x].sid] = session[refresh[x].sid]
        BY <1>10, <3>1, <3>2 DEF Live
      <3> QED BY <3>1, <3>3 DEF IInv, ActiveCurrent
    <2> QED BY <2>1, <2>2
  <1> QED BY <1>8, <1>9, <1>12, <1>13, <1>14, <1>15 DEF IInv

LEMMA SessionRenewed ==
    ASSUME NEW r \in SessionRec, NEW n \in Digests
    PROVE  LET new == [r EXCEPT !.digest = n, !.ttl = TTL]
           IN  new \in SessionRec /\ new.user = r.user /\ new.digest = n /\ new.ttl = TTL
  <1>1. TTL \in 1..TTL
    BY ConstantsAssumption
  <1> QED BY <1>1 DEF SessionRec

LEMMA RotateFreshStep ==
    ASSUME IInv, NEW p \in Procs, RotateFresh(p) PROVE IInv'
  <1>0. TypeOK /\ proc[p] \in Proc /\ Formed(proc[p]) /\ proc[p].pc = "eval"
    BY CallFacts DEF IInv, RotateFresh
  <1> DEFINE d == proc[p].digest
             t == refresh[d]
             s == t.sid
  <1>1. /\ proc[p].op = "rotate" /\ d \in Digests /\ t \in RefreshRec /\ t # None
        /\ s \in SessionIds /\ t.user \in Users
        /\ Active(d) /\ Live(s) /\ session[s].digest = d /\ owner[d] = s
    <2>1. proc[p].op = "rotate" /\ d \in Digests
      BY <1>0 DEF Formed
    <2>2. t # None /\ t \in RefreshRec /\ Active(d) /\ Live(s) /\ session[s].digest = d
      BY <1>0, <2>1 DEF RotateFresh, Token, IsCurrent, Active, TypeOK
    <2>3. s \in SessionIds /\ t.user \in Users
      BY <2>2 DEF RefreshRec
    <2> QED BY <2>1, <2>2, <2>3, LiveOwns
  <1>2. PICK n \in Digests \ Minted :
           /\ refresh' = [refresh EXCEPT ![d] = MarkSpent(t), ![n] = [t EXCEPT !.ttl = TTL]]
           /\ session' = [session EXCEPT ![s] = [@ EXCEPT !.digest = n, !.ttl = TTL]]
           /\ index' = [index EXCEPT ![t.user] = RenewIndex(@)]
           /\ owner' = [owner EXCEPT ![n] = s]
    BY DEF RotateFresh, Token
  <1> DEFINE spent == MarkSpent(t)
             new   == [t EXCEPT !.ttl = TTL]
             sess  == [session[s] EXCEPT !.digest = n, !.ttl = TTL]
  <1>3. owner[n] = None /\ refresh[n] = None /\ n # d
    BY <1>0, <1>1, ConstantsAssumption DEF Minted, IInv, TokensOwned, TypeOK, RefreshRec
  <1>4. session[s].user = t.user /\ session[s] \in SessionRec /\ t.state = "active"
    <2>1. t = [sid |-> s, user |-> session[s].user, state |-> "active", ttl |-> session[s].ttl]
      BY <1>1 DEF IInv, CurrentActive
    <2> QED BY <1>1, <2>1, LiveOwns
  <1>5. /\ spent \in RefreshRec /\ spent.sid = s /\ spent.state = "spent" /\ spent # None
        /\ new \in RefreshRec /\ new # None
        /\ new = [sid |-> s, user |-> t.user, state |-> "active", ttl |-> TTL]
        /\ sess \in SessionRec /\ sess # None
        /\ sess.user = t.user /\ sess.digest = n /\ sess.ttl = TTL
    <2>1. TTL \in 1..TTL
      BY ConstantsAssumption
    <2>2. /\ spent \in RefreshRec /\ spent.sid = s /\ spent.state = "spent"
      BY <1>1, <2>1 DEF MarkSpent, RefreshRec
    <2>3. new \in RefreshRec /\ new = [sid |-> s, user |-> t.user, state |-> "active", ttl |-> TTL]
      BY <1>1, <1>4, <2>1 DEF RefreshRec
    <2>4. sess \in SessionRec /\ sess.user = t.user /\ sess.digest = n /\ sess.ttl = TTL
      BY <1>4, SessionRenewed
    <2> HIDE DEF spent, new, sess
    <2> QED BY <2>2, <2>3, <2>4, ConstantsAssumption
  <1>6. /\ \A x \in SessionIds : session'[x] = IF x = s THEN sess ELSE session[x]
        /\ \A x \in Digests : refresh'[x] = IF x = n THEN new ELSE IF x = d THEN spent ELSE refresh[x]
        /\ \A x \in Digests : owner'[x] = IF x = n THEN s ELSE owner[x]
    BY <1>0, <1>1, <1>2, <1>3 DEF TypeOK
  <1>7. PICK c : Continues(p, c) /\ c.op # "create" /\ c.pc # "del"
    <2>1. CASE proc' = proc
      BY <1>0, <1>1, <2>1, CallFacts
    <2>2. CASE Reply(p, "ok")
      <3> DEFINE c == [proc[p] EXCEPT !.pc = "done", !.reply = "ok"]
      <3>1. proc' = [proc EXCEPT ![p] = c]
        BY <1>0, <2>2 DEF Reply, TypeOK
      <3>2. c \in Proc /\ c.pc = "done" /\ c.op = "rotate" /\ c.digest = d
        BY <1>0, <1>1 DEF Proc, Pcs, Replies
      <3> HIDE DEF c
      <3>3. Continues(p, c)
        BY <1>1, <3>1, <3>2 DEF Continues, Formed, Begins
      <3> QED BY <3>2, <3>3
    <2> QED BY <2>1, <2>2 DEF RotateFresh, Answer
  <1>8. proc' \in [Procs -> Proc] /\ \A q \in Procs : proc'[q] = IF q = p THEN c ELSE proc[q]
    BY <1>0, <1>7 DEF Continues, TypeOK
  <1>9. TypeOK'
    <2>1. index' \in [Users -> IndexRec]
      BY <1>0, <1>1, <1>2, IndexTypes DEF TypeOK
    <2>2. atStart' = atStart
      BY DEF RotateFresh
    <2>3. /\ session' \in [SessionIds -> SessionRec \cup {None}]
          /\ refresh' \in [Digests -> RefreshRec \cup {None}]
          /\ owner' \in [Digests -> SessionIds \cup {None}]
      BY <1>0, <1>1, <1>2, <1>5 DEF TypeOK
    <2> QED BY <1>0, <1>8, <2>1, <2>2, <2>3 DEF TypeOK
  <1> HIDE DEF spent, new, sess, s, t, d
  <1>10. CallsFormed'
    BY <1>7, <1>8 DEF IInv, CallsFormed, Continues
  <1>11. RevokesOwn'
    <2>1. \A q \in Procs : proc[q].pc = "del" =>
              proc[q].read.digest \in Digests /\ proc[q].cur \in SessionIds
      BY <1>0 DEF IInv, CallsFormed, Formed, TypeOK, Proc
    <2>2. \A q \in Procs : proc[q].pc = "del" => proc[q].read.digest # n
      BY <1>3, <2>1, ConstantsAssumption DEF IInv, RevokesOwn
    <2> QED BY <1>6, <1>7, <1>8, <2>1, <2>2 DEF IInv, RevokesOwn
  <1>12. \A q \in Procs : Creating(q)' =>
             /\ Creating(q) /\ proc'[q] = proc[q]
             /\ proc[q].sid \in SessionIds /\ proc[q].digest \in Digests
             /\ proc[q].sid # s /\ proc[q].digest # d /\ proc[q].digest # n
    <2>1. \A q \in Procs : Creating(q)' => Creating(q) /\ proc'[q] = proc[q]
      BY <1>7, <1>8 DEF Creating
    <2>2. \A q \in Procs : Creating(q) => proc[q].sid \in SessionIds /\ proc[q].digest \in Digests
      BY DEF IInv, CallsFormed, Formed, Creating
    <2>3. \A q \in Procs : Creating(q) => proc[q].sid # s
      BY <1>1 DEF IInv, PendingFresh
    <2>4. \A q \in Procs : Creating(q) => proc[q].digest # d /\ proc[q].digest # n
      BY <1>1, <1>3, <2>2, <2>3, ConstantsAssumption DEF IInv, PendingFresh
    <2> QED BY <2>1, <2>2, <2>3, <2>4
  <1>13. PendingFresh' /\ PendingDistinct'
    BY <1>6, <1>12 DEF IInv, PendingFresh, PendingDistinct, Live
  <1>14. TokensOwned'
    BY <1>1, <1>3, <1>5, <1>6 DEF IInv, TokensOwned
  <1>15. CurrentActive'
    <2> SUFFICES ASSUME NEW x \in SessionIds, Live(x)'
                 PROVE  (refresh[session[x].digest] =
                           [sid |-> x, user |-> session[x].user, state |-> "active",
                            ttl |-> session[x].ttl])'
      BY DEF CurrentActive
    <2>1. CASE x = s
      BY <1>1, <1>5, <1>6, <2>1
    <2>2. CASE x # s
      <3>1. Live(x) /\ session'[x] = session[x]
        BY <1>6, <2>2 DEF Live
      <3>2. session[x].digest \in Digests /\ owner[session[x].digest] = x
        BY <3>1, LiveOwns
      <3>3. session[x].digest # d /\ session[x].digest # n
        BY <1>1, <1>3, <2>2, <3>2, ConstantsAssumption
      <3> QED BY <1>6, <3>1, <3>2, <3>3 DEF IInv, CurrentActive
    <2> QED BY <2>1, <2>2
  <1>16. ActiveCurrent'
    <2> SUFFICES ASSUME NEW x \in Digests, Active(x)', Live(refresh[x].sid)'
                 PROVE  (session[refresh[x].sid].digest = x)'
      BY DEF ActiveCurrent
    <2>1. CASE x = n
      BY <1>1, <1>5, <1>6, <2>1
    <2>2. CASE x = d
      BY <1>3, <1>5, <1>6, <2>2 DEF Active
    <2>3. CASE x # n /\ x # d
      <3>1. refresh'[x] = refresh[x] /\ Active(x) /\ refresh[x] \in RefreshRec
        BY <1>0, <1>6, <2>3 DEF Active, TypeOK
      <3>2. refresh[x].sid \in SessionIds
        BY <3>1 DEF RefreshRec
      <3>3. refresh[x].sid # s
        BY <1>1, <2>3, <3>1 DEF IInv, ActiveCurrent
      <3>4. Live(refresh[x].sid) /\ session'[refresh[x].sid] = session[refresh[x].sid]
        BY <1>6, <3>1, <3>2, <3>3 DEF Live
      <3> QED BY <3>1, <3>4 DEF IInv, ActiveCurrent
    <2> QED BY <2>1, <2>2, <2>3
  <1> QED BY <1>9, <1>10, <1>11, <1>13, <1>14, <1>15, <1>16 DEF IInv

(* A command that only answers, a failure and a return change no key. *)
LEMMA QuietStep ==
    ASSUME IInv, NEW p \in Procs, RotateUnknown(p) \/ RotateOrphan(p) \/ Fail(p) \/ Return(p)
    PROVE  IInv'
  <1>0. TypeOK
    BY DEF IInv
  <1>1. /\ UNCHANGED <<session, refresh, index, owner>>
        /\ atStart' \in [Procs -> SUBSET SessionIds]
    BY <1>0 DEF RotateUnknown, RotateOrphan, Fail, Return, keys, TypeOK
  <1>2. \E c : Continues(p, c)
    <2>1. CASE RotateUnknown(p) \/ RotateOrphan(p) \/ Fail(p)
      BY <2>1, ReplyEnds DEF RotateUnknown, RotateOrphan, Fail, Replies
    <2>2. CASE Return(p)
      <3>1. Continues(p, Idle)
        BY <2>2, IdleIsACall DEF Return, Continues, Begins
      <3> QED BY <3>1
    <2> QED BY <2>1, <2>2
  <1> QED BY <1>0, <1>1, <1>2, KeysStay DEF TypeOK

(* A tick takes the same time off a session and off its current token. *)
LEMMA TickStep == ASSUME IInv, Tick PROVE IInv'
  <1>0. TypeOK
    BY DEF IInv
  <1>1. UNCHANGED <<proc, owner, atStart>>
    BY DEF Tick
  <1>2. /\ \A s \in SessionIds : session'[s] = Aged(session[s])
        /\ \A d \in Digests : refresh'[d] = Aged(refresh[d])
    BY DEF Tick
  <1>3. ASSUME NEW r \in SessionRec
        PROVE  /\ Aged(r) # None => r.ttl # 1
               /\ r.ttl # 1 => /\ Aged(r) = [user |-> r.user, digest |-> r.digest, ttl |-> r.ttl - 1]
                              /\ Aged(r) \in SessionRec
    BY ConstantsAssumption DEF Aged, SessionRec
  <1>4. ASSUME NEW r \in RefreshRec
        PROVE  /\ Aged(r) # None => r.ttl # 1
               /\ r.ttl # 1 => /\ Aged(r) = [sid |-> r.sid, user |-> r.user, state |-> r.state, ttl |-> r.ttl - 1]
                              /\ Aged(r) \in RefreshRec
    BY ConstantsAssumption DEF Aged, RefreshRec
  <1>5. Aged(None) = None /\ \A r : r.ttl = 1 => Aged(r) = None
    BY DEF Aged
  <1>6. ASSUME NEW s \in SessionIds, Live(s)'
        PROVE  /\ Live(s) /\ session[s] \in SessionRec /\ session[s].ttl # 1
               /\ session'[s] = [user |-> session[s].user, digest |-> session[s].digest,
                                 ttl |-> session[s].ttl - 1]
    BY <1>0, <1>2, <1>3, <1>5, <1>6 DEF Live, TypeOK
  <1>7. ASSUME NEW d \in Digests, refresh'[d] # None
        PROVE  /\ refresh[d] # None /\ refresh[d] \in RefreshRec
               /\ refresh'[d].sid = refresh[d].sid
               /\ refresh'[d].state = refresh[d].state
    <2>1. refresh[d] # None /\ refresh[d] \in RefreshRec
      BY <1>0, <1>2, <1>5, <1>7 DEF TypeOK
    <2>2. refresh'[d] = [sid |-> refresh[d].sid, user |-> refresh[d].user,
                         state |-> refresh[d].state, ttl |-> refresh[d].ttl - 1]
      BY <1>2, <1>4, <1>7, <2>1
    <2> QED BY <2>1, <2>2
  <1>8. TypeOK'
    <2>1. session' \in [SessionIds -> SessionRec \cup {None}]
      BY <1>0, <1>3, <1>5 DEF Tick, TypeOK
    <2>2. refresh' \in [Digests -> RefreshRec \cup {None}]
      BY <1>0, <1>4, <1>5 DEF Tick, TypeOK
    <2>3. index' \in [Users -> IndexRec]
      BY <1>0, IndexTypes DEF Tick, TypeOK
    <2> QED BY <1>0, <1>1, <2>1, <2>2, <2>3 DEF TypeOK
  <1>9. CallsFormed' /\ RevokesOwn' /\ PendingDistinct'
    BY <1>1 DEF IInv, CallsFormed, RevokesOwn, PendingDistinct, Creating
  <1>10. PendingFresh'
    <2>1. \A q \in Procs : Creating(q)' =>
              Creating(q) /\ proc[q].sid \in SessionIds /\ proc[q].digest \in Digests
      BY <1>1 DEF IInv, CallsFormed, Formed, Creating
    <2> QED BY <1>1, <1>2, <1>5, <2>1 DEF IInv, PendingFresh, Live
  <1>11. TokensOwned'
    BY <1>1, <1>7 DEF IInv, TokensOwned
  <1>12. CurrentActive'
    <2> SUFFICES ASSUME NEW s \in SessionIds, Live(s)'
                 PROVE  (refresh[session[s].digest] =
                           [sid |-> s, user |-> session[s].user, state |-> "active",
                            ttl |-> session[s].ttl])'
      BY DEF CurrentActive
    <2>1. Live(s) /\ session[s] \in SessionRec /\ session[s].ttl # 1
          /\ session'[s] = [user |-> session[s].user, digest |-> session[s].digest,
                            ttl |-> session[s].ttl - 1]
      BY <1>6
    <2>2. refresh[session[s].digest] =
            [sid |-> s, user |-> session[s].user, state |-> "active", ttl |-> session[s].ttl]
      BY <2>1 DEF IInv, CurrentActive
    <2>3. refresh[session[s].digest] \in RefreshRec /\ session[s].digest \in Digests
      BY <2>1, <2>2 DEF SessionRec, RefreshRec
    <2>4. refresh'[session[s].digest] =
            [sid |-> s, user |-> session[s].user, state |-> "active", ttl |-> session[s].ttl - 1]
      BY <1>2, <1>4, <2>1, <2>2, <2>3
    <2> QED BY <2>1, <2>4
  <1>13. ActiveCurrent'
    <2> SUFFICES ASSUME NEW d \in Digests, Active(d)', Live(refresh[d].sid)'
                 PROVE  (session[refresh[d].sid].digest = d)'
      BY DEF ActiveCurrent
    <2>1. /\ refresh[d] # None /\ refresh[d] \in RefreshRec
          /\ refresh'[d].sid = refresh[d].sid /\ refresh'[d].state = refresh[d].state
      BY <1>7 DEF Active
    <2>2. Active(d) /\ refresh[d].sid \in SessionIds
      BY <2>1 DEF Active, RefreshRec
    <2>3. PICK s \in SessionIds : s = refresh[d].sid
      BY <2>2
    <2>4. Live(s)'
      BY <2>1, <2>3 DEF Live
    <2>5. Live(s) /\ session'[s].digest = session[s].digest
      <3>1. /\ Live(s) /\ session[s] \in SessionRec /\ session[s].ttl # 1
            /\ session'[s] = [user |-> session[s].user, digest |-> session[s].digest,
                              ttl |-> session[s].ttl - 1]
        BY <1>6, <2>4
      <3> QED BY <3>1
    <2> QED BY <2>1, <2>2, <2>3, <2>5 DEF IInv, ActiveCurrent
  <1> QED BY <1>8, <1>9, <1>10, <1>11, <1>12, <1>13 DEF IInv

----------------------------------------------------------------------------
LEMMA InitIInv == Init => IInv
  <1> SUFFICES ASSUME Init PROVE IInv
    OBVIOUS
  <1>1. TypeOK
    BY IndexTypes, IdleIsACall DEF Init, TypeOK
  <1>2. \A p \in Procs : Formed(proc[p]) /\ proc[p].pc = "idle" /\ ~Creating(p)
    BY IdleIsACall DEF Init, Creating
  <1>3. TokensOwned /\ CurrentActive /\ ActiveCurrent
    BY DEF Init, TokensOwned, CurrentActive, ActiveCurrent, Active, Live
  <1> QED BY <1>1, <1>2, <1>3
          DEF IInv, CallsFormed, PendingFresh, PendingDistinct, RevokesOwn

LEMMA NextIInv == IInv /\ [Next]_vars => IInv'
  <1> SUFFICES ASSUME IInv, [Next]_vars PROVE IInv'
    OBVIOUS
  <1>1. ASSUME NEW p \in Procs, Start(p) PROVE IInv'
    BY <1>1, StartKeeps
  <1>2. ASSUME NEW p \in Procs, Command(p) PROVE IInv'
    BY <1>2, ReadsKeep, IndexWritesKeep, RevokeTxStep, CreateTxStep, QuietStep,
       RotateReuseStep, RotateFreshStep DEF Command, RotateLua
  <1>3. ASSUME NEW p \in Procs, Fail(p) \/ Return(p) PROVE IInv'
    BY <1>3, QuietStep
  <1>4. CASE Tick
    BY <1>4, TickStep
  <1>5. CASE UNCHANGED vars
    BY <1>5 DEF vars, keys, IInv, TypeOK, CallsFormed, TokensOwned, CurrentActive, ActiveCurrent,
                PendingFresh, PendingDistinct, RevokesOwn, Live, Active, Creating
  <1> QED BY <1>1, <1>2, <1>3, <1>4, <1>5 DEF Next

(* IInv holds in every reachable state: the facts the theorems below rest on. *)
THEOREM StoreInvariant == Spec => []IInv
  BY InitIInv, NextIInv, PTL DEF Spec

(* Every variable keeps its type, whatever the number of users, sessions, tokens
   and processes.                                                                 *)
THEOREM StoreTyped == Spec => []TypeOK
  <1>1. IInv => TypeOK
    BY DEF IInv
  <1> QED BY <1>1, StoreInvariant, PTL

(* Create, Rotate, Revoke, RevokeUser and expiry, in any interleaving, leave each
   live session with exactly one refresh token that Rotate accepts.               *)
THEOREM StoreOneCurrentToken == Spec => []OneCurrentToken
  <1>1. IInv => OneCurrentToken
    <2> SUFFICES ASSUME IInv, NEW s \in SessionIds, Live(s)
                 PROVE  {d \in Digests : Active(d) /\ refresh[d].sid = s} = {session[s].digest}
      BY DEF OneCurrentToken
    <2>1. session[s].digest \in Digests /\ Active(session[s].digest)
          /\ refresh[session[s].digest].sid = s
      BY LiveOwns
    <2>2. \A d \in Digests : Active(d) /\ refresh[d].sid = s => d = session[s].digest
      BY DEF IInv, ActiveCurrent
    <2> QED BY <2>1, <2>2
  <1> QED BY <1>1, StoreInvariant, PTL

(* A session becomes live only by the transaction of the login that was given its
   id: no rotation, retried command or late revocation brings one back.            *)
LEMMA OnlyCreateOpens ==
    ASSUME IInv, [Next]_vars, NEW s \in SessionIds, ~Live(s), Live(s)'
    PROVE  s \in Pending
  <1>0. TypeOK
    BY DEF IInv
  <1>1. CASE UNCHANGED session
    BY <1>1 DEF Live
  <1>2. ASSUME NEW p \in Procs, CreateTx(p) PROVE s \in Pending
    <2>1. Creating(p)
      BY <1>2 DEF IInv, CallsFormed, Formed, CreateTx, Creating
    <2>2. s = proc[p].sid
      BY <1>0, <1>2 DEF CreateTx, TypeOK, Live
    <2> QED BY <2>1, <2>2 DEF Pending
  <1>3. ASSUME NEW p \in Procs, RotateFresh(p) PROVE FALSE
    BY <1>0, <1>3 DEF RotateFresh, Token, IsCurrent, Live, TypeOK
  <1>4. ASSUME NEW p \in Procs, RevokeTx(p) \/ RotateReuse(p) PROVE FALSE
    BY <1>0, <1>4 DEF RevokeTx, RotateReuse, Live, TypeOK
  <1>5. CASE Tick
    BY <1>5 DEF Tick, Aged, Live
  <1>6. ASSUME NEW p \in Procs, Start(p) \/ Fail(p) \/ Return(p) PROVE UNCHANGED session
    BY <1>6 DEF Start, StartCreate, StartList, StartRevokeUser, StartUserCall, StartRevoke,
                StartRotate, Fail, Return, keys
  <1>7. ASSUME NEW p \in Procs, SMembers(p) \/ ListGet(p) \/ RevokeGet(p) \/ DelIndex(p)
               \/ SRem(p) \/ RotateUnknown(p) \/ RotateOrphan(p)
        PROVE  UNCHANGED session
    BY <1>7 DEF SMembers, ListGet, RevokeGet, DelIndex, SRem, RotateUnknown, RotateOrphan, keys
  <1> QED BY <1>1, <1>2, <1>3, <1>4, <1>5, <1>6, <1>7 DEF Next, Command, RotateLua, vars

(* A session that has ended stays ended, in every behaviour of the store. *)
THEOREM StoreNeverResurrects == Spec => NeverResurrected
  <1>1. IInv /\ [Next]_vars => [\A s \in Issued \ Pending : ~Live(s) => ~Live(s)']_vars
    BY OnlyCreateOpens DEF Issued
  <1> QED BY <1>1, StoreInvariant, PTL DEF Spec, NeverResurrected

----------------------------------------------------------------------------
(* Revocation.  What the calls hold, and which sessions they have seen the end of. *)

(* The sessions whose creation is over: each has been live, or was given up. *)
Settled == Issued \ Pending

(* What a call holds: sessions that are settled, and a token of a settled session. *)
CallSettled(c) ==
    /\ c.ids \cup c.todo \cup c.stale \subseteq Settled
    /\ c.cur # None => c.cur \in Settled
    /\ c.op = "revoke" => c.sid \in Settled
    /\ c.op = "rotate" => c.digest \in Minted /\ owner[c.digest] \in Settled

(* Where a call is: a reply is its end, and a revocation is past its loop only when
   no session is left to look at.                                                  *)
Enders == {"create", "revokeUser", "revoke"}

CallPlaced(c) ==
    /\ c.reply # "none" => c.pc = "done"
    /\ c.cur # None => c.pc \in {"del", "done"}
    /\ c.op \in Enders /\ (c.pc \in {"delIndex", "exec"} \/ c.reply = "ok") => c.todo = {} /\ c.cur = None
    /\ c.reply = "reuse" => c.op = "rotate"
    /\ c.pc \in {"smembers", "get", "del", "delIndex", "exec"} => c.op # "rotate"
    /\ c.pc = "srem" => c.op = "list"

(* The sessions a call has ended so far, or found ended. *)
Handled(c) ==
    {s \in SessionIds :
        \/ c.op = "revoke" /\ s = c.sid /\ s \notin c.todo /\ s # c.cur
        \/ c.op \in {"create", "revokeUser"} /\ s \in c.ids \ c.todo /\ s # c.cur
        \/ c.op = "rotate" /\ c.reply = "reuse" /\ s = owner[c.digest]}

CallEnds(c) == \A s \in Handled(c) : ~Live(s)

(* A listing takes for stale only ids that are no live session of its user. *)
CallSifts(c) == \A s \in c.stale : ~(Live(s) /\ session[s].user = c.user)

(* An index holds sessions that were created, and lasts as long as each of them, but
   for the fraction of a second that EXPIRE cuts off.                              *)
IndexSettled  == \A u \in Users : index[u].members \subseteq Settled
IndexOutlives == \A s \in SessionIds : 
    Indexed(s) => session[s].ttl <= index[session[s].user].ttl + CutOff

RInv ==
    /\ \A p \in Procs : CallSettled(proc[p])
    /\ \A p \in Procs : CallPlaced(proc[p])
    /\ \A p \in Procs : CallEnds(proc[p])
    /\ \A p \in Procs : CallSifts(proc[p])
    /\ IndexSettled
    /\ IndexOutlives

(* Process p's call becomes c, which holds and claims no more than it may. *)
Carries(p, c) ==
    /\ c \in Proc
    /\ proc' = [proc EXCEPT ![p] = c]
    /\ CallSettled(c) /\ CallPlaced(c) /\ CallSifts(c)
    /\ \A s \in Handled(c) : ~Live(s) \/ session'[s] = None
    /\ Begins(c) => (Creating(p) /\ c.sid = proc[p].sid) \/ c.sid \notin Issued

LEMMA RInvCall ==
    ASSUME RInv, NEW p \in Procs
    PROVE  /\ CallSettled(proc[p]) /\ CallPlaced(proc[p]) /\ CallEnds(proc[p]) /\ CallSifts(proc[p])
  BY DEF RInv

(* What AfterIds does to the rest of the call. *)
LEMMA AfterIdsKeeps ==
    ASSUME NEW b \in Proc, b.reply = "none"
    PROVE  LET c == AfterIds(b)
           IN  /\ c.ids = b.ids /\ c.todo = b.todo /\ c.stale = b.stale
               /\ c.reply \in {"none", "ok"}
               /\ c.reply = "ok" => c.pc = "done" /\ b.todo = {}
               /\ c.pc = "delIndex" => b.todo = {}
  <1>1. CASE b.todo # {}
    BY <1>1 DEF AfterIds, Proc, Pcs, Replies
  <1>2. CASE b.todo = {} /\ b.op \in {"create", "revokeUser"}
    BY <1>2 DEF AfterIds, Proc, Pcs, Replies
  <1>3. CASE b.todo = {} /\ b.op = "list" /\ b.stale # {}
    BY <1>3 DEF AfterIds, Proc, Pcs, Replies
  <1>4. CASE b.todo = {} /\ b.op \notin {"create", "revokeUser"} /\ ~(b.op = "list" /\ b.stale # {})
    BY <1>4 DEF AfterIds, Proc, Pcs, Replies
  <1> QED BY <1>1, <1>2, <1>3, <1>4

(* The loop over the ids goes on with a call that claims no more than it may. *)
LEMMA LoopCarries ==
    ASSUME IInv, RInv, NEW p \in Procs, NEW b \in Proc,
           proc[p].pc \in {"smembers", "get", "del"},
           b.op = proc[p].op, b.user = proc[p].user,
           b.sid = proc[p].sid, b.digest = proc[p].digest,
           b.cur = None, b.reply = "none",
           CallSettled(b), CallSifts(b),
           \A s \in Handled(b) : ~Live(s) \/ session'[s] = None,
           proc' = [proc EXCEPT ![p] = AfterIds(b)]
    PROVE  Carries(p, AfterIds(b))
  <1> DEFINE c == AfterIds(b)
  <1>1. /\ c \in Proc /\ c.op = b.op /\ c.user = b.user
        /\ c.sid = b.sid /\ c.digest = b.digest /\ c.cur = b.cur
        /\ c.pc \in {"get", "delIndex", "srem", "done"}
        /\ c.pc = "delIndex" => c.op \in {"create", "revokeUser"}
        /\ c.pc = "srem" => c.op = "list"
    BY AfterIdsMoves
  <1>2. /\ c.ids = b.ids /\ c.todo = b.todo /\ c.stale = b.stale
        /\ c.reply \in {"none", "ok"}
        /\ c.reply = "ok" => c.pc = "done" /\ b.todo = {}
        /\ c.pc = "delIndex" => b.todo = {}
    BY AfterIdsKeeps
  <1>3. proc' = [proc EXCEPT ![p] = c]
    OBVIOUS
  <1>4. b.op # "rotate"
    BY RInvCall DEF CallPlaced
  <1> HIDE DEF c
  <1>5. CallSettled(c) /\ CallSifts(c)
    BY <1>1, <1>2 DEF CallSettled, CallSifts
  <1>6. CallPlaced(c)
    BY <1>1, <1>2, <1>4 DEF CallPlaced, Enders
  <1>7. \A s \in Handled(c) : ~Live(s) \/ session'[s] = None
    BY <1>1, <1>2, <1>4 DEF Handled
  <1>8. Begins(c) => Creating(p) /\ c.sid = proc[p].sid
    BY <1>1 DEF Begins, Creating
  <1>9. Carries(p, c)
    BY <1>1, <1>3, <1>5, <1>6, <1>7, <1>8 DEF Carries
  <1> QED BY <1>9 DEF c

(* A reply claims the end of a session only when the session is over. *)
LEMMA ReplyCarries ==
    ASSUME IInv, RInv, NEW p \in Procs, NEW r \in Replies, Reply(p, r),
           r # "none",
           r = "ok" => proc[p].pc \in {"delIndex", "exec", "srem", "eval"},
           r = "reuse" => proc[p].op = "rotate" /\ session'[owner[proc[p].digest]] = None
    PROVE  \E c : Carries(p, c) /\ ~Begins(c)
  <1> DEFINE c == [proc[p] EXCEPT !.pc = "done", !.reply = r]
  <1>1. proc[p] \in Proc /\ Formed(proc[p])
    BY CallFacts
  <1>2. /\ c \in Proc /\ c.pc = "done" /\ c.reply = r
        /\ c.op = proc[p].op /\ c.user = proc[p].user
        /\ c.sid = proc[p].sid /\ c.digest = proc[p].digest
        /\ c.ids = proc[p].ids /\ c.todo = proc[p].todo /\ c.stale = proc[p].stale
        /\ c.cur = proc[p].cur
    BY <1>1 DEF Proc, Pcs
  <1>3. proc' = [proc EXCEPT ![p] = c]
    BY <1>1 DEF Reply, IInv, TypeOK
  <1> HIDE DEF c
  <1>4. CallSettled(c) /\ CallSifts(c)
    BY <1>2, RInvCall DEF CallSettled, CallSifts
  <1>5. CallPlaced(c)
    BY <1>1, <1>2, RInvCall DEF CallPlaced, Enders, Formed
  <1>6. \A s \in Handled(c) : ~Live(s) \/ session'[s] = None
    BY <1>2, RInvCall DEF Handled, CallEnds
  <1>7. ~Begins(c)
    BY <1>2 DEF Begins
  <1> QED BY <1>2, <1>3, <1>4, <1>5, <1>6, <1>7 DEF Carries

(* A call that starts claims nothing. *)
LEMMA StartCarries ==
    ASSUME IInv, RInv, NEW p \in Procs, Start(p)
    PROVE  \E c : Carries(p, c)
  <1>0. TypeOK
    BY DEF IInv
  <1>1. ASSUME NEW u \in Users, StartCreate(p, u) PROVE \E c : Carries(p, c)
    <2>1. PICK s \in SessionIds \ Issued, d \in Digests \ Minted :
              proc' = [proc EXCEPT ![p] =
                    [Idle EXCEPT !.op = "create", !.user = u, !.sid = s, !.digest = d,
                                 !.pc = IF u \in SingleUsers THEN "smembers" ELSE "exec"]]
      BY <1>1 DEF StartCreate
    <2> DEFINE c == [Idle EXCEPT !.op = "create", !.user = u, !.sid = s, !.digest = d,
                                 !.pc = IF u \in SingleUsers THEN "smembers" ELSE "exec"]
    <2>2. /\ c \in Proc /\ c.op = "create" /\ c.pc \in {"smembers", "exec"} /\ c.reply = "none"
          /\ c.ids = {} /\ c.todo = {} /\ c.stale = {} /\ c.cur = None /\ c.sid = s
      BY DEF Idle, Proc, Ops, Pcs, Replies
    <2>3. proc' = [proc EXCEPT ![p] = c]
      BY <2>1
    <2> HIDE DEF c
    <2>4. CallSettled(c) /\ CallPlaced(c) /\ CallSifts(c) /\ Handled(c) = {}
      BY <2>2 DEF CallSettled, CallPlaced, CallSifts, Handled, Enders
    <2> QED BY <2>2, <2>3, <2>4 DEF Carries
  <1>2. ASSUME NEW u \in Users, NEW op \in {"list", "revokeUser"}, StartUserCall(p, op, u)
        PROVE  \E c : Carries(p, c)
    <2> DEFINE c == [Idle EXCEPT !.op = op, !.user = u, !.pc = "smembers"]
    <2>1. /\ c \in Proc /\ c.op = op /\ c.pc = "smembers" /\ c.reply = "none"
          /\ c.ids = {} /\ c.todo = {} /\ c.stale = {} /\ c.cur = None
      BY DEF Idle, Proc, Ops, Pcs, Replies
    <2>2. proc' = [proc EXCEPT ![p] = c]
      BY <1>2 DEF StartUserCall
    <2> HIDE DEF c
    <2>3. CallSettled(c) /\ CallPlaced(c) /\ CallSifts(c) /\ Handled(c) = {}
      BY <2>1 DEF CallSettled, CallPlaced, CallSifts, Handled, Enders
    <2> QED BY <2>1, <2>2, <2>3 DEF Carries, Begins
  <1>3. ASSUME NEW s \in SessionIds, StartRevoke(p, s) PROVE \E c : Carries(p, c)
    <2> DEFINE c == [Idle EXCEPT !.op = "revoke", !.sid = s, !.todo = {s}, !.pc = "get"]
    <2>1. /\ c \in Proc /\ c.op = "revoke" /\ c.pc = "get" /\ c.reply = "none"
          /\ c.ids = {} /\ c.todo = {s} /\ c.stale = {} /\ c.cur = None /\ c.sid = s
      BY DEF Idle, Proc, Ops, Pcs, Replies
    <2>2. proc' = [proc EXCEPT ![p] = c] /\ s \in Settled
      BY <1>3 DEF StartRevoke, Settled
    <2> HIDE DEF c
    <2>3. CallSettled(c) /\ CallPlaced(c) /\ CallSifts(c) /\ Handled(c) = {}
      BY <2>1, <2>2 DEF CallSettled, CallPlaced, CallSifts, Handled, Enders
    <2> QED BY <2>1, <2>2, <2>3 DEF Carries, Begins
  <1>4. ASSUME NEW d \in Digests, StartRotate(p, d) PROVE \E c : Carries(p, c)
    <2> DEFINE c == [Idle EXCEPT !.op = "rotate", !.digest = d, !.pc = "eval"]
    <2>1. /\ c \in Proc /\ c.op = "rotate" /\ c.pc = "eval" /\ c.reply = "none"
          /\ c.ids = {} /\ c.todo = {} /\ c.stale = {} /\ c.cur = None /\ c.digest = d
      BY DEF Idle, Proc, Ops, Pcs, Replies
    <2>2. proc' = [proc EXCEPT ![p] = c] /\ d \in Minted
      BY <1>4 DEF StartRotate
    <2>3. owner[d] \in Settled
      BY <1>0, <1>4, <2>2 DEF StartRotate, Settled, Issued, Minted, TypeOK
    <2> HIDE DEF c
    <2>4. CallSettled(c) /\ CallPlaced(c) /\ CallSifts(c) /\ Handled(c) = {}
      BY <2>1, <2>2, <2>3 DEF CallSettled, CallPlaced, CallSifts, Handled, Enders
    <2> QED BY <2>1, <2>2, <2>4 DEF Carries, Begins
  <1> QED BY <1>1, <1>2, <1>3, <1>4 DEF Start, StartList, StartRevokeUser

LEMMA ReadCarries ==
    ASSUME IInv, RInv, NEW p \in Procs, SMembers(p) \/ ListGet(p) \/ RevokeGet(p)
    PROVE  \E c : Carries(p, c)
  <1>0. TypeOK /\ proc[p] \in Proc /\ Formed(proc[p])
    BY CallFacts DEF IInv
  <1>1. CallSettled(proc[p]) /\ CallPlaced(proc[p]) /\ CallEnds(proc[p]) /\ CallSifts(proc[p])
    BY RInvCall
  <1>2. proc[p].pc \in {"smembers", "get"} /\ proc[p].reply = "none" /\ proc[p].cur = None
        /\ proc[p].op # "rotate"
    BY <1>1 DEF SMembers, ListGet, RevokeGet, CallPlaced
  <1>3. CASE SMembers(p)
    <2> DEFINE found == index[proc[p].user].members
               b == [proc[p] EXCEPT !.ids = found, !.todo = found]
    <2>1. /\ proc[p].user \in Users /\ proc' = [proc EXCEPT ![p] = AfterIds(b)]
          /\ proc[p].op \in {"create", "list", "revokeUser"}
      BY <1>0, <1>3 DEF SMembers, Formed, TypeOK
    <2>2. found \subseteq Settled
      BY <2>1 DEF RInv, IndexSettled
    <2>3. /\ b \in Proc /\ b.op = proc[p].op /\ b.user = proc[p].user /\ b.sid = proc[p].sid
          /\ b.digest = proc[p].digest /\ b.cur = None /\ b.reply = "none"
          /\ b.ids = found /\ b.todo = found /\ b.stale = proc[p].stale
      BY <1>0, <1>2, <2>1 DEF TypeOK, IndexRec, Proc
    <2> HIDE DEF b, found
    <2>4. CallSettled(b) /\ CallSifts(b) /\ Handled(b) = {}
      BY <1>1, <2>1, <2>2, <2>3 DEF CallSettled, CallSifts, Handled
    <2>5. Carries(p, AfterIds(b))
      BY <1>2, <2>1, <2>3, <2>4, LoopCarries
    <2> QED BY <2>5
  <1>4. CASE ListGet(p)
    <2>1. PICK s \in proc[p].todo :
              \/ proc' = [proc EXCEPT ![p] = AfterIds(Looked(proc[p], s))]
              \/ /\ ~(Live(s) /\ session[s].user = proc[p].user)
                 /\ proc' = [proc EXCEPT ![p] = AfterIds(Stale(proc[p], s))]
      BY <1>4 DEF ListGet
    <2>2. s \in SessionIds /\ s \in Settled /\ proc[p].op = "list"
      BY <1>0, <1>1, <1>4 DEF Proc, ListGet, CallSettled
    <2>3. PICK b \in {Looked(proc[p], s), Stale(proc[p], s)} :
              /\ proc' = [proc EXCEPT ![p] = AfterIds(b)]
              /\ b = Stale(proc[p], s) => ~(Live(s) /\ session[s].user = proc[p].user) \/ b = Looked(proc[p], s)
      BY <2>1
    <2>4. /\ b \in Proc /\ b.op = proc[p].op /\ b.user = proc[p].user /\ b.sid = proc[p].sid
          /\ b.digest = proc[p].digest
      BY <1>0, <2>2, Looks
    <2>5. /\ b.ids = proc[p].ids /\ b.todo = proc[p].todo \ {s}
          /\ b.cur = None /\ b.reply = "none"
          /\ \/ b.stale = proc[p].stale
             \/ b.stale = proc[p].stale \cup {s} /\ ~(Live(s) /\ session[s].user = proc[p].user)
      BY <1>0, <1>2, <2>3 DEF Looked, Stale, Proc
    <2>6. CallSettled(b) /\ CallSifts(b) /\ Handled(b) = {}
      BY <1>1, <2>2, <2>4, <2>5 DEF CallSettled, CallSifts, Handled
    <2>7. Carries(p, AfterIds(b))
      BY <1>2, <2>3, <2>4, <2>5, <2>6, LoopCarries
    <2> QED BY <2>7
  <1>5. CASE RevokeGet(p)
    <2>1. PICK s \in proc[p].todo :
              IF Live(s)
              THEN proc' = [proc EXCEPT ![p] = Found(proc[p], s, session[s])]
              ELSE proc' = [proc EXCEPT ![p] = AfterIds(Looked(proc[p], s))]
      BY <1>5 DEF RevokeGet
    <2>2. s \in SessionIds /\ s \in Settled /\ proc[p].pc = "get" /\ proc[p].op # "list"
      BY <1>0, <1>1, <1>5 DEF Proc, RevokeGet, CallSettled
    <2>3. CASE Live(s)
      <3> DEFINE f == Found(proc[p], s, session[s])
      <3>1. /\ f \in Proc /\ f.op = proc[p].op /\ f.user = proc[p].user
            /\ f.sid = proc[p].sid /\ f.digest = proc[p].digest
            /\ f.pc = "del" /\ f.cur = s
        BY <1>0, <2>2, <2>3, LiveOwns, Finds
      <3>2. /\ f.ids = proc[p].ids /\ f.todo = proc[p].todo \ {s}
            /\ f.stale = proc[p].stale /\ f.reply = "none"
        BY <1>0, <1>2 DEF Found, Proc
      <3>3. proc' = [proc EXCEPT ![p] = f]
        BY <2>1, <2>3
      <3> HIDE DEF f
      <3>4. CallSettled(f) /\ CallSifts(f)
        BY <1>1, <2>2, <3>1, <3>2 DEF CallSettled, CallSifts
      <3>5. CallPlaced(f)
        BY <1>1, <1>2, <2>2, <3>1, <3>2 DEF CallPlaced
      <3>6. \A x \in Handled(f) : ~Live(x)
        BY <1>1, <1>2, <3>1, <3>2, ConstantsAssumption DEF Handled, CallEnds
      <3>7. Begins(f) => Creating(p) /\ f.sid = proc[p].sid
        BY <2>2, <3>1 DEF Begins, Creating
      <3>8. Carries(p, f)
        BY <3>1, <3>3, <3>4, <3>5, <3>6, <3>7 DEF Carries
      <3> QED BY <3>8
    <2>4. CASE ~Live(s)
      <3> DEFINE b == Looked(proc[p], s)
      <3>1. proc' = [proc EXCEPT ![p] = AfterIds(b)]
        BY <2>1, <2>4
      <3>2. /\ b \in Proc /\ b.op = proc[p].op /\ b.user = proc[p].user /\ b.sid = proc[p].sid
            /\ b.digest = proc[p].digest
        BY <1>0, <2>2, Looks
      <3>3. /\ b.ids = proc[p].ids /\ b.todo = proc[p].todo \ {s} /\ b.stale = proc[p].stale
            /\ b.cur = None /\ b.reply = "none"
        BY <1>0, <1>2 DEF Looked, Proc
      <3> HIDE DEF b
      <3>4. CallSettled(b) /\ CallSifts(b)
        BY <1>1, <3>2, <3>3 DEF CallSettled, CallSifts
      <3>5. \A x \in Handled(b) : ~Live(x)
        BY <1>1, <1>2, <2>4, <3>2, <3>3 DEF Handled, CallEnds
      <3>6. Carries(p, AfterIds(b))
        BY <1>2, <2>2, <3>1, <3>2, <3>3, <3>4, <3>5, LoopCarries
      <3> QED BY <3>6
    <2> QED BY <2>3, <2>4
  <1> QED BY <1>3, <1>4, <1>5

LEMMA RevokeTxCarries ==
    ASSUME IInv, RInv, NEW p \in Procs, RevokeTx(p)
    PROVE  \E c : Carries(p, c)
  <1>0. TypeOK /\ proc[p] \in Proc /\ Formed(proc[p]) /\ proc[p].pc = "del"
    BY CallFacts DEF IInv, RevokeTx
  <1>1. CallSettled(proc[p]) /\ CallPlaced(proc[p]) /\ CallEnds(proc[p]) /\ CallSifts(proc[p])
    BY RInvCall
  <1>2. proc[p].reply = "none" /\ proc[p].op # "rotate"
    BY <1>0, <1>1 DEF CallPlaced
  <1> DEFINE b == [proc[p] EXCEPT !.cur = None, !.read = None]
  <1>3. /\ session' = [session EXCEPT ![proc[p].cur] = None]
        /\ proc' = [proc EXCEPT ![p] = AfterIds(b)]
    BY DEF RevokeTx
  <1>4. /\ b \in Proc /\ b.op = proc[p].op /\ b.user = proc[p].user /\ b.sid = proc[p].sid
        /\ b.digest = proc[p].digest /\ b.ids = proc[p].ids /\ b.todo = proc[p].todo
        /\ b.stale = proc[p].stale /\ b.cur = None /\ b.reply = "none"
    BY <1>0, <1>2 DEF Proc
  <1> HIDE DEF b
  <1>5. CallSettled(b) /\ CallSifts(b)
    BY <1>1, <1>4 DEF CallSettled, CallSifts
  <1>6. \A s \in Handled(b) : ~Live(s) \/ session'[s] = None
    <2>1. \A s \in Handled(b) : s \in SessionIds /\ (s \in Handled(proc[p]) \/ s = proc[p].cur)
      BY <1>2, <1>4 DEF Handled
    <2>2. proc[p].cur \in SessionIds => session'[proc[p].cur] = None
      BY <1>0, <1>3 DEF TypeOK
    <2> QED BY <1>1, <2>1, <2>2 DEF CallEnds
  <1>7. Carries(p, AfterIds(b))
    BY <1>0, <1>3, <1>4, <1>5, <1>6, LoopCarries
  <1> QED BY <1>7

LEMMA ReplyStepCarries ==
    ASSUME IInv, RInv, NEW p \in Procs,
           SRem(p) \/ CreateTx(p) \/ RotateLua(p) \/ Fail(p) \/ Return(p),
           proc' # proc
    PROVE  \E c : Carries(p, c) /\ ~Begins(c)
  <1>0. TypeOK /\ proc[p] \in Proc /\ Formed(proc[p])
    BY CallFacts DEF IInv
  <1>1. CASE SRem(p) \/ CreateTx(p)
    <2>1. Reply(p, "ok") /\ proc[p].pc \in {"srem", "exec"}
      BY <1>1 DEF SRem, CreateTx
    <2> QED BY <2>1, ReplyCarries DEF Replies
  <1>2. CASE RotateUnknown(p) \/ RotateOrphan(p) \/ Fail(p)
    BY <1>2, ReplyCarries DEF RotateUnknown, RotateOrphan, Fail, Replies
  <1>3. CASE RotateFresh(p)
    <2>1. Reply(p, "ok") /\ proc[p].pc = "eval"
      BY <1>3 DEF RotateFresh, Answer
    <2> QED BY <2>1, ReplyCarries DEF Replies
  <1>4. CASE RotateReuse(p)
    <2>1. Reply(p, "reuse") /\ proc[p].op = "rotate" /\ proc[p].digest \in Digests
      BY <1>0, <1>4 DEF RotateReuse, Answer, Formed
    <2>2. /\ owner[proc[p].digest] = Token(p).sid /\ Token(p) \in RefreshRec
          /\ session' = [session EXCEPT ![Token(p).sid] = None]
      BY <1>0, <1>4, <2>1 DEF RotateReuse, Token, IInv, TokensOwned, TypeOK
    <2>3. session'[owner[proc[p].digest]] = None
      BY <1>0, <2>2 DEF TypeOK, RefreshRec
    <2> QED BY <2>1, <2>3, ReplyCarries DEF Replies
  <1>5. CASE Return(p)
    <2>1. /\ Idle \in Proc /\ Idle.op = "none" /\ Idle.pc = "idle" /\ Idle.reply = "none"
          /\ Idle.ids = {} /\ Idle.todo = {} /\ Idle.stale = {} /\ Idle.cur = None
      BY DEF Idle, Proc, Ops, Pcs, Replies
    <2>2. CallSettled(Idle) /\ CallPlaced(Idle) /\ CallSifts(Idle) /\ Handled(Idle) = {} /\ ~Begins(Idle)
      BY <2>1 DEF CallSettled, CallPlaced, CallSifts, Handled, Enders, Begins
    <2>3. Carries(p, Idle)
      BY <1>5, <2>1, <2>2 DEF Return, Carries
    <2> QED BY <2>2, <2>3
  <1> QED BY <1>1, <1>2, <1>3, <1>4, <1>5 DEF RotateLua

LEMMA DelIndexCarries ==
    ASSUME IInv, RInv, NEW p \in Procs, DelIndex(p), proc' # proc
    PROVE  \E c : Carries(p, c)
  <1>0. TypeOK /\ proc[p] \in Proc /\ Formed(proc[p])
    BY CallFacts DEF IInv
  <1>1. CASE proc' = [proc EXCEPT ![p].pc = "exec"] /\ proc[p].op = "create"
    <2> DEFINE c == [proc[p] EXCEPT !.pc = "exec"]
    <2>1. /\ proc' = [proc EXCEPT ![p] = c]
          /\ c \in Proc /\ c.pc = "exec" /\ c.reply = proc[p].reply
          /\ c.op = "create" /\ c.user = proc[p].user
          /\ c.sid = proc[p].sid /\ c.digest = proc[p].digest
          /\ c.ids = proc[p].ids /\ c.todo = proc[p].todo /\ c.stale = proc[p].stale
          /\ c.cur = proc[p].cur
      BY <1>0, <1>1 DEF Proc, Pcs, TypeOK
    <2>2. proc[p].pc = "delIndex"
      BY DEF DelIndex
    <2> HIDE DEF c
    <2>3. CallSettled(c) /\ CallSifts(c) /\ \A s \in Handled(c) : ~Live(s)
      BY <1>1, <2>1, RInvCall DEF CallSettled, CallSifts, CallEnds, Handled
    <2>4. CallPlaced(c)
      BY <1>1, <2>1, <2>2, RInvCall DEF CallPlaced, Enders
    <2>5. Creating(p)
      BY <1>1, <2>2 DEF Creating
    <2> QED BY <2>1, <2>3, <2>4, <2>5 DEF Carries
  <1>2. CASE Reply(p, "ok")
    <2>1. proc[p].pc = "delIndex"
      BY DEF DelIndex
    <2> QED BY <1>2, <2>1, ReplyCarries DEF Replies
  <1> QED BY <1>1, <1>2 DEF DelIndex

(* Every step of the store leaves all calls as they are, or moves one of them on. *)
LEMMA CallSteps ==
    ASSUME IInv, RInv, [Next]_vars
    PROVE  proc' = proc \/ \E p \in Procs : \E c : Carries(p, c)
  <1>1. ASSUME NEW p \in Procs, Start(p) \/ Command(p) \/ Fail(p) \/ Return(p), proc' # proc
        PROVE  \E c : Carries(p, c)
    BY <1>1, StartCarries, ReadCarries, RevokeTxCarries, DelIndexCarries, ReplyStepCarries
       DEF Command
  <1>2. CASE Tick \/ UNCHANGED vars
    BY <1>2 DEF Tick, vars
  <1> QED BY <1>1, <1>2 DEF Next

(* The owner of a token is decided once. *)
LEMMA OwnersStay ==
    ASSUME IInv, [Next]_vars, NEW d \in Minted
    PROVE  owner'[d] = owner[d] /\ d \in Minted'
  <1>0. TypeOK /\ d \in Digests /\ owner[d] # None
    BY DEF IInv, Minted
  <1>1. ASSUME NEW p \in Procs, NEW u \in Users, StartCreate(p, u) PROVE owner'[d] = owner[d]
    BY <1>0, <1>1 DEF StartCreate, TypeOK
  <1>2. ASSUME NEW p \in Procs, RotateFresh(p) PROVE owner'[d] = owner[d]
    BY <1>0, <1>2 DEF RotateFresh, TypeOK
  <1>3. ASSUME NEW p \in Procs, Fail(p) \/ Return(p) \/ (Start(p) /\ ~\E u \in Users : StartCreate(p, u))
        PROVE  owner' = owner
    BY <1>3 DEF Start, StartList, StartRevokeUser, StartUserCall, StartRevoke, StartRotate, Fail, Return
  <1>4. ASSUME NEW p \in Procs, Command(p), ~RotateFresh(p) PROVE owner' = owner
    BY <1>4 DEF Command, SMembers, ListGet, RevokeGet, RevokeTx, DelIndex, SRem, CreateTx,
                RotateLua, RotateUnknown, RotateReuse, RotateOrphan
  <1>5. ASSUME Tick \/ UNCHANGED vars PROVE owner' = owner
    BY <1>5 DEF Tick, vars
  <1>6. owner'[d] = owner[d]
    BY <1>1, <1>2, <1>3, <1>4, <1>5 DEF Next
  <1> QED BY <1>0, <1>6 DEF Minted

(* A settled session stays settled, and once it has ended, ended. *)
LEMMA SettledStays ==
    ASSUME IInv, RInv, [Next]_vars, NEW s \in Settled
    PROVE  /\ s \in Settled'
           /\ ~Live(s) => ~Live(s)'
  <1>1. s \in SessionIds /\ s \in Issued /\ s \notin Pending
    BY DEF Settled, Issued
  <1>2. PICK d \in Digests : owner[d] = s
    BY <1>1 DEF Issued
  <1>3. s \in Issued'
    <2>1. d \in Minted
      BY <1>1, <1>2, ConstantsAssumption DEF Minted
    <2> QED BY <1>1, <1>2, <2>1, OwnersStay DEF Issued
  <1>4. s \notin Pending'
    <2>1. CASE proc' = proc
      BY <1>1, <2>1 DEF Pending, Creating
    <2>2. CASE proc' # proc
      <3>0. PICK p \in Procs : \E c : Carries(p, c)
        BY <2>2, CallSteps
      <3>1. PICK c : Carries(p, c)
        BY <3>0
      <3>2. \A q \in Procs : proc'[q] = IF q = p THEN c ELSE proc[q]
        BY <3>1 DEF Carries, IInv, TypeOK
      <3>3. Begins(c) => c.sid # s
        BY <1>1, <3>1 DEF Carries, Pending
      <3>4. \A q \in Procs : Creating(q)' => proc'[q].sid # s
        BY <1>1, <3>2, <3>3 DEF Creating, Begins, Pending
      <3> QED BY <3>4 DEF Pending
    <2> QED BY <2>1, <2>2
  <1> QED BY <1>1, <1>3, <1>4, OnlyCreateOpens DEF Settled

(* A live session is settled. *)
LEMMA LiveSettled ==
    ASSUME IInv, NEW s \in SessionIds, Live(s)
    PROVE  s \in Settled
  <1>1. s \in Issued
    BY LiveOwns DEF Issued
  <1>2. s \notin Pending
    BY DEF Pending, IInv, PendingFresh
  <1> QED BY <1>1, <1>2 DEF Settled

(* What the calls hold and claim survives every step. *)
LEMMA CallsKeep ==
    ASSUME IInv, RInv, [Next]_vars, NEW p \in Procs,
           \A s \in SessionIds : Live(s) /\ Live(s)' => session'[s].user = session[s].user
    PROVE  CallSettled(proc[p])' /\ CallPlaced(proc[p])' /\ CallEnds(proc[p])' /\ CallSifts(proc[p])'
  <1> DEFINE c == proc'[p]
  <1>1. /\ c \in Proc /\ CallSettled(c) /\ CallPlaced(c) /\ CallSifts(c)
        /\ \A s \in Handled(c) : ~Live(s) \/ session'[s] = None
    <2>1. CASE c = proc[p]
      BY <2>1, CallFacts, RInvCall DEF CallEnds
    <2>2. CASE c # proc[p]
      <3>0. PICK q \in Procs : \E e : Carries(q, e)
        BY <2>2, CallSteps
      <3>1. PICK e : Carries(q, e)
        BY <3>0
      <3>2. c = e
        BY <2>2, <3>1 DEF Carries, IInv, TypeOK
      <3> QED BY <3>1, <3>2 DEF Carries
    <2> QED BY <2>1, <2>2
  <1> HIDE DEF c
  <1>2. /\ c.ids \cup c.todo \cup c.stale \subseteq Settled'
        /\ c.cur # None => c.cur \in Settled'
        /\ c.op = "revoke" => c.sid \in Settled'
    BY <1>1, SettledStays DEF CallSettled
  <1>3. c.op = "rotate" => /\ c.digest \in Minted' /\ owner'[c.digest] = owner[c.digest]
                           /\ owner[c.digest] \in Settled'
    BY <1>1, SettledStays, OwnersStay DEF CallSettled
  <1>4. CallPlaced(proc[p])'
    BY <1>1 DEF CallPlaced, c
  <1>5. CallSettled(proc[p])'
    BY <1>2, <1>3 DEF CallSettled, c
  <1>6. ASSUME NEW s \in SessionIds, s \in Handled(proc[p])' PROVE ~Live(s)'
    <2>1. s \in Handled(c)
      BY <1>3, <1>6 DEF Handled, c
    <2>2. s \in Settled
      BY <1>1, <2>1 DEF Handled, CallSettled
    <2> QED BY <1>1, <2>1, <2>2, SettledStays DEF Live
  <1>7. ASSUME NEW s \in c.stale, Live(s)' PROVE session'[s].user # c.user
    <2>1. s \in Settled /\ s \in SessionIds
      BY <1>1 DEF CallSettled, Settled, Issued
    <2> QED BY <1>1, <1>7, <2>1, SettledStays DEF CallSifts
  <1>8. CallEnds(proc[p])'
    BY <1>6 DEF CallEnds, Handled
  <1>9. CallSifts(proc[p])'
    BY <1>7 DEF CallSifts, c
  <1> QED BY <1>4, <1>5, <1>8, <1>9

(* What a transaction or a script does to the sessions and to the indexes. *)
LEMMA CreateEffect ==
    ASSUME IInv, NEW p \in Procs, CreateTx(p)
    PROVE  \E s \in SessionIds, u \in Users :
              /\ ~Live(s) /\ s = proc[p].sid /\ Creating(p) /\ ~Creating(p)'
              /\ \A x \in SessionIds : x # s => session'[x] = session[x]
              /\ session'[s].user = u /\ session'[s].ttl = TTL
              /\ \A v \in Users : v # u => index'[v] = index[v]
              /\ index'[u].members = index[u].members \cup {s} /\ index'[u].ttl = IndexTTL
  <1>0. TypeOK /\ proc[p] \in Proc /\ Formed(proc[p]) /\ proc[p].pc = "exec" /\ Creating(p)
    BY CallFacts DEF IInv, CreateTx, Formed, Creating
  <1> DEFINE s == proc[p].sid
             u == proc[p].user
  <1>1. s \in SessionIds /\ u \in Users /\ ~Live(s)
    BY <1>0 DEF Formed, IInv, PendingFresh
  <1>2. /\ session' = [session EXCEPT ![s] = [user |-> u, digest |-> proc[p].digest, ttl |-> TTL]]
        /\ index' = [index EXCEPT ![u] = [members |-> @.members \cup {s}, ttl |-> IndexTTL]]
    BY DEF CreateTx, Opened
  <1>3. ~Creating(p)'
    BY <1>0 DEF CreateTx, Reply, TypeOK, Creating
  <1> QED BY <1>0, <1>1, <1>2, <1>3 DEF TypeOK

LEMMA RenewEffect ==
    ASSUME IInv, NEW p \in Procs, RotateFresh(p)
    PROVE  \E s \in SessionIds, u \in Users :
              /\ Live(s) /\ session[s].user = u
              /\ \A x \in SessionIds : x # s => session'[x] = session[x]
              /\ session'[s].user = u /\ session'[s].ttl = TTL
              /\ \A v \in Users : v # u => index'[v] = index[v]
              /\ index'[u].members = index[u].members
              /\ index[u].members # {} => index'[u].ttl = TTL
  <1>0. TypeOK /\ proc[p] \in Proc /\ Formed(proc[p]) /\ proc[p].pc = "eval"
    BY CallFacts DEF IInv, RotateFresh
  <1> DEFINE d == proc[p].digest
             t == refresh[d]
             s == t.sid
             u == t.user
  <1>1. d \in Digests /\ t \in RefreshRec /\ Live(s) /\ session[s].digest = d
    BY <1>0 DEF RotateFresh, Token, IsCurrent, Formed, TypeOK
  <1>2. s \in SessionIds /\ u \in Users
    BY <1>1 DEF RefreshRec
  <1>3. t = [sid |-> s, user |-> session[s].user, state |-> "active", ttl |-> session[s].ttl]
    BY <1>1, <1>2 DEF IInv, CurrentActive
  <1>4. session[s].user = u /\ session[s] \in SessionRec
    BY <1>2, <1>3, <1>1, LiveOwns
  <1>5. PICK n \in Digests :
           /\ session' = [session EXCEPT ![s] = [@ EXCEPT !.digest = n, !.ttl = TTL]]
           /\ index' = [index EXCEPT ![u] = RenewIndex(@)]
    BY DEF RotateFresh, Token
  <1> DEFINE sess == [session[s] EXCEPT !.digest = n, !.ttl = TTL]
             x    == RenewIndex(index[u])
  <1>6. sess.user = u /\ sess.ttl = TTL
    BY <1>4, SessionRenewed
  <1>7. index[u] \in IndexRec
    BY <1>0, <1>2 DEF TypeOK
  <1>8. x.members = index[u].members /\ (index[u].members # {} => x.ttl = TTL)
    BY <1>7 DEF RenewIndex, IndexRec, NoIndex
  <1>9. session'[s] = sess /\ index'[u] = x
        /\ (\A y \in SessionIds : y # s => session'[y] = session[y])
        /\ (\A v \in Users : v # u => index'[v] = index[v])
    BY <1>0, <1>2, <1>5 DEF TypeOK
  <1> HIDE DEF sess, x
  <1> QED BY <1>1, <1>2, <1>4, <1>6, <1>8, <1>9

(* Ids leave an index together with the keys they name, or because they are stale. *)
LEMMA WithoutTakes ==
    ASSUME NEW x \in IndexRec, NEW S
    PROVE  /\ Without(x, S).members = x.members \ S
           /\ x.members \ S # {} => Without(x, S).ttl = x.ttl
  BY DEF Without, IndexRec, NoIndex

LEMMA EndEffect ==
    ASSUME IInv, NEW p \in Procs, RevokeTx(p) \/ RotateReuse(p)
    PROVE  \E s \in SessionIds, u \in Users :
              /\ session' = [session EXCEPT ![s] = None]
              /\ index' = [index EXCEPT ![u] = Without(@, {s})]
  <1>0. TypeOK /\ proc[p] \in Proc /\ Formed(proc[p])
    BY CallFacts DEF IInv
  <1>1. CASE RevokeTx(p)
    <2>1. proc[p].cur \in SessionIds /\ proc[p].read.user \in Users
      BY <1>0, <1>1 DEF RevokeTx, Formed, Proc
    <2> QED BY <1>1, <2>1 DEF RevokeTx
  <1>2. CASE RotateReuse(p)
    <2>1. Token(p) \in RefreshRec
      BY <1>0, <1>2 DEF RotateReuse, Token, TypeOK, Formed
    <2>2. Token(p).sid \in SessionIds /\ Token(p).user \in Users
      BY <2>1 DEF RefreshRec
    <2> QED BY <1>2, <2>2 DEF RotateReuse
  <1> QED BY <1>1, <1>2

(* The steps that write a session or an index. *)
LEMMA StoreSteps ==
    ASSUME [Next]_vars
    PROVE  \/ UNCHANGED <<session, index>>
           \/ Tick
           \/ \E p \in Procs : \/ CreateTx(p) \/ RotateFresh(p) \/ RevokeTx(p) \/ RotateReuse(p)
                               \/ DelIndex(p) \/ SRem(p)
  <1>1. ASSUME NEW p \in Procs, Start(p) \/ Fail(p) \/ Return(p)
        PROVE  UNCHANGED <<session, index>>
    BY <1>1 DEF Start, StartCreate, StartList, StartRevokeUser, StartUserCall, StartRevoke,
                StartRotate, Fail, Return, keys
  <1>2. ASSUME NEW p \in Procs, SMembers(p) \/ ListGet(p) \/ RevokeGet(p)
                                \/ RotateUnknown(p) \/ RotateOrphan(p)
        PROVE  UNCHANGED <<session, index>>
    BY <1>2 DEF SMembers, ListGet, RevokeGet, RotateUnknown, RotateOrphan, keys
  <1>3. ASSUME UNCHANGED vars PROVE UNCHANGED <<session, index>>
    BY <1>3 DEF vars
  <1> QED BY <1>1, <1>2, <1>3 DEF Next, Command, RotateLua

LEMMA TickEffect ==
    ASSUME IInv, Tick
    PROVE  /\ \A s \in SessionIds : Live(s)' =>
                  /\ Live(s) /\ session[s].ttl \in Nat /\ session[s].ttl > 1
                  /\ session'[s].user = session[s].user /\ session'[s].digest = session[s].digest
                  /\ session'[s].ttl = session[s].ttl - 1
           /\ \A u \in Users :
                  \/ index'[u].members = {}
                  \/ /\ index'[u].members = index[u].members
                     /\ index'[u].ttl = index[u].ttl - 1
           /\ \A u \in Users : index[u].ttl > 1 => index'[u].members = index[u].members
  <1>0. TypeOK
    BY DEF IInv
  <1>1. \A r \in SessionRec : Aged(r) # None =>
            r.ttl \in Nat /\ r.ttl > 1 /\ Aged(r) = [r EXCEPT !.ttl = @ - 1]
    BY ConstantsAssumption DEF Aged, SessionRec
  <1>2. \A r \in SessionRec :
            LET a == [r EXCEPT !.ttl = @ - 1]
            IN  a.user = r.user /\ a.digest = r.digest /\ a.ttl = r.ttl - 1
    BY DEF SessionRec
  <1>3. ASSUME NEW s \in SessionIds, Live(s)'
        PROVE  session[s] \in SessionRec /\ session'[s] = Aged(session[s]) /\ Aged(session[s]) # None
    BY <1>0, <1>3 DEF Tick, Live, TypeOK, Aged
  <1>4. \A s \in SessionIds : Live(s)' =>
            /\ Live(s) /\ session[s].ttl \in Nat /\ session[s].ttl > 1
            /\ session'[s].user = session[s].user /\ session'[s].digest = session[s].digest
            /\ session'[s].ttl = session[s].ttl - 1
    BY <1>1, <1>2, <1>3, ConstantsAssumption DEF Live
  <1>5. \A x \in IndexRec :
            /\ \/ AgedIndex(x).members = {}
               \/ AgedIndex(x).members = x.members /\ AgedIndex(x).ttl = x.ttl - 1
            /\ x.ttl > 1 => AgedIndex(x).members = x.members
    BY ConstantsAssumption DEF AgedIndex, IndexRec, NoIndex
  <1>6. \A u \in Users : index[u] \in IndexRec /\ index'[u] = AgedIndex(index[u])
    BY <1>0 DEF Tick, TypeOK
  <1> QED BY <1>4, <1>5, <1>6

(* The user of a live session never changes. *)
LEMMA UsersStay ==
    ASSUME IInv, [Next]_vars, NEW s \in SessionIds, Live(s), Live(s)'
    PROVE  session'[s].user = session[s].user
  <1>1. ASSUME NEW p \in Procs, DelIndex(p) \/ SRem(p) PROVE UNCHANGED session
    BY <1>1 DEF DelIndex, SRem
  <1>2. ASSUME NEW p \in Procs, RevokeTx(p) \/ RotateReuse(p) PROVE session'[s] = session[s]
    BY <1>2, EndEffect DEF Live, IInv, TypeOK
  <1>3. ASSUME NEW p \in Procs, CreateTx(p) PROVE session'[s] = session[s]
    BY <1>3, CreateEffect
  <1>4. ASSUME NEW p \in Procs, RotateFresh(p) PROVE session'[s].user = session[s].user
    BY <1>4, RenewEffect
  <1> QED BY <1>1, <1>2, <1>3, <1>4, StoreSteps, TickEffect

(* No step but the deletion of a whole index takes a live session out of it. *)
LEMMA IndexKeeps ==
    ASSUME IInv, RInv, [Next]_vars, NEW s \in SessionIds, Indexed(s), Live(s)',
           \A p \in Procs : ~DelIndex(p)
    PROVE  Indexed(s)' \/ session'[s].ttl <= CutOff
  <1>0. TypeOK
    BY DEF IInv
  <1>1. /\ Live(s) /\ session[s] \in SessionRec /\ session[s].user \in Users
        /\ s \in index[session[s].user].members
        /\ session[s].ttl \in Nat /\ index[session[s].user] \in IndexRec
        /\ index[session[s].user].ttl \in Nat
    BY <1>0, LiveOwns, Lifetimes DEF Indexed, TypeOK, IndexRec, SessionRec
  <1>2. session'[s].user = session[s].user
    BY <1>1, UsersStay
  <1>3. SUFFICES s \in index'[session[s].user].members \/ session'[s].ttl <= CutOff
    BY <1>2 DEF Indexed
  <1>4. CASE UNCHANGED <<session, index>>
    BY <1>1, <1>4
  <1>5. CASE Tick
    <2>1. /\ session'[s].ttl = session[s].ttl - 1
          /\ session[s].ttl <= index[session[s].user].ttl + CutOff
      BY <1>1, <1>5, TickEffect DEF RInv, IndexOutlives
    <2>2. CASE index[session[s].user].ttl > 1
      BY <1>1, <1>5, <2>2, TickEffect
    <2>3. CASE index[session[s].user].ttl <= 1
      BY <1>1, <2>1, <2>3, Lifetimes
    <2> QED BY <1>1, <2>2, <2>3
  <1>6. ASSUME NEW p \in Procs, CreateTx(p) PROVE s \in index'[session[s].user].members
    BY <1>1, <1>6, CreateEffect
  <1>7. ASSUME NEW p \in Procs, RotateFresh(p) PROVE s \in index'[session[s].user].members
    BY <1>1, <1>7, RenewEffect
  <1>8. ASSUME NEW p \in Procs, RevokeTx(p) \/ RotateReuse(p)
        PROVE  s \in index'[session[s].user].members
    <2>1. PICK x \in SessionIds, u \in Users :
              /\ session' = [session EXCEPT ![x] = None]
              /\ index' = [index EXCEPT ![u] = Without(@, {x})]
      BY <1>8, EndEffect
    <2>2. x # s
      BY <1>0, <2>1 DEF Live, TypeOK
    <2> QED BY <1>0, <1>1, <2>1, <2>2, WithoutTakes DEF TypeOK
  <1>9. ASSUME NEW p \in Procs, SRem(p) PROVE s \in index'[session[s].user].members
    <2>1. index' = [index EXCEPT ![proc[p].user] = Without(@, proc[p].stale)]
      BY <1>9 DEF SRem
    <2>2. proc[p].user = session[s].user => s \notin proc[p].stale
      BY <1>1, RInvCall DEF CallSifts
    <2> QED BY <1>0, <1>1, <2>1, <2>2, WithoutTakes DEF TypeOK
  <1> QED BY <1>4, <1>5, <1>6, <1>7, <1>8, <1>9, StoreSteps

(* Only a login puts an id into an index, and it is settled by then. *)
LEMMA IndexSettledKeeps == ASSUME IInv, RInv, [Next]_vars PROVE IndexSettled'
  <1>0. TypeOK /\ \A u \in Users : index[u] \in IndexRec /\ index[u].members \subseteq Settled'
    BY SettledStays DEF IInv, TypeOK, RInv, IndexSettled
  <1>1. SUFFICES ASSUME NEW u \in Users PROVE index'[u].members \subseteq Settled'
    BY DEF IndexSettled
  <1>2. CASE UNCHANGED <<session, index>>
    BY <1>0, <1>2
  <1>3. CASE Tick
    BY <1>0, <1>3, TickEffect
  <1>4. ASSUME NEW p \in Procs, CreateTx(p) PROVE index'[u].members \subseteq Settled'
    <2>1. PICK s \in SessionIds, v \in Users :
              /\ ~Live(s) /\ s = proc[p].sid /\ Creating(p) /\ ~Creating(p)'
              /\ \A w \in Users : w # v => index'[w] = index[w]
              /\ index'[v].members = index[v].members \cup {s}
      BY <1>4, CreateEffect
    <2>2. s \in Issued'
      <3>1. proc[p].digest \in Digests /\ owner[proc[p].digest] = s
        BY <2>1 DEF IInv, PendingFresh, CallsFormed, Formed, Creating
      <3> QED BY <1>4, <2>1, <3>1 DEF Issued, CreateTx
    <2>3. s \notin Pending'
      <3>1. \A q \in Procs : q # p => proc'[q] = proc[q]
        BY <1>0, <1>4 DEF CreateTx, Reply, TypeOK
      <3>2. \A q \in Procs : Creating(q)' => q # p /\ Creating(q) /\ proc'[q] = proc[q]
        BY <2>1, <3>1 DEF Creating
      <3> QED BY <2>1, <3>2 DEF Pending, IInv, PendingDistinct
    <2> QED BY <1>0, <2>1, <2>2, <2>3 DEF Settled
  <1>5. ASSUME NEW p \in Procs, RotateFresh(p) PROVE index'[u].members \subseteq Settled'
    BY <1>0, <1>5, RenewEffect
  <1>6. ASSUME NEW p \in Procs, RevokeTx(p) \/ RotateReuse(p) PROVE index'[u].members \subseteq Settled'
    <2>1. PICK x \in SessionIds, v \in Users : index' = [index EXCEPT ![v] = Without(@, {x})]
      BY <1>6, EndEffect
    <2> QED BY <1>0, <2>1, WithoutTakes DEF TypeOK
  <1>7. ASSUME NEW p \in Procs, SRem(p) PROVE index'[u].members \subseteq Settled'
    <2>1. index' = [index EXCEPT ![proc[p].user] = Without(@, proc[p].stale)]
      BY <1>7 DEF SRem
    <2> QED BY <1>0, <2>1, WithoutTakes DEF TypeOK
  <1>8. ASSUME NEW p \in Procs, DelIndex(p) PROVE index'[u].members \subseteq Settled'
    <2>1. index' = [index EXCEPT ![proc[p].user] = NoIndex]
      BY <1>8 DEF DelIndex
    <2> QED BY <1>0, <2>1 DEF TypeOK, NoIndex
  <1> QED BY <1>2, <1>3, <1>4, <1>5, <1>6, <1>7, <1>8, StoreSteps

(* Logins and rotations set the expiry of the index as far off as any session's, or
   short of it by what EXPIRE cuts off.                                           *)
LEMMA IndexOutlivesKeeps == ASSUME IInv, RInv, [Next]_vars PROVE IndexOutlives'
  <1>0. TypeOK /\ IInv'
    BY NextIInv DEF IInv
  <1>1. SUFFICES ASSUME NEW s \in SessionIds, Indexed(s)'
                 PROVE  session'[s].ttl <= index'[session'[s].user].ttl + CutOff
    BY DEF IndexOutlives
  <1>2. /\ session'[s] \in SessionRec /\ session'[s].user \in Users /\ Live(s)'
        /\ session'[s].ttl \in Nat /\ session'[s].ttl <= TTL
        /\ s \in index'[session'[s].user].members
    BY <1>0, <1>1, ConstantsAssumption DEF IInv, Indexed, TypeOK, Live, SessionRec
  <1> DEFINE u == session'[s].user
  <1>3. ASSUME session'[s] = session[s], s \in index[u].members, index'[u].ttl = index[u].ttl
        PROVE  session'[s].ttl <= index'[u].ttl + CutOff
    BY <1>2, <1>3 DEF RInv, IndexOutlives, Indexed, Live
  <1>4. TTL <= TTL + CutOff
    BY Lifetimes
  <1>5. CASE UNCHANGED <<session, index>>
    BY <1>2, <1>3, <1>5
  <1>6. CASE Tick
    <2>1. /\ Live(s) /\ session[s].ttl \in Nat /\ session[s].user = u
          /\ session'[s].ttl = session[s].ttl - 1
          /\ index'[u].members = index[u].members /\ index'[u].ttl = index[u].ttl - 1
      BY <1>2, <1>6, TickEffect
    <2>2. session[s].ttl <= index[u].ttl + CutOff /\ index[u].ttl \in Nat
      BY <1>0, <1>2, <2>1, Lifetimes DEF RInv, IndexOutlives, Indexed, TypeOK, IndexRec
    <2> QED BY <2>1, <2>2, Lifetimes
  <1>7. ASSUME NEW p \in Procs, CreateTx(p) PROVE session'[s].ttl <= index'[u].ttl + CutOff
    <2>1. PICK x \in SessionIds, v \in Users :
              /\ ~Live(x)
              /\ \A y \in SessionIds : y # x => session'[y] = session[y]
              /\ session'[x].user = v
              /\ \A w \in Users : w # v => index'[w] = index[w]
              /\ index'[v].ttl = IndexTTL
      BY <1>7, CreateEffect
    <2>2. CASE u = v
      BY <1>2, <1>4, <2>1, <2>2, Lifetimes
    <2>3. CASE u # v
      BY <1>2, <1>3, <2>1, <2>3
    <2> QED BY <2>2, <2>3
  <1>8. ASSUME NEW p \in Procs, RotateFresh(p) PROVE session'[s].ttl <= index'[u].ttl + CutOff
    <2>1. PICK x \in SessionIds, v \in Users :
              /\ \A y \in SessionIds : y # x => session'[y] = session[y]
              /\ session'[x].user = v
              /\ \A w \in Users : w # v => index'[w] = index[w]
              /\ index'[v].members = index[v].members
              /\ index[v].members # {} => index'[v].ttl = TTL
      BY <1>8, RenewEffect
    <2>2. CASE u = v
      BY <1>2, <1>4, <2>1, <2>2, Lifetimes
    <2>3. CASE u # v
      BY <1>2, <1>3, <2>1, <2>3
    <2> QED BY <2>2, <2>3
  <1>9. ASSUME NEW p \in Procs, RevokeTx(p) \/ RotateReuse(p) PROVE session'[s].ttl <= index'[u].ttl + CutOff
    <2>1. PICK x \in SessionIds, v \in Users :
              /\ session' = [session EXCEPT ![x] = None]
              /\ index' = [index EXCEPT ![v] = Without(@, {x})]
      BY <1>9, EndEffect
    <2>2. session'[s] = session[s] /\ index[u] \in IndexRec
      BY <1>0, <1>2, <2>1 DEF TypeOK, Live
    <2>3. s \in index[u].members /\ index'[u].ttl = index[u].ttl
      BY <1>0, <1>2, <2>1, <2>2, WithoutTakes DEF TypeOK
    <2> QED BY <1>3, <2>2, <2>3
  <1>10. ASSUME NEW p \in Procs, SRem(p) PROVE session'[s].ttl <= index'[u].ttl + CutOff
    <2>1. /\ session' = session
          /\ index' = [index EXCEPT ![proc[p].user] = Without(@, proc[p].stale)]
      BY <1>10 DEF SRem
    <2>2. index[u] \in IndexRec
      BY <1>0, <1>2 DEF TypeOK
    <2>3. s \in index[u].members /\ index'[u].ttl = index[u].ttl
      BY <1>0, <1>2, <2>1, <2>2, WithoutTakes DEF TypeOK
    <2> QED BY <1>3, <2>1, <2>3
  <1>11. ASSUME NEW p \in Procs, DelIndex(p) PROVE session'[s].ttl <= index'[u].ttl + CutOff
    <2>1. /\ session' = session
          /\ index' = [index EXCEPT ![proc[p].user] = NoIndex]
      BY <1>11 DEF DelIndex
    <2>2. s \in index[u].members /\ index'[u] = index[u]
      BY <1>0, <1>2, <2>1 DEF TypeOK, NoIndex
    <2> QED BY <1>3, <2>1, <2>2
  <1> QED BY <1>5, <1>6, <1>7, <1>8, <1>9, <1>10, <1>11, StoreSteps

LEMMA InitRInv == Init => RInv
  <1> SUFFICES ASSUME Init PROVE RInv
    OBVIOUS
  <1>1. /\ Idle.op = "none" /\ Idle.pc = "idle" /\ Idle.reply = "none"
        /\ Idle.ids = {} /\ Idle.todo = {} /\ Idle.stale = {} /\ Idle.cur = None
    BY DEF Idle
  <1>2. CallSettled(Idle) /\ CallPlaced(Idle) /\ CallEnds(Idle) /\ CallSifts(Idle)
    BY <1>1 DEF CallSettled, CallPlaced, CallEnds, CallSifts, Handled, Enders
  <1>3. IndexSettled /\ IndexOutlives
    BY DEF Init, IndexSettled, IndexOutlives, NoIndex, Indexed, Live
  <1>4. \A p \in Procs : proc[p] = Idle
    BY DEF Init
  <1> QED BY <1>2, <1>3, <1>4 DEF RInv

LEMMA NextRInv == IInv /\ RInv /\ [Next]_vars => RInv'
  <1> SUFFICES ASSUME IInv, RInv, [Next]_vars PROVE RInv'
    OBVIOUS
  <1>1. ASSUME NEW p \in Procs
        PROVE  CallSettled(proc[p])' /\ CallPlaced(proc[p])' /\ CallEnds(proc[p])' /\ CallSifts(proc[p])'
    BY CallsKeep, UsersStay
  <1> QED BY <1>1, IndexSettledKeeps, IndexOutlivesKeeps DEF RInv

(* What calls in progress hold and have ended, in every reachable state. *)
THEOREM RevocationInvariant == Spec => [](IInv /\ RInv)
  BY InitIInv, InitRInv, NextIInv, NextRInv, PTL DEF Spec

(* A reuse that Rotate reported has ended the session of the token, for good. *)
THEOREM StoreReuseEnds == Spec => []ReuseEndsSession
  <1>1. IInv /\ RInv => ReuseEndsSession
    <2> SUFFICES ASSUME IInv, RInv, NEW p \in Procs, proc[p].reply = "reuse"
                 PROVE  ~Live(owner[proc[p].digest])
      BY DEF ReuseEndsSession
    <2>1. proc[p].op = "rotate" /\ owner[proc[p].digest] \in SessionIds
      BY RInvCall DEF CallPlaced, CallSettled, Settled, Issued
    <2>2. owner[proc[p].digest] \in Handled(proc[p])
      BY <2>1 DEF Handled
    <2> QED BY <2>2, RInvCall DEF CallEnds
  <1> QED BY <1>1, RevocationInvariant, PTL

(* A Revoke that returned nil has ended its session, whatever ran beside it. *)
THEOREM StoreRevokeEnds == Spec => []RevokeEndsSession
  <1>1. IInv /\ RInv => RevokeEndsSession
    <2> SUFFICES ASSUME IInv, RInv, NEW p \in Procs, proc[p].op = "revoke", proc[p].reply = "ok"
                 PROVE  ~Live(proc[p].sid)
      BY DEF RevokeEndsSession
    <2>1. proc[p].sid \in SessionIds /\ proc[p].todo = {} /\ proc[p].cur = None
      BY RInvCall DEF CallPlaced, CallSettled, Settled, Issued, Enders
    <2>2. proc[p].sid \in Handled(proc[p])
      BY <2>1, ConstantsAssumption DEF Handled
    <2> QED BY <2>2, RInvCall DEF CallEnds
  <1> QED BY <1>1, RevocationInvariant, PTL

(* RevokeUser deletes the index, and Create opens the new session, only after every
   session that was listed has ended.                                             *)
THEOREM StoreRevokeUserEnds == Spec => []RevokeUserEndsListed
  <1>1. IInv /\ RInv => RevokeUserEndsListed
    <2> SUFFICES ASSUME IInv, RInv, NEW p \in Procs, proc[p].op \in {"create", "revokeUser"},
                        \/ proc[p].pc \in {"delIndex", "exec"}
                        \/ proc[p].op = "revokeUser" /\ proc[p].reply = "ok",
                        NEW s \in proc[p].ids
                 PROVE  ~Live(s)
      BY DEF RevokeUserEndsListed
    <2>1. s \in SessionIds /\ proc[p].todo = {} /\ proc[p].cur = None
      BY RInvCall DEF CallPlaced, CallSettled, Settled, Issued, Enders
    <2>2. s \in Handled(proc[p])
      BY <2>1, ConstantsAssumption DEF Handled
    <2> QED BY <2>2, RInvCall DEF CallEnds
  <1> QED BY <1>1, RevocationInvariant, PTL

(* Only the deletion of a whole index takes a live session out of it, or its expiry when
   no more than the fraction of a second that EXPIRE cut off is left to the session.     *)
THEOREM StoreIndexKeepsLive == Spec => IndexKeepsLive
  <1>1. IInv /\ RInv /\ [Next]_vars =>
          [\A s \in SessionIds :
              Indexed(s) /\ Live(s)' =>
                  \/ Indexed(s)'
                  \/ \E p \in Procs : DelIndex(p)
                  \/ session'[s].ttl <= CutOff]_vars
    BY IndexKeeps
  <1> QED BY <1>1, RevocationInvariant, PTL DEF Spec, IndexKeepsLive

(* With a lifetime of whole seconds, as in the shipped configuration (720h), only the
   deletion of a whole index takes a live session out of it.                          *)
THEOREM WholeSecondsKeepIndexed ==
    ASSUME TTL % Second = 0
    PROVE  Spec => [][\A s \in SessionIds :
               Indexed(s) /\ Live(s)' => Indexed(s)' \/ \E p \in Procs : DelIndex(p)]_vars
  <1>1. CutOff = 0
    BY DEF CutOff
  <1>2. ASSUME IInv, [Next]_vars, NEW s \in SessionIds, Live(s)' PROVE ~(session'[s].ttl <= CutOff)
    <2>1. session'[s] \in SessionRec
      BY <1>2, NextIInv DEF IInv, TypeOK, Live
    <2> QED BY <1>1, <2>1, Lifetimes DEF SessionRec
  <1>3. IInv /\ RInv /\ [Next]_vars =>
          [\A s \in SessionIds :
              Indexed(s) /\ Live(s)' => Indexed(s)' \/ \E p \in Procs : DelIndex(p)]_vars
    BY <1>2, IndexKeeps
  <1> QED BY <1>3, RevocationInvariant, PTL DEF Spec
----------------------------------------------------------------------------
(* The store implements SessionLife: its phases in terms of the notions above. *)
PhasesKnown ==
    /\ \A s \in SessionIds :
           Phase(s) = IF Live(s) THEN "live" ELSE IF s \in Settled THEN "ended" ELSE "unborn"
    /\ \A s \in SessionIds : Live(s) => s \in Settled
    /\ {d \in Minted : Live(owner[d]) \/ ~Opening(owner[d])} = {d \in Minted : owner[d] \in Settled}

LEMMA PhaseIs == IInv => PhasesKnown
  <1> SUFFICES ASSUME IInv PROVE PhasesKnown
    OBVIOUS
  <1>1. \A s \in SessionIds : s \in Settled <=> Given(s) /\ ~Opening(s)
    BY DEF Settled, Given, Opening, Issued, Pending
  <1>2. \A s \in SessionIds : Live(s) => s \in Settled
    BY LiveSettled
  <1>3. \A d \in Minted : owner[d] \in SessionIds /\ Given(owner[d])
    BY DEF IInv, TypeOK, Minted, Given
  <1> QED BY <1>1, <1>2, <1>3 DEF Phase, PhasesKnown

LEMMA PhaseWillBe == IInv' => PhasesKnown'
  BY PhaseIs, PTL

(* A creation goes on until its transaction runs or it is given up. *)
LEMMA CreatingLasts ==
    ASSUME IInv, RInv, [Next]_vars, NEW q \in Procs, Creating(q), ~CreateTx(q), ~Fail(q)
    PROVE  Creating(q)' /\ proc'[q].sid = proc[q].sid
  <1>0. TypeOK /\ proc[q] \in Proc /\ Formed(proc[q]) /\ CallPlaced(proc[q])
    BY CallFacts, RInvCall DEF IInv
  <1>1. ASSUME NEW p \in Procs, p # q, Start(p) \/ Command(p) \/ Fail(p) \/ Return(p)
        PROVE  proc'[q] = proc[q]
    BY <1>0, <1>1 DEF Start, StartCreate, StartList, StartRevokeUser, StartUserCall, StartRevoke,
        StartRotate, Command, SMembers, ListGet, RevokeGet, RevokeTx, DelIndex, SRem, CreateTx,
        RotateLua, RotateUnknown, RotateReuse, RotateOrphan, RotateFresh, Answer, Reply, Fail,
        Return, TypeOK
  <1>2. ASSUME NEW b \in Proc, b.op = "create", b.sid = proc[q].sid,
               proc' = [proc EXCEPT ![q] = AfterIds(b)]
        PROVE  Creating(q)' /\ proc'[q].sid = proc[q].sid
    <2> DEFINE c == AfterIds(b)
    <2>1. c.op = "create" /\ c.sid = proc[q].sid /\ c.pc \in {"get", "delIndex"}
      BY <1>2, AfterIdsMoves DEF AfterIds, Proc
    <2>2. proc'[q] = c
      BY <1>0, <1>2 DEF TypeOK
    <2> HIDE DEF c
    <2> QED BY <2>1, <2>2 DEF Creating
  <1>3. proc[q].op = "create" /\ proc[q].pc \in {"smembers", "get", "del", "delIndex", "exec"}
    BY DEF Creating
  <1>4. ASSUME Start(q) \/ Return(q) \/ SRem(q) \/ RotateLua(q) \/ ListGet(q) PROVE FALSE
    BY <1>3, <1>4 DEF Start, StartCreate, StartList, StartRevokeUser, StartUserCall, StartRevoke,
        StartRotate, Return, SRem, RotateLua, RotateUnknown, RotateReuse, RotateOrphan,
        RotateFresh, ListGet
  <1>5. CASE SMembers(q)
    <2> DEFINE found == index[proc[q].user].members
               b == [proc[q] EXCEPT !.ids = found, !.todo = found]
    <2>1. proc' = [proc EXCEPT ![q] = AfterIds(b)]
      BY <1>0, <1>5 DEF SMembers, TypeOK
    <2>2. found \subseteq SessionIds
      BY <1>0, <1>3 DEF Formed, TypeOK, IndexRec
    <2>3. b \in Proc /\ b.op = "create" /\ b.sid = proc[q].sid
      BY <1>0, <1>3, <2>2 DEF Proc
    <2> HIDE DEF b
    <2> QED BY <1>2, <2>1, <2>3
  <1>6. CASE RevokeGet(q)
    <2>1. PICK s \in proc[q].todo :
              IF Live(s)
              THEN proc' = [proc EXCEPT ![q] = Found(proc[q], s, session[s])]
              ELSE proc' = [proc EXCEPT ![q] = AfterIds(Looked(proc[q], s))]
      BY <1>6 DEF RevokeGet
    <2>2. s \in SessionIds
      BY <1>0 DEF Proc
    <2>3. CASE Live(s)
      <3> DEFINE f == Found(proc[q], s, session[s])
      <3>1. f.op = "create" /\ f.sid = proc[q].sid /\ f.pc = "del"
        BY <1>0, <1>3, <2>2, <2>3, LiveOwns, Finds
      <3>2. proc'[q] = f
        BY <1>0, <2>1, <2>3 DEF TypeOK
      <3> HIDE DEF f
      <3> QED BY <3>1, <3>2 DEF Creating
    <2>4. CASE ~Live(s)
      BY <1>0, <1>2, <1>3, <2>1, <2>2, <2>4, Looks
    <2> QED BY <2>3, <2>4
  <1>7. CASE RevokeTx(q)
    <2> DEFINE b == [proc[q] EXCEPT !.cur = None, !.read = None]
    <2>1. b \in Proc /\ b.op = "create" /\ b.sid = proc[q].sid
      BY <1>0, <1>3 DEF Proc
    <2>2. proc' = [proc EXCEPT ![q] = AfterIds(b)]
      BY <1>7 DEF RevokeTx
    <2> HIDE DEF b
    <2> QED BY <1>2, <2>1, <2>2
  <1>8. CASE DelIndex(q)
    <2>1. proc' = proc \/ proc' = [proc EXCEPT ![q].pc = "exec"]
      BY <1>3, <1>8 DEF DelIndex
    <2>2. proc'[q].op = "create" /\ proc'[q].sid = proc[q].sid /\ proc'[q].pc \in {"delIndex", "exec"}
      BY <1>0, <1>3, <1>8, <2>1 DEF DelIndex, TypeOK, Proc
    <2> QED BY <2>2 DEF Creating
  <1>9. CASE proc'[q] = proc[q]
    BY <1>9 DEF Creating
  <1>10. ASSUME Tick \/ UNCHANGED vars PROVE proc' = proc
    BY <1>10 DEF Tick, vars
  <1> QED BY <1>1, <1>4, <1>5, <1>6, <1>7, <1>8, <1>9, <1>10 DEF Next, Command

(* The creation of a session is over when its transaction has run or its call has
   failed, and no other step settles a session.                                    *)
LEMMA OwnerSteps ==
    ASSUME IInv, [Next]_vars
    PROVE  \/ owner' = owner
           \/ \E p \in Procs, u \in Users : StartCreate(p, u)
           \/ \E p \in Procs : RotateFresh(p)
  <1>1. ASSUME NEW p \in Procs, Fail(p) \/ Return(p) \/ (Start(p) /\ ~\E u \in Users : StartCreate(p, u))
        PROVE  owner' = owner
    BY <1>1 DEF Start, StartList, StartRevokeUser, StartUserCall, StartRevoke, StartRotate, Fail, Return
  <1>2. ASSUME NEW p \in Procs, Command(p), ~RotateFresh(p) PROVE owner' = owner
    BY <1>2 DEF Command, SMembers, ListGet, RevokeGet, RevokeTx, DelIndex, SRem, CreateTx,
                RotateLua, RotateUnknown, RotateReuse, RotateOrphan
  <1>3. ASSUME Tick \/ UNCHANGED vars PROVE owner' = owner
    BY <1>3 DEF Tick, vars
  <1> QED BY <1>1, <1>2, <1>3 DEF Next

LEMMA SettledSame ==
    ASSUME IInv, RInv, [Next]_vars,
           \A p \in Procs : ~CreateTx(p) /\ ~(Fail(p) /\ Creating(p))
    PROVE  Settled' = Settled
  <1>0. TypeOK
    BY DEF IInv
  <1>1. ASSUME NEW s \in Settled' PROVE s \in Settled
    <2>1. s \in SessionIds /\ s \in Issued' /\ s \notin Pending'
      BY DEF Settled, Issued
    <2>2. s \notin Pending
      BY <2>1, CreatingLasts DEF Pending
    <2>3. s \in Issued
      <3>1. CASE owner' = owner
        BY <2>1, <3>1 DEF Issued
      <3>2. ASSUME NEW p \in Procs, NEW u \in Users, StartCreate(p, u) PROVE s \in Issued
        <4>1. PICK x \in SessionIds \ Issued, d \in Digests \ Minted :
                  /\ proc' = [proc EXCEPT ![p] =
                        [Idle EXCEPT !.op = "create", !.user = u, !.sid = x, !.digest = d,
                                     !.pc = IF u \in SingleUsers THEN "smembers" ELSE "exec"]]
                  /\ owner' = [owner EXCEPT ![d] = x]
          BY <3>2 DEF StartCreate
        <4>2. proc'[p].op = "create" /\ proc'[p].sid = x /\ proc'[p].pc \in {"smembers", "exec"}
          BY <1>0, <4>1 DEF TypeOK, Idle
        <4>3. x \in Pending'
          BY <4>2 DEF Pending, Creating
        <4>4. s # x
          BY <2>1, <4>3
        <4> QED BY <1>0, <2>1, <4>1, <4>4 DEF Issued, TypeOK
      <3>3. ASSUME NEW p \in Procs, RotateFresh(p) PROVE s \in Issued
        <4>1. PICK x, n : /\ n \in Digests /\ Live(x) /\ x = Token(p).sid
                          /\ owner' = [owner EXCEPT ![n] = x]
          BY <3>3 DEF RotateFresh, IsCurrent
        <4>2. x \in SessionIds => x \in Issued
          BY <4>1, LiveOwns DEF Issued
        <4> QED BY <1>0, <2>1, <4>1, <4>2 DEF Issued, TypeOK
      <3> QED BY <3>1, <3>2, <3>3, OwnerSteps
    <2> QED BY <2>2, <2>3 DEF Settled
  <1> QED BY <1>1, SettledStays

LEMMA SettledOneMore ==
    ASSUME IInv, RInv, [Next]_vars, NEW p \in Procs, Creating(p), CreateTx(p) \/ Fail(p)
    PROVE  /\ Settled' = Settled \cup {proc[p].sid}
           /\ proc[p].sid \in SessionIds /\ proc[p].sid \notin Settled
           /\ proc[p].digest \in Digests /\ proc[p].digest \in Minted
           /\ owner' = owner /\ owner[proc[p].digest] = proc[p].sid
           /\ \A d \in Digests : owner[d] = proc[p].sid => d = proc[p].digest
  <1>0. TypeOK
    BY DEF IInv
  <1> DEFINE s == proc[p].sid
  <1>1. /\ s \in SessionIds /\ proc[p].digest \in Digests
        /\ owner[proc[p].digest] = s
        /\ \A d \in Digests : owner[d] = s => d = proc[p].digest
    BY DEF IInv, CallsFormed, Formed, PendingFresh, Creating
  <1>2. owner' = owner
    BY DEF CreateTx, Fail
  <1>3. /\ \A q \in Procs : q # p => proc'[q] = proc[q]
        /\ proc'[p].pc = "done"
    <2>1. PICK r : Reply(p, r)
      BY DEF CreateTx, Fail
    <2> QED BY <1>0, <2>1 DEF Reply, TypeOK, Proc
  <1>4. \A q \in Procs : Creating(q)' <=> q # p /\ Creating(q)
    BY <1>3 DEF Creating
  <1>5. Pending' = Pending \ {s}
    BY <1>3, <1>4 DEF Pending, IInv, PendingDistinct
  <1>6. Issued' = Issued /\ s \in Issued
    BY <1>1, <1>2 DEF Issued
  <1>7. s \in Pending
    BY DEF Pending
  <1>8. proc[p].digest \in Minted
    BY <1>1, ConstantsAssumption DEF Minted
  <1> QED BY <1>1, <1>2, <1>5, <1>6, <1>7, <1>8 DEF Settled

(* The tokens SessionLife knows of are those of the settled sessions. *)
Used == {d \in Minted : owner[d] \in Settled}

LEMMA UsedSame ==
    ASSUME IInv, RInv, [Next]_vars,
           \A p \in Procs : ~CreateTx(p) /\ ~(Fail(p) /\ Creating(p)) /\ ~RotateFresh(p)
    PROVE  Used' = Used
  <1>0. TypeOK /\ Settled' = Settled
    BY SettledSame DEF IInv
  <1>1. CASE owner' = owner
    BY <1>0, <1>1 DEF Used, Minted
  <1>2. ASSUME NEW p \in Procs, NEW u \in Users, StartCreate(p, u) PROVE Used' = Used
    <2>1. PICK x \in SessionIds \ Issued, d \in Digests \ Minted : owner' = [owner EXCEPT ![d] = x]
      BY <1>2 DEF StartCreate
    <2>2. x \notin Settled
      BY <2>1 DEF Settled
    <2>3. \A e \in Digests : e \in Used' <=> e \in Used
      BY <1>0, <2>1, <2>2 DEF Used, Minted, TypeOK
    <2> QED BY <2>3 DEF Used, Minted
  <1> QED BY <1>1, <1>2, OwnerSteps

(* The state of SessionLife that a state of the store stands for. *)
PhaseBar == [s \in SessionIds |-> Phase(s)]
TokenBar == [s \in SessionIds |-> IF Live(s) THEN session[s].digest ELSE None]
UsedBar  == {d \in Minted : Live(owner[d]) \/ ~Opening(owner[d])}

LEMMA Bars ==
    ASSUME IInv, IInv'
    PROVE  /\ UsedBar = Used /\ UsedBar' = Used'
           /\ \A s \in SessionIds :
                 /\ PhaseBar[s] = IF Live(s) THEN "live" ELSE IF s \in Settled THEN "ended" ELSE "unborn"
                 /\ PhaseBar'[s] = IF Live(s)' THEN "live" ELSE IF s \in Settled' THEN "ended" ELSE "unborn"
           /\ \A s \in SessionIds : (Live(s) => s \in Settled) /\ (Live(s)' => s \in Settled')
  BY PhaseIs, PhaseWillBe DEF PhasesKnown, UsedBar, Used, PhaseBar

LEMMA LifeStays ==
    ASSUME IInv, IInv', Settled' = Settled, Used' = Used,
           \A s \in SessionIds : Live(s)' <=> Live(s),
           \A s \in SessionIds : Live(s) => session'[s].digest = session[s].digest
    PROVE  UNCHANGED Life!vars
  <1>1. PhaseBar' = PhaseBar
    BY Bars DEF PhaseBar
  <1>2. TokenBar' = TokenBar
    BY DEF TokenBar
  <1>3. UsedBar' = UsedBar
    BY Bars
  <1> QED BY <1>1, <1>2, <1>3 DEF Life!vars, PhaseBar, TokenBar, UsedBar

LEMMA LifeEnds ==
    ASSUME IInv, IInv', Settled' = Settled, Used' = Used,
           \A s \in SessionIds : Live(s)' => Live(s) /\ session'[s].digest = session[s].digest
    PROVE  Life!Next \/ UNCHANGED Life!vars
  <1>0. PICK S \in SUBSET SessionIds : S = {s \in SessionIds : Live(s) /\ ~Live(s)'}
    OBVIOUS
  <1>1. CASE S = {}
    BY <1>0, <1>1, LifeStays
  <1>2. CASE S # {}
    <2>1. \A s \in S : PhaseBar[s] = "live"
      BY <1>0, Bars
    <2>2. PhaseBar' = [s \in SessionIds |-> IF s \in S THEN "ended" ELSE PhaseBar[s]]
      <3>1. \A s \in SessionIds : PhaseBar'[s] = IF s \in S THEN "ended" ELSE PhaseBar[s]
        BY <1>0, Bars
      <3> QED BY <3>1 DEF PhaseBar
    <2>3. TokenBar' = [s \in SessionIds |-> IF s \in S THEN None ELSE TokenBar[s]]
      BY <1>0 DEF TokenBar
    <2>4. UsedBar' = UsedBar
      BY Bars
    <2>5. Life!End(S)
      BY <1>2, <2>1, <2>2, <2>3, <2>4 DEF Life!End, PhaseBar, TokenBar, UsedBar
    <2> QED BY <2>5 DEF Life!Next
  <1> QED BY <1>1, <1>2

LEMMA LifeOpens ==
    ASSUME IInv, IInv', RInv, [Next]_vars, NEW p \in Procs, CreateTx(p)
    PROVE  Life!Next
  <1>0. TypeOK /\ proc[p] \in Proc /\ Formed(proc[p]) /\ Creating(p)
    BY CallFacts DEF IInv, CreateTx, Formed, Creating
  <1>1. PICK s \in SessionIds, d \in Digests :
           /\ s = proc[p].sid /\ d = proc[p].digest
           /\ Settled' = Settled \cup {s} /\ s \notin Settled
           /\ d \in Minted /\ owner' = owner /\ owner[d] = s
           /\ \A e \in Digests : owner[e] = s => e = d
    BY <1>0, SettledOneMore
  <1>2. session' = [session EXCEPT ![s] = [user |-> proc[p].user, digest |-> d, ttl |-> TTL]]
    BY <1>1 DEF CreateTx, Opened
  <1>3. ~Live(s) /\ Live(s)'
    <2>1. [user |-> proc[p].user, digest |-> d, ttl |-> TTL] \in SessionRec
      BY <1>0, <1>1, ConstantsAssumption DEF SessionRec, CreateTx, Formed
    <2>2. session'[s] \in SessionRec
      BY <1>0, <1>1, <1>2, <2>1 DEF TypeOK
    <2> QED BY <1>1, <2>2, LiveSettled, ConstantsAssumption DEF Live
  <1>4. \A x \in SessionIds : session'[x] = IF x = s THEN [user |-> proc[p].user, digest |-> d, ttl |-> TTL]
                                                     ELSE session[x]
    BY <1>0, <1>2 DEF TypeOK
  <1>5. d \notin Used /\ Used' = Used \cup {d}
    BY <1>1 DEF Used, Minted
  <1>6. PhaseBar[s] = "unborn" /\ PhaseBar' = [PhaseBar EXCEPT ![s] = "live"]
    <2>1. \A x \in SessionIds : PhaseBar'[x] = IF x = s THEN "live" ELSE PhaseBar[x]
      BY <1>1, <1>3, <1>4, Bars DEF Live
    <2>2. PhaseBar[s] = "unborn"
      BY <1>1, <1>3, Bars
    <2> QED BY <2>1, <2>2 DEF PhaseBar
  <1>7. TokenBar' = [TokenBar EXCEPT ![s] = d]
    <2>1. \A x \in SessionIds : TokenBar'[x] = IF x = s THEN d ELSE TokenBar[x]
      BY <1>3, <1>4 DEF TokenBar, Live
    <2> QED BY <2>1 DEF TokenBar
  <1>8. UsedBar = Used /\ UsedBar' = Used'
    BY Bars
  <1>9. Life!Open(s, d)
    BY <1>5, <1>6, <1>7, <1>8 DEF Life!Open, PhaseBar, TokenBar, UsedBar
  <1> QED BY <1>1, <1>5, <1>8, <1>9 DEF Life!Next, UsedBar

LEMMA LifeAbandons ==
    ASSUME IInv, IInv', RInv, [Next]_vars, NEW p \in Procs, Creating(p), Fail(p)
    PROVE  Life!Next
  <1>1. PICK s \in SessionIds, d \in Digests :
           /\ s = proc[p].sid /\ d = proc[p].digest
           /\ Settled' = Settled \cup {s} /\ s \notin Settled
           /\ d \in Minted /\ owner' = owner /\ owner[d] = s
           /\ \A e \in Digests : owner[e] = s => e = d
    BY SettledOneMore
  <1>2. session' = session
    BY DEF Fail, keys
  <1>3. ~Live(s)
    BY <1>1, LiveSettled
  <1>5. d \notin Used /\ Used' = Used \cup {d}
    BY <1>1 DEF Used, Minted
  <1>6. PhaseBar[s] = "unborn" /\ PhaseBar' = [PhaseBar EXCEPT ![s] = "ended"]
    <2>1. \A x \in SessionIds : PhaseBar'[x] = IF x = s THEN "ended" ELSE PhaseBar[x]
      BY <1>1, <1>2, <1>3, Bars DEF Live
    <2>2. PhaseBar[s] = "unborn"
      BY <1>1, <1>3, Bars
    <2> QED BY <2>1, <2>2 DEF PhaseBar
  <1>7. TokenBar' = TokenBar
    BY <1>2 DEF TokenBar, Live
  <1>8. UsedBar = Used /\ UsedBar' = Used'
    BY Bars
  <1>9. Life!Abandon(s, d)
    BY <1>5, <1>6, <1>7, <1>8 DEF Life!Abandon, PhaseBar, TokenBar, UsedBar
  <1> QED BY <1>1, <1>5, <1>8, <1>9 DEF Life!Next, UsedBar

LEMMA LifeRenews ==
    ASSUME IInv, IInv', RInv, [Next]_vars, NEW p \in Procs, RotateFresh(p)
    PROVE  Life!Next
  <1>0. TypeOK /\ proc[p] \in Proc /\ Formed(proc[p]) /\ proc[p].op = "rotate"
    BY CallFacts DEF IInv, RotateFresh, Formed
  <1>1. PICK s \in SessionIds : s = Token(p).sid /\ Live(s)
    <2>1. Token(p) \in RefreshRec /\ Live(Token(p).sid)
      BY <1>0 DEF RotateFresh, Token, IsCurrent, Formed, TypeOK
    <2>2. Token(p).sid \in SessionIds
      BY <2>1 DEF RefreshRec
    <2> QED BY <2>1, <2>2
  <1>2. PICK n \in Digests \ Minted :
           /\ session' = [session EXCEPT ![s] = [@ EXCEPT !.digest = n, !.ttl = TTL]]
           /\ owner' = [owner EXCEPT ![n] = s]
    BY <1>1 DEF RotateFresh
  <1>3. session[s] \in SessionRec /\ s \in Settled
    BY <1>1, LiveOwns, LiveSettled
  <1> DEFINE sess == [session[s] EXCEPT !.digest = n, !.ttl = TTL]
  <1>4. sess \in SessionRec /\ sess.digest = n
    BY <1>2, <1>3, SessionRenewed
  <1>5. session'[s] = sess /\ \A x \in SessionIds : x # s => session'[x] = session[x]
    BY <1>0, <1>1, <1>2 DEF TypeOK
  <1> HIDE DEF sess
  <1>6. \A x \in SessionIds : Live(x)' <=> Live(x)
    BY <1>1, <1>4, <1>5, ConstantsAssumption DEF Live
  <1>7. Settled' = Settled
    <2>1. \A q \in Procs : ~CreateTx(q) /\ ~(Fail(q) /\ Creating(q))
      <3>1. \A q \in Procs : CreateTx(q) \/ Fail(q) => owner' = owner
        BY DEF CreateTx, Fail
      <3>2. owner' # owner
        BY <1>0, <1>1, <1>2, ConstantsAssumption DEF TypeOK, Minted
      <3> QED BY <3>1, <3>2
    <2> QED BY <2>1, SettledSame
  <1>8. n \notin Used /\ Used' = Used \cup {n}
    <2>1. \A e \in Digests : owner'[e] = IF e = n THEN s ELSE owner[e]
      BY <1>0, <1>2 DEF TypeOK
    <2> QED BY <1>1, <1>2, <1>3, <1>7, <2>1, ConstantsAssumption DEF Used, Minted
  <1>9. PhaseBar[s] = "live" /\ PhaseBar' = PhaseBar
    BY <1>1, <1>6, <1>7, Bars DEF PhaseBar
  <1>10. TokenBar' = [TokenBar EXCEPT ![s] = n]
    <2>1. \A x \in SessionIds : TokenBar'[x] = IF x = s THEN n ELSE TokenBar[x]
      BY <1>1, <1>4, <1>5, <1>6 DEF TokenBar, Live
    <2> QED BY <2>1 DEF TokenBar
  <1>11. UsedBar = Used /\ UsedBar' = Used'
    BY Bars
  <1>12. Life!Renew(s, n)
    BY <1>8, <1>9, <1>10, <1>11 DEF Life!Renew, PhaseBar, TokenBar, UsedBar
  <1> QED BY <1>1, <1>2, <1>8, <1>11, <1>12 DEF Life!Next, UsedBar

(* Every step of the store is a step of SessionLife, or changes nothing it shows. *)
LEMMA LifeSteps == IInv /\ RInv /\ [Next]_vars => [Life!Next]_(Life!vars)
  <1> SUFFICES ASSUME IInv, RInv, [Next]_vars PROVE Life!Next \/ UNCHANGED Life!vars
    OBVIOUS
  <1>0. IInv' /\ TypeOK
    BY NextIInv DEF IInv
  <1>1. CASE \E p \in Procs : CreateTx(p)
    BY <1>0, <1>1, LifeOpens
  <1>2. CASE \E p \in Procs : Fail(p) /\ Creating(p)
    BY <1>0, <1>2, LifeAbandons
  <1>3. CASE \E p \in Procs : RotateFresh(p)
    BY <1>0, <1>3, LifeRenews
  <1>4. CASE \A p \in Procs : ~CreateTx(p) /\ ~(Fail(p) /\ Creating(p)) /\ ~RotateFresh(p)
    <2>1. Settled' = Settled /\ Used' = Used
      BY <1>4, SettledSame, UsedSame
    <2>2. \A s \in SessionIds : Live(s)' => Live(s) /\ session'[s].digest = session[s].digest
      <3>1. CASE UNCHANGED <<session, index>>
        BY <3>1 DEF Live
      <3>2. CASE Tick
        BY <3>2, TickEffect
      <3>3. ASSUME NEW p \in Procs, RevokeTx(p) \/ RotateReuse(p)
            PROVE  \A s \in SessionIds : Live(s)' => Live(s) /\ session'[s].digest = session[s].digest
        BY <1>0, <3>3, EndEffect DEF Live, TypeOK
      <3>4. ASSUME NEW p \in Procs, DelIndex(p) \/ SRem(p)
            PROVE  \A s \in SessionIds : Live(s)' => Live(s) /\ session'[s].digest = session[s].digest
        BY <3>4 DEF DelIndex, SRem, Live
      <3> QED BY <1>4, <3>1, <3>2, <3>3, <3>4, StoreSteps
    <2> QED BY <1>0, <2>1, <2>2, LifeEnds
  <1> QED BY <1>1, <1>2, <1>3, <1>4

LEMMA LifeInit == Init => Life!Init
  <1> SUFFICES ASSUME Init PROVE Life!Init
    OBVIOUS
  <1>1. \A s \in SessionIds : ~Live(s) /\ ~Given(s)
    BY ConstantsAssumption DEF Init, Live, Given
  <1>2. Minted = {}
    BY DEF Init, Minted
  <1> QED BY <1>1, <1>2 DEF Life!Init, Phase

(* The store implements SessionLife: rotations, revocations, listings, expiry and
   failures in any order open no session twice, give no token out twice, and never
   bring an ended session back.                                                    *)
THEOREM StoreImplementsLife == Spec => ImplementsLife
  <1>1. Init => Life!Init
    BY LifeInit
  <1>2. IInv /\ RInv /\ [Next]_vars => [Life!Next]_(Life!vars)
    BY LifeSteps
  <1> QED BY <1>1, <1>2, RevocationInvariant, PTL DEF Spec, ImplementsLife, Life!Spec
====
