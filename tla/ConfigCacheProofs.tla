--------------------------- MODULE ConfigCacheProofs ---------------------------
(***************************************************************************)
(* Proofs about ConfigCache, for any configurations, values and requests   *)
(* and any TTL: what can leave the cache stale, and for how long.          *)
(***************************************************************************)
EXTENDS ConfigCache, TLAPS

(* A change has its key; a list in hand is as old as its request at most. *)
Formed(c) ==
    /\ c.pc = "transaction" => c.key \in Keys
    /\ c.pc \in {"transaction", "invalidate"} => c.op # "list"
    /\ c.pc \in {"get", "query"} => c.age = 0
    /\ c.pc = "put" => c.items \in List /\ c.age <= c.spent
    /\ c.op = "list" /\ c.reply = "ok" => c.age <= TTL + Patience

CallsFormed == \A p \in Procs : Formed(call[p])

(* A list in hand is the list of the database until a change commits. *)
FreshInHand ==
    \A p \in Procs : call[p].pc = "put" /\ ~call[p].overtaken => call[p].items = PublicList

(* What the cached list has lived and what it has left to live is bounded. *)
CachedBounded == cached # None => cached.age + cached.ttl <= TTL + Patience

IInv ==
    /\ TypeOK
    /\ CallsFormed
    /\ FreshInHand
    /\ CachedBounded
    /\ StaleHasACause

----------------------------------------------------------------------------
LEMMA CallFacts ==
    ASSUME IInv, NEW p \in Procs
    PROVE  call[p] \in Call /\ Formed(call[p])
  BY DEF IInv, TypeOK, CallsFormed

LEMMA PublicListTyped ==
    ASSUME TypeOK PROVE PublicList \in List
  BY DEF TypeOK, PublicList, List, Item

(* One request moves on and the table stays: what is left to show of the invariant is
   the cache's own part.                                                            *)
LEMMA OneCallMoves ==
    ASSUME IInv, NEW p \in Procs, NEW c \in Call, Formed(c),
           call' = [call EXCEPT ![p] = c],
           UNCHANGED configs,
           c.pc = "put" => \/ c.items = PublicList
                           \/ c.items = call[p].items /\ c.overtaken = call[p].overtaken
                              /\ call[p].pc = "put",
           cached' \in Entry \cup {None}, suspect' \in BOOLEAN
    PROVE  TypeOK' /\ CallsFormed' /\ FreshInHand'
  <1>1. call' \in [Procs -> Call] /\ \A q \in Procs : call'[q] = IF q = p THEN c ELSE call[q]
    BY DEF IInv, TypeOK
  <1>2. TypeOK'
    BY <1>1 DEF IInv, TypeOK
  <1>3. CallsFormed'
    BY <1>1 DEF IInv, CallsFormed
  <1>4. PublicList' = PublicList
    BY DEF PublicList
  <1>5. FreshInHand'
    BY <1>1, <1>4 DEF IInv, FreshInHand
  <1> QED BY <1>2, <1>3, <1>5

(* If the cache is left alone too, it is enough that the request was not to delete the
   key, or gives it up openly.                                                       *)
LEMMA QuietStep ==
    ASSUME IInv, NEW p \in Procs, NEW c \in Call, Formed(c),
           call' = [call EXCEPT ![p] = c],
           UNCHANGED <<configs, cached>>,
           c.pc = "put" => \/ c.items = PublicList
                           \/ c.items = call[p].items /\ c.overtaken = call[p].overtaken
                              /\ call[p].pc = "put",
           suspect' \in BOOLEAN, suspect => suspect',
           call[p].pc = "invalidate" => suspect' \/ c.pc = "invalidate"
    PROVE  IInv'
  <1>1. cached' \in Entry \cup {None}
    BY DEF IInv, TypeOK
  <1>2. TypeOK' /\ CallsFormed' /\ FreshInHand'
    BY <1>1, OneCallMoves
  <1>3. CachedBounded'
    BY DEF IInv, CachedBounded
  <1>4. \A q \in Procs : call'[q] = IF q = p THEN c ELSE call[q]
    BY DEF IInv, TypeOK
  <1>5. PublicList' = PublicList
    BY DEF PublicList
  <1>6. StaleHasACause'
    BY <1>4, <1>5 DEF IInv, StaleHasACause
  <1> QED BY <1>2, <1>3, <1>6 DEF IInv

LEMMA DoneTyped ==
    ASSUME NEW c \in Call, NEW r \in Replies \ {"none"}
    PROVE  /\ Done(c, r) \in Call
           /\ Done(c, r).pc = "done" /\ Done(c, r).op = c.op /\ Done(c, r).reply = r
           /\ Done(c, r).age = c.age
  <1>1. 0 \in 0..Patience /\ r \in Replies /\ "done" \in Pcs
    BY CacheAssumption DEF Pcs
  <1>2. Done(c, r) \in Call
    BY <1>1 DEF Done, Call
  <1>3. /\ Done(c, r).pc = "done" /\ Done(c, r).op = c.op /\ Done(c, r).reply = r
        /\ Done(c, r).age = c.age
    BY DEF Done, Call
  <1> QED BY <1>2, <1>3

LEMMA DoneFormed ==
    ASSUME NEW c \in Call, NEW r \in Replies \ {"none"},
           c.op = "list" /\ r = "ok" => c.age <= TTL + Patience
    PROVE  Formed(Done(c, r))
  BY DoneTyped DEF Formed

----------------------------------------------------------------------------
LEMMA IdleFacts ==
    /\ Idle \in Call /\ Formed(Idle)
    /\ Idle.pc = "idle" /\ Idle.reply = "none" /\ Idle.age = 0
  BY CacheAssumption DEF Idle, Call, Ops, Pcs, Replies, Ages, Formed

LEMMA InitIInv == Init => IInv
  <1> SUFFICES ASSUME Init PROVE IInv
    OBVIOUS
  <1>2. TypeOK /\ CallsFormed
    BY IdleFacts DEF Init, TypeOK, CallsFormed
  <1>3. FreshInHand /\ CachedBounded /\ StaleHasACause
    BY IdleFacts DEF Init, FreshInHand, CachedBounded, StaleHasACause
  <1> QED BY <1>2, <1>3 DEF IInv

LEMMA StartStep ==
    ASSUME IInv, NEW p \in Procs, StartWrite(p) \/ StartDelete(p) \/ StartList(p)
    PROVE  IInv'
  <1>1. \A c \in Call : Formed(c) /\ c.pc # "put" /\ Begin(p, c) => IInv'
    <2> SUFFICES ASSUME NEW c \in Call, Formed(c), c.pc # "put", Begin(p, c) PROVE IInv'
      OBVIOUS
    <2>1. suspect' \in BOOLEAN /\ (suspect => suspect')
      BY DEF Begin, IInv, TypeOK
    <2>2. /\ call' = [call EXCEPT ![p] = c] /\ UNCHANGED <<configs, cached>>
          /\ call[p].pc # "invalidate"
      BY DEF Begin
    <2> QED BY <2>1, <2>2, QuietStep
  <1>2. CASE StartWrite(p)
    <2> PICK op \in {"create", "update"}, k \in Keys, i \in Item :
          Begin(p, [Idle EXCEPT !.op = op, !.pc = "transaction", !.key = k, !.item = i])
      BY <1>2 DEF StartWrite
    <2> DEFINE c == [Idle EXCEPT !.op = op, !.pc = "transaction", !.key = k, !.item = i]
    <2>1. c \in Call /\ Formed(c) /\ c.pc # "put"
      BY IdleFacts DEF Call, Ops, Pcs, Formed
    <2> QED BY <2>1, <1>1
  <1>3. CASE StartDelete(p)
    <2> PICK k \in Keys : Begin(p, [Idle EXCEPT !.op = "delete", !.pc = "transaction", !.key = k])
      BY <1>3 DEF StartDelete
    <2> DEFINE c == [Idle EXCEPT !.op = "delete", !.pc = "transaction", !.key = k]
    <2>1. c \in Call /\ Formed(c) /\ c.pc # "put"
      BY IdleFacts DEF Call, Ops, Pcs, Formed
    <2> QED BY <2>1, <1>1
  <1>4. CASE StartList(p)
    <2> DEFINE c == [Idle EXCEPT !.op = "list", !.pc = "get"]
    <2>1. c \in Call /\ Formed(c) /\ c.pc # "put"
      BY IdleFacts DEF Call, Ops, Pcs, Formed
    <2> QED BY <2>1, <1>1, <1>4 DEF StartList
  <1> QED BY <1>2, <1>3, <1>4

LEMMA TransactionStep ==
    ASSUME IInv, NEW p \in Procs, Transaction(p) PROVE IInv'
  <1> DEFINE c == call[p]
  <1>0. c \in Call /\ Formed(c) /\ c.pc = "transaction" /\ c.key \in Keys
    BY CallFacts DEF Transaction, Formed
  <1>1. CASE Reply(p, "refused") /\ UNCHANGED <<configs, suspect>>
    <2> DEFINE d == Done(c, "refused")
    <2>1. d \in Call /\ Formed(d) /\ d.pc = "done"
      BY <1>0, DoneTyped, DoneFormed DEF Replies
    <2>2. call' = [call EXCEPT ![p] = d]
      BY <1>1 DEF Reply
    <2>3. UNCHANGED cached
      BY DEF Transaction
    <2>4. suspect' \in BOOLEAN /\ (suspect => suspect')
      BY <1>1 DEF IInv, TypeOK
    <2> HIDE DEF d
    <2> QED BY <1>0, <1>1, <2>1, <2>2, <2>3, <2>4, QuietStep
  <1>2. CASE /\ configs' = [configs EXCEPT ![c.key] = c.item]
             /\ \E lost \in BOOLEAN :
                  /\ call' = [q \in Procs |->
                        IF q # p THEN Overtake(call[q])
                        ELSE IF lost THEN Done(c, "error") ELSE AfterCommit(c)]
                  /\ suspect' = (suspect \/ lost)
    <2> PICK lost \in BOOLEAN :
                  /\ call' = [q \in Procs |->
                        IF q # p THEN Overtake(call[q])
                        ELSE IF lost THEN Done(c, "error") ELSE AfterCommit(c)]
                  /\ suspect' = (suspect \/ lost)
      BY <1>2
    <2>1. configs' \in [Keys -> Item \cup {None}]
      BY <1>0, <1>2 DEF IInv, TypeOK, Call
    <2>2. \A q \in Procs : Overtake(call[q]) \in Call /\ Formed(Overtake(call[q]))
      BY CallFacts DEF Overtake, Call, Formed
    <2>3. Done(c, "error") \in Call /\ Formed(Done(c, "error")) /\ Done(c, "error").pc = "done"
      BY <1>0, DoneTyped, DoneFormed DEF Replies
    <2>4. AfterCommit(c) \in Call /\ Formed(AfterCommit(c)) /\ AfterCommit(c).pc = "invalidate"
      BY <1>0 DEF AfterCommit, Call, Pcs, Formed
    <2>5. cached' = cached /\ suspect' \in BOOLEAN
      BY DEF Transaction, IInv, TypeOK
    <2>6. TypeOK'
      BY <2>1, <2>2, <2>3, <2>4, <2>5 DEF IInv, TypeOK
    <2>7. CallsFormed'
      BY <2>2, <2>3, <2>4 DEF CallsFormed
    <2>8. FreshInHand'
      <3> SUFFICES ASSUME NEW q \in Procs, call'[q].pc = "put" PROVE call'[q].overtaken
        BY DEF FreshInHand
      <3>1. q # p
        BY <2>3, <2>4
      <3> QED BY <3>1, CallFacts DEF Overtake, Call
    <2>9. CachedBounded'
      BY <2>5 DEF IInv, CachedBounded
    <2>10. StaleHasACause'
      <3>1. CASE lost
        BY <3>1 DEF StaleHasACause
      <3>2. CASE ~lost
        <4>1. call'[p].pc = "invalidate"
          BY <3>2, <2>4
        <4> QED BY <4>1 DEF StaleHasACause
      <3> QED BY <3>1, <3>2
    <2> QED BY <2>6, <2>7, <2>8, <2>9, <2>10 DEF IInv
  <1> QED BY <1>1, <1>2 DEF Transaction

LEMMA InvalidateStep ==
    ASSUME IInv, NEW p \in Procs, Invalidate(p) PROVE IInv'
  <1> DEFINE c == call[p]
  <1>0. c \in Call /\ Formed(c) /\ c.pc = "invalidate" /\ c.op # "list"
    BY CallFacts DEF Invalidate, Formed
  <1>1. \A r \in {"ok", "postCommit", "error"} :
          Done(c, r) \in Call /\ Formed(Done(c, r)) /\ Done(c, r).pc = "done"
    BY <1>0, DoneTyped, DoneFormed DEF Replies
  <1>2. CASE cached' = None /\ suspect' = FALSE
    <2>1. PICK d \in Call : Formed(d) /\ d.pc # "put" /\ call' = [call EXCEPT ![p] = d]
      <3>1. CASE call' = call
        <4>1. call' = [call EXCEPT ![p] = c]
          BY <3>1 DEF IInv, TypeOK
        <4> QED BY <4>1, <1>0
      <3>2. CASE Reply(p, "ok") \/ Reply(p, "postCommit")
        BY <3>2, <1>1 DEF Reply
      <3>3. CASE ~(cached' = None /\ suspect' = FALSE)
        BY <1>2, <3>3
      <3> QED BY <1>2, <3>1, <3>2 DEF Invalidate, Reply, Done
    <2>2. UNCHANGED configs
      BY DEF Invalidate
    <2>3. TypeOK' /\ CallsFormed' /\ FreshInHand'
      BY <1>2, <2>1, <2>2, OneCallMoves
    <2> QED BY <1>2, <2>3 DEF IInv, CachedBounded, StaleHasACause
  <1>3. CASE UNCHANGED cached /\ suspect' = TRUE /\ Reply(p, "postCommit")
    <2> DEFINE d == Done(c, "postCommit")
    <2>1. d \in Call /\ Formed(d) /\ d.pc = "done"
      BY <1>1
    <2>2. call' = [call EXCEPT ![p] = d] /\ UNCHANGED configs
      BY <1>3 DEF Reply, Invalidate
    <2> HIDE DEF d
    <2> QED BY <1>3, <2>1, <2>2, QuietStep
  <1> QED BY <1>2, <1>3 DEF Invalidate

LEMMA GetStep ==
    ASSUME IInv, NEW p \in Procs, Get(p) PROVE IInv'
  <1> DEFINE c == call[p]
  <1>0. /\ c \in Call /\ Formed(c) /\ c.pc = "get" /\ c.age = 0
        /\ UNCHANGED <<configs, cached, suspect>>
        /\ suspect' \in BOOLEAN
    BY CallFacts DEF Get, Formed, IInv, TypeOK
  <1>1. CASE cached # None /\ call' = [call EXCEPT ![p] =
                 Done([@ EXCEPT !.items = cached.items, !.age = cached.age], "ok")]
    <2> DEFINE b == [c EXCEPT !.items = cached.items, !.age = cached.age]
               d == Done(b, "ok")
    <2>1. cached \in Entry /\ cached.ttl \in 1..TTL /\ cached.age \in Ages /\ cached.items \in List
      BY <1>1 DEF IInv, TypeOK, Entry
    <2>2. cached.age <= TTL + Patience
      BY <1>1, <2>1, CacheAssumption DEF IInv, CachedBounded, Ages
    <2>3. b \in Call /\ b.age = cached.age
      BY <1>0, <2>1 DEF Call
    <2> HIDE DEF b
    <2>4. d \in Call /\ Formed(d) /\ d.pc = "done"
      BY <2>2, <2>3, DoneTyped, DoneFormed DEF Replies
    <2>5. call' = [call EXCEPT ![p] = d]
      BY <1>1 DEF b
    <2> HIDE DEF d
    <2> QED BY <1>0, <2>4, <2>5, QuietStep
  <1>2. CASE call' = [call EXCEPT ![p].pc = "query"]
    <2> DEFINE d == [c EXCEPT !.pc = "query"]
    <2>1. d \in Call /\ Formed(d) /\ d.pc = "query" /\ call' = [call EXCEPT ![p] = d]
      BY <1>0, <1>2 DEF Call, Pcs, Formed
    <2> HIDE DEF d
    <2> QED BY <1>0, <2>1, QuietStep
  <1> QED BY <1>1, <1>2 DEF Get

LEMMA QueryStep ==
    ASSUME IInv, NEW p \in Procs, Query(p) PROVE IInv'
  <1> DEFINE c == call[p]
             d == [c EXCEPT !.pc = "put", !.items = PublicList]
  <1>0. /\ c \in Call /\ Formed(c) /\ c.pc = "query" /\ c.age = 0
        /\ UNCHANGED <<configs, cached, suspect>>
        /\ suspect' \in BOOLEAN
    BY CallFacts DEF Query, Formed, IInv, TypeOK
  <1>1. PublicList \in List
    BY PublicListTyped DEF IInv
  <1>2. d \in Call /\ d.items = PublicList /\ d.pc = "put"
        /\ d.op = c.op /\ d.reply = c.reply /\ d.age = 0 /\ d.spent = c.spent
    BY <1>0, <1>1 DEF Call, Pcs
  <1>4. c.spent >= 0 /\ 0 <= TTL + Patience
    BY <1>0, CacheAssumption DEF Call
  <1>5. Formed(d)
    BY <1>1, <1>2, <1>4 DEF Formed
  <1>3. call' = [call EXCEPT ![p] = d]
    BY DEF Query
  <1> HIDE DEF d
  <1> QED BY <1>0, <1>2, <1>3, <1>5, QuietStep

LEMMA PutStep ==
    ASSUME IInv, NEW p \in Procs, Put(p) PROVE IInv'
  <1> DEFINE c == call[p]
             d == Done(c, "ok")
  <1>0. /\ c \in Call /\ Formed(c) /\ c.pc = "put" /\ c.items \in List
        /\ c.age \in Ages /\ c.age <= Patience /\ c.overtaken \in BOOLEAN
    <2>1. c \in Call /\ Formed(c) /\ c.pc = "put"
      BY CallFacts DEF Put
    <2> QED BY <2>1, CacheAssumption DEF Formed, Call, Ages
  <1>1. d \in Call /\ Formed(d) /\ d.pc = "done"
    BY <1>0, DoneTyped, DoneFormed, CacheAssumption DEF Replies, Ages
  <1>2. UNCHANGED configs
    BY DEF Put
  <1>3. CASE /\ cached' = [items |-> c.items, ttl |-> TTL, age |-> c.age]
             /\ suspect' = c.overtaken
             /\ Reply(p, "ok") \/ call' = call
    <2>1. PICK e \in {c, d} : call' = [call EXCEPT ![p] = e]
      BY <1>3 DEF Reply, IInv, TypeOK
    <2>2. cached' \in Entry /\ suspect' \in BOOLEAN
      BY <1>0, <1>3, CacheAssumption DEF Entry
    <2>3. e \in Call /\ Formed(e) /\ (e.pc = "put" => e = c)
      BY <1>0, <1>1
    <2>4. TypeOK' /\ CallsFormed' /\ FreshInHand'
      BY <1>0, <1>2, <2>1, <2>2, <2>3, OneCallMoves
    <2>5. CachedBounded'
      BY <1>0, <1>3, CacheAssumption DEF CachedBounded, Ages
    <2>6. PublicList' = PublicList
      BY <1>2 DEF PublicList
    <2>7. StaleHasACause'
      BY <1>0, <1>3, <2>6 DEF IInv, FreshInHand, StaleHasACause
    <2> QED BY <2>4, <2>5, <2>7 DEF IInv
  <1>4. CASE Reply(p, "ok") /\ UNCHANGED <<cached, suspect>>
    <2>1. call' = [call EXCEPT ![p] = d] /\ suspect' \in BOOLEAN /\ (suspect => suspect')
      BY <1>4 DEF Reply, IInv, TypeOK
    <2> HIDE DEF d
    <2> QED BY <1>0, <1>1, <1>2, <1>4, <2>1, QuietStep
  <1> QED BY <1>3, <1>4 DEF Put

LEMMA EndStep ==
    ASSUME IInv, NEW p \in Procs, Fail(p) \/ Return(p) PROVE IInv'
  <1> DEFINE c == call[p]
  <1>0. c \in Call /\ Formed(c) /\ UNCHANGED <<configs, cached>>
    BY CallFacts DEF Fail, Return
  <1>1. CASE Fail(p)
    <2> DEFINE d == Done(c, "error")
    <2>1. d \in Call /\ Formed(d) /\ d.pc = "done"
      BY <1>0, DoneTyped, DoneFormed DEF Replies
    <2>2. call' = [call EXCEPT ![p] = d]
      BY <1>1 DEF Fail, Reply
    <2>3. suspect' \in BOOLEAN /\ (suspect => suspect') /\ (c.pc = "invalidate" => suspect')
      BY <1>1 DEF Fail, IInv, TypeOK
    <2> HIDE DEF d
    <2> QED BY <1>0, <2>1, <2>2, <2>3, QuietStep
  <1>2. CASE Return(p)
    <2>2. call' = [call EXCEPT ![p] = Idle] /\ c.pc = "done" /\ suspect' = suspect
      BY <1>2 DEF Return
    <2>3. suspect' \in BOOLEAN
      BY <2>2 DEF IInv, TypeOK
    <2> QED BY IdleFacts, <1>0, <2>2, <2>3, QuietStep
  <1> QED BY <1>1, <1>2

LEMMA OlderKeeps ==
    ASSUME NEW c \in Call, Formed(c), Active(c) => c.spent < Patience
    PROVE  /\ Older(c) \in Call /\ Formed(Older(c))
           /\ Older(c).pc = c.pc /\ Older(c).items = c.items /\ Older(c).overtaken = c.overtaken
  <1>1. CASE ~Active(c)
    BY <1>1 DEF Older
  <1>2. CASE Active(c)
    <2>1. c.spent \in Nat /\ c.spent + 1 \in 0..Patience /\ c.age \in Ages
      BY <1>2, CacheAssumption DEF Call
    <2>2. c.pc = "put" => c.age + 1 <= c.spent + 1 /\ c.age + 1 \in Ages
      BY <2>1, CacheAssumption DEF Formed, Ages
    <2>3. Older(c) \in Call
      BY <1>2, <2>1, <2>2 DEF Older, Call
    <2>4. /\ Older(c).pc = c.pc /\ Older(c).items = c.items /\ Older(c).overtaken = c.overtaken
          /\ Older(c).op = c.op /\ Older(c).key = c.key /\ Older(c).reply = c.reply
          /\ Older(c).spent = c.spent + 1
          /\ Older(c).age = IF c.pc = "put" THEN c.age + 1 ELSE c.age
      BY <1>2 DEF Older, Call
    <2>5. c.op = "list" /\ c.reply = "ok" => c.age <= TTL + Patience
      BY DEF Formed
    <2>6. c.pc = "put" => c.age + 1 <= TTL + Patience
      BY <2>1, <2>2, CacheAssumption DEF Ages
    <2>7. Formed(Older(c))
      BY <2>2, <2>4, <2>5, <2>6 DEF Formed
    <2> QED BY <2>3, <2>4, <2>7
  <1> QED BY <1>1, <1>2

LEMMA TickStep ==
    ASSUME IInv, Tick PROVE IInv'
  <1>1. \A p \in Procs :
          /\ call'[p] = Older(call[p]) /\ call'[p] \in Call /\ Formed(call'[p])
          /\ call'[p].pc = call[p].pc /\ call'[p].items = call[p].items
          /\ call'[p].overtaken = call[p].overtaken
    BY CallFacts, OlderKeeps DEF Tick
  <1>2. PublicList' = PublicList /\ configs' = configs
    BY DEF Tick, PublicList
  <1>3. cached' \in Entry \cup {None} /\ suspect' \in BOOLEAN /\ CachedBounded'
    <2>1. CASE cached = None \/ cached.ttl = 1
      BY <2>1 DEF Tick, CachedBounded
    <2>2. CASE ~(cached = None \/ cached.ttl = 1)
      <3>1. cached \in Entry /\ cached.ttl \in 1..TTL /\ cached.age \in Ages /\ cached.items \in List
        BY <2>2 DEF IInv, TypeOK, Entry
      <3>2. cached.age + cached.ttl <= TTL + Patience
        BY <2>2 DEF IInv, CachedBounded
      <3>3. cached.ttl - 1 \in 1..TTL /\ cached.age + 1 \in Ages
        BY <2>2, <3>1, <3>2, CacheAssumption DEF Ages
      <3>4. cached' = [cached EXCEPT !.ttl = @ - 1, !.age = @ + 1] /\ suspect' = suspect
        BY <2>2 DEF Tick
      <3>5. cached' \in Entry /\ cached'.ttl = cached.ttl - 1 /\ cached'.age = cached.age + 1
        BY <3>1, <3>3, <3>4 DEF Entry
      <3>6. cached'.age + cached'.ttl <= TTL + Patience
        BY <3>1, <3>2, <3>5, CacheAssumption DEF Ages
      <3> QED BY <3>4, <3>5, <3>6 DEF IInv, TypeOK, CachedBounded
    <2> QED BY <2>1, <2>2
  <1>4. TypeOK' /\ CallsFormed'
    BY <1>1, <1>2, <1>3 DEF Tick, IInv, TypeOK, CallsFormed
  <1>5. FreshInHand'
    BY <1>1, <1>2 DEF IInv, FreshInHand
  <1>6. StaleHasACause'
    <2>1. CASE cached = None \/ cached.ttl = 1
      BY <2>1 DEF Tick, StaleHasACause
    <2>2. CASE ~(cached = None \/ cached.ttl = 1)
      <3>1. cached \in Entry /\ cached' = [cached EXCEPT !.ttl = @ - 1, !.age = @ + 1]
            /\ suspect' = suspect
        BY <2>2 DEF Tick, IInv, TypeOK
      <3>2. cached'.items = cached.items
        BY <3>1 DEF Entry
      <3> QED BY <1>1, <1>2, <2>2, <3>1, <3>2 DEF IInv, StaleHasACause
    <2> QED BY <2>1, <2>2
  <1> QED BY <1>3, <1>4, <1>5, <1>6 DEF IInv

LEMMA NextIInv == IInv /\ [Next]_vars => IInv'
  <1> SUFFICES ASSUME IInv, [Next]_vars PROVE IInv'
    OBVIOUS
  <1>1. CASE UNCHANGED vars
    BY <1>1 DEF vars, IInv, TypeOK, CallsFormed, FreshInHand, CachedBounded, StaleHasACause,
                PublicList
  <1>2. CASE Tick
    BY <1>2, TickStep
  <1>3. ASSUME NEW p \in Procs, StartWrite(p) \/ StartDelete(p) \/ StartList(p) PROVE IInv'
    BY <1>3, StartStep
  <1>4. ASSUME NEW p \in Procs, Transaction(p) PROVE IInv'
    BY <1>4, TransactionStep
  <1>5. ASSUME NEW p \in Procs, Invalidate(p) PROVE IInv'
    BY <1>5, InvalidateStep
  <1>6. ASSUME NEW p \in Procs, Get(p) \/ Query(p) \/ Put(p) PROVE IInv'
    BY <1>6, GetStep, QueryStep, PutStep
  <1>7. ASSUME NEW p \in Procs, Fail(p) \/ Return(p) PROVE IInv'
    BY <1>7, EndStep
  <1> QED BY <1>1, <1>2, <1>3, <1>4, <1>5, <1>6, <1>7 DEF Next

----------------------------------------------------------------------------
(* The inductive invariant of the module: typing, the ages, and what a list in hand is
   worth (systemconfig/service.go).                                                  *)
THEOREM CacheInvariant == Spec => []IInv
  BY InitIInv, NextIInv, PTL DEF Spec

(* Every variable has its type, whatever the sets and the bounds. *)
THEOREM CacheTyped == Spec => []TypeOK
  <1>1. IInv => TypeOK
    BY DEF IInv
  <1> QED BY <1>1, CacheInvariant, PTL

(* The public list in Redis is out of date only while a change is about to delete it,
   after a failure past a commit, or after a late fill (service.go:54-106).         *)
THEOREM CacheStaleHasACause == Spec => []StaleHasACause
  <1>1. IInv => StaleHasACause
    BY DEF IInv
  <1> QED BY <1>1, CacheInvariant, PTL

(* No answer is older than the TTL and one request, whatever failed (redis/cache.go). *)
THEOREM CacheBoundedStaleness == Spec => []BoundedStaleness
  <1>1. IInv => BoundedStaleness
    BY DEF IInv, CallsFormed, Formed, BoundedStaleness
  <1> QED BY <1>1, CacheInvariant, PTL
====
