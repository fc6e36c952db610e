------------------------------ MODULE ConfigCache ------------------------------
(***************************************************************************)
(* The dynamic configuration module: internal/modules/systemconfig,        *)
(* service.go over the system_configs table and the one Redis key that     *)
(* holds the public list.                                                  *)
(*                                                                         *)
(* A change commits to PostgreSQL and then deletes the key; ListPublic     *)
(* fills the key when it misses.  Nothing keeps the two apart, so a fill   *)
(* may land a list that was read before the change.  A value is a model    *)
(* value; types, descriptions and timestamps are left out.  The event that *)
(* follows the deletion has no subscriber in the repository and no effect. *)
(***************************************************************************)
EXTENDS Naturals

CONSTANTS
    Keys, Values, Procs,
    TTL,            \* systemconfig.cache_ttl, in clock ticks
    Patience,       \* the longest life of one request, in clock ticks
    None

Item == [value: Values, public: BOOLEAN]
List == [Keys -> Values \cup {None}]     \* what ListPublic returns of each key

ASSUME CacheAssumption ==
    /\ TTL \in Nat \ {0} /\ Patience \in Nat
    /\ None \notin Keys \cup Values \cup Item \cup List

VARIABLES
    configs,    \* the system_configs table
    cached,     \* the public list in Redis: its items, its ttl, and its age
    call,       \* the request each process serves
    suspect     \* history: no invalidation is to come for what the cache holds

vars == <<configs, cached, call, suspect>>

----------------------------------------------------------------------------
Ops     == {"none", "create", "update", "delete", "list"}
Pcs     == {"idle", "transaction", "invalidate", "get", "query", "put", "done"}
Replies == {"none", "ok", "refused", "postCommit", "error"}
Ages    == 0..(TTL + Patience + 1)

(* spent: ticks since the request began;  items and age: the list in hand and the ticks
   since it was read from PostgreSQL;  overtaken, a history field: has a change
   committed since?                                                                   *)
Call == [op: Ops, pc: Pcs, reply: Replies, key: Keys \cup {None}, item: Item \cup {None},
         spent: 0..Patience, items: List \cup {None}, age: Ages, overtaken: BOOLEAN]

Idle == [op |-> "none", pc |-> "idle", reply |-> "none", key |-> None, item |-> None,
         spent |-> 0, items |-> None, age |-> 0, overtaken |-> FALSE]

Entry == [items: List, ttl: 1..TTL, age: Ages]

Init ==
    /\ configs = [k \in Keys |-> None]
    /\ cached  = None
    /\ call    = [p \in Procs |-> Idle]
    /\ suspect = FALSE

(* ListPublicSystemConfigs: the rows with is_public. *)
PublicList ==
    [k \in Keys |-> IF configs[k] # None /\ configs[k].public THEN configs[k].value ELSE None]

----------------------------------------------------------------------------
Begin(p, c) ==
    /\ call[p].pc = "idle"
    /\ call' = [call EXCEPT ![p] = c]
    /\ UNCHANGED <<configs, cached, suspect>>

StartWrite(p) == \E op \in {"create", "update"}, k \in Keys, i \in Item :
    Begin(p, [Idle EXCEPT !.op = op, !.pc = "transaction", !.key = k, !.item = i])

StartDelete(p) == \E k \in Keys :
    Begin(p, [Idle EXCEPT !.op = "delete", !.pc = "transaction", !.key = k])

StartList(p) == Begin(p, [Idle EXCEPT !.op = "list", !.pc = "get"])

Done(c, answer) == [c EXCEPT !.pc = "done", !.reply = answer, !.spent = 0]
Reply(p, answer) == call' = [call EXCEPT ![p] = Done(@, answer)]

(* Once a change is in, every list in hand was read before it. *)
Overtake(c) == [c EXCEPT !.overtaken = @ \/ c.pc = "put"]

----------------------------------------------------------------------------
(* The statement of the transaction finds a conflict, or no row, and is rolled back. *)
Refused(c) ==
    IF c.op = "create" THEN configs[c.key] # None ELSE configs[c.key] = None

AfterCommitOfPublic(c) ==                  \* mutant: only a public config invalidates
    IF c.op = "delete" \/ c.item.public THEN [c EXCEPT !.pc = "invalidate"] ELSE Done(c, "ok")

AfterCommit(c) == [c EXCEPT !.pc = "invalidate"]

(* WithinTransaction around one INSERT, UPDATE or DELETE.  When the reply to COMMIT is
   lost the service reports an error for a change that is in, and never gets to
   afterCommit (service.go:32-39, postgres/repository.go:43-50).                     *)
Transaction(p) ==
    /\ call[p].pc = "transaction"
    /\ LET c == call[p]
       IN  \/ Refused(c) /\ Reply(p, "refused") /\ UNCHANGED <<configs, suspect>>
           \/ /\ ~Refused(c)
              /\ configs' = [configs EXCEPT ![c.key] = c.item]
              /\ \E lost \in BOOLEAN :
                   /\ call' = [q \in Procs |->
                         IF q # p THEN Overtake(call[q])
                         ELSE IF lost THEN Done(c, "error") ELSE AfterCommit(c)]
                   /\ suspect' = (suspect \/ lost)
    /\ UNCHANGED cached

(* afterCommit: DEL of the key.  A failed DEL has or has not run. *)
Invalidate(p) ==
    /\ call[p].pc = "invalidate"
    /\ \/ /\ cached' = None /\ suspect' = FALSE
          /\ Reply(p, "ok") \/ Reply(p, "postCommit") \/ call' = call
       \/ /\ UNCHANGED cached /\ suspect' = TRUE
          /\ Reply(p, "postCommit")
    /\ UNCHANGED configs

----------------------------------------------------------------------------
(* ListPublic. *)

GetSliding(p) ==                           \* mutant: a hit renews the TTL
    /\ call[p].pc = "get"
    /\ \/ /\ cached # None
          /\ cached' = [cached EXCEPT !.ttl = TTL]
          /\ call' = [call EXCEPT ![p] =
                 Done([@ EXCEPT !.items = cached.items, !.age = cached.age], "ok")]
       \/ call' = [call EXCEPT ![p].pc = "query"] /\ UNCHANGED cached
    /\ UNCHANGED <<configs, suspect>>

(* A hit answers the request; a miss, or an error of Redis, leaves it to PostgreSQL. *)
Get(p) ==
    /\ call[p].pc = "get"
    /\ \/ /\ cached # None
          /\ call' = [call EXCEPT ![p] =
                 Done([@ EXCEPT !.items = cached.items, !.age = cached.age], "ok")]
       \/ call' = [call EXCEPT ![p].pc = "query"]
    /\ UNCHANGED <<configs, cached, suspect>>

Query(p) ==
    /\ call[p].pc = "query"
    /\ call' = [call EXCEPT ![p].pc = "put", ![p].items = PublicList]
    /\ UNCHANGED <<configs, cached, suspect>>

PutForever(p) ==                           \* mutant: SET without a TTL, written ttl 0
    /\ call[p].pc = "put"
    /\ cached' = [items |-> call[p].items, ttl |-> 0, age |-> call[p].age]
    /\ suspect' = call[p].overtaken
    /\ Reply(p, "ok")
    /\ UNCHANGED configs

(* SET with the TTL.  go-redis sends it again when the reply is lost; when it fails the
   request answers all the same (service.go:62).                                      *)
Put(p) ==
    /\ call[p].pc = "put"
    /\ LET c == call[p]
       IN  \/ /\ cached' = [items |-> c.items, ttl |-> TTL, age |-> c.age]
              /\ suspect' = c.overtaken
              /\ Reply(p, "ok") \/ call' = call
           \/ Reply(p, "ok") /\ UNCHANGED <<cached, suspect>>
    /\ UNCHANGED configs

----------------------------------------------------------------------------
(* An error, a timeout or a crash, anywhere; past the commit it keeps the key. *)
Fail(p) ==
    /\ call[p].pc \notin {"idle", "done"}
    /\ Reply(p, "error")
    /\ suspect' = (suspect \/ call[p].pc = "invalidate")
    /\ UNCHANGED <<configs, cached>>

Return(p) ==
    /\ call[p].pc = "done"
    /\ call' = [call EXCEPT ![p] = Idle]
    /\ UNCHANGED <<configs, cached, suspect>>

(* Time passes: Redis expires the key, and no request outlives its patience. *)
Active(c) == c.pc \notin {"idle", "done"}

Older(c) ==
    IF ~Active(c) THEN c
    ELSE [c EXCEPT !.spent = @ + 1, !.age = IF c.pc = "put" THEN @ + 1 ELSE @]

Tick ==
    /\ \A p \in Procs : Active(call[p]) => call[p].spent < Patience
    /\ call' = [p \in Procs |-> Older(call[p])]
    /\ IF cached = None \/ cached.ttl = 1
       THEN cached' = None /\ suspect' = FALSE
       ELSE /\ cached.age < TTL + Patience + 1
            /\ cached' = [cached EXCEPT !.ttl = @ - 1, !.age = @ + 1]
            /\ UNCHANGED suspect
    /\ UNCHANGED configs

Next ==
    \/ \E p \in Procs :
         \/ StartWrite(p) \/ StartDelete(p) \/ StartList(p)
         \/ Transaction(p) \/ Invalidate(p) \/ Get(p) \/ Query(p) \/ Put(p)
         \/ Fail(p) \/ Return(p)
    \/ Tick

Spec == Init /\ [][Next]_vars

----------------------------------------------------------------------------
(* Every variable has its type. *)
TypeOK ==
    /\ configs \in [Keys -> Item \cup {None}]
    /\ cached \in Entry \cup {None}
    /\ call \in [Procs -> Call]
    /\ suspect \in BOOLEAN

(* The cached list is the list of the database, or a change is about to delete it, or
   one of three things went wrong before: a change lost its DEL or the reply to its
   COMMIT, or a list read before a change was put after it.  So a change that answers
   ok, with no fill under way, is seen by every later ListPublic, a config turned
   private included (service.go:54-106).                                             *)
StaleHasACause ==
    cached # None /\ cached.items # PublicList
        => suspect \/ \E p \in Procs : call[p].pc = "invalidate"

(* Whatever went wrong, a list that is answered was the public list of the database no
   longer ago than the TTL and the life of the request that put it (redis/cache.go). *)
BoundedStaleness ==
    \A p \in Procs : call[p].op = "list" /\ call[p].reply = "ok" =>
        call[p].age <= TTL + Patience
====
