----------------------------- MODULE LoginLimiter -----------------------------
(***************************************************************************)
(* The login rate limit: the loop at the head of Login (auth/service.go)   *)
(* and Allow of the Redis store (auth/redis/store.go).  A login counts     *)
(* against its client address first and then against its account, each a   *)
(* Redis counter that the first INCR is to give an expiry.  INCR and       *)
(* EXPIRE are two commands, and go-redis sends either again when its reply *)
(* is lost.                                                                *)
(***************************************************************************)
EXTENDS Naturals

CONSTANTS
    Clients, Accounts, Procs,
    Limit,          \* auth.login_attempts
    Window,         \* auth.login_window, in clock ticks
    MaxCount,       \* bound on a counter, 64 bits wide in Redis
    NoKey           \* no counter

Counters == Clients \cup Accounts

ASSUME LimiterAssumption ==
    /\ Limit \in Nat \ {0} /\ Window \in Nat \ {0}
    /\ MaxCount \in Nat /\ MaxCount > Limit
    /\ NoKey \notin Counters /\ Clients \cap Accounts = {}

VARIABLES
    count,      \* the counter of each key; 0 when the key is absent
    left,       \* the ticks it has left; 0 when it has no expiry
    call,       \* the login each process serves
    passed      \* history: the logins let past the key since its counter was born

limiterVars == <<count, left, call, passed>>

----------------------------------------------------------------------------
Pcs     == {"idle", "incr", "expire", "done"}
Replies == {"none", "allowed", "limited", "error"}

(* key: the counter the login is at;  next: the one after it, or NoKey. *)
Call == [pc: Pcs, reply: Replies, key: Counters \cup {NoKey}, next: Accounts \cup {NoKey}]

Idle == [pc |-> "idle", reply |-> "none", key |-> NoKey, next |-> NoKey]

LimiterInit ==
    /\ count  = [k \in Counters |-> 0]
    /\ left   = [k \in Counters |-> 0]
    /\ call   = [p \in Procs |-> Idle]
    /\ passed = [k \in Counters |-> 0]

Attempt(p) ==
    /\ call[p].pc = "idle"
    /\ \E c \in Clients, a \in Accounts :
         call' = [call EXCEPT ![p] = [Idle EXCEPT !.pc = "incr", !.key = c, !.next = a]]
    /\ UNCHANGED <<count, left, passed>>

Decided(answer) == [Idle EXCEPT !.pc = "done", !.reply = answer]
Reply(p, answer) == call' = [call EXCEPT ![p] = Decided(answer)]

(* The key after this one, or the password check. *)
Allowed(c) ==
    IF c.next = NoKey THEN Decided("allowed")
    ELSE [c EXCEPT !.pc = "incr", !.key = c.next, !.next = NoKey]

WithinBefore(n) == n - 1 <= Limit          \* mutant: compares the count before the INCR
Within(n)       == n <= Limit

(* INCR.  A count of one asks for the expiry, another one decides. *)
Incr(p) ==
    /\ call[p].pc = "incr"
    /\ LET k == call[p].key
           n == count[k] + 1
       IN  /\ n <= MaxCount
           /\ count' = [count EXCEPT ![k] = n]
           /\ \/ call' = call /\ UNCHANGED passed         \* the reply is lost, INCR is sent again
              \/ /\ call' = [call EXCEPT ![p] =
                        IF n = 1 THEN [@ EXCEPT !.pc = "expire"]
                        ELSE IF Within(n) THEN Allowed(@) ELSE Decided("limited")]
                 /\ passed' = [passed EXCEPT ![k] = IF Within(n) THEN @ + 1 ELSE @]
    /\ UNCHANGED left

ExpireAdds(p) ==                           \* mutant: the window is added to what is left
    /\ call[p].pc = "expire"
    /\ LET k == call[p].key
       IN  left' = [left EXCEPT ![k] = IF count[k] = 0 THEN 0 ELSE @ + Window]
    /\ call' = [call EXCEPT ![p] = Allowed(@)] \/ call' = call
    /\ UNCHANGED <<count, passed>>

(* EXPIRE, which does nothing to an absent key; the first attempt is allowed. *)
Expire(p) ==
    /\ call[p].pc = "expire"
    /\ LET k == call[p].key
       IN  left' = [left EXCEPT ![k] = IF count[k] = 0 THEN 0 ELSE Window]
    /\ call' = [call EXCEPT ![p] = Allowed(@)] \/ call' = call
    /\ UNCHANGED <<count, passed>>

(* An error of Redis, a cancelled request or a crash; Login answers ErrUnavailable. *)
Fail(p) ==
    /\ call[p].pc \in {"incr", "expire"}
    /\ Reply(p, "error")
    /\ UNCHANGED <<count, left, passed>>

Return(p) ==
    /\ call[p].pc = "done"
    /\ call' = [call EXCEPT ![p] = Idle]
    /\ UNCHANGED <<count, left, passed>>

Elapse ==
    /\ left'   = [k \in Counters |-> IF left[k] > 0 THEN left[k] - 1 ELSE 0]
    /\ count'  = [k \in Counters |-> IF left[k] = 1 THEN 0 ELSE count[k]]
    /\ passed' = [k \in Counters |-> IF left[k] = 1 THEN 0 ELSE passed[k]]
    /\ UNCHANGED call

LimiterNext ==
    \/ \E p \in Procs : Attempt(p) \/ Incr(p) \/ Expire(p) \/ Fail(p) \/ Return(p)
    \/ Elapse

LimiterSpec == LimiterInit /\ [][LimiterNext]_limiterVars

----------------------------------------------------------------------------
(* Every variable has its type. *)
LimiterTypeOK ==
    /\ count \in [Counters -> 0..MaxCount]
    /\ left \in [Counters -> 0..Window]
    /\ call \in [Procs -> Call]
    /\ passed \in [Counters -> Nat]

(* However many logins run at once, no more than Limit of them get past a client or
   an account while its counter lives (auth/redis/store.go:184-196).                *)
AtMostLimit == \A k \in Counters : passed[k] <= Limit
====
