-------------------------- MODULE SessionRefinement --------------------------
(* The Redis session store implements SessionLife.  A session is unborn until the
   transaction of its Create has run, live while its key exists, ended afterwards;
   the tokens in use are those of the sessions that are no longer unborn.          *)
EXTENDS SessionStore

Opening(s) == \E p \in Procs : Creating(p) /\ proc[p].sid = s
Given(s)   == \E d \in Digests : owner[d] = s

Phase(s) == CASE Live(s)                             -> "live"
              [] ~Live(s) /\ Given(s) /\ ~Opening(s) -> "ended"
              [] OTHER                               -> "unborn"

Life == INSTANCE SessionLife WITH
    phase <- [s \in SessionIds |-> Phase(s)],
    token <- [s \in SessionIds |-> IF Live(s) THEN session[s].digest ELSE None],
    used  <- {d \in Minted : Live(owner[d]) \/ ~Opening(owner[d])}

(* Every behaviour of the store is one of SessionLife: rotations, revocations,
   listings, expiry and failures in any order open no session twice, never give a
   token out twice, and never bring an ended session back.                         *)
ImplementsLife == Life!Spec
====
