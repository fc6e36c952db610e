----------------------------- MODULE SessionLife -----------------------------
(***************************************************************************)
(* What the session store promises its callers, with no keys, no index, no *)
(* clock and no concurrency: a session is opened once, is known by one     *)
(* refresh token at a time, each token ever given out is new, and a        *)
(* session that has ended has ended for good.                              *)
(***************************************************************************)
CONSTANTS SessionIds, Digests, None

VARIABLES phase, token, used

vars == <<phase, token, used>>

Init ==
    /\ phase = [s \in SessionIds |-> "unborn"]
    /\ token = [s \in SessionIds |-> None]
    /\ used  = {}

(* A login opens the session under its first token. *)
Open(s, d) ==
    /\ phase[s] = "unborn" /\ d \notin used
    /\ phase' = [phase EXCEPT ![s] = "live"]
    /\ token' = [token EXCEPT ![s] = d]
    /\ used'  = used \cup {d}

(* A login that fails uses up its session id and its token. *)
Abandon(s, d) ==
    /\ phase[s] = "unborn" /\ d \notin used
    /\ phase' = [phase EXCEPT ![s] = "ended"]
    /\ used'  = used \cup {d}
    /\ UNCHANGED token

(* A refresh gives the session a new token in place of the one it had. *)
Renew(s, d) ==
    /\ phase[s] = "live" /\ d \notin used
    /\ token' = [token EXCEPT ![s] = d]
    /\ used'  = used \cup {d}
    /\ UNCHANGED phase

(* Revocation ends one session, expiry may end several at once. *)
End(S) ==
    /\ S # {} /\ \A s \in S : phase[s] = "live"
    /\ phase' = [s \in SessionIds |-> IF s \in S THEN "ended" ELSE phase[s]]
    /\ token' = [s \in SessionIds |-> IF s \in S THEN None ELSE token[s]]
    /\ UNCHANGED used

Next ==
    \/ \E d \in Digests \ used, s \in SessionIds : Open(s, d) \/ Abandon(s, d) \/ Renew(s, d)
    \/ \E S \in SUBSET SessionIds : End(S)

Spec == Init /\ [][Next]_vars
====
