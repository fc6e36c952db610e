---------------------------- MODULE MCLoginLimiter ----------------------------
(* LoginLimiter with small sets of model values, which are only ever compared. *)
EXTENDS LoginLimiter, TLC

Symmetry == Permutations(Clients) \cup Permutations(Accounts) \cup Permutations(Procs)
====
