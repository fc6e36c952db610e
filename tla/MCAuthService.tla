---------------------------- MODULE MCAuthService ----------------------------
(* AuthService with small sets of model values, which are only ever compared. *)
EXTENDS AuthService, TLC

Symmetry == Permutations(Users) \cup Permutations(SessionIds) \cup Permutations(Digests)
            \cup Permutations(Procs)
====
