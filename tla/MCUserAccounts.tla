--------------------------- MODULE MCUserAccounts ---------------------------
(* UserAccounts with small sets of model values.  Ids, passwords, parameter sets and
   processes are only ever compared for equality.                                 *)
EXTENDS AccountRefinement, TLC

Symmetry == Permutations(Ids) \cup Permutations(Passwords) \cup Permutations(Params)
            \cup Permutations(Procs)
====
