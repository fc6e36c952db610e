---------------------------- MODULE MCConfigCache ----------------------------
(* ConfigCache with small sets of model values, which are only ever compared. *)
EXTENDS ConfigCache, TLC

Symmetry == Permutations(Values) \cup Permutations(Procs)
====
