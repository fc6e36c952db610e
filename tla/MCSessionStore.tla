--------------------------- MODULE MCSessionStore ---------------------------
(* SessionStore with small sets of model values.  Sessions, digests and processes
   are interchangeable: the code compares them and never orders them.              *)
EXTENDS SessionRefinement, TLC

Symmetry == Permutations(SessionIds) \cup Permutations(Digests) \cup Permutations(Procs)
====
