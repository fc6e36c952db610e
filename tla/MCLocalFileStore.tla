--------------------------- MODULE MCLocalFileStore ---------------------------
(* The instance of LocalFileStore that TLC checks.                             *)
EXTENDS LocalFileStore, TLC

CONSTANTS Image, Other
MCLimit == [k \in {Image, Other} |-> IF k = Image THEN 2 ELSE 0]
Symmetry == Permutations(Users) \cup Permutations(Ids) \cup Permutations(Requests)
=============================================================================
