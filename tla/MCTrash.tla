-------------------------------- MODULE MCTrash --------------------------------
(* Instances of Trash for TLC: folder b is in folder a.                      *)
EXTENDS Trash, TLC

CONSTANTS a, b   \* model values

MCBelow == [d \in {a, b} |-> IF d = a THEN {a, b} ELSE {b}]
\* The first file is the larger one.
MCSize  == [f \in Ids |-> IF f = 1 THEN 2 ELSE 1]
\* After a stale write no more is claimed of the bytes or of a purge, and each
\* other kind of write takes one of the claims away.
Claimed == Never({"stale"}) /\ Cardinality(lost) <= 1
Symmetry == Permutations(Workers)
================================================================================
