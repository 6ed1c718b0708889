----------------------------- MODULE MCBlobStore -----------------------------
(***************************************************************************)
(* Instances of BlobStore for TLC.                                         *)
(***************************************************************************)
EXTENDS BlobStore, TLC

CONSTANTS u1, u2, n1, n2, h1, h2, w1, w2

MCSuffixed == [n \in Names |-> IF n = n1 /\ n2 \in Names THEN n2 ELSE n1]
MCSize     == [h \in Hashes |-> IF h = h1 THEN 1 ELSE 2]
MCQuota    == [u \in Users |-> 3]

\* Every property below is conditional on these two races not having happened and
\* lost only grows: nothing is left to check past them.
Undamaged == Intact({"stalePurge", "staleTarget"})

WorkerSymmetry == Permutations(Workers)
==============================================================================
