----------------------------- MODULE MCWebhooks -----------------------------
(* Instances of Webhooks for TLC.                                           *)
EXTENDS Webhooks, TLC

CONSTANTS u1, h1, h2, up, rm, w1, w2, c1

MCOwner == [h \in Hooks |-> u1]
\* one event of each kind of activity
MCEvents == {[id |-> 1, user |-> u1, action |-> up], [id |-> 2, user |-> u1, action |-> rm]}
\* two events that every hook subscribes to
MCUploads == {[id |-> i, user |-> u1, action |-> up] : i \in 1..2}

WorkerSymmetry == Permutations(Workers)
=============================================================================
