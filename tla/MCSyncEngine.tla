------------------------------ MODULE MCSyncEngine ------------------------------
(* Instances of SyncEngine for TLC.                                          *)
EXTENDS SyncEngine

\* Versions 1 and 2 are equally long, as after an edit in place; 3 is longer.
MCSize(v) == IF v <= 2 THEN 1 ELSE 2

\* A state constraint: one edit leaves room for two troubles, and two edits for one. After
\* two edits the first loss ends the run, because beyond it Mirror and SyncsAtLast say
\* nothing; what a full sync repairs after a loss is explored with one edit.
Telling == /\ used.edits + used.troubles <= 3
           /\ used.edits = 2 => lost = {}
================================================================================
