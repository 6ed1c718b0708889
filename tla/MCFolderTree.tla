----------------------------- MODULE MCFolderTree -----------------------------
(* Instances of FolderTree for TLC.                                          *)
EXTENDS FolderTree

CONSTANTS w1, w2   \* model values
================================================================================
