------------------------------- MODULE FolderTree -------------------------------
(***************************************************************************)
(* The table folders of one owner: a row names its parent, and a subtree   *)
(* is found by a recursive query.  Every handler first reads (is the       *)
(* folder there, how deep is it, what is below it) and writes later, and   *)
(* nothing that it read is locked, so other handlers commit in between.    *)
(* The reads of one request are one step here: a request can name only ids *)
(* that an earlier answer gave it, so a folder made between two of its     *)
(* reads is never its destination.                                         *)
(***************************************************************************)
EXTENDS Integers, FiniteSets

CONSTANTS
  Workers,         \* concurrent request handlers
  Movers,          \* the ones among them that may move folders
  MaxFolderDepth,  \* how deep the tree may grow
  MaxId            \* bound: how many folders may be created

Ids  == 1 .. MaxId
Root == 0          \* the NULL parent

ASSUME TreeAssumption ==
  /\ Movers \subseteq Workers
  /\ MaxFolderDepth \in Nat
  /\ MaxId \in Nat

VARIABLES
  parent,   \* the folders there are: id |-> parent_id
  trashed,  \* those with is_deleted set
  req,      \* what each handler has read and is going to write
  nextId,   \* the next uuid
  lost      \* history: the kinds of overtaken or partial write so far

vars == <<parent, trashed, req, nextId, lost>>

Folders == DOMAIN parent

Idle    == [op |-> "idle"]
PutReq  == [op: {"create"}, dest: Ids]
MoveReq == [op: {"move"}, folder: Ids, dest: Ids \cup {Root}]
TreeReq == [op: {"trash", "restore", "purge"}, folder: Ids, ids: SUBSET Ids]
Request == {Idle} \cup PutReq \cup MoveReq \cup TreeReq

\* staleParent: a folder was put below one that was trashed meanwhile;
\* staleTree: a subtree grew after it was read; inside: a folder was restored
\* whose own parent is trashed; stalePurge: a purge deleted what it had
\* read, and the folder was restored or its subtree changed meanwhile.
Kinds == {"staleParent", "staleTree", "inside", "stalePurge"}

TypeOK ==
  /\ Folders \subseteq Ids
  /\ parent \in [Folders -> Ids \cup {Root}]
  /\ trashed \subseteq Folders
  /\ req \in [Workers -> Request]
  /\ nextId \in 1 .. MaxId + 1
  /\ lost \subseteq Kinds

Init ==
  /\ parent = [f \in {} |-> Root]
  /\ trashed = {}
  /\ req = [w \in Workers |-> Idle]
  /\ nextId = 1
  /\ lost = {}

--------------------------------------------------------------------------------
(* The recursive queries.  A definition named Mutant... is the one that follows *)
(* it with a plausible mistake in it; no specification uses it.                 *)

Closed(S) == \A f \in Folders : parent[f] \in S => f \in S
\* collectFolderTree: the least set with f in it that is closed under children.
Subtree(f) == {g \in Folders : \A S \in SUBSET Folders : f \in S /\ Closed(S) => g \in S}
\* folderDepth: f and its ancestors; a cycle runs into the query's own limit.
Above(f) == {g \in Folders : f \in Subtree(g)}
Depth(f) == IF \E g \in Above(f) : parent[g] = Root THEN Cardinality(Above(f)) ELSE 256

Live(f) == f \in Folders /\ f \notin trashed

Reads(w, r)  == req[w] = Idle /\ req' = [req EXCEPT ![w] = r]
Finish(w)    == req' = [req EXCEPT ![w] = Idle]
Note(k, b)   == lost' = lost \cup (IF b THEN {k} ELSE {})
\* canAccessFolder and the cap of handleCreateFolder and handleUpdateFolder.
Roomy(p)     == Live(p) /\ Depth(p) < MaxFolderDepth

--------------------------------------------------------------------------------

CreateRead(w, p) ==
  /\ Roomy(p)
  /\ Reads(w, [op |-> "create", dest |-> p])
  /\ UNCHANGED <<parent, trashed, nextId, lost>>

\* The INSERT below p.  Its foreign key fails when p has been purged.
Insert(p) ==
  /\ nextId <= MaxId
  /\ p \in Folders \cup {Root}
  /\ parent' = [f \in Folders \cup {nextId} |-> IF f = nextId THEN p ELSE parent[f]]
  /\ nextId' = nextId + 1
  /\ UNCHANGED trashed

CreateCommit(w) ==
  /\ req[w].op = "create"
  /\ Insert(req[w].dest)
  /\ Note("staleParent", req[w].dest \in trashed)
  /\ Finish(w)

\* A folder at the top needs no parent to be read.
CreateTop(w) ==
  /\ req[w] = Idle
  /\ Insert(Root)
  /\ UNCHANGED <<req, lost>>

\* Without the cycle check.
MutantMoveRead(w, f, p) ==
  /\ w \in Movers
  /\ Live(f) /\ f # p
  /\ p # Root => Roomy(p)
  /\ Reads(w, [op |-> "move", folder |-> f, dest |-> p])
  /\ UNCHANGED <<parent, trashed, nextId, lost>>

MoveRead(w, f, p) ==
  /\ w \in Movers
  /\ Live(f) /\ f # p
  /\ p # Root => Roomy(p) /\ p \notin Subtree(f)
  /\ Reads(w, [op |-> "move", folder |-> f, dest |-> p])
  /\ UNCHANGED <<parent, trashed, nextId, lost>>

\* The UPDATE, of a row that is still live; its foreign key needs the parent.
MoveCommit(w) ==
  /\ req[w].op = "move"
  /\ LET f == req[w].folder
         p == req[w].dest
     IN  /\ Live(f)
         /\ p \in Folders \cup {Root}
         /\ parent' = [parent EXCEPT ![f] = p]
         /\ Note("staleParent", p \in trashed)
  /\ Finish(w)
  /\ UNCHANGED <<trashed, nextId>>

\* What markFolderDeleted, restoreFolder and permanentlyDeleteFolder read.  The
\* trash page restores a trashed folder, a batch a live one (what is in it).
TreeRead(w, op, f) ==
  /\ op = "trash" => Live(f)
  /\ op = "purge" => f \in trashed
  /\ Reads(w, [op |-> op, folder |-> f, ids |-> Subtree(f)])
  /\ UNCHANGED <<parent, trashed, nextId, lost>>

\* More is below the folders that w read than it read.
Grew(w) == \E f \in Folders \ req[w].ids : parent[f] \in req[w].ids

\* Marks the folder alone.
MutantTrashCommit(w) ==
  /\ req[w].op = "trash"
  /\ trashed' = trashed \cup ({req[w].folder} \cap Folders)
  /\ Note("staleTree", Grew(w))
  /\ Finish(w)
  /\ UNCHANGED <<parent, nextId>>

TrashCommit(w) ==
  /\ req[w].op = "trash"
  /\ trashed' = trashed \cup (req[w].ids \cap Folders)
  /\ Note("staleTree", Grew(w))
  /\ Finish(w)
  /\ UNCHANGED <<parent, nextId>>

RestoreCommit(w) ==
  /\ req[w].op = "restore"
  /\ trashed' = trashed \ req[w].ids
  /\ Note("inside", \E f \in req[w].ids \cap Folders : parent[f] \in trashed \ req[w].ids)
  /\ Finish(w)
  /\ UNCHANGED <<parent, nextId>>

\* DELETE; the foreign key sets the parent_id of the rows below to NULL.
PurgeCommit(w) ==
  /\ req[w].op = "purge"
  /\ LET left == Folders \ req[w].ids
     IN  /\ parent' = [f \in left |-> IF parent[f] \in left THEN parent[f] ELSE Root]
         /\ trashed' = trashed \cap left
  /\ Note("stalePurge", req[w].folder \notin trashed \/ Subtree(req[w].folder) # req[w].ids)
  /\ Finish(w)
  /\ UNCHANGED nextId

\* A write that is refused, a request that ends early.
Abort(w) ==
  /\ req[w] # Idle
  /\ Finish(w)
  /\ UNCHANGED <<parent, trashed, nextId, lost>>

Next ==
  \E w \in Workers :
    \/ \E p \in Folders : CreateRead(w, p)
    \/ CreateCommit(w)
    \/ CreateTop(w)
    \/ \E f \in Folders, p \in Folders \cup {Root} : MoveRead(w, f, p)
    \/ MoveCommit(w)
    \/ \E f \in Folders, op \in {"trash", "restore", "purge"} : TreeRead(w, op, f)
    \/ TrashCommit(w)
    \/ RestoreCommit(w)
    \/ PurgeCommit(w)
    \/ Abort(w)

Spec == Init /\ [][Next]_vars

--------------------------------------------------------------------------------
(* Properties. *)

\* The folders are a forest: no set of them has all its parents inside, so the
\* recursive queries end and every folder can be reached from the top.  Holds
\* while moves are serial, whatever else runs beside them.
Forest ==
  \A S \in (SUBSET Folders) \ {{}} : \E f \in S : parent[f] \notin S

\* A parent_id always names a row (ON DELETE SET NULL in every purge).
ParentsExist == \A f \in Folders : parent[f] \in Folders \cup {Root}

\* No live folder is out of reach below a trashed one, unless a write was
\* overtaken or a folder inside a trashed one was restored on its own.
NothingHidden == lost = {} => \A f \in Folders \ trashed : parent[f] \notin trashed

\* A purge removes folders of the trash only, unless a write was overtaken or a
\* folder inside a trashed one was restored on its own.
PurgesTrash ==
  [][lost' = {} => \A f \in Folders : f \notin DOMAIN parent' => f \in trashed]_vars
================================================================================
