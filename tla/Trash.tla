--------------------------------- MODULE Trash ---------------------------------
(***************************************************************************)
(* The trash of one owner and the bytes it is charged for: files in a      *)
(* small fixed tree of folders, users.used_bytes, and every way a row gets *)
(* into the trash, back out of it, and out of the database: the file and   *)
(* the folder handlers, the batch endpoint, the retention sweep and the    *)
(* administrator's rollback.                                               *)
(*                                                                         *)
(* Trashing releases a file's bytes and restoring reserves them again, but *)
(* the batch endpoint, the sweep and the rollback do neither.              *)
(***************************************************************************)
EXTENDS Integers, FiniteSets

CONSTANTS
  Workers,   \* concurrent request handlers
  Folders,   \* the folders there are at first
  Below,     \* Below[d]: d and the folders below it
  Top,       \* folder_id NULL
  Size,      \* Size[f]: the bytes of file f
  Quota,     \* users.quota_bytes
  MaxId      \* bound: how many files may be uploaded

Ids == 1 .. MaxId

ASSUME TrashAssumption ==
  /\ MaxId \in Nat
  /\ Size \in [Ids -> Nat \ {0}]
  /\ Quota \in Nat
  /\ Top \notin Folders
  /\ Below \in [Folders -> SUBSET Folders]
  /\ \A d \in Folders : d \in Below[d] /\ \A e \in Below[d] : Below[e] \subseteq Below[d]

\* A folder has one parent: what is above it is a chain.
ASSUME ForestAssumption ==
  \A d, e \in Folders :
    /\ d \in Below[e] /\ e \in Below[d] => d = e
    /\ Below[d] \cap Below[e] # {} => d \in Below[e] \/ e \in Below[d]

VARIABLES
  at,      \* the files there are: id |-> folder_id
  trash,   \* files with is_deleted set
  there,   \* the folders there are
  binned,  \* folders with is_deleted set
  used,    \* users.used_bytes
  logged,  \* files with a file_soft_delete entry that is not rolled back
  req,     \* what each handler has read and is going to write
  nextId,  \* the next uuid
  kept,    \* history: trashed files whose bytes were not released
  lost     \* history: the kinds of unbalanced or overtaken write so far

tables == <<at, trash, there, binned, used, logged, nextId, kept, lost>>
vars   == <<at, trash, there, binned, used, logged, req, nextId, kept, lost>>

Files == DOMAIN at
LiveFiles == Files \ trash
\* What the owner is to pay for.
Owed      == LiveFiles \cup kept
In(d)     == {f \in Files : at[f] \in Below[d]}

Idle      == [op |-> "idle"]
UploadReq == [op: {"upload"}, to: Folders \cup {Top}]
FileReq   == [op: {"return", "rollback", "purge"}, file: Ids]
FolderReq == [op: {"trashAll", "restoreAll", "purgeAll"}, folder: Folders, seen: SUBSET Ids]
Request   == {Idle} \cup UploadReq \cup FileReq \cup FolderReq

\* twice: bytes that a trashed file had kept were reserved again; again: bytes
\* that trashing had released were released by a purge; free: a file came back
\* without its bytes; stale: a commit wrote other rows than it had read;
\* inside: something became live in a trashed folder.
Kinds == {"twice", "again", "free", "stale", "inside"}
Never(K) == lost \cap K = {}

TypeOK ==
  /\ Files \subseteq Ids
  /\ at \in [Files -> Folders \cup {Top}]
  /\ trash \subseteq Files
  /\ there \subseteq Folders
  /\ binned \subseteq there
  /\ used \in 0 .. Quota
  /\ logged \subseteq Files
  /\ req \in [Workers -> Request]
  /\ nextId \in 1 .. MaxId + 1
  /\ kept \subseteq trash
  /\ lost \subseteq Kinds

Init ==
  /\ at = [f \in {} |-> Top]
  /\ trash = {}
  /\ there = Folders
  /\ binned = {}
  /\ used = 0
  /\ logged = {}
  /\ req = [w \in Workers |-> Idle]
  /\ nextId = 1
  /\ kept = {}
  /\ lost = {}

--------------------------------------------------------------------------------
(* Bytes, locks and notes.  A definition named Mutant... is the one that        *)
(* follows it with a plausible mistake in it; no specification uses it.         *)

\* The sum of the sizes of S, counted as the set of their bytes.
Bytes(S) == Cardinality(UNION {{f} \X (1 .. Size[f]) : f \in S})

\* Without the comparison with quota_bytes.
MutantReserve(n) == used' = used + n
\* reserveQuota and releaseQuota.
Reserve(n) == used + n <= Quota /\ used' = used + n
Release(n) == used' = IF used > n THEN used - n ELSE 0

When(b, k) == IF b THEN {k} ELSE {}
Note(K)    == lost' = lost \cup K

Reads(w, r) == req[w] = Idle /\ req' = [req EXCEPT ![w] = r] /\ UNCHANGED tables
Finish(w)   == req' = [req EXCEPT ![w] = Idle]

\* Rows of folders that markFolderDeleted has updated and not committed.  Writing
\* them, or inserting a file that refers to them, waits.
Locked == UNION {Below[req[w].folder] : w \in {v \in Workers : req[v].op = "trashAll"}}

\* The files F leave the trash, and forget whether they kept their bytes.
Return(F) == trash' = trash \ F /\ kept' = kept \ F
\* A folder above d, which stays in the trash.
Inside(d) == \E e \in binned \ Below[d] : d \in Below[e]

--------------------------------------------------------------------------------
(* Files. *)

UploadRead(w, d) ==
  /\ d \in there => d \notin binned
  /\ Reads(w, [op |-> "upload", to |-> d])

UploadCommit(w) ==
  /\ req[w].op = "upload" /\ nextId <= MaxId
  /\ LET d == req[w].to
     IN  /\ d \in (there \ Locked) \cup {Top}
         /\ at' = [f \in Files \cup {nextId} |-> IF f = nextId THEN d ELSE at[f]]
         /\ Note(When(d \in binned, "inside"))
  /\ Reserve(Size[nextId])
  /\ nextId' = nextId + 1
  /\ Finish(w)
  /\ UNCHANGED <<trash, there, binned, logged, kept>>

\* handleDeleteFile reads the row FOR UPDATE and releases its bytes.
MutantDeleteFile(f) ==
  /\ f \in LiveFiles
  /\ trash' = trash \cup {f}
  /\ UNCHANGED <<at, there, binned, used, logged, req, nextId, kept, lost>>

DeleteFile(f) ==
  /\ f \in LiveFiles
  /\ trash' = trash \cup {f}
  /\ Release(Size[f])
  /\ UNCHANGED <<at, there, binned, logged, req, nextId, kept, lost>>

\* batchSoftDelete leaves used_bytes alone, and can be rolled back.
BatchDelete(f) ==
  /\ f \in LiveFiles
  /\ trash' = trash \cup {f}
  /\ kept' = kept \cup {f}
  /\ logged' = logged \cup {f}
  /\ UNCHANGED <<at, there, binned, used, req, nextId, lost>>

\* runRetentionSweep: the old files F of a folder with a policy.
Sweep(d, F) ==
  /\ d \in there /\ F # {}
  /\ F \subseteq {f \in LiveFiles : at[f] = d}
  /\ trash' = trash \cup F
  /\ kept' = kept \cup F
  /\ UNCHANGED <<at, there, binned, used, logged, req, nextId, lost>>

\* Restores without a reservation.
MutantRestoreFile(f) ==
  /\ f \in trash
  /\ Return({f})
  /\ Note(When(f \in kept, "twice") \cup When(at[f] \in binned, "inside"))
  /\ UNCHANGED <<at, there, binned, used, logged, req, nextId>>

\* handleRestoreTrash, of a file.
RestoreFile(f) ==
  /\ f \in trash
  /\ Return({f})
  /\ Reserve(Size[f])
  /\ Note(When(f \in kept, "twice") \cup When(at[f] \in binned, "inside"))
  /\ UNCHANGED <<at, there, binned, logged, req, nextId>>

\* batchRestore checks access to a live file and then restores a trashed one;
\* handleAdminRollback checks that the entry was not rolled back.
ReturnRead(w, f)   == f \in LiveFiles /\ Reads(w, [op |-> "return", file |-> f])
RollbackRead(w, f) == f \in logged /\ Reads(w, [op |-> "rollback", file |-> f])

ReturnCommit(w) ==
  /\ req[w].op \in {"return", "rollback"}
  /\ LET f == req[w].file
     IN  /\ f \in trash
         /\ Return({f})
         /\ logged' = IF req[w].op = "rollback" THEN logged \ {f} ELSE logged
         /\ Note(When(f \notin kept, "free") \cup When(at[f] \in binned, "inside"))
  /\ Finish(w)
  /\ UNCHANGED <<at, there, binned, used, nextId>>

\* The rows G leave the database.
Drop(G) ==
  /\ at' = [f \in Files \ G |-> at[f]]
  /\ trash' = trash \ G
  /\ kept' = kept \ G
  /\ logged' = logged \ G

PurgeRead(w, f) == f \in trash /\ Reads(w, [op |-> "purge", file |-> f])

\* The DELETE repeats the condition, the release does not.
PurgeCommit(w) ==
  /\ req[w].op = "purge"
  /\ LET f == req[w].file
     IN  /\ Drop({f} \cap trash)
         /\ Release(Size[f])
         /\ Note(When(f \notin trash, "stale") \cup When(f \in trash \ kept, "again"))
  /\ Finish(w)
  /\ UNCHANGED <<there, binned, nextId>>

--------------------------------------------------------------------------------
(* Folders. *)

\* markFolderDeleted has updated the folders and read the sum of the files.
TrashAllRead(w, d) ==
  /\ d \in there \ binned
  /\ Below[d] \cap Locked = {}
  /\ Reads(w, [op |-> "trashAll", folder |-> d, seen |-> In(d) \ trash])

\* Marks the files of the folder itself and not of those below it.
MutantTrashAllCommit(w) ==
  /\ req[w].op = "trashAll"
  /\ LET d == req[w].folder
     IN  /\ binned' = binned \cup (Below[d] \cap there)
         /\ trash' = trash \cup {f \in Files : at[f] = d}
         /\ Release(Bytes(req[w].seen))
         /\ Note(When(req[w].seen # In(d) \ trash, "stale"))
  /\ Finish(w)
  /\ UNCHANGED <<at, there, logged, nextId, kept>>

TrashAllCommit(w) ==
  /\ req[w].op = "trashAll"
  /\ LET d == req[w].folder
     IN  /\ binned' = binned \cup (Below[d] \cap there)
         /\ trash' = trash \cup In(d)
         /\ Release(Bytes(req[w].seen))
         /\ Note(When(req[w].seen # In(d) \ trash, "stale"))
  /\ Finish(w)
  /\ UNCHANGED <<at, there, logged, nextId, kept>>

\* restoreFolder reads the sum of the trashed files.
RestoreAllRead(w, d) ==
  /\ d \in there
  /\ Reads(w, [op |-> "restoreAll", folder |-> d, seen |-> In(d) \cap trash])

\* Leaves the folders below in the trash.
MutantRestoreAllCommit(w) ==
  /\ req[w].op = "restoreAll"
  /\ LET d == req[w].folder
     IN  /\ Below[d] \cap Locked = {}
         /\ Reserve(Bytes(req[w].seen))
         /\ binned' = binned \ {d}
         /\ Return(In(d))
         /\ Note(When(req[w].seen # In(d) \cap trash, "stale")
                 \cup When(In(d) \cap kept # {}, "twice")
                 \cup When(Inside(d), "inside"))
  /\ Finish(w)
  /\ UNCHANGED <<at, there, logged, nextId>>

\* It restores every file of the subtree, however it came into the trash.
RestoreAllCommit(w) ==
  /\ req[w].op = "restoreAll"
  /\ LET d == req[w].folder
     IN  /\ Below[d] \cap Locked = {}
         /\ Reserve(Bytes(req[w].seen))
         /\ binned' = binned \ Below[d]
         /\ Return(In(d))
         /\ Note(When(req[w].seen # In(d) \cap trash, "stale")
                 \cup When(In(d) \cap kept # {}, "twice")
                 \cup When(Inside(d), "inside"))
  /\ Finish(w)
  /\ UNCHANGED <<at, there, logged, nextId>>

\* permanentlyDeleteFolder reads every file of the subtree, trashed or not.
PurgeAllRead(w, d) ==
  /\ d \in binned
  /\ Reads(w, [op |-> "purgeAll", folder |-> d, seen |-> In(d)])

PurgeAllCommit(w) ==
  /\ req[w].op = "purgeAll"
  /\ LET d == req[w].folder
     IN  /\ Below[d] \cap Locked = {}
         /\ Drop(In(d))
         /\ there' = there \ Below[d]
         /\ binned' = binned \ Below[d]
         /\ Release(Bytes(req[w].seen))
         /\ Note(When(req[w].seen # In(d) \/ d \notin binned, "stale")
                 \cup When((In(d) \cap trash) \ kept # {}, "again"))
  /\ Finish(w)
  /\ UNCHANGED nextId

\* A write that is refused, a request that ends early.
Abort(w) == req[w] # Idle /\ Finish(w) /\ UNCHANGED tables

Next ==
  \/ \E f \in Files : DeleteFile(f) \/ BatchDelete(f) \/ RestoreFile(f)
  \/ \E d \in Folders : \E F \in SUBSET Files : Sweep(d, F)
  \/ \E w \in Workers :
       \/ \E d \in there \cup {Top} : UploadRead(w, d)
       \/ UploadCommit(w)
       \/ \E f \in Files : ReturnRead(w, f) \/ RollbackRead(w, f) \/ PurgeRead(w, f)
       \/ ReturnCommit(w)
       \/ PurgeCommit(w)
       \/ \E d \in Folders :
            TrashAllRead(w, d) \/ RestoreAllRead(w, d) \/ PurgeAllRead(w, d)
       \/ TrashAllCommit(w)
       \/ RestoreAllCommit(w)
       \/ PurgeAllCommit(w)
       \/ Abort(w)

Spec == Init /\ [][Next]_vars

--------------------------------------------------------------------------------
(* Properties. *)

\* Every live file is paid for, and so is a trashed one that kept its bytes: no
\* owner holds more than its quota.  Holds until a purge releases bytes again, a
\* file comes back without them, or a commit writes other rows than it read.
NeverUndercharged ==
  Never({"again", "free", "stale"}) => used >= Bytes(Owed)

\* Nothing else is charged for, until bytes that were kept are reserved again.
NeverOvercharged ==
  Never({"twice", "stale"}) => used <= Bytes(Owed)

\* Nothing live is out of reach in a trashed folder, unless something was restored
\* there on its own, or uploaded by a request that had read the folder before.
NothingHidden ==
  Never({"inside"}) =>
    /\ \A f \in LiveFiles : at[f] \notin binned
    /\ \A d \in there \ binned : ~Inside(d)

\* A purge, also one of a folder, removes files of the trash only.
PurgesTrash ==
  [][lost' \cap {"inside", "stale"} = {} => Files \ Files' \subseteq trash]_vars
================================================================================
