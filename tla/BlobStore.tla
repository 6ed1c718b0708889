------------------------------- MODULE BlobStore -------------------------------
(***************************************************************************)
(* The blob store of the MyCloud backend: the tables files, file_versions, *)
(* blob_refs and users.used_bytes of the database, and the encrypted blobs *)
(* on disk that the rows point at.  Content is stored once per owner: rows *)
(* with the same content share one blob and blob_refs counts them.         *)
(*                                                                         *)
(* Every request handler is a worker.  A handler that reads rows before it *)
(* writes is two steps, the read (a snapshot kept in req) and the commit   *)
(* of its transaction, so that other workers run in between.  A blob whose *)
(* count reached zero is removed from disk in a third step, after commit.  *)
(*                                                                         *)
(* All files of the model live in one folder (the owner's root).           *)
(***************************************************************************)
EXTENDS Integers, FiniteSets, FiniteSetsExt

CONSTANTS
  Users,        \* accounts
  Names,        \* file names
  Suffixed,     \* Suffixed[n]: the name copySuffix makes of n
  Hashes,       \* contents, identified by their SHA-256
  Size,         \* Size[h]: the bytes of content h
  Quota,        \* Quota[u]: users.quota_bytes
  MaxVersions,  \* Config.MaxVersionsPerFile, defaulted
  Workers,      \* concurrent request handlers
  MaxId,        \* bound: how many uuids a behaviour may mint
  MaxNo,        \* bound: the largest version_no
  None          \* no blob on disk

Ids == 1 .. MaxId

ASSUME StoreAssumption ==
  /\ Suffixed \in [Names -> Names]
  /\ Size \in [Hashes -> Nat]
  /\ Quota \in [Users -> Nat]
  /\ MaxVersions \in Nat \ {0}
  /\ MaxId \in Nat
  /\ MaxNo \in Nat
  /\ None \notin Hashes

VARIABLES
  files,     \* the files table: file id |-> row
  versions,  \* the file_versions table: a set of rows
  refs,      \* the blob_refs table: path |-> ref_count, 0 when there is no row
  used,      \* users.used_bytes
  disk,      \* path |-> the content of the blob stored there, or None
  req,       \* what each worker has read and has left to do
  nextId,    \* the next uuid: file ids and blob paths are drawn from it
  lost       \* history: the kinds of overtaken snapshot committed so far

vars == <<files, versions, refs, used, disk, req, nextId, lost>>

--------------------------------------------------------------------------------
(* Rows and requests. *)

Row     == [owner: Users, name: Names, path: Ids, sha: Hashes, deleted: BOOLEAN]
\* sha stands for the size and key-bundle columns of the version row.
Version == [file: Ids, no: 1 .. MaxNo, path: Ids, sha: Hashes]

NoDonor == 0
Idle    == [op |-> "idle"]
AddReq  == [op: {"insert", "copy", "byhash"}, owner: Users, name: Names,
            sha: Hashes, donor: Ids \cup {NoDonor}]
OverwriteReq == [op: {"overwrite"}, owner: Users, sha: Hashes,
                 donor: Ids \cup {NoDonor}, file: Ids, row: Row, vers: SUBSET Version]
PurgeReq  == [op: {"purge"}, file: Ids, row: Row, vers: SUBSET Version]
UnlinkReq == [op: {"unlink"}, paths: SUBSET Ids]
Request   == {Idle} \cup AddReq \cup OverwriteReq \cup PurgeReq \cup UnlinkReq

\* The ways a commit can act on rows that are no longer what it read, and a
\* crash.
Races == {"stalePurge", "staleTarget", "staleDonor", "crash"}

TypeOK ==
  /\ DOMAIN files \subseteq Ids
  /\ files \in [DOMAIN files -> Row]
  /\ versions \subseteq Version
  /\ refs \in [Ids -> Nat]
  /\ used \in [Users -> Nat]
  /\ disk \in [Ids -> Hashes \cup {None}]
  /\ req \in [Workers -> Request]
  /\ nextId \in 1 .. MaxId + 1
  /\ lost \subseteq Races

Init ==
  /\ files = [f \in {} |-> None]
  /\ versions = {}
  /\ refs = [p \in Ids |-> 0]
  /\ used = [u \in Users |-> 0]
  /\ disk = [p \in Ids |-> None]
  /\ req = [w \in Workers |-> Idle]
  /\ nextId = 1
  /\ lost = {}

--------------------------------------------------------------------------------
(* Helpers.  A definition named Mutant... is the one that follows it with a     *)
(* plausible mistake in it; no specification uses it.                           *)

Live(f)      == f \in DOMAIN files /\ ~files[f].deleted
SameName(o, n) == {f \in DOMAIN files : Live(f) /\ files[f].owner = o /\ files[f].name = n}
VersionsOf(f)  == {v \in versions : v.file = f}
NextNo(V)      == Max({v.no : v \in V} \cup {0}) + 1
Uses(V, p)     == Cardinality({v \in V : v.path = p})
One(b)         == IF b THEN 1 ELSE 0
\* Without the clamp.
MutantMinus(a, b) == a - b
\* GREATEST(0, a - b); also a count from which b references are dropped.
Minus(a, b)    == IF a > b THEN a - b ELSE 0

\* The sum of the sizes of version rows V, counted as the set of their bytes.
Bytes(V) == Cardinality(UNION {{v} \X (1 .. Size[v.sha]) : v \in V})

\* Past the cap, deletes all of them.
MutantPruned(V) == IF Cardinality(V) > MaxVersions THEN V ELSE {}
\* Rows that pruneVersionsTx deletes: all but the MaxVersions newest.
Pruned(V) == {v \in V : Cardinality({u \in V : u.no > v.no}) >= MaxVersions}

\* Without the content in the WHERE clause.
MutantDonors(o, h, f) ==
  LET D == {g \in DOMAIN files \ {f} : Live(g) /\ files[g].owner = o}
  IN  IF D = {} THEN {NoDonor} ELSE {files[g].path : g \in D}
\* findDedup: the blobs of live files of owner o with content h, other than f.
Donors(o, h, f) ==
  LET D == {g \in DOMAIN files \ {f} :
              Live(g) /\ files[g].owner = o /\ files[g].sha = h}
  IN  IF D = {} THEN {NoDonor} ELSE {files[g].path : g \in D}

\* reserveQuota succeeds.
Fits(o, n) == used[o] + n <= Quota[o]

\* The releases are forgotten.
MutantSettle(acq, rel) == refs' = [p \in Ids |-> refs[p] + acq[p]]
\* Acquire acq[p] references to every path p, then release rel[p] of them.
Settle(acq, rel) ==
  refs' = [p \in Ids |-> Minus(refs[p] + acq[p], rel[p])]

\* Removes a blob when one reference remains.
MutantFreed(acq, rel) == {p \in Ids : rel[p] > 0 /\ refs[p] + acq[p] <= rel[p] + 1}
\* The paths whose last reference those releases drop: to be removed from disk.
Freed(acq, rel) ==
  {p \in Ids : rel[p] > 0 /\ refs[p] + acq[p] <= rel[p]}

NoRefs == [p \in Ids |-> 0]

\* The paths to remove are not handed on.
MutantFinish(w, P) == req' = [req EXCEPT ![w] = Idle]
\* The request of worker w is over, except for removing the blobs in P.
Finish(w, P) ==
  req' = [req EXCEPT ![w] = IF P = {} THEN Idle ELSE [op |-> "unlink", paths |-> P]]

Start(w, r) == req[w] = Idle /\ req' = [req EXCEPT ![w] = r]

\* Give the blob of a fresh upload its final path, unless a donor's is reused.
Place(donor, h) ==
  /\ donor = NoDonor => nextId <= MaxId
  /\ disk' = IF donor = NoDonor THEN [disk EXCEPT ![nextId] = h] ELSE disk

BlobPath(donor) == IF donor = NoDonor THEN nextId ELSE donor

\* The donor's blob has lost its last reference since it was read.
DonorGone(donor) == donor # NoDonor /\ refs[donor] = 0
Note(kind, b)    == IF b THEN {kind} ELSE {}

--------------------------------------------------------------------------------
(* Uploads: commitUploadWithVersioning. *)

\* The transaction's snapshot: owner o uploads content h under name n.  A
\* same-name file with the same content ends the request (case A) unchanged.
UploadRead(w, o, n, h) ==
  \/ /\ SameName(o, n) = {}
     /\ \E d \in Donors(o, h, 0) :
          Start(w, [op |-> "insert", owner |-> o, name |-> n, sha |-> h, donor |-> d])
     /\ UNCHANGED <<files, versions, refs, used, disk, nextId, lost>>
  \/ \E f \in SameName(o, n) :
       /\ files[f].sha # h
       /\ \E d \in Donors(o, h, f) :
            Start(w, [op |-> "overwrite", owner |-> o, sha |-> h, donor |-> d,
                      file |-> f, row |-> files[f], vers |-> VersionsOf(f)])
       /\ UNCHANGED <<files, versions, refs, used, disk, nextId, lost>>

\* INSERT INTO files with one reference to the blob at path p.
AddRow(w, o, n, h, donor) ==
  /\ nextId <= MaxId
  /\ Fits(o, Size[h])
  /\ used' = [used EXCEPT ![o] = @ + Size[h]]
  /\ files' = [f \in DOMAIN files \cup {nextId} |->
                 IF f = nextId
                 THEN [owner |-> o, name |-> n, path |-> BlobPath(donor),
                       sha |-> h, deleted |-> FALSE]
                 ELSE files[f]]
  /\ Settle([p \in Ids |-> One(p = BlobPath(donor))], NoRefs)
  /\ Place(donor, h)
  /\ nextId' = nextId + 1
  /\ lost' = lost \cup Note("staleDonor", DonorGone(donor))
  /\ Finish(w, {})
  /\ UNCHANGED versions

\* Case B: a new file.
UploadInsert(w) ==
  /\ req[w].op = "insert"
  /\ AddRow(w, req[w].owner, req[w].name, req[w].sha, req[w].donor)

\* Case C: the current content becomes a version, the row gets the new one, and
\* versions beyond the cap are pruned.  The unique key on (file_id, version_no)
\* and the foreign key on file_id must admit the version row.
UploadOverwrite(w) ==
  LET r      == req[w]
      f      == r.file
      o      == r.owner
      new    == BlobPath(r.donor)
      ver    == [file |-> f, no |-> NextNo(r.vers), path |-> r.row.path, sha |-> r.row.sha]
      pruned == Pruned(r.vers \cup {ver})
      acq    == [p \in Ids |-> One(p = r.row.path) + One(p = new)]
      rel    == [p \in Ids |-> One(p = r.row.path) + Uses(pruned, p)]
  IN  /\ r.op = "overwrite"
      /\ f \in DOMAIN files
      /\ \A v \in VersionsOf(f) : v.no # ver.no
      /\ ver.no \in 1 .. MaxNo
      /\ Fits(o, Size[r.sha])
      /\ used' = [used EXCEPT ![o] = Minus(@ + Size[r.sha], Bytes(pruned))]
      /\ files' = [files EXCEPT ![f].path = new, ![f].sha = r.sha]
      /\ versions' = (versions \cup {ver}) \ pruned
      /\ Settle(acq, rel)
      /\ Place(r.donor, r.sha)
      /\ nextId' = IF r.donor = NoDonor THEN nextId + 1 ELSE nextId
      /\ lost' = lost \cup Note("staleDonor", DonorGone(r.donor))
                      \cup Note("staleTarget", files[f] # r.row \/ VersionsOf(f) # r.vers)
      /\ Finish(w, Freed(acq, rel))

--------------------------------------------------------------------------------
(* New rows on an existing blob. *)

\* copyFile reads the source outside its transaction; the copy goes to owner o.
CopyRead(w, f, o) ==
  /\ Live(f)
  /\ Start(w, [op |-> "copy", owner |-> o, name |-> files[f].name,
               sha |-> files[f].sha, donor |-> files[f].path])
  /\ UNCHANGED <<files, versions, refs, used, disk, nextId, lost>>

CopyCommit(w) ==
  LET r == req[w]
      n == IF SameName(r.owner, r.name) = {} THEN r.name ELSE Suffixed[r.name]
  IN  /\ r.op = "copy"
      /\ AddRow(w, r.owner, n, r.sha, r.donor)

\* handleCreateFromHash reads the donor outside its transaction.
FromHashRead(w, o, n, h) ==
  /\ \E d \in Donors(o, h, 0) \ {NoDonor} :
       Start(w, [op |-> "byhash", owner |-> o, name |-> n, sha |-> h, donor |-> d])
  /\ UNCHANGED <<files, versions, refs, used, disk, nextId, lost>>

FromHashCommit(w) ==
  /\ req[w].op = "byhash"
  /\ AddRow(w, req[w].owner, req[w].name, req[w].sha, req[w].donor)

--------------------------------------------------------------------------------
(* The trash. *)

\* Does not release the bytes.
MutantDelete(f) ==
  /\ Live(f)
  /\ files' = [files EXCEPT ![f].deleted = TRUE]
  /\ UNCHANGED <<versions, refs, used, disk, req, nextId, lost>>

\* handleDeleteFile locks the row, trashes it and releases its size.
Delete(f) ==
  /\ Live(f)
  /\ files' = [files EXCEPT ![f].deleted = TRUE]
  /\ used' = [used EXCEPT ![files[f].owner] = Minus(@, Size[files[f].sha])]
  /\ UNCHANGED <<versions, refs, disk, req, nextId, lost>>

\* handleRestoreTrash locks the row and reserves its size again.
Restore(f) ==
  LET o == files[f].owner
      n == Size[files[f].sha]
  IN  /\ f \in DOMAIN files
      /\ files[f].deleted
      /\ Fits(o, n)
      /\ files' = [files EXCEPT ![f].deleted = FALSE]
      /\ used' = [used EXCEPT ![o] = @ + n]
      /\ UNCHANGED <<versions, refs, disk, req, nextId, lost>>

\* permanentlyDeleteFile reads the row and its versions outside any transaction.
PurgeRead(w, f) ==
  /\ f \in DOMAIN files
  /\ files[f].deleted
  /\ Start(w, [op |-> "purge", file |-> f, row |-> files[f], vers |-> VersionsOf(f)])
  /\ UNCHANGED <<files, versions, refs, used, disk, nextId, lost>>

\* Its transaction deletes the row if it is still trashed (the versions go with
\* it) and, whether it was or not, releases the bytes and references it read.
PurgeCommit(w) ==
  LET r      == req[w]
      f      == r.file
      o      == r.row.owner
      hit    == f \in DOMAIN files /\ files[f].deleted
      rel    == [p \in Ids |-> One(p = r.row.path) + Uses(r.vers, p)]
  IN  /\ r.op = "purge"
      /\ files' = IF hit THEN [g \in DOMAIN files \ {f} |-> files[g]] ELSE files
      /\ versions' = IF hit THEN versions \ VersionsOf(f) ELSE versions
      /\ used' = [used EXCEPT ![o] = Minus(@, Size[r.row.sha] + Bytes(r.vers))]
      /\ Settle(NoRefs, rel)
      /\ Finish(w, Freed(NoRefs, rel))
      /\ lost' = lost \cup Note("stalePurge", ~hit \/ files[f] # r.row
                                                  \/ VersionsOf(f) # r.vers)
      /\ UNCHANGED <<disk, nextId>>

--------------------------------------------------------------------------------
(* The end of a request. *)

\* os.Remove of the paths whose count reached zero, after commit.
Unlink(w) ==
  /\ req[w].op = "unlink"
  /\ disk' = [p \in Ids |-> IF p \in req[w].paths THEN None ELSE disk[p]]
  /\ req' = [req EXCEPT ![w] = Idle]
  /\ UNCHANGED <<files, versions, refs, used, nextId, lost>>

\* A database error, a rejected reservation or a client that went away before
\* the commit: the transaction is rolled back and the rename undone.
Abort(w) ==
  /\ req[w].op \in {"insert", "overwrite", "copy", "byhash", "purge"}
  /\ req' = [req EXCEPT ![w] = Idle]
  /\ UNCHANGED <<files, versions, refs, used, disk, nextId, lost>>

\* The server process dies.  Open transactions are rolled back by the database,
\* removals not yet made are forgotten, and the blob of an upload that was
\* renamed but not committed stays on disk.
Crash ==
  /\ \E w \in Workers : req[w] # Idle
  /\ \/ UNCHANGED <<disk, nextId>>
     \/ \E w \in Workers :
          /\ req[w].op \in {"insert", "overwrite"}
          /\ req[w].donor = NoDonor
          /\ Fits(req[w].owner, Size[req[w].sha])
          /\ nextId <= MaxId
          /\ disk' = [disk EXCEPT ![nextId] = req[w].sha]
          /\ nextId' = nextId + 1
  /\ req' = [w \in Workers |-> Idle]
  /\ lost' = lost \cup {"crash"}
  /\ UNCHANGED <<files, versions, refs, used>>

Next ==
  \/ \E w \in Workers, o \in Users, n \in Names, h \in Hashes :
       UploadRead(w, o, n, h) \/ FromHashRead(w, o, n, h)
  \/ \E w \in Workers, f \in Ids, o \in Users : CopyRead(w, f, o)
  \/ \E w \in Workers, f \in Ids : PurgeRead(w, f)
  \/ \E w \in Workers :
       \/ UploadInsert(w) \/ UploadOverwrite(w)
       \/ CopyCommit(w) \/ FromHashCommit(w)
       \/ PurgeCommit(w) \/ Unlink(w) \/ Abort(w)
  \/ \E f \in Ids : Delete(f) \/ Restore(f)
  \/ Crash

Spec == Init /\ [][Next]_vars

--------------------------------------------------------------------------------
(* Properties. *)

Intact(kinds) == lost \cap kinds = {}

\* The rows, current and version, that point at path p.
Holders(p) == Cardinality({f \in DOMAIN files : files[f].path = p}) + Uses(versions, p)

\* blob_refs counts exactly the rows of files and file_versions that point at a
\* path, which is how migration 008 defines the table, whatever uploads,
\* copies, restores and purges run at once, until a purge or an overwrite
\* commits on rows that changed after it read them.
RefsMatchRows ==
  Intact({"stalePurge", "staleTarget"}) => \A p \in Ids : refs[p] = Holders(p)

\* Every row, trashed or not, and every version can be read back: its blob is on
\* disk and holds the content the row was written for, until one of the
\* overtaken commits happens.  A crash is not among them.
RowsReadable ==
  Intact({"stalePurge", "staleTarget", "staleDonor"}) =>
    /\ \A f \in DOMAIN files : disk[files[f].path] = files[f].sha
    /\ \A v \in versions : disk[v.path] = v.sha

\* No blob is left behind: what is on disk is the blob of some row or about to be removed,
\* unless the server crashed or an overtaken commit miscounted.
BlobsAccounted ==
  Intact({"stalePurge", "staleTarget", "crash"}) =>
    \A p \in Ids : disk[p] # None =>
      \/ Holders(p) > 0
      \/ \E w \in Workers : req[w].op = "unlink" /\ p \in req[w].paths

\* What an owner's rows add up to: live files and the versions of all files.
Held(o) ==
  Cardinality(UNION {{f} \X (1 .. Size[files[f].sha]) :
                       f \in {g \in DOMAIN files : Live(g) /\ files[g].owner = o}})
  + Bytes({v \in versions : files[v.file].owner = o})

\* used_bytes never charges an owner for more than the rows hold, across
\* reservations, trash and restore, pruning and the GREATEST(0, ...) clamps.
NeverOvercharged ==
  Intact({"stalePurge", "staleTarget"}) => \A o \in Users : used[o] <= Held(o)

\* What delete_helpers.go says of a purge: only physically remove a blob from disk
\* when the last reference is dropped.  No row points at a path about to go.
RemovedOnlyUnreferenced ==
  \A w \in Workers : req[w].op = "unlink" => \A p \in req[w].paths : Holders(p) = 0

\* The only way a version of a surviving file disappears is pruning, and pruning
\* takes the oldest: MaxVersions newer versions remain.
PruneKeepsNewest ==
  [][\A v \in versions \ versions' :
       v.file \in DOMAIN files' =>
         Cardinality({u \in versions' : u.file = v.file /\ u.no > v.no}) >= MaxVersions]_vars

--------------------------------------------------------------------------------
(* What a user sees: the text a download of each file and version returns. *)

Seen ==
  [f \in DOMAIN files |->
     [owner   |-> files[f].owner,
      text    |-> disk[files[f].path],
      trashed |-> files[f].deleted,
      past    |-> {[no |-> v.no, text |-> disk[v.path]] : v \in VersionsOf(f)}]]

Promise == INSTANCE FileStore
             WITH FileIds <- Ids, Owners <- Users, Texts <- Hashes, store <- Seen,
                  intact <- Intact({"stalePurge", "staleTarget", "staleDonor"})

\* Sharing blobs is invisible: no upload, copy, prune, purge or removal changes
\* what another file or version reads, until one of the races.
ImplementsFileStore == Promise!Spec
================================================================================
