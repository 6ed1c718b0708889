---------------------------- MODULE VersionRestore ----------------------------
(***************************************************************************)
(* Restoring a version (handleRestoreVersion), beside uploads and deletes  *)
(* of the same owner: the handler exchanges two blobs on disk with three   *)
(* renames between its last statement and its COMMIT, while other rows may *)
(* share the blobs by deduplication.                                       *)
(*                                                                         *)
(* A blob is known by the key that decrypts it; the key columns of a row   *)
(* say which blob the row expects at its path.                             *)
(***************************************************************************)
EXTENDS Integers, FiniteSets, FiniteSetsExt

CONSTANTS
  Files,        \* file ids, each with a name of its own in one folder
  Hashes,       \* contents
  MaxVersions,  \* Config.MaxVersionsPerFile
  MaxBlobs,     \* bound: how many blobs uploads encrypt
  MaxNo,        \* bound: the largest version_no
  MaxFaults     \* bound: failures of a rename or of a COMMIT, and crashes

VARIABLES
  rows,      \* files: the row of each file, or NoRow
  versions,  \* file_versions
  refs,      \* blob_refs: path |-> ref_count
  disk,      \* path |-> the key of the blob stored there, or NoBlob
  minted,    \* how many blobs have been encrypted
  swap,      \* the restore whose transaction is open, or NoSwap
  answered,  \* history: the upload answered last, until its file changes again
  faults,    \* how many faults have happened
  harm       \* history: what has put a row and its blob at odds

vars == <<rows, versions, refs, disk, minted, swap, answered, faults, harm>>

\* Paths: those of uploads, FinalPath, then those of VersionPath for each file,
\* then the temporary name of a swap.
Order == CHOOSE o \in [Files -> 0 .. Cardinality(Files) - 1] : \A f, g \in Files : o[f] = o[g] => f = g
VersionPath(f, no) == MaxBlobs + MaxNo * Order[f] + no
Swap   == MaxBlobs + MaxNo * Cardinality(Files) + 1
Paths  == 1 .. Swap

NoBlob == [id |-> 0, sha |-> "none"]
Key(h) == [id |-> minted + 1, sha |-> h]
NoRow  == [path |-> 0, key |-> NoBlob, sha |-> "none"]
NoSwap == [step |-> 0, file |-> "none", cur |-> NoRow, ver |-> [no |-> 0], new |-> 0]
Unanswered == [file |-> "none", sha |-> "none"]

Init ==
  /\ rows = [f \in Files |-> NoRow] /\ versions = {}
  /\ refs = [p \in Paths |-> 0] /\ disk = [p \in Paths |-> NoBlob]
  /\ minted = 0 /\ swap = NoSwap /\ answered = Unanswered /\ faults = 0 /\ harm = {}

--------------------------------------------------------------------------------
(* Uploads and deletes, each one transaction: a restore that is under way holds *)
(* the row of its file and the next version_no, so that an upload of the same   *)
(* name waits for it and then fails on the unique key.  Other files do not.     *)

VersionsOf(f) == {v \in versions : v.file = f}
NextNo(f)     == Max({v.no : v \in VersionsOf(f)} \cup {0}) + 1
\* Other rows use a blob that restoring v exchanges.
Shared(f, v) ==
  LET two == {rows[f].path, v.path}
  IN \/ rows[f].path = v.path
     \/ \E g \in Files \ {f} : rows[g].path \in two
     \/ \E u \in versions \ {v} : u.path \in two

Acquire(r, p) == [r EXCEPT ![p] = @ + 1]
\* One reference after the other; a path without a count has none left.
Release(r, V) == [p \in Paths |->
  LET n == Cardinality({v \in V : v.path = p}) IN IF r[p] > n THEN r[p] - n ELSE 0]
Unlinked(d, V, r) == [p \in Paths |-> IF (\E v \in V : v.path = p) /\ r[p] = 0 THEN NoBlob ELSE d[p]]
Pruned(V) == {v \in V : Cardinality({u \in V : u.no > v.no}) >= MaxVersions}

Donors(f, h) == {g \in Files \ {f} : rows[g] # NoRow /\ rows[g].sha = h}

\* The path and the key of the new content: a donor's, or those of a new blob.
Stored(f, h) ==
  LET donors == Donors(f, h)
  IN IF donors # {} THEN {[path |-> rows[g].path, key |-> rows[g].key] : g \in donors}
     ELSE IF minted < MaxBlobs THEN {[path |-> minted + 1, key |-> Key(h)]} ELSE {}
Written(b) == IF b.key.id = minted + 1 THEN [disk EXCEPT ![b.path] = b.key] ELSE disk
Mint(b)    == minted' = IF b.key.id = minted + 1 THEN minted + 1 ELSE minted

\* A row that takes over a blob while it is being exchanged.
Joins(path) == swap # NoSwap /\ path \in {swap.cur.path, swap.ver.path}

\* Case A: the name is there with this hash.
Same(f, h) ==
  /\ rows[f] # NoRow /\ rows[f].sha = h
  /\ answered' = [file |-> f, sha |-> h]
  /\ UNCHANGED <<rows, versions, refs, disk, minted, swap, faults, harm>>

\* Case B: a new file.
Insert(f, h) ==
  /\ rows[f] = NoRow /\ VersionsOf(f) = {}
  /\ \E b \in Stored(f, h) :
       /\ rows' = [rows EXCEPT ![f] = [path |-> b.path, key |-> b.key, sha |-> h]]
       /\ refs' = Acquire(refs, b.path)
       /\ disk' = Written(b) /\ Mint(b)
       /\ harm' = IF Joins(b.path) THEN harm \cup {"shared"} ELSE harm
  /\ answered' = [file |-> f, sha |-> h]
  /\ UNCHANGED <<versions, swap, faults>>

\* Case C: the content in place becomes a version, older ones are pruned.
Overwrite(f, h) ==
  /\ rows[f] # NoRow /\ rows[f].sha # h /\ swap.file # f /\ NextNo(f) <= MaxNo
  /\ \E b \in Stored(f, h) :
       /\ LET old  == rows[f]
              all  == VersionsOf(f) \cup
                        {[file |-> f, no |-> NextNo(f), path |-> old.path, key |-> old.key]}
              gone == Pruned(all)
              left == Release(Release(Acquire(Acquire(refs, old.path), b.path), {old}), gone)
          IN /\ rows' = [rows EXCEPT ![f] = [path |-> b.path, key |-> b.key, sha |-> h]]
             /\ versions' = (versions \ VersionsOf(f)) \cup (all \ gone)
             /\ refs' = left
             /\ disk' = Unlinked(Unlinked(Written(b), gone, left), {old}, left)
             /\ Mint(b)
       /\ harm' = IF Joins(b.path) THEN harm \cup {"shared"} ELSE harm
  /\ answered' = [file |-> f, sha |-> h]
  /\ UNCHANGED <<swap, faults>>

\* The file is trashed and purged with its versions; BlobStore has the steps.
Purge(f) ==
  /\ rows[f] # NoRow /\ swap.file # f
  /\ LET gone == VersionsOf(f)
         left == Release(Release(refs, gone), {rows[f]})
     IN /\ refs' = left
        /\ disk' = Unlinked(Unlinked(disk, gone, left), {rows[f]}, left)
        /\ versions' = versions \ VersionsOf(f)
  /\ rows' = [rows EXCEPT ![f] = NoRow]
  /\ answered' = IF answered.file = f THEN Unanswered ELSE answered
  /\ UNCHANGED <<minted, swap, faults, harm>>

--------------------------------------------------------------------------------
(* The restore.  A definition named Mutant... is the one that follows it with a *)
(* plausible mistake in it; no specification uses it.                           *)

\* The reads, and the three statements that nobody else sees before COMMIT.  One
\* restore is open at a time: those of other files exchange other blobs, or shared ones.
Begin(f, v) ==
  /\ swap = NoSwap /\ rows[f] # NoRow /\ v \in VersionsOf(f) /\ NextNo(f) <= MaxNo
  /\ swap' = [step |-> 1, file |-> f, cur |-> rows[f], ver |-> v, new |-> NextNo(f)]
  /\ harm' = IF Shared(f, v) THEN harm \cup {"shared"} ELSE harm
  /\ UNCHANGED <<rows, versions, refs, disk, minted, answered, faults>>

\* os.Rename: fails when there is no source.
Moved(d, from, to) ==
  IF d[from] = NoBlob THEN d ELSE [d EXCEPT ![to] = d[from], ![from] = NoBlob]
From(s) == CASE s.step = 1 -> s.cur.path
             [] s.step = 2 -> s.ver.path
             [] s.step = 3 -> Swap
To(s)   == CASE s.step = 1 -> Swap
             [] s.step = 2 -> s.cur.path
             [] s.step = 3 -> VersionPath(s.file, s.new)

\* Undoes the last rename only.
MutantUndone(d, s) ==
  CASE s.step = 1 -> d
    [] s.step = 2 -> Moved(d, Swap, s.cur.path)
    [] s.step = 3 -> Moved(d, s.cur.path, s.ver.path)
    [] s.step = 4 -> Moved(d, To([s EXCEPT !.step = 3]), Swap)

\* What the handler renames back when step fails.
Undone(d, s) ==
  CASE s.step = 1 -> d
    [] s.step = 2 -> Moved(d, Swap, s.cur.path)
    [] s.step = 3 -> Moved(Moved(d, s.cur.path, s.ver.path), Swap, s.cur.path)
    [] s.step = 4 -> Moved(Moved(Moved(d, To([s EXCEPT !.step = 3]), Swap),
                             s.cur.path, s.ver.path), Swap, s.cur.path)

\* The next of the three renames, or its failure, which ends the request.
Rename ==
  /\ swap.step \in 1 .. 3
  /\ \/ /\ disk[From(swap)] # NoBlob
        /\ disk' = Moved(disk, From(swap), To(swap))
        /\ swap' = [swap EXCEPT !.step = @ + 1]
        /\ UNCHANGED faults
     \/ /\ IF disk[From(swap)] = NoBlob THEN UNCHANGED faults
           ELSE faults < MaxFaults /\ faults' = faults + 1
        /\ disk' = Undone(disk, swap)
        /\ swap' = NoSwap
  /\ UNCHANGED <<rows, versions, refs, minted, answered, harm>>

\* What COMMIT makes of the tables.  content_sha256, storage_path and blob_refs
\* stay as they are.
Restored ==
  /\ rows' = [rows EXCEPT ![swap.file].key = swap.ver.key]
  /\ versions' = (versions \ {swap.ver}) \cup
       {[file |-> swap.file, no |-> swap.new, path |-> VersionPath(swap.file, swap.new),
         key |-> swap.cur.key]}

\* COMMIT succeeds; fails, and the renames are undone; or is applied although the
\* handler is told that it failed.
Commit ==
  /\ swap.step = 4
  /\ \/ Restored /\ UNCHANGED <<disk, faults, harm>>
     \/ /\ faults < MaxFaults /\ faults' = faults + 1
        /\ disk' = Undone(disk, swap)
        /\ \/ UNCHANGED <<rows, versions, harm>>
           \/ Restored /\ harm' = harm \cup {"commit"}
  /\ swap' = NoSwap
  /\ answered' = IF answered.file = swap.file THEN Unanswered ELSE answered
  /\ UNCHANGED <<refs, minted>>

\* The process dies with the transaction open.
Crash ==
  /\ swap # NoSwap /\ faults < MaxFaults
  /\ faults' = faults + 1
  /\ swap' = NoSwap
  /\ harm' = IF swap.step = 1 THEN harm ELSE harm \cup {"crash"}
  /\ UNCHANGED <<rows, versions, refs, disk, minted, answered>>

Next ==
  \/ \E f \in Files, h \in Hashes : Same(f, h) \/ Insert(f, h) \/ Overwrite(f, h)
  \/ \E f \in Files : Purge(f) \/ \E v \in versions : Begin(f, v)
  \/ Rename \/ Commit \/ Crash

Spec == Init /\ [][Next]_vars

--------------------------------------------------------------------------------
(* Properties. *)

Keys == [id: 1 .. minted, sha: Hashes]
TypeOK ==
  /\ rows \in [Files -> [path: 1 .. minted, key: Keys, sha: Hashes] \cup {NoRow}]
  /\ versions \subseteq [file: Files, no: 1 .. MaxNo, path: Paths, key: Keys]
  /\ refs \in [Paths -> Nat] /\ disk \in [Paths -> Keys \cup {NoBlob}]
  /\ minted \in 0 .. MaxBlobs /\ swap.step \in 0 .. 4 /\ faults \in 0 .. MaxFaults
  /\ answered \in [file: Files, sha: Hashes] \cup {Unanswered}
  /\ harm \subseteq {"shared", "commit", "crash"}

\* Outside of a restore, every row and every version finds at its path the blob
\* that its key decrypts, also after renames that failed and were undone; unless
\* the blobs were shared with other rows, or a crash or a COMMIT of unknown
\* outcome fell between the renames.
RowsMatchDisk ==
  harm = {} =>
    /\ \A f \in Files : rows[f] # NoRow /\ swap.file # f => disk[rows[f].path] = rows[f].key
    /\ \A v \in versions : swap.file # v.file => disk[v.path] = v.key

\* A re-upload that is answered as "same name and same content" finds the content
\* in place: what was uploaded last is what the row has.
UploadsKept ==
  answered # Unanswered => rows[answered.file].key.sha = answered.sha
================================================================================
