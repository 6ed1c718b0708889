------------------------------- MODULE SyncEngine -------------------------------
(***************************************************************************)
(* The desktop client's one-way synchronisation of a watched folder        *)
(* (desktop/src/lib/sync-engine.ts): the local tree, what the watcher has  *)
(* reported of it, the batches of changes, the serial queue of tasks, the  *)
(* folder deletions held back for a rename, the table from paths to remote *)
(* ids, and the remote rows.                                               *)
(*                                                                         *)
(* The tree has two levels: folders of the root, and files in them.  A     *)
(* version of a file stands for its content and for the signature (size    *)
(* and mtime) by which the client recognises it.                           *)
(***************************************************************************)
EXTENDS Integers, FiniteSets, Sequences

CONSTANTS
  Dirs,         \* names of folders; their order is the order of paths
  Names,        \* names of files
  MaxVersion,   \* bound: how often files may be written
  Size(_),      \* the length of a version
  MaxIds,       \* bound: the uuids that there are for remote rows
  MaxEdits,     \* bound: changes that the user makes locally
  MaxTroubles   \* bound: requests that fail or are not answered, restarts of the
                \* client, and full syncs that the user asks for, together

ASSUME SyncAssumption ==
  /\ Dirs \subseteq Nat \ {0} /\ IsFiniteSet(Dirs) /\ IsFiniteSet(Names)
  /\ 0 \notin Names
  /\ MaxVersion \in Nat \ {0} /\ MaxIds \in Nat \ {0}
  /\ \A v \in 1 .. MaxVersion : Size(v) \in Nat
  /\ MaxEdits \in Nat /\ MaxTroubles \in Nat

Paths    == Dirs \X Names
Versions == 1 .. MaxVersion
None     == 0
Ids      == 1 .. MaxIds

VARIABLES
  local,     \* the folder on disk: its subfolders and the version of each file
  clock,     \* the last version written
  seen,      \* what the watcher has reported of local
  pending,   \* pendingFsEvents: the last event of each path in this batch
  queue,     \* tasks that wait for the one that runs
  task,      \* the task that runs, with what it still has to do
  timers,    \* pendingFolderRenames
  map,       \* mappings: the remote id of each path, and the version uploaded
  saved,     \* the mappings in the state file
  folders,   \* remote folders: the name of each live one
  files,     \* remote files: folder, name and version of each live one
  used,      \* edits and troubles so far
  lost       \* history: what the code does not recover from by itself

vars == <<local, clock, seen, pending, queue, task, timers, map, saved, folders,
          files, used, lost>>
remote == <<folders, files>>

Event   == {"none", "upsert", "delete"}
Changes == [dirs: [Dirs -> Event], files: [Paths -> Event]]
Quiet   == [dirs |-> [d \in Dirs |-> "none"], files |-> [p \in Paths |-> "none"]]
Tree    == [dirs: SUBSET Dirs, files: [Paths -> Versions \cup {None}]]
Copy    == [id: Ids \cup {None}, v: Versions \cup {None}]
NoCopy  == [id |-> None, v |-> None]
Mapping == [dirs: [Dirs -> Ids \cup {None}], files: [Paths -> Copy]]
Row     == [folder: Ids \cup {None}, name: Names \cup {None}, v: Versions \cup {None}]
NoRow   == [folder |-> None, name |-> None, v |-> None]
Prints  == SUBSET (Names \X Nat)
NoTimer == [print |-> {}, id |-> None]
Losses  == {"recreated", "inPlace", "overwritten", "twin", "mistaken", "failed", "stopped",
            "guarded", "unreported", "extra", "unrecorded", "unfinished"}

\* dirs, todo, drop and rmdir are the paths that wait for each loop of a task;
\* sending holds the uploads under way; waits says that the server has done what a
\* request asks and that the answer has not come; calm is a history field of a full
\* sync: nothing has changed and nothing has failed since its scan.
Task == [kind: {"idle", "batch", "full", "remove"}, tried: BOOLEAN,
         dirs: SUBSET Dirs, todo: SUBSET Paths,
         sending: [Paths -> [v: Versions \cup {None}, folder: Ids \cup {None}]],
         drop: SUBSET Paths, rmdir: SUBSET Dirs,
         scan: Tree, swept: BOOLEAN, waits: BOOLEAN, calm: BOOLEAN]
NotSending == [p \in Paths |-> [v |-> None, folder |-> None]]
NoTree == [dirs |-> {}, files |-> [p \in Paths |-> None]]
NoTask == [kind |-> "idle", tried |-> FALSE, dirs |-> {}, todo |-> {},
           sending |-> NotSending, drop |-> {}, rmdir |-> {},
           scan |-> NoTree, swept |-> FALSE, waits |-> FALSE, calm |-> TRUE]
Waiting == [kind: {"batch"}, changes: Changes] \cup [kind: {"full"}]
             \cup [kind: {"remove"}, dir: Dirs]

TypeOK ==
  /\ local \in Tree /\ seen \in Tree /\ clock \in Versions
  /\ pending \in Changes
  /\ queue \in Seq(Waiting)
  /\ task \in Task
  /\ timers \in [Dirs -> [print: Prints, id: Ids \cup {None}]]
  /\ map \in Mapping /\ saved \in Mapping
  /\ folders \in [Ids -> Dirs \cup {None}]
  /\ files \in [Ids -> Row]
  /\ used \in [edits: 0 .. MaxEdits, troubles: 0 .. MaxTroubles]
  /\ lost \in SUBSET Losses
  /\ task.kind = "idle" => task = NoTask
  /\ \A p \in Paths : task.sending[p].v # None => task.dirs = {} /\ p \notin task.todo

\* One folder with one file in it has been synchronised.
Init ==
  \E p \in Paths, i \in {1} :
    /\ p[1] = CHOOSE d \in Dirs : \A e \in Dirs : d <= e
    /\ local = [dirs |-> {p[1]}, files |-> [q \in Paths |-> IF q = p THEN 1 ELSE None]]
    /\ seen = local
    /\ clock = 1
    /\ pending = Quiet
    /\ queue = <<>> /\ task = NoTask
    /\ timers = [d \in Dirs |-> NoTimer]
    /\ map = [dirs |-> [d \in Dirs |-> IF d = p[1] THEN i ELSE None],
              files |-> [q \in Paths |-> IF q = p THEN [id |-> i, v |-> 1] ELSE NoCopy]]
    /\ saved = map
    /\ folders = [k \in Ids |-> IF k = i THEN p[1] ELSE None]
    /\ files = [k \in Ids |-> IF k = i THEN [folder |-> i, name |-> p[2], v |-> 1] ELSE NoRow]
    /\ used = [edits |-> 0, troubles |-> 0]
    /\ lost = {}

--------------------------------------------------------------------------------
(* The user, and the watcher. *)

\* The user takes back a change that the watcher has not reported: it will
\* report neither, whatever a task has seen in between.
TakesBack ==
  \/ \E d \in Dirs : /\ (d \in local'.dirs) # (d \in local.dirs)
                     /\ (d \in local'.dirs) = (d \in seen.dirs)
  \/ \E p \in Paths : /\ p[1] \in local'.dirs
                      /\ local'.files[p] # local.files[p] /\ local'.files[p] = seen.files[p]

Edit ==
  /\ used.edits < MaxEdits
  /\ used' = [used EXCEPT !.edits = @ + 1]
  /\ task' = [task EXCEPT !.calm = task = NoTask]
  /\ lost' = IF TakesBack THEN lost \cup {"unreported"} ELSE lost
  /\ UNCHANGED <<seen, pending, queue, timers, map, saved, remote>>

MakeDir(d) ==
  /\ d \notin local.dirs
  /\ local' = [local EXCEPT !.dirs = @ \cup {d}]
  /\ Edit /\ UNCHANGED clock

Write(p, v) ==
  /\ p[1] \in local.dirs /\ v > clock
  /\ local' = [local EXCEPT !.files[p] = v]
  /\ clock' = v
  /\ Edit

DeleteFile(p) ==
  /\ local.files[p] # None
  /\ local' = [local EXCEPT !.files[p] = None]
  /\ Edit /\ UNCHANGED clock

DeleteDir(d) ==
  /\ d \in local.dirs
  /\ local' = [dirs |-> local.dirs \ {d},
               files |-> [p \in Paths |-> IF p[1] = d THEN None ELSE local.files[p]]]
  /\ Edit /\ UNCHANGED clock

\* A rename keeps the signatures of the files.
RenameDir(d, e) ==
  /\ d \in local.dirs /\ e \notin local.dirs
  /\ local' = [dirs |-> (local.dirs \ {d}) \cup {e},
               files |-> [p \in Paths |-> CASE p[1] = d -> None
                                            [] p[1] = e -> local.files[<<d, p[2]>>]
                                            [] OTHER    -> local.files[p]]]
  /\ Edit /\ UNCHANGED clock

\* chokidar compares the disk with what it last reported; with a folder it
\* reports that its files are gone, and a file only in a folder it has reported.
\* A folder that is back in the same batch hides that it was gone, and with it
\* the files of it that were never reported.
WatchDir(d) ==
  /\ \/ /\ d \in local.dirs \ seen.dirs
        /\ seen' = [seen EXCEPT !.dirs = @ \cup {d}]
        /\ pending' = [pending EXCEPT !.dirs[d] = "upsert"]
        /\ lost' = IF pending.dirs[d] = "delete" THEN lost \cup {"unreported"} ELSE lost
     \/ /\ d \in seen.dirs \ local.dirs
        /\ seen' = [dirs |-> seen.dirs \ {d},
                    files |-> [p \in Paths |-> IF p[1] = d THEN None ELSE seen.files[p]]]
        /\ pending' = [dirs |-> [pending.dirs EXCEPT ![d] = "delete"],
                       files |-> [p \in Paths |->
                         IF p[1] = d /\ seen.files[p] # None THEN "delete"
                         ELSE pending.files[p]]]
        /\ UNCHANGED lost
  /\ UNCHANGED <<local, clock, queue, task, timers, map, saved, remote, used>>

WatchFile(p) ==
  /\ p[1] \in seen.dirs \cap local.dirs
  /\ local.files[p] # seen.files[p]
  /\ seen' = [seen EXCEPT !.files[p] = local.files[p]]
  /\ pending' = [pending EXCEPT !.files[p] =
                   IF local.files[p] = None THEN "delete" ELSE "upsert"]
  /\ UNCHANGED <<local, clock, queue, task, timers, map, saved, remote, used, lost>>

--------------------------------------------------------------------------------
(* What enters the queue. *)

\* The debounce timer of onFsEvent: the batch becomes one task.
Debounce ==
  /\ pending # Quiet
  /\ queue' = Append(queue, [kind |-> "batch", changes |-> pending])
  /\ pending' = Quiet
  /\ UNCHANGED <<local, clock, seen, task, timers, map, saved, remote, used, lost>>

\* scheduleFullSync, from the button or the tray.
SyncNow ==
  /\ used.troubles < MaxTroubles
  /\ used' = [used EXCEPT !.troubles = @ + 1]
  /\ queue' = Append(queue, [kind |-> "full"])
  /\ UNCHANGED <<local, clock, seen, pending, task, timers, map, saved, remote, lost>>

\* FOLDER_RENAME_GRACE_MS have passed since the folder's deletion was seen.
GraceOver(d) ==
  /\ timers[d] # NoTimer
  /\ timers' = [timers EXCEPT ![d] = NoTimer]
  /\ queue' = Append(queue, [kind |-> "remove", dir |-> d])
  /\ UNCHANGED <<local, clock, seen, pending, task, map, saved, remote, used, lost>>

--------------------------------------------------------------------------------
(* The start of a task.  A definition named Mutant... is the one that follows  *)
(* it with a plausible mistake in it; no specification uses it.                *)

Takes(kind) ==
  /\ task = NoTask
  /\ queue # <<>> /\ Head(queue).kind = kind

\* dirFingerprintFromMappings and dirFingerprintFromLocal: names and lengths of
\* the files in a folder.
MappedPrint(d) == {<<n, Size(map.files[<<d, n>>].v)>> :
                     n \in {m \in Names : map.files[<<d, m>>].id # None}}
LocalPrint(d)  == {<<n, Size(local.files[<<d, n>>])>> :
                     n \in {m \in Names : local.files[<<d, m>>] # None}}

\* scheduleDeferredDirDelete holds back the folders that it could recognise.
Defers(d) == map.dirs[d] # None /\ MappedPrint(d) # {}

\* The removals of S, in the order of the paths: there is one such sequence.
Removals(S) ==
  {r \in [1 .. Cardinality(S) -> [kind: {"remove"}, dir: S]] :
     \A j, k \in DOMAIN r : j < k => r[j].dir < r[k].dir}

StartBatch ==
  /\ Takes("batch")
  /\ LET c == Head(queue).changes
         gone == {d \in Dirs : c.dirs[d] = "delete"}
     IN /\ timers' = [d \in Dirs |->
              IF d \in gone /\ Defers(d)
                THEN [print |-> MappedPrint(d), id |-> map.dirs[d]]
                ELSE timers[d]]
        /\ \E r \in Removals({d \in gone : ~Defers(d)}) : queue' = Tail(queue) \o r
        /\ task' = [NoTask EXCEPT !.kind = "batch",
                      !.dirs = {d \in Dirs : c.dirs[d] = "upsert"},
                      !.todo = {p \in Paths : c.files[p] = "upsert"},
                      !.drop = {p \in Paths : c.files[p] = "delete"}]
  /\ UNCHANGED <<local, clock, seen, pending, map, saved, remote, used, lost>>

\* syncRoot scans the local tree.
StartFull ==
  /\ Takes("full")
  /\ task' = [NoTask EXCEPT !.kind = "full", !.scan = local, !.dirs = local.dirs,
                !.todo = {p \in Paths : local.files[p] # None}]
  /\ queue' = Tail(queue)
  /\ UNCHANGED <<local, clock, seen, pending, timers, map, saved, remote, used, lost>>

\* removeDirectoryMapping lists the mapped descendants.
StartRemove ==
  /\ Takes("remove")
  /\ LET d == Head(queue).dir
     IN task' = [NoTask EXCEPT !.kind = "remove",
                   !.drop = {p \in Paths : p[1] = d /\ map.files[p].id # None},
                   !.rmdir = IF map.dirs[d] # None THEN {d} ELSE {}]
  /\ queue' = Tail(queue)
  /\ UNCHANGED <<local, clock, seen, pending, timers, map, saved, remote, used, lost>>

--------------------------------------------------------------------------------
(* The steps of a task, one for each request to the server.  A request that is *)
(* answered and the recording of the answer are one step: nobody else looks    *)
(* at the remote rows.  What can come between the two is below, in Unheard.    *)

NoSending == task.sending = NotSending
\* The uuids that nothing names, and the one of the next row.
Unused == {i \in Ids :
  /\ folders[i] = None /\ files[i] = NoRow
  /\ \A d \in Dirs : map.dirs[d] # i /\ saved.dirs[d] # i /\ timers[d].id # i
  /\ \A p \in Paths : /\ map.files[p].id # i /\ saved.files[p].id # i
                      /\ task.sending[p].folder # i}
Fresh == CHOOSE i \in Unused : TRUE

Trouble(loss) ==
  /\ used.troubles < MaxTroubles
  /\ used' = [used EXCEPT !.troubles = @ + 1]
  /\ lost' = lost \cup {loss}

\* The request fails; what has failed is not always tried again.
Fails    == Trouble("failed")
Succeeds == UNCHANGED used

NextDir(d) == ~task.waits /\ d \in task.dirs /\ \A e \in task.dirs : d <= e
Rest == <<local, clock, seen, pending, queue, saved>>

\* The timers that tryRenameMatch finds; it takes the oldest of them, here any.
Matches(d) == {o \in Dirs : timers[o] # NoTimer /\ timers[o].print = LocalPrint(d)}
MayRename(d) == task.kind = "batch" /\ ~task.tried /\ Matches(d) # {}

\* Rewrites the entry of the folder and none below it.
MutantMoved(o, d) ==
  [map EXCEPT !.dirs = [e \in Dirs |-> CASE e = o -> None
                                         [] e = d /\ map.dirs[o] # None -> map.dirs[o]
                                         [] OTHER -> map.dirs[e]]]

\* The table after the entries below o have been rewritten to d.  When o and d
\* are the same path the entries are deleted.
Moved(o, d) ==
  LET old(p) == map.files[<<o, p[2]>>]
  IN [dirs  |-> [e \in Dirs |-> CASE e = o -> None
                                  [] e = d /\ map.dirs[o] # None -> map.dirs[o]
                                  [] OTHER -> map.dirs[e]],
      files |-> [p \in Paths |-> CASE p[1] = o -> NoCopy
                                   [] p[1] = d /\ old(p).id # None -> old(p)
                                   [] OTHER -> map.files[p]]]

\* A folder that exists, and that no report still on its way will bring up again.
Forgotten(d) ==
  /\ d \in local.dirs /\ d \in seen.dirs
  /\ pending.dirs[d] # "upsert" /\ d \notin task.dirs
  /\ \A k \in 1 .. Len(queue) : queue[k].kind = "batch" => queue[k].changes.dirs[d] # "upsert"

\* The old folder has been back, and has got files that the new one does not have.
Outgrown(o, d) ==
  \E n \in Names : map.files[<<o, n>>].id # None /\ local.files[<<d, n>>] = None

\* The table has entries at or below the path.
Mapped(d) == map.dirs[d] # None \/ \E n \in Names : map.files[<<d, n>>].id # None

\* A new folder looks like one whose deletion is held back: PATCH its row.
Rename(d, o) ==
  /\ NextDir(d) /\ MayRename(d) /\ o \in Matches(d)
  /\ timers' = [timers EXCEPT ![o] = NoTimer]
  /\ \/ /\ Succeeds /\ folders[timers[o].id] # None
        /\ folders' = [folders EXCEPT ![timers[o].id] = d]
        /\ map' = Moved(o, d)
        /\ task' = [task EXCEPT !.dirs = @ \ {d}]
        /\ lost' = lost \cup IF o = d THEN {"inPlace"}
                             ELSE {l \in {"recreated", "overwritten"} :
                                     IF l = "recreated" THEN Forgotten(o) \/ Outgrown(o, d)
                                                        ELSE Mapped(d)}
     \/ /\ IF folders[timers[o].id] = None THEN UNCHANGED <<used, lost>> ELSE Fails
        /\ task' = [task EXCEPT !.tried = TRUE]
        /\ UNCHANGED <<map, folders>>
  /\ UNCHANGED <<Rest, files>>

\* ensureRemoteFolder in a loop over folders.  A failure ends the task.
EnsureDir(d) ==
  /\ NextDir(d) /\ ~MayRename(d)
  /\ \/ /\ Succeeds
        /\ task' = [task EXCEPT !.dirs = @ \ {d}, !.tried = FALSE]
        /\ IF map.dirs[d] # None
             THEN UNCHANGED <<map, folders>>
             ELSE /\ Unused # {}
                  /\ folders' = [folders EXCEPT ![Fresh] = d]
                  /\ map' = [map EXCEPT !.dirs[d] = Fresh]
        /\ UNCHANGED lost
     \/ /\ map.dirs[d] = None /\ Fails
        /\ task' = NoTask
        /\ UNCHANGED <<map, folders>>
  /\ UNCHANGED <<Rest, timers, files>>

\* removeFileMapping: the entry goes even if the request fails.
DropFile(p) ==
  /\ map' = [map EXCEPT !.files[p] = NoCopy]
  /\ IF map.files[p].id = None \/ files[map.files[p].id] = NoRow
       THEN Succeeds /\ UNCHANGED <<files, lost>>
       ELSE \/ /\ Succeeds
               /\ files' = [files EXCEPT ![map.files[p].id] = NoRow]
               /\ UNCHANGED lost
            \/ Fails /\ UNCHANGED files

\* An upload reads the signature before the content.  If the content is newer, and
\* a renamed folder then brings back a file with the older signature, the client
\* takes that file for the one that it has uploaded.
Mistaken(p) ==
  map.files[p].v = local.files[p] /\ files[map.files[p].id].v # local.files[p]

\* Files are sent once the loop over the folders has ended.
MutantFoldersDone == TRUE   \* does not await the loop
FoldersDone       == task.dirs = {}

\* Does not look at the signature.
MutantStatFile(p) ==
  /\ FoldersDone /\ p \in task.todo
  /\ IF local.files[p] = None
       THEN /\ DropFile(p)
            /\ task' = [task EXCEPT !.todo = @ \ {p}]
       ELSE /\ task' = IF map.files[p].id # None
                         THEN [task EXCEPT !.todo = @ \ {p}]
                         ELSE [task EXCEPT !.todo = @ \ {p},
                                 !.sending[p] = [v |-> local.files[p],
                                                 folder |-> map.dirs[p[1]]]]
            /\ lost' = IF Mistaken(p) THEN lost \cup {"mistaken"} ELSE lost
            /\ UNCHANGED <<map, files, used>>
  /\ UNCHANGED <<Rest, timers, folders>>

\* syncFile up to its first request: a file that is gone, one that has been
\* uploaded, one to upload.
StatFile(p) ==
  /\ FoldersDone /\ p \in task.todo
  /\ IF local.files[p] = None
       THEN /\ DropFile(p)
            /\ task' = [task EXCEPT !.todo = @ \ {p}]
       ELSE /\ task' = IF map.files[p].v = local.files[p]
                         THEN [task EXCEPT !.todo = @ \ {p}]
                         ELSE [task EXCEPT !.todo = @ \ {p},
                                 !.sending[p] = [v |-> local.files[p],
                                                 folder |-> map.dirs[p[1]]]]
            /\ lost' = IF Mistaken(p) THEN lost \cup {"mistaken"} ELSE lost
            /\ UNCHANGED <<map, files, used>>
  /\ UNCHANGED <<Rest, timers, folders>>

\* An upload has found no entry for its folder and creates one, although another
\* upload may have done so in the meantime.
MakeParent(p) ==
  /\ task.sending[p].v # None /\ task.sending[p].folder = None
  /\ \/ /\ Succeeds /\ Unused # {}
        /\ folders' = [folders EXCEPT ![Fresh] = p[1]]
        /\ map' = [map EXCEPT !.dirs[p[1]] = Fresh]
        /\ task' = [task EXCEPT !.sending[p].folder = Fresh]
        /\ lost' = IF map.dirs[p[1]] # None THEN lost \cup {"twin"} ELSE lost
     \/ /\ Fails
        /\ task' = [task EXCEPT !.sending[p].v = None, !.calm = FALSE]
        /\ UNCHANGED <<map, folders>>
  /\ UNCHANGED <<Rest, timers, files>>

\* The rows of this name in this folder, and the row that an upload updates: one of
\* them, or a new one.
Same(f, n)   == {i \in Ids : files[i].folder = f /\ files[i].name = n}
Target(f, n) == IF Same(f, n) = {} THEN Fresh ELSE CHOOSE i \in Same(f, n) : TRUE

\* The upload reads the file as it is now and is recorded with the signature
\* read before.  The server refuses a folder in the trash.
Send(p) ==
  LET f == task.sending[p].folder
      i == Target(f, p[2])
  IN /\ f # None
     /\ IF local.files[p] = None
          THEN DropFile(p) /\ task' = [task EXCEPT !.sending[p] = NotSending[p]]
          ELSE \/ /\ folders[f] # None /\ Succeeds
                  /\ Same(f, p[2]) = {} => Unused # {}
                  /\ files' = [files EXCEPT ![i] = [folder |-> f, name |-> p[2],
                                                   v |-> local.files[p]]]
                  /\ map' = [map EXCEPT !.files[p] = [id |-> i, v |-> task.sending[p].v]]
                  /\ task' = [task EXCEPT !.sending[p] = NotSending[p]]
                  /\ UNCHANGED lost
               \/ /\ IF folders[f] = None THEN UNCHANGED <<used, lost>> ELSE Fails
                  /\ task' = [task EXCEPT !.sending[p] = NotSending[p], !.calm = FALSE]
                  /\ UNCHANGED <<map, files>>
     /\ UNCHANGED <<Rest, timers, folders>>

Uploaded == ~task.waits /\ task.dirs = {} /\ task.todo = {} /\ NoSending

\* How many entries of the table have no counterpart in the scan, and how many
\* there are.
Stale == [files |-> {p \in Paths : map.files[p].id # None /\ task.scan.files[p] = None},
          dirs  |-> {d \in Dirs : map.dirs[d] # None /\ d \notin task.scan.dirs}]
Entries == Cardinality({p \in Paths : map.files[p].id # None})
             + Cardinality({d \in Dirs : map.dirs[d] # None})

\* The clean-up of a full sync, unless more than half of the entries are stale.
Sweep ==
  /\ task.kind = "full" /\ Uploaded /\ ~task.swept
  /\ IF 2 * (Cardinality(Stale.files) + Cardinality(Stale.dirs)) > Entries
       THEN /\ task' = [task EXCEPT !.swept = TRUE]
            /\ lost' = lost \cup {"guarded"}
       ELSE /\ task' = [task EXCEPT !.swept = TRUE, !.drop = Stale.files, !.rmdir = Stale.dirs]
            /\ UNCHANGED lost
  /\ UNCHANGED <<Rest, timers, map, remote, used>>

\* A file entry goes: an event said so, or its folder or the clean-up.
RemoveFile(p) ==
  /\ Uploaded /\ p \in task.drop
  /\ DropFile(p)
  /\ task' = [task EXCEPT !.drop = @ \ {p}]
  /\ UNCHANGED <<Rest, timers, folders>>

\* A folder entry goes, with the row and what is in it.
RemoveDir(d) ==
  /\ Uploaded /\ task.drop = {} /\ d \in task.rmdir
  /\ task' = [task EXCEPT !.rmdir = @ \ {d}]
  /\ map' = [dirs |-> [map.dirs EXCEPT ![d] = None],
             files |-> [p \in Paths |-> IF p[1] = d THEN NoCopy ELSE map.files[p]]]
  /\ LET i == map.dirs[d]
         gone == IF Forgotten(d) THEN {"recreated"} ELSE {}
     IN IF i = None \/ folders[i] = None
          THEN Succeeds /\ lost' = lost \cup gone /\ UNCHANGED <<folders, files>>
          ELSE \/ /\ Succeeds
                  /\ folders' = [folders EXCEPT ![i] = None]
                  /\ files' = [k \in Ids |-> IF files[k].folder = i THEN NoRow ELSE files[k]]
                  /\ lost' = lost \cup gone
               \/ Fails /\ UNCHANGED <<folders, files>>
  /\ UNCHANGED <<Rest, timers>>

Finish ==
  /\ task.kind # "idle" /\ Uploaded /\ task.drop = {} /\ task.rmdir = {}
  /\ task.kind = "full" => task.swept
  /\ task' = NoTask
  /\ UNCHANGED <<Rest, timers, map, remote, used, lost>>

--------------------------------------------------------------------------------
(* The server does what a request asks, and the client has no answer.  The     *)
(* answer may be lost: then request() sends the request again, or gives up.    *)
(* Or it is on its way, and the task waits for it: only a stop of the client   *)
(* ends that here, because an answer that comes is the step above.             *)

Held        == [task EXCEPT !.waits = TRUE, !.calm = FALSE]
HeldFile(p) == [Held EXCEPT !.todo = @ \ {p}, !.sending[p] = NotSending[p]]

\* A folder is there that the client does not know.  It sends the POST again, which
\* makes another one, or gives up: EnsureDir and MakeParent.
UnheardDir(d) ==
  /\ NextDir(d) /\ ~MayRename(d) /\ map.dirs[d] = None
  /\ Trouble("extra") /\ Unused # {}
  /\ folders' = [folders EXCEPT ![Fresh] = d]
  /\ task' \in {task, Held}
  /\ UNCHANGED <<Rest, timers, map, files>>

UnheardParent(p) ==
  /\ task.sending[p].v # None /\ task.sending[p].folder = None
  /\ Trouble("extra") /\ Unused # {}
  /\ folders' = [folders EXCEPT ![Fresh] = p[1]]
  /\ task' \in {task, HeldFile(p)}
  /\ UNCHANGED <<Rest, timers, map, files>>

\* The folder has its new name, and the table the old one.  A PATCH that is sent
\* again and answered is Rename; one that is given up counts as failed.
UnheardRename(d, o) ==
  /\ NextDir(d) /\ MayRename(d) /\ o \in Matches(d)
  /\ folders[timers[o].id] # None
  /\ Trouble("unrecorded")
  /\ timers' = [timers EXCEPT ![o] = NoTimer]
  /\ folders' = [folders EXCEPT ![timers[o].id] = d]
  /\ task' \in {[task EXCEPT !.tried = TRUE], Held}
  /\ UNCHANGED <<Rest, map, files>>

\* The file is there or has its new content, and the table has no entry or the old one.
\* An upload that is sent again has the same content for the same row: Send.
UnheardSend(p) ==
  LET f == task.sending[p].folder
      i == Target(f, p[2])
  IN /\ f # None /\ local.files[p] # None /\ folders[f] # None
     /\ Trouble("extra")
     /\ Same(f, p[2]) = {} => Unused # {}
     /\ files' = [files EXCEPT ![i] = [folder |-> f, name |-> p[2], v |-> local.files[p]]]
     /\ task' \in {HeldFile(p), [HeldFile(p) EXCEPT !.waits = task.waits]}
     /\ UNCHANGED <<Rest, timers, map, folders>>

\* The row is gone, and the table has it.  A DELETE that is sent again finds nothing,
\* which counts as a success, and the entry goes also when it is given up: DropFile
\* and RemoveDir.
UnheardDrop(p) ==
  /\ \/ Uploaded /\ p \in task.drop
     \/ /\ local.files[p] = None
        /\ \/ FoldersDone /\ p \in task.todo
           \/ task.sending[p].folder # None
  /\ map.files[p].id # None /\ files[map.files[p].id] # NoRow
  /\ Trouble("unrecorded")
  /\ files' = [files EXCEPT ![map.files[p].id] = NoRow]
  /\ task' = HeldFile(p)
  /\ UNCHANGED <<Rest, timers, map, folders>>

UnheardRemoveDir(d) ==
  /\ Uploaded /\ task.drop = {} /\ d \in task.rmdir
  /\ map.dirs[d] # None /\ folders[map.dirs[d]] # None
  /\ Trouble("unrecorded")
  /\ folders' = [folders EXCEPT ![map.dirs[d]] = None]
  /\ files' = [k \in Ids |-> IF files[k].folder = map.dirs[d] THEN NoRow ELSE files[k]]
  /\ task' = Held
  /\ UNCHANGED <<Rest, timers, map>>

\* The server has all the bytes and fails to make the file of them.  The upload library
\* asks again how many there are, takes the upload for done and reports no id, and the
\* client records that: an entry that names no row, here of a uuid that none will have.
Unfinished(p) ==
  /\ task.sending[p].folder # None /\ local.files[p] # None
  /\ folders[task.sending[p].folder] # None
  /\ Trouble("unfinished") /\ Unused # {}
  /\ map' = [map EXCEPT !.files[p] = [id |-> Fresh, v |-> task.sending[p].v]]
  /\ task' = [task EXCEPT !.sending[p] = NotSending[p], !.calm = FALSE]
  /\ UNCHANGED <<Rest, timers, remote>>

Unheard ==
  \/ \E d \in Dirs : UnheardDir(d) \/ UnheardRemoveDir(d) \/ \E o \in Dirs : UnheardRename(d, o)
  \/ \E p \in Paths : UnheardParent(p) \/ UnheardSend(p) \/ UnheardDrop(p)

--------------------------------------------------------------------------------

\* The store's debounced write of the state file.
Save ==
  /\ saved # map
  /\ saved' = map
  /\ UNCHANGED <<local, clock, seen, pending, queue, task, timers, map, remote, used, lost>>

\* The client quits, which writes the state file and awaits no request, or dies,
\* and starts again: the watcher begins with the tree as it is, and a full sync is
\* scheduled.  A stop that a request waits for is the same trouble as the request.
Restart ==
  /\ IF task.waits THEN UNCHANGED used
                   ELSE /\ used.troubles < MaxTroubles
                        /\ used' = [used EXCEPT !.troubles = @ + 1]
  /\ \/ saved' = map /\ UNCHANGED <<map, lost>>
     \/ saved # map /\ map' = saved /\ lost' = lost \cup {"stopped"} /\ UNCHANGED saved
  /\ seen' = local
  /\ pending' = Quiet
  /\ queue' = <<[kind |-> "full"]>>
  /\ task' = NoTask
  /\ timers' = [d \in Dirs |-> NoTimer]
  /\ UNCHANGED <<local, clock, remote>>

User ==
  \/ \E d \in Dirs : MakeDir(d) \/ DeleteDir(d) \/ \E e \in Dirs : RenameDir(d, e)
  \/ \E p \in Paths : DeleteFile(p) \/ \E v \in Versions : Write(p, v)

Engine ==
  \/ StartBatch \/ StartFull \/ StartRemove \/ Sweep \/ Finish
  \/ \E d \in Dirs : EnsureDir(d) \/ RemoveDir(d) \/ \E o \in Dirs : Rename(d, o)
  \/ \E p \in Paths : StatFile(p) \/ MakeParent(p) \/ Send(p) \/ RemoveFile(p)

Timers  == Debounce \/ \E d \in Dirs : GraceOver(d)
Watcher == (\E d \in Dirs : WatchDir(d)) \/ (\E p \in Paths : WatchFile(p))

Next ==
  \/ User \/ Watcher \/ Timers \/ Engine \/ SyncNow \/ Save \/ Restart
  \/ Unheard \/ \E p \in Paths : Unfinished(p)

Spec == Init /\ [][Next]_vars

\* As long as the watcher has something to report, a timer is to fire or a task
\* can go on, one of them does: which, is open, as each of them comes to an end.
\* Nothing says that the user edits or asks for a sync: no timer asks for one.
FairSpec == Spec /\ WF_vars(Engine \/ Timers \/ Watcher)

--------------------------------------------------------------------------------
(* Properties. *)

Idle ==
  /\ seen = local /\ pending = Quiet /\ queue = <<>> /\ task = NoTask
  /\ \A d \in Dirs : timers[d] = NoTimer

\* A local file is on the server, under its folder's name, as it is now.
OnServer(p) ==
  \E i \in Ids : /\ files[i].v = local.files[p] /\ files[i].name = p[2]
                 /\ files[i].folder # None /\ folders[files[i].folder] = p[1]
AllUploaded == \A p \in Paths : local.files[p] # None => OnServer(p)

\* What the table says of folders and files is so on the server.
TableTrue ==
  /\ \A d \in Dirs : map.dirs[d] # None => folders[map.dirs[d]] = d
  /\ \A p \in Paths : map.files[p].id # None =>
       /\ files[map.files[p].id].name = p[2]
       /\ files[map.files[p].id].folder = map.dirs[p[1]]

\* What the table says of the remote rows is true, whatever the user does
\* locally and however renames, deferred deletions and full syncs interleave, also
\* when a new folder or an upload was not answered and the client stopped or sent
\* it again; unless the client died with mappings unsaved, a rename or a removal was
\* not answered, a request failed, the server could not make a file of an upload, a
\* rename or a deferred deletion met a path that had come back, or two uploads made the
\* same folder.
MappingsSound ==
  lost \subseteq {"mistaken", "guarded", "unreported", "extra"} => TableTrue

\* Once the client has nothing left to do, the server has the local tree and
\* nothing else, unless one of the losses happened.
Mirror ==
  Idle /\ lost = {} =>
    /\ AllUploaded
    /\ \A i \in Ids : folders[i] # None => folders[i] \in local.dirs /\ map.dirs[folders[i]] = i
    /\ \A d \in local.dirs : map.dirs[d] # None
    /\ \A i \in Ids : files[i] # NoRow =>
         /\ folders[files[i].folder] # None
         /\ local.files[<<folders[files[i].folder], files[i].name>>] = files[i].v

\* A full sync that no edit and no failure has disturbed leaves every local file
\* on the server, also after failures, restarts, deletions and renames that went
\* wrong, as long as the table is true and does not mistake the file for another.
FullSyncRepairs ==
  [][/\ task.kind = "full" /\ task.calm /\ task' = NoTask /\ map' = map /\ seen' = seen
     /\ task.swept /\ TableTrue
     => \A p \in Paths : local.files[p] # None => OnServer(p) \/ Mistaken(p)]_vars

\* Every change is on the server at last, without a full sync.
SyncsAtLast == <>[](AllUploaded \/ lost # {})
================================================================================
