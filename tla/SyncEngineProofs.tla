---------------------------- MODULE SyncEngineProofs ----------------------------
(***************************************************************************)
(* Theorems about the desktop client's synchronisation, for any folders,   *)
(* files, versions, edits and failures: type correctness, that the mapping *)
(* table is true of the remote rows, that a full sync repairs what has     *)
(* gone wrong before it, and that an idle client has mirrored the tree.    *)
(***************************************************************************)
EXTENDS SyncEngine, FiniteSetTheorems, TLAPS

--------------------------------------------------------------------------------
(* The inductive invariants. *)

\* An entry has an id and a version, or neither.
Whole(m) == \A p \in Paths : (m.files[p].id = None) <=> (m.files[p].v = None)
\* An upload that has its folder has its version.
Sends    == \A p \in Paths : task.sending[p].folder # None => task.sending[p].v # None
\* A deletion that is held back is of a folder that was mapped.
Waits    == \A d \in Dirs : timers[d] # NoTimer => timers[d].id # None
\* Local files are in local folders, and remote rows in a folder.
Rooted   == \A p \in Paths : local.files[p] # None => p[1] \in local.dirs
Housed   == \A i \in Ids : files[i].name # None => files[i].folder # None

TypeInv == TypeOK /\ Whole(map) /\ Whole(saved) /\ Sends /\ Waits /\ Rooted /\ Housed

\* A deletion that is held back names the folder that the table has, or a dead one;
\* an upload goes into the folder that the table has.
Current ==
  /\ \A d \in Dirs : timers[d] # NoTimer /\ folders[timers[d].id] # None
                       => timers[d].id = map.dirs[d]
  /\ \A p \in Paths : task.sending[p].folder # None
                       => task.sending[p].folder = map.dirs[p[1]]

Clean    == lost \subseteq {"mistaken", "guarded", "unreported", "extra"}
TableInv == TypeInv /\ (Clean => TableTrue /\ Current)

\* What an undisturbed full sync has still to do, and what it will not touch.
Covered(p) == \/ p \in task.todo
              \/ task.sending[p].v = local.files[p]
              \/ map.files[p].v = local.files[p]
Repairing ==
  task.kind = "full" =>
    /\ task.swept => task.dirs = {} /\ task.todo = {} /\ NoSending
    /\ \A p \in task.drop : task.scan.files[p] = None
    /\ \A d \in task.rmdir : d \notin task.scan.dirs
    /\ task.calm => /\ task.scan = local
                    /\ \A p \in Paths : /\ local.files[p] # None => Covered(p)
                                        /\ task.sending[p].v \in {None, local.files[p]}
RepairInv == TypeInv /\ Repairing

--------------------------------------------------------------------------------
(* Types. *)

\* What a record of a task may be given.
LEMMA TaskFields ==
  ASSUME NEW t \in Task
  PROVE  /\ \A S \in SUBSET Dirs : [t EXCEPT !.dirs = S] \in Task
         /\ \A S \in SUBSET Paths : [t EXCEPT !.todo = S] \in Task
         /\ \A S \in SUBSET Paths : [t EXCEPT !.drop = S] \in Task
         /\ \A S \in SUBSET Dirs : [t EXCEPT !.rmdir = S] \in Task
         /\ \A b \in BOOLEAN : /\ [t EXCEPT !.tried = b] \in Task
                               /\ [t EXCEPT !.swept = b] \in Task
                               /\ [t EXCEPT !.waits = b] \in Task
                               /\ [t EXCEPT !.calm = b] \in Task
  BY DEF Task

LEMMA NoTaskType ==
  NoTask \in Task /\ NotSending \in [Paths -> [v: Versions \cup {None}, folder: Ids \cup {None}]]
  BY DEF NoTask, Task, NotSending, NoTree, Tree

\* What a table may be given.
LEMMA MapFields ==
  ASSUME NEW m \in Mapping
  PROVE  /\ \A p \in Paths, c \in Copy :
              LET n == [m EXCEPT !.files[p] = c]
              IN  n \in Mapping /\ n.dirs = m.dirs /\ n.files = [m.files EXCEPT ![p] = c]
         /\ \A d \in Dirs, i \in Ids \cup {None} :
              LET n == [m EXCEPT !.dirs[d] = i]
              IN  n \in Mapping /\ n.files = m.files /\ n.dirs = [m.dirs EXCEPT ![d] = i]
  BY DEF Mapping

LEMMA Nothing == NoCopy \in Copy /\ NoRow \in Row /\ NoTimer \in [print: Prints, id: Ids \cup {None}]
  BY DEF NoCopy, Copy, NoRow, Row, NoTimer, Prints

LEMMA TroubleCount ==
  ASSUME NEW u \in [edits: 0 .. MaxEdits, troubles: 0 .. MaxTroubles], u.troubles < MaxTroubles
  PROVE  [u EXCEPT !.troubles = @ + 1] \in [edits: 0 .. MaxEdits, troubles: 0 .. MaxTroubles]
  BY SyncAssumption

LEMMA TroubleType ==
  ASSUME TypeOK, Fails \/ (Succeeds /\ UNCHANGED lost)
  PROVE  /\ lost' \in SUBSET Losses
         /\ used' \in [edits: 0 .. MaxEdits, troubles: 0 .. MaxTroubles]
  BY SyncAssumption DEF TypeOK, Fails, Trouble, Succeeds, Losses

\* An unanswered request adds its cause.
LEMMA CauseType ==
  ASSUME TypeOK, NEW loss \in Losses, Trouble(loss)
  PROVE  /\ lost' \in SUBSET Losses /\ loss \in lost' /\ lost \subseteq lost'
         /\ used' \in [edits: 0 .. MaxEdits, troubles: 0 .. MaxTroubles]
  BY TroubleCount DEF TypeOK, Trouble

LEMMA DropType ==
  ASSUME TypeInv, NEW p \in Paths, DropFile(p)
  PROVE  /\ map' \in Mapping /\ map'.dirs = map.dirs
         /\ map'.files = [map.files EXCEPT ![p] = NoCopy]
         /\ files' \in [Ids -> Row] /\ Housed' /\ Whole(map)'
         /\ lost' \in SUBSET Losses
         /\ used' \in [edits: 0 .. MaxEdits, troubles: 0 .. MaxTroubles]
<1>1. /\ map' \in Mapping /\ map'.dirs = map.dirs
      /\ map'.files = [map.files EXCEPT ![p] = NoCopy]
  BY MapFields, Nothing DEF TypeInv, TypeOK, DropFile
<1>2. files' \in [Ids -> Row]
  BY Nothing DEF TypeInv, TypeOK, DropFile
<1>4. Housed'
  BY DEF TypeInv, TypeOK, DropFile, Housed, NoRow
<1>3. Whole(map)'
  BY <1>1 DEF TypeInv, Whole, NoCopy, Mapping, TypeOK, Copy
<1> QED
  BY <1>1, <1>2, <1>3, <1>4, TroubleType DEF DropFile, TypeInv

\* What the user does changes the disk, and marks a task as disturbed.
LEMMA EditType ==
  ASSUME TypeInv, Edit, local' \in Tree, clock' \in Versions, Rooted'
  PROVE  TypeInv'
<1>1. task' \in Task /\ task'.sending = task.sending /\ task'.dirs = task.dirs
      /\ task'.todo = task.todo /\ task'.kind = task.kind
  BY DEF TypeInv, TypeOK, Edit, Task
<1>2. task.kind = "idle" => task' = NoTask
  <2> SUFFICES ASSUME task.kind = "idle" PROVE task' = [NoTask EXCEPT !.calm = TRUE]
    BY DEF NoTask
  <2> QED BY DEF TypeInv, TypeOK, Edit
<1>3. used' \in [edits: 0 .. MaxEdits, troubles: 0 .. MaxTroubles]
  BY SyncAssumption DEF TypeInv, TypeOK, Edit
<1>4. lost' \in SUBSET Losses
  BY DEF TypeInv, TypeOK, Edit, Losses
<1> QED
  BY <1>1, <1>2, <1>3, <1>4 DEF Edit, TypeInv, TypeOK, Whole, Sends, Waits, Housed, remote

LEMMA UserType ==
  ASSUME TypeInv, User
  PROVE  TypeInv'
<1>0. local \in Tree /\ clock \in Versions /\ Rooted
  BY DEF TypeInv, TypeOK
<1>1. ASSUME NEW d \in Dirs, MakeDir(d) PROVE TypeInv'
  <2>1. local' \in Tree /\ Rooted'
    BY <1>0, <1>1 DEF MakeDir, Tree, Rooted
  <2> QED BY <1>0, <1>1, <2>1, EditType DEF MakeDir
<1>2. ASSUME NEW p \in Paths, NEW v \in Versions, Write(p, v) PROVE TypeInv'
  <2>1. local' \in Tree /\ Rooted'
    BY <1>0, <1>2 DEF Write, Tree, Rooted
  <2> QED BY <1>0, <1>2, <2>1, EditType DEF Write
<1>3. ASSUME NEW p \in Paths, DeleteFile(p) PROVE TypeInv'
  <2>1. local' \in Tree /\ Rooted'
    BY <1>0, <1>3 DEF DeleteFile, Tree, Rooted
  <2> QED BY <1>0, <1>3, <2>1, EditType DEF DeleteFile
<1>4. ASSUME NEW d \in Dirs, DeleteDir(d) PROVE TypeInv'
  <2>1. local' \in Tree /\ Rooted'
    BY <1>0, <1>4 DEF DeleteDir, Tree, Rooted
  <2> QED BY <1>0, <1>4, <2>1, EditType DEF DeleteDir
<1>5. ASSUME NEW d \in Dirs, NEW e \in Dirs, RenameDir(d, e) PROVE TypeInv'
  <2>1. local' \in Tree /\ Rooted'
    BY <1>0, <1>5 DEF RenameDir, Tree, Rooted, Paths
  <2> QED BY <1>0, <1>5, <2>1, EditType DEF RenameDir
<1> QED BY <1>1, <1>2, <1>3, <1>4, <1>5 DEF User

LEMMA WatcherType ==
  ASSUME TypeInv, Watcher
  PROVE  TypeInv'
<1>1. ASSUME NEW d \in Dirs, WatchDir(d) PROVE TypeInv'
  <2>1. seen' \in Tree
    BY <1>1 DEF WatchDir, TypeInv, TypeOK, Tree
  <2>2. pending' \in Changes
    BY <1>1 DEF WatchDir, TypeInv, TypeOK, Changes, Event
  <2>3. lost' \in SUBSET Losses
    BY <1>1 DEF WatchDir, TypeInv, TypeOK, Losses
  <2> QED
    BY <1>1, <2>1, <2>2, <2>3 DEF WatchDir, TypeInv, TypeOK, Whole, Sends, Waits, Rooted, Housed, remote
<1>2. ASSUME NEW p \in Paths, WatchFile(p) PROVE TypeInv'
  <2>1. seen' \in Tree
    BY <1>2 DEF WatchFile, TypeInv, TypeOK, Tree
  <2>2. pending' \in Changes
    BY <1>2 DEF WatchFile, TypeInv, TypeOK, Changes, Event
  <2> QED
    BY <1>2, <2>1, <2>2 DEF WatchFile, TypeInv, TypeOK, Whole, Sends, Waits, Rooted, Housed, remote
<1> QED BY <1>1, <1>2 DEF Watcher

\* What waits in the queue are tasks.
LEMMA WaitingTypes ==
  /\ \A c \in Changes : [kind |-> "batch", changes |-> c] \in Waiting
  /\ [kind |-> "full"] \in Waiting
  /\ \A d \in Dirs : [kind |-> "remove", dir |-> d] \in Waiting
  /\ Quiet \in Changes
  BY DEF Waiting, Quiet, Changes, Event

LEMMA TimersType ==
  ASSUME TypeInv, Timers \/ SyncNow
  PROVE  TypeInv'
<1>1. CASE Debounce
  <2>1. queue' \in Seq(Waiting) /\ pending' \in Changes
    BY <1>1, WaitingTypes DEF Debounce, TypeInv, TypeOK
  <2> QED
    BY <1>1, <2>1 DEF Debounce, TypeInv, TypeOK, Whole, Sends, Waits, Rooted, Housed, remote
<1>2. ASSUME NEW d \in Dirs, GraceOver(d) PROVE TypeInv'
  <2>1. queue' \in Seq(Waiting)
    BY <1>2, WaitingTypes DEF GraceOver, TypeInv, TypeOK
  <2>2. timers' \in [Dirs -> [print: Prints, id: Ids \cup {None}]] /\ Waits'
    BY <1>2, Nothing DEF GraceOver, TypeInv, TypeOK, Waits
  <2> QED
    BY <1>2, <2>1, <2>2 DEF GraceOver, TypeInv, TypeOK, Whole, Sends, Rooted, Housed, remote
<1>3. CASE SyncNow
  <2>1. queue' \in Seq(Waiting)
    BY <1>3, WaitingTypes DEF SyncNow, TypeInv, TypeOK
  <2>2. used' \in [edits: 0 .. MaxEdits, troubles: 0 .. MaxTroubles]
    BY <1>3, TroubleCount DEF SyncNow, TypeInv, TypeOK
  <2> QED
    BY <1>3, <2>1, <2>2 DEF SyncNow, TypeInv, TypeOK, Whole, Sends, Waits, Rooted, Housed, remote
<1> QED BY <1>1, <1>2, <1>3 DEF Timers

\* Whatever task starts, it starts from NoTask, and sends nothing.
LEMMA StartType ==
  ASSUME TypeInv, task' \in Task, task'.kind # "idle" \/ task' = NoTask,
         task'.sending = NotSending, queue' \in Seq(Waiting),
         timers' \in [Dirs -> [print: Prints, id: Ids \cup {None}]], Waits',
         UNCHANGED <<local, clock, seen, pending, map, saved, remote, used, lost>>
  PROVE  TypeInv'
<1>1. \A p \in Paths : task'.sending[p].v = None /\ task'.sending[p].folder = None
  BY DEF NotSending
<1> QED
  BY <1>1 DEF TypeInv, TypeOK, Whole, Sends, Rooted, Housed, remote

LEMMA RemovalsType ==
  ASSUME NEW S \in SUBSET Dirs, NEW r \in Removals(S)
  PROVE  r \in Seq(Waiting)
<1>1. Cardinality(S) \in Nat
  BY SyncAssumption, FS_Subset, FS_CardinalityType
<1>2. [kind: {"remove"}, dir: S] \subseteq Waiting
  BY DEF Waiting
<1>3. r \in [1 .. Cardinality(S) -> Waiting]
  BY <1>2 DEF Removals
<1> QED BY <1>1, <1>3

LEMMA PrintType ==
  ASSUME TypeInv, NEW d \in Dirs
  PROVE  MappedPrint(d) \in Prints
<1> SUFFICES ASSUME NEW x \in MappedPrint(d) PROVE x \in Names \X Nat
  BY DEF Prints
<1>1. PICK n \in Names : map.files[<<d, n>>].id # None /\ x = <<n, Size(map.files[<<d, n>>].v)>>
  BY DEF MappedPrint
<1>2. <<d, n>> \in Paths
  BY DEF Paths
<1>3. map.files[<<d, n>>].v \in Versions
  BY <1>1, <1>2 DEF TypeInv, TypeOK, Mapping, Copy, Whole
<1>4. Size(map.files[<<d, n>>].v) \in Nat
  BY <1>3, SyncAssumption DEF Versions
<1> QED BY <1>1, <1>4

LEMMA StartsType ==
  ASSUME TypeInv, StartBatch \/ StartFull \/ StartRemove
  PROVE  TypeInv'
<1>0. /\ NoTask.sending = NotSending
      /\ \A c \in Changes : \A p \in Paths : c.files[p] \in Event
      /\ queue \in Seq(Waiting)
  BY DEF NoTask, Changes, TypeInv, TypeOK
<1>1. CASE StartBatch
  <2> DEFINE c    == Head(queue).changes
             gone == {d \in Dirs : c.dirs[d] = "delete"}
  <2>1. PICK r \in Removals({d \in gone : ~Defers(d)}) : queue' = Tail(queue) \o r
    BY <1>1 DEF StartBatch
  <2>2. queue' \in Seq(Waiting)
    <3>1. r \in Seq(Waiting)
      BY RemovalsType
    <3>2. Tail(queue) \in Seq(Waiting)
      BY <1>0, <1>1 DEF StartBatch, Takes
    <3> QED BY <2>1, <3>1, <3>2
  <2>3. timers' \in [Dirs -> [print: Prints, id: Ids \cup {None}]] /\ Waits'
    <3>1. timers' = [d \in Dirs |-> IF d \in gone /\ Defers(d)
                                      THEN [print |-> MappedPrint(d), id |-> map.dirs[d]]
                                      ELSE timers[d]]
      BY <1>1 DEF StartBatch
    <3>2. \A d \in Dirs : MappedPrint(d) \in Prints /\ map.dirs[d] \in Ids \cup {None}
      BY PrintType DEF TypeInv, TypeOK, Mapping
    <3> QED
      BY <3>1, <3>2 DEF TypeInv, TypeOK, Waits, Defers
  <2>4. task' \in Task /\ task'.kind = "batch" /\ task'.sending = NotSending
    BY <1>1, NoTaskType DEF StartBatch, NoTask, Task
  <2> QED
    BY <1>1, <2>2, <2>3, <2>4, StartType DEF StartBatch
<1>2. CASE StartFull
  <2>1. task' \in Task /\ task'.kind = "full" /\ task'.sending = NotSending
    BY <1>2, NoTaskType DEF StartFull, NoTask, Task, TypeInv, TypeOK, Tree
  <2>2. queue' \in Seq(Waiting)
    BY <1>0, <1>2 DEF StartFull, Takes
  <2> QED
    BY <1>2, <2>1, <2>2, StartType DEF StartFull, TypeInv, TypeOK, Waits
<1>3. CASE StartRemove
  <2>1. Head(queue).dir \in Dirs
    BY <1>0, <1>3 DEF StartRemove, Takes, Waiting
  <2>2. task' \in Task /\ task'.kind = "remove" /\ task'.sending = NotSending
    BY <1>3, <2>1, NoTaskType DEF StartRemove, NoTask, Task
  <2>3. queue' \in Seq(Waiting)
    BY <1>0, <1>3 DEF StartRemove, Takes
  <2> QED
    BY <1>3, <2>2, <2>3, StartType DEF StartRemove, TypeInv, TypeOK, Waits
<1> QED BY <1>1, <1>2, <1>3

\* The steps that change neither the table nor the remote rows.
LEMMA EndsType ==
  ASSUME TypeInv, Sweep \/ Finish \/ Save \/ Restart \/ UNCHANGED vars
  PROVE  TypeInv'
<1>1. CASE Sweep
  <2>1. task' \in Task /\ task'.kind = task.kind /\ task'.sending = task.sending
        /\ task'.dirs = task.dirs /\ task'.todo = task.todo
    <3>1. Stale.files \in SUBSET Paths /\ Stale.dirs \in SUBSET Dirs
      BY DEF Stale
    <3>2. task \in Task
      BY DEF TypeInv, TypeOK
    <3>3. \/ task' = [task EXCEPT !.swept = TRUE]
          \/ task' = [task EXCEPT !.swept = TRUE, !.drop = Stale.files, !.rmdir = Stale.dirs]
      BY <1>1 DEF Sweep
    <3> QED BY <3>1, <3>2, <3>3 DEF Task
  <2>2. lost' \in SUBSET Losses
    BY <1>1 DEF Sweep, TypeInv, TypeOK, Losses
  <2> QED
    BY <1>1, <2>1, <2>2 DEF Sweep, Rest, TypeInv, TypeOK, Whole, Sends, Waits, Rooted, Housed, remote
<1>2. CASE Finish
  <2>1. task' = NoTask /\ NoTask.sending = NotSending
    BY <1>2 DEF Finish, NoTask
  <2> QED
    BY <1>2, <2>1, NoTaskType, StartType DEF Finish, Rest, TypeInv, TypeOK, Waits
<1>3. CASE Save
  BY <1>3 DEF Save, TypeInv, TypeOK, Whole, Sends, Waits, Rooted, Housed, remote
<1>4. CASE Restart
  <2>1. task' = NoTask /\ NoTask.sending = NotSending
    BY <1>4 DEF Restart, NoTask
  <2>2. \A p \in Paths : task'.sending[p].v = None /\ task'.sending[p].folder = None
    BY <2>1 DEF NotSending
  <2>3. used' \in [edits: 0 .. MaxEdits, troubles: 0 .. MaxTroubles]
    BY <1>4, TroubleCount DEF Restart, TypeInv, TypeOK
  <2>4. queue' \in Seq(Waiting) /\ pending' \in Changes
    BY <1>4, WaitingTypes DEF Restart
  <2>5. timers' \in [Dirs -> [print: Prints, id: Ids \cup {None}]] /\ Waits'
    BY <1>4, Nothing DEF Restart, Waits
  <2>6. /\ map' \in Mapping /\ saved' \in Mapping /\ Whole(map)' /\ Whole(saved)'
        /\ lost' \in SUBSET Losses
    BY <1>4 DEF Restart, TypeInv, TypeOK, Whole, Losses
  <2> QED
    BY <1>4, <2>1, <2>2, <2>3, <2>4, <2>5, <2>6, NoTaskType
       DEF Restart, TypeInv, TypeOK, Sends, Rooted, Housed, remote
<1>5. CASE UNCHANGED vars
  BY <1>5 DEF vars, TypeInv, TypeOK, Whole, Sends, Waits, Rooted, Housed, remote
<1> QED BY <1>1, <1>2, <1>3, <1>4, <1>5

\* A new uuid is one that nothing names.
LEMMA FreshUnused ==
  ASSUME Unused # {}
  PROVE  Fresh \in Unused /\ Fresh \in Ids
  BY DEF Fresh, Unused

LEMMA MovedType ==
  ASSUME TypeInv, NEW o \in Dirs, NEW d \in Dirs
  PROVE  Moved(o, d) \in Mapping /\ Whole(Moved(o, d))
<1> DEFINE old(p) == map.files[<<o, p[2]>>]
<1>1. \A p \in Paths : old(p) \in Copy /\ ((old(p).id = None) <=> (old(p).v = None))
  BY DEF Paths, TypeInv, TypeOK, Mapping, Whole
<1>2. Moved(o, d).dirs \in [Dirs -> Ids \cup {None}]
  BY DEF Moved, TypeInv, TypeOK, Mapping
<1>3. Moved(o, d).files = [p \in Paths |-> CASE p[1] = o -> NoCopy
                                            [] p[1] = d /\ old(p).id # None -> old(p)
                                            [] OTHER -> map.files[p]]
  BY DEF Moved
<1>4. \A p \in Paths : Moved(o, d).files[p] \in {NoCopy, old(p), map.files[p]}
  BY <1>3
<1>5. Moved(o, d).files \in [Paths -> Copy]
  BY <1>1, <1>3, <1>4, Nothing DEF TypeInv, TypeOK, Mapping
<1>6. Whole(Moved(o, d))
  <2> SUFFICES ASSUME NEW p \in Paths
               PROVE  (Moved(o, d).files[p].id = None) <=> (Moved(o, d).files[p].v = None)
    BY DEF Whole
  <2>1. NoCopy.id = None /\ NoCopy.v = None
    BY DEF NoCopy
  <2>2. (map.files[p].id = None) <=> (map.files[p].v = None)
    BY DEF TypeInv, Whole
  <2> QED BY <1>1, <1>4, <2>1, <2>2
<1> QED BY <1>2, <1>5, <1>6 DEF Moved, Mapping

LEMMA DirsType ==
  ASSUME TypeInv, NEW d \in Dirs, EnsureDir(d) \/ \E o \in Dirs : Rename(d, o)
  PROVE  TypeInv'
<1>1. CASE EnsureDir(d)
  <2>1. /\ task' \in Task /\ (task'.kind = "idle" => task' = NoTask)
        /\ \A p \in Paths : task'.sending[p].folder = None /\ task'.sending[p].v = None
    <3>1. \A p \in Paths : task.sending[p].folder = None /\ task.sending[p].v = None
      BY <1>1 DEF EnsureDir, NextDir, TypeInv, TypeOK, Sends
    <3>2. CASE task' = NoTask
      BY <3>2, NoTaskType DEF NoTask, NotSending
    <3>3. CASE task' = [task EXCEPT !.dirs = @ \ {d}, !.tried = FALSE]
      <4>1. task.kind # "idle"
        BY <1>1 DEF EnsureDir, NextDir, NoTask, TypeInv, TypeOK
      <4> QED BY <3>1, <3>3, <4>1 DEF TypeInv, TypeOK, Task
    <3> QED BY <1>1, <3>2, <3>3 DEF EnsureDir
  <2>2. map' \in Mapping /\ Whole(map)' /\ folders' \in [Ids -> Dirs \cup {None}]
    <3>1. CASE UNCHANGED <<map, folders>>
      BY <3>1 DEF TypeInv, TypeOK, Whole
    <3>2. CASE Unused # {} /\ folders' = [folders EXCEPT ![Fresh] = d]
                 /\ map' = [map EXCEPT !.dirs[d] = Fresh]
      BY <3>2, FreshUnused, MapFields DEF TypeInv, TypeOK, Whole
    <3> QED BY <1>1, <3>1, <3>2 DEF EnsureDir
  <2>3. /\ lost' \in SUBSET Losses
        /\ used' \in [edits: 0 .. MaxEdits, troubles: 0 .. MaxTroubles]
    BY <1>1, TroubleType DEF EnsureDir, TypeInv
  <2> QED
    BY <1>1, <2>1, <2>2, <2>3 DEF EnsureDir, Rest, TypeInv, TypeOK, Whole, Sends, Waits, Rooted, Housed
<1>2. ASSUME NEW o \in Dirs, Rename(d, o) PROVE TypeInv'
  <2>1. task' \in Task /\ task'.kind = task.kind /\ task.kind # "idle"
        /\ task'.sending = task.sending
        /\ \A p \in Paths : task.sending[p].v = None
    <3>1. task \in Task /\ task.kind = "batch" /\ task.dirs # {}
      BY <1>2 DEF Rename, NextDir, MayRename, TypeInv, TypeOK
    <3>2. task' \in {[task EXCEPT !.dirs = @ \ {d}], [task EXCEPT !.tried = TRUE]}
      BY <1>2 DEF Rename
    <3>3. \A p \in Paths : task.sending[p].v = None
      BY <3>1 DEF TypeInv, TypeOK
    <3>4. CASE task' = [task EXCEPT !.dirs = @ \ {d}]
      BY <3>1, <3>3, <3>4 DEF Task
    <3>5. CASE task' = [task EXCEPT !.tried = TRUE]
      BY <3>1, <3>3, <3>5 DEF Task
    <3> QED BY <3>2, <3>4, <3>5
  <2>2. map' \in Mapping /\ Whole(map)' /\ folders' \in [Ids -> Dirs \cup {None}]
    <3>1. CASE UNCHANGED <<map, folders>>
      BY <3>1 DEF TypeInv, TypeOK, Whole
    <3>2. CASE folders' = [folders EXCEPT ![timers[o].id] = d] /\ map' = Moved(o, d)
      BY <3>2, MovedType DEF TypeInv, TypeOK
    <3> QED BY <1>2, <3>1, <3>2 DEF Rename
  <2>3. /\ lost' \in SUBSET Losses
        /\ used' \in [edits: 0 .. MaxEdits, troubles: 0 .. MaxTroubles]
    <3>1. CASE Succeeds /\ lost' \subseteq lost \cup {"inPlace", "recreated", "overwritten"}
      BY <3>1 DEF Succeeds, TypeInv, TypeOK, Losses
    <3>2. CASE Fails \/ UNCHANGED <<used, lost>>
      BY <3>2, TroubleType DEF TypeInv, Succeeds
    <3> QED BY <1>2, <3>1, <3>2 DEF Rename
  <2>4. timers' \in [Dirs -> [print: Prints, id: Ids \cup {None}]] /\ Waits'
    BY <1>2, Nothing DEF Rename, TypeInv, TypeOK, Waits
  <2> QED
    BY <1>2, <2>1, <2>2, <2>3, <2>4 DEF Rename, Rest, TypeInv, TypeOK, Whole, Sends, Rooted, Housed
<1> QED BY <1>1, <1>2

LEMMA RemoveType ==
  ASSUME TypeInv, \/ \E p \in Paths : RemoveFile(p)
                  \/ \E d \in Dirs : RemoveDir(d)
  PROVE  TypeInv'
<1>1. ASSUME NEW p \in Paths, RemoveFile(p) PROVE TypeInv'
  <2>1. task' \in Task /\ task'.kind = task.kind /\ task.kind # "idle"
        /\ task'.sending = task.sending /\ task'.dirs = task.dirs /\ task'.todo = task.todo
    <3>1. task \in Task /\ task.kind # "idle"
      BY <1>1 DEF RemoveFile, TypeInv, TypeOK, NoTask
    <3>2. task' = [task EXCEPT !.drop = @ \ {p}]
      BY <1>1 DEF RemoveFile
    <3> QED BY <3>1, <3>2 DEF Task
  <2> QED
    BY <1>1, <2>1, DropType DEF RemoveFile, Rest, TypeInv, TypeOK, Whole, Sends, Waits, Rooted
<1>2. ASSUME NEW d \in Dirs, RemoveDir(d) PROVE TypeInv'
  <2>1. task' \in Task /\ task'.kind = task.kind /\ task.kind # "idle"
        /\ task'.sending = task.sending /\ task'.dirs = task.dirs /\ task'.todo = task.todo
    <3>1. task \in Task /\ task.kind # "idle"
      BY <1>2 DEF RemoveDir, TypeInv, TypeOK, NoTask
    <3>2. task' = [task EXCEPT !.rmdir = @ \ {d}]
      BY <1>2 DEF RemoveDir
    <3> QED BY <3>1, <3>2 DEF Task
  <2>2. map' \in Mapping /\ Whole(map)'
    <3>1. map'.files = [p \in Paths |-> IF p[1] = d THEN NoCopy ELSE map.files[p]]
          /\ map' = [dirs |-> [map.dirs EXCEPT ![d] = None], files |-> map'.files]
      BY <1>2 DEF RemoveDir
    <3>2. map'.files \in [Paths -> Copy]
      BY <3>1, Nothing DEF TypeInv, TypeOK, Mapping
    <3>3. Whole(map)'
      BY <3>1 DEF TypeInv, Whole, NoCopy
    <3> QED BY <3>1, <3>2, <3>3 DEF TypeInv, TypeOK, Mapping
  <2>3. folders' \in [Ids -> Dirs \cup {None}] /\ files' \in [Ids -> Row] /\ Housed'
    <3>1. CASE UNCHANGED <<folders, files>>
      BY <3>1 DEF TypeInv, TypeOK, Housed
    <3>2. CASE /\ folders' = [folders EXCEPT ![map.dirs[d]] = None]
               /\ files' = [k \in Ids |-> IF files[k].folder = map.dirs[d] THEN NoRow ELSE files[k]]
      BY <3>2, Nothing DEF TypeInv, TypeOK, Housed, NoRow
    <3> QED BY <1>2, <3>1, <3>2 DEF RemoveDir
  <2>4. /\ lost' \in SUBSET Losses
        /\ used' \in [edits: 0 .. MaxEdits, troubles: 0 .. MaxTroubles]
    <3>1. CASE Succeeds /\ lost' \subseteq lost \cup {"recreated"}
      BY <3>1 DEF Succeeds, TypeInv, TypeOK, Losses
    <3>2. CASE Fails
      BY <3>2, TroubleType DEF TypeInv
    <3> QED BY <1>2, <3>1, <3>2 DEF RemoveDir
  <2> QED
    BY <1>2, <2>1, <2>2, <2>3, <2>4 DEF RemoveDir, Rest, TypeInv, TypeOK, Whole, Sends, Waits, Rooted
<1> QED BY <1>1, <1>2

LEMMA UploadType ==
  ASSUME TypeInv, NEW p \in Paths, StatFile(p) \/ MakeParent(p) \/ Send(p)
  PROVE  TypeInv'
<1>0. /\ task \in Task /\ map \in Mapping /\ files \in [Ids -> Row]
      /\ folders \in [Ids -> Dirs \cup {None}] /\ local \in Tree
      /\ \A q \in Paths : task.sending[q].v # None => task.dirs = {} /\ q \notin task.todo
      /\ \A q \in Paths : task.sending[q].folder # None => task.sending[q].v # None
      /\ p[1] \in Dirs /\ p[2] \in Names
  BY DEF TypeInv, TypeOK, Sends, Paths
<1>1. CASE StatFile(p)
  <2>1. /\ task' \in Task /\ task'.kind = task.kind /\ task.kind # "idle"
        /\ task'.dirs = {} /\ task'.todo = task.todo \ {p}
        /\ \A q \in Paths : q # p => task'.sending[q] = task.sending[q]
        /\ task'.sending[p].folder # None => task'.sending[p].v # None
    <3>1. task.kind # "idle" /\ task.dirs = {}
      BY <1>1 DEF StatFile, FoldersDone, NoTask, TypeInv, TypeOK
    <3>2. map.dirs[p[1]] \in Ids \cup {None} /\ local.files[p] \in Versions \cup {None}
      BY <1>0 DEF Mapping, Tree
    <3>3. CASE task' = [task EXCEPT !.todo = @ \ {p}]
      BY <1>0, <3>1, <3>3 DEF Task
    <3>4. CASE task' = [task EXCEPT !.todo = @ \ {p},
                          !.sending[p] = [v |-> local.files[p], folder |-> map.dirs[p[1]]]]
               /\ local.files[p] # None
      BY <1>0, <3>1, <3>2, <3>4 DEF Task
    <3> QED BY <1>1, <3>3, <3>4 DEF StatFile
  <2>2. /\ map' \in Mapping /\ files' \in [Ids -> Row] /\ Housed' /\ Whole(map)'
        /\ lost' \in SUBSET Losses
        /\ used' \in [edits: 0 .. MaxEdits, troubles: 0 .. MaxTroubles]
    <3>1. CASE DropFile(p)
      BY <3>1, DropType
    <3>2. CASE UNCHANGED <<map, files, used>> /\ lost' \in {lost, lost \cup {"mistaken"}}
      BY <3>2 DEF TypeInv, TypeOK, Whole, Housed, Losses
    <3> QED BY <1>1, <3>1, <3>2 DEF StatFile
  <2> QED
    BY <1>1, <2>1, <2>2 DEF StatFile, Rest, TypeInv, TypeOK, Whole, Sends, Waits, Rooted
<1>2. CASE MakeParent(p)
  <2>1. /\ task' \in Task /\ task'.kind = task.kind /\ task.kind # "idle"
        /\ task'.dirs = task.dirs /\ task'.todo = task.todo
        /\ \A q \in Paths : q # p => task'.sending[q] = task.sending[q]
        /\ task'.sending[p].folder # None => task'.sending[p].v # None
        /\ task'.sending[p].v # None => task.sending[p].v # None
    <3>1. task.kind # "idle" /\ task.sending[p].v # None /\ task.sending[p].folder = None
      BY <1>2 DEF MakeParent, NoTask, NotSending, TypeInv, TypeOK
    <3>2. task.sending \in [Paths -> [v: Versions \cup {None}, folder: Ids \cup {None}]]
      BY <1>0 DEF Task
    <3>3. CASE Unused # {} /\ task' = [task EXCEPT !.sending[p].folder = Fresh]
      <4> DEFINE s == [task.sending[p] EXCEPT !.folder = Fresh]
      <4>1. task' = [task EXCEPT !.sending[p] = s]
        BY <3>3
      <4>2. s \in [v: Versions \cup {None}, folder: Ids \cup {None}] /\ s.v # None
        BY <3>1, <3>2, <3>3, FreshUnused
      <4> HIDE DEF s
      <4>3. /\ task' \in Task /\ task'.sending = [task.sending EXCEPT ![p] = s]
            /\ task'.kind = task.kind /\ task'.dirs = task.dirs /\ task'.todo = task.todo
        BY <1>0, <4>1, <4>2 DEF Task
      <4> QED BY <3>1, <3>2, <4>2, <4>3
    <3>4. CASE task' = [task EXCEPT !.sending[p].v = None, !.calm = FALSE]
      <4> DEFINE s == [task.sending[p] EXCEPT !.v = None]
      <4>1. task' = [task EXCEPT !.sending[p] = s, !.calm = FALSE]
        BY <3>4
      <4>2. s \in [v: Versions \cup {None}, folder: Ids \cup {None}]
            /\ s.v = None /\ s.folder = None
        BY <3>1, <3>2
      <4> HIDE DEF s
      <4>3. /\ task' \in Task /\ task'.sending = [task.sending EXCEPT ![p] = s]
            /\ task'.kind = task.kind /\ task'.dirs = task.dirs /\ task'.todo = task.todo
        BY <1>0, <4>1, <4>2 DEF Task
      <4> QED BY <3>1, <3>2, <4>2, <4>3
    <3> QED BY <1>2, <3>3, <3>4 DEF MakeParent
  <2>2. map' \in Mapping /\ Whole(map)' /\ folders' \in [Ids -> Dirs \cup {None}]
    <3>1. CASE UNCHANGED <<map, folders>>
      BY <3>1 DEF TypeInv, TypeOK, Whole
    <3>2. CASE Unused # {} /\ folders' = [folders EXCEPT ![Fresh] = p[1]]
                 /\ map' = [map EXCEPT !.dirs[p[1]] = Fresh]
      BY <1>0, <3>2, FreshUnused, MapFields DEF TypeInv, TypeOK, Whole
    <3> QED BY <1>2, <3>1, <3>2 DEF MakeParent
  <2>3. /\ lost' \in SUBSET Losses
        /\ used' \in [edits: 0 .. MaxEdits, troubles: 0 .. MaxTroubles]
    <3>1. CASE Succeeds /\ lost' \subseteq lost \cup {"twin"}
      BY <3>1 DEF Succeeds, TypeInv, TypeOK, Losses
    <3>2. CASE Fails
      BY <3>2, TroubleType DEF TypeInv
    <3> QED BY <1>2, <3>1, <3>2 DEF MakeParent
  <2> QED
    BY <1>2, <2>1, <2>2, <2>3 DEF MakeParent, Rest, TypeInv, TypeOK, Whole, Sends, Waits, Rooted, Housed
<1>3. CASE Send(p)
  <2> DEFINE f == task.sending[p].folder
             i == Target(f, p[2])
  <2>0. f \in Ids /\ task.sending[p].v \in Versions /\ task.kind # "idle"
    BY <1>0, <1>3 DEF Send, Task, NoTask, NotSending, TypeInv, TypeOK
  <2>1. /\ task' \in Task /\ task'.kind = task.kind
        /\ task'.dirs = task.dirs /\ task'.todo = task.todo
        /\ \A q \in Paths : q # p => task'.sending[q] = task.sending[q]
        /\ task'.sending[p].folder = None /\ task'.sending[p].v = None
    <3>1. task' \in {[task EXCEPT !.sending[p] = NotSending[p]],
                     [task EXCEPT !.sending[p] = NotSending[p], !.calm = FALSE]}
      BY <1>3 DEF Send
    <3>2. /\ NotSending[p].folder = None /\ NotSending[p].v = None
          /\ NotSending[p] \in [v: Versions \cup {None}, folder: Ids \cup {None}]
      BY DEF NotSending
    <3>3. task.sending \in [Paths -> [v: Versions \cup {None}, folder: Ids \cup {None}]]
      BY <1>0 DEF Task
    <3> DEFINE s == NotSending[p]
    <3>4. /\ task' \in Task /\ task'.sending = [task.sending EXCEPT ![p] = s]
          /\ task'.kind = task.kind /\ task'.dirs = task.dirs /\ task'.todo = task.todo
      <4>1. s \in [v: Versions \cup {None}, folder: Ids \cup {None}]
        BY <3>2
      <4>2. task \in Task
        BY <1>0
      <4> HIDE DEF s
      <4>3. CASE task' = [task EXCEPT !.sending[p] = s]
        BY <4>1, <4>2, <4>3 DEF Task
      <4>4. CASE task' = [task EXCEPT !.sending[p] = s, !.calm = FALSE]
        BY <4>1, <4>2, <4>4 DEF Task
      <4> QED BY <3>1, <4>3, <4>4 DEF s
    <3> QED BY <3>2, <3>3, <3>4
  <2>2. /\ map' \in Mapping /\ files' \in [Ids -> Row] /\ Housed' /\ Whole(map)'
        /\ lost' \in SUBSET Losses
        /\ used' \in [edits: 0 .. MaxEdits, troubles: 0 .. MaxTroubles]
    <3>1. CASE DropFile(p)
      BY <3>1, DropType
    <3>2. CASE UNCHANGED <<map, files>> /\ (Fails \/ UNCHANGED <<used, lost>>)
      BY <3>2, TroubleType DEF TypeInv, TypeOK, Whole, Housed, Succeeds
    <3>3. CASE /\ Same(f, p[2]) = {} => Unused # {}
               /\ files' = [files EXCEPT ![i] = [folder |-> f, name |-> p[2], v |-> local.files[p]]]
               /\ map' = [map EXCEPT !.files[p] = [id |-> i, v |-> task.sending[p].v]]
               /\ UNCHANGED <<used, lost>>
      <4>1. i \in Ids
        BY <3>3, FreshUnused DEF Target, Same
      <4>2. [folder |-> f, name |-> p[2], v |-> local.files[p]] \in Row
        BY <1>0, <2>0 DEF Row, Tree
      <4>3. [id |-> i, v |-> task.sending[p].v] \in Copy
        BY <2>0, <4>1 DEF Copy
      <4>4. map' \in Mapping /\ map'.files = [map.files EXCEPT ![p] = [id |-> i, v |-> task.sending[p].v]]
        BY <1>0, <3>3, <4>3, MapFields
      <4>5. files' \in [Ids -> Row]
        BY <1>0, <3>3, <4>2
      <4>6. Housed'
        BY <1>0, <2>0, <3>3 DEF TypeInv, Housed, None, Ids
      <4>7. Whole(map)'
        BY <1>0, <2>0, <4>1, <4>4 DEF TypeInv, Whole, Mapping, None, Ids, Versions
      <4> QED BY <3>3, <4>4, <4>5, <4>6, <4>7 DEF TypeInv, TypeOK
    <3> QED BY <1>3, <3>1, <3>2, <3>3 DEF Send, Succeeds
  <2> QED
    <3>1. UNCHANGED <<Rest, timers, folders>>
      BY <1>3 DEF Send
    <3>2. \A q \in Paths : /\ task'.sending[q].v # None => task.sending[q].v # None
                           /\ task'.sending[q].folder # None => task'.sending[q].v # None
      BY <1>0, <2>1
    <3>3. \A q \in Paths : task'.sending[q].v # None => task'.dirs = {} /\ q \notin task'.todo
      BY <1>0, <2>1, <3>2
    <3> QED
      BY <2>0, <2>1, <2>2, <3>1, <3>2, <3>3
         DEF Rest, TypeInv, TypeOK, Whole, Sends, Waits, Rooted
<1> QED BY <1>1, <1>2, <1>3

\* A request that is not answered leaves the task as it is, or without one upload.
LEMMA HeldTask ==
  ASSUME NEW p, NEW b \in BOOLEAN, task \in Task,
         \/ task' \in {task, Held, [task EXCEPT !.tried = TRUE]}
         \/ p \in Paths /\ task' \in {HeldFile(p), [HeldFile(p) EXCEPT !.waits = b]}
  PROVE  /\ task' \in Task /\ task'.kind = task.kind
         /\ task'.dirs = task.dirs /\ task'.drop = task.drop /\ task'.rmdir = task.rmdir
         /\ task'.scan = task.scan /\ task'.swept = task.swept
         /\ task'.todo \in {task.todo, task.todo \ {p}}
         /\ task'.sending \in {task.sending, [task.sending EXCEPT ![p] = NotSending[p]]}
         /\ task'.calm => task.calm /\ task'.todo = task.todo /\ task'.sending = task.sending
<1>1. p \in Paths => NotSending[p] \in [v: Versions \cup {None}, folder: Ids \cup {None}]
  BY DEF NotSending
<1> DEFINE s == NotSending[p]
           h == [task EXCEPT !.waits = TRUE, !.calm = FALSE]
           g == [task EXCEPT !.waits = TRUE, !.calm = FALSE, !.todo = @ \ {p}, !.sending[p] = s]
           k == [task EXCEPT !.waits = b, !.calm = FALSE, !.todo = @ \ {p}, !.sending[p] = s]
<1>2. HeldFile(p) = g /\ [HeldFile(p) EXCEPT !.waits = b] = k /\ Held = h
  BY DEF HeldFile, Held, Task
<1> HIDE DEF s
<1>3. CASE task' = task
  BY <1>3
<1>4. CASE task' = [task EXCEPT !.tried = TRUE]
  BY <1>4 DEF Task
<1>5. CASE task' = h
  BY <1>5 DEF Task
<1>6. CASE p \in Paths /\ task' = g
  BY <1>1, <1>6 DEF Task, s
<1>7. CASE p \in Paths /\ task' = k
  BY <1>1, <1>7 DEF Task, s
<1> QED BY <1>2, <1>3, <1>4, <1>5, <1>6, <1>7

LEMMA UnheardTask ==
  ASSUME TypeInv, Unheard
  PROVE  /\ task' \in Task /\ task.kind # "idle" /\ task'.kind = task.kind
         /\ task'.dirs = task.dirs /\ task'.drop = task.drop /\ task'.rmdir = task.rmdir
         /\ task'.scan = task.scan /\ task'.swept = task.swept
         /\ task'.todo \subseteq task.todo
         /\ \A q \in Paths : task'.sending[q] \in {task.sending[q], NotSending[q]}
         /\ task'.calm => task.calm /\ task'.todo = task.todo /\ task'.sending = task.sending
         /\ UNCHANGED <<Rest, map>>
<1>1. task \in Task /\ task.waits \in BOOLEAN
  BY DEF TypeInv, TypeOK, Task
<1>2. PICK p :
        \/ task' \in {task, Held, [task EXCEPT !.tried = TRUE]}
        \/ p \in Paths /\ task' \in {HeldFile(p), [HeldFile(p) EXCEPT !.waits = task.waits]}
  <2>1. ASSUME NEW d \in Dirs,
               UnheardDir(d) \/ UnheardRemoveDir(d) \/ \E o \in Dirs : UnheardRename(d, o)
        PROVE  task' \in {task, Held, [task EXCEPT !.tried = TRUE]}
    BY <2>1 DEF UnheardDir, UnheardRemoveDir, UnheardRename
  <2>2. ASSUME NEW p \in Paths, UnheardParent(p) \/ UnheardSend(p) \/ UnheardDrop(p)
        PROVE  task' \in {task, HeldFile(p), [HeldFile(p) EXCEPT !.waits = task.waits]}
    BY <2>2 DEF UnheardParent, UnheardSend, UnheardDrop
  <2> QED BY <2>1, <2>2 DEF Unheard
<1>3. task.kind # "idle"
  <2> SUFFICES ASSUME task = NoTask PROVE FALSE
    BY DEF TypeInv, TypeOK
  <2>1. /\ task.dirs = {} /\ task.todo = {} /\ task.drop = {} /\ task.rmdir = {}
        /\ \A q \in Paths : task.sending[q].v = None /\ task.sending[q].folder = None
    BY DEF NoTask, NotSending
  <2> QED
    BY <2>1 DEF Unheard, UnheardDir, UnheardRemoveDir, UnheardRename, UnheardParent,
         UnheardSend, UnheardDrop, NextDir
<1>4. UNCHANGED <<Rest, map>>
  BY DEF Unheard, UnheardDir, UnheardRemoveDir, UnheardRename, UnheardParent, UnheardSend,
         UnheardDrop
<1>5. task.sending = [q \in Paths |-> task.sending[q]]
  BY <1>1 DEF Task
<1> QED BY <1>1, <1>2, <1>3, <1>4, <1>5, HeldTask

LEMMA UnheardType ==
  ASSUME TypeInv, Unheard
  PROVE  TypeInv'
<1>1. /\ lost' \in SUBSET Losses
      /\ used' \in [edits: 0 .. MaxEdits, troubles: 0 .. MaxTroubles]
  <2>1. PICK loss \in Losses : Trouble(loss)
    BY DEF Unheard, UnheardDir, UnheardRemoveDir, UnheardRename, UnheardParent, UnheardSend,
           UnheardDrop, Losses
  <2> QED BY <2>1, CauseType DEF TypeInv
<1>2. folders' \in [Ids -> Dirs \cup {None}]
  <2>1. folders \in [Ids -> Dirs \cup {None}]
    BY DEF TypeInv, TypeOK
  <2> QED
    BY <2>1 DEF Unheard, UnheardDir, UnheardRemoveDir, UnheardRename, UnheardParent,
           UnheardSend, UnheardDrop, Paths
<1>3. files' \in [Ids -> Row] /\ Housed'
  <2>1. files \in [Ids -> Row] /\ Housed
    BY DEF TypeInv, TypeOK
  <2>2. ASSUME NEW d \in Dirs, UnheardRemoveDir(d) PROVE files' \in [Ids -> Row] /\ Housed'
    BY <2>1, <2>2, Nothing DEF UnheardRemoveDir, Housed, NoRow
  <2>3. ASSUME NEW p \in Paths, UnheardDrop(p) PROVE files' \in [Ids -> Row] /\ Housed'
    BY <2>1, <2>3, Nothing DEF UnheardDrop, Housed, NoRow
  <2>4. ASSUME NEW p \in Paths, UnheardSend(p) PROVE files' \in [Ids -> Row] /\ Housed'
    <3> DEFINE f == task.sending[p].folder
               r == [folder |-> f, name |-> p[2], v |-> local.files[p]]
    <3>1. f \in Ids \cup {None} /\ f # None /\ p[2] \in Names /\ local.files[p] \in Versions \cup {None}
      BY <2>4 DEF UnheardSend, TypeInv, TypeOK, Task, Tree, Paths
    <3>2. r \in Row /\ r.folder # None
      BY <3>1 DEF Row
    <3>3. files' = [files EXCEPT ![Target(f, p[2])] = r]
      BY <2>4 DEF UnheardSend
    <3> HIDE DEF r
    <3> QED BY <2>1, <3>2, <3>3 DEF Housed
  <2>5. CASE UNCHANGED files
    BY <2>1, <2>5 DEF Housed
  <2> QED
    BY <2>2, <2>3, <2>4, <2>5 DEF Unheard, UnheardDir, UnheardRename, UnheardParent
<1>4. timers' \in [Dirs -> [print: Prints, id: Ids \cup {None}]] /\ Waits'
  <2>1. ASSUME NEW d \in Dirs, NEW o \in Dirs, UnheardRename(d, o)
        PROVE  timers' = [timers EXCEPT ![o] = NoTimer]
    BY <2>1 DEF UnheardRename
  <2>2. UNCHANGED timers \/ \E o \in Dirs : timers' = [timers EXCEPT ![o] = NoTimer]
    BY <2>1 DEF Unheard, UnheardDir, UnheardRemoveDir, UnheardParent, UnheardSend, UnheardDrop
  <2> QED BY <2>2, Nothing DEF TypeInv, TypeOK, Waits
<1>5. \A q \in Paths : NotSending[q].v = None /\ NotSending[q].folder = None
  BY DEF NotSending
<1>6. /\ Sends'
      /\ \A q \in Paths : task'.sending[q].v # None => task'.dirs = {} /\ q \notin task'.todo
  BY <1>5, UnheardTask DEF TypeInv, TypeOK, Sends
<1> QED
  BY <1>1, <1>2, <1>3, <1>4, <1>6, UnheardTask DEF Rest, TypeInv, TypeOK, Whole, Rooted

LEMMA UnfinishedType ==
  ASSUME TypeInv, NEW p \in Paths, Unfinished(p)
  PROVE  TypeInv'
<1> DEFINE s == NotSending[p]
           c == [id |-> Fresh, v |-> task.sending[p].v]
<1>1. /\ task \in Task /\ task.sending[p].v \in Versions /\ map \in Mapping
      /\ s \in [v: Versions \cup {None}, folder: Ids \cup {None}] /\ s.v = None /\ s.folder = None
  BY DEF Unfinished, TypeInv, TypeOK, Sends, Task, NotSending
<1>2. c \in Copy /\ c.id # None /\ c.v # None
  BY <1>1, FreshUnused DEF Unfinished, Copy, Ids, Versions, None
<1> HIDE DEF s, c
<1>3. /\ task' \in Task /\ task'.sending = [task.sending EXCEPT ![p] = s]
      /\ task'.kind = task.kind /\ task'.dirs = task.dirs /\ task'.todo = task.todo
  <2>1. task' = [task EXCEPT !.sending[p] = s, !.calm = FALSE]
    BY DEF Unfinished, s
  <2> QED BY <1>1, <2>1 DEF Task
<1>4. map' \in Mapping /\ map'.files = [map.files EXCEPT ![p] = c]
  <2>1. map' = [map EXCEPT !.files[p] = c]
    BY DEF Unfinished, c
  <2> QED BY <1>1, <1>2, <2>1, MapFields
<1>5. Whole(map)'
  BY <1>1, <1>2, <1>4 DEF TypeInv, Whole, Mapping
<1>6. task.kind # "idle"
  BY DEF Unfinished, NoTask, NotSending, TypeInv, TypeOK
<1>7. /\ lost' \in SUBSET Losses
      /\ used' \in [edits: 0 .. MaxEdits, troubles: 0 .. MaxTroubles]
  BY CauseType DEF Unfinished, TypeInv, Losses
<1>8. \A q \in Paths : task'.sending[q] \in {task.sending[q], s}
  BY <1>1, <1>3 DEF Task
<1> QED
  BY <1>1, <1>3, <1>4, <1>5, <1>6, <1>7, <1>8
     DEF Unfinished, Rest, remote, TypeInv, TypeOK, Whole, Sends, Waits, Rooted, Housed

LEMMA TypeStep ==
  ASSUME TypeInv, [Next]_vars
  PROVE  TypeInv'
<1>1. ASSUME Engine PROVE TypeInv'
  BY <1>1, StartsType, EndsType, DirsType, RemoveType, UploadType DEF Engine
<1> QED
  BY <1>1, UserType, WatcherType, TimersType, EndsType, UnheardType, UnfinishedType DEF Next

LEMMA InitType ==
  ASSUME Init
  PROVE  TypeInv
<1>1. PICK p \in Paths, i \in {1} :
        /\ local = [dirs |-> {p[1]}, files |-> [q \in Paths |-> IF q = p THEN 1 ELSE None]]
        /\ map = [dirs |-> [d \in Dirs |-> IF d = p[1] THEN i ELSE None],
                  files |-> [q \in Paths |-> IF q = p THEN [id |-> i, v |-> 1] ELSE NoCopy]]
        /\ folders = [k \in Ids |-> IF k = i THEN p[1] ELSE None]
        /\ files = [k \in Ids |-> IF k = i THEN [folder |-> i, name |-> p[2], v |-> 1] ELSE NoRow]
  BY DEF Init
<1>2. i \in Ids /\ 1 \in Versions /\ i # None /\ 1 # None /\ p[1] \in Dirs /\ p[2] \in Names
  BY SyncAssumption DEF Ids, Versions, None, Paths
<1>3. map \in Mapping /\ Whole(map)
  BY <1>1, <1>2, Nothing DEF Mapping, Whole, NoCopy, Copy
<1>4. folders \in [Ids -> Dirs \cup {None}] /\ files \in [Ids -> Row] /\ Housed
  BY <1>1, <1>2, Nothing DEF Row, NoRow, Housed
<1>5. local \in Tree /\ Rooted
  BY <1>1, <1>2 DEF Tree, Rooted
<1>6. task = NoTask /\ NoTask.sending = NotSending /\ timers = [d \in Dirs |-> NoTimer]
      /\ \A q \in Paths : NotSending[q].folder = None /\ NotSending[q].v = None
  BY DEF Init, NoTask, NotSending
<1>7. queue \in Seq(Waiting) /\ seen \in Tree /\ clock \in Versions /\ pending \in Changes
      /\ saved = map /\ lost \in SUBSET Losses
      /\ used \in [edits: 0 .. MaxEdits, troubles: 0 .. MaxTroubles]
  BY <1>2, <1>5, WaitingTypes, SyncAssumption DEF Init
<1> QED
  BY <1>3, <1>4, <1>5, <1>6, <1>7, NoTaskType, Nothing DEF TypeInv, TypeOK, Sends, Waits

\* The disk, the events, the queue, the task, the timers, the table and the remote rows
\* keep their types in every behaviour.
THEOREM TypeCorrect == Spec => []TypeOK
<1>1. TypeInv => TypeOK
  BY DEF TypeInv
<1>2. TypeInv /\ [Next]_vars => TypeInv'
  BY TypeStep
<1> QED BY <1>1, <1>2, InitType, PTL DEF Spec

--------------------------------------------------------------------------------
(* The table is true of the remote rows. *)

\* A request without an answer, or without its effect, is always named.
LEMMA Cause ==
  ASSUME Unheard \/ \E p \in Paths : Unfinished(p)
  PROVE  lost \subseteq lost' /\ lost' # {}
  BY DEF Unheard, UnheardDir, UnheardRemoveDir, UnheardRename, UnheardParent, UnheardSend,
         UnheardDrop, Unfinished, Trouble

\* What is lost stays lost.
LEMMA LostStays ==
  ASSUME [Next]_vars
  PROVE  lost \subseteq lost'
<1>1. ASSUME Edit PROVE lost \subseteq lost'
  BY <1>1 DEF Edit
<1>2. ASSUME NEW p \in Paths, DropFile(p) PROVE lost \subseteq lost'
  BY <1>2 DEF DropFile, Fails, Trouble
<1>3. ASSUME User PROVE lost \subseteq lost'
  BY <1>1, <1>3 DEF User, MakeDir, DeleteDir, RenameDir, DeleteFile, Write
<1>4. ASSUME Watcher PROVE lost \subseteq lost'
  BY <1>4 DEF Watcher, WatchDir, WatchFile
<1>5. ASSUME Timers \/ SyncNow \/ Save \/ Restart \/ UNCHANGED vars PROVE lost \subseteq lost'
  BY <1>5 DEF Timers, Debounce, GraceOver, SyncNow, Save, Restart, vars
<1>6. ASSUME StartBatch \/ StartFull \/ StartRemove \/ Sweep \/ Finish PROVE lost \subseteq lost'
  BY <1>6 DEF StartBatch, StartFull, StartRemove, Sweep, Finish
<1>7. ASSUME NEW d \in Dirs, EnsureDir(d) \/ RemoveDir(d) \/ \E o \in Dirs : Rename(d, o)
      PROVE  lost \subseteq lost'
  BY <1>7 DEF EnsureDir, RemoveDir, Rename, Fails, Trouble
<1>8. ASSUME NEW p \in Paths, StatFile(p) \/ MakeParent(p) \/ Send(p) \/ RemoveFile(p)
      PROVE  lost \subseteq lost'
  BY <1>2, <1>8 DEF StatFile, MakeParent, Send, RemoveFile, Fails, Trouble
<1>9. ASSUME Unheard \/ \E p \in Paths : Unfinished(p) PROVE lost \subseteq lost'
  BY <1>9, Cause
<1> QED
  BY <1>3, <1>4, <1>5, <1>6, <1>7, <1>8, <1>9 DEF Next, Engine

\* Paths with the same row in the table are the same, and so are folders.
LEMMA OneEntry ==
  ASSUME TypeInv, TableTrue
  PROVE  /\ \A d, e \in Dirs : map.dirs[d] = map.dirs[e] /\ map.dirs[d] # None => d = e
         /\ \A p \in Paths : map.files[p].id # None => map.dirs[p[1]] # None
         /\ \A p, q \in Paths : map.files[p].id = map.files[q].id /\ map.files[p].id # None
                                  => p = q
<1>1. \A d, e \in Dirs : map.dirs[d] = map.dirs[e] /\ map.dirs[d] # None => d = e
  BY DEF TableTrue
<1>2. ASSUME NEW p \in Paths, map.files[p].id # None
      PROVE  map.dirs[p[1]] # None
  <2>1. map.files[p].id \in Ids /\ p[2] \in Names
    BY <1>2 DEF TypeInv, TypeOK, Mapping, Copy, Paths
  <2> QED
    BY <1>2, <2>1, SyncAssumption DEF TableTrue, TypeInv, Housed, None
<1>3. ASSUME NEW p \in Paths, NEW q \in Paths, map.files[p].id = map.files[q].id,
             map.files[p].id # None
      PROVE  p = q
  <2>1. p[2] = q[2] /\ map.dirs[p[1]] = map.dirs[q[1]]
    BY <1>3 DEF TableTrue
  <2>2. p[1] \in Dirs /\ q[1] \in Dirs /\ p = <<p[1], p[2]>> /\ q = <<q[1], q[2]>>
    BY DEF Paths
  <2>3. p[1] = q[1]
    BY <1>1, <1>2, <1>3, <2>1, <2>2
  <2> QED BY <2>1, <2>2, <2>3
<1> QED BY <1>1, <1>2, <1>3

\* A step that changes neither the table nor the rows.
LEMMA Still ==
  ASSUME TableTrue, Current, UNCHANGED <<map, folders, files>>,
         \A d \in Dirs : \/ timers'[d] = timers[d] \/ timers'[d] = NoTimer
                         \/ timers'[d].id = map.dirs[d],
         \A p \in Paths : \/ task'.sending[p].folder = task.sending[p].folder
                          \/ task'.sending[p].folder = None
                          \/ task'.sending[p].folder = map.dirs[p[1]]
  PROVE  TableTrue' /\ Current'
  BY DEF TableTrue, Current

\* An entry goes, with its row.
LEMMA Drop ==
  ASSUME TypeInv, TableTrue, Current, NEW p \in Paths, DropFile(p), UNCHANGED <<timers, folders>>,
         \A q \in Paths : \/ task'.sending[q].folder = task.sending[q].folder
                          \/ task'.sending[q].folder = None
  PROVE  TableTrue' /\ Current'
<1>1. /\ map'.dirs = map.dirs /\ map'.files = [map.files EXCEPT ![p] = NoCopy]
  BY DropType
<1>2. ASSUME NEW q \in Paths, map'.files[q].id # None
      PROVE  /\ map'.files[q].id = map.files[q].id
             /\ files'[map'.files[q].id] = files[map.files[q].id]
  <2>1. q # p /\ map'.files[q] = map.files[q]
    BY <1>1, <1>2 DEF TypeInv, TypeOK, Mapping, NoCopy
  <2>2. map.files[q].id # map.files[p].id
    BY <1>2, <2>1, OneEntry
  <2>3. map.files[q].id \in Ids
    BY <1>2, <2>1 DEF TypeInv, TypeOK, Mapping, Copy
  <2> QED BY <2>1, <2>2, <2>3 DEF DropFile, TypeInv, TypeOK
<1>3. TableTrue'
  BY <1>1, <1>2 DEF TableTrue
<1>4. Current'
  BY <1>1 DEF Current
<1> QED BY <1>3, <1>4

\* A folder without an entry gets a new row, and perhaps an upload goes there.
LEMMA NewFolder ==
  ASSUME TypeInv, TableTrue, Current, NEW d \in Dirs, map.dirs[d] = None, Unused # {},
         folders' = [folders EXCEPT ![Fresh] = d], map' = [map EXCEPT !.dirs[d] = Fresh],
         UNCHANGED <<timers, files>>,
         \A q \in Paths : \/ task'.sending[q].folder = task.sending[q].folder
                          \/ task'.sending[q].folder = None
                          \/ q[1] = d /\ task'.sending[q].folder = Fresh
  PROVE  TableTrue' /\ Current'
<1>1. map'.files = map.files /\ map'.dirs = [map.dirs EXCEPT ![d] = Fresh]
  BY FreshUnused, MapFields DEF TypeInv, TypeOK
<1>2. Fresh \in Ids /\ Fresh # None
  BY FreshUnused DEF Ids, None
<1>3. /\ \A e \in Dirs : map.dirs[e] # Fresh /\ timers[e].id # Fresh
      /\ \A q \in Paths : map.files[q].id # Fresh /\ q[1] \in Dirs
  BY FreshUnused DEF Unused, Paths
<1>4. TableTrue'
  BY <1>1, <1>2, <1>3, OneEntry DEF TableTrue, TypeInv, TypeOK, Mapping
<1>5. Current'
  BY <1>1, <1>2, <1>3 DEF Current, TypeInv, TypeOK, Mapping, Waits
<1> QED BY <1>4, <1>5

\* A folder's row is renamed, and the entries below it move, to a path without any.
LEMMA Renamed ==
  ASSUME TypeInv, TableTrue, Current, NEW d \in Dirs, NEW o \in Dirs, o # d, ~Mapped(d),
         timers[o] # NoTimer, folders[timers[o].id] # None,
         timers' = [timers EXCEPT ![o] = NoTimer],
         folders' = [folders EXCEPT ![timers[o].id] = d], map' = Moved(o, d),
         UNCHANGED files,
         \A q \in Paths : task'.sending[q].folder = None
  PROVE  TableTrue' /\ Current'
<1> DEFINE i == timers[o].id
<1>1. i = map.dirs[o] /\ i \in Ids /\ i # None
  BY DEF Current, Waits, TypeInv, TypeOK, Mapping
<1>2. map.dirs[d] = None /\ \A n \in Names : map.files[<<d, n>>].id = None
  BY DEF Mapped
<1>3. /\ map'.dirs = [e \in Dirs |-> IF e = o THEN None ELSE IF e = d THEN i ELSE map.dirs[e]]
      /\ map'.files = [p \in Paths |-> CASE p[1] = o -> NoCopy
                         [] p[1] = d /\ map.files[<<o, p[2]>>].id # None -> map.files[<<o, p[2]>>]
                         [] OTHER -> map.files[p]]
  BY <1>1 DEF Moved
<1>4. \A e \in Dirs : map'.dirs[e] # None => folders'[map'.dirs[e]] = e
  <2> SUFFICES ASSUME NEW e \in Dirs, map'.dirs[e] # None PROVE folders'[map'.dirs[e]] = e
    OBVIOUS
  <2>1. CASE e = d
    BY <1>1, <1>3, <2>1 DEF TypeInv, TypeOK
  <2>2. CASE e # d
    <3>1. e # o /\ map'.dirs[e] = map.dirs[e]
      BY <1>3, <2>2
    <3>2. map.dirs[e] # i /\ map.dirs[e] \in Ids
      BY <1>1, <3>1, OneEntry DEF TypeInv, TypeOK, Mapping
    <3> QED BY <1>1, <3>1, <3>2 DEF TypeInv, TypeOK, TableTrue
  <2> QED BY <2>1, <2>2
<1>5. ASSUME NEW p \in Paths, map'.files[p].id # None
      PROVE  /\ files'[map'.files[p].id].name = p[2]
             /\ files'[map'.files[p].id].folder = map'.dirs[p[1]]
  <2>1. p[1] \in Dirs /\ p[2] \in Names /\ p = <<p[1], p[2]>> /\ <<o, p[2]>> \in Paths
        /\ <<o, p[2]>>[1] = o /\ <<o, p[2]>>[2] = p[2]
    BY DEF Paths
  <2>2. p[1] # o
    BY <1>3, <1>5 DEF NoCopy
  <2>3. CASE p[1] = d
    <3>1. map.files[p].id = None
      BY <1>2, <2>1, <2>3
    <3>2. map'.files[p] = map.files[<<o, p[2]>>]
      BY <1>3, <1>5, <2>2, <2>3, <3>1
    <3>3. /\ files[map.files[<<o, p[2]>>].id].name = p[2]
          /\ files[map.files[<<o, p[2]>>].id].folder = map.dirs[o]
      BY <1>5, <2>1, <3>2 DEF TableTrue
    <3> QED BY <1>1, <1>3, <2>3, <3>2, <3>3
  <2>4. CASE p[1] # d
    BY <1>3, <1>5, <2>1, <2>2, <2>4 DEF TableTrue
  <2> QED BY <2>3, <2>4
<1>6. TableTrue'
  BY <1>4, <1>5 DEF TableTrue
<1>7. ASSUME NEW e \in Dirs, timers'[e] # NoTimer, folders'[timers'[e].id] # None
      PROVE  timers'[e].id = map'.dirs[e]
  <2>1. e # o /\ timers'[e] = timers[e] /\ timers[e].id \in Ids /\ timers[e].id # None
    BY <1>7 DEF TypeInv, TypeOK, Waits
  <2>2. folders[timers[e].id] # None
    BY <1>7, <2>1 DEF TypeInv, TypeOK
  <2>3. timers[e].id = map.dirs[e]
    BY <1>7, <2>1, <2>2 DEF Current
  <2>4. e # d
    BY <1>2, <2>1, <2>3
  <2> QED BY <1>3, <2>1, <2>3, <2>4
<1>8. Current'
  BY <1>7 DEF Current
<1> QED BY <1>6, <1>8

\* A folder's entries go, with its row and the rows in it.
LEMMA RemovedDir ==
  ASSUME TypeInv, TableTrue, Current, NEW d \in Dirs, RemoveDir(d), Clean'
  PROVE  TableTrue' /\ Current'
<1> DEFINE i == map.dirs[d]
<1>1. /\ map'.dirs = [map.dirs EXCEPT ![d] = None]
      /\ map'.files = [p \in Paths |-> IF p[1] = d THEN NoCopy ELSE map.files[p]]
      /\ UNCHANGED timers
  BY DEF RemoveDir
<1>2. \A q \in Paths : task'.sending[q].folder = None
  <2>1. task'.sending = NotSending
    BY DEF RemoveDir, Uploaded, NoSending, TypeInv, TypeOK, Task
  <2> QED BY <2>1 DEF NotSending
<1>3. CASE i = None
  <2>1. UNCHANGED <<folders, files>>
    BY <1>3 DEF RemoveDir
  <2>2. TableTrue'
    BY <1>1, <2>1 DEF TableTrue, TypeInv, TypeOK, Mapping, NoCopy, Paths
  <2>3. Current'
    BY <1>1, <1>2, <1>3, <2>1 DEF Current, TypeInv, TypeOK, Mapping, Waits
  <2> QED BY <2>2, <2>3
<1>4. CASE i # None
  <2>1. i \in Ids /\ folders[i] = d /\ d # None
    BY <1>4, SyncAssumption DEF TypeInv, TypeOK, Mapping, TableTrue, None
  <2>2. /\ folders' = [folders EXCEPT ![i] = None]
        /\ files' = [k \in Ids |-> IF files[k].folder = i THEN NoRow ELSE files[k]]
    BY <1>4, <2>1 DEF RemoveDir, Fails, Trouble, Clean
  <2>3. ASSUME NEW e \in Dirs, e # d PROVE map.dirs[e] # i
    BY <1>4, <2>3, OneEntry
  <2>4. ASSUME NEW e \in Dirs, map'.dirs[e] # None PROVE folders'[map'.dirs[e]] = e
    <3>1. e # d /\ map'.dirs[e] = map.dirs[e]
      BY <1>1, <2>4 DEF TypeInv, TypeOK, Mapping
    <3>2. folders[map.dirs[e]] = e /\ map.dirs[e] # i /\ map.dirs[e] \in Ids
      BY <2>3, <2>4, <3>1 DEF TableTrue, TypeInv, TypeOK, Mapping
    <3> QED BY <2>2, <3>1, <3>2 DEF TypeInv, TypeOK
  <2>5. ASSUME NEW p \in Paths, map'.files[p].id # None
        PROVE  /\ files'[map'.files[p].id].name = p[2]
               /\ files'[map'.files[p].id].folder = map'.dirs[p[1]]
    <3>1. p[1] # d /\ map'.files[p] = map.files[p] /\ p[1] \in Dirs
      BY <1>1, <2>5 DEF NoCopy, Paths
    <3>2. /\ map'.dirs[p[1]] = map.dirs[p[1]] /\ map.files[p].id \in Ids
      BY <1>1, <2>5, <3>1 DEF TypeInv, TypeOK, Mapping, Copy
    <3>3. /\ files[map.files[p].id].name = p[2]
          /\ files[map.files[p].id].folder = map.dirs[p[1]] /\ map.dirs[p[1]] # i
      BY <2>3, <2>5, <3>1 DEF TableTrue
    <3> QED BY <2>2, <3>1, <3>2, <3>3
  <2>6. TableTrue'
    BY <2>4, <2>5 DEF TableTrue
  <2>7. ASSUME NEW e \in Dirs, timers'[e] # NoTimer, folders'[timers'[e].id] # None
        PROVE  timers'[e].id = map'.dirs[e]
    <3>1. timers'[e] = timers[e] /\ timers[e].id \in Ids
      BY <1>1, <2>7 DEF TypeInv, TypeOK, Waits
    <3>2. timers[e].id # i /\ folders[timers[e].id] # None
      BY <2>1, <2>2, <2>7, <3>1 DEF TypeInv, TypeOK
    <3>3. timers[e].id = map.dirs[e]
      BY <2>7, <3>1, <3>2 DEF Current
    <3> QED BY <1>1, <3>1, <3>2, <3>3 DEF TypeInv, TypeOK, Mapping
  <2>8. Current'
    BY <1>2, <2>7 DEF Current
  <2> QED BY <2>6, <2>8
<1> QED BY <1>3, <1>4

\* An upload replaces the row of its name in its folder, or makes one.
LEMMA Sent ==
  ASSUME TypeInv, TableTrue, Current, NEW p \in Paths, NEW f \in Ids,
         f = task.sending[p].folder, Same(f, p[2]) = {} => Unused # {},
         files' = [files EXCEPT ![Target(f, p[2])] =
                     [folder |-> f, name |-> p[2], v |-> local.files[p]]],
         map' = [map EXCEPT !.files[p] = [id |-> Target(f, p[2]), v |-> task.sending[p].v]],
         UNCHANGED <<timers, folders>>,
         \A q \in Paths : \/ task'.sending[q].folder = task.sending[q].folder
                          \/ task'.sending[q].folder = None
  PROVE  TableTrue' /\ Current'
<1> DEFINE i == Target(f, p[2])
           c == [id |-> i, v |-> task.sending[p].v]
<1>1. i \in Ids /\ (i \in Unused \/ (files[i].folder = f /\ files[i].name = p[2]))
  <2>1. CASE Same(f, p[2]) = {}
    <3>1. Fresh \in Unused /\ Fresh \in Ids
      BY <2>1, FreshUnused
    <3>2. i = Fresh
      BY <2>1 DEF Target
    <3> QED BY <3>1, <3>2
  <2>2. CASE Same(f, p[2]) # {}
    <3>1. i \in Same(f, p[2])
      BY <2>2 DEF Target
    <3> QED BY <3>1 DEF Same
  <2> QED BY <2>1, <2>2
<1>2. c \in Copy
  BY <1>1 DEF Copy, TypeInv, TypeOK, Task
<1>3. map'.dirs = map.dirs /\ map'.files = [map.files EXCEPT ![p] = c]
  BY <1>2, MapFields DEF TypeInv, TypeOK
<1>4. f = map.dirs[p[1]] /\ f # None
  BY DEF Current, Ids, None
<1>5. ASSUME NEW q \in Paths, map'.files[q].id # None
      PROVE  /\ files'[map'.files[q].id].name = q[2]
             /\ files'[map'.files[q].id].folder = map'.dirs[q[1]]
  <2>1. CASE q = p
    BY <1>1, <1>3, <1>4, <2>1 DEF TypeInv, TypeOK, Mapping
  <2>2. CASE q # p
    <3>1. map'.files[q] = map.files[q] /\ map.files[q].id \in Ids
      BY <1>3, <1>5, <2>2 DEF TypeInv, TypeOK, Mapping, Copy
    <3>2. files[map.files[q].id].name = q[2] /\ files[map.files[q].id].folder = map.dirs[q[1]]
      BY <1>5, <3>1 DEF TableTrue
    <3>3. map.files[q].id # i
      <4> SUFFICES ASSUME map.files[q].id = i PROVE FALSE
        OBVIOUS
      <4>1. files[i].folder = f /\ files[i].name = p[2]
        BY <1>1 DEF Unused
      <4>2. q[2] = p[2] /\ map.dirs[q[1]] = map.dirs[p[1]]
        BY <1>4, <3>2, <4>1
      <4>3. q[1] \in Dirs /\ p[1] \in Dirs /\ p = <<p[1], p[2]>> /\ q = <<q[1], q[2]>>
        BY DEF Paths
      <4>4. q[1] = p[1]
        BY <1>4, <4>2, <4>3, OneEntry
      <4> QED BY <2>2, <4>2, <4>3, <4>4
    <3> QED BY <1>1, <1>3, <3>1, <3>2, <3>3 DEF TypeInv, TypeOK
  <2> QED BY <2>1, <2>2
<1>6. TableTrue'
  BY <1>3, <1>5 DEF TableTrue
<1>7. Current'
  BY <1>3 DEF Current
<1> QED BY <1>6, <1>7

\* Of the requests without an answer those that make something leave the table true: what
\* they make is a new row, which nothing names, or new content of the row they name.
LEMMA TableUnheard ==
  ASSUME TypeInv, TableTrue, Current, Clean', Unheard
  PROVE  TableTrue' /\ Current'
<1>0. ~Trouble("unrecorded")
  BY DEF Trouble, Clean
<1>1. UNCHANGED map /\ \A q \in Paths : \/ task'.sending[q].folder = task.sending[q].folder
                                         \/ task'.sending[q].folder = None
  <2>1. \A q \in Paths : NotSending[q].folder = None
    BY DEF NotSending
  <2> QED BY <2>1, UnheardTask
<1>2. ASSUME NEW d, Unused # {}, folders' = [folders EXCEPT ![Fresh] = d], UNCHANGED <<timers, files>>
      PROVE  TableTrue' /\ Current'
  <2>1. /\ Fresh \in Ids
        /\ \A e \in Dirs : map.dirs[e] # Fresh /\ timers[e].id # Fresh
    BY <1>2, FreshUnused DEF Unused
  <2>2. TableTrue'
    BY <1>1, <1>2, <2>1 DEF TableTrue, TypeInv, TypeOK, Mapping
  <2>3. Current'
    BY <1>1, <1>2, <2>1 DEF Current, TypeInv, TypeOK, Mapping
  <2> QED BY <2>2, <2>3
<1>3. ASSUME NEW p \in Paths, UnheardSend(p) PROVE TableTrue' /\ Current'
  <2> DEFINE f == task.sending[p].folder
             i == Target(f, p[2])
             r == [folder |-> f, name |-> p[2], v |-> local.files[p]]
  <2>1. /\ f # None /\ files' = [files EXCEPT ![i] = r] /\ UNCHANGED <<folders, timers>>
        /\ Same(f, p[2]) = {} => Unused # {}
    BY <1>3 DEF UnheardSend
  <2>2. i \in Ids /\ (i \in Unused \/ (files[i].folder = f /\ files[i].name = p[2]))
    <3>1. CASE Same(f, p[2]) = {}
      BY <2>1, <3>1, FreshUnused DEF Target
    <3>2. CASE Same(f, p[2]) # {}
      <4>1. i \in Same(f, p[2])
        BY <3>2 DEF Target
      <4> QED BY <4>1 DEF Same
    <3> QED BY <3>1, <3>2
  <2>3. ASSUME NEW q \in Paths, map.files[q].id # None
        PROVE  /\ files'[map.files[q].id].name = files[map.files[q].id].name
               /\ files'[map.files[q].id].folder = files[map.files[q].id].folder
    <3>1. map.files[q].id \in Ids
      BY <2>3 DEF TypeInv, TypeOK, Mapping, Copy
    <3>2. i \in Unused => map.files[q].id # i
      BY DEF Unused
    <3>3. files \in [Ids -> Row] /\ r.folder = f /\ r.name = p[2]
      BY DEF TypeInv, TypeOK
    <3> HIDE DEF r, i, f
    <3> QED BY <2>1, <2>2, <3>1, <3>2, <3>3
  <2>4. TableTrue'
    BY <1>1, <2>1, <2>3 DEF TableTrue
  <2>5. Current'
    BY <1>1, <2>1 DEF Current
  <2> QED BY <2>4, <2>5
<1>4. ASSUME NEW d \in Dirs, UnheardDir(d) PROVE TableTrue' /\ Current'
  BY <1>2, <1>4 DEF UnheardDir
<1>5. ASSUME NEW p \in Paths, UnheardParent(p) PROVE TableTrue' /\ Current'
  BY <1>2, <1>5 DEF UnheardParent
<1> QED
  BY <1>0, <1>3, <1>4, <1>5 DEF Unheard, UnheardRename, UnheardDrop, UnheardRemoveDir

LEMMA TableStep ==
  ASSUME TypeInv, TableTrue, Current, Clean', [Next]_vars
  PROVE  TableTrue' /\ Current'
<1>0. ~("inPlace" \in lost') /\ ~("overwritten" \in lost') /\ ~("twin" \in lost')
      /\ ~("failed" \in lost') /\ ~("stopped" \in lost') /\ ~Fails
  BY DEF Clean, Fails, Trouble
<1>a. /\ \A p \in Paths : NoTask.sending[p].folder = None
      /\ task \in Task /\ TypeInv'
  BY TypeStep DEF NoTask, NotSending, TypeInv, TypeOK
<1>1. ASSUME User PROVE TableTrue' /\ Current'
  <2>1. Edit
    BY <1>1 DEF User, MakeDir, DeleteDir, RenameDir, DeleteFile, Write
  <2>2. task'.sending = task.sending
    BY <1>a, <2>1 DEF Edit, Task
  <2> QED BY <2>1, <2>2, Still DEF Edit, remote
<1>2. ASSUME Watcher PROVE TableTrue' /\ Current'
  BY <1>2, Still DEF Watcher, WatchDir, WatchFile, remote
<1>3. ASSUME Timers \/ SyncNow \/ Save \/ UNCHANGED vars PROVE TableTrue' /\ Current'
  <2>1. UNCHANGED <<map, folders, files, task>>
    BY <1>3 DEF Timers, Debounce, GraceOver, SyncNow, Save, vars, remote
  <2>2. \A d \in Dirs : timers'[d] = timers[d] \/ timers'[d] = NoTimer
    BY <1>3 DEF Timers, Debounce, GraceOver, SyncNow, Save, vars, TypeInv, TypeOK
  <2> QED BY <2>1, <2>2, Still
<1>4. ASSUME Restart PROVE TableTrue' /\ Current'
  <2>1. UNCHANGED <<map, folders, files>> /\ task' = NoTask
    BY <1>0, <1>4 DEF Restart, remote
  <2>2. \A d \in Dirs : timers'[d] = NoTimer
    BY <1>4 DEF Restart
  <2> QED BY <1>a, <2>1, <2>2, Still
<1>5. ASSUME StartBatch PROVE TableTrue' /\ Current'
  <2>1. UNCHANGED <<map, folders, files>> /\ task'.sending = NoTask.sending
    BY <1>5 DEF StartBatch, remote, NoTask
  <2>2. \A d \in Dirs : timers'[d] = timers[d] \/ timers'[d].id = map.dirs[d]
    BY <1>5 DEF StartBatch
  <2> QED BY <1>a, <2>1, <2>2, Still
<1>6. ASSUME StartFull \/ StartRemove \/ Sweep \/ Finish PROVE TableTrue' /\ Current'
  <2>1. UNCHANGED <<map, folders, files, timers>>
    BY <1>6 DEF StartFull, StartRemove, Sweep, Finish, Rest, remote
  <2>2. task'.sending \in {task.sending, NoTask.sending}
    BY <1>6, <1>a DEF StartFull, StartRemove, Sweep, Finish, NoTask, Task
  <2> QED BY <1>a, <2>1, <2>2, Still
<1>7. ASSUME NEW d \in Dirs, EnsureDir(d) PROVE TableTrue' /\ Current'
  <2>1. UNCHANGED <<timers, files>> /\ task' = [task EXCEPT !.dirs = @ \ {d}, !.tried = FALSE]
    BY <1>0, <1>7 DEF EnsureDir
  <2>2. task'.sending = task.sending
    BY <1>a, <2>1 DEF Task
  <2>3. CASE UNCHANGED <<map, folders>>
    BY <2>1, <2>2, <2>3, Still
  <2>4. CASE /\ map.dirs[d] = None /\ Unused # {} /\ folders' = [folders EXCEPT ![Fresh] = d]
             /\ map' = [map EXCEPT !.dirs[d] = Fresh]
    BY <2>1, <2>2, <2>4, NewFolder
  <2> QED BY <1>0, <1>7, <2>3, <2>4 DEF EnsureDir
<1>8. ASSUME NEW d \in Dirs, NEW o \in Dirs, Rename(d, o) PROVE TableTrue' /\ Current'
  <2>1. /\ UNCHANGED files /\ timers' = [timers EXCEPT ![o] = NoTimer]
        /\ timers[o] # NoTimer /\ task.dirs # {}
        /\ task' \in {[task EXCEPT !.dirs = @ \ {d}], [task EXCEPT !.tried = TRUE]}
    BY <1>8 DEF Rename, NextDir, Matches
  <2>2. task'.sending = task.sending /\ \A p \in Paths : task.sending[p].folder = None
    BY <1>a, <2>1 DEF Task, TypeInv, TypeOK, Sends
  <2>3. CASE UNCHANGED <<map, folders>>
    BY <2>1, <2>2, <2>3, Still DEF TypeInv, TypeOK
  <2>4. CASE /\ folders[timers[o].id] # None
             /\ folders' = [folders EXCEPT ![timers[o].id] = d]
             /\ map' = Moved(o, d)
             /\ lost' = lost \cup IF o = d THEN {"inPlace"}
                             ELSE {l \in {"recreated", "overwritten"} :
                                     IF l = "recreated" THEN Forgotten(o) \/ Outgrown(o, d)
                                                        ELSE Mapped(d)}
    <3>1. o # d /\ ~Mapped(d)
      BY <1>0, <2>4
    <3> QED BY <2>1, <2>2, <2>4, <3>1, Renamed
  <2> QED BY <1>8, <2>3, <2>4 DEF Rename
<1>9. ASSUME NEW d \in Dirs, RemoveDir(d) PROVE TableTrue' /\ Current'
  BY <1>9, RemovedDir
<1>10. ASSUME NEW p \in Paths, StatFile(p) PROVE TableTrue' /\ Current'
  <2>1. UNCHANGED <<timers, folders>>
    BY <1>10 DEF StatFile
  <2>2. CASE DropFile(p) /\ task' = [task EXCEPT !.todo = @ \ {p}]
    <3>1. task'.sending = task.sending
      BY <1>a, <2>2 DEF Task
    <3> QED BY <2>1, <2>2, <3>1, Drop
  <2>3. CASE UNCHANGED <<map, files>>
    <3> DEFINE u == [v |-> local.files[p], folder |-> map.dirs[p[1]]]
    <3>1. \/ task' = [task EXCEPT !.todo = @ \ {p}]
          \/ task' = [task EXCEPT !.todo = @ \ {p}, !.sending[p] = u]
      BY <1>10 DEF StatFile
    <3>a. u.folder = map.dirs[p[1]]
      OBVIOUS
    <3> HIDE DEF u
    <3>b. task'.sending = task.sending \/ task'.sending = [task.sending EXCEPT ![p] = u]
      BY <1>a, <3>1 DEF Task
    <3>2. \A q \in Paths : \/ task'.sending[q].folder = task.sending[q].folder
                           \/ task'.sending[q].folder = map.dirs[q[1]]
      BY <1>a, <3>a, <3>b DEF Task
    <3> QED BY <2>1, <2>3, <3>2, Still
  <2> QED BY <1>10, <2>2, <2>3 DEF StatFile
<1>11. ASSUME NEW p \in Paths, MakeParent(p) PROVE TableTrue' /\ Current'
  <2>1. /\ Unused # {} /\ folders' = [folders EXCEPT ![Fresh] = p[1]]
        /\ map' = [map EXCEPT !.dirs[p[1]] = Fresh]
        /\ task' = [task EXCEPT !.sending[p].folder = Fresh]
        /\ map.dirs[p[1]] = None /\ UNCHANGED <<timers, files>>
    BY <1>0, <1>11 DEF MakeParent
  <2>2. \A q \in Paths : \/ task'.sending[q].folder = task.sending[q].folder
                         \/ q[1] = p[1] /\ task'.sending[q].folder = Fresh
    BY <1>a, <2>1 DEF Task
  <2>3. p[1] \in Dirs
    BY DEF Paths
  <2> QED BY <2>1, <2>2, <2>3, NewFolder
<1>12. ASSUME NEW p \in Paths, Send(p) PROVE TableTrue' /\ Current'
  <2> DEFINE f == task.sending[p].folder
  <2>1. f \in Ids /\ UNCHANGED <<timers, folders>>
    BY <1>a, <1>12 DEF Send, Task
  <2>2. \A q \in Paths : \/ task'.sending[q].folder = task.sending[q].folder
                         \/ task'.sending[q].folder = None
    <3>1. task' \in {[task EXCEPT !.sending[p] = NotSending[p]],
                     [task EXCEPT !.sending[p] = NotSending[p], !.calm = FALSE]}
      BY <1>12 DEF Send
    <3>2. NotSending[p].folder = None
      BY DEF NotSending
    <3> HIDE DEF f
    <3> QED BY <1>a, <3>1, <3>2 DEF Task
  <2>3. CASE DropFile(p)
    BY <2>1, <2>2, <2>3, Drop
  <2>4. CASE UNCHANGED <<map, files>>
    BY <2>1, <2>2, <2>4, Still
  <2>5. CASE /\ Same(f, p[2]) = {} => Unused # {}
             /\ files' = [files EXCEPT ![Target(f, p[2])] =
                            [folder |-> f, name |-> p[2], v |-> local.files[p]]]
             /\ map' = [map EXCEPT !.files[p] = [id |-> Target(f, p[2]), v |-> task.sending[p].v]]
    BY <2>1, <2>2, <2>5, Sent
  <2> QED BY <1>12, <2>3, <2>4, <2>5 DEF Send
<1>13. ASSUME NEW p \in Paths, RemoveFile(p) PROVE TableTrue' /\ Current'
  <2>1. DropFile(p) /\ UNCHANGED <<timers, folders>> /\ task' = [task EXCEPT !.drop = @ \ {p}]
    BY <1>13 DEF RemoveFile
  <2>2. task'.sending = task.sending
    BY <1>a, <2>1 DEF Task
  <2> QED BY <2>1, <2>2, Drop
<1>14. ASSUME Engine PROVE TableTrue' /\ Current'
  BY <1>5, <1>6, <1>7, <1>8, <1>9, <1>10, <1>11, <1>12, <1>13, <1>14 DEF Engine
<1>15. ASSUME NEW p \in Paths, Unfinished(p) PROVE FALSE
  BY <1>15 DEF Unfinished, Trouble, Clean
<1> QED
  BY <1>1, <1>2, <1>3, <1>4, <1>14, <1>15, TableUnheard DEF Next

\* What the table says of folders and files is true on the server in every behaviour,
\* however renames, deferred deletions, batches and full syncs interleave, unless one of
\* the causes that the property names has happened.
THEOREM MappingsCorrect == Spec => []MappingsSound
<1>1. Init => TableInv
  <2> SUFFICES ASSUME Init PROVE TableTrue /\ Current
    BY InitType DEF TableInv
  <2>1. PICK p \in Paths, i \in {1} :
          /\ map = [dirs |-> [d \in Dirs |-> IF d = p[1] THEN i ELSE None],
                    files |-> [q \in Paths |-> IF q = p THEN [id |-> i, v |-> 1] ELSE NoCopy]]
          /\ folders = [k \in Ids |-> IF k = i THEN p[1] ELSE None]
          /\ files = [k \in Ids |-> IF k = i THEN [folder |-> i, name |-> p[2], v |-> 1] ELSE NoRow]
    BY DEF Init
  <2>2. i \in Ids /\ p[1] \in Dirs
    BY SyncAssumption DEF Ids, Paths
  <2>3. TableTrue
    BY <2>1, <2>2 DEF TableTrue, NoCopy
  <2>4. Current
    BY DEF Init, Current, NoTask, NotSending
  <2> QED BY <2>3, <2>4
<1>2. TableInv /\ [Next]_vars => TableInv'
  BY TypeStep, TableStep, LostStays DEF TableInv, Clean
<1>3. TableInv => MappingsSound
  BY DEF TableInv, MappingsSound, Clean
<1> QED BY <1>1, <1>2, <1>3, PTL DEF Spec

--------------------------------------------------------------------------------
(* A full sync repairs what has gone wrong before it. *)

\* A step that leaves the task, the disk and the table alone, or starts no full sync.
LEMMA Untouched ==
  ASSUME Repairing, \/ task' = task /\ local' = local /\ map'.files = map.files
                    \/ task'.kind # "full"
  PROVE  Repairing'
  BY DEF Repairing, Covered, NoSending

\* A step of a full sync that has not been swept.
LEMMA Unswept ==
  ASSUME Repairing, task.kind = "full", ~task'.swept, UNCHANGED local,
         task'.drop = task.drop, task'.rmdir = task.rmdir, task'.scan = task.scan,
         task'.calm => /\ task.calm
                       /\ \A p \in Paths :
                            /\ local.files[p] # None /\ Covered(p) => Covered(p)'
                            /\ task.sending[p].v \in {None, local.files[p]}
                                 => task'.sending[p].v \in {None, local.files[p]}
  PROVE  Repairing'
  BY DEF Repairing

LEMMA RepairStep ==
  ASSUME TypeInv, Repairing, [Next]_vars
  PROVE  Repairing'
<1>0. /\ task \in Task /\ NoTask.kind = "idle" /\ map \in Mapping
      /\ local \in Tree /\ \A p \in Paths : p[1] \in Dirs
  BY DEF TypeInv, TypeOK, NoTask, Paths
<1>1. ASSUME User PROVE Repairing'
  <2>1. task' = [task EXCEPT !.calm = task = NoTask] /\ UNCHANGED map
    BY <1>1 DEF User, MakeDir, DeleteDir, RenameDir, DeleteFile, Write, Edit
  <2>2. CASE task = NoTask
    BY <1>0, <2>1, <2>2, Untouched DEF Task
  <2>3. CASE task # NoTask
    <3>1. /\ task'.kind = task.kind /\ task'.swept = task.swept /\ task'.dirs = task.dirs
          /\ task'.todo = task.todo /\ task'.sending = task.sending /\ task'.drop = task.drop
          /\ task'.rmdir = task.rmdir /\ task'.scan = task.scan /\ ~task'.calm
      BY <1>0, <2>1, <2>3 DEF Task
    <3> QED BY <3>1 DEF Repairing, NoSending
  <2> QED BY <2>2, <2>3
<1>2. ASSUME Watcher \/ Timers \/ SyncNow \/ Save \/ UNCHANGED vars PROVE Repairing'
  <2>1. UNCHANGED <<task, local, map>>
    BY <1>2 DEF Watcher, WatchDir, WatchFile, Timers, Debounce, GraceOver, SyncNow, Save, vars
  <2> QED BY <2>1, Untouched
<1>3. ASSUME Restart \/ Finish \/ StartBatch \/ StartRemove PROVE Repairing'
  <2>1. task'.kind # "full"
    BY <1>0, <1>3 DEF Restart, Finish, StartBatch, StartRemove, NoTask
  <2> QED BY <2>1, Untouched
<1>4. ASSUME StartFull PROVE Repairing'
  <2>1. /\ task'.swept = FALSE /\ task'.drop = {} /\ task'.rmdir = {} /\ task'.scan = local
        /\ task'.todo = {p \in Paths : local.files[p] # None}
        /\ task'.sending = NotSending /\ UNCHANGED local
    BY <1>4 DEF StartFull, NoTask
  <2> QED BY <2>1 DEF Repairing, Covered, NotSending
<1>5. ASSUME Sweep PROVE Repairing'
  <2>1. /\ Uploaded /\ task'.dirs = task.dirs /\ task'.todo = task.todo
        /\ task'.sending = task.sending /\ task'.scan = task.scan /\ task'.calm = task.calm
        /\ task.kind = "full" /\ UNCHANGED <<local, map>>
    BY <1>0, <1>5 DEF Sweep, Rest, Task
  <2>2. \/ task'.drop = task.drop /\ task'.rmdir = task.rmdir
        \/ task'.drop = Stale.files /\ task'.rmdir = Stale.dirs
    BY <1>0, <1>5 DEF Sweep, Task
  <2> QED BY <2>1, <2>2 DEF Repairing, Covered, Uploaded, NoSending, Stale
<1>6. ASSUME NEW d \in Dirs, EnsureDir(d) \/ \E o \in Dirs : Rename(d, o) PROVE Repairing'
  <2>1. CASE task'.kind # "full"
    BY <2>1, Untouched
  <2>2. CASE task'.kind = "full"
    <3>1. EnsureDir(d) /\ task' = [task EXCEPT !.dirs = @ \ {d}, !.tried = FALSE] /\ d \in task.dirs
      <4>1. CASE EnsureDir(d)
        BY <1>0, <2>2, <4>1 DEF EnsureDir, NextDir
      <4>2. ASSUME NEW o \in Dirs, Rename(d, o) PROVE FALSE
        <5>1. task.kind = "batch" /\ task' \in {[task EXCEPT !.dirs = @ \ {d}],
                                                [task EXCEPT !.tried = TRUE]}
          BY <4>2 DEF Rename, MayRename
        <5> QED BY <1>0, <2>2, <5>1 DEF Task
      <4> QED BY <1>6, <4>1, <4>2
    <3>2. /\ task'.kind = task.kind /\ task'.swept = task.swept /\ task'.todo = task.todo
          /\ task'.sending = task.sending /\ task'.drop = task.drop /\ task'.rmdir = task.rmdir
          /\ task'.scan = task.scan /\ task'.calm = task.calm
      BY <1>0, <3>1 DEF Task
    <3>3. map'.files = map.files /\ UNCHANGED local
      <4>1. UNCHANGED map \/ (Unused # {} /\ map' = [map EXCEPT !.dirs[d] = Fresh])
        BY <3>1 DEF EnsureDir
      <4>2. UNCHANGED local
        BY <3>1 DEF EnsureDir, Rest
      <4> QED BY <1>0, <4>1, <4>2 DEF Mapping
    <3>4. ~task.swept
      BY <2>2, <3>1, <3>2 DEF Repairing
    <3> QED BY <2>2, <3>2, <3>3, <3>4, Unswept DEF Covered
  <2> QED BY <2>1, <2>2
<1>7. ASSUME NEW p \in Paths, StatFile(p) PROVE Repairing'
  <2> DEFINE u == [v |-> local.files[p], folder |-> map.dirs[p[1]]]
  <2>1. \/ /\ local.files[p] = None /\ DropFile(p) /\ task' = [task EXCEPT !.todo = @ \ {p}]
        \/ /\ map.files[p].v = local.files[p] /\ task' = [task EXCEPT !.todo = @ \ {p}]
           /\ UNCHANGED map
        \/ task' = [task EXCEPT !.todo = @ \ {p}, !.sending[p] = u] /\ UNCHANGED map
    BY <1>7 DEF StatFile
  <2>2. u.v = local.files[p] /\ UNCHANGED local
    BY <1>7 DEF StatFile, Rest
  <2> HIDE DEF u
  <2>3. /\ task'.kind = task.kind /\ task'.swept = task.swept /\ task'.todo = task.todo \ {p}
        /\ task'.drop = task.drop /\ task'.rmdir = task.rmdir
        /\ task'.scan = task.scan /\ task'.calm = task.calm
    BY <1>0, <2>1 DEF Task
  <2>4. CASE task.kind = "full"
    <3>1. ~task.swept
      BY <1>7, <2>4 DEF StatFile, Repairing
    <3>a. /\ task.sending = [q \in Paths |-> task.sending[q]]
          /\ map.files = [q \in Paths |-> map.files[q]]
      BY <1>0 DEF Task, Mapping
    <3>b. \/ /\ local.files[p] = None /\ map'.files = [map.files EXCEPT ![p] = NoCopy]
             /\ task'.sending = task.sending
          \/ /\ map.files[p].v = local.files[p] /\ map' = map
             /\ task'.sending = task.sending
          \/ task'.sending = [task.sending EXCEPT ![p] = u] /\ map' = map
      <4>1. ASSUME DropFile(p) PROVE map'.files = [map.files EXCEPT ![p] = NoCopy]
        BY <4>1, DropType
      <4>2. ASSUME task' = [task EXCEPT !.todo = @ \ {p}] PROVE task'.sending = task.sending
        BY <1>0, <4>2 DEF Task
      <4>3. ASSUME task' = [task EXCEPT !.todo = @ \ {p}, !.sending[p] = u]
            PROVE  task'.sending = [task.sending EXCEPT ![p] = u]
        BY <1>0, <4>3 DEF Task
      <4> QED BY <2>1, <4>1, <4>2, <4>3
    <3>2. \A q \in Paths : q # p => task'.sending[q] = task.sending[q]
                                    /\ map'.files[q] = map.files[q]
      BY <3>a, <3>b
    <3>3. \/ local.files[p] = None /\ task'.sending = task.sending
          \/ map'.files[p].v = local.files[p] /\ task'.sending = task.sending
          \/ task'.sending[p].v = local.files[p]
      BY <2>2, <3>a, <3>b
    <3> QED BY <2>2, <2>3, <2>4, <3>1, <3>2, <3>3, Unswept DEF Covered
  <2> QED BY <2>3, <2>4, Untouched
<1>8. ASSUME NEW p \in Paths, MakeParent(p) PROVE Repairing'
  <2>1. \/ /\ task' = [task EXCEPT !.sending[p].folder = Fresh]
           /\ Unused # {} /\ map' = [map EXCEPT !.dirs[p[1]] = Fresh]
        \/ task' = [task EXCEPT !.sending[p].v = None, !.calm = FALSE]
    BY <1>8 DEF MakeParent
  <2>2. /\ task'.kind = task.kind /\ task'.swept = task.swept /\ task'.todo = task.todo
        /\ task'.drop = task.drop /\ task'.rmdir = task.rmdir /\ task'.scan = task.scan
        /\ task'.calm => task.calm /\ \A q \in Paths : task'.sending[q].v = task.sending[q].v
    <3>1. CASE task' = [task EXCEPT !.sending[p].folder = Fresh]
      <4>1. task'.sending = [task.sending EXCEPT ![p].folder = Fresh]
        BY <1>0, <3>1 DEF Task
      <4>2. \A q \in Paths : task'.sending[q].v = task.sending[q].v
        BY <1>0, <4>1 DEF Task
      <4> QED BY <1>0, <3>1, <4>2 DEF Task
    <3>2. CASE task' = [task EXCEPT !.sending[p].v = None, !.calm = FALSE]
      BY <1>0, <3>2 DEF Task
    <3> QED BY <2>1, <3>1, <3>2
  <2>3. task'.calm => map'.files = map.files
    <3>1. CASE map' = [map EXCEPT !.dirs[p[1]] = Fresh]
      BY <1>0, <3>1 DEF Mapping
    <3>2. CASE task' = [task EXCEPT !.sending[p].v = None, !.calm = FALSE]
      BY <1>0, <3>2 DEF Task
    <3> QED BY <2>1, <3>1, <3>2
  <2>4. CASE task.kind = "full"
    <3>1. ~task.swept /\ UNCHANGED local
      BY <1>8, <2>4 DEF MakeParent, Repairing, NoSending, NotSending, Rest
    <3> QED BY <2>2, <2>3, <2>4, <3>1, Unswept DEF Covered
  <2> QED BY <2>2, <2>4, Untouched
<1>9. ASSUME NEW p \in Paths, Send(p) PROVE Repairing'
  <2> DEFINE s == NotSending[p]
             c == [id |-> Target(task.sending[p].folder, p[2]), v |-> task.sending[p].v]
  <2>1. \/ local.files[p] = None /\ DropFile(p) /\ task' = [task EXCEPT !.sending[p] = s]
        \/ map' = [map EXCEPT !.files[p] = c] /\ task' = [task EXCEPT !.sending[p] = s]
        \/ task' = [task EXCEPT !.sending[p] = s, !.calm = FALSE]
    BY <1>9 DEF Send
  <2>2. s.v = None /\ c.v = task.sending[p].v /\ UNCHANGED local
        /\ task.sending[p].v # None
    BY <1>9 DEF NotSending, Send, Rest, TypeInv, Sends
  <2> HIDE DEF s, c
  <2>3. /\ task'.kind = task.kind /\ task'.swept = task.swept /\ task'.todo = task.todo
        /\ task'.drop = task.drop /\ task'.rmdir = task.rmdir /\ task'.scan = task.scan
        /\ task'.sending = [task.sending EXCEPT ![p] = s]
        /\ task'.calm => task.calm
    BY <1>0, <2>1 DEF Task
  <2>4. CASE task.kind = "full"
    <3>1. ~task.swept
      BY <1>9, <2>2, <2>4 DEF Repairing, NoSending, NotSending
    <3>2. task'.calm => /\ \A q \in Paths : q # p => map'.files[q] = map.files[q]
                        /\ local.files[p] # None => map'.files[p].v = task.sending[p].v
      <4>1. CASE local.files[p] = None /\ DropFile(p)
        <5>1. map'.files = [map.files EXCEPT ![p] = NoCopy] /\ map.files \in [Paths -> Copy]
          BY <1>0, <4>1, DropType DEF Mapping
        <5> QED BY <4>1, <5>1
      <4>2. CASE map' = [map EXCEPT !.files[p] = c]
        BY <1>0, <2>2, <4>2 DEF Mapping
      <4>3. CASE task' = [task EXCEPT !.sending[p] = s, !.calm = FALSE]
        BY <1>0, <4>3 DEF Task
      <4> QED BY <2>1, <4>1, <4>2, <4>3
    <3>3. \A q \in Paths : task'.sending[q] = IF q = p THEN s ELSE task.sending[q]
      BY <1>0, <2>3 DEF Task
    <3>4. task.calm => task.sending[p].v = local.files[p]
      BY <2>2, <2>4 DEF Repairing
    <3> QED BY <2>2, <2>3, <2>4, <3>1, <3>2, <3>3, <3>4, Unswept DEF Covered
  <2> QED BY <2>3, <2>4, Untouched
<1>10. ASSUME NEW p \in Paths, RemoveFile(p) PROVE Repairing'
  <2>1. /\ DropFile(p) /\ task' = [task EXCEPT !.drop = @ \ {p}] /\ UNCHANGED local
        /\ p \in task.drop
    BY <1>10 DEF RemoveFile, Rest
  <2>2. /\ task'.kind = task.kind /\ task'.swept = task.swept /\ task'.dirs = task.dirs
        /\ task'.todo = task.todo /\ task'.sending = task.sending
        /\ task'.drop = task.drop \ {p} /\ task'.rmdir = task.rmdir
        /\ task'.scan = task.scan /\ task'.calm = task.calm
    BY <1>0, <2>1 DEF Task
  <2>3. \A q \in Paths : q # p => map'.files[q] = map.files[q]
    BY <1>0, <2>1, DropType DEF Mapping
  <2> QED BY <2>1, <2>2, <2>3 DEF Repairing, Covered, NoSending
<1>11. ASSUME NEW d \in Dirs, RemoveDir(d) PROVE Repairing'
  <2>1. /\ task' = [task EXCEPT !.rmdir = @ \ {d}] /\ UNCHANGED local /\ d \in task.rmdir
        /\ map'.files = [p \in Paths |-> IF p[1] = d THEN NoCopy ELSE map.files[p]]
    BY <1>11 DEF RemoveDir, Rest
  <2>2. /\ task'.kind = task.kind /\ task'.swept = task.swept /\ task'.dirs = task.dirs
        /\ task'.todo = task.todo /\ task'.sending = task.sending
        /\ task'.drop = task.drop /\ task'.rmdir = task.rmdir \ {d}
        /\ task'.scan = task.scan /\ task'.calm = task.calm
    BY <1>0, <2>1 DEF Task
  <2>3. task.kind = "full" /\ task.calm
          => \A p \in Paths : p[1] = d => local.files[p] = None
    BY <2>1 DEF Repairing, TypeInv, Rooted
  <2> QED BY <2>1, <2>2, <2>3 DEF Repairing, Covered, NoSending
<1>12. ASSUME Unheard PROVE Repairing'
  <2>1. UNCHANGED <<local, map>>
    BY <1>12, UnheardTask DEF Rest
  <2>2. task.sending = NotSending => task'.sending = NotSending
    <3>1. ASSUME task.sending = NotSending PROVE \A q \in Paths : task'.sending[q] = NotSending[q]
      BY <1>12, <3>1, UnheardTask
    <3>2. /\ task'.sending = [q \in Paths |-> task'.sending[q]]
          /\ NotSending = [q \in Paths |-> NotSending[q]]
      BY <1>12, UnheardTask DEF Task, NotSending
    <3> QED BY <3>1, <3>2
  <2>3. task.todo = {} => task'.todo = {}
    BY <1>12, UnheardTask
  <2>4. /\ task'.kind = task.kind /\ task'.dirs = task.dirs /\ task'.drop = task.drop
        /\ task'.rmdir = task.rmdir /\ task'.scan = task.scan /\ task'.swept = task.swept
        /\ task'.calm => task.calm /\ task'.todo = task.todo /\ task'.sending = task.sending
    BY <1>12, UnheardTask
  <2> QED BY <2>1, <2>2, <2>3, <2>4 DEF Repairing, Covered, NoSending
<1>13. ASSUME NEW p \in Paths, Unfinished(p) PROVE Repairing'
  <2> DEFINE s == NotSending[p]
  <2>1. /\ task' = [task EXCEPT !.sending[p] = s, !.calm = FALSE] /\ UNCHANGED local
        /\ task.sending[p].folder # None
    BY <1>13 DEF Unfinished, Rest
  <2>2. task'.sending = [task.sending EXCEPT ![p] = s]
    BY <1>0, <2>1 DEF Task
  <2> HIDE DEF s
  <2>3. /\ task'.kind = task.kind /\ task'.swept = task.swept /\ task'.drop = task.drop
        /\ task'.rmdir = task.rmdir /\ task'.scan = task.scan /\ ~task'.calm
    BY <1>0, <2>1 DEF Task
  <2>4. ~NoSending
    BY <2>1 DEF NoSending, NotSending
  <2>5. CASE task.kind = "full"
    <3>1. ~task.swept
      BY <2>4, <2>5 DEF Repairing
    <3> QED BY <2>1, <2>3, <2>5, <3>1, Unswept
  <2> QED BY <2>3, <2>5, Untouched
<1> QED
  BY <1>1, <1>2, <1>3, <1>4, <1>5, <1>6, <1>7, <1>8, <1>9, <1>10, <1>11, <1>12, <1>13
     DEF Next, Engine

\* A file that the table has with its version, and the table true, is on the server
\* unless the content that was sent is not the one of the signature.
LEMMA TrueEntry ==
  ASSUME TypeInv, TableTrue, NEW p \in Paths, local.files[p] # None,
         map.files[p].v = local.files[p]
  PROVE  OnServer(p) \/ Mistaken(p)
<1> DEFINE i == map.files[p].id
<1>1. i \in Ids /\ i # None
  BY DEF TypeInv, TypeOK, Mapping, Copy, Whole
<1>2. files[i].name = p[2] /\ files[i].folder = map.dirs[p[1]] /\ p[1] \in Dirs
  BY <1>1 DEF TableTrue, Paths
<1>3. map.dirs[p[1]] # None
  BY <1>1, OneEntry
<1>4. folders[files[i].folder] = p[1]
  BY <1>2, <1>3 DEF TableTrue
<1> QED BY <1>1, <1>2, <1>3, <1>4 DEF OnServer, Mistaken

\* When a full sync that neither an edit nor a failed request has disturbed ends, and the
\* table is true, every local file is on the server as it is, whatever failed or was lost
\* before it; all but files that the table mistakes for others.
THEOREM RepairCorrect == Spec => FullSyncRepairs
<1>1. Init => RepairInv
  <2> SUFFICES ASSUME Init PROVE Repairing
    BY InitType DEF RepairInv
  <2> QED BY DEF Init, NoTask, Repairing
<1>2. RepairInv /\ [Next]_vars => RepairInv'
  BY TypeStep, RepairStep DEF RepairInv
<1>3. RepairInv /\ [Next]_vars =>
        [/\ task.kind = "full" /\ task.calm /\ task' = NoTask /\ map' = map /\ seen' = seen
         /\ task.swept /\ TableTrue
         => \A p \in Paths : local.files[p] # None => OnServer(p) \/ Mistaken(p)]_vars
  <2> SUFFICES ASSUME RepairInv, task.kind = "full", task.calm, task.swept, TableTrue,
                      NEW p \in Paths, local.files[p] # None
               PROVE  OnServer(p) \/ Mistaken(p)
    OBVIOUS
  <2>1. map.files[p].v = local.files[p]
    BY DEF RepairInv, Repairing, Covered, NoSending, NotSending
  <2> QED BY <2>1, TrueEntry DEF RepairInv
<1> QED BY <1>1, <1>2, <1>3, PTL DEF Spec, FullSyncRepairs

--------------------------------------------------------------------------------
(* An idle client has mirrored the tree. *)

\* The queue has a batch with this event of the path at position k.
DirAt(k, d, e)  == queue[k].kind = "batch" /\ queue[k].changes.dirs[d] = e
FileAt(k, p, e) == queue[k].kind = "batch" /\ queue[k].changes.files[p] = e
\* The event is reported, and comes after position k.
DirDue(k, d, e)  == \/ pending.dirs[d] = e
                    \/ \E j \in 1 .. Len(queue) : k < j /\ DirAt(j, d, e)
FileDue(k, p, e) == \/ pending.files[p] = e
                    \/ \E j \in 1 .. Len(queue) : k < j /\ FileAt(j, p, e)
FullDue      == \E j \in 1 .. Len(queue) : queue[j].kind = "full"
RemoveDue(d) == \E j \in 1 .. Len(queue) : queue[j].kind = "remove" /\ queue[j].dir = d

\* What the watcher and the user agree on.
Known(d)   == d \in seen.dirs /\ d \in local.dirs
Gone(d)    == d \notin seen.dirs /\ d \notin local.dirs
Settled(p) == local.files[p] # None /\ seen.files[p] = local.files[p]

\* The table and the server have the file as it is.
Right(p) == map.files[p].v = local.files[p] /\ files[map.files[p].id].v = local.files[p]

\* Something will remove the entry of a folder, or of a file.
DirOwed(d) ==
  \/ DirDue(0, d, "delete") \/ RemoveDue(d) \/ FullDue
  \/ timers[d] # NoTimer /\ timers[d].id = map.dirs[d]
  \/ d \in task.rmdir
  \/ task.kind = "full" /\ ~task.swept /\ d \notin task.scan.dirs
FileOwed(p) ==
  \/ FileDue(0, p, "delete") \/ p \in task.drop
  \/ p[1] \in seen.dirs /\ p[1] \notin local.dirs
  \/ DirOwed(p[1])
  \/ task.kind = "full" /\ ~task.swept /\ task.scan.files[p] = None

\* Something will make a folder that is there, or send a file.
DirsMade == \A d \in Dirs : Known(d) =>
  map.dirs[d] # None \/ DirDue(0, d, "upsert") \/ FullDue \/ d \in task.dirs
FilesMade == \A p \in Paths : Settled(p) =>
  \/ Right(p) \/ FileDue(0, p, "upsert") \/ FullDue
  \/ p \in task.todo \/ task.sending[p].v = local.files[p]
  \/ p[1] \in task.rmdir
\* Something will remove the entries of what is gone.
DirsRemoved  == \A d \in Dirs : Gone(d) /\ map.dirs[d] # None => DirOwed(d)
FilesRemoved == \A p \in Paths :
  local.files[p] = None /\ seen.files[p] = None /\ map.files[p].id # None => FileOwed(p)

\* The last report of a path is the one that counts: if a folder is gone, a deletion
\* comes after all that could make it again, and if a file has been seen, an upsert
\* after all that would remove it.
DirsLast == \A d \in Dirs : Gone(d) =>
  /\ \A k \in 1 .. Len(queue) : DirAt(k, d, "upsert") => DirDue(k, d, "delete")
  /\ d \in task.dirs \/ (\E p \in Paths : p[1] = d /\ task.sending[p].v # None)
       => DirDue(0, d, "delete")
FilesLast == \A p \in Paths : seen.files[p] # None =>
  /\ \A k \in 1 .. Len(queue) : FileAt(k, p, "delete") => FileDue(k, p, "upsert")
  /\ task.kind = "batch" /\ p \in task.drop => FileDue(0, p, "upsert")

\* With a new folder, or after it, come the files in it.
WithFiles == \A p \in Paths : seen.files[p] # None =>
  /\ \A k \in 1 .. Len(queue) : DirAt(k, p[1], "upsert") => FileDue(k - 1, p, "upsert")
  /\ pending.dirs[p[1]] = "upsert" => pending.files[p] = "upsert"
  /\ task.kind = "batch" /\ p[1] \in task.dirs => p \in task.todo \/ FileDue(0, p, "upsert")

\* A file that has changed since the scan, or since its signature was read, has been
\* reported again.
Rescanned == task.kind = "full" =>
  \A p \in Paths : Settled(p) /\ task.scan.files[p] = None => FileDue(0, p, "upsert")
Resent == \A p \in Paths :
  Settled(p) /\ task.sending[p].v \notin {None, local.files[p]} => FileDue(0, p, "upsert")

\* Reports are of what has been seen.
Reported ==
  /\ \A p \in Paths : seen.files[p] # None => p[1] \in seen.dirs
  /\ \A d \in Dirs : pending.dirs[d] = "upsert" => d \in seen.dirs
  /\ \A p \in Paths : pending.files[p] = "delete" => seen.files[p] = None

\* Files are removed before their folder; before its clean-up a full sync removes nothing.
Tidy ==
  /\ task.kind = "remove" => \A p \in task.drop : p[1] \in task.rmdir
  /\ task.kind = "full" /\ ~task.swept => task.drop = {} /\ task.rmdir = {}

\* The table has every row of the server.
RowsMapped ==
  /\ \A i \in Ids : folders[i] # None => map.dirs[folders[i]] = i
  /\ \A i \in Ids : files[i] # NoRow =>
       /\ files[i].folder # None /\ folders[files[i].folder] # None /\ files[i].name # None
       /\ map.files[<<folders[files[i].folder], files[i].name>>].id = i

Owing == /\ DirsMade /\ DirsRemoved /\ DirsLast
         /\ FilesMade /\ FilesRemoved /\ FilesLast
         /\ WithFiles /\ Rescanned /\ Resent /\ Reported /\ Tidy

MirrorInv == TableInv /\ RepairInv /\ (lost = {} => Owing /\ RowsMapped)

--------------------------------------------------------------------------------
(* The queue. *)

\* A step that leaves the queue and the batch alone.
LEMMA SameDues ==
  ASSUME UNCHANGED <<queue, pending>>
  PROVE  /\ FullDue' <=> FullDue
         /\ \A d \in Dirs : RemoveDue(d)' <=> RemoveDue(d)
         /\ \A k \in Nat, d \in Dirs, e \in Event : /\ DirAt(k, d, e)' <=> DirAt(k, d, e)
                                                   /\ DirDue(k, d, e)' <=> DirDue(k, d, e)
         /\ \A k \in Nat, p \in Paths, e \in Event : /\ FileAt(k, p, e)' <=> FileAt(k, p, e)
                                                    /\ FileDue(k, p, e)' <=> FileDue(k, p, e)
  BY DEF FullDue, RemoveDue, DirAt, DirDue, FileAt, FileDue

\* A task that is no batch joins the queue.
LEMMA AppendedDues ==
  ASSUME queue \in Seq(Waiting), NEW x, queue' = Append(queue, x), x.kind # "batch",
         UNCHANGED pending
  PROVE  /\ Len(queue') = Len(queue) + 1 /\ queue'[Len(queue) + 1] = x
         /\ FullDue => FullDue'
         /\ \A d \in Dirs : RemoveDue(d) => RemoveDue(d)'
         /\ x.kind = "remove" => RemoveDue(x.dir)'
         /\ \A k \in 1 .. Len(queue'), d \in Dirs, e \in Event :
              DirAt(k, d, e)' => k \in 1 .. Len(queue) /\ DirAt(k, d, e)
         /\ \A k \in Nat, d \in Dirs, e \in Event : DirDue(k, d, e) <=> DirDue(k, d, e)'
         /\ \A k \in 1 .. Len(queue'), p \in Paths, e \in Event :
              FileAt(k, p, e)' => k \in 1 .. Len(queue) /\ FileAt(k, p, e)
         /\ \A k \in Nat, p \in Paths, e \in Event : FileDue(k, p, e) <=> FileDue(k, p, e)'
<1>1. /\ Len(queue) \in Nat /\ Len(queue') = Len(queue) + 1
      /\ \A k \in 1 .. Len(queue) : queue'[k] = queue[k]
      /\ queue'[Len(queue) + 1] = x
      /\ \A k \in 1 .. Len(queue') : k \in 1 .. Len(queue) \/ k = Len(queue) + 1
  OBVIOUS
<1>2. /\ FullDue => FullDue'
      /\ \A d \in Dirs : RemoveDue(d) => RemoveDue(d)'
      /\ x.kind = "remove" => RemoveDue(x.dir)'
  BY <1>1 DEF FullDue, RemoveDue
<1>3. /\ \A k \in 1 .. Len(queue'), d \in Dirs, e \in Event :
           DirAt(k, d, e)' => k \in 1 .. Len(queue) /\ DirAt(k, d, e)
      /\ \A k \in Nat, d \in Dirs, e \in Event : DirDue(k, d, e) <=> DirDue(k, d, e)'
  BY <1>1 DEF DirAt, DirDue
<1>4. /\ \A k \in 1 .. Len(queue'), p \in Paths, e \in Event :
           FileAt(k, p, e)' => k \in 1 .. Len(queue) /\ FileAt(k, p, e)
      /\ \A k \in Nat, p \in Paths, e \in Event : FileDue(k, p, e) <=> FileDue(k, p, e)'
  BY <1>1 DEF FileAt, FileDue
<1> QED BY <1>1, <1>2, <1>3, <1>4

\* The batch joins the queue.
LEMMA DebouncedDues ==
  ASSUME queue \in Seq(Waiting), Debounce
  PROVE  /\ FullDue => FullDue'
         /\ \A d \in Dirs : RemoveDue(d) => RemoveDue(d)'
         /\ \A k \in 1 .. Len(queue'), d \in Dirs, e \in Event :
              DirAt(k, d, e)' => \/ k \in 1 .. Len(queue) /\ DirAt(k, d, e)
                                 \/ k = Len(queue) + 1 /\ pending.dirs[d] = e
         /\ \A k \in 0 .. Len(queue), d \in Dirs, e \in Event : DirDue(k, d, e) => DirDue(k, d, e)'
         /\ \A k \in 1 .. Len(queue'), p \in Paths, e \in Event :
              FileAt(k, p, e)' => \/ k \in 1 .. Len(queue) /\ FileAt(k, p, e)
                                  \/ k = Len(queue) + 1 /\ pending.files[p] = e
         /\ \A k \in 0 .. Len(queue), p \in Paths, e \in Event : FileDue(k, p, e) => FileDue(k, p, e)'
<1> DEFINE x == [kind |-> "batch", changes |-> pending]
<1>1. /\ Len(queue) \in Nat /\ Len(queue') = Len(queue) + 1
      /\ \A k \in 1 .. Len(queue) : queue'[k] = queue[k]
      /\ queue'[Len(queue) + 1] = x
      /\ \A k \in 1 .. Len(queue') : k \in 1 .. Len(queue) \/ k = Len(queue) + 1
  BY DEF Debounce
<1>2. x.kind = "batch" /\ x.changes = pending
  OBVIOUS
<1> HIDE DEF x
<1>3. /\ FullDue => FullDue'
      /\ \A d \in Dirs : RemoveDue(d) => RemoveDue(d)'
  BY <1>1 DEF FullDue, RemoveDue
<1>4. /\ \A k \in 1 .. Len(queue'), d \in Dirs, e \in Event :
           DirAt(k, d, e)' => \/ k \in 1 .. Len(queue) /\ DirAt(k, d, e)
                              \/ k = Len(queue) + 1 /\ pending.dirs[d] = e
      /\ \A k \in 0 .. Len(queue), d \in Dirs, e \in Event : DirDue(k, d, e) => DirDue(k, d, e)'
  BY <1>1, <1>2 DEF DirAt, DirDue
<1>5. /\ \A k \in 1 .. Len(queue'), p \in Paths, e \in Event :
           FileAt(k, p, e)' => \/ k \in 1 .. Len(queue) /\ FileAt(k, p, e)
                               \/ k = Len(queue) + 1 /\ pending.files[p] = e
      /\ \A k \in 0 .. Len(queue), p \in Paths, e \in Event : FileDue(k, p, e) => FileDue(k, p, e)'
  BY <1>1, <1>2 DEF FileAt, FileDue
<1> QED BY <1>3, <1>4, <1>5

\* The first task leaves the queue, and removals may join it.
LEMMA PoppedDues ==
  ASSUME queue \in Seq(Waiting), queue # <<>>, NEW r \in Seq(Waiting),
         \A k \in 1 .. Len(r) : r[k].kind = "remove",
         queue' = Tail(queue) \o r, UNCHANGED pending
  PROVE  /\ 1 \in 1 .. Len(queue) /\ Head(queue) = queue[1]
         /\ FullDue => queue[1].kind = "full" \/ FullDue'
         /\ \A d \in Dirs : RemoveDue(d) => \/ queue[1].kind = "remove" /\ queue[1].dir = d
                                            \/ RemoveDue(d)'
         /\ \A k \in 1 .. Len(r) : RemoveDue(r[k].dir)'
         /\ \A k \in 1 .. Len(queue'), d \in Dirs, e \in Event :
              DirAt(k, d, e)' => k + 1 \in 1 .. Len(queue) /\ DirAt(k + 1, d, e)
         /\ \A k \in Nat, d \in Dirs, e \in Event : DirDue(k + 1, d, e) => DirDue(k, d, e)'
         /\ \A d \in Dirs, e \in Event : DirDue(0, d, e) => DirAt(1, d, e) \/ DirDue(0, d, e)'
         /\ \A k \in 1 .. Len(queue'), p \in Paths, e \in Event :
              FileAt(k, p, e)' => k + 1 \in 1 .. Len(queue) /\ FileAt(k + 1, p, e)
         /\ \A k \in Nat, p \in Paths, e \in Event : FileDue(k + 1, p, e) => FileDue(k, p, e)'
         /\ \A p \in Paths, e \in Event : FileDue(0, p, e) => FileAt(1, p, e) \/ FileDue(0, p, e)'
<1> DEFINE n == Len(queue)
           t == Tail(queue)
<1>1. /\ n \in Nat /\ n >= 1 /\ Head(queue) = queue[1] /\ 1 \in 1 .. n
      /\ t \in Seq(Waiting) /\ Len(t) = n - 1 /\ \A k \in 1 .. n - 1 : t[k] = queue[k + 1]
  OBVIOUS
<1> HIDE DEF t
<1>2. /\ Len(r) \in Nat /\ Len(queue') = n - 1 + Len(r)
      /\ \A k \in 1 .. n - 1 : queue'[k] = queue[k + 1]
      /\ \A k \in 1 .. Len(r) : queue'[n - 1 + k] = r[k]
      /\ \A k \in 1 .. Len(queue') : \/ k \in 1 .. n - 1
                                     \/ k - (n - 1) \in 1 .. Len(r) /\ queue'[k] = r[k - (n - 1)]
  <2>1. queue' = t \o r /\ r \in Seq(Waiting) /\ t \in Seq(Waiting) /\ Len(t) = n - 1 /\ n \in Nat
    BY <1>1 DEF t
  <2>2. Len(queue') = Len(t) + Len(r) /\ Len(r) \in Nat
    BY <2>1
  <2>3. \A k \in 1 .. Len(t) + Len(r) : queue'[k] = IF k <= Len(t) THEN t[k] ELSE r[k - Len(t)]
    BY <2>1
  <2> HIDE DEF n
  <2> QED BY <1>1, <2>1, <2>2, <2>3
<1>3. \A j \in 1 .. n : j = 1 \/ (j - 1 \in 1 .. n - 1 /\ queue'[j - 1] = queue[j]
                                   /\ j - 1 \in 1 .. Len(queue'))
  BY <1>1, <1>2
<1>4. \A k \in 1 .. Len(queue') : queue'[k].kind = "remove" \/ (/\ k \in 1 .. n - 1 /\ k + 1 \in 1 .. n
                                                               /\ queue'[k] = queue[k + 1])
  BY <1>1, <1>2
<1> HIDE DEF n
<1>5. /\ FullDue => queue[1].kind = "full" \/ FullDue'
      /\ \A d \in Dirs : RemoveDue(d) => \/ queue[1].kind = "remove" /\ queue[1].dir = d
                                         \/ RemoveDue(d)'
  BY <1>3 DEF FullDue, RemoveDue, n
<1>6. \A k \in 1 .. Len(r) : RemoveDue(r[k].dir)'
  <2> SUFFICES ASSUME NEW k \in 1 .. Len(r) PROVE RemoveDue(r[k].dir)'
    OBVIOUS
  <2>1. n - 1 + k \in 1 .. Len(queue') /\ queue'[n - 1 + k] = r[k]
    BY <1>1, <1>2
  <2> QED BY <2>1 DEF RemoveDue
<1>7. /\ \A k \in 1 .. Len(queue'), d \in Dirs, e \in Event :
           DirAt(k, d, e)' => k + 1 \in 1 .. n /\ DirAt(k + 1, d, e)
      /\ \A k \in Nat, d \in Dirs, e \in Event : DirDue(k + 1, d, e) => DirDue(k, d, e)'
      /\ \A d \in Dirs, e \in Event : DirDue(0, d, e) => DirAt(1, d, e) \/ DirDue(0, d, e)'
  <2>1. \A k \in 1 .. Len(queue'), d \in Dirs, e \in Event :
           DirAt(k, d, e)' => k + 1 \in 1 .. n /\ DirAt(k + 1, d, e)
    BY <1>4 DEF DirAt
  <2>2. \A j \in 1 .. n, d \in Dirs, e \in Event :
           DirAt(j, d, e) => j = 1 \/ (j - 1 \in 1 .. Len(queue') /\ DirAt(j - 1, d, e)')
    BY <1>3 DEF DirAt
  <2>3. \A k \in Nat, d \in Dirs, e \in Event : DirDue(k + 1, d, e) => DirDue(k, d, e)'
    BY <2>2, <1>1 DEF DirDue, n
  <2>4. \A d \in Dirs, e \in Event : DirDue(0, d, e) => DirAt(1, d, e) \/ DirDue(0, d, e)'
    BY <2>2, <1>1 DEF DirDue, n
  <2> QED BY <2>1, <2>3, <2>4
<1>8. /\ \A k \in 1 .. Len(queue'), p \in Paths, e \in Event :
           FileAt(k, p, e)' => k + 1 \in 1 .. n /\ FileAt(k + 1, p, e)
      /\ \A k \in Nat, p \in Paths, e \in Event : FileDue(k + 1, p, e) => FileDue(k, p, e)'
      /\ \A p \in Paths, e \in Event : FileDue(0, p, e) => FileAt(1, p, e) \/ FileDue(0, p, e)'
  <2>1. \A k \in 1 .. Len(queue'), p \in Paths, e \in Event :
           FileAt(k, p, e)' => k + 1 \in 1 .. n /\ FileAt(k + 1, p, e)
    BY <1>4 DEF FileAt
  <2>2. \A j \in 1 .. n, p \in Paths, e \in Event :
           FileAt(j, p, e) => j = 1 \/ (j - 1 \in 1 .. Len(queue') /\ FileAt(j - 1, p, e)')
    BY <1>3 DEF FileAt
  <2>3. \A k \in Nat, p \in Paths, e \in Event : FileDue(k + 1, p, e) => FileDue(k, p, e)'
    BY <2>2, <1>1 DEF FileDue, n
  <2>4. \A p \in Paths, e \in Event : FileDue(0, p, e) => FileAt(1, p, e) \/ FileDue(0, p, e)'
    BY <2>2, <1>1 DEF FileDue, n
  <2> QED BY <2>1, <2>3, <2>4
<1> QED BY <1>1, <1>5, <1>6, <1>7, <1>8 DEF n

\* Every folder of S is removed by one of its removals.
LEMMA RemovesAll ==
  ASSUME NEW S \in SUBSET Dirs, NEW r \in Removals(S)
  PROVE  /\ \A k \in 1 .. Len(r) : r[k].kind = "remove"
         /\ \A d \in S : \E k \in 1 .. Len(r) : r[k].dir = d
<1> DEFINE n == Cardinality(S)
           f == [k \in 1 .. n |-> r[k].dir]
<1>1. IsFiniteSet(S) /\ n \in Nat
  BY SyncAssumption, FS_Subset, FS_CardinalityType
<1>2. r \in [1 .. n -> [kind: {"remove"}, dir: S]] /\ r \in Seq(Waiting) /\ Len(r) = n
  <2>1. r \in [1 .. n -> [kind: {"remove"}, dir: S]]
    BY DEF Removals
  <2>2. r \in Seq(Waiting)
    BY RemovalsType
  <2> HIDE DEF n
  <2> QED BY <1>1, <2>1, <2>2
<1>3. \A j, k \in 1 .. n : j < k => r[j].dir < r[k].dir
  BY <1>2 DEF Removals
<1>4. f \in Injection(1 .. n, S)
  <2>1. f \in [1 .. n -> S]
    BY <1>2
  <2>2. ASSUME NEW j \in 1 .. n, NEW k \in 1 .. n, f[j] = f[k] PROVE j = k
    <3>1. r[j].dir = r[k].dir /\ r[j].dir \in Nat
      BY <1>2, <2>2, SyncAssumption
    <3>2. ~(j < k) /\ ~(k < j)
      BY <1>3, <3>1
    <3> QED BY <1>1, <3>2
  <2> QED BY <2>1, <2>2 DEF Injection, IsInjective
<1>5. IsFiniteSet(1 .. n) /\ Cardinality(1 .. n) = n
  BY <1>1, FS_Interval
<1>6. f \in Surjection(1 .. n, S)
  BY <1>1, <1>4, <1>5, FS_Injection
<1>7. \A d \in S : \E k \in 1 .. n : r[k].dir = d
  BY <1>6 DEF Surjection
<1> QED BY <1>2, <1>7

--------------------------------------------------------------------------------
(* What each step does to what is owed. *)

LEMMA Kinds ==
  /\ {"upsert", "delete", "none"} = Event
  /\ \A p \in Paths : p[1] \in Dirs
  /\ NoTask.kind = "idle" /\ NoTask.dirs = {} /\ NoTask.todo = {} /\ NoTask.drop = {}
  /\ NoTask.rmdir = {} /\ ~NoTask.swept
  /\ \A p \in Paths : NoTask.sending[p].v = None /\ NoTask.sending[p].folder = None
  BY DEF Event, Paths, NoTask, NotSending

\* The user changes nothing back that has not been reported.
LEMMA UserOwes ==
  ASSUME TypeInv, TypeInv', Owing, User, lost' = {}
  PROVE  Owing'
<1>1. Edit
  BY DEF User, MakeDir, DeleteDir, RenameDir, DeleteFile, Write
<1>2. /\ task'.kind = task.kind /\ task'.swept = task.swept /\ task'.dirs = task.dirs
      /\ task'.todo = task.todo /\ task'.sending = task.sending /\ task'.drop = task.drop
      /\ task'.rmdir = task.rmdir /\ task'.scan = task.scan
      /\ UNCHANGED <<seen, pending, queue, timers, map, folders, files>>
  BY <1>1 DEF Edit, TypeInv, TypeOK, Task, remote
<1>3. ~TakesBack
  BY <1>1 DEF Edit
<1>4. /\ \A d \in Dirs : (d \in local'.dirs) = (d \in local.dirs)
                         \/ (d \in local'.dirs) # (d \in seen.dirs)
      /\ \A p \in Paths : p[1] \in local'.dirs =>
           local'.files[p] = local.files[p] \/ local'.files[p] # seen.files[p]
  BY <1>3 DEF TakesBack
<1>5. \A p \in Paths : /\ local.files[p] # None => p[1] \in local.dirs
                       /\ local'.files[p] # None => p[1] \in local'.dirs
                       /\ p[1] \in Dirs
  BY Kinds DEF TypeInv, Rooted
<1>d. /\ FullDue' <=> FullDue
      /\ \A d \in Dirs : RemoveDue(d)' <=> RemoveDue(d)
      /\ \A k \in Nat, d \in Dirs, e \in Event : /\ DirAt(k, d, e)' <=> DirAt(k, d, e)
                                                /\ DirDue(k, d, e)' <=> DirDue(k, d, e)
      /\ \A k \in Nat, p \in Paths, e \in Event : /\ FileAt(k, p, e)' <=> FileAt(k, p, e)
                                                 /\ FileDue(k, p, e)' <=> FileDue(k, p, e)
  BY <1>2, SameDues
<1>6. /\ \A d \in Dirs : Known(d)' => Known(d)
      /\ \A d \in Dirs : Gone(d)' => Gone(d)
      /\ \A p \in Paths : Settled(p)' => Settled(p) /\ local'.files[p] = local.files[p]
  BY <1>2, <1>4, <1>5 DEF Known, Gone, Settled
<1>7. \A d \in Dirs : DirOwed(d)' <=> DirOwed(d)
  BY <1>2 DEF DirOwed, DirDue, DirAt, RemoveDue, FullDue
<1>8. DirsMade' /\ DirsRemoved'
  BY <1>2, <1>d, <1>6, <1>7, Kinds DEF Owing, DirsMade, DirsRemoved
<1>9. DirsLast'
  BY <1>2, <1>6 DEF Owing, DirsLast, DirAt, DirDue
<1>10. FilesMade'
  BY <1>2, <1>d, <1>6, Kinds DEF Owing, FilesMade, Right
<1>11. FilesRemoved'
  BY <1>2, <1>4, <1>5, <1>7, <1>d, Kinds DEF Owing, FilesRemoved, FileOwed
<1>12. FilesLast' /\ WithFiles'
  BY <1>2 DEF Owing, FilesLast, WithFiles, FileAt, FileDue, DirAt
<1>13. Rescanned' /\ Resent'
  BY <1>2, <1>d, <1>6, Kinds DEF Owing, Rescanned, Resent
<1>14. Reported' /\ Tidy'
  BY <1>2 DEF Owing, Reported, Tidy
<1> QED BY <1>8, <1>9, <1>10, <1>11, <1>12, <1>13, <1>14 DEF Owing

\* A folder that comes is to be made, and one that goes to be removed.
LEMMA WatchDirOwes ==
  ASSUME TypeInv, Owing, NEW d \in Dirs, WatchDir(d), lost' = {}
  PROVE  Owing'
<1>0. /\ UNCHANGED <<local, queue, task, timers, map, folders, files>>
      /\ pending \in Changes /\ seen \in Tree /\ Rooted
      /\ \A p \in Paths : p[1] \in Dirs
  BY DEF WatchDir, remote, TypeInv, TypeOK, Paths
<1>1. CASE d \in local.dirs \ seen.dirs
  <2>1. /\ seen'.dirs = seen.dirs \cup {d} /\ seen'.files = seen.files
        /\ pending'.dirs = [pending.dirs EXCEPT ![d] = "upsert"] /\ pending'.files = pending.files
        /\ pending.dirs[d] # "delete"
    BY <1>0, <1>1 DEF WatchDir, Changes, Tree
  <2>2. \A e \in Dirs : pending'.dirs[e] = IF e = d THEN "upsert" ELSE pending.dirs[e]
    BY <1>0, <2>1 DEF Changes
  <2>3. /\ FullDue' <=> FullDue
        /\ \A e \in Dirs : RemoveDue(e)' <=> RemoveDue(e)
        /\ \A k, e, x : DirAt(k, e, x)' <=> DirAt(k, e, x)
        /\ \A k, p, x : FileAt(k, p, x)' <=> FileAt(k, p, x)
        /\ \A k, p, x : FileDue(k, p, x)' <=> FileDue(k, p, x)
    BY <1>0, <2>1 DEF FullDue, RemoveDue, DirAt, FileAt, FileDue
  <2>4. /\ \A k, e, x : e \in Dirs /\ DirDue(k, e, x) => (e = d /\ x = "none") \/ DirDue(k, e, x)'
        /\ DirDue(0, d, "upsert")'
    <3>1. pending.dirs[d] \in {"none", "upsert"}
      BY <1>0, <2>1 DEF Changes, Event
    <3> QED BY <1>0, <2>2, <2>3, <3>1 DEF DirDue
  <2>5. /\ \A e \in Dirs : e # d => (Known(e)' <=> Known(e)) /\ (Gone(e)' <=> Gone(e))
        /\ ~Gone(d)'
        /\ \A p \in Paths : Settled(p)' <=> Settled(p)
    BY <1>0, <1>1, <2>1 DEF Known, Gone, Settled
  <2>6. \A e \in Dirs : DirOwed(e) => DirOwed(e)'
    BY <1>0, <2>3, <2>4 DEF DirOwed
  <2>7. DirsMade' /\ DirsRemoved'
    BY <1>0, <2>3, <2>4, <2>5, <2>6 DEF Owing, DirsMade, DirsRemoved
  <2>8. DirsLast'
    BY <1>0, <2>3, <2>4, <2>5 DEF Owing, DirsLast
  <2>9. FilesMade'
    BY <1>0, <2>3, <2>5 DEF Owing, FilesMade, Right
  <2>10. FilesRemoved'
    BY <1>0, <1>1, <2>1, <2>3, <2>6 DEF Owing, FilesRemoved, FileOwed
  <2>11. FilesLast'
    BY <1>0, <2>1, <2>3 DEF Owing, FilesLast
  <2>12. WithFiles'
    <3>1. \A p \in Paths : seen.files[p] # None => p[1] # d
      BY <1>1 DEF Owing, Reported
    <3> QED BY <1>0, <2>1, <2>2, <2>3, <3>1 DEF Owing, WithFiles
  <2>13. Rescanned' /\ Resent'
    BY <1>0, <2>3, <2>5 DEF Owing, Rescanned, Resent
  <2>14. Reported' /\ Tidy'
    BY <1>0, <2>1, <2>2 DEF Owing, Reported, Tidy
  <2> QED BY <2>7, <2>8, <2>9, <2>10, <2>11, <2>12, <2>13, <2>14 DEF Owing
<1>2. CASE d \in seen.dirs \ local.dirs
  <2>1. /\ seen'.dirs = seen.dirs \ {d}
        /\ seen'.files = [p \in Paths |-> IF p[1] = d THEN None ELSE seen.files[p]]
        /\ pending'.dirs = [pending.dirs EXCEPT ![d] = "delete"]
        /\ pending'.files = [p \in Paths |-> IF p[1] = d /\ seen.files[p] # None
                                               THEN "delete" ELSE pending.files[p]]
    BY <1>0, <1>2 DEF WatchDir, Changes, Tree
  <2>2. /\ \A e \in Dirs : pending'.dirs[e] = IF e = d THEN "delete" ELSE pending.dirs[e]
        /\ \A p \in Paths : /\ p[1] # d => /\ pending'.files[p] = pending.files[p]
                                          /\ seen'.files[p] = seen.files[p]
                            /\ p[1] = d => seen'.files[p] = None
                            /\ pending'.files[p] \in {pending.files[p], "delete"}
    BY <1>0, <2>1 DEF Changes
  <2>3. /\ FullDue' <=> FullDue
        /\ \A e \in Dirs : RemoveDue(e)' <=> RemoveDue(e)
        /\ \A k, e, x : DirAt(k, e, x)' <=> DirAt(k, e, x)
        /\ \A k, p, x : FileAt(k, p, x)' <=> FileAt(k, p, x)
    BY <1>0 DEF FullDue, RemoveDue, DirAt, FileAt
  <2>4. /\ \A k, e, x : e \in Dirs /\ DirDue(k, e, x) => (e = d /\ x # "delete") \/ DirDue(k, e, x)'
        /\ \A k : DirDue(k, d, "delete")'
        /\ \A k, p, x : p \in Paths /\ FileDue(k, p, x) /\ (p[1] # d \/ x = "delete") => FileDue(k, p, x)'
    BY <1>0, <2>2, <2>3 DEF DirDue, FileDue
  <2>5. /\ \A e \in Dirs : e # d => (Known(e)' <=> Known(e)) /\ (Gone(e)' <=> Gone(e))
        /\ ~Known(d)'
        /\ \A p \in Paths : Settled(p)' => Settled(p) /\ p[1] # d
    BY <1>0, <1>2, <2>1, <2>2 DEF Known, Gone, Settled
  <2>6. /\ \A e \in Dirs : DirOwed(e) => DirOwed(e)'
        /\ DirOwed(d)'
    BY <1>0, <2>3, <2>4 DEF DirOwed
  <2>7. DirsMade' /\ DirsRemoved'
    BY <1>0, <2>3, <2>4, <2>5, <2>6 DEF Owing, DirsMade, DirsRemoved
  <2>8. DirsLast'
    BY <1>0, <2>3, <2>4, <2>5 DEF Owing, DirsLast
  <2>9. FilesMade'
    BY <1>0, <2>3, <2>4, <2>5 DEF Owing, FilesMade, Right
  <2>10. FilesRemoved'
    <3> SUFFICES ASSUME NEW p \in Paths, local.files[p] = None, seen'.files[p] = None,
                        map.files[p].id # None
                 PROVE  FileOwed(p)'
      BY <1>0 DEF FilesRemoved
    <3>1. CASE p[1] = d
      BY <2>6, <3>1 DEF FileOwed
    <3>2. CASE p[1] # d
      <4>1. FileOwed(p) /\ (p[1] \in seen'.dirs <=> p[1] \in seen.dirs)
        BY <2>1, <2>2, <3>2 DEF Owing, FilesRemoved
      <4> QED BY <1>0, <2>4, <2>6, <3>2, <4>1 DEF FileOwed
    <3> QED BY <3>1, <3>2
  <2>11. FilesLast'
    BY <1>0, <2>2, <2>3, <2>4 DEF Owing, FilesLast
  <2>12. WithFiles'
    BY <1>0, <2>2, <2>3, <2>4 DEF Owing, WithFiles
  <2>13. Rescanned' /\ Resent'
    BY <1>0, <2>3, <2>4, <2>5 DEF Owing, Rescanned, Resent
  <2>14. Reported' /\ Tidy'
    BY <1>0, <2>1, <2>2 DEF Owing, Reported, Tidy
  <2> QED BY <2>7, <2>8, <2>9, <2>10, <2>11, <2>12, <2>13, <2>14 DEF Owing
<1> QED BY <1>1, <1>2 DEF WatchDir

\* A file that comes is to be sent, and one that goes to be removed.
LEMMA WatchFileOwes ==
  ASSUME TypeInv, Owing, NEW p \in Paths, WatchFile(p)
  PROVE  Owing'
<1>6. PICK e : e = IF local.files[p] = None THEN "delete" ELSE "upsert"
  OBVIOUS
<1>1. /\ UNCHANGED <<local, queue, task, timers, map, folders, files>>
      /\ pending'.dirs = pending.dirs /\ seen'.dirs = seen.dirs
      /\ pending'.files = [pending.files EXCEPT ![p] = e]
      /\ seen'.files = [seen.files EXCEPT ![p] = local.files[p]]
      /\ pending \in Changes /\ seen \in Tree /\ p[1] \in seen.dirs
  BY <1>6 DEF WatchFile, remote, TypeInv, TypeOK, Changes, Tree
<1>2. /\ seen'.files[p] = local.files[p] /\ pending'.files[p] = e
      /\ \A q \in Paths : q # p => /\ pending'.files[q] = pending.files[q]
                                   /\ seen'.files[q] = seen.files[q]
      /\ \A q \in Paths : q[1] \in Dirs
  BY <1>1 DEF Changes, Tree, Paths
<1>3. /\ FullDue' <=> FullDue
      /\ \A d \in Dirs : RemoveDue(d)' <=> RemoveDue(d)
      /\ \A k, d, x : DirAt(k, d, x)' <=> DirAt(k, d, x)
      /\ \A k, d, x : DirDue(k, d, x)' <=> DirDue(k, d, x)
      /\ \A k, q, x : FileAt(k, q, x)' <=> FileAt(k, q, x)
  BY <1>1 DEF FullDue, RemoveDue, DirAt, FileAt, DirDue
<1>4. /\ \A k, q, x : q \in Paths /\ FileDue(k, q, x) /\ (q # p \/ x = e) => FileDue(k, q, x)'
      /\ \A k : FileDue(k, p, e)'
  BY <1>1, <1>2, <1>3 DEF FileDue
<1>5. /\ \A d \in Dirs : (Known(d)' <=> Known(d)) /\ (Gone(d)' <=> Gone(d))
      /\ \A q \in Paths : Settled(q)' /\ q # p => Settled(q)
      /\ \A d \in Dirs : DirOwed(d) <=> DirOwed(d)'
  BY <1>1, <1>2, <1>3 DEF Known, Gone, Settled, DirOwed
<1>7. DirsMade' /\ DirsRemoved' /\ DirsLast'
  BY <1>1, <1>3, <1>5 DEF Owing, DirsMade, DirsRemoved, DirsLast
<1>8. FilesMade'
  BY <1>1, <1>2, <1>3, <1>4, <1>5, <1>6 DEF Owing, FilesMade, Right, Settled
<1>9. FilesRemoved'
  BY <1>1, <1>2, <1>3, <1>4, <1>5, <1>6 DEF Owing, FilesRemoved, FileOwed
<1>10. FilesLast'
  BY <1>1, <1>2, <1>3, <1>4, <1>6 DEF Owing, FilesLast
<1>11. WithFiles'
  BY <1>1, <1>2, <1>3, <1>4, <1>6 DEF Owing, WithFiles
<1>12. Rescanned' /\ Resent'
  BY <1>1, <1>2, <1>3, <1>4, <1>5, <1>6 DEF Owing, Rescanned, Resent, Settled
<1>13. Reported' /\ Tidy'
  BY <1>1, <1>2, <1>6 DEF Owing, Reported, Tidy
<1> QED BY <1>7, <1>8, <1>9, <1>10, <1>11, <1>12, <1>13 DEF Owing

\* The batch keeps its place after what is in the queue.
LEMMA DebounceOwes ==
  ASSUME TypeInv, Owing, Debounce
  PROVE  Owing'
<1>1. /\ UNCHANGED <<local, seen, task, timers, map, folders, files>>
      /\ queue \in Seq(Waiting) /\ Len(queue) \in Nat
      /\ \A d \in Dirs : pending'.dirs[d] = "none"
      /\ \A p \in Paths : pending'.files[p] = "none"
  BY DEF Debounce, remote, TypeInv, TypeOK, Quiet
<1>2. /\ FullDue => FullDue'
      /\ \A d \in Dirs : RemoveDue(d) => RemoveDue(d)'
      /\ \A k \in 1 .. Len(queue'), d \in Dirs, e \in Event :
           DirAt(k, d, e)' => \/ k \in 1 .. Len(queue) /\ DirAt(k, d, e)
                              \/ k = Len(queue) + 1 /\ pending.dirs[d] = e
      /\ \A k \in 0 .. Len(queue), d \in Dirs, e \in Event : DirDue(k, d, e) => DirDue(k, d, e)'
      /\ \A k \in 1 .. Len(queue'), p \in Paths, e \in Event :
           FileAt(k, p, e)' => \/ k \in 1 .. Len(queue) /\ FileAt(k, p, e)
                               \/ k = Len(queue) + 1 /\ pending.files[p] = e
      /\ \A k \in 0 .. Len(queue), p \in Paths, e \in Event : FileDue(k, p, e) => FileDue(k, p, e)'
  BY <1>1, DebouncedDues
<1>3. 0 \in 0 .. Len(queue) /\ \A k \in 1 .. Len(queue) : k \in 0 .. Len(queue) /\ k - 1 \in 0 .. Len(queue)
  BY <1>1
<1>4. /\ \A d \in Dirs : (Known(d)' <=> Known(d)) /\ (Gone(d)' <=> Gone(d))
      /\ \A p \in Paths : Settled(p)' <=> Settled(p)
  BY <1>1 DEF Known, Gone, Settled
<1>5. \A d \in Dirs : DirOwed(d) => DirOwed(d)'
  BY <1>1, <1>2, <1>3, Kinds DEF DirOwed
<1>6. DirsMade' /\ DirsRemoved'
  BY <1>1, <1>2, <1>3, <1>4, <1>5, Kinds DEF Owing, DirsMade, DirsRemoved
<1>7. DirsLast'
  <2>1. \A d \in Dirs : Gone(d) => pending.dirs[d] # "upsert"
    BY DEF Owing, Reported, Gone
  <2> QED BY <1>1, <1>2, <1>3, <1>4, <2>1, Kinds DEF Owing, DirsLast
<1>8. FilesMade'
  BY <1>1, <1>2, <1>3, <1>4, Kinds DEF Owing, FilesMade, Right
<1>9. FilesRemoved'
  BY <1>1, <1>2, <1>3, <1>5, Kinds DEF Owing, FilesRemoved, FileOwed
<1>10. FilesLast'
  <2>1. \A p \in Paths : seen.files[p] # None => pending.files[p] # "delete"
    BY DEF Owing, Reported
  <2> QED BY <1>1, <1>2, <1>3, <2>1, Kinds DEF Owing, FilesLast
<1>11. WithFiles'
  <2> SUFFICES ASSUME NEW p \in Paths, seen.files[p] # None
               PROVE  /\ \A k \in 1 .. Len(queue') : DirAt(k, p[1], "upsert")' => FileDue(k - 1, p, "upsert")'
                      /\ task.kind = "batch" /\ p[1] \in task.dirs
                           => p \in task.todo \/ FileDue(0, p, "upsert")'
    BY <1>1, Kinds DEF WithFiles
  <2>1. ASSUME NEW k \in 1 .. Len(queue'), DirAt(k, p[1], "upsert")' PROVE FileDue(k - 1, p, "upsert")'
    <3>1. CASE k \in 1 .. Len(queue) /\ DirAt(k, p[1], "upsert")
      BY <1>2, <1>3, <3>1, Kinds DEF Owing, WithFiles
    <3>2. CASE k = Len(queue) + 1 /\ pending.dirs[p[1]] = "upsert"
      <4>1. FileDue(Len(queue), p, "upsert")
        BY <3>2 DEF Owing, WithFiles, FileDue
      <4>2. k - 1 = Len(queue) /\ Len(queue) \in 0 .. Len(queue)
        BY <1>1, <3>2
      <4> QED BY <1>2, <4>1, <4>2, Kinds
    <3> QED BY <1>2, <2>1, <3>1, <3>2, Kinds
  <2>2. task.kind = "batch" /\ p[1] \in task.dirs => p \in task.todo \/ FileDue(0, p, "upsert")'
    BY <1>2, <1>3, Kinds DEF Owing, WithFiles
  <2> QED BY <2>1, <2>2
<1>12. Rescanned' /\ Resent'
  BY <1>1, <1>2, <1>3, <1>4, Kinds DEF Owing, Rescanned, Resent
<1>13. Reported' /\ Tidy'
  BY <1>1 DEF Owing, Reported, Tidy
<1> QED BY <1>6, <1>7, <1>8, <1>9, <1>10, <1>11, <1>12, <1>13 DEF Owing

\* A full sync, or the removal that was held back, joins the queue.
LEMMA QueueOwes ==
  ASSUME TypeInv, Owing, SyncNow \/ \E d \in Dirs : GraceOver(d)
  PROVE  Owing'
<1>1. PICK x : /\ x.kind # "batch" /\ queue' = Append(queue, x)
               /\ \A d \in Dirs : timers'[d] = timers[d] \/ (x.kind = "remove" /\ x.dir = d)
  <2>1. CASE SyncNow
    <3>1. [kind |-> "full"].kind # "batch" /\ UNCHANGED timers
          /\ queue' = Append(queue, [kind |-> "full"])
      BY <2>1 DEF SyncNow
    <3> QED BY <3>1
  <2>2. ASSUME NEW d \in Dirs, GraceOver(d)
        PROVE  LET x == [kind |-> "remove", dir |-> d]
               IN  /\ x.kind # "batch" /\ queue' = Append(queue, x)
                   /\ \A e \in Dirs : timers'[e] = timers[e] \/ (x.kind = "remove" /\ x.dir = e)
    BY <2>2 DEF GraceOver, TypeInv, TypeOK
  <2> QED BY <2>1, <2>2
<1>2. /\ UNCHANGED <<local, seen, pending, task, map, folders, files>>
      /\ queue \in Seq(Waiting) /\ Len(queue) \in Nat
  <2>1. UNCHANGED <<local, seen, pending, task, map, remote>>
    BY DEF SyncNow, GraceOver
  <2>2. queue \in Seq(Waiting)
    BY DEF TypeInv, TypeOK
  <2> QED BY <2>1, <2>2 DEF remote
<1>3. /\ FullDue => FullDue'
      /\ \A d \in Dirs : RemoveDue(d) => RemoveDue(d)'
      /\ x.kind = "remove" => RemoveDue(x.dir)'
      /\ \A k \in 1 .. Len(queue'), d \in Dirs, e \in Event :
           DirAt(k, d, e)' => k \in 1 .. Len(queue) /\ DirAt(k, d, e)
      /\ \A k \in Nat, d \in Dirs, e \in Event : DirDue(k, d, e) <=> DirDue(k, d, e)'
      /\ \A k \in 1 .. Len(queue'), p \in Paths, e \in Event :
           FileAt(k, p, e)' => k \in 1 .. Len(queue) /\ FileAt(k, p, e)
      /\ \A k \in Nat, p \in Paths, e \in Event : FileDue(k, p, e) <=> FileDue(k, p, e)'
  BY <1>1, <1>2, AppendedDues
<1>4. 0 \in Nat /\ \A k \in 1 .. Len(queue) : k \in Nat /\ k - 1 \in Nat
  BY <1>2
<1>5. /\ \A d \in Dirs : (Known(d)' <=> Known(d)) /\ (Gone(d)' <=> Gone(d))
      /\ \A p \in Paths : Settled(p)' <=> Settled(p)
  BY <1>2 DEF Known, Gone, Settled
<1>6. \A d \in Dirs : DirOwed(d) => DirOwed(d)'
  <2> SUFFICES ASSUME NEW d \in Dirs, DirOwed(d) PROVE DirOwed(d)'
    OBVIOUS
  <2>1. CASE x.kind = "remove" /\ x.dir = d
    BY <1>3, <2>1 DEF DirOwed
  <2>2. CASE timers'[d] = timers[d]
    BY <1>2, <1>3, <1>4, <2>2, Kinds DEF DirOwed
  <2> QED BY <1>1, <2>1, <2>2
<1>7. DirsMade' /\ DirsRemoved'
  BY <1>2, <1>3, <1>4, <1>5, <1>6, Kinds DEF Owing, DirsMade, DirsRemoved
<1>8. DirsLast'
  BY <1>2, <1>3, <1>4, <1>5, Kinds DEF Owing, DirsLast
<1>9. FilesMade'
  BY <1>2, <1>3, <1>4, <1>5, Kinds DEF Owing, FilesMade, Right
<1>10. FilesRemoved'
  BY <1>2, <1>3, <1>4, <1>6, Kinds DEF Owing, FilesRemoved, FileOwed
<1>11. FilesLast'
  BY <1>2, <1>3, <1>4, Kinds DEF Owing, FilesLast
<1>12. WithFiles'
  BY <1>2, <1>3, <1>4, Kinds DEF Owing, WithFiles
<1>13. Rescanned' /\ Resent'
  BY <1>2, <1>3, <1>4, <1>5, Kinds DEF Owing, Rescanned, Resent
<1>14. Reported' /\ Tidy'
  BY <1>2 DEF Owing, Reported, Tidy
<1> QED BY <1>7, <1>8, <1>9, <1>10, <1>11, <1>12, <1>13, <1>14 DEF Owing

\* The client saves its table or starts again: then a full sync is due.
LEMMA RestOwes ==
  ASSUME TypeInv, Owing, Save \/ Restart \/ UNCHANGED vars, lost' = {}
  PROVE  Owing'
<1>1. CASE Save \/ UNCHANGED vars
  <2>1. UNCHANGED <<local, seen, pending, queue, task, timers, map, folders, files>>
    BY <1>1 DEF Save, vars, remote
  <2> QED
    BY <2>1 DEF Owing, DirsMade, DirsRemoved, DirsLast, FilesMade, FilesRemoved, FilesLast,
         WithFiles, Rescanned, Resent, Reported, Tidy, DirOwed, FileOwed, Known, Gone, Settled,
         Right, FullDue, RemoveDue, DirDue, FileDue, DirAt, FileAt
<1>2. CASE Restart
  <2>1. /\ local' = local /\ seen' = local /\ queue' = <<[kind |-> "full"]>> /\ task' = NoTask
        /\ \A d \in Dirs : pending'.dirs[d] = "none"
        /\ \A p \in Paths : pending'.files[p] = "none"
    BY <1>2 DEF Restart, Quiet
  <2>2. Len(queue') = 1 /\ queue'[1].kind = "full" /\ \A k \in 1 .. Len(queue') : k = 1
    BY <2>1
  <2>3. FullDue' /\ \A k \in 1 .. Len(queue') : queue'[k].kind # "batch"
    BY <2>2 DEF FullDue
  <2>4. \A d \in Dirs : DirOwed(d)'
    BY <2>3 DEF DirOwed
  <2>5. DirsMade' /\ DirsRemoved' /\ FilesMade'
    BY <2>3, <2>4 DEF DirsMade, DirsRemoved, FilesMade
  <2>6. FilesRemoved'
    BY <2>4, Kinds DEF FilesRemoved, FileOwed
  <2>7. DirsLast' /\ FilesLast' /\ WithFiles'
    BY <2>1, <2>3, Kinds DEF DirsLast, FilesLast, WithFiles, DirAt, FileAt
  <2>8. Rescanned' /\ Resent' /\ Tidy'
    BY <2>1, Kinds DEF Rescanned, Resent, Tidy
  <2>9. Reported'
    BY <2>1 DEF Reported, TypeInv, Rooted
  <2> QED BY <2>5, <2>6, <2>7, <2>8, <2>9 DEF Owing
<1> QED BY <1>1, <1>2

\* The queue after the first task has left it.
LEMMA StartedDues ==
  ASSUME TypeInv, Owing, StartBatch \/ StartFull \/ StartRemove
  PROVE  /\ UNCHANGED <<local, seen, pending, map, folders, files>> /\ task = NoTask
         /\ queue[1] = Head(queue)
         /\ FullDue => queue[1].kind = "full" \/ FullDue'
         /\ \A d \in Dirs : RemoveDue(d) => \/ queue[1].kind = "remove" /\ queue[1].dir = d
                                            \/ RemoveDue(d)'
         /\ \A d \in Dirs : StartBatch /\ DirAt(1, d, "delete") /\ ~Defers(d) => RemoveDue(d)'
         /\ \A d \in Dirs, e \in Event : DirDue(0, d, e) => DirAt(1, d, e) \/ DirDue(0, d, e)'
         /\ \A p \in Paths, e \in Event : FileDue(0, p, e) => FileAt(1, p, e) \/ FileDue(0, p, e)'
         /\ \A d \in Dirs : Gone(d) =>
              /\ \A k \in 1 .. Len(queue') : DirAt(k, d, "upsert")' => DirDue(k, d, "delete")'
              /\ DirAt(1, d, "upsert") => DirDue(0, d, "delete")'
         /\ \A p \in Paths : seen.files[p] # None =>
              /\ \A k \in 1 .. Len(queue') : FileAt(k, p, "delete")' => FileDue(k, p, "upsert")'
              /\ FileAt(1, p, "delete") => FileDue(0, p, "upsert")'
              /\ \A k \in 1 .. Len(queue') : DirAt(k, p[1], "upsert")' => FileDue(k - 1, p, "upsert")'
              /\ DirAt(1, p[1], "upsert") => FileAt(1, p, "upsert") \/ FileDue(0, p, "upsert")'
<1>1. /\ UNCHANGED <<local, seen, pending, map, folders, files>> /\ task = NoTask
      /\ queue # <<>> /\ queue \in Seq(Waiting)
  BY DEF StartBatch, StartFull, StartRemove, Takes, remote, TypeInv, TypeOK
<1>2. PICK r \in Seq(Waiting) :
        /\ queue' = Tail(queue) \o r /\ \A k \in 1 .. Len(r) : r[k].kind = "remove"
        /\ \A d \in Dirs : StartBatch /\ Head(queue).changes.dirs[d] = "delete" /\ ~Defers(d)
             => \E k \in 1 .. Len(r) : r[k].dir = d
  <2>1. CASE StartBatch
    <3> DEFINE S == {d \in {e \in Dirs : Head(queue).changes.dirs[e] = "delete"} : ~Defers(d)}
    <3>1. PICK r \in Removals(S) : queue' = Tail(queue) \o r
      BY <2>1 DEF StartBatch
    <3>2. /\ r \in Seq(Waiting)
          /\ \A k \in 1 .. Len(r) : r[k].kind = "remove"
          /\ \A d \in S : \E k \in 1 .. Len(r) : r[k].dir = d
      BY <3>1, RemovalsType, RemovesAll
    <3> QED BY <3>1, <3>2
  <2>2. CASE ~StartBatch
    <3>1. queue' = Tail(queue) /\ Tail(queue) \in Seq(Waiting)
      BY <1>1, <2>2 DEF StartFull, StartRemove
    <3>2. Tail(queue) = Tail(queue) \o <<>> /\ <<>> \in Seq(Waiting)
      BY <3>1
    <3>3. \A k \in 1 .. Len(<<>>) : FALSE
      OBVIOUS
    <3> QED BY <2>2, <3>1, <3>2, <3>3
  <2> QED BY <2>1, <2>2
<1>3. /\ 1 \in 1 .. Len(queue) /\ Head(queue) = queue[1]
      /\ FullDue => queue[1].kind = "full" \/ FullDue'
      /\ \A d \in Dirs : RemoveDue(d) => \/ queue[1].kind = "remove" /\ queue[1].dir = d
                                         \/ RemoveDue(d)'
      /\ \A k \in 1 .. Len(r) : RemoveDue(r[k].dir)'
      /\ \A k \in 1 .. Len(queue'), d \in Dirs, e \in Event :
           DirAt(k, d, e)' => k + 1 \in 1 .. Len(queue) /\ DirAt(k + 1, d, e)
      /\ \A k \in Nat, d \in Dirs, e \in Event : DirDue(k + 1, d, e) => DirDue(k, d, e)'
      /\ \A d \in Dirs, e \in Event : DirDue(0, d, e) => DirAt(1, d, e) \/ DirDue(0, d, e)'
      /\ \A k \in 1 .. Len(queue'), p \in Paths, e \in Event :
           FileAt(k, p, e)' => k + 1 \in 1 .. Len(queue) /\ FileAt(k + 1, p, e)
      /\ \A k \in Nat, p \in Paths, e \in Event : FileDue(k + 1, p, e) => FileDue(k, p, e)'
      /\ \A p \in Paths, e \in Event : FileDue(0, p, e) => FileAt(1, p, e) \/ FileDue(0, p, e)'
  BY <1>1, <1>2, PoppedDues
<1>4. \A d \in Dirs : StartBatch /\ DirAt(1, d, "delete") /\ ~Defers(d) => RemoveDue(d)'
  BY <1>2, <1>3 DEF DirAt
<1>5. \A k \in 1 .. Len(queue') : k \in Nat /\ k - 1 \in Nat /\ k + 1 \in Int /\ k - 1 + 1 = k /\ k + 1 - 1 = k
  OBVIOUS
<1>6. ASSUME NEW d \in Dirs, Gone(d)
      PROVE  /\ \A k \in 1 .. Len(queue') : DirAt(k, d, "upsert")' => DirDue(k, d, "delete")'
             /\ DirAt(1, d, "upsert") => DirDue(0, d, "delete")'
  <2>1. \A k \in 1 .. Len(queue) : DirAt(k, d, "upsert") => DirDue(k, d, "delete")
    BY <1>6 DEF Owing, DirsLast
  <2>2. DirAt(1, d, "upsert") => DirDue(0 + 1, d, "delete")
    BY <1>3, <2>1
  <2> QED BY <1>3, <1>5, <2>1, <2>2, Kinds
<1>7. ASSUME NEW p \in Paths, seen.files[p] # None
      PROVE  /\ \A k \in 1 .. Len(queue') : FileAt(k, p, "delete")' => FileDue(k, p, "upsert")'
             /\ FileAt(1, p, "delete") => FileDue(0, p, "upsert")'
  <2>1. \A k \in 1 .. Len(queue) : FileAt(k, p, "delete") => FileDue(k, p, "upsert")
    BY <1>7 DEF Owing, FilesLast
  <2>2. FileAt(1, p, "delete") => FileDue(0 + 1, p, "upsert")
    BY <1>3, <2>1
  <2> QED BY <1>3, <1>5, <2>1, <2>2, Kinds
<1>8. ASSUME NEW p \in Paths, seen.files[p] # None
      PROVE  /\ \A k \in 1 .. Len(queue') : DirAt(k, p[1], "upsert")' => FileDue(k - 1, p, "upsert")'
             /\ DirAt(1, p[1], "upsert") => FileAt(1, p, "upsert") \/ FileDue(0, p, "upsert")'
  <2>1. \A k \in 1 .. Len(queue) : DirAt(k, p[1], "upsert") => FileDue(k - 1, p, "upsert")
    BY <1>8 DEF Owing, WithFiles
  <2>2. DirAt(1, p[1], "upsert") => FileDue(0, p, "upsert")
    BY <1>3, <2>1
  <2>3. \A k \in 1 .. Len(queue') : DirAt(k, p[1], "upsert")' => FileDue(k - 1 + 1, p, "upsert")
    BY <1>3, <1>5, <2>1, Kinds
  <2> QED BY <1>3, <1>5, <2>2, <2>3, Kinds
<1> QED BY <1>1, <1>3, <1>4, <1>6, <1>7, <1>8

\* A batch starts: what the reports owe, the task owes, the timers or the removals.
LEMMA BatchOwes ==
  ASSUME TypeInv, TableTrue, Owing, StartBatch
  PROVE  Owing'
<1> DEFINE c == Head(queue).changes
<1>1. /\ UNCHANGED <<local, seen, pending, map, folders, files>> /\ task = NoTask
      /\ queue[1] = Head(queue) /\ Head(queue).kind = "batch"
      /\ task'.kind = "batch" /\ task'.rmdir = {} /\ task'.sending = NotSending
      /\ task'.dirs = {d \in Dirs : c.dirs[d] = "upsert"}
      /\ task'.todo = {p \in Paths : c.files[p] = "upsert"}
      /\ task'.drop = {p \in Paths : c.files[p] = "delete"}
      /\ timers' = [d \in Dirs |-> IF c.dirs[d] = "delete" /\ Defers(d)
                                     THEN [print |-> MappedPrint(d), id |-> map.dirs[d]]
                                     ELSE timers[d]]
  BY StartedDues DEF StartBatch, Takes, NoTask
<1>2. /\ \A d, e : DirAt(1, d, e) <=> c.dirs[d] = e
      /\ \A p, e : FileAt(1, p, e) <=> c.files[p] = e
      /\ \A p \in Paths : task'.sending[p].v = None
  BY <1>1 DEF DirAt, FileAt, NotSending
<1>3. /\ FullDue => FullDue'
      /\ \A d \in Dirs : RemoveDue(d) => RemoveDue(d)'
      /\ \A d \in Dirs : c.dirs[d] = "delete" /\ ~Defers(d) => RemoveDue(d)'
      /\ \A d \in Dirs, e \in Event : DirDue(0, d, e) => c.dirs[d] = e \/ DirDue(0, d, e)'
      /\ \A p \in Paths, e \in Event : FileDue(0, p, e) => c.files[p] = e \/ FileDue(0, p, e)'
      /\ \A d \in Dirs : Gone(d) =>
           /\ \A k \in 1 .. Len(queue') : DirAt(k, d, "upsert")' => DirDue(k, d, "delete")'
           /\ c.dirs[d] = "upsert" => DirDue(0, d, "delete")'
      /\ \A p \in Paths : seen.files[p] # None =>
           /\ \A k \in 1 .. Len(queue') : FileAt(k, p, "delete")' => FileDue(k, p, "upsert")'
           /\ c.files[p] = "delete" => FileDue(0, p, "upsert")'
           /\ \A k \in 1 .. Len(queue') : DirAt(k, p[1], "upsert")' => FileDue(k - 1, p, "upsert")'
           /\ c.dirs[p[1]] = "upsert" => c.files[p] = "upsert" \/ FileDue(0, p, "upsert")'
  <2> HIDE DEF c
  <2> QED BY <1>1, <1>2, StartedDues, Kinds
<1> HIDE DEF c
<1>4. /\ \A d \in Dirs : (Known(d)' <=> Known(d)) /\ (Gone(d)' <=> Gone(d))
      /\ \A p \in Paths : Settled(p)' <=> Settled(p)
  BY <1>1 DEF Known, Gone, Settled
<1>5. ASSUME NEW d \in Dirs, map.dirs[d] # None, DirOwed(d) PROVE DirOwed(d)'
  <2>1. NoTimer.id = None
    BY DEF NoTimer
  <2>2. CASE c.dirs[d] = "delete"
    <3>1. CASE Defers(d)
      <4>1. timers'[d].id = map.dirs[d] /\ timers'[d] # NoTimer
        BY <1>1, <1>5, <2>1, <2>2, <3>1
      <4> QED BY <1>1, <4>1 DEF DirOwed
    <3>2. CASE ~Defers(d)
      BY <1>3, <2>2, <3>2 DEF DirOwed
    <3> QED BY <3>1, <3>2
  <2>3. CASE c.dirs[d] # "delete"
    <3>1. timers'[d] = timers[d]
      BY <1>1, <2>3
    <3> QED BY <1>1, <1>3, <1>5, <2>3, <3>1, Kinds DEF DirOwed
  <2> QED BY <2>2, <2>3
<1>6. DirsMade'
  BY <1>1, <1>3, <1>4, Kinds DEF Owing, DirsMade
<1>7. DirsRemoved'
  BY <1>1, <1>4, <1>5 DEF Owing, DirsRemoved
<1>8. DirsLast'
  BY <1>1, <1>2, <1>3, <1>4 DEF Owing, DirsLast
<1>9. FilesMade'
  BY <1>1, <1>3, <1>4, Kinds DEF Owing, FilesMade, Right, NotSending
<1>10. FilesRemoved'
  <2> SUFFICES ASSUME NEW p \in Paths, map.files[p].id # None, FileOwed(p) PROVE FileOwed(p)'
    BY <1>1 DEF Owing, FilesRemoved
  <2>1. DirOwed(p[1]) => DirOwed(p[1])'
    BY <1>5, OneEntry, Kinds
  <2> QED BY <1>1, <1>3, <2>1, Kinds DEF FileOwed
<1>11. FilesLast' /\ WithFiles'
  BY <1>1, <1>3, Kinds DEF Owing, FilesLast, WithFiles
<1>12. Rescanned' /\ Resent' /\ Reported' /\ Tidy'
  BY <1>1, <1>2 DEF Owing, Rescanned, Resent, Reported, Tidy
<1> QED BY <1>6, <1>7, <1>8, <1>9, <1>10, <1>11, <1>12 DEF Owing

\* A full sync starts: it owes whatever the tree shows.
LEMMA FullOwes ==
  ASSUME TypeInv, Owing, StartFull
  PROVE  Owing'
<1>1. /\ UNCHANGED <<local, seen, pending, map, folders, files, timers>>
      /\ queue[1].kind = "full"
      /\ task'.kind = "full" /\ ~task'.swept /\ task'.rmdir = {} /\ task'.drop = {}
      /\ task'.dirs = local.dirs /\ task'.scan = local
      /\ task'.todo = {p \in Paths : local.files[p] # None}
      /\ \A p \in Paths : task'.sending[p].v = None
  BY StartedDues DEF StartFull, Takes, NoTask, NotSending
<1>2. \A x, e : ~DirAt(1, x, e) /\ ~FileAt(1, x, e)
  BY <1>1 DEF DirAt, FileAt
<1>3. /\ \A d \in Dirs : (Known(d)' <=> Known(d)) /\ (Gone(d)' <=> Gone(d))
      /\ \A p \in Paths : Settled(p)' <=> Settled(p)
  BY <1>1 DEF Known, Gone, Settled
<1>4. /\ \A d \in Dirs : Gone(d) => DirOwed(d)'
      /\ \A p \in Paths : local.files[p] = None => FileOwed(p)'
  BY <1>1 DEF DirOwed, FileOwed, Gone
<1>5. DirsMade' /\ DirsRemoved' /\ FilesMade' /\ FilesRemoved'
  BY <1>1, <1>3, <1>4 DEF DirsMade, DirsRemoved, FilesMade, FilesRemoved, Known, Settled
<1>6. DirsLast' /\ FilesLast' /\ WithFiles'
  <2>1. \A d \in Dirs : Gone(d) =>
          \A k \in 1 .. Len(queue') : DirAt(k, d, "upsert")' => DirDue(k, d, "delete")'
    BY StartedDues
  <2>2. \A p \in Paths : seen.files[p] # None =>
          /\ \A k \in 1 .. Len(queue') : FileAt(k, p, "delete")' => FileDue(k, p, "upsert")'
          /\ \A k \in 1 .. Len(queue') : DirAt(k, p[1], "upsert")' => FileDue(k - 1, p, "upsert")'
    BY StartedDues
  <2>3. DirsLast'
    BY <1>1, <1>3, <2>1 DEF DirsLast, Gone
  <2>4. FilesLast'
    BY <1>1, <2>2 DEF FilesLast
  <2>5. WithFiles'
    BY <1>1, <2>2 DEF Owing, WithFiles
  <2> QED BY <2>3, <2>4, <2>5
<1>7. Rescanned' /\ Resent' /\ Reported' /\ Tidy'
  BY <1>1, <1>3 DEF Owing, Rescanned, Resent, Reported, Tidy, Settled
<1> QED BY <1>5, <1>6, <1>7 DEF Owing

\* A removal starts: it owes the entries of its folder.
LEMMA RemoveOwes ==
  ASSUME TypeInv, TableTrue, Owing, StartRemove
  PROVE  Owing'
<1>1. PICK d : d = queue[1].dir
  OBVIOUS
<1>2. /\ UNCHANGED <<local, seen, pending, map, folders, files, timers>> /\ task = NoTask
      /\ queue[1].kind = "remove"
      /\ task'.kind = "remove" /\ task'.dirs = {}
      /\ task'.drop = {p \in Paths : p[1] = d /\ map.files[p].id # None}
      /\ task'.rmdir = IF map.dirs[d] # None THEN {d} ELSE {}
      /\ \A p \in Paths : task'.sending[p].v = None
  BY <1>1, StartedDues DEF StartRemove, Takes, NoTask, NotSending
<1>3. \A x, e : ~DirAt(1, x, e) /\ ~FileAt(1, x, e)
  BY <1>2 DEF DirAt, FileAt
<1>4. /\ FullDue => FullDue'
      /\ \A e \in Dirs : RemoveDue(e) => e = d \/ RemoveDue(e)'
      /\ \A e \in Dirs, x \in Event : DirDue(0, e, x) => DirDue(0, e, x)'
      /\ \A p \in Paths, x \in Event : FileDue(0, p, x) => FileDue(0, p, x)'
      /\ \A e \in Dirs : (Known(e)' <=> Known(e)) /\ (Gone(e)' <=> Gone(e))
      /\ \A p \in Paths : Settled(p)' <=> Settled(p)
  BY <1>1, <1>2, <1>3, StartedDues DEF Known, Gone, Settled
<1>5. ASSUME NEW e \in Dirs, map.dirs[e] # None, DirOwed(e) PROVE DirOwed(e)'
  BY <1>2, <1>4, <1>5, Kinds DEF DirOwed
<1>6. DirsMade' /\ DirsRemoved'
  BY <1>2, <1>4, <1>5, Kinds DEF Owing, DirsMade, DirsRemoved
<1>7. DirsLast' /\ FilesLast' /\ WithFiles'
  <2>1. \A e \in Dirs : Gone(e) =>
          \A k \in 1 .. Len(queue') : DirAt(k, e, "upsert")' => DirDue(k, e, "delete")'
    BY StartedDues
  <2>2. \A p \in Paths : seen.files[p] # None =>
          /\ \A k \in 1 .. Len(queue') : FileAt(k, p, "delete")' => FileDue(k, p, "upsert")'
          /\ \A k \in 1 .. Len(queue') : DirAt(k, p[1], "upsert")' => FileDue(k - 1, p, "upsert")'
    BY StartedDues
  <2>3. DirsLast'
    BY <1>2, <1>4, <2>1 DEF DirsLast
  <2>4. FilesLast'
    BY <1>2, <2>2 DEF FilesLast
  <2>5. WithFiles'
    BY <1>2, <2>2 DEF Owing, WithFiles
  <2> QED BY <2>3, <2>4, <2>5
<1>8. FilesMade'
  BY <1>2, <1>4, Kinds DEF Owing, FilesMade, Right
<1>9. FilesRemoved'
  <2> SUFFICES ASSUME NEW p \in Paths, map.files[p].id # None, FileOwed(p) PROVE FileOwed(p)'
    BY <1>2 DEF Owing, FilesRemoved
  <2>1. DirOwed(p[1]) => DirOwed(p[1])'
    BY <1>5, OneEntry, Kinds
  <2> QED BY <1>2, <1>4, <2>1, Kinds DEF FileOwed
<1>10. Rescanned' /\ Resent' /\ Reported'
  BY <1>2 DEF Owing, Rescanned, Resent, Reported
<1>11. Tidy'
  BY <1>2, OneEntry DEF Tidy
<1> QED BY <1>6, <1>7, <1>8, <1>9, <1>10, <1>11 DEF Owing

\* What a step of the task leaves as it is: the reports, and all that depends on them.
Steady ==
  /\ DirsLast' /\ FilesLast' /\ WithFiles' /\ Rescanned' /\ Resent' /\ Reported'
  /\ FullDue' <=> FullDue
  /\ \A d \in Dirs : /\ RemoveDue(d)' <=> RemoveDue(d)
                     /\ DirDue(0, d, "upsert")' <=> DirDue(0, d, "upsert")
                     /\ DirDue(0, d, "delete")' <=> DirDue(0, d, "delete")
                     /\ (Known(d)' <=> Known(d)) /\ (Gone(d)' <=> Gone(d))
  /\ \A p \in Paths : /\ FileDue(0, p, "upsert")' <=> FileDue(0, p, "upsert")
                      /\ FileDue(0, p, "delete")' <=> FileDue(0, p, "delete")
                      /\ Settled(p)' <=> Settled(p)

LEMMA GoesOn ==
  ASSUME TypeInv, Owing, UNCHANGED <<local, seen, pending, queue>>,
         task'.kind # "idle" => task'.kind = task.kind /\ task'.scan = task.scan,
         task'.dirs \subseteq task.dirs,
         task'.todo = task.todo \/ task'.dirs = {},
         task.kind = "batch" => task'.drop \subseteq task.drop,
         \A p \in Paths : task'.sending[p].v \in {None, task.sending[p].v, local.files[p]}
  PROVE  Steady
<1> USE DEF Steady
<1>1. /\ FullDue' <=> FullDue
      /\ \A d \in Dirs : RemoveDue(d)' <=> RemoveDue(d)
      /\ \A k, d, e : (DirAt(k, d, e)' <=> DirAt(k, d, e)) /\ (DirDue(k, d, e)' <=> DirDue(k, d, e))
      /\ \A k, p, e : (FileAt(k, p, e)' <=> FileAt(k, p, e)) /\ (FileDue(k, p, e)' <=> FileDue(k, p, e))
      /\ \A d \in Dirs : (Known(d)' <=> Known(d)) /\ (Gone(d)' <=> Gone(d))
      /\ \A p \in Paths : Settled(p)' <=> Settled(p)
  BY DEF FullDue, RemoveDue, DirAt, DirDue, FileAt, FileDue, Known, Gone, Settled
<1>2. DirsLast'
  <2> SUFFICES ASSUME NEW d \in Dirs, Gone(d)
               PROVE  /\ \A k \in 1 .. Len(queue) : DirAt(k, d, "upsert") => DirDue(k, d, "delete")
                      /\ d \in task'.dirs \/ (\E p \in Paths : p[1] = d /\ task'.sending[p].v # None)
                           => DirDue(0, d, "delete")
    BY <1>1 DEF DirsLast
  <2>1. \A p \in Paths : p[1] = d => local.files[p] = None
    BY DEF Gone, TypeInv, Rooted
  <2>2. /\ \A k \in 1 .. Len(queue) : DirAt(k, d, "upsert") => DirDue(k, d, "delete")
        /\ d \in task.dirs \/ (\E p \in Paths : p[1] = d /\ task.sending[p].v # None)
             => DirDue(0, d, "delete")
    BY DEF Owing, DirsLast
  <2>3. ASSUME NEW p \in Paths, p[1] = d, task'.sending[p].v # None
        PROVE  task.sending[p].v # None
    BY <2>1, <2>3
  <2> QED BY <2>2, <2>3
<1>3. FilesLast'
  BY <1>1 DEF Owing, FilesLast
<1>4. WithFiles'
  BY <1>1 DEF Owing, WithFiles
<1>5. Rescanned' /\ Resent' /\ Reported'
  <2>1. Rescanned'
    BY <1>1 DEF Owing, Rescanned
  <2>2. Resent'
    BY <1>1 DEF Owing, Resent
  <2>3. Reported'
    BY <1>1 DEF Owing, Reported
  <2> QED BY <2>1, <2>2, <2>3
<1> QED BY <1>1, <1>2, <1>3, <1>4, <1>5

\* A folder that exists and that a report still on its way will bring up again: with it
\* come the files in it.
LEMMA StillDue ==
  ASSUME TypeInv, Owing, NEW d \in Dirs, ~Forgotten(d), task.kind = "batch" \/ task.dirs = {}
  PROVE  /\ Known(d) => DirDue(0, d, "upsert") \/ d \in task.dirs
         /\ \A p \in Paths : p[1] = d /\ Settled(p) => p \in task.todo \/ FileDue(0, p, "upsert")
<1>0. queue \in Seq(Waiting) /\ Len(queue) \in Nat /\ \A k \in 1 .. Len(queue) : 0 < k
  BY DEF TypeInv, TypeOK
<1>1. ASSUME Known(d)
      PROVE  \/ pending.dirs[d] = "upsert" \/ d \in task.dirs
             \/ \E k \in 1 .. Len(queue) : DirAt(k, d, "upsert")
  BY <1>1 DEF Known, Forgotten, DirAt
<1>2. Known(d) => DirDue(0, d, "upsert") \/ d \in task.dirs
  BY <1>0, <1>1 DEF DirDue
<1>3. ASSUME NEW p \in Paths, p[1] = d, Settled(p)
      PROVE  p \in task.todo \/ FileDue(0, p, "upsert")
  <2>1. Known(d) /\ seen.files[p] # None
    BY <1>3 DEF Owing, Reported, Known, Settled, TypeInv, Rooted
  <2>2. CASE pending.dirs[d] = "upsert"
    BY <1>3, <2>1, <2>2 DEF Owing, WithFiles, FileDue
  <2>3. CASE d \in task.dirs
    BY <1>3, <2>1, <2>3 DEF Owing, WithFiles
  <2>4. ASSUME NEW k \in 1 .. Len(queue), DirAt(k, d, "upsert") PROVE FileDue(0, p, "upsert")
    <3>1. FileDue(k - 1, p, "upsert")
      BY <1>3, <2>1, <2>4 DEF Owing, WithFiles
    <3> QED BY <1>0, <3>1 DEF FileDue
  <2> QED BY <1>1, <2>1, <2>2, <2>3, <2>4
<1> QED BY <1>2, <1>3

\* A folder without an entry gets one, or a folder that has one is passed over.
LEMMA DirMade ==
  ASSUME TypeInv, TableTrue, Owing, NEW d \in Dirs, NEW x,
         UNCHANGED <<local, seen, pending, queue, timers, files>>,
         x # None, map.dirs[d] = None \/ x = map.dirs[d],
         map'.files = map.files, map'.dirs = [map.dirs EXCEPT ![d] = x],
         task'.dirs \in {task.dirs, task.dirs \ {d}},
         d \in task.dirs \/ \E p \in Paths : p[1] = d /\ task.sending[p].v # None,
         task'.kind = task.kind, task'.scan = task.scan, task'.swept = task.swept,
         task'.todo = task.todo, task'.drop = task.drop, task'.rmdir = task.rmdir,
         \A p \in Paths : task'.sending[p].v = task.sending[p].v
  PROVE  Owing'
<1> USE DEF Steady
<1>1. Steady
  BY GoesOn
<1>2. \A e \in Dirs : map'.dirs[e] = IF e = d THEN x ELSE map.dirs[e]
  BY DEF TypeInv, TypeOK, Mapping
<1>3. ASSUME NEW e \in Dirs, map'.dirs[e] = map.dirs[e], DirOwed(e) PROVE DirOwed(e)'
  BY <1>1, <1>3 DEF DirOwed
<1>4. DirsMade'
  BY <1>1, <1>2 DEF Owing, DirsMade
<1>5. DirsRemoved'
  <2> SUFFICES ASSUME NEW e \in Dirs, Gone(e), map'.dirs[e] # None PROVE DirOwed(e)'
    BY <1>1 DEF DirsRemoved
  <2>1. CASE e = d
    <3>1. DirDue(0, d, "delete")
      BY <2>1 DEF Owing, DirsLast
    <3> QED BY <1>1, <2>1, <3>1 DEF DirOwed
  <2>2. CASE e # d
    BY <1>2, <1>3, <2>2 DEF Owing, DirsRemoved
  <2> QED BY <2>1, <2>2
<1>6. FilesMade'
  BY <1>1 DEF Owing, FilesMade, Right
<1>7. FilesRemoved'
  <2> SUFFICES ASSUME NEW p \in Paths, map.files[p].id # None, FileOwed(p) PROVE FileOwed(p)'
    BY DEF Owing, FilesRemoved
  <2>1. p[1] \in Dirs /\ map.dirs[p[1]] # None
    BY OneEntry, Kinds
  <2>2. DirOwed(p[1]) => DirOwed(p[1])'
    BY <1>2, <1>3, <2>1
  <2> QED BY <1>1, <2>2 DEF FileOwed
<1>8. Tidy'
  BY DEF Owing, Tidy
<1> QED BY <1>1, <1>4, <1>5, <1>6, <1>7, <1>8 DEF Owing

LEMMA MakesOwe ==
  ASSUME TypeInv, TableTrue, Owing, lost' = {},
         (\E d \in Dirs : EnsureDir(d)) \/ \E p \in Paths : MakeParent(p)
  PROVE  Owing'
<1>0. ~Fails /\ task \in Task /\ map \in Mapping
  BY DEF Fails, Trouble, TypeInv, TypeOK
<1>1. ASSUME NEW d \in Dirs, EnsureDir(d) PROVE Owing'
  <2>1. /\ task' = [task EXCEPT !.dirs = @ \ {d}, !.tried = FALSE] /\ d \in task.dirs
        /\ UNCHANGED <<local, seen, pending, queue, timers, files>>
    BY <1>0, <1>1 DEF EnsureDir, NextDir, Rest
  <2>2. /\ task'.dirs = task.dirs \ {d} /\ task'.kind = task.kind /\ task'.scan = task.scan
        /\ task'.swept = task.swept /\ task'.todo = task.todo /\ task'.drop = task.drop
        /\ task'.rmdir = task.rmdir /\ task'.sending = task.sending
    BY <1>0, <2>1 DEF Task
  <2>3. CASE map.dirs[d] # None
    <3>1. map' = map
      BY <1>1, <2>3, <1>0 DEF EnsureDir
    <3>2. map'.dirs = [map.dirs EXCEPT ![d] = map.dirs[d]] /\ map'.files = map.files
      BY <1>0, <3>1 DEF Mapping
    <3> QED BY <2>1, <2>2, <2>3, <3>2, DirMade
  <2>4. CASE map.dirs[d] = None
    <3>1. Unused # {} /\ map' = [map EXCEPT !.dirs[d] = Fresh]
      BY <1>0, <1>1, <2>4 DEF EnsureDir
    <3>2. /\ map'.dirs = [map.dirs EXCEPT ![d] = Fresh] /\ map'.files = map.files
          /\ Fresh # None
      BY <1>0, <3>1, FreshUnused, MapFields DEF Ids, None
    <3> QED BY <2>1, <2>2, <2>4, <3>2, DirMade
  <2> QED BY <2>3, <2>4
<1>2. ASSUME NEW p \in Paths, MakeParent(p) PROVE Owing'
  <2>1. /\ task' = [task EXCEPT !.sending[p].folder = Fresh] /\ task.sending[p].v # None
        /\ UNCHANGED <<local, seen, pending, queue, timers, files>>
        /\ Unused # {} /\ map' = [map EXCEPT !.dirs[p[1]] = Fresh] /\ map.dirs[p[1]] = None
    BY <1>0, <1>2 DEF MakeParent, Rest
  <2>2. /\ task'.dirs = task.dirs /\ task'.kind = task.kind /\ task'.scan = task.scan
        /\ task'.swept = task.swept /\ task'.todo = task.todo /\ task'.drop = task.drop
        /\ task'.rmdir = task.rmdir
        /\ \A q \in Paths : task'.sending[q].v = task.sending[q].v
    BY <1>0, <2>1 DEF Task
  <2>3. /\ map'.dirs = [map.dirs EXCEPT ![p[1]] = Fresh] /\ map'.files = map.files
        /\ Fresh # None
    BY <1>0, <2>1, Kinds, FreshUnused, MapFields DEF Ids, None
  <2>4. p[1] \in Dirs
    BY Kinds
  <2> QED BY <2>1, <2>2, <2>3, <2>4, DirMade
<1> QED BY <1>1, <1>2

\* An entry goes, of a file that is gone or that something will send again.
LEMMA Dropped ==
  ASSUME TypeInv, TableTrue, Owing, NEW p \in Paths, DropFile(p), ~Fails,
         UNCHANGED <<local, seen, pending, queue, timers>>,
         Settled(p) => FileDue(0, p, "upsert") \/ FullDue \/ p[1] \in task.rmdir,
         task'.kind = task.kind, task'.scan = task.scan, task'.swept = task.swept,
         task'.dirs = task.dirs, task'.rmdir = task.rmdir,
         task'.todo = task.todo \/ (task.dirs = {} /\ task'.todo = task.todo \ {p}),
         task'.drop \in {task.drop, task.drop \ {p}},
         \A q \in Paths : \/ task'.sending[q].v = task.sending[q].v
                          \/ q = p /\ task'.sending[q].v = None
  PROVE  Owing'
<1> USE DEF Steady
<1>1. Steady
  BY GoesOn
<1>2. /\ map'.dirs = map.dirs /\ map'.files = [map.files EXCEPT ![p] = NoCopy]
      /\ map.files \in [Paths -> Copy] /\ NoCopy.id = None
  BY DropType DEF TypeInv, TypeOK, Mapping, NoCopy
<1>3. ASSUME NEW q \in Paths, q # p, map.files[q].id # None
      PROVE  files'[map.files[q].id] = files[map.files[q].id]
  <2>1. map.files[q].id # map.files[p].id /\ map.files[q].id \in Ids
    BY <1>2, <1>3, OneEntry DEF Copy
  <2> QED BY <2>1 DEF DropFile, TypeInv, TypeOK
<1>4. \A e \in Dirs : DirOwed(e) => DirOwed(e)'
  BY <1>1, <1>2 DEF DirOwed
<1>5. DirsMade' /\ DirsRemoved'
  BY <1>1, <1>2, <1>4 DEF Owing, DirsMade, DirsRemoved
<1>6. FilesMade'
  <2> SUFFICES ASSUME NEW q \in Paths, Settled(q)
               PROVE  \/ Right(q)' \/ FileDue(0, q, "upsert") \/ FullDue
                      \/ q \in task'.todo \/ task'.sending[q].v = local.files[q]
                      \/ q[1] \in task.rmdir
    BY <1>1 DEF FilesMade
  <2>1. CASE q = p
    BY <2>1
  <2>2. CASE q # p
    <3>1. Right(q) => Right(q)'
      <4> SUFFICES ASSUME Right(q) PROVE Right(q)'
        OBVIOUS
      <4>1. map.files[q].id # None
        BY DEF Right, Settled, TypeInv, Whole
      <4> QED BY <1>2, <1>3, <2>2, <4>1 DEF Right
    <3> QED BY <2>2, <3>1 DEF Owing, FilesMade
  <2> QED BY <2>1, <2>2
<1>7. FilesRemoved'
  <2> SUFFICES ASSUME NEW q \in Paths, map'.files[q].id # None, local.files[q] = None,
                      seen.files[q] = None
               PROVE  FileOwed(q)'
    BY DEF FilesRemoved
  <2>1. q # p /\ map.files[q].id # None
    BY <1>2
  <2>2. FileOwed(q)
    BY <2>1 DEF Owing, FilesRemoved
  <2> QED BY <1>1, <1>4, <2>1, <2>2, Kinds DEF FileOwed
<1>8. Tidy'
  BY DEF Owing, Tidy
<1> QED BY <1>1, <1>5, <1>6, <1>7, <1>8 DEF Owing

LEMMA RemovesFileOwe ==
  ASSUME TypeInv, TableTrue, Repairing, Owing, lost' = {}, NEW p \in Paths, RemoveFile(p)
  PROVE  Owing'
<1>1. /\ ~Fails /\ task \in Task /\ task' = [task EXCEPT !.drop = @ \ {p}] /\ DropFile(p)
      /\ UNCHANGED <<local, seen, pending, queue, timers>> /\ p \in task.drop
  BY DEF Fails, Trouble, RemoveFile, Rest, TypeInv, TypeOK
<1>2. /\ task'.kind = task.kind /\ task'.scan = task.scan /\ task'.swept = task.swept
      /\ task'.dirs = task.dirs /\ task'.rmdir = task.rmdir /\ task'.todo = task.todo
      /\ task'.drop = task.drop \ {p} /\ task'.sending = task.sending
  BY <1>1 DEF Task
<1>3. ASSUME Settled(p) PROVE FileDue(0, p, "upsert") \/ p[1] \in task.rmdir
  <2>1. task.kind \in {"batch", "full", "remove"}
    BY <1>1 DEF TypeInv, TypeOK, Task, NoTask
  <2>2. CASE task.kind = "batch"
    BY <1>1, <1>3, <2>2 DEF Owing, FilesLast, Settled
  <2>3. CASE task.kind = "full"
    BY <1>1, <1>3, <2>3 DEF Owing, Rescanned, Repairing
  <2>4. CASE task.kind = "remove"
    BY <1>1, <2>4 DEF Owing, Tidy
  <2> QED BY <2>1, <2>2, <2>3, <2>4
<1> QED BY <1>1, <1>2, <1>3, Dropped

\* A file that is gone, one that the table has right, and one that is to be sent.
LEMMA StatOwes ==
  ASSUME TypeInv, TableTrue, Owing, lost' = {}, NEW p \in Paths, StatFile(p)
  PROVE  Owing'
<1> USE DEF Steady
<1>0. /\ ~Fails /\ task \in Task /\ task.dirs = {} /\ p \in task.todo
      /\ UNCHANGED <<local, seen, pending, queue, timers, folders>>
  BY DEF Fails, Trouble, FoldersDone, StatFile, Rest, TypeInv, TypeOK
<1>1. CASE local.files[p] = None
  <2>1. DropFile(p) /\ task' = [task EXCEPT !.todo = @ \ {p}]
    BY <1>1 DEF StatFile
  <2>2. /\ task'.kind = task.kind /\ task'.scan = task.scan /\ task'.swept = task.swept
        /\ task'.dirs = task.dirs /\ task'.rmdir = task.rmdir /\ task'.todo = task.todo \ {p}
        /\ task'.drop = task.drop /\ task'.sending = task.sending
    BY <1>0, <2>1 DEF Task
  <2>3. ~Settled(p)
    BY <1>1 DEF Settled
  <2> QED BY <1>0, <2>1, <2>2, <2>3, Dropped
<1>2. CASE local.files[p] # None
  <2> DEFINE u == [v |-> local.files[p], folder |-> map.dirs[p[1]]]
  <2>1. /\ UNCHANGED <<map, files>> /\ ~Mistaken(p)
        /\ \/ map.files[p].v = local.files[p] /\ task' = [task EXCEPT !.todo = @ \ {p}]
           \/ task' = [task EXCEPT !.todo = @ \ {p}, !.sending[p] = u]
    BY <1>2 DEF StatFile
  <2>2. u.v = local.files[p]
    OBVIOUS
  <2> HIDE DEF u
  <2>3. /\ task'.kind = task.kind /\ task'.scan = task.scan /\ task'.swept = task.swept
        /\ task'.dirs = task.dirs /\ task'.rmdir = task.rmdir /\ task'.todo = task.todo \ {p}
        /\ task'.drop = task.drop
        /\ \/ map.files[p].v = local.files[p] /\ task'.sending = task.sending
           \/ task'.sending = [task.sending EXCEPT ![p] = u]
    BY <1>0, <2>1 DEF Task
  <2>4. /\ \A q \in Paths : q # p => task'.sending[q] = task.sending[q]
        /\ \/ Right(p) /\ task'.sending[p] = task.sending[p]
           \/ task'.sending[p].v = local.files[p]
    BY <1>0, <2>1, <2>2, <2>3 DEF Task, Right, Mistaken
  <2>5. Steady
    <3>1. \A q \in Paths : task'.sending[q].v \in {None, task.sending[q].v, local.files[q]}
      BY <2>4
    <3> QED BY <1>0, <2>3, <3>1, GoesOn
  <2>6. \A e \in Dirs : DirOwed(e) => DirOwed(e)'
    BY <1>0, <2>1, <2>3, <2>5 DEF DirOwed
  <2>7. DirsMade' /\ DirsRemoved'
    BY <2>1, <2>3, <2>5, <2>6 DEF Owing, DirsMade, DirsRemoved
  <2>8. FilesMade'
    BY <1>0, <2>1, <2>3, <2>4, <2>5 DEF Owing, FilesMade, Right
  <2>9. FilesRemoved'
    BY <1>0, <2>1, <2>3, <2>5, <2>6, Kinds DEF Owing, FilesRemoved, FileOwed
  <2>10. Tidy'
    BY <2>3 DEF Owing, Tidy
  <2> QED BY <2>5, <2>7, <2>8, <2>9, <2>10 DEF Owing
<1> QED BY <1>1, <1>2

\* The row that an upload takes belongs to no other entry.
LEMMA TargetFree ==
  ASSUME TypeInv, TableTrue, NEW p \in Paths, NEW f \in Ids, f = map.dirs[p[1]],
         Same(f, p[2]) = {} => Unused # {}
  PROVE  /\ Target(f, p[2]) \in Ids
         /\ \A q \in Paths : q # p /\ map.files[q].id # None => map.files[q].id # Target(f, p[2])
<1> DEFINE i == Target(f, p[2])
<1>1. i \in Ids /\ (i \in Unused \/ (files[i].folder = f /\ files[i].name = p[2]))
  <2>1. CASE Same(f, p[2]) = {}
    <3>1. Fresh \in Unused /\ Fresh \in Ids /\ i = Fresh
      BY <2>1, FreshUnused DEF Target
    <3> QED BY <3>1
  <2>2. CASE Same(f, p[2]) # {}
    <3>1. i \in Same(f, p[2])
      BY <2>2 DEF Target
    <3> QED BY <3>1 DEF Same
  <2> QED BY <2>1, <2>2
<1>2. f # None
  BY DEF Ids, None
<1> HIDE DEF i
<1>3. ASSUME NEW q \in Paths, q # p, map.files[q].id # None, map.files[q].id = i PROVE FALSE
  <2>1. files[i].folder = f /\ files[i].name = p[2]
    BY <1>1, <1>3 DEF Unused
  <2>2. q[2] = p[2] /\ map.dirs[q[1]] = map.dirs[p[1]]
    BY <1>3, <2>1 DEF TableTrue
  <2>3. q[1] \in Dirs /\ p[1] \in Dirs /\ p = <<p[1], p[2]>> /\ q = <<q[1], q[2]>>
    BY DEF Paths
  <2>4. q[1] = p[1]
    BY <1>2, <2>2, <2>3, OneEntry
  <2> QED BY <1>3, <2>2, <2>3, <2>4
<1> QED BY <1>1, <1>3 DEF i

\* An upload: what it sent is the file as it is, or the file has been reported again.
LEMMA SendOwes ==
  ASSUME TypeInv, TableTrue, Current, Owing, lost' = {}, NEW p \in Paths, Send(p)
  PROVE  Owing'
<1> USE DEF Steady
<1> DEFINE f == task.sending[p].folder
           i == Target(f, p[2])
           s == NotSending[p]
<1>0. /\ ~Fails /\ task \in Task /\ f # None /\ f \in Ids /\ s.v = None
      /\ UNCHANGED <<local, seen, pending, queue, timers, folders>>
  BY DEF Fails, Trouble, Send, Rest, TypeInv, TypeOK, Task, NotSending
<1>1. f = map.dirs[p[1]] /\ folders[f] = p[1] /\ p[1] # None /\ p[1] \in Dirs
  BY <1>0, Kinds, SyncAssumption DEF Current, TableTrue, None
<1>2. task' = [task EXCEPT !.sending[p] = s]
  BY <1>0, <1>1 DEF Send
<1> HIDE DEF f, i, s
<1>3. /\ task'.kind = task.kind /\ task'.scan = task.scan /\ task'.swept = task.swept
      /\ task'.dirs = task.dirs /\ task'.rmdir = task.rmdir /\ task'.todo = task.todo
      /\ task'.drop = task.drop /\ task'.sending = [task.sending EXCEPT ![p] = s]
  BY <1>0, <1>2 DEF Task
<1>4. \A q \in Paths : /\ q = p => task'.sending[q].v = None
                       /\ q # p => task'.sending[q] = task.sending[q]
  BY <1>0, <1>3 DEF Task
<1>5. CASE local.files[p] = None
  <2>1. DropFile(p) /\ ~Settled(p)
    BY <1>5 DEF Send, Settled
  <2> QED BY <1>0, <1>3, <1>4, <2>1, Dropped
<1>6. CASE local.files[p] # None
  <2>1. /\ files' = [files EXCEPT ![i] = [folder |-> f, name |-> p[2], v |-> local.files[p]]]
        /\ map' = [map EXCEPT !.files[p] = [id |-> i, v |-> task.sending[p].v]]
        /\ Same(f, p[2]) = {} => Unused # {}
    BY <1>0, <1>1, <1>6 DEF Send, f, i
  <2>2. /\ i \in Ids
        /\ \A q \in Paths : q # p /\ map.files[q].id # None => map.files[q].id # i
    BY <1>0, <1>1, <2>1, TargetFree DEF i
  <2>3. /\ map'.dirs = map.dirs
        /\ map'.files = [map.files EXCEPT ![p] = [id |-> i, v |-> task.sending[p].v]]
        /\ map.files \in [Paths -> Copy] /\ files \in [Ids -> Row]
    <3>1. [id |-> i, v |-> task.sending[p].v] \in Copy
      BY <1>0, <2>2 DEF Copy, Task
    <3> QED BY <2>1, <3>1, MapFields DEF TypeInv, TypeOK, Mapping
  <2>4. /\ map'.files[p].id = i /\ map'.files[p].v = task.sending[p].v
        /\ files'[i].v = local.files[p]
        /\ \A q \in Paths : q # p => map'.files[q] = map.files[q]
        /\ \A k \in Ids : k # i => files'[k] = files[k]
    BY <2>1, <2>2, <2>3
  <2>5. Steady
    BY <1>0, <1>3, <1>4, GoesOn
  <2>6. \A e \in Dirs : DirOwed(e) => DirOwed(e)'
    BY <1>0, <1>3, <2>3, <2>5 DEF DirOwed
  <2>7. DirsMade' /\ DirsRemoved'
    BY <1>3, <2>3, <2>5, <2>6 DEF Owing, DirsMade, DirsRemoved
  <2>8. FilesMade'
    <3> SUFFICES ASSUME NEW q \in Paths, Settled(q)
                 PROVE  \/ Right(q)' \/ FileDue(0, q, "upsert") \/ FullDue
                        \/ q \in task.todo \/ task'.sending[q].v = local.files[q]
                        \/ q[1] \in task.rmdir
      BY <1>0, <1>3, <2>5 DEF FilesMade
    <3>1. CASE q = p
      <4>1. task.sending[p].v # None
        BY <1>0 DEF TypeInv, Sends, f
      <4>2. CASE task.sending[p].v = local.files[p]
        BY <1>0, <2>4, <3>1, <4>2 DEF Right
      <4>3. CASE task.sending[p].v # local.files[p]
        BY <3>1, <4>1, <4>3 DEF Owing, Resent
      <4> QED BY <4>2, <4>3
    <3>2. CASE q # p
      <4>1. Right(q) => Right(q)'
        <5> SUFFICES ASSUME Right(q) PROVE Right(q)'
          OBVIOUS
        <5>1. map.files[q].id # None /\ map.files[q].id \in Ids
          BY <2>3 DEF Right, Settled, TypeInv, Whole, Copy
        <5> QED BY <1>0, <2>2, <2>4, <3>2, <5>1 DEF Right
      <4> QED BY <1>4, <3>2, <4>1 DEF Owing, FilesMade
    <3> QED BY <3>1, <3>2
  <2>9. FilesRemoved'
    <3> SUFFICES ASSUME NEW q \in Paths, map'.files[q].id # None, local.files[q] = None,
                        seen.files[q] = None
                 PROVE  FileOwed(q)'
      BY <1>0 DEF FilesRemoved
    <3>1. FileOwed(q)
      BY <1>6, <2>4 DEF Owing, FilesRemoved
    <3> QED BY <1>0, <1>3, <2>5, <2>6, <3>1, Kinds DEF FileOwed
  <2>10. Tidy'
    BY <1>3 DEF Owing, Tidy
  <2> QED BY <2>5, <2>7, <2>8, <2>9, <2>10 DEF Owing
<1> QED BY <1>5, <1>6

\* The clean-up of a full sync takes over what its scan did not show.
LEMMA SweepOwes ==
  ASSUME TypeInv, TableTrue, Owing, lost' = {}, Sweep
  PROVE  Owing'
<1> USE DEF Steady
<1>0. /\ task \in Task /\ task.kind = "full" /\ ~task.swept /\ task.drop = {} /\ task.rmdir = {}
      /\ UNCHANGED <<local, seen, pending, queue, timers, map, folders, files>>
  BY DEF Sweep, Rest, remote, TypeInv, TypeOK, Owing, Tidy
<1>1. task' = [task EXCEPT !.swept = TRUE, !.drop = Stale.files, !.rmdir = Stale.dirs]
  BY DEF Sweep
<1>2. /\ task'.kind = task.kind /\ task'.scan = task.scan /\ task'.swept
      /\ task'.dirs = task.dirs /\ task'.todo = task.todo /\ task'.sending = task.sending
      /\ task'.drop = Stale.files /\ task'.rmdir = Stale.dirs
  BY <1>0, <1>1 DEF Task
<1>3. Steady
  BY <1>0, <1>2, GoesOn
<1>4. ASSUME NEW e \in Dirs, map.dirs[e] # None, DirOwed(e) PROVE DirOwed(e)'
  <2>1. e \notin task.scan.dirs => e \in task'.rmdir
    BY <1>2, <1>4 DEF Stale
  <2> QED BY <1>0, <1>3, <1>4, <2>1 DEF DirOwed
<1>5. DirsMade' /\ DirsRemoved'
  BY <1>0, <1>2, <1>3, <1>4 DEF Owing, DirsMade, DirsRemoved
<1>6. FilesMade'
  BY <1>0, <1>2, <1>3 DEF Owing, FilesMade, Right
<1>7. FilesRemoved'
  <2> SUFFICES ASSUME NEW p \in Paths, map.files[p].id # None, FileOwed(p) PROVE FileOwed(p)'
    BY <1>0 DEF Owing, FilesRemoved
  <2>1. DirOwed(p[1]) => DirOwed(p[1])'
    BY <1>4, OneEntry, Kinds
  <2>2. task.scan.files[p] = None => p \in task'.drop
    BY <1>2 DEF Stale
  <2> QED BY <1>0, <1>3, <2>1, <2>2 DEF FileOwed
<1>8. Tidy'
  BY <1>0, <1>2 DEF Tidy
<1> QED BY <1>3, <1>5, <1>6, <1>7, <1>8 DEF Owing

LEMMA FinishOwes ==
  ASSUME TypeInv, Owing, Finish
  PROVE  Owing'
<1> USE DEF Steady
<1>1. /\ task' = NoTask /\ task.dirs = {} /\ task.todo = {} /\ task.drop = {} /\ task.rmdir = {}
      /\ task.kind = "full" => task.swept
      /\ \A p \in Paths : task.sending[p].v = None
      /\ UNCHANGED <<local, seen, pending, queue, timers, map, folders, files>>
  BY DEF Finish, Uploaded, NoSending, NotSending, Rest, remote
<1>2. Steady
  BY <1>1, Kinds, GoesOn
<1>3. \A e \in Dirs : DirOwed(e) => DirOwed(e)'
  BY <1>1, <1>2 DEF DirOwed
<1>4. DirsMade' /\ DirsRemoved'
  BY <1>1, <1>2, <1>3 DEF Owing, DirsMade, DirsRemoved
<1>5. FilesMade'
  BY <1>1, <1>2 DEF Owing, FilesMade, Right, Settled
<1>6. FilesRemoved'
  BY <1>1, <1>2, <1>3, Kinds DEF Owing, FilesRemoved, FileOwed
<1>7. Tidy'
  BY <1>1, Kinds DEF Tidy
<1> QED BY <1>2, <1>4, <1>5, <1>6, <1>7 DEF Owing

\* A folder is removed: if it is back, a report will bring it up again.
LEMMA RemovesDirOwe ==
  ASSUME TypeInv, TableTrue, Owing, lost' = {}, NEW d \in Dirs, RemoveDir(d)
  PROVE  Owing'
<1> USE DEF Steady
<1> DEFINE i == map.dirs[d]
<1>0. /\ ~Fails /\ ~Forgotten(d) /\ task \in Task /\ task' = [task EXCEPT !.rmdir = @ \ {d}]
      /\ d \in task.rmdir /\ task.dirs = {} /\ task.drop = {} /\ task.todo = {}
      /\ \A p \in Paths : task.sending[p].v = None
      /\ UNCHANGED <<local, seen, pending, queue, timers>>
  <2>1. ~Fails /\ "recreated" \notin lost'
    BY DEF Fails, Trouble
  <2> QED BY <2>1 DEF RemoveDir, Uploaded, NoSending, NotSending, Rest, TypeInv, TypeOK
<1>1. /\ task'.kind = task.kind /\ task'.scan = task.scan /\ task'.swept = task.swept
      /\ task'.dirs = task.dirs /\ task'.todo = task.todo /\ task'.drop = task.drop
      /\ task'.sending = task.sending /\ task'.rmdir = task.rmdir \ {d}
  BY <1>0 DEF Task
<1>2. /\ \A e \in Dirs : map'.dirs[e] = IF e = d THEN None ELSE map.dirs[e]
      /\ \A p \in Paths : map'.files[p] = IF p[1] = d THEN NoCopy ELSE map.files[p]
      /\ NoCopy.id = None /\ map.files \in [Paths -> Copy]
  BY DEF RemoveDir, TypeInv, TypeOK, Mapping, NoCopy
<1>3. \A k \in Ids : i = None \/ files[k].folder # i => files'[k] = files[k]
  BY <1>0 DEF RemoveDir
<1>4. Steady
  BY <1>0, <1>1, GoesOn
<1>5. ASSUME NEW e \in Dirs, e # d, DirOwed(e) PROVE DirOwed(e)'
  BY <1>0, <1>1, <1>2, <1>4, <1>5 DEF DirOwed
<1>6. DirsMade'
  <2>1. Known(d) => DirDue(0, d, "upsert")
    BY <1>0, StillDue
  <2> QED BY <1>1, <1>2, <1>4, <2>1 DEF Owing, DirsMade
<1>7. DirsRemoved'
  BY <1>2, <1>4, <1>5 DEF Owing, DirsRemoved
<1>8. FilesMade'
  <2> SUFFICES ASSUME NEW p \in Paths, Settled(p)
               PROVE  \/ Right(p)' \/ FileDue(0, p, "upsert") \/ FullDue
                      \/ p[1] \in task'.rmdir
    BY <1>4 DEF FilesMade
  <2>1. CASE p[1] = d
    BY <1>0, <2>1, StillDue
  <2>2. CASE p[1] # d
    <3>1. Right(p) => Right(p)'
      <4> SUFFICES ASSUME Right(p) PROVE Right(p)'
        OBVIOUS
      <4>1. map.files[p].id # None /\ map.files[p].id \in Ids
        BY <1>2 DEF Right, Settled, TypeInv, Whole, Copy
      <4>2. files[map.files[p].id].folder = map.dirs[p[1]] /\ map.dirs[p[1]] # None
        BY <4>1, OneEntry DEF TableTrue
      <4>3. map.dirs[p[1]] # i
        BY <2>2, <4>2, OneEntry, Kinds
      <4>4. files'[map.files[p].id] = files[map.files[p].id]
        BY <1>3, <4>1, <4>2, <4>3
      <4> QED BY <1>0, <1>2, <2>2, <4>4 DEF Right
    <3> QED BY <1>0, <1>1, <2>2, <3>1 DEF Owing, FilesMade, Settled
  <2> QED BY <2>1, <2>2
<1>9. FilesRemoved'
  <2> SUFFICES ASSUME NEW p \in Paths, map'.files[p].id # None, local.files[p] = None,
                      seen.files[p] = None
               PROVE  FileOwed(p)'
    BY <1>0 DEF FilesRemoved
  <2>1. p[1] # d /\ map.files[p].id # None /\ p[1] \in Dirs
    BY <1>2, Kinds
  <2>2. FileOwed(p)
    BY <2>1 DEF Owing, FilesRemoved
  <2> QED BY <1>0, <1>1, <1>4, <1>5, <2>1, <2>2 DEF FileOwed
<1>10. Tidy'
  BY <1>0, <1>1 DEF Owing, Tidy
<1> QED BY <1>4, <1>6, <1>7, <1>8, <1>9, <1>10 DEF Owing

\* A folder's row is renamed: if the old folder is back, a report will bring it up again.
LEMMA RenameOwes ==
  ASSUME TypeInv, TableTrue, Current, Owing, lost' = {}, NEW d \in Dirs, NEW o \in Dirs,
         Rename(d, o)
  PROVE  Owing'
<1> USE DEF Steady
<1>0. /\ ~Fails /\ task \in Task /\ task.kind = "batch" /\ d \in task.dirs
      /\ timers[o] # NoTimer /\ timers' = [timers EXCEPT ![o] = NoTimer]
      /\ UNCHANGED <<local, seen, pending, queue, files>>
  BY DEF Fails, Trouble, Rename, NextDir, MayRename, Matches, Rest, TypeInv, TypeOK
<1>1. \A e \in Dirs : e # o => timers'[e] = timers[e]
  BY <1>0 DEF TypeInv, TypeOK
<1>2. CASE folders[timers[o].id] = None /\ UNCHANGED <<map, folders>>
           /\ task' = [task EXCEPT !.tried = TRUE]
  <2>1. /\ task'.kind = task.kind /\ task'.scan = task.scan /\ task'.swept = task.swept
        /\ task'.dirs = task.dirs /\ task'.todo = task.todo /\ task'.drop = task.drop
        /\ task'.sending = task.sending /\ task'.rmdir = task.rmdir
    BY <1>0, <1>2 DEF Task
  <2>2. Steady
    BY <1>0, <2>1, GoesOn
  <2>3. \A e \in Dirs : map.dirs[e] # None => folders[map.dirs[e]] # None
    BY SyncAssumption DEF TableTrue, None
  <2>4. ASSUME NEW e \in Dirs, map.dirs[e] # None, DirOwed(e) PROVE DirOwed(e)'
    <3>1. e = o => timers[e].id # map.dirs[e]
      BY <1>2, <2>3, <2>4
    <3> QED BY <1>1, <1>2, <2>1, <2>2, <2>4, <3>1 DEF DirOwed
  <2>5. DirsMade' /\ DirsRemoved'
    BY <1>2, <2>1, <2>2, <2>4 DEF Owing, DirsMade, DirsRemoved
  <2>6. FilesMade'
    BY <1>0, <1>2, <2>1, <2>2 DEF Owing, FilesMade, Right
  <2>7. FilesRemoved'
    <3> SUFFICES ASSUME NEW p \in Paths, map.files[p].id # None, FileOwed(p) PROVE FileOwed(p)'
      BY <1>0, <1>2 DEF Owing, FilesRemoved
    <3>1. DirOwed(p[1]) => DirOwed(p[1])'
      BY <2>4, OneEntry, Kinds
    <3> QED BY <1>0, <2>1, <2>2, <3>1 DEF FileOwed
  <2>8. Tidy'
    BY <2>1 DEF Owing, Tidy
  <2> QED BY <2>2, <2>5, <2>6, <2>7, <2>8 DEF Owing
<1>3. CASE /\ folders[timers[o].id] # None /\ map' = Moved(o, d)
           /\ task' = [task EXCEPT !.dirs = @ \ {d}]
           /\ lost' = lost \cup IF o = d THEN {"inPlace"}
                             ELSE {l \in {"recreated", "overwritten"} :
                                     IF l = "recreated" THEN Forgotten(o) \/ Outgrown(o, d)
                                                        ELSE Mapped(d)}
  <2>1. /\ task'.kind = task.kind /\ task'.scan = task.scan /\ task'.swept = task.swept
        /\ task'.dirs = task.dirs \ {d} /\ task'.todo = task.todo /\ task'.drop = task.drop
        /\ task'.sending = task.sending /\ task'.rmdir = task.rmdir
    BY <1>0, <1>3 DEF Task
  <2>2. Steady
    BY <1>0, <2>1, GoesOn
  <2>3. o # d /\ ~Mapped(d) /\ ~Forgotten(o) /\ ~Outgrown(o, d)
    BY <1>3
  <2>4. map.dirs[o] # None /\ map.dirs[d] = None /\ \A n \in Names : map.files[<<d, n>>].id = None
    BY <1>0, <1>3, <2>3 DEF Current, TypeInv, Waits, Mapped
  <2>5. /\ map'.dirs[o] = None /\ map'.dirs[d] # None
        /\ \A e \in Dirs : e # o /\ e # d => map'.dirs[e] = map.dirs[e]
        /\ \A p \in Paths : /\ p[1] = o => map'.files[p].id = None
                            /\ p[1] = d => map'.files[p].id \in {None, map.files[<<o, p[2]>>].id}
                            /\ p[1] # o /\ p[1] # d => map'.files[p] = map.files[p]
    <3>1. NoCopy.id = None
      BY DEF NoCopy
    <3>2. \A p \in Paths : p[1] = d => map.files[p].id = None
      BY <2>4 DEF Paths
    <3> QED BY <1>3, <2>3, <2>4, <3>1, <3>2 DEF Moved
  <2>6. ASSUME NEW e \in Dirs, e # o, e # d, DirOwed(e) PROVE DirOwed(e)'
    BY <1>1, <2>1, <2>2, <2>5, <2>6 DEF DirOwed
  <2>7. DirsMade'
    <3>1. Known(o) => DirDue(0, o, "upsert") \/ o \in task'.dirs
      BY <1>0, <2>1, <2>3, StillDue
    <3> QED BY <2>1, <2>2, <2>5, <3>1 DEF Owing, DirsMade
  <2>8. DirsRemoved'
    <3> SUFFICES ASSUME NEW e \in Dirs, Gone(e), map'.dirs[e] # None PROVE DirOwed(e)'
      BY <2>2 DEF DirsRemoved
    <3>1. CASE e = d
      <4>1. DirDue(0, d, "delete")
        BY <1>0, <3>1 DEF Owing, DirsLast
      <4> QED BY <2>2, <3>1, <4>1 DEF DirOwed
    <3>2. CASE e # d
      BY <2>5, <2>6, <3>2 DEF Owing, DirsRemoved
    <3> QED BY <3>1, <3>2
  <2>9. FilesMade'
    <3> SUFFICES ASSUME NEW p \in Paths, Settled(p)
                 PROVE  \/ Right(p)' \/ FileDue(0, p, "upsert") \/ FullDue \/ p \in task.todo
                        \/ task.sending[p].v = local.files[p] \/ p[1] \in task.rmdir
      BY <1>0, <2>1, <2>2 DEF FilesMade
    <3>1. CASE p[1] = o
      BY <1>0, <2>3, <3>1, StillDue
    <3>2. CASE p[1] = d
      BY <1>0, <3>2 DEF Owing, WithFiles, Settled
    <3>3. CASE p[1] # o /\ p[1] # d
      BY <1>0, <2>5, <3>3 DEF Owing, FilesMade, Right
    <3> QED BY <3>1, <3>2, <3>3
  <2>10. FilesRemoved'
    <3> SUFFICES ASSUME NEW p \in Paths, map'.files[p].id # None, local.files[p] = None,
                        seen.files[p] = None
                 PROVE  FileOwed(p)'
      BY <1>0 DEF FilesRemoved
    <3>1. p[1] # o
      BY <2>5
    <3>2. p[1] # d
      <4> SUFFICES ASSUME p[1] = d PROVE FALSE
        OBVIOUS
      <4>1. p[2] \in Names /\ p = <<d, p[2]>>
        BY DEF Paths
      <4>2. map.files[<<o, p[2]>>].id # None
        BY <2>5
      <4> QED BY <2>3, <4>1, <4>2 DEF Outgrown
    <3>3. FileOwed(p)
      BY <2>5, <3>1, <3>2 DEF Owing, FilesRemoved
    <3> QED BY <1>0, <2>1, <2>2, <2>6, <3>1, <3>2, <3>3, Kinds DEF FileOwed
  <2>11. Tidy'
    BY <1>0, <2>1 DEF Tidy
  <2> QED BY <2>2, <2>7, <2>8, <2>9, <2>10, <2>11 DEF Owing
<1> QED BY <1>0, <1>2, <1>3 DEF Rename

LEMMA OwingStep ==
  ASSUME TypeInv, TableTrue, Current, Repairing, Owing, lost' = {}, [Next]_vars
  PROVE  Owing'
<1>0. TypeInv'
  BY TypeStep
<1>1. ASSUME User \/ Watcher \/ Timers \/ SyncNow \/ Save \/ Restart \/ UNCHANGED vars PROVE Owing'
  BY <1>0, <1>1, UserOwes, WatchDirOwes, WatchFileOwes, DebounceOwes, QueueOwes, RestOwes
     DEF Watcher, Timers
<1>2. ASSUME StartBatch \/ StartFull \/ StartRemove \/ Sweep \/ Finish PROVE Owing'
  BY <1>2, BatchOwes, FullOwes, RemoveOwes, SweepOwes, FinishOwes
<1>3. ASSUME NEW d \in Dirs, EnsureDir(d) \/ RemoveDir(d) \/ \E o \in Dirs : Rename(d, o) PROVE Owing'
  BY <1>3, MakesOwe, RemovesDirOwe, RenameOwes
<1>4. ASSUME NEW p \in Paths, StatFile(p) \/ MakeParent(p) \/ Send(p) \/ RemoveFile(p) PROVE Owing'
  BY <1>4, MakesOwe, StatOwes, SendOwes, RemovesFileOwe
<1> QED BY <1>1, <1>2, <1>3, <1>4, Cause DEF Next, Engine

--------------------------------------------------------------------------------
(* The table has every row. *)

\* The path of a row, and the entry that it has.
LEMMA RowPath ==
  ASSUME TypeInv, RowsMapped, NEW i \in Ids, files[i] # NoRow
  PROVE  \E f \in Ids, d \in Dirs, n \in Names :
           /\ files[i].folder = f /\ folders[f] = d /\ files[i].name = n /\ i # None /\ f # None
           /\ map.dirs[d] = f /\ <<d, n>> \in Paths /\ map.files[<<d, n>>].id = i
<1>1. /\ files[i].folder # None /\ folders[files[i].folder] # None /\ files[i].name # None
      /\ map.files[<<folders[files[i].folder], files[i].name>>].id = i
  BY DEF RowsMapped
<1>2. files[i].folder \in Ids /\ files[i].name \in Names
  BY <1>1 DEF TypeInv, TypeOK, Row
<1>3. folders[files[i].folder] \in Dirs /\ map.dirs[folders[files[i].folder]] = files[i].folder
  BY <1>1, <1>2 DEF TypeInv, TypeOK, RowsMapped
<1>4. i # None
  BY DEF Ids, None
<1> QED BY <1>1, <1>2, <1>3, <1>4 DEF Paths

LEMMA RowsDropped ==
  ASSUME TypeInv, RowsMapped, NEW p \in Paths, DropFile(p), ~Fails, UNCHANGED folders
  PROVE  RowsMapped'
<1>1. /\ map'.dirs = map.dirs /\ map'.files = [map.files EXCEPT ![p] = NoCopy]
      /\ map.files \in [Paths -> Copy]
  BY DropType DEF TypeInv, TypeOK, Mapping
<1>2. ASSUME NEW i \in Ids, files'[i] # NoRow
      PROVE  /\ files'[i] = files[i] /\ files[i] # NoRow /\ map.files[p].id # i
  <2>1. i # None
    BY DEF Ids, None
  <2>2. CASE UNCHANGED files /\ (map.files[p].id = None \/ files[map.files[p].id] = NoRow)
    BY <1>2, <2>1, <2>2
  <2>3. CASE files' = [files EXCEPT ![map.files[p].id] = NoRow]
    BY <1>2, <2>3 DEF TypeInv, TypeOK
  <2> QED BY <2>2, <2>3 DEF DropFile
<1>3. ASSUME NEW i \in Ids, files'[i] # NoRow
      PROVE  /\ files'[i].folder # None /\ folders[files'[i].folder] # None /\ files'[i].name # None
             /\ map'.files[<<folders[files'[i].folder], files'[i].name>>].id = i
  <2>1. files'[i] = files[i] /\ files[i] # NoRow /\ map.files[p].id # i
    BY <1>2, <1>3
  <2>2. /\ files[i].folder # None /\ folders[files[i].folder] # None /\ files[i].name # None
        /\ map.files[<<folders[files[i].folder], files[i].name>>].id = i
        /\ <<folders[files[i].folder], files[i].name>> \in Paths
    BY <2>1, RowPath DEF RowsMapped
  <2> QED BY <1>1, <2>1, <2>2
<1> QED BY <1>1, <1>3 DEF RowsMapped

LEMMA RowsMade ==
  ASSUME TypeInv, RowsMapped, NEW d \in Dirs, map.dirs[d] = None, Unused # {},
         folders' = [folders EXCEPT ![Fresh] = d], map' = [map EXCEPT !.dirs[d] = Fresh],
         UNCHANGED files
  PROVE  RowsMapped'
<1>1. /\ map'.files = map.files /\ map'.dirs = [map.dirs EXCEPT ![d] = Fresh]
      /\ Fresh \in Ids /\ folders[Fresh] = None
      /\ map.dirs \in [Dirs -> Ids \cup {None}] /\ folders \in [Ids -> Dirs \cup {None}]
      /\ d # None
  BY FreshUnused, MapFields, SyncAssumption DEF TypeInv, TypeOK, Unused, Mapping, None
<1>2. ASSUME NEW i \in Ids, folders'[i] # None PROVE map'.dirs[folders'[i]] = i
  <2>1. CASE i = Fresh
    BY <1>1, <2>1
  <2>2. CASE i # Fresh
    <3>1. folders'[i] = folders[i] /\ folders[i] # None /\ map.dirs[folders[i]] = i /\ folders[i] \in Dirs
      BY <1>1, <1>2, <2>2 DEF RowsMapped
    <3>2. folders[i] # d
      BY <3>1 DEF Ids, None
    <3> QED BY <1>1, <3>1, <3>2
  <2> QED BY <2>1, <2>2
<1>3. ASSUME NEW i \in Ids, files[i] # NoRow
      PROVE  /\ files[i].folder # None /\ folders'[files[i].folder] # None /\ files[i].name # None
             /\ map'.files[<<folders'[files[i].folder], files[i].name>>].id = i
  <2>1. PICK f \in Ids, e \in Dirs, n \in Names :
          /\ files[i].folder = f /\ folders[f] = e /\ files[i].name = n /\ i # None /\ f # None
          /\ map.dirs[e] = f /\ <<e, n>> \in Paths /\ map.files[<<e, n>>].id = i
    BY <1>3, RowPath
  <2>2. e # None /\ n # None
    BY SyncAssumption DEF None
  <2> QED BY <1>1, <2>1, <2>2
<1> QED BY <1>2, <1>3 DEF RowsMapped

LEMMA RowsRenamed ==
  ASSUME TypeInv, TableTrue, Current, RowsMapped, NEW d \in Dirs, NEW o \in Dirs, o # d, ~Mapped(d),
         timers[o] # NoTimer, folders[timers[o].id] # None,
         folders' = [folders EXCEPT ![timers[o].id] = d], map' = Moved(o, d), UNCHANGED files
  PROVE  RowsMapped'
<1> DEFINE k == timers[o].id
<1>1. k = map.dirs[o] /\ k \in Ids /\ k # None /\ folders[k] = o /\ map.dirs[d] = None
      /\ folders \in [Ids -> Dirs \cup {None}] /\ d # None
  BY SyncAssumption DEF Current, Waits, TypeInv, TypeOK, TableTrue, Mapped, None
<1>2. /\ \A e \in Dirs : map'.dirs[e] = IF e = o THEN None ELSE IF e = d THEN k ELSE map.dirs[e]
      /\ \A p \in Paths : /\ p[1] = d /\ map.files[<<o, p[2]>>].id # None
                               => map'.files[p] = map.files[<<o, p[2]>>]
                          /\ p[1] # o /\ p[1] # d => map'.files[p] = map.files[p]
  BY <1>1 DEF Moved
<1> HIDE DEF k
<1>3. folders' = [folders EXCEPT ![k] = d]
  BY DEF k
<1>4. ASSUME NEW i \in Ids, folders'[i] # None PROVE map'.dirs[folders'[i]] = i
  <2>1. CASE i = k
    BY <1>1, <1>2, <1>3, <2>1
  <2>2. CASE i # k
    <3>1. folders'[i] = folders[i] /\ folders[i] \in Dirs /\ map.dirs[folders[i]] = i /\ i # None
      BY <1>1, <1>3, <1>4, <2>2 DEF RowsMapped, Ids, None
    <3> QED BY <1>1, <1>2, <2>2, <3>1
  <2> QED BY <2>1, <2>2
<1>5. ASSUME NEW i \in Ids, files[i] # NoRow
      PROVE  /\ files[i].folder # None /\ folders'[files[i].folder] # None /\ files[i].name # None
             /\ map'.files[<<folders'[files[i].folder], files[i].name>>].id = i
  <2>1. PICK f \in Ids, e \in Dirs, n \in Names :
          /\ files[i].folder = f /\ folders[f] = e /\ files[i].name = n /\ i # None /\ f # None
          /\ map.dirs[e] = f /\ <<e, n>> \in Paths /\ map.files[<<e, n>>].id = i
    BY <1>5, RowPath
  <2>2. e # None /\ n # None /\ <<d, n>> \in Paths /\ <<e, n>> \in Paths
    BY SyncAssumption DEF None, Paths
  <2>3. CASE f = k
    <3>1. e = o /\ folders'[f] = d
      BY <1>1, <1>3, <2>1, <2>3
    <3>2. map'.files[<<d, n>>] = map.files[<<o, n>>]
      BY <1>2, <2>1, <2>2, <3>1
    <3> QED BY <1>1, <2>1, <2>2, <3>1, <3>2
  <2>4. CASE f # k
    <3>1. folders'[f] = e /\ e # o /\ e # d
      BY <1>1, <1>3, <2>1, <2>4
    <3>2. map'.files[<<e, n>>] = map.files[<<e, n>>]
      BY <1>2, <2>2, <3>1
    <3> QED BY <2>1, <2>2, <3>1, <3>2
  <2> QED BY <2>3, <2>4
<1> QED BY <1>4, <1>5 DEF RowsMapped

LEMMA RowsSent ==
  ASSUME TypeInv, TableTrue, Current, RowsMapped, NEW p \in Paths, NEW f \in Ids,
         f = task.sending[p].folder, Same(f, p[2]) = {} => Unused # {},
         files' = [files EXCEPT ![Target(f, p[2])] =
                     [folder |-> f, name |-> p[2], v |-> local.files[p]]],
         map' = [map EXCEPT !.files[p] = [id |-> Target(f, p[2]), v |-> task.sending[p].v]],
         UNCHANGED folders
  PROVE  RowsMapped'
<1> DEFINE k == Target(f, p[2])
           c == [id |-> k, v |-> task.sending[p].v]
<1>1. /\ f = map.dirs[p[1]] /\ f # None /\ p[1] \in Dirs /\ p[2] \in Names
      /\ p = <<p[1], p[2]>> /\ folders[f] = p[1] /\ p[1] # None /\ p[2] # None
  BY SyncAssumption DEF Current, Ids, None, Paths, TableTrue
<1>2. k \in Ids /\ (Same(f, p[2]) # {} => k \in Same(f, p[2]))
  BY <1>1, TargetFree DEF Target
<1>3. c \in Copy /\ c.id = k
  BY <1>2 DEF Copy, TypeInv, TypeOK, Task
<1> HIDE DEF k, c
<1>4. map'.dirs = map.dirs /\ map'.files = [map.files EXCEPT ![p] = c]
      /\ map.files \in [Paths -> Copy] /\ files \in [Ids -> Row]
      /\ files' = [files EXCEPT ![k] = [folder |-> f, name |-> p[2], v |-> local.files[p]]]
  BY <1>3, MapFields DEF TypeInv, TypeOK, Mapping, k, c
<1>5. ASSUME NEW i \in Ids, files'[i] # NoRow
      PROVE  /\ files'[i].folder # None /\ folders[files'[i].folder] # None /\ files'[i].name # None
             /\ map'.files[<<folders[files'[i].folder], files'[i].name>>].id = i
  <2>1. CASE i = k
    BY <1>1, <1>2, <1>3, <1>4, <2>1
  <2>2. CASE i # k
    <3>0. files'[i] = files[i] /\ files[i] # NoRow
      BY <1>4, <1>5, <2>2
    <3>1. PICK g \in Ids, e \in Dirs, n \in Names :
            /\ files[i].folder = g /\ folders[g] = e /\ files[i].name = n /\ i # None /\ g # None
            /\ map.dirs[e] = g /\ <<e, n>> \in Paths /\ map.files[<<e, n>>].id = i
      BY <3>0, RowPath
    <3>2. e # None /\ n # None
      BY SyncAssumption DEF None
    <3>3. <<e, n>> # p
      <4> SUFFICES ASSUME <<e, n>> = p PROVE FALSE
        OBVIOUS
      <4>1. e = p[1] /\ n = p[2]
        OBVIOUS
      <4>2. i \in Same(f, p[2])
        BY <1>1, <3>1, <4>1 DEF Same
      <4>3. files[k].folder = f /\ files[k].name = p[2]
        BY <1>2, <4>2 DEF Same
      <4>4. files[k] # NoRow
        BY <1>1, <4>3 DEF NoRow
      <4>5. map.files[<<folders[f], p[2]>>].id = k
        BY <1>2, <4>3, <4>4 DEF RowsMapped
      <4> QED BY <1>1, <2>2, <3>1, <4>5
    <3> QED BY <1>4, <3>0, <3>1, <3>2, <3>3
  <2> QED BY <2>1, <2>2
<1> QED BY <1>4, <1>5 DEF RowsMapped

LEMMA RowsRemoved ==
  ASSUME TypeInv, TableTrue, RowsMapped, NEW d \in Dirs, RemoveDir(d), ~Fails
  PROVE  RowsMapped'
<1> DEFINE k == map.dirs[d]
<1>1. /\ \A e \in Dirs : e # d => map'.dirs[e] = map.dirs[e]
      /\ \A p \in Paths : p[1] # d => map'.files[p] = map.files[p]
      /\ folders \in [Ids -> Dirs \cup {None}] /\ files \in [Ids -> Row]
  BY DEF RemoveDir, TypeInv, TypeOK, Mapping
<1>2. \/ k = None /\ UNCHANGED <<folders, files>>
      \/ /\ k \in Ids /\ folders' = [folders EXCEPT ![k] = None]
         /\ files' = [i \in Ids |-> IF files[i].folder = k THEN NoRow ELSE files[i]]
  <2>1. k # None => k \in Ids /\ folders[k] # None
    BY SyncAssumption DEF TypeInv, TypeOK, Mapping, TableTrue, None
  <2> QED BY <2>1 DEF RemoveDir
<1>3. ASSUME NEW i \in Ids, folders'[i] # None PROVE map'.dirs[folders'[i]] = i
  <2>0. i # None
    BY DEF Ids, None
  <2>1. folders'[i] = folders[i] /\ i # k /\ folders[i] \in Dirs
    <3> HIDE DEF k
    <3> QED BY <1>1, <1>2, <1>3, <2>0
  <2>2. map.dirs[folders[i]] = i
    BY <1>3, <2>1 DEF RowsMapped
  <2> QED BY <1>1, <2>1, <2>2
<1>4. ASSUME NEW i \in Ids, files'[i] # NoRow
      PROVE  /\ files'[i].folder # None /\ folders'[files'[i].folder] # None /\ files'[i].name # None
             /\ map'.files[<<folders'[files'[i].folder], files'[i].name>>].id = i
  <2>1. files'[i] = files[i] /\ files[i] # NoRow /\ (k = None \/ files[i].folder # k)
    BY <1>2, <1>4
  <2>2. PICK f \in Ids, e \in Dirs, n \in Names :
          /\ files[i].folder = f /\ folders[f] = e /\ files[i].name = n /\ i # None /\ f # None
          /\ map.dirs[e] = f /\ <<e, n>> \in Paths /\ map.files[<<e, n>>].id = i
    BY <2>1, RowPath
  <2>3. e # None /\ n # None /\ e # d
    BY <2>1, <2>2, SyncAssumption DEF None
  <2>4. folders'[f] = e
    BY <1>1, <1>2, <2>1, <2>2
  <2> QED BY <1>1, <2>1, <2>2, <2>3, <2>4
<1> QED BY <1>3, <1>4 DEF RowsMapped

LEMMA RowsStep ==
  ASSUME TypeInv, TableTrue, Current, RowsMapped, lost' = {}, [Next]_vars
  PROVE  RowsMapped'
<1>0. ~Fails
  BY DEF Fails, Trouble
<1>1. ASSUME UNCHANGED <<map, folders, files>> PROVE RowsMapped'
  BY <1>1 DEF RowsMapped
<1>2. ASSUME User \/ Watcher \/ Timers \/ SyncNow \/ Save \/ Restart \/ UNCHANGED vars
      PROVE  RowsMapped'
  <2>1. UNCHANGED <<map, folders, files>>
    BY <1>2 DEF User, MakeDir, DeleteDir, RenameDir, DeleteFile, Write, Edit, Watcher, WatchDir,
         WatchFile, Timers, Debounce, GraceOver, SyncNow, Save, Restart, vars, remote
  <2> QED BY <1>1, <2>1
<1>3. ASSUME StartBatch \/ StartFull \/ StartRemove \/ Sweep \/ Finish PROVE RowsMapped'
  <2>1. UNCHANGED <<map, folders, files>>
    BY <1>3 DEF StartBatch, StartFull, StartRemove, Sweep, Finish, Rest, remote
  <2> QED BY <1>1, <2>1
<1>4. ASSUME NEW d \in Dirs, EnsureDir(d) PROVE RowsMapped'
  <2>1. \/ UNCHANGED <<map, folders, files>>
        \/ /\ map.dirs[d] = None /\ Unused # {} /\ folders' = [folders EXCEPT ![Fresh] = d]
           /\ map' = [map EXCEPT !.dirs[d] = Fresh] /\ UNCHANGED files
    BY <1>0, <1>4 DEF EnsureDir
  <2> QED BY <1>1, <2>1, RowsMade
<1>5. ASSUME NEW d \in Dirs, NEW o \in Dirs, Rename(d, o) PROVE RowsMapped'
  <2>1. UNCHANGED files /\ timers[o] # NoTimer
    BY <1>5 DEF Rename, Matches
  <2>2. \/ UNCHANGED <<map, folders>>
        \/ /\ o # d /\ ~Mapped(d) /\ folders[timers[o].id] # None
           /\ folders' = [folders EXCEPT ![timers[o].id] = d] /\ map' = Moved(o, d)
    BY <1>5 DEF Rename
  <2> QED BY <1>1, <2>1, <2>2, RowsRenamed
<1>6. ASSUME NEW d \in Dirs, RemoveDir(d) PROVE RowsMapped'
  BY <1>0, <1>6, RowsRemoved
<1>7. ASSUME NEW p \in Paths, StatFile(p) \/ RemoveFile(p) PROVE RowsMapped'
  <2>1. UNCHANGED folders /\ (DropFile(p) \/ UNCHANGED <<map, files>>)
    BY <1>7 DEF StatFile, RemoveFile
  <2> QED BY <1>0, <1>1, <2>1, RowsDropped
<1>8. ASSUME NEW p \in Paths, MakeParent(p) PROVE RowsMapped'
  <2>1. /\ map.dirs[p[1]] = None /\ Unused # {} /\ folders' = [folders EXCEPT ![Fresh] = p[1]]
        /\ map' = [map EXCEPT !.dirs[p[1]] = Fresh] /\ UNCHANGED files
    BY <1>0, <1>8 DEF MakeParent
  <2> QED BY <2>1, Kinds, RowsMade
<1>9. ASSUME NEW p \in Paths, Send(p) PROVE RowsMapped'
  <2> DEFINE f == task.sending[p].folder
  <2>1. f \in Ids /\ UNCHANGED folders
    BY <1>9 DEF Send, TypeInv, TypeOK, Task
  <2>2. CASE DropFile(p)
    BY <1>0, <2>1, <2>2, RowsDropped
  <2>3. CASE UNCHANGED <<map, files>>
    BY <1>1, <2>1, <2>3
  <2>4. CASE /\ Same(f, p[2]) = {} => Unused # {}
             /\ files' = [files EXCEPT ![Target(f, p[2])] =
                            [folder |-> f, name |-> p[2], v |-> local.files[p]]]
             /\ map' = [map EXCEPT !.files[p] = [id |-> Target(f, p[2]), v |-> task.sending[p].v]]
    BY <2>1, <2>4, RowsSent
  <2> QED BY <1>9, <2>2, <2>3, <2>4 DEF Send
<1> QED BY <1>2, <1>3, <1>4, <1>5, <1>6, <1>7, <1>8, <1>9, Cause DEF Next, Engine

LEMMA MirrorStep ==
  ASSUME MirrorInv, [Next]_vars
  PROVE  MirrorInv'
<1>1. TableInv' /\ RepairInv'
  BY TypeStep, TableStep, RepairStep, LostStays DEF MirrorInv, TableInv, RepairInv, Clean
<1>2. ASSUME lost' = {} PROVE Owing' /\ RowsMapped'
  <2>1. lost = {}
    BY <1>2, LostStays
  <2>2. TypeInv /\ TableTrue /\ Current /\ Repairing /\ Owing /\ RowsMapped
    BY <2>1 DEF MirrorInv, TableInv, RepairInv, Clean
  <2> QED BY <1>2, <2>2, OwingStep, RowsStep
<1> QED BY <1>1, <1>2 DEF MirrorInv

\* At first one folder with one file has been synchronised, and nothing is owed.
LEMMA InitMirror ==
  ASSUME Init
  PROVE  Owing /\ RowsMapped
<1>1. PICK p \in Paths, i \in {1} :
        /\ local = [dirs |-> {p[1]}, files |-> [q \in Paths |-> IF q = p THEN 1 ELSE None]]
        /\ map = [dirs |-> [d \in Dirs |-> IF d = p[1] THEN i ELSE None],
                  files |-> [q \in Paths |-> IF q = p THEN [id |-> i, v |-> 1] ELSE NoCopy]]
        /\ folders = [k \in Ids |-> IF k = i THEN p[1] ELSE None]
        /\ files = [k \in Ids |-> IF k = i THEN [folder |-> i, name |-> p[2], v |-> 1] ELSE NoRow]
  BY DEF Init
<1>2. /\ i \in Ids /\ i # None /\ 1 # None /\ NoCopy.id = None
      /\ p[1] \in Dirs /\ p[2] \in Names /\ p = <<p[1], p[2]>> /\ p[1] # None /\ p[2] # None
  BY SyncAssumption DEF Ids, None, Paths, NoCopy
<1>3. /\ seen = local /\ Len(queue) = 0 /\ task = NoTask
      /\ \A d \in Dirs : pending.dirs[d] = "none"
      /\ \A q \in Paths : pending.files[q] = "none"
      /\ \A k : k \notin 1 .. Len(queue)
  BY DEF Init, Quiet
<1>4. DirsMade /\ DirsRemoved /\ DirsLast
  BY <1>1, <1>2, <1>3, Kinds DEF DirsMade, DirsRemoved, DirsLast, Known, Gone
<1>5. FilesMade
  BY <1>1, <1>2 DEF FilesMade, Settled, Right
<1>6. FilesRemoved
  BY <1>1, <1>2 DEF FilesRemoved
<1>7. FilesLast /\ WithFiles /\ Rescanned /\ Resent /\ Tidy
  BY <1>3, Kinds DEF FilesLast, WithFiles, Rescanned, Resent, Tidy
<1>8. Reported
  BY <1>1, <1>2, <1>3 DEF Reported
<1>9. RowsMapped
  BY <1>1, <1>2 DEF RowsMapped
<1> QED BY <1>4, <1>5, <1>6, <1>7, <1>8, <1>9 DEF Owing

\* Whatever the user has done to the tree, and however batches, held-back deletions,
\* renames and full syncs have interleaved with it, a client that has nothing left to do
\* has the tree on the server and nothing else, unless one of the losses that the model
\* names has happened.
THEOREM MirrorCorrect == Spec => []Mirror
<1>1. Init => MirrorInv
  <2> SUFFICES ASSUME Init PROVE MirrorInv
    OBVIOUS
  <2>1. TableTrue /\ Current /\ Repairing
    <3>1. PICK p \in Paths, i \in {1} :
            /\ map = [dirs |-> [d \in Dirs |-> IF d = p[1] THEN i ELSE None],
                      files |-> [q \in Paths |-> IF q = p THEN [id |-> i, v |-> 1] ELSE NoCopy]]
            /\ folders = [k \in Ids |-> IF k = i THEN p[1] ELSE None]
            /\ files = [k \in Ids |-> IF k = i THEN [folder |-> i, name |-> p[2], v |-> 1] ELSE NoRow]
      BY DEF Init
    <3>2. i \in Ids /\ p[1] \in Dirs
      BY SyncAssumption DEF Ids, Paths
    <3>3. TableTrue
      BY <3>1, <3>2 DEF TableTrue, NoCopy
    <3>4. Current /\ Repairing
      BY DEF Init, Current, Repairing, NoTask, NotSending
    <3> QED BY <3>3, <3>4
  <2> QED BY <2>1, InitType, InitMirror DEF MirrorInv, TableInv, RepairInv
<1>2. MirrorInv /\ [Next]_vars => MirrorInv'
  BY MirrorStep
<1>3. MirrorInv => Mirror
  <2> SUFFICES ASSUME MirrorInv, Idle, lost = {}
               PROVE  /\ AllUploaded
                      /\ \A i \in Ids : folders[i] # None => folders[i] \in local.dirs /\ map.dirs[folders[i]] = i
                      /\ \A d \in local.dirs : map.dirs[d] # None
                      /\ \A i \in Ids : files[i] # NoRow =>
                           /\ folders[files[i].folder] # None
                           /\ local.files[<<folders[files[i].folder], files[i].name>>] = files[i].v
    BY DEF Mirror
  <2>1. TypeInv /\ TableTrue /\ Owing /\ RowsMapped
    BY DEF MirrorInv, TableInv, Clean
  <2>2. /\ seen = local /\ task = NoTask /\ \A k : k \notin 1 .. Len(queue)
        /\ \A d \in Dirs : pending.dirs[d] = "none" /\ timers[d] = NoTimer
        /\ \A p \in Paths : pending.files[p] = "none"
    BY DEF Idle, Quiet
  <2>3. ~FullDue /\ \A d \in Dirs, e \in {"upsert", "delete"} : ~DirDue(0, d, e) /\ ~RemoveDue(d)
    BY <2>2 DEF FullDue, DirDue, RemoveDue
  <2>4. \A p \in Paths, e \in {"upsert", "delete"} : ~FileDue(0, p, e)
    BY <2>2 DEF FileDue
  <2>5. \A d \in Dirs : ~DirOwed(d)
    BY <2>2, <2>3, Kinds DEF DirOwed
  <2>6. \A p \in Paths : local.files[p] # None => Right(p)
    BY <2>1, <2>2, <2>3, <2>4, Kinds DEF Owing, FilesMade, Settled
  <2>7. \A p \in Paths : local.files[p] = None => map.files[p].id = None
    BY <2>1, <2>2, <2>4, <2>5, Kinds DEF Owing, FilesRemoved, FileOwed
  <2>8. AllUploaded
    BY <2>1, <2>6, TrueEntry DEF AllUploaded, Right, Mistaken
  <2>9. ASSUME NEW i \in Ids, folders[i] # None
        PROVE  folders[i] \in local.dirs /\ map.dirs[folders[i]] = i
    <3>1. folders[i] \in Dirs /\ map.dirs[folders[i]] = i /\ i # None
      BY <2>1, <2>9 DEF RowsMapped, TypeInv, TypeOK, Ids, None
    <3> QED BY <2>1, <2>2, <2>5, <3>1 DEF Owing, DirsRemoved, Gone
  <2>10. ASSUME NEW d \in local.dirs PROVE map.dirs[d] # None
    <3>1. d \in Dirs
      BY <2>1 DEF TypeInv, TypeOK, Tree
    <3> QED BY <2>1, <2>2, <2>3, <3>1, Kinds DEF Owing, DirsMade, Known
  <2>11. ASSUME NEW i \in Ids, files[i] # NoRow
         PROVE  /\ folders[files[i].folder] # None
                /\ local.files[<<folders[files[i].folder], files[i].name>>] = files[i].v
    <3>1. PICK f \in Ids, e \in Dirs, n \in Names :
            /\ files[i].folder = f /\ folders[f] = e /\ files[i].name = n /\ i # None /\ f # None
            /\ map.dirs[e] = f /\ <<e, n>> \in Paths /\ map.files[<<e, n>>].id = i
      BY <2>1, <2>11, RowPath
    <3>2. e # None
      BY SyncAssumption DEF None
    <3>3. Right(<<e, n>>)
      BY <2>6, <2>7, <3>1
    <3> QED BY <3>1, <3>2, <3>3 DEF Right
  <2> QED BY <2>8, <2>9, <2>10, <2>11
<1> QED BY <1>1, <1>2, <1>3, PTL DEF Spec
================================================================================
