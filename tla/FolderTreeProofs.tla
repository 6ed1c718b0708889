---------------------------- MODULE FolderTreeProofs ----------------------------
(***************************************************************************)
(* Theorems about the folder tree, for any number of folders and handlers: *)
(* types; the folders stay a forest as long as one handler at most moves   *)
(* folders; and, with any number of movers, parents exist, nothing live is *)
(* hidden below a trashed folder, and purges remove trashed folders only.  *)
(***************************************************************************)
EXTENDS FolderTree, TLAPS

USE TreeAssumption DEF Folders

--------------------------------------------------------------------------------
(* Type correctness. *)

LEMMA TypeInit == Init => TypeOK
  BY DEF Init, TypeOK, Ids, Kinds, Request, Idle

LEMMA FinishType ==
  ASSUME TypeOK, NEW w \in Workers, Finish(w)
  PROVE  req' \in [Workers -> Request]
  BY DEF TypeOK, Finish, Request

LEMMA NoteType ==
  ASSUME TypeOK, NEW k \in Kinds, NEW b \in BOOLEAN, Note(k, b)
  PROVE  lost' \subseteq Kinds
  BY DEF TypeOK, Note

LEMMA InsertType ==
  ASSUME TypeOK, NEW p, Insert(p)
  PROVE  /\ Folders' = Folders \cup {nextId}
         /\ Folders' \subseteq Ids
         /\ parent' \in [Folders' -> Ids \cup {Root}]
         /\ nextId' \in 1 .. MaxId + 1
         /\ trashed' \subseteq Folders'
  BY DEF TypeOK, Insert, Ids, Root

LEMMA TypeStep ==
  ASSUME TypeOK, [Next]_vars
  PROVE  TypeOK'
<1>1. CASE UNCHANGED vars
  BY <1>1 DEF TypeOK, vars
<1>2. ASSUME NEW w \in Workers, NEW p \in Folders, CreateRead(w, p) PROVE TypeOK'
  <2>1. [op |-> "create", dest |-> p] \in Request
    BY DEF TypeOK, Request, PutReq
  <2>. QED
    BY <1>2, <2>1 DEF CreateRead, Reads, TypeOK
<1>3. ASSUME NEW w \in Workers, CreateCommit(w) PROVE TypeOK'
  <2>1. req' \in [Workers -> Request] /\ lost' \subseteq Kinds
    BY <1>3, FinishType DEF CreateCommit, Note, TypeOK, Kinds
  <2>. QED
    BY <1>3, <2>1, InsertType DEF CreateCommit, TypeOK
<1>4. ASSUME NEW w \in Workers, CreateTop(w) PROVE TypeOK'
  BY <1>4, InsertType DEF CreateTop, TypeOK
<1>5. ASSUME NEW w \in Workers, NEW f \in Folders, NEW p \in Folders \cup {Root},
             MoveRead(w, f, p)
      PROVE  TypeOK'
  <2>1. [op |-> "move", folder |-> f, dest |-> p] \in Request
    BY DEF TypeOK, Request, MoveReq
  <2>. QED
    BY <1>5, <2>1 DEF MoveRead, Reads, TypeOK
<1>6. ASSUME NEW w \in Workers, MoveCommit(w) PROVE TypeOK'
  <2>1. req' \in [Workers -> Request] /\ lost' \subseteq Kinds
    BY <1>6, FinishType DEF MoveCommit, Note, TypeOK, Kinds
  <2>2. PICK p \in Folders \cup {Root} : parent' = [parent EXCEPT ![req[w].folder] = p]
    BY <1>6 DEF MoveCommit
  <2>3. Folders' = Folders /\ parent' \in [Folders -> Ids \cup {Root}]
    BY <2>2 DEF TypeOK
  <2>. QED
    BY <1>6, <2>1, <2>3 DEF MoveCommit, TypeOK
<1>7. ASSUME NEW w \in Workers, NEW f \in Folders,
             NEW o \in {"trash", "restore", "purge"}, TreeRead(w, o, f)
      PROVE  TypeOK'
  <2>1. [op |-> o, folder |-> f, ids |-> Subtree(f)] \in Request
    <3>1. Subtree(f) \in SUBSET Ids
      BY DEF TypeOK, Subtree
    <3>2. f \in Ids
      BY DEF TypeOK
    <3>3. [op |-> o, folder |-> f, ids |-> Subtree(f)] \in TreeReq
      BY <3>1, <3>2 DEF TreeReq
    <3>. QED
      BY <3>3 DEF Request
  <2>. QED
    BY <1>7, <2>1 DEF TreeRead, Reads, TypeOK
<1>8. ASSUME NEW w \in Workers, TrashCommit(w) PROVE TypeOK'
  <2>1. req' \in [Workers -> Request] /\ lost' \subseteq Kinds
    BY <1>8, FinishType, NoteType DEF TrashCommit, Kinds, Grew
  <2>. QED
    BY <1>8, <2>1 DEF TrashCommit, TypeOK
<1>9. ASSUME NEW w \in Workers, RestoreCommit(w) PROVE TypeOK'
  <2>1. req' \in [Workers -> Request] /\ lost' \subseteq Kinds
    BY <1>9, FinishType, NoteType DEF RestoreCommit, Kinds
  <2>. QED
    BY <1>9, <2>1 DEF RestoreCommit, TypeOK
<1>10. ASSUME NEW w \in Workers, PurgeCommit(w) PROVE TypeOK'
  <2>1. req' \in [Workers -> Request] /\ lost' \subseteq Kinds
    BY <1>10, FinishType, NoteType DEF PurgeCommit, Kinds
  <2>. QED
    BY <1>10, <2>1 DEF PurgeCommit, TypeOK
<1>11. ASSUME NEW w \in Workers, Abort(w) PROVE TypeOK'
  BY <1>11, FinishType DEF Abort, TypeOK
<1>. QED
  BY <1>1, <1>2, <1>3, <1>4, <1>5, <1>6, <1>7, <1>8, <1>9, <1>10, <1>11 DEF Next

\* The table, the trash and what every handler has read keep their types.
THEOREM TypeCorrect == Spec => []TypeOK
<1>1. TypeOK /\ [Next]_vars => TypeOK'
  BY TypeStep
<1>. QED
  BY TypeInit, <1>1, PTL DEF Spec

--------------------------------------------------------------------------------
(* The forest. *)

\* Nothing is known by an id that has not been drawn yet, and parents exist.
Fresh ==
  /\ \A f \in Folders : f < nextId
  /\ \A w \in Workers : req[w].op = "move" => req[w].folder < nextId /\ req[w].dest < nextId

\* A pending move goes out of the folder's subtree, whatever has happened since
\* the cycle check.
Outward(w) ==
  req[w].folder \in Folders /\ req[w].dest \in Folders =>
    req[w].dest \notin Subtree(req[w].folder)
MoveOK == \A w \in Workers : req[w].op = "move" => w \in Movers /\ Outward(w)

ForestInv == TypeOK /\ Fresh /\ ParentsExist /\ Forest /\ MoveOK

LEMMA RootNoFolder == TypeOK => Root \notin Folders
  BY DEF TypeOK, Ids, Root

LEMMA MoveReqType ==
  ASSUME TypeOK, NEW w \in Workers, req[w].op = "move"
  PROVE  req[w].folder \in Nat /\ req[w].dest \in Nat
<1>1. req[w] \in Request
  BY DEF TypeOK
<1>2. req[w] \in MoveReq
  BY <1>1 DEF Request, Idle, PutReq, TreeReq
<1>. QED
  BY <1>2 DEF MoveReq, Ids, Root

\* A subtree holds its root and the children of its members.
LEMMA SubtreeClosed ==
  ASSUME NEW f \in Folders
  PROVE  f \in Subtree(f) /\ \A g \in Folders : parent[g] \in Subtree(f) => g \in Subtree(f)
  BY DEF Subtree, Closed

\* A step that leaves the tree alone and plans no move.
LEMMA MoveOKKept ==
  ASSUME ForestInv, UNCHANGED parent,
         \A w \in Workers : req'[w].op = "move" => req'[w] = req[w]
  PROVE  MoveOK'
  BY DEF ForestInv, MoveOK, Outward, Subtree, Closed

LEMMA ForestMove ==
  ASSUME ForestInv, NEW f \in Folders, NEW p \in Folders \cup {Root},
         p \in Folders => p \notin Subtree(f),
         parent' = [parent EXCEPT ![f] = p]
  PROVE  Forest'
<1>. SUFFICES ASSUME NEW S \in SUBSET Folders, S # {}, \A g \in S : parent'[g] \in S
     PROVE  FALSE
  BY DEF Forest, ForestInv, TypeOK
<1>. parent'[f] = p /\ \A g \in Folders \ {f} : parent'[g] = parent[g]
  BY DEF ForestInv, TypeOK
<1>1. CASE f \notin S
  BY <1>1 DEF ForestInv, Forest
<1>2. CASE f \in S
  <2>. DEFINE T == S \ Subtree(f)
  <2>1. p \in S /\ p \in Folders
    BY <1>2
  <2>2. T \in SUBSET Folders /\ T # {}
    BY <2>1
  <2>3. PICK g \in T : parent[g] \notin T
    BY <2>2 DEF ForestInv, Forest
  <2>4. g # f /\ parent[g] \in S
    BY SubtreeClosed
  <2>5. parent[g] \in Subtree(f)
    BY <2>3, <2>4
  <2>. QED
    BY <2>5, SubtreeClosed
<1>. QED
  BY <1>1, <1>2

LEMMA ForestInsert ==
  ASSUME ForestInv, NEW p, Insert(p)
  PROVE  Forest' /\ ParentsExist' /\
         \A f, d \in Folders : d \notin Subtree(f) => d \notin Subtree(f)'
<1>. DEFINE n == nextId
<1>1. /\ Folders' = Folders \cup {n} /\ n \notin Folders
      /\ parent'[n] = p /\ \A g \in Folders : parent'[g] = parent[g]
      /\ p \in Folders \cup {Root} /\ p # n
  BY InsertType DEF ForestInv, Fresh, Insert, TypeOK, Ids, Root
<1>2. \A g \in Folders : parent[g] # n
  BY <1>1 DEF ForestInv, ParentsExist, TypeOK, Root
<1>3. ParentsExist'
  BY <1>1 DEF ForestInv, ParentsExist
<1>4. Forest'
  <2>. SUFFICES ASSUME NEW S \in SUBSET Folders', S # {}, \A g \in S : parent'[g] \in S
       PROVE  FALSE
    BY DEF Forest
  <2>. DEFINE T == S \ {n}
  <2>1. T \in SUBSET Folders
    BY <1>1
  <2>2. \A g \in T : parent[g] \in T
    BY <1>1, <1>2, <2>1
  <2>3. T = {}
    BY <2>1, <2>2 DEF ForestInv, Forest
  <2>4. S = {n}
    BY <2>3
  <2>. QED
    BY <2>4, <1>1
<1>5. ASSUME NEW f \in Folders, NEW d \in Folders, d \notin Subtree(f)
      PROVE  d \notin Subtree(f)'
  <2>1. PICK S \in SUBSET Folders : f \in S /\ Closed(S) /\ d \notin S
    BY <1>5 DEF Subtree
  <2>. DEFINE T == S \cup {n}
  <2>2. T \in SUBSET Folders' /\ f \in T /\ d \notin T
    BY <1>1, <2>1
  <2>3. \A g \in Folders' : parent'[g] \in T => g \in T
    BY <1>1, <1>2, <2>1 DEF Closed
  <2>. QED
    BY <2>2, <2>3 DEF Subtree, Closed
<1>. QED
  BY <1>3, <1>4, <1>5

LEMMA ForestPurge ==
  ASSUME ForestInv, NEW w \in Workers, PurgeCommit(w)
  PROVE  Forest' /\ ParentsExist' /\ Folders' \subseteq Folders /\
         \A f, d \in Folders' : d \notin Subtree(f) => d \notin Subtree(f)'
<1>1. /\ Folders' \subseteq Folders
      /\ \A g \in Folders' : parent'[g] = IF parent[g] \in Folders' THEN parent[g] ELSE Root
  BY DEF PurgeCommit
<1>2. Root \notin Folders
  BY RootNoFolder DEF ForestInv
<1>3. ParentsExist'
  BY <1>1 DEF ParentsExist
<1>4. Forest'
  <2>. SUFFICES ASSUME NEW S \in SUBSET Folders', S # {}, \A g \in S : parent'[g] \in S
       PROVE  FALSE
    BY DEF Forest
  <2>1. \A g \in S : parent[g] \in S
    BY <1>1, <1>2
  <2>. QED
    BY <1>1, <2>1 DEF ForestInv, Forest
<1>5. ASSUME NEW f \in Folders', NEW d \in Folders', d \notin Subtree(f)
      PROVE  d \notin Subtree(f)'
  <2>1. PICK S \in SUBSET Folders : f \in S /\ Closed(S) /\ d \notin S
    BY <1>1, <1>5 DEF Subtree
  <2>. DEFINE T == S \cap Folders'
  <2>2. T \in SUBSET Folders' /\ f \in T /\ d \notin T
    BY <2>1
  <2>3. \A g \in Folders' : parent'[g] \in T => g \in T
    BY <1>1, <1>2, <2>1 DEF Closed
  <2>. QED
    BY <2>2, <2>3 DEF Subtree, Closed
<1>. QED
  BY <1>1, <1>3, <1>4, <1>5

LEMMA ForestStep ==
  ASSUME \A v, w \in Movers : v = w, ForestInv, [Next]_vars
  PROVE  ForestInv'
<1>. TypeOK /\ TypeOK'
  BY TypeStep DEF ForestInv
\* Steps that leave the table alone and plan no move.
<1>1. ASSUME UNCHANGED <<parent, nextId>>,
             \A w \in Workers : req'[w].op = "move" => req'[w] = req[w]
      PROVE  ForestInv'
  <2>1. MoveOK'
    BY <1>1, MoveOKKept
  <2>2. Fresh' /\ ParentsExist' /\ Forest'
    BY <1>1 DEF ForestInv, Fresh, ParentsExist, Forest
  <2>. QED
    BY <2>1, <2>2 DEF ForestInv
\* Steps that insert a folder.
<1>2. ASSUME NEW p, Insert(p),
             \A w \in Workers : req'[w].op = "move" => req'[w] = req[w]
      PROVE  ForestInv'
  <2>1. /\ Forest' /\ ParentsExist'
        /\ \A f, d \in Folders : d \notin Subtree(f) => d \notin Subtree(f)'
    BY <1>2, ForestInsert
  <2>2. Folders' = Folders \cup {nextId} /\ nextId' = nextId + 1 /\ nextId \in Nat
    BY <1>2, InsertType DEF Insert, TypeOK
  <2>3. Fresh'
    <3>1. \A w \in Workers : req[w].op = "move" => req[w].folder \in Nat /\ req[w].dest \in Nat
      BY MoveReqType DEF ForestInv
    <3>2. \A f \in Folders : f \in Nat
      BY DEF TypeOK, Ids
    <3>3. \A f \in Folders' : f < nextId'
      BY <2>2, <3>2 DEF ForestInv, Fresh
    <3>4. ASSUME NEW w \in Workers, req'[w].op = "move"
          PROVE  req'[w].folder < nextId' /\ req'[w].dest < nextId'
      <4>1. req'[w] = req[w] /\ req[w].folder < nextId /\ req[w].dest < nextId
        BY <1>2, <3>4 DEF ForestInv, Fresh
      <4>2. req[w].folder \in Nat /\ req[w].dest \in Nat
        BY <3>1, <3>4, <4>1
      <4>. QED
        BY <2>2, <4>1, <4>2
    <3>. QED
      BY <3>3, <3>4 DEF Fresh
  <2>4. MoveOK'
    <3>1. ASSUME NEW w \in Workers, req'[w].op = "move"
          PROVE  w \in Movers /\ Outward(w)'
      <4>1. req'[w] = req[w] /\ w \in Movers /\ Outward(w)
        BY <1>2, <3>1 DEF ForestInv, MoveOK
      <4>2. req[w].folder # nextId /\ req[w].dest # nextId
        BY <2>2, <4>1, <3>1 DEF ForestInv, Fresh
      <4>3. PICK f, d : f = req[w].folder /\ d = req[w].dest
        OBVIOUS
      <4>4. f \in Folders' /\ d \in Folders' => d \notin Subtree(f)'
        BY <2>1, <2>2, <4>1, <4>2, <4>3 DEF Outward
      <4>. QED
        BY <4>1, <4>3, <4>4 DEF Outward, Subtree, Closed
    <3>. QED
      BY <3>1 DEF MoveOK
  <2>. QED
    BY <2>1, <2>3, <2>4 DEF ForestInv
<1>3. CASE UNCHANGED vars
  BY <1>1, <1>3 DEF vars
<1>4. ASSUME NEW w \in Workers, NEW p \in Folders, CreateRead(w, p) PROVE ForestInv'
  BY <1>1, <1>4 DEF CreateRead, Reads, TypeOK
<1>5. ASSUME NEW w \in Workers, CreateCommit(w) PROVE ForestInv'
  BY <1>2, <1>5 DEF CreateCommit, Finish, Idle, TypeOK
<1>6. ASSUME NEW w \in Workers, CreateTop(w) PROVE ForestInv'
  BY <1>2, <1>6 DEF CreateTop
<1>7. ASSUME NEW w \in Workers, NEW f \in Folders, NEW p \in Folders \cup {Root},
             MoveRead(w, f, p)
      PROVE  ForestInv'
  <2>1. /\ UNCHANGED <<parent, nextId>> /\ w \in Movers
        /\ req'[w] = [op |-> "move", folder |-> f, dest |-> p]
        /\ \A v \in Workers \ {w} : req'[v] = req[v]
        /\ p \in Folders => p \notin Subtree(f)
    BY <1>7, RootNoFolder DEF MoveRead, Reads, TypeOK
  <2>2. \A v \in Workers : req'[v].op = "move" /\ v # w => req'[v] = req[v]
    BY <2>1
  <2>3. MoveOK'
    BY <2>1 DEF ForestInv, MoveOK, Outward, Subtree, Closed
  <2>4. Fresh'
    BY <2>1 DEF ForestInv, Fresh, TypeOK, Root
  <2>5. ParentsExist' /\ Forest'
    BY <2>1 DEF ForestInv, ParentsExist, Forest
  <2>. QED
    BY <2>3, <2>4, <2>5 DEF ForestInv
<1>8. ASSUME NEW w \in Workers, MoveCommit(w) PROVE ForestInv'
  <2>. DEFINE f == req[w].folder
              p == req[w].dest
  <2>1. /\ f \in Folders /\ p \in Folders \cup {Root} /\ w \in Movers
        /\ parent' = [parent EXCEPT ![f] = p]
        /\ UNCHANGED nextId
    BY <1>8 DEF MoveCommit, Live, ForestInv, MoveOK
  <2>2. p \in Folders => p \notin Subtree(f)
    BY <1>8, <2>1 DEF MoveCommit, ForestInv, MoveOK, Outward
  <2>3. Forest'
    BY <2>1, <2>2, ForestMove
  <2>4. Folders' = Folders /\ ParentsExist'
    BY <2>1 DEF ForestInv, ParentsExist, TypeOK
  <2>5. \A v \in Workers : req'[v].op # "move"
    BY <1>8, <2>1 DEF MoveCommit, Finish, Idle, ForestInv, MoveOK, TypeOK
  <2>. QED
    BY <2>1, <2>3, <2>4, <2>5 DEF ForestInv, Fresh, MoveOK
<1>9. ASSUME NEW w \in Workers, NEW f \in Folders,
             NEW o \in {"trash", "restore", "purge"}, TreeRead(w, o, f)
      PROVE  ForestInv'
  BY <1>1, <1>9 DEF TreeRead, Reads, TypeOK
<1>10. ASSUME NEW w \in Workers, TrashCommit(w) \/ RestoreCommit(w) \/ Abort(w)
       PROVE  ForestInv'
  <2>1. UNCHANGED <<parent, nextId>> /\ Finish(w)
    BY <1>10 DEF TrashCommit, RestoreCommit, Abort
  <2>2. \A v \in Workers : req'[v].op = "move" => req'[v] = req[v]
    BY <2>1 DEF Finish, Idle, TypeOK
  <2>. QED
    BY <1>1, <2>1, <2>2
<1>11. ASSUME NEW w \in Workers, PurgeCommit(w) PROVE ForestInv'
  <2>1. /\ Forest' /\ ParentsExist' /\ Folders' \subseteq Folders
        /\ \A f, d \in Folders' : d \notin Subtree(f) => d \notin Subtree(f)'
    BY <1>11, ForestPurge
  <2>2. UNCHANGED nextId /\ \A v \in Workers : req'[v].op = "move" => req'[v] = req[v]
    BY <1>11 DEF PurgeCommit, Finish, Idle, TypeOK
  <2>3. Fresh'
    BY <2>1, <2>2 DEF ForestInv, Fresh
  <2>4. MoveOK'
    <3>1. ASSUME NEW v \in Workers, req'[v].op = "move"
          PROVE  v \in Movers /\ Outward(v)'
      <4>1. req'[v] = req[v] /\ v \in Movers /\ Outward(v)
        BY <2>2, <3>1 DEF ForestInv, MoveOK
      <4>2. PICK f, d : f = req[v].folder /\ d = req[v].dest
        OBVIOUS
      <4>3. f \in Folders' /\ d \in Folders' => d \notin Subtree(f)'
        BY <2>1, <4>1, <4>2 DEF Outward
      <4>. QED
        BY <4>1, <4>2, <4>3 DEF Outward, Subtree, Closed
    <3>. QED
      BY <3>1 DEF MoveOK
  <2>. QED
    BY <2>1, <2>3, <2>4 DEF ForestInv
<1>. QED
  BY <1>3, <1>4, <1>5, <1>6, <1>7, <1>8, <1>9, <1>10, <1>11 DEF Next

\* As long as one handler at most moves folders (handleUpdateFolder), no chain of
\* creates, moves, trashes, restores and purges makes a cycle, although every
\* check is made before, and outside of, the write it protects.
THEOREM ForestCorrect ==
  ASSUME \A v, w \in Movers : v = w
  PROVE  Spec => []Forest
<1>1. Init => ForestInv
  <2>. SUFFICES ASSUME Init PROVE ForestInv
    OBVIOUS
  <2>1. TypeOK /\ Folders = {} /\ \A w \in Workers : req[w].op = "idle"
    BY TypeInit DEF Init, Idle
  <2>. QED
    BY <2>1 DEF ForestInv, Fresh, ParentsExist, Forest, MoveOK
<1>2. ForestInv /\ [Next]_vars => ForestInv'
  BY ForestStep
<1>3. ForestInv => Forest
  BY DEF ForestInv
<1>. QED
  BY <1>1, <1>2, <1>3, PTL DEF Spec

--------------------------------------------------------------------------------
(* What can be reached.  These facts need no bound on the moves: they hold of   *)
(* any table of parents, also of one with a cycle in it.                        *)

Reach == TypeOK /\ ParentsExist /\ NothingHidden

\* The property of NothingHidden, of any state.
Shown == \A f \in Folders \ trashed : parent[f] \notin trashed

LEMMA ReachInsert ==
  ASSUME Reach, NEW p, Insert(p)
  PROVE  /\ ParentsExist'
         /\ lost = {} /\ p \notin trashed => Shown'
<1>1. /\ Folders' = Folders \cup {nextId} /\ trashed' = trashed /\ p \in Folders \cup {Root}
      /\ \A f \in Folders' : parent'[f] = IF f = nextId THEN p ELSE parent[f]
  BY DEF Insert
<1>. QED
  BY <1>1 DEF Reach, ParentsExist, NothingHidden, Shown

LEMMA ReachStep ==
  ASSUME Reach, [Next]_vars
  PROVE  Reach'
<1>. TypeOK /\ TypeOK'
  BY TypeStep DEF Reach
<1>. Root \notin Folders /\ trashed \subseteq Folders
  BY RootNoFolder DEF TypeOK
<1>0. /\ (lost' = {} => Shown') => NothingHidden'
      /\ lost = {} => Shown
  BY DEF Reach, NothingHidden, Shown
\* Steps that leave the table and the trash alone.
<1>1. ASSUME UNCHANGED <<parent, trashed, lost>> PROVE Reach'
  BY <1>1 DEF Reach, ParentsExist, NothingHidden
<1>2. CASE UNCHANGED vars
  BY <1>1, <1>2 DEF vars
<1>3. ASSUME NEW w \in Workers, NEW p \in Folders, CreateRead(w, p) PROVE Reach'
  BY <1>1, <1>3 DEF CreateRead
<1>4. ASSUME NEW w \in Workers, CreateCommit(w) PROVE Reach'
  <2>1. lost' = {} => lost = {} /\ req[w].dest \notin trashed
    BY <1>4 DEF CreateCommit, Note
  <2>. QED
    BY <1>0, <1>4, <2>1, ReachInsert DEF CreateCommit, Reach
<1>5. ASSUME NEW w \in Workers, CreateTop(w) PROVE Reach'
  <2>1. lost' = {} => lost = {} /\ Root \notin trashed
    BY <1>5 DEF CreateTop
  <2>. QED
    BY <1>0, <1>5, <2>1, ReachInsert DEF CreateTop, Reach
<1>6. ASSUME NEW w \in Workers, NEW f \in Folders, NEW p \in Folders \cup {Root},
             MoveRead(w, f, p)
      PROVE  Reach'
  BY <1>1, <1>6 DEF MoveRead
<1>7. ASSUME NEW w \in Workers, MoveCommit(w) PROVE Reach'
  <2>. DEFINE f == req[w].folder
              p == req[w].dest
  <2>1. /\ p \in Folders \cup {Root} /\ UNCHANGED trashed
        /\ parent' = [parent EXCEPT ![f] = p]
        /\ lost' = {} => lost = {} /\ p \notin trashed
    BY <1>7 DEF MoveCommit, Note
  <2>2. Folders' = Folders /\ \A g \in Folders : parent'[g] = IF g = f THEN p ELSE parent[g]
    BY <2>1 DEF TypeOK
  <2>. HIDE DEF f, p
  <2>3. ParentsExist'
    BY <2>1, <2>2 DEF Reach, ParentsExist
  <2>4. lost' = {} => Shown'
    BY <1>0, <2>1, <2>2 DEF Shown
  <2>. QED
    BY <1>0, <2>3, <2>4 DEF Reach
<1>8. ASSUME NEW w \in Workers, NEW f \in Folders,
             NEW o \in {"trash", "restore", "purge"}, TreeRead(w, o, f)
      PROVE  Reach'
  BY <1>1, <1>8 DEF TreeRead
<1>9. ASSUME NEW w \in Workers, TrashCommit(w) PROVE Reach'
  <2>. DEFINE S == req[w].ids
  <2>1. /\ UNCHANGED parent /\ trashed' = trashed \cup (S \cap Folders)
        /\ lost' = {} => lost = {} /\ \A f \in Folders \ S : parent[f] \notin S
    BY <1>9 DEF TrashCommit, Note, Grew
  <2>. HIDE DEF S
  <2>2. lost' = {} => Shown'
    BY <1>0, <2>1 DEF Shown
  <2>. QED
    BY <1>0, <2>1, <2>2 DEF Reach, ParentsExist
<1>10. ASSUME NEW w \in Workers, RestoreCommit(w) PROVE Reach'
  <2>. DEFINE S == req[w].ids
  <2>1. /\ UNCHANGED parent /\ trashed' = trashed \ S
        /\ lost' = {} => lost = {} /\ \A f \in S \cap Folders : parent[f] \notin trashed \ S
    BY <1>10 DEF RestoreCommit, Note
  <2>. HIDE DEF S
  <2>2. lost' = {} => Shown'
    BY <1>0, <2>1 DEF Shown
  <2>. QED
    BY <1>0, <2>1, <2>2 DEF Reach, ParentsExist
<1>11. ASSUME NEW w \in Workers, PurgeCommit(w) PROVE Reach'
  <2>1. /\ Folders' \subseteq Folders /\ trashed' = trashed \cap Folders'
        /\ \A g \in Folders' : parent'[g] = IF parent[g] \in Folders' THEN parent[g] ELSE Root
        /\ lost' = {} => lost = {}
    BY <1>11 DEF PurgeCommit, Note
  <2>2. lost' = {} => Shown'
    BY <1>0, <2>1 DEF Shown
  <2>3. ParentsExist'
    BY <2>1 DEF ParentsExist
  <2>. QED
    BY <1>0, <2>2, <2>3 DEF Reach
<1>12. ASSUME NEW w \in Workers, Abort(w) PROVE Reach'
  BY <1>1, <1>12 DEF Abort
<1>. QED
  BY <1>2, <1>3, <1>4, <1>5, <1>6, <1>7, <1>8, <1>9, <1>10, <1>11, <1>12 DEF Next

LEMMA ReachInvariant == Spec => []Reach
<1>1. Init => Reach
  BY TypeInit DEF Init, Reach, ParentsExist, NothingHidden
<1>2. Reach /\ [Next]_vars => Reach'
  BY ReachStep
<1>. QED
  BY <1>1, <1>2, PTL DEF Spec

\* A parent_id always names a row, with any number of concurrent moves: the foreign
\* key refuses a late insert or move, and a purge takes rows out of what they named.
THEOREM ParentsCorrect == Spec => []ParentsExist
<1>1. Reach => ParentsExist
  BY DEF Reach
<1>. QED
  BY <1>1, ReachInvariant, PTL

\* No live folder is below a trashed one, with any number of concurrent moves, until
\* a write is overtaken or a folder inside a trashed one is restored on its own.
THEOREM HiddenCorrect == Spec => []NothingHidden
<1>1. Reach => NothingHidden
  BY DEF Reach
<1>. QED
  BY <1>1, ReachInvariant, PTL

LEMMA PurgeStep ==
  ASSUME Reach, [Next]_vars, lost' = {}
  PROVE  \A f \in Folders : f \notin DOMAIN parent' => f \in trashed
<1>. DEFINE Goal == \A f \in Folders : f \notin DOMAIN parent' => f \in trashed
<1>1. ASSUME Folders \subseteq DOMAIN parent' PROVE Goal
  BY <1>1
<1>2. ASSUME NEW w \in Workers, PurgeCommit(w) PROVE Goal
  <2>1. /\ DOMAIN parent' = Folders \ req[w].ids
        /\ req[w].folder \in trashed /\ Subtree(req[w].folder) = req[w].ids /\ lost = {}
    BY <1>2 DEF PurgeCommit, Note
  <2>2. trashed \in SUBSET Folders /\ Closed(trashed)
    BY <2>1 DEF Reach, TypeOK, NothingHidden, Closed
  <2>3. Subtree(req[w].folder) \subseteq trashed
    BY <2>1, <2>2 DEF Subtree
  <2>. QED
    BY <2>1, <2>3
<1>3. ASSUME NEW p, Insert(p) PROVE Goal
  BY <1>1, <1>3 DEF Insert
<1>4. ASSUME NEW w \in Workers, MoveCommit(w) PROVE Goal
  BY <1>1, <1>4 DEF MoveCommit, Reach, TypeOK
<1>5. parent' = parent => Goal
  BY <1>1
<1>. HIDE DEF Goal
<1>6. ASSUME NEW w \in Workers, CreateCommit(w) \/ CreateTop(w) PROVE Goal
  BY <1>3, <1>6 DEF CreateCommit, CreateTop
<1>7. ASSUME NEW w \in Workers,
             \/ \E p \in Folders : CreateRead(w, p)
             \/ \E f \in Folders, p \in Folders \cup {Root} : MoveRead(w, f, p)
             \/ \E f \in Folders, op \in {"trash", "restore", "purge"} : TreeRead(w, op, f)
             \/ TrashCommit(w) \/ RestoreCommit(w) \/ Abort(w)
      PROVE  Goal
  BY <1>5, <1>7 DEF CreateRead, MoveRead, TreeRead, TrashCommit, RestoreCommit, Abort
<1>8. UNCHANGED vars => Goal
  BY <1>5 DEF vars
<1>9. Goal
  BY <1>2, <1>4, <1>6, <1>7, <1>8 DEF Next
<1>. QED
  BY <1>9 DEF Goal

\* A purge removes folders of the trash only, with any number of concurrent moves,
\* unless it was itself overtaken or NothingHidden was lost before.
THEOREM PurgeCorrect == Spec => PurgesTrash
<1>1. Reach /\ [Next]_vars =>
        (lost' = {} => \A f \in Folders : f \notin DOMAIN parent' => f \in trashed)
  BY PurgeStep
<1>. QED
  BY <1>1, ReachInvariant, PTL DEF Spec, PurgesTrash
================================================================================
