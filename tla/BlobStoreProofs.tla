---------------------------- MODULE BlobStoreProofs ----------------------------
(***************************************************************************)
(* Proofs about BlobStore, for any set of users, contents and workers:     *)
(* types, what blob_refs counts and what pruning leaves; and what the blob *)
(* store promises: no blob is left behind, nobody is charged too much,     *)
(* every row reads back, and sharing blobs cannot be seen, which is the    *)
(* refinement of FileStore.                                                *)
(***************************************************************************)
EXTENDS BlobStore, FiniteSetTheorems, WellFoundedInduction, TLAPS

\* The total size of finitely many version rows is a natural number.
LEMMA BytesNat ==
  ASSUME NEW V \in SUBSET Version, IsFiniteSet(V)
  PROVE  Bytes(V) \in Nat
<1> DEFINE T == {{v} \X (1 .. Size[v.sha]) : v \in V}
           g == [v \in V |-> {v} \X (1 .. Size[v.sha])]
<1>1. IsFiniteSet(T)
  <2>1. g \in Surjection(V, T)
    BY DEF Surjection
  <2> QED BY <2>1, FS_Surjection
<1>2. \A t \in T : IsFiniteSet(t)
  <2>1. SUFFICES ASSUME NEW v \in V
                 PROVE  IsFiniteSet({v} \X (1 .. Size[v.sha]))
    OBVIOUS
  <2>2. Size[v.sha] \in Nat
    BY StoreAssumption DEF Version
  <2>3. IsFiniteSet({v})
    BY FS_Singleton
  <2>4. IsFiniteSet(1 .. Size[v.sha])
    BY <2>2, FS_Interval
  <2> QED BY <2>3, <2>4, FS_Product
<1>3. IsFiniteSet(UNION T)
  BY <1>1, <1>2, FS_UNION
<1> QED BY <1>3, FS_CardinalityType DEF Bytes

LEMMA UsesNat ==
  ASSUME NEW V, IsFiniteSet(V), NEW p
  PROVE  Uses(V, p) \in Nat
<1>1. {v \in V : v.path = p} \in SUBSET V
  OBVIOUS
<1>2. IsFiniteSet({v \in V : v.path = p})
  BY <1>1, FS_Subset
<1> QED BY <1>2, FS_CardinalityType DEF Uses

LEMMA MinusNat ==
  ASSUME NEW a \in Nat, NEW b \in Nat
  PROVE  Minus(a, b) \in Nat /\ (a >= b => Minus(a, b) = a - b)
BY DEF Minus

LEMMA OneNat == \A b \in BOOLEAN : One(b) \in {0, 1}
BY DEF One

LEMMA PrunedSubset ==
  ASSUME NEW V
  PROVE  Pruned(V) \subseteq V
BY DEF Pruned

(***************************************************************************)
(* Type correctness.  The sums and counts of the model are natural numbers *)
(* only for finite sets of version rows, so the invariant also says that   *)
(* the table and the snapshots of it are finite.                           *)
(***************************************************************************)
Finite ==
  /\ IsFiniteSet(versions)
  /\ \A w \in Workers :
       req[w].op \in {"overwrite", "purge"} => IsFiniteSet(req[w].vers)

TypeInv == TypeOK /\ Finite

LEMMA VersionsOfFinite ==
  ASSUME TypeInv, NEW f
  PROVE  VersionsOf(f) \in SUBSET Version /\ IsFiniteSet(VersionsOf(f))
<1>1. VersionsOf(f) \in SUBSET versions
  BY DEF VersionsOf
<1>2. versions \subseteq Version /\ IsFiniteSet(versions)
  BY DEF TypeInv, TypeOK, Finite
<1>3. IsFiniteSet(VersionsOf(f))
  BY <1>1, <1>2, FS_Subset
<1> QED BY <1>1, <1>2, <1>3

LEMMA DonorsType ==
  ASSUME TypeInv, NEW o, NEW h, NEW f, NEW d \in Donors(o, h, f)
  PROVE  d \in Ids \cup {NoDonor}
BY DEF TypeInv, TypeOK, Donors, Row

LEMMA InitTypeInv == Init => TypeInv
<1> SUFFICES ASSUME Init PROVE TypeInv
  OBVIOUS
<1>1. IsFiniteSet({})
  BY FS_EmptySet
<1>2. TypeOK
  BY StoreAssumption DEF Init, TypeOK, Request, Ids, Races
<1>3. Finite
  BY <1>1 DEF Init, Finite, Idle
<1> QED BY <1>2, <1>3 DEF TypeInv

\* Adding a row keeps the types: the commit of an upload, a copy or a by-hash.
LEMMA AddRowType ==
  ASSUME TypeInv, NEW w \in Workers, NEW o \in Users, NEW n \in Names,
         NEW h \in Hashes, NEW d \in Ids \cup {NoDonor}, AddRow(w, o, n, h, d)
  PROVE  TypeInv'
<1> USE StoreAssumption
<1>1. nextId \in Ids /\ BlobPath(d) \in Ids
  BY DEF TypeInv, TypeOK, AddRow, Settle, BlobPath, Ids, NoDonor
<1>2. DOMAIN files' = DOMAIN files \cup {nextId} /\ files' \in [DOMAIN files' -> Row]
  BY <1>1 DEF TypeInv, TypeOK, AddRow, Row
<1>3. refs' \in [Ids -> Nat]
  <2> DEFINE acq == [p \in Ids |-> One(p = BlobPath(d))]
  <2>1. refs' = [p \in Ids |-> Minus(refs[p] + acq[p], NoRefs[p])]
    BY DEF AddRow, Settle
  <2>2. \A p \in Ids : acq[p] \in {0, 1} /\ NoRefs[p] = 0
    BY DEF One, NoRefs
  <2> HIDE DEF acq
  <2>3. \A p \in Ids : Minus(refs[p] + acq[p], NoRefs[p]) \in Nat
    BY <2>2 DEF TypeInv, TypeOK, Minus
  <2> QED BY <2>1, <2>3
<1>4. used' \in [Users -> Nat]
  BY DEF TypeInv, TypeOK, AddRow, Settle
<1>5. disk' \in [Ids -> Hashes \cup {None}]
  BY <1>1 DEF TypeInv, TypeOK, AddRow, Place
<1>6. req' = [req EXCEPT ![w] = Idle]
  BY DEF AddRow, Finish
<1>7. lost' \subseteq Races
  BY DEF TypeInv, TypeOK, AddRow, Settle, Note, Races
<1>8. req' \in [Workers -> Request] /\ nextId' \in 1 .. MaxId + 1 /\ versions' = versions
  BY <1>1, <1>6 DEF TypeInv, TypeOK, AddRow, Settle, Request, Ids
<1>9. TypeOK'
  BY <1>1, <1>2, <1>3, <1>4, <1>5, <1>7, <1>8 DEF TypeInv, TypeOK
<1>10. Finite'
  BY <1>6 DEF TypeInv, TypeOK, Finite, AddRow, Idle
<1> QED BY <1>9, <1>10 DEF TypeInv

\* Taking a snapshot or ending a request, with the tables as they were.
LEMMA RequestType ==
  ASSUME TypeInv, NEW w \in Workers, NEW r \in Request,
         r.op \in {"overwrite", "purge"} => IsFiniteSet(r.vers),
         req' = [req EXCEPT ![w] = r],
         UNCHANGED <<files, versions, refs, used, disk, nextId, lost>>
  PROVE  TypeInv'
<1>1. req' \in [Workers -> Request]
  BY DEF TypeInv, TypeOK
<1>2. TypeOK'
  BY <1>1 DEF TypeInv, TypeOK
<1>3. Finite'
  BY DEF TypeInv, TypeOK, Finite
<1> QED BY <1>2, <1>3 DEF TypeInv

LEMMA UploadReadType ==
  ASSUME TypeInv, NEW w \in Workers, NEW o \in Users, NEW n \in Names,
         NEW h \in Hashes, UploadRead(w, o, n, h)
  PROVE  TypeInv'
<1>1. CASE SameName(o, n) = {} /\ \E d \in Donors(o, h, 0) :
             Start(w, [op |-> "insert", owner |-> o, name |-> n, sha |-> h, donor |-> d])
  <2>1. PICK d \in Donors(o, h, 0) :
          Start(w, [op |-> "insert", owner |-> o, name |-> n, sha |-> h, donor |-> d])
    BY <1>1
  <2> DEFINE r == [op |-> "insert", owner |-> o, name |-> n, sha |-> h, donor |-> d]
  <2>2. r \in Request
    BY DonorsType DEF Request, AddReq
  <2> QED BY <2>1, <2>2, RequestType DEF Start, UploadRead
<1>2. CASE \E f \in SameName(o, n) : \E d \in Donors(o, h, f) :
             Start(w, [op |-> "overwrite", owner |-> o, sha |-> h, donor |-> d,
                       file |-> f, row |-> files[f], vers |-> VersionsOf(f)])
  <2>a. PICK f \in SameName(o, n) : \E d \in Donors(o, h, f) :
          Start(w, [op |-> "overwrite", owner |-> o, sha |-> h, donor |-> d,
                    file |-> f, row |-> files[f], vers |-> VersionsOf(f)])
    BY <1>2
  <2>1. PICK d \in Donors(o, h, f) :
          Start(w, [op |-> "overwrite", owner |-> o, sha |-> h, donor |-> d,
                    file |-> f, row |-> files[f], vers |-> VersionsOf(f)])
    BY <2>a
  <2> DEFINE r == [op |-> "overwrite", owner |-> o, sha |-> h, donor |-> d,
                   file |-> f, row |-> files[f], vers |-> VersionsOf(f)]
  <2>2. f \in DOMAIN files
    BY DEF SameName
  <2>3. f \in Ids /\ files[f] \in Row
    BY <2>2 DEF TypeInv, TypeOK
  <2>4. d \in Ids \cup {NoDonor}
    BY DonorsType
  <2>5. VersionsOf(f) \in SUBSET Version /\ IsFiniteSet(VersionsOf(f))
    BY VersionsOfFinite
  <2>6. r \in Request
    BY <2>3, <2>4, <2>5 DEF Request, OverwriteReq
  <2> QED BY <2>1, <2>5, <2>6, RequestType DEF Start, UploadRead
<1> QED BY <1>1, <1>2 DEF UploadRead

LEMMA OtherReadsType ==
  ASSUME TypeInv, NEW w \in Workers, NEW f
  PROVE  /\ \A o \in Users, n \in Names, h \in Hashes : FromHashRead(w, o, n, h) => TypeInv'
         /\ \A o \in Users : CopyRead(w, f, o) => TypeInv'
         /\ PurgeRead(w, f) => TypeInv'
<1>1. ASSUME NEW o \in Users, NEW n \in Names, NEW h \in Hashes, FromHashRead(w, o, n, h)
      PROVE  TypeInv'
  <2>1. PICK d \in Donors(o, h, 0) \ {NoDonor} :
          Start(w, [op |-> "byhash", owner |-> o, name |-> n, sha |-> h, donor |-> d])
    BY <1>1 DEF FromHashRead
  <2> DEFINE r == [op |-> "byhash", owner |-> o, name |-> n, sha |-> h, donor |-> d]
  <2>2. r \in Request
    BY DonorsType DEF Request, AddReq
  <2> QED BY <1>1, <2>1, <2>2, RequestType DEF Start, FromHashRead
<1>2. ASSUME NEW o \in Users, CopyRead(w, f, o)
      PROVE  TypeInv'
  <2> DEFINE r == [op |-> "copy", owner |-> o, name |-> files[f].name,
                   sha |-> files[f].sha, donor |-> files[f].path]
  <2>1. files[f] \in Row
    BY <1>2 DEF CopyRead, Live, TypeInv, TypeOK
  <2>2. r \in Request
    BY <2>1 DEF Request, AddReq, Row
  <2> QED BY <1>2, <2>2, RequestType DEF Start, CopyRead
<1>3. ASSUME PurgeRead(w, f)
      PROVE  TypeInv'
  <2> DEFINE r == [op |-> "purge", file |-> f, row |-> files[f], vers |-> VersionsOf(f)]
  <2>1. f \in Ids /\ files[f] \in Row
    BY <1>3 DEF PurgeRead, TypeInv, TypeOK
  <2>2. VersionsOf(f) \in SUBSET Version /\ IsFiniteSet(VersionsOf(f))
    BY VersionsOfFinite
  <2>3. r \in Request
    BY <2>1, <2>2 DEF Request, PurgeReq
  <2> QED BY <1>3, <2>2, <2>3, RequestType DEF Start, PurgeRead
<1> QED BY <1>1, <1>2, <1>3

LEMMA TrashType ==
  ASSUME TypeInv, NEW f \in Ids, Delete(f) \/ Restore(f)
  PROVE  TypeInv'
<1>1. f \in DOMAIN files /\ files[f] \in Row
  BY DEF Delete, Restore, Live, TypeInv, TypeOK
<1>2. files[f].owner \in Users /\ Size[files[f].sha] \in Nat
  BY <1>1, StoreAssumption DEF Row
<1>3. used' \in [Users -> Nat]
  BY <1>2, MinusNat DEF Delete, Restore, TypeInv, TypeOK
<1>4. DOMAIN files' = DOMAIN files /\ files' \in [DOMAIN files' -> Row]
  <2>1. \A b \in BOOLEAN : [files[f] EXCEPT !.deleted = b] \in Row
    BY <1>1 DEF Row
  <2>2. PICK b \in BOOLEAN : files' = [files EXCEPT ![f] = [files[f] EXCEPT !.deleted = b]]
    BY <1>1 DEF Delete, Restore
  <2> QED BY <1>1, <2>1, <2>2 DEF TypeInv, TypeOK
<1>5. TypeOK'
  BY <1>3, <1>4 DEF Delete, Restore, TypeInv, TypeOK
<1>6. Finite'
  BY DEF Delete, Restore, TypeInv, Finite
<1> QED BY <1>5, <1>6 DEF TypeInv

LEMMA PurgeCommitType ==
  ASSUME TypeInv, NEW w \in Workers, PurgeCommit(w)
  PROVE  TypeInv'
<1> DEFINE r == req[w]
           f == r.file
           hit == f \in DOMAIN files /\ files[f].deleted
           rel == [p \in Ids |-> One(p = r.row.path) + Uses(r.vers, p)]
           freed == Freed(NoRefs, rel)
<1>1. /\ r.op = "purge"
      /\ files' = IF hit THEN [g \in DOMAIN files \ {f} |-> files[g]] ELSE files
      /\ versions' = IF hit THEN versions \ VersionsOf(f) ELSE versions
      /\ used' = [used EXCEPT ![r.row.owner] = Minus(@, Size[r.row.sha] + Bytes(r.vers))]
      /\ refs' = [p \in Ids |-> Minus(refs[p] + NoRefs[p], rel[p])]
      /\ Finish(w, freed)
      /\ UNCHANGED <<disk, nextId>>
  BY DEF PurgeCommit, Settle
<1>2. r \in PurgeReq /\ IsFiniteSet(r.vers)
  BY <1>1 DEF TypeInv, TypeOK, Finite, Request, Idle, AddReq, OverwriteReq, PurgeReq, UnlinkReq
<1>3. files' \in [DOMAIN files' -> Row] /\ DOMAIN files' \subseteq Ids
  BY <1>1 DEF TypeInv, TypeOK
<1>4. versions' \subseteq Version /\ IsFiniteSet(versions')
  BY <1>1, FS_Subset DEF TypeInv, TypeOK, Finite
<1>5. used' \in [Users -> Nat]
  <2>1. Bytes(r.vers) \in Nat
    BY <1>2, BytesNat DEF PurgeReq
  <2>2. Size[r.row.sha] + Bytes(r.vers) \in Nat /\ r.row.owner \in Users
    BY <1>2, <2>1, StoreAssumption DEF PurgeReq, Row
  <2> QED BY <1>1, <2>2, MinusNat DEF TypeInv, TypeOK
<1>6. refs' \in [Ids -> Nat]
  <2>1. \A p \in Ids : rel[p] \in Nat /\ NoRefs[p] = 0
    BY <1>2, UsesNat DEF One, NoRefs
  <2> HIDE DEF rel
  <2>2. \A p \in Ids : Minus(refs[p] + NoRefs[p], rel[p]) \in Nat
    BY <2>1, MinusNat DEF TypeInv, TypeOK
  <2> QED BY <1>1, <2>2
<1>7. lost' \subseteq Races
  BY DEF PurgeCommit, Settle, TypeInv, TypeOK, Note, Races
<1>8. freed \in SUBSET Ids
  BY DEF Freed
<1>9. req' \in [Workers -> Request] /\ req'[w].op \in {"idle", "unlink"}
  BY <1>1, <1>8 DEF Finish, TypeInv, TypeOK, Request, UnlinkReq, Idle
<1>10. TypeOK'
  BY <1>1, <1>3, <1>4, <1>5, <1>6, <1>7, <1>9 DEF TypeInv, TypeOK
<1>11. Finite'
  BY <1>1, <1>4, <1>9 DEF Finish, TypeInv, TypeOK, Finite
<1> QED BY <1>10, <1>11 DEF TypeInv

LEMMA UploadOverwriteType ==
  ASSUME TypeInv, NEW w \in Workers, UploadOverwrite(w)
  PROVE  TypeInv'
<1> DEFINE r == req[w]
           f == r.file
           new == BlobPath(r.donor)
           ver == [file |-> f, no |-> NextNo(r.vers), path |-> r.row.path, sha |-> r.row.sha]
           pruned == Pruned(r.vers \cup {ver})
           acq == [p \in Ids |-> One(p = r.row.path) + One(p = new)]
           rel == [p \in Ids |-> One(p = r.row.path) + Uses(pruned, p)]
           freed == Freed(acq, rel)
<1>1. /\ r.op = "overwrite"
      /\ f \in DOMAIN files
      /\ ver.no \in 1 .. MaxNo
      /\ used' = [used EXCEPT ![r.owner] = Minus(@ + Size[r.sha], Bytes(pruned))]
      /\ files' = [files EXCEPT ![f] = [files[f] EXCEPT !.path = new, !.sha = r.sha]]
      /\ versions' = (versions \cup {ver}) \ pruned
      /\ refs' = [p \in Ids |-> Minus(refs[p] + acq[p], rel[p])]
      /\ Place(r.donor, r.sha)
      /\ nextId' = IF r.donor = NoDonor THEN nextId + 1 ELSE nextId
      /\ Finish(w, freed)
  BY DEF UploadOverwrite, Settle
<1>2. r \in OverwriteReq /\ IsFiniteSet(r.vers)
  BY <1>1 DEF TypeInv, TypeOK, Finite, Request, Idle, AddReq, OverwriteReq, PurgeReq, UnlinkReq
<1>3. new \in Ids /\ nextId' \in 1 .. MaxId + 1 /\ disk' \in [Ids -> Hashes \cup {None}]
  BY <1>1, <1>2, StoreAssumption
     DEF Place, BlobPath, TypeInv, TypeOK, Ids, OverwriteReq, NoDonor
<1>4. ver \in Version
  BY <1>1, <1>2 DEF Version, OverwriteReq, Row
<1>5. pruned \in SUBSET Version /\ IsFiniteSet(pruned)
  <2>1. r.vers \cup {ver} \in SUBSET Version
    BY <1>2, <1>4 DEF OverwriteReq
  <2>2. IsFiniteSet(r.vers \cup {ver})
    BY <1>2, FS_AddElement
  <2>3. pruned \in SUBSET (r.vers \cup {ver})
    BY PrunedSubset
  <2> QED BY <2>1, <2>2, <2>3, FS_Subset
<1>6. versions' \subseteq Version /\ IsFiniteSet(versions')
  <2>1. IsFiniteSet(versions \cup {ver})
    BY FS_AddElement DEF TypeInv, Finite
  <2>2. IsFiniteSet((versions \cup {ver}) \ pruned)
    BY <2>1, FS_Difference
  <2> QED BY <1>1, <1>4, <2>2 DEF TypeInv, TypeOK
<1>7. DOMAIN files' = DOMAIN files /\ files' \in [DOMAIN files' -> Row]
  <2>1. [files[f] EXCEPT !.path = new, !.sha = r.sha] \in Row
    BY <1>1, <1>2, <1>3 DEF TypeInv, TypeOK, Row, OverwriteReq
  <2> QED BY <1>1, <2>1 DEF TypeInv, TypeOK
<1>8. used' \in [Users -> Nat]
  <2>1. Bytes(pruned) \in Nat /\ Size[r.sha] \in Nat /\ r.owner \in Users
    BY <1>2, <1>5, BytesNat, StoreAssumption DEF OverwriteReq
  <2>2. used[r.owner] + Size[r.sha] \in Nat
    BY <2>1 DEF TypeInv, TypeOK
  <2>3. Minus(used[r.owner] + Size[r.sha], Bytes(pruned)) \in Nat
    BY <2>1, <2>2, MinusNat
  <2> HIDE DEF pruned
  <2> QED BY <1>1, <2>1, <2>3 DEF TypeInv, TypeOK
<1>9. refs' \in [Ids -> Nat]
  <2>1. \A p \in Ids : rel[p] \in Nat /\ acq[p] \in Nat
    BY <1>5, UsesNat DEF One
  <2> HIDE DEF acq, rel
  <2>2. \A p \in Ids : refs[p] + acq[p] \in Nat
    BY <2>1 DEF TypeInv, TypeOK
  <2>3. \A p \in Ids : Minus(refs[p] + acq[p], rel[p]) \in Nat
    BY <2>1, <2>2, MinusNat
  <2> QED BY <1>1, <2>3
<1>10. lost' \subseteq Races
  BY DEF UploadOverwrite, Settle, TypeInv, TypeOK, Note, Races
<1>11. req' \in [Workers -> Request] /\ req'[w].op \in {"idle", "unlink"}
  <2>1. freed \in SUBSET Ids
    BY DEF Freed
  <2> QED BY <1>1, <2>1 DEF Finish, TypeInv, TypeOK, Request, UnlinkReq, Idle
<1>12. TypeOK'
  BY <1>3, <1>6, <1>7, <1>8, <1>9, <1>10, <1>11 DEF TypeInv, TypeOK
<1>13. Finite'
  BY <1>1, <1>6, <1>11 DEF Finish, TypeInv, TypeOK, Finite
<1> QED BY <1>12, <1>13 DEF TypeInv

LEMMA EndsType ==
  ASSUME TypeInv, Crash \/ \E w \in Workers : Unlink(w) \/ Abort(w)
  PROVE  TypeInv'
<1>1. ASSUME NEW w \in Workers, Abort(w)
      PROVE  TypeInv'
  BY <1>1, RequestType DEF Abort, Idle, Request
<1>2. ASSUME NEW w \in Workers, Unlink(w)
      PROVE  TypeInv'
  <2>1. TypeOK'
    BY <1>2 DEF Unlink, TypeInv, TypeOK, Request
  <2>2. Finite'
    BY <1>2 DEF Unlink, TypeInv, TypeOK, Finite, Idle
  <2> QED BY <2>1, <2>2 DEF TypeInv
<1>3. ASSUME Crash
      PROVE  TypeInv'
  <2>1. disk' \in [Ids -> Hashes \cup {None}] /\ nextId' \in 1 .. MaxId + 1
    <3>1. CASE UNCHANGED <<disk, nextId>>
      BY <3>1 DEF TypeInv, TypeOK
    <3>2. CASE ~UNCHANGED <<disk, nextId>>
      <4>1. PICK w \in Workers : /\ req[w].op \in {"insert", "overwrite"}
                                /\ nextId <= MaxId
                                /\ disk' = [disk EXCEPT ![nextId] = req[w].sha]
                                /\ nextId' = nextId + 1
        BY <1>3, <3>2 DEF Crash
      <4>2. req[w].sha \in Hashes
        BY <4>1 DEF TypeInv, TypeOK, Request, Idle, AddReq, OverwriteReq, PurgeReq, UnlinkReq
      <4> QED BY <4>1, <4>2, StoreAssumption DEF TypeInv, TypeOK, Ids
    <3> QED BY <3>1, <3>2
  <2>2. req' \in [Workers -> Request] /\ \A w \in Workers : req'[w].op = "idle"
    BY <1>3 DEF Crash, Request, Idle
  <2>3. TypeOK'
    BY <1>3, <2>1, <2>2 DEF Crash, TypeInv, TypeOK, Races
  <2>4. Finite'
    BY <1>3, <2>2 DEF Crash, TypeInv, Finite
  <2> QED BY <2>3, <2>4 DEF TypeInv
<1> QED BY <1>1, <1>2, <1>3

\* The commits that add a row take its columns from the worker's request.
LEMMA AddingRow ==
  ASSUME TypeInv, NEW w \in Workers,
         UploadInsert(w) \/ CopyCommit(w) \/ FromHashCommit(w)
  PROVE  /\ req[w] \in AddReq
         /\ \E n \in Names : AddRow(w, req[w].owner, n, req[w].sha, req[w].donor)
<1> DEFINE r == req[w]
<1>1. r.op \in {"insert", "copy", "byhash"}
  BY DEF UploadInsert, CopyCommit, FromHashCommit
<1>2. r \in AddReq
  BY <1>1 DEF TypeInv, TypeOK, Request, Idle, OverwriteReq, PurgeReq, UnlinkReq
<1>3. r.name \in Names /\ Suffixed[r.name] \in Names
  BY <1>2, StoreAssumption DEF AddReq
<1>4. CASE UploadInsert(w)
  BY <1>2, <1>3, <1>4 DEF UploadInsert
<1>5. CASE CopyCommit(w)
  <2>1. PICK n \in {r.name, Suffixed[r.name]} : AddRow(w, r.owner, n, r.sha, r.donor)
    BY <1>5 DEF CopyCommit
  <2> QED BY <1>2, <1>3, <2>1
<1>6. CASE FromHashCommit(w)
  BY <1>2, <1>3, <1>6 DEF FromHashCommit
<1> QED BY <1>4, <1>5, <1>6

LEMMA AddingType ==
  ASSUME TypeInv, NEW w \in Workers,
         UploadInsert(w) \/ CopyCommit(w) \/ FromHashCommit(w)
  PROVE  TypeInv'
<1>1. PICK n \in Names : AddRow(w, req[w].owner, n, req[w].sha, req[w].donor)
  BY AddingRow
<1>2. req[w] \in AddReq
  BY AddingRow
<1> QED BY <1>1, <1>2, AddRowType DEF AddReq

LEMMA NextType == TypeInv /\ [Next]_vars => TypeInv'
<1> SUFFICES ASSUME TypeInv, [Next]_vars PROVE TypeInv'
  OBVIOUS
<1>1. ASSUME NEW w \in Workers, NEW o \in Users, NEW n \in Names, NEW h \in Hashes,
             UploadRead(w, o, n, h) \/ FromHashRead(w, o, n, h)
      PROVE  TypeInv'
  BY <1>1, UploadReadType, OtherReadsType
<1>2. ASSUME NEW w \in Workers, NEW f \in Ids, NEW o \in Users, CopyRead(w, f, o)
      PROVE  TypeInv'
  BY <1>2, OtherReadsType
<1>3. ASSUME NEW w \in Workers, NEW f \in Ids, PurgeRead(w, f)
      PROVE  TypeInv'
  BY <1>3, OtherReadsType
<1>4. ASSUME NEW w \in Workers,
             UploadInsert(w) \/ CopyCommit(w) \/ FromHashCommit(w)
      PROVE  TypeInv'
  BY <1>4, AddingType
<1>5. ASSUME NEW w \in Workers, UploadOverwrite(w) \/ PurgeCommit(w)
      PROVE  TypeInv'
  BY <1>5, UploadOverwriteType, PurgeCommitType
<1>6. ASSUME NEW f \in Ids, Delete(f) \/ Restore(f)
      PROVE  TypeInv'
  BY <1>6, TrashType
<1>7. CASE Crash \/ \E w \in Workers : Unlink(w) \/ Abort(w)
  BY <1>7, EndsType
<1>8. CASE UNCHANGED vars
  <2>1. TypeOK' BY <1>8 DEF vars, TypeInv, TypeOK
  <2>2. Finite' BY <1>8 DEF vars, TypeInv, Finite
  <2> QED BY <2>1, <2>2 DEF TypeInv
<1> QED BY <1>1, <1>2, <1>3, <1>4, <1>5, <1>6, <1>7, <1>8 DEF Next

\* Every table, snapshot and counter keeps its type, in every interleaving of any
\* number of handlers over any contents, names and quotas.
THEOREM TypeCorrect == Spec => []TypeOK
<1>1. TypeInv => TypeOK
  BY DEF TypeInv
<1> QED BY <1>1, InitTypeInv, NextType, PTL DEF Spec

(***************************************************************************)
(* blob_refs counts the rows.  The inductive invariant adds that a uuid    *)
(* not minted yet names no row, so that a new row is one more holder of    *)
(* its path and not a replacement of another.                              *)
(***************************************************************************)
\* Rows of F, a table of files, that point at path p.
Pointing(F, p) == {f \in DOMAIN F : F[f].path = p}

Fresh == \A f \in DOMAIN files : f < nextId

RefsInv == TypeInv /\ Fresh /\ RefsMatchRows

\* One more version row is one more use of its path.
LEMMA UsesAdd ==
  ASSUME NEW V, IsFiniteSet(V), NEW v, v \notin V, NEW p
  PROVE  Uses(V \cup {v}, p) = Uses(V, p) + One(v.path = p)
<1> DEFINE A == {x \in V : x.path = p}
           B == {x \in V \cup {v} : x.path = p}
<1>1. IsFiniteSet(A) /\ Cardinality(A) \in Nat
  BY FS_Subset, FS_CardinalityType
<1>2. Uses(V, p) = Cardinality(A) /\ Uses(V \cup {v}, p) = Cardinality(B)
  BY DEF Uses
<1>3. CASE v.path = p
  <2>1. B = A \cup {v} /\ v \notin A
    BY <1>3
  <2> HIDE DEF A, B
  <2>2. Cardinality(B) = Cardinality(A) + 1
    BY <1>1, <2>1, FS_AddElement
  <2> QED BY <1>2, <1>3, <2>2 DEF One
<1>4. CASE v.path # p
  <2>1. B = A
    BY <1>4
  <2> HIDE DEF A, B
  <2> QED BY <1>1, <1>2, <1>4, <2>1 DEF One
<1> QED BY <1>3, <1>4

\* Deleting the version rows W takes exactly their uses away.
LEMMA UsesRemove ==
  ASSUME NEW V, IsFiniteSet(V), NEW W \in SUBSET V, NEW p
  PROVE  Uses(V, p) = Uses(V \ W, p) + Uses(W, p)
<1> DEFINE A == {x \in V : x.path = p}
           B == {x \in W : x.path = p}
<1>1. IsFiniteSet(A) /\ IsFiniteSet(B)
  BY FS_Subset
<1>2. {x \in V \ W : x.path = p} = A \ B /\ A \cap B = B
  OBVIOUS
<1>3. Uses(V, p) = Cardinality(A) /\ Uses(W, p) = Cardinality(B)
  BY DEF Uses
<1>4. Uses(V \ W, p) = Cardinality(A \ B)
  BY <1>2 DEF Uses
<1> HIDE DEF A, B
<1>5. Cardinality(A \ B) = Cardinality(A) - Cardinality(A \cap B)
  BY <1>1, FS_Difference
<1>6. Cardinality(A) \in Nat /\ Cardinality(B) \in Nat
  BY <1>1, FS_CardinalityType
<1>7. Cardinality(A \cap B) = Cardinality(B)
  BY <1>2, Zenon
<1> QED BY <1>3, <1>4, <1>5, <1>6, <1>7

LEMMA PointingFinite ==
  ASSUME TypeInv, NEW p
  PROVE  IsFiniteSet(Pointing(files, p)) /\ Cardinality(Pointing(files, p)) \in Nat
<1>1. IsFiniteSet(Ids)
  BY StoreAssumption, FS_Interval DEF Ids
<1>2. Pointing(files, p) \in SUBSET Ids
  BY DEF TypeInv, TypeOK, Pointing
<1> QED BY <1>1, <1>2, FS_Subset, FS_CardinalityType

\* The holders of a path, and that they are finitely many.
LEMMA HoldersSplit ==
  ASSUME TypeInv, NEW p
  PROVE  /\ Holders(p) = Cardinality(Pointing(files, p)) + Uses(versions, p)
         /\ Holders(p) \in Nat
<1>1. IsFiniteSet(versions)
  BY DEF TypeInv, Finite
<1> QED BY <1>1, PointingFinite, UsesNat DEF Holders, Pointing

\* A commit that adds a row adds one reference to the blob the row points at.
LEMMA AddRowRefs ==
  ASSUME RefsInv, NEW w \in Workers, NEW o \in Users, NEW n \in Names,
         NEW h \in Hashes, NEW d \in Ids \cup {NoDonor}, AddRow(w, o, n, h, d)
  PROVE  RefsMatchRows' /\ Fresh'
<1> DEFINE row == [owner |-> o, name |-> n, path |-> BlobPath(d), sha |-> h,
                   deleted |-> FALSE]
           acq == [p \in Ids |-> One(p = BlobPath(d))]
<1>1. /\ files' = [f \in DOMAIN files \cup {nextId} |-> IF f = nextId THEN row ELSE files[f]]
      /\ refs' = [p \in Ids |-> Minus(refs[p] + acq[p], NoRefs[p])]
      /\ nextId' = nextId + 1
      /\ lost \subseteq lost'
      /\ versions' = versions
  BY DEF AddRow, Settle
<1>2. nextId \notin DOMAIN files /\ nextId \in Nat
  BY DEF RefsInv, Fresh, TypeInv, TypeOK
<1>3. Fresh'
  BY <1>1, <1>2 DEF RefsInv, Fresh, TypeInv, TypeOK, Ids
<1>4. ASSUME NEW p \in Ids, refs[p] = Holders(p)
      PROVE  refs'[p] = Holders(p)'
  <2> DEFINE A == Pointing(files, p)
             B == Pointing(files', p)
  <2>1. IsFiniteSet(A) /\ Cardinality(A) \in Nat
    BY PointingFinite DEF RefsInv
  <2>2. Cardinality(B) = Cardinality(A) + One(p = BlobPath(d))
    <3>1. CASE p = BlobPath(d)
      <4>1. B = A \cup {nextId} /\ nextId \notin A
        BY <1>1, <1>2, <3>1 DEF Pointing
      <4> QED BY <2>1, <3>1, <4>1, FS_AddElement DEF One
    <3>2. CASE p # BlobPath(d)
      <4>1. B = A
        BY <1>1, <1>2, <3>2 DEF Pointing
      <4> QED BY <2>1, <3>2, <4>1 DEF One
    <3> QED BY <3>1, <3>2
  <2>3. Holders(p)' = Cardinality(B) + Uses(versions, p)
    BY <1>1 DEF Holders, Pointing
  <2>4. Holders(p) = Cardinality(A) + Uses(versions, p) /\ Holders(p) \in Nat
    BY HoldersSplit DEF RefsInv
  <2>5. refs'[p] = Holders(p) + One(p = BlobPath(d))
    BY <1>1, <1>4, <2>4 DEF Minus, One, NoRefs
  <2>6. Uses(versions, p) \in Nat
    BY UsesNat DEF RefsInv, TypeInv, Finite
  <2> HIDE DEF A, B
  <2> QED BY <2>1, <2>2, <2>3, <2>4, <2>5, <2>6 DEF One
<1>5. RefsMatchRows'
  BY <1>1, <1>4 DEF RefsInv, RefsMatchRows, Intact
<1> QED BY <1>3, <1>5

\* A purge of the rows it read drops the references of those rows.
LEMMA PurgeCommitRefs ==
  ASSUME RefsInv, NEW w \in Workers, PurgeCommit(w)
  PROVE  RefsMatchRows' /\ Fresh'
<1> DEFINE r == req[w]
           f == r.file
           rel == [p \in Ids |-> One(p = r.row.path) + Uses(r.vers, p)]
           stale == \/ ~(f \in DOMAIN files /\ files[f].deleted)
                    \/ files[f] # r.row
                    \/ VersionsOf(f) # r.vers
<1>1. /\ refs' = [p \in Ids |-> Minus(refs[p] + NoRefs[p], rel[p])]
      /\ lost' = lost \cup Note("stalePurge", stale)
      /\ nextId' = nextId
      /\ DOMAIN files' \subseteq DOMAIN files
  BY DEF PurgeCommit, Settle
<1>2. Fresh'
  BY <1>1 DEF RefsInv, Fresh
<1>3. CASE stale
  <2>1. "stalePurge" \in lost'
    BY <1>1, <1>3 DEF Note
  <2> QED BY <1>2, <2>1 DEF RefsMatchRows, Intact
<1>4. CASE ~stale
  <2>1. /\ f \in DOMAIN files /\ files[f] = r.row /\ VersionsOf(f) = r.vers
        /\ files' = [g \in DOMAIN files \ {f} |-> files[g]]
        /\ versions' = versions \ VersionsOf(f)
    BY <1>4 DEF PurgeCommit, Settle
  <2>2. ASSUME NEW p \in Ids, refs[p] = Holders(p)
        PROVE  refs'[p] = Holders(p)'
    <3> DEFINE A == Pointing(files, p)
               B == Pointing(files', p)
               U == Uses(versions, p)
               V == Uses(r.vers, p)
               W == Uses(versions', p)
    <3>1. IsFiniteSet(A) /\ Cardinality(A) \in Nat
      BY PointingFinite DEF RefsInv
    <3>2. Cardinality(A) = Cardinality(B) + One(p = r.row.path) /\ Cardinality(B) \in Nat
      <4>1. CASE p = r.row.path
        <5>1. B = A \ {f} /\ f \in A
          BY <2>1, <4>1 DEF Pointing
        <5>2. IsFiniteSet(B) /\ Cardinality(B) = Cardinality(A) - 1
          BY <3>1, <5>1, FS_RemoveElement
        <5> HIDE DEF A, B
        <5> QED BY <3>1, <4>1, <5>2, FS_CardinalityType DEF One
      <4>2. CASE p # r.row.path
        <5>1. B = A
          BY <2>1, <4>2 DEF Pointing
        <5> QED BY <3>1, <4>2, <5>1 DEF One
      <4> QED BY <4>1, <4>2
    <3>3. IsFiniteSet(versions) /\ VersionsOf(f) \in SUBSET versions
      BY DEF RefsInv, TypeInv, Finite, VersionsOf
    <3>4. U = W + V
      BY <2>1, <3>3, UsesRemove
    <3>5. V \in Nat /\ W \in Nat
      <4>1. IsFiniteSet(r.vers) /\ IsFiniteSet(versions')
        BY <2>1, <3>3, FS_Subset
      <4> QED BY <4>1, UsesNat
    <3>6. Holders(p)' = Cardinality(B) + W
      BY DEF Holders, Pointing, Uses
    <3>7. Holders(p) = Cardinality(A) + U
      BY HoldersSplit DEF RefsInv
    <3>8. refs'[p] = Minus(Holders(p) + 0, One(p = r.row.path) + V)
      BY <1>1, <2>2 DEF NoRefs
    <3> HIDE DEF A, B, U, V, W
    <3>9. CASE p = r.row.path
      BY <3>2, <3>4, <3>5, <3>6, <3>7, <3>8, <3>9 DEF One, Minus
    <3>10. CASE p # r.row.path
      BY <3>2, <3>4, <3>5, <3>6, <3>7, <3>8, <3>10 DEF One, Minus
    <3> QED BY <3>9, <3>10
  <2>3. RefsMatchRows'
    BY <1>1, <2>2 DEF RefsInv, RefsMatchRows, Intact
  <2> QED BY <1>2, <2>3
<1> QED BY <1>3, <1>4

\* An overwrite moves the current blob's reference to the version row it becomes,
\* takes one for the new blob and drops those of the pruned versions.
LEMMA UploadOverwriteRefs ==
  ASSUME RefsInv, NEW w \in Workers, UploadOverwrite(w)
  PROVE  RefsMatchRows' /\ Fresh'
<1> DEFINE r == req[w]
           f == r.file
           new == BlobPath(r.donor)
           ver == [file |-> f, no |-> NextNo(r.vers), path |-> r.row.path, sha |-> r.row.sha]
           pruned == Pruned(r.vers \cup {ver})
           acq == [p \in Ids |-> One(p = r.row.path) + One(p = new)]
           rel == [p \in Ids |-> One(p = r.row.path) + Uses(pruned, p)]
           stale == files[f] # r.row \/ VersionsOf(f) # r.vers
<1>1. /\ f \in DOMAIN files
      /\ \A v \in VersionsOf(f) : v.no # ver.no
      /\ files' = [files EXCEPT ![f] = [files[f] EXCEPT !.path = new, !.sha = r.sha]]
      /\ versions' = (versions \cup {ver}) \ pruned
      /\ refs' = [p \in Ids |-> Minus(refs[p] + acq[p], rel[p])]
      /\ nextId' \in {nextId, nextId + 1}
      /\ lost \subseteq lost'
      /\ stale => "staleTarget" \in lost'
  BY DEF UploadOverwrite, Settle, Note
<1>2. Fresh'
  BY <1>1 DEF RefsInv, TypeInv, TypeOK, Fresh, Ids
<1>3. CASE stale
  BY <1>1, <1>2, <1>3 DEF RefsMatchRows, Intact
<1>4. CASE ~stale
  <2>1. ver \notin versions
    BY <1>1 DEF VersionsOf
  <2>2. IsFiniteSet(versions) /\ IsFiniteSet(versions \cup {ver})
    BY FS_AddElement DEF RefsInv, TypeInv, Finite
  <2>3. pruned \in SUBSET (versions \cup {ver})
    <3>1. pruned \subseteq r.vers \cup {ver}
      BY PrunedSubset
    <3>2. r.vers \subseteq versions
      BY <1>4 DEF VersionsOf
    <3> QED BY <3>1, <3>2
  <2>4. ASSUME NEW p \in Ids, refs[p] = Holders(p)
        PROVE  refs'[p] = Holders(p)'
    <3> DEFINE A == Pointing(files, p)
               B == Pointing(files', p)
               U == Uses(versions, p)
               X == Uses(versions \cup {ver}, p)
               V == Uses(pruned, p)
               W == Uses(versions', p)
               a == One(p = r.row.path)
               b == One(p = new)
    <3>1. IsFiniteSet(A) /\ Cardinality(A) \in Nat
      BY PointingFinite DEF RefsInv
    <3>2. Cardinality(B) + a = Cardinality(A) + b /\ Cardinality(B) \in Nat
      <4>1. B \ {f} = A \ {f}
        BY <1>1 DEF Pointing
      <4>2. f \in A <=> p = r.row.path
        BY <1>1, <1>4 DEF Pointing
      <4>3. f \in B <=> p = new
        BY <1>1 DEF Pointing, RefsInv, TypeInv, TypeOK, Row
      <4> HIDE DEF A, B
      <4>4. IsFiniteSet(A \ {f}) /\ Cardinality(A \ {f}) = Cardinality(A) - a
        BY <3>1, <4>2, FS_RemoveElement DEF One
      <4>5. IsFiniteSet(B)
        <5>1. IsFiniteSet((B \ {f}) \cup {f})
          BY <4>1, <4>4, FS_AddElement
        <5> QED BY <5>1, FS_Subset
      <4>6. Cardinality(B \ {f}) = Cardinality(B) - b /\ Cardinality(B) \in Nat
        BY <4>3, <4>5, FS_RemoveElement, FS_CardinalityType DEF One
      <4>7. a \in {0, 1} /\ b \in {0, 1}
        BY DEF One
      <4> HIDE DEF a, b
      <4>8. Cardinality(B \ {f}) = Cardinality(A \ {f})
        BY <4>1, Zenon
      <4> QED BY <3>1, <4>4, <4>6, <4>7, <4>8
    <3>3. X = U + a
      BY <2>1, <2>2, UsesAdd DEF One
    <3>4. X = W + V
      BY <1>1, <2>2, <2>3, UsesRemove
    <3>5. U \in Nat /\ V \in Nat /\ W \in Nat
      <4>1. IsFiniteSet(pruned) /\ IsFiniteSet(versions')
        BY <1>1, <2>2, <2>3, FS_Subset
      <4> QED BY <2>2, <4>1, UsesNat
    <3>6. Holders(p)' = Cardinality(B) + W
      BY DEF Holders, Pointing, Uses
    <3>7. Holders(p) = Cardinality(A) + U
      BY HoldersSplit DEF RefsInv
    <3>8. refs'[p] = Minus(Holders(p) + (a + b), a + V)
      BY <1>1, <2>4
    <3>9. a \in {0, 1} /\ b \in {0, 1}
      BY DEF One
    <3> HIDE DEF A, B, U, V, W, X, a, b
    <3> QED BY <3>1, <3>2, <3>3, <3>4, <3>5, <3>6, <3>7, <3>8, <3>9 DEF Minus
  <2>5. RefsMatchRows'
    BY <1>1, <2>4 DEF RefsInv, RefsMatchRows, Intact
  <2> QED BY <1>2, <2>5
<1> QED BY <1>3, <1>4

\* Steps that leave the rows and their counts alone.
LEMMA OtherRefs ==
  ASSUME RefsInv, TypeInv', UNCHANGED <<versions, refs>>,
         DOMAIN files' = DOMAIN files,
         \A f \in DOMAIN files : files'[f].path = files[f].path,
         nextId <= nextId', lost \subseteq lost'
  PROVE  RefsMatchRows' /\ Fresh'
<1>1. Fresh'
  BY DEF RefsInv, Fresh, TypeInv, TypeOK, Ids
<1>2. \A p : Pointing(files', p) = Pointing(files, p)
  BY DEF Pointing
<1>3. \A p : Holders(p)' = Holders(p)
  BY <1>2 DEF Holders, Pointing
<1>4. RefsMatchRows'
  BY <1>3 DEF RefsInv, RefsMatchRows, Intact
<1> QED BY <1>1, <1>4

LEMMA InitRefs == Init => RefsMatchRows /\ Fresh
<1> SUFFICES ASSUME Init PROVE RefsMatchRows /\ Fresh
  OBVIOUS
<1>1. \A p \in Ids : Holders(p) = 0
  <2> SUFFICES ASSUME NEW p \in Ids PROVE Holders(p) = 0
    OBVIOUS
  <2>1. {f \in DOMAIN files : files[f].path = p} = {} /\ {v \in versions : v.path = p} = {}
    BY DEF Init
  <2> QED BY <2>1, FS_EmptySet DEF Holders, Uses
<1> QED BY <1>1 DEF Init, RefsMatchRows, Fresh

LEMMA NextRefs == RefsInv /\ [Next]_vars => RefsInv'
<1> SUFFICES ASSUME RefsInv, [Next]_vars PROVE RefsInv'
  OBVIOUS
<1>1. TypeInv'
  BY NextType DEF RefsInv
<1> SUFFICES RefsMatchRows' /\ Fresh'
  BY <1>1 DEF RefsInv
<1>2. ASSUME NEW w \in Workers,
             UploadInsert(w) \/ CopyCommit(w) \/ FromHashCommit(w)
      PROVE  RefsMatchRows' /\ Fresh'
  <2>1. TypeInv
    BY DEF RefsInv
  <2>2. PICK n \in Names : /\ AddRow(w, req[w].owner, n, req[w].sha, req[w].donor)
                           /\ req[w] \in AddReq
    BY <1>2, <2>1, AddingRow
  <2> QED BY <2>2, AddRowRefs DEF AddReq
<1>3. ASSUME NEW w \in Workers, UploadOverwrite(w)
      PROVE  RefsMatchRows' /\ Fresh'
  BY <1>3, UploadOverwriteRefs
<1>4. ASSUME NEW w \in Workers, PurgeCommit(w)
      PROVE  RefsMatchRows' /\ Fresh'
  BY <1>4, PurgeCommitRefs
<1>5. ASSUME NEW f \in Ids, Delete(f) \/ Restore(f)
      PROVE  RefsMatchRows' /\ Fresh'
  <2>1. /\ UNCHANGED <<versions, refs, nextId, lost>>
        /\ f \in DOMAIN files
        /\ \E b \in BOOLEAN : files' = [files EXCEPT ![f] = [files[f] EXCEPT !.deleted = b]]
    BY <1>5 DEF Delete, Restore, Live
  <2>2. files[f] \in Row
    BY <2>1 DEF RefsInv, TypeInv, TypeOK
  <2>3. /\ DOMAIN files' = DOMAIN files
        /\ \A g \in DOMAIN files : files'[g].path = files[g].path
    BY <2>1, <2>2 DEF Row
  <2> QED BY <1>1, <2>1, <2>3, OtherRefs DEF RefsInv, TypeInv, TypeOK, Ids
<1>6. ASSUME UNCHANGED <<files, versions, refs, nextId, lost>>
      PROVE  RefsMatchRows' /\ Fresh'
  BY <1>1, <1>6, OtherRefs DEF RefsInv, TypeInv, TypeOK, Ids
<1>7. CASE Crash
  <2>1. UNCHANGED <<files, versions, refs>> /\ lost \subseteq lost'
    BY <1>7 DEF Crash
  <2>2. nextId' \in {nextId, nextId + 1}
    BY <1>7 DEF Crash
  <2>3. nextId <= nextId'
    BY <2>2 DEF RefsInv, TypeInv, TypeOK
  <2> QED BY <1>1, <2>1, <2>3, OtherRefs
<1>8. ASSUME NEW w \in Workers, Unlink(w) \/ Abort(w)
      PROVE  RefsMatchRows' /\ Fresh'
  BY <1>6, <1>8 DEF Unlink, Abort
<1>9. ASSUME NEW w \in Workers, NEW o \in Users, NEW n \in Names, NEW h \in Hashes,
             UploadRead(w, o, n, h) \/ FromHashRead(w, o, n, h)
      PROVE  RefsMatchRows' /\ Fresh'
  BY <1>6, <1>9 DEF UploadRead, FromHashRead
<1>10. ASSUME NEW w \in Workers, NEW f \in Ids, NEW o \in Users, CopyRead(w, f, o)
       PROVE  RefsMatchRows' /\ Fresh'
  BY <1>6, <1>10 DEF CopyRead
<1>11. ASSUME NEW w \in Workers, NEW f \in Ids, PurgeRead(w, f)
       PROVE  RefsMatchRows' /\ Fresh'
  BY <1>6, <1>11 DEF PurgeRead
<1>12. CASE UNCHANGED vars
  BY <1>6, <1>12 DEF vars
<1> QED BY <1>2, <1>3, <1>4, <1>5, <1>7, <1>8, <1>9, <1>10, <1>11, <1>12 DEF Next

\* However uploads, copies, restores and purges interleave, blob_refs counts the rows
\* of files and file_versions that point at each path, as long as no purge or overwrite
\* commits on rows that changed after it read them.
THEOREM RefsCorrect == Spec => []RefsMatchRows
<1>1. Init => RefsInv
  BY InitTypeInv, InitRefs DEF RefsInv
<1>2. RefsInv => RefsMatchRows
  BY DEF RefsInv
<1> QED BY <1>1, <1>2, NextRefs, PTL DEF Spec

\* The history only grows.
LEMMA LostGrows == [Next]_vars => lost \subseteq lost'
BY DEF Next, vars, UploadRead, FromHashRead, CopyRead, PurgeRead, UploadInsert,
  UploadOverwrite, CopyCommit, FromHashCommit, AddRow, PurgeCommit, Unlink, Abort,
  Delete, Restore, Crash

--------------------------------------------------------------------------------
(* Pruning.  A version goes only when MaxVersions newer ones of its file stay,   *)
(* also when the overwrite that prunes it read the versions before another       *)
(* overwrite changed them: what a snapshot still lists and the table no longer   *)
(* has went for the same reason.                                                 *)

\* A set of numbers that is not empty has a least member.
LEMMA Least ==
  ASSUME NEW T \in SUBSET Nat, T # {}
  PROVE  \E x \in T : \A y \in T : x <= y
<1> DEFINE R == {ss \in Nat \X Nat : ss[1] < ss[2]}
<1>1. OpToRel(<, Nat) = R
  BY DEF OpToRel
<1>2. IsWellFoundedOn(R, Nat)
  BY <1>1, NatLessThanWellFounded
<1>3. PICK x \in T : \A y \in T : ~ (<<y, x>> \in R)
  BY <1>2, WFMin
<1>4. ASSUME NEW y \in T, y < x PROVE <<y, x>> \in R
  BY <1>4
<1>5. \A y \in T : ~ (y < x)
  BY <1>3, <1>4, Zenon
<1> QED BY <1>5

\* When it is bounded, it has a greatest one, which is its Max.
LEMMA MaxIs ==
  ASSUME NEW n \in Nat, NEW T \in SUBSET (0 .. n), T # {}
  PROVE  Max(T) \in T /\ \A y \in T : y <= Max(T)
<1> DEFINE D == {n - x : x \in T}
<1>1. D \in SUBSET Nat /\ D # {}
  OBVIOUS
<1>2. PICK d \in D : \A e \in D : d <= e
  BY <1>1, Least
<1>3. PICK x \in T : d = n - x
  OBVIOUS
<1>4. \A y \in T : x >= y
  <2>1. ASSUME NEW y \in T PROVE x >= y
    <3>1. n - y \in D /\ d <= n - y
      BY <1>2
    <3> QED BY <1>3, <3>1
  <2> QED BY <2>1
<1>5. \E z \in T : \A y \in T : z >= y
  BY <1>4
<1> QED BY <1>5 DEF Max

Of(V, f) == {v \in V : v.file = f}
Newer(V, n) == {u \in V : u.no > n}
Enough(V, n) == Cardinality(Newer(V, n)) >= MaxVersions

\* More rows, or an older one to compare with, leave no fewer newer ones.
LEMMA EnoughMonotonic ==
  ASSUME NEW V \in SUBSET Version, NEW W \in SUBSET Version, IsFiniteSet(W),
         NEW m \in Int, NEW n \in Int, m <= n, Newer(V, n) \subseteq W, Enough(V, n)
  PROVE  Enough(W, m)
<1>1. Newer(V, n) \subseteq Newer(W, m)
  BY DEF Newer, Version
<1>2. IsFiniteSet(Newer(W, m))
  BY FS_Subset DEF Newer
<1>3. /\ Cardinality(Newer(V, n)) <= Cardinality(Newer(W, m))
      /\ Cardinality(Newer(V, n)) \in Nat /\ Cardinality(Newer(W, m)) \in Nat
  BY <1>1, <1>2, FS_Subset, FS_CardinalityType
<1> QED BY <1>3, StoreAssumption DEF Enough

\* When every row of P has enough newer ones in V, removing P takes from no version
\* the newer ones it has enough of: the newest row of P already leaves enough.
LEMMA EnoughRemain ==
  ASSUME NEW V \in SUBSET Version, IsFiniteSet(V), NEW P \in SUBSET V,
         \A p \in P : Enough(V, p.no), NEW n \in Int, Enough(V, n)
  PROVE  Enough(V \ P, n)
<1> DEFINE T == {p.no : p \in Newer(P, n)}
<1>1. IsFiniteSet(V \ P) /\ V \ P \in SUBSET Version
  BY FS_Subset
<1>2. CASE T = {}
  <2>1. Newer(V, n) \subseteq V \ P
    BY <1>2 DEF Newer
  <2> QED BY <1>1, <2>1, EnoughMonotonic
<1>3. CASE T # {}
  <2>1. T \in SUBSET (0 .. MaxNo) /\ MaxNo \in Nat
    BY StoreAssumption DEF Newer, Version
  <2>2. Max(T) \in T /\ \A y \in T : y <= Max(T)
    BY <1>3, <2>1, MaxIs
  <2>3. PICK p \in P : p.no = Max(T) /\ p.no > n
    BY <2>2 DEF Newer
  <2>4. p.no \in Int
    BY DEF Version
  <2>5. Newer(V, p.no) \subseteq V \ P
    <3>1. SUFFICES ASSUME NEW u \in P, u.no > p.no PROVE FALSE
      BY DEF Newer
    <3>2. u.no \in Int
      BY DEF Version
    <3>3. u.no > n
      BY <2>3, <2>4, <3>1, <3>2
    <3>4. u.no \in T
      BY <3>3 DEF Newer
    <3> QED BY <2>2, <2>3, <2>4, <3>1, <3>2, <3>4
  <2>6. Enough(V, p.no) /\ n <= p.no
    BY <2>3, <2>4
  <2> QED BY <1>1, <2>4, <2>5, <2>6, EnoughMonotonic
<1> QED BY <1>2, <1>3

\* The newest row is not pruned.
LEMMA NewestStays ==
  ASSUME NEW V, NEW v, \A u \in V : ~ (u.no > v.no)
  PROVE  v \notin Pruned(V)
<1> DEFINE N == {u \in V : u.no > v.no}
<1>1. N = {}
  OBVIOUS
<1>2. v \in Pruned(V) => Cardinality(N) >= MaxVersions
  BY DEF Pruned
<1> HIDE DEF N
<1>3. Cardinality(N) = 0
  BY <1>1, FS_EmptySet
<1> QED BY <1>2, <1>3, StoreAssumption

\* What an overwrite numbers its version: above all it read.
LEMMA NextNoAbove ==
  ASSUME NEW V \in SUBSET Version
  PROVE  /\ NextNo(V) \in Nat
         /\ \A v \in V : v.no < NextNo(V)
         /\ NextNo(V) \in {1} \cup {v.no + 1 : v \in V}
<1> DEFINE T == {v.no : v \in V} \cup {0}
<1>1. T \in SUBSET (0 .. MaxNo) /\ T # {} /\ MaxNo \in Nat
  BY StoreAssumption DEF Version
<1>2. Max(T) \in T /\ \A y \in T : y <= Max(T)
  BY <1>1, MaxIs
<1>3. NextNo(V) = Max(T) + 1
  BY DEF NextNo
<1>6. NextNo(V) \in {1} \cup {v.no + 1 : v \in V}
  <2>1. PICK x : x = Max(T)
    OBVIOUS
  <2>2. x \in T /\ NextNo(V) = x + 1
    BY <1>2, <1>3, <2>1
  <2> QED BY <2>2
<1> HIDE DEF T
<1>4. Max(T) \in 0 .. MaxNo
  BY <1>1, <1>2
<1>5. ASSUME NEW v \in V PROVE v.no < NextNo(V)
  <2>1. v.no \in T /\ v.no \in Nat
    BY DEF T, Version
  <2> QED BY <1>2, <1>3, <1>4, <2>1
<1> QED BY <1>3, <1>4, <1>5, <1>6

\* A version row belongs to a file that exists.
Attached == \A v \in versions : v.file \in DOMAIN files

\* An overwrite has read a live row, and the versions it read that are gone since had
\* enough newer ones, now in the table.
Sound(r) ==
  r.op = "overwrite" =>
    /\ r.file < nextId
    /\ ~r.row.deleted /\ r.row.owner = r.owner
    /\ \A v \in r.vers : v.file = r.file
    /\ r.file \in DOMAIN files =>
         \A v \in r.vers \ versions : Enough(VersionsOf(r.file), v.no)

RowsInv ==
  /\ RefsInv
  /\ Attached
  /\ \A w \in Workers : Sound(req[w])

\* One overwrite's effect on its file's versions: the table after it is what it was
\* and the new row without pruned ones, and those have enough newer rows.
LEMMA OverwriteVersions ==
  ASSUME RowsInv, NEW w \in Workers, UploadOverwrite(w)
  PROVE  LET f      == req[w].file
             ver    == [file |-> f, no |-> NextNo(req[w].vers),
                        path |-> req[w].row.path, sha |-> req[w].row.sha]
             pruned == Pruned(req[w].vers \cup {ver})
             V      == VersionsOf(f) \cup {ver}
         IN  /\ req[w] \in OverwriteReq
             /\ f \in DOMAIN files
             /\ ver \in Version /\ ver \notin pruned
             /\ \A v \in pruned : v.file = f
             /\ versions' = (versions \cup {ver}) \ pruned
             /\ V \in SUBSET Version /\ IsFiniteSet(V)
             /\ \A p \in pruned \cap V : Enough(V, p.no)
             /\ Of(versions', f) = V \ pruned
             /\ \A g : g # f => Of(versions', g) = VersionsOf(g)
<1> DEFINE r == req[w]
           f == r.file
           ver == [file |-> f, no |-> NextNo(r.vers), path |-> r.row.path, sha |-> r.row.sha]
           D == r.vers \cup {ver}
           pruned == Pruned(D)
           V == VersionsOf(f) \cup {ver}
<1>1. /\ r.op = "overwrite"
      /\ f \in DOMAIN files
      /\ ver.no \in 1 .. MaxNo
      /\ versions' = (versions \cup {ver}) \ pruned
  BY DEF UploadOverwrite
<1>2. r \in OverwriteReq /\ IsFiniteSet(r.vers)
  BY <1>1 DEF RowsInv, RefsInv, TypeInv, TypeOK, Finite, Request, Idle, AddReq, OverwriteReq,
     PurgeReq, UnlinkReq
<1>3. ver \in Version
  BY <1>1, <1>2 DEF OverwriteReq, Row, Version
<1>4. r.vers \in SUBSET Version /\ D \in SUBSET Version /\ IsFiniteSet(D)
  <2>1. r.vers \in SUBSET Version
    BY <1>2 DEF OverwriteReq
  <2> HIDE DEF ver
  <2> QED BY <1>2, <1>3, <2>1, FS_AddElement
<1>5. \A v \in D : v.file = f
  BY <1>1 DEF RowsInv, Sound
<1>6. \A u \in D : ~ (u.no > ver.no)
  <2>1. /\ \A u \in r.vers : u.no < ver.no /\ u.no \in Int
        /\ ver.no \in Int
    BY <1>4, NextNoAbove DEF Version
  <2> QED BY <2>1
<1>7. ver \notin pruned
  BY <1>6, NewestStays
<1>8. \A v \in pruned : v.file = f
  BY <1>5, PrunedSubset
<1>9. V \in SUBSET Version /\ IsFiniteSet(V)
  <2>1. VersionsOf(f) \in SUBSET Version /\ IsFiniteSet(VersionsOf(f))
    BY VersionsOfFinite DEF RowsInv, RefsInv
  <2> HIDE DEF ver
  <2> QED BY <1>3, <2>1, FS_AddElement
<1>10. ASSUME NEW p \in pruned PROVE Enough(V, p.no)
  <2>1. p \in D /\ Enough(D, p.no) /\ p.no \in Int
    BY <1>4 DEF Pruned, Enough, Newer, Version
  <2>2. CASE Newer(D, p.no) \subseteq V
    BY <1>4, <1>9, <2>1, <2>2, EnoughMonotonic
  <2>3. ASSUME NEW u \in Newer(D, p.no), u \notin V
        PROVE  Enough(V, p.no)
    <3>1. u \in r.vers /\ u.no > p.no /\ u.no \in Int
      BY <1>4, <2>3 DEF Newer, Version
    <3>2. u \notin versions
      BY <1>5, <2>3, <3>1 DEF VersionsOf
    <3>3. Enough(VersionsOf(f), u.no)
      BY <1>1, <3>1, <3>2 DEF RowsInv, Sound
    <3>4. VersionsOf(f) \in SUBSET Version /\ Newer(VersionsOf(f), u.no) \subseteq V
      BY <1>9 DEF Newer
    <3> QED BY <1>9, <2>1, <3>1, <3>3, <3>4, EnoughMonotonic
  <2> QED BY <2>2, <2>3
<1>11. Of(versions', f) = V \ pruned
  BY <1>1 DEF VersionsOf, Of
<1>12. \A g : g # f => Of(versions', g) = VersionsOf(g)
  <2>1. ver.file = f
    OBVIOUS
  <2> HIDE DEF ver, pruned
  <2> QED BY <1>1, <1>8, <2>1 DEF VersionsOf, Of
<1> QED BY <1>1, <1>2, <1>3, <1>7, <1>8, <1>9, <1>10, <1>11, <1>12

\* Requests that a step leaves alone stay sound when the versions of the files stay.
LEMMA StillSound ==
  ASSUME RowsInv, TypeInv', NEW v \in Workers, req'[v] = req[v], nextId <= nextId',
         DOMAIN files' \subseteq DOMAIN files \cup {nextId},
         req[v].file \in DOMAIN files' => Of(versions', req[v].file) = VersionsOf(req[v].file)
  PROVE  Sound(req[v])'
<1> DEFINE r == req[v]
<1>1. SUFFICES ASSUME r.op = "overwrite" PROVE Sound(r)'
  BY DEF Sound
<1>2. r \in OverwriteReq /\ Sound(r)
  BY <1>1 DEF RowsInv, RefsInv, TypeInv, TypeOK, Request, Idle, AddReq, OverwriteReq,
     PurgeReq, UnlinkReq
<1>3. r.file \in Int /\ nextId \in Int /\ nextId' \in Int
  BY <1>2 DEF OverwriteReq, RowsInv, RefsInv, TypeInv, TypeOK, Ids
<1>4. r.file < nextId /\ r.file < nextId'
  BY <1>1, <1>2, <1>3 DEF Sound
<1>5. ASSUME r.file \in DOMAIN files', NEW u \in r.vers \ versions'
      PROVE  Enough(Of(versions', r.file), u.no)
  <2>1. r.file \in DOMAIN files
    BY <1>3, <1>4, <1>5
  <2>2. u.file = r.file /\ u \notin Of(versions', r.file)
    BY <1>1, <1>2, <1>5 DEF Sound, Of
  <2>3. u \notin versions
    BY <1>5, <2>2 DEF VersionsOf, Of
  <2>4. Enough(VersionsOf(r.file), u.no)
    BY <1>1, <1>2, <1>5, <2>1, <2>3 DEF Sound
  <2> QED BY <1>5, <2>4
<1> QED BY <1>2, <1>4, <1>5, <1>1 DEF Sound, Of, VersionsOf

LEMMA OverwriteRows ==
  ASSUME RowsInv, TypeInv', NEW w \in Workers, UploadOverwrite(w)
  PROVE  /\ Attached' /\ \A v \in Workers : Sound(req[v])'
         /\ \A v \in versions \ versions' : Enough(Of(versions', v.file), v.no)
<1> DEFINE f == req[w].file
           ver == [file |-> f, no |-> NextNo(req[w].vers),
                   path |-> req[w].row.path, sha |-> req[w].row.sha]
           pruned == Pruned(req[w].vers \cup {ver})
           V == VersionsOf(f) \cup {ver}
           P == pruned \cap V
<1>1. /\ f \in DOMAIN files
      /\ ver \in Version /\ ver \notin pruned
      /\ \A v \in pruned : v.file = f
      /\ versions' = (versions \cup {ver}) \ pruned
      /\ V \in SUBSET Version /\ IsFiniteSet(V)
      /\ \A p \in P : Enough(V, p.no)
      /\ Of(versions', f) = V \ pruned
      /\ \A g : g # f => Of(versions', g) = VersionsOf(g)
  BY OverwriteVersions
<1>2. /\ DOMAIN files' = DOMAIN files
      /\ nextId' \in {nextId, nextId + 1}
      /\ \A v \in Workers : v # w => req'[v] = req[v]
      /\ req'[w].op \in {"idle", "unlink"}
  BY DEF UploadOverwrite, Finish, Idle, RowsInv, RefsInv, TypeInv, TypeOK
<1>3. nextId <= nextId'
  BY <1>2 DEF RowsInv, RefsInv, TypeInv, TypeOK
<1> HIDE DEF pruned
<1>4. V \ P = Of(versions', f)
  BY <1>1 DEF Of
<1>5. ASSUME NEW n \in Int, Enough(V, n) PROVE Enough(Of(versions', f), n)
  <2> HIDE DEF V, P
  <2>1. P \in SUBSET V
    BY DEF P
  <2> QED BY <1>1, <1>4, <1>5, <2>1, EnoughRemain
<1>6. Attached'
  BY <1>1, <1>2 DEF Attached, RowsInv
<1>7. ASSUME NEW v \in versions \ versions'
      PROVE  Enough(Of(versions', v.file), v.no)
  <2>1. v \in P /\ v.file = f /\ v.no \in Int
    BY <1>1, <1>7 DEF VersionsOf, RowsInv, RefsInv, TypeInv, TypeOK, Version
  <2> QED BY <1>1, <1>5, <2>1
<1>8. ASSUME NEW v \in Workers PROVE Sound(req[v])'
  <2> DEFINE r == req[v]
  <2>1. CASE v = w
    BY <1>2, <2>1 DEF Sound
  <2>2. CASE v # w /\ r.file # f
    BY <1>1, <1>2, <1>3, <2>2, StillSound
  <2>3. CASE v # w /\ r.file = f /\ r.op = "overwrite"
    <3>1. r \in OverwriteReq /\ Sound(r)
      BY <2>3 DEF RowsInv, RefsInv, TypeInv, TypeOK, Request, Idle, AddReq, OverwriteReq,
         PurgeReq, UnlinkReq
    <3>2. r.file < nextId'
      BY <1>2, <1>3, <2>3, <3>1 DEF Sound, OverwriteReq, RowsInv, RefsInv, TypeInv, TypeOK, Ids
    <3>3. ASSUME NEW u \in r.vers \ versions' PROVE Enough(Of(versions', f), u.no)
      <4>1. u \in Version /\ u.no \in Int /\ u.file = f
        BY <2>3, <3>1 DEF OverwriteReq, Version, Sound
      <4>2. CASE u \in versions
        BY <1>7, <3>3, <4>1, <4>2
      <4>3. CASE u \notin versions
        <5>1. Enough(VersionsOf(f), u.no)
          BY <1>1, <2>3, <3>1, <3>3, <4>3 DEF Sound
        <5>2. VersionsOf(f) \in SUBSET Version /\ Newer(VersionsOf(f), u.no) \subseteq V
          BY <1>1 DEF Newer
        <5>3. Enough(V, u.no)
          BY <1>1, <4>1, <5>1, <5>2, EnoughMonotonic
        <5> QED BY <1>5, <4>1, <5>3
      <4> QED BY <4>2, <4>3
    <3> QED BY <1>2, <2>3, <3>1, <3>2, <3>3 DEF Sound, Of, VersionsOf
  <2>4. CASE v # w /\ r.op # "overwrite"
    BY <1>2, <2>4 DEF Sound
  <2> QED BY <2>1, <2>2, <2>3, <2>4
<1> QED BY <1>6, <1>7, <1>8

\* The steps that change no version and no file's live row but by adding a file.
LEMMA OtherRows ==
  ASSUME RowsInv, TypeInv', versions' = versions, nextId <= nextId',
         DOMAIN files \subseteq DOMAIN files',
         DOMAIN files' \subseteq DOMAIN files \cup {nextId},
         \A v \in Workers : req'[v] = req[v] \/ Sound(req[v])'
  PROVE  Attached' /\ \A v \in Workers : Sound(req[v])'
<1>1. Attached'
  BY DEF RowsInv, Attached
<1>2. ASSUME NEW v \in Workers, req'[v] = req[v] PROVE Sound(req[v])'
  BY <1>2, StillSound DEF VersionsOf, Of
<1> QED BY <1>1, <1>2

LEMMA ReadsRows ==
  ASSUME RowsInv, TypeInv', NEW w \in Workers, NEW f
  PROVE  LET Good == Attached' /\ \A v \in Workers : Sound(req[v])'
         IN  /\ \A o \in Users, n \in Names, h \in Hashes :
                    UploadRead(w, o, n, h) \/ FromHashRead(w, o, n, h) => Good
             /\ \A o \in Users : CopyRead(w, f, o) => Good
             /\ PurgeRead(w, f) => Good
<1> DEFINE Good == Attached' /\ \A v \in Workers : Sound(req[v])'
           Unchanged == UNCHANGED <<files, versions, refs, used, disk, nextId, lost>>
<1>1. ASSUME NEW r, Start(w, r), Unchanged, r.op # "overwrite" \/ Sound(r)
      PROVE  Good
  <2>1. \A v \in Workers : req'[v] = req[v] \/ Sound(req[v])'
    BY <1>1 DEF Start, Sound, VersionsOf, RowsInv, RefsInv, TypeInv, TypeOK
  <2>2. nextId <= nextId'
    BY <1>1 DEF RowsInv, RefsInv, TypeInv, TypeOK
  <2> QED BY <1>1, <2>1, <2>2, OtherRows
<1>2. ASSUME NEW o \in Users, NEW n \in Names, NEW h \in Hashes, UploadRead(w, o, n, h)
      PROVE  Good
  <2>1. ASSUME NEW g \in SameName(o, n), NEW d
        PROVE  Sound([op |-> "overwrite", owner |-> o, sha |-> h, donor |-> d,
                      file |-> g, row |-> files[g], vers |-> VersionsOf(g)])
    BY DEF SameName, Live, Sound, VersionsOf, RowsInv, RefsInv, Fresh
  <2>2. \E r : Start(w, r) /\ (r.op # "overwrite" \/ Sound(r))
    <3>1. CASE \E d : Start(w, [op |-> "insert", owner |-> o, name |-> n, sha |-> h,
                                donor |-> d])
      BY <3>1
    <3>2. CASE \E g \in SameName(o, n) : \E d :
                 Start(w, [op |-> "overwrite", owner |-> o, sha |-> h, donor |-> d,
                           file |-> g, row |-> files[g], vers |-> VersionsOf(g)])
      BY <2>1, <3>2
    <3> QED BY <1>2, <3>1, <3>2 DEF UploadRead
  <2> QED BY <1>1, <1>2, <2>2 DEF UploadRead
<1>3. ASSUME NEW o \in Users, NEW n \in Names, NEW h \in Hashes, FromHashRead(w, o, n, h)
      PROVE  Good
  <2>1. \E r : Start(w, r) /\ r.op # "overwrite"
    BY <1>3 DEF FromHashRead
  <2> QED BY <1>1, <1>3, <2>1 DEF FromHashRead
<1>4. ASSUME NEW o \in Users, CopyRead(w, f, o)
      PROVE  Good
  <2>1. \E r : Start(w, r) /\ r.op # "overwrite"
    BY <1>4 DEF CopyRead
  <2> QED BY <1>1, <1>4, <2>1 DEF CopyRead
<1>5. ASSUME PurgeRead(w, f) PROVE Good
  <2>1. \E r : Start(w, r) /\ r.op # "overwrite"
    BY <1>5 DEF PurgeRead
  <2> QED BY <1>1, <1>5, <2>1 DEF PurgeRead
<1> QED BY <1>2, <1>3, <1>4, <1>5

\* A purge takes the versions of a file with the file.
LEMMA PurgeRows ==
  ASSUME RowsInv, TypeInv', NEW w \in Workers, PurgeCommit(w)
  PROVE  /\ Attached' /\ \A v \in Workers : Sound(req[v])'
         /\ \A v \in versions \ versions' : v.file \notin DOMAIN files'
<1> DEFINE f == req[w].file
<1>1. /\ DOMAIN files' \subseteq DOMAIN files
      /\ \/ /\ DOMAIN files' = DOMAIN files
            /\ versions' = versions
         \/ /\ DOMAIN files' = DOMAIN files \ {f}
            /\ versions' = versions \ VersionsOf(f)
      /\ nextId' = nextId
      /\ \A v \in Workers : v # w => req'[v] = req[v]
      /\ req'[w].op \in {"idle", "unlink"}
  BY DEF PurgeCommit, Finish, Idle, RowsInv, RefsInv, TypeInv, TypeOK
<1>2. Attached' /\ \A v \in versions \ versions' : v.file \notin DOMAIN files'
  BY <1>1 DEF Attached, RowsInv, VersionsOf
<1>3. \A g \in DOMAIN files' : Of(versions', g) = VersionsOf(g)
  BY <1>1 DEF VersionsOf, Of
<1>4. ASSUME NEW v \in Workers PROVE Sound(req[v])'
  <2>1. CASE v = w
    BY <1>1, <2>1 DEF Sound
  <2>2. CASE v # w
    BY <1>1, <1>3, <2>2, StillSound DEF RowsInv, RefsInv, TypeInv, TypeOK
  <2> QED BY <2>1, <2>2
<1> QED BY <1>2, <1>4

LEMMA NextRows ==
  ASSUME RowsInv, [Next]_vars
  PROVE  /\ RowsInv'
         /\ \A v \in versions \ versions' :
              v.file \in DOMAIN files' => Enough(Of(versions', v.file), v.no)
<1>1. RefsInv' /\ TypeInv'
  BY NextRefs DEF RowsInv, RefsInv
<1> DEFINE Good == Attached' /\ \A v \in Workers : Sound(req[v])'
<1>2. ASSUME NEW w \in Workers, UploadOverwrite(w)
      PROVE  Good /\ \A v \in versions \ versions' : Enough(Of(versions', v.file), v.no)
  BY <1>1, <1>2, OverwriteRows
<1>3. ASSUME NEW w \in Workers, PurgeCommit(w)
      PROVE  Good /\ \A v \in versions \ versions' : v.file \notin DOMAIN files'
  BY <1>1, <1>3, PurgeRows
<1>4. ASSUME NEW w \in Workers,
             UploadInsert(w) \/ CopyCommit(w) \/ FromHashCommit(w)
      PROVE  Good /\ versions' = versions
  <2>1. PICK n \in Names : AddRow(w, req[w].owner, n, req[w].sha, req[w].donor)
    BY <1>4, AddingRow DEF RowsInv, RefsInv
  <2>2. /\ versions' = versions /\ nextId' = nextId + 1 /\ req' = [req EXCEPT ![w] = Idle]
        /\ DOMAIN files' = DOMAIN files \cup {nextId}
    BY <2>1 DEF AddRow, Finish
  <2>3. \A v \in Workers : req'[v] = req[v] \/ Sound(req[v])'
    BY <2>2 DEF Sound, Idle, RowsInv, RefsInv, TypeInv, TypeOK
  <2>4. nextId <= nextId'
    BY <2>2 DEF RowsInv, RefsInv, TypeInv, TypeOK
  <2> QED BY <1>1, <2>2, <2>3, <2>4, OtherRows
<1>5. ASSUME NEW f \in Ids, Delete(f) \/ Restore(f)
      PROVE  Good /\ versions' = versions
  <2>1. DOMAIN files' = DOMAIN files /\ UNCHANGED <<versions, req, nextId>>
    BY <1>5 DEF Delete, Restore
  <2>2. nextId <= nextId'
    BY <2>1 DEF RowsInv, RefsInv, TypeInv, TypeOK
  <2> QED BY <1>1, <2>1, <2>2, OtherRows
<1>6. ASSUME Crash \/ UNCHANGED vars \/ \E w \in Workers : Unlink(w) \/ Abort(w)
      PROVE  Good /\ versions' = versions
  <2>1. /\ UNCHANGED <<files, versions>> /\ nextId' \in {nextId, nextId + 1}
        /\ \A v \in Workers : req'[v] = req[v] \/ req'[v] = Idle
    BY <1>6 DEF Crash, Unlink, Abort, vars, RowsInv, RefsInv, TypeInv, TypeOK
  <2>2. \A v \in Workers : req'[v] = req[v] \/ Sound(req[v])'
    BY <2>1 DEF Sound, Idle
  <2>3. nextId <= nextId'
    BY <2>1 DEF RowsInv, RefsInv, TypeInv, TypeOK
  <2> QED BY <1>1, <2>1, <2>2, <2>3, OtherRows
<1>7. ASSUME NEW w \in Workers, NEW o \in Users, NEW n \in Names, NEW h \in Hashes,
             UploadRead(w, o, n, h) \/ FromHashRead(w, o, n, h)
      PROVE  Good /\ versions' = versions
  BY <1>1, <1>7, ReadsRows DEF UploadRead, FromHashRead
<1>8. ASSUME NEW w \in Workers, NEW f \in Ids,
             PurgeRead(w, f) \/ \E o \in Users : CopyRead(w, f, o)
      PROVE  Good /\ versions' = versions
  BY <1>1, <1>8, ReadsRows DEF PurgeRead, CopyRead
<1> HIDE DEF Good
<1>9. Good /\ \A v \in versions \ versions' :
                v.file \in DOMAIN files' => Enough(Of(versions', v.file), v.no)
  BY <1>2, <1>3, <1>4, <1>5, <1>6, <1>7, <1>8 DEF Next
<1> QED BY <1>1, <1>9 DEF RowsInv, Good

LEMMA InitRows == Init => RowsInv
<1>1. Init => RefsInv
  BY InitTypeInv, InitRefs DEF RefsInv
<1> QED BY <1>1 DEF Init, RowsInv, Attached, Sound, Idle

\* Whatever overwrites, purges and crashes interleave, and also when an overwrite
\* commits on versions that changed after it read them, a version of a file that
\* survives goes only when MaxVersions newer ones stay.
THEOREM PruneCorrect == Spec => PruneKeepsNewest
<1>1. ASSUME RowsInv, [Next]_vars, NEW v \in versions \ versions', v.file \in DOMAIN files'
      PROVE  Cardinality({u \in versions' : u.file = v.file /\ u.no > v.no}) >= MaxVersions
  <2>1. Enough(Of(versions', v.file), v.no)
    BY <1>1, NextRows
  <2>2. Newer(Of(versions', v.file), v.no)
          = {u \in versions' : u.file = v.file /\ u.no > v.no}
    BY DEF Newer, Of
  <2> QED BY <2>1, <2>2 DEF Enough
<1>2. RowsInv /\ [Next]_vars
        => [\A v \in versions \ versions' :
              v.file \in DOMAIN files' =>
                Cardinality({u \in versions' : u.file = v.file /\ u.no > v.no})
                  >= MaxVersions]_vars
  BY <1>1
<1>3. RowsInv /\ [Next]_vars => RowsInv'
  BY NextRows
<1> QED BY <1>2, <1>3, InitRows, PTL DEF Spec, PruneKeepsNewest

--------------------------------------------------------------------------------
(* No blob is left behind.  A blob on disk has a reference, or a request is about *)
(* to remove it: the commit that drops the last reference takes that on.         *)

Uncrashed == Intact({"stalePurge", "staleTarget", "crash"})

Listed(p) == \E w \in Workers : req[w].op = "unlink" /\ p \in req[w].paths

Accounted == \A p \in Ids : disk[p] # None => refs[p] > 0 \/ Listed(p)

AccountInv == RefsInv /\ (Uncrashed => Accounted)

\* The lists of the other requests stay.
LEMMA ListStays ==
  ASSUME TypeInv, NEW w \in Workers, req[w].op # "unlink", NEW r,
         req' = [req EXCEPT ![w] = r], NEW p, Listed(p)
  PROVE  Listed(p)'
BY DEF Listed, TypeInv, TypeOK

\* A commit that settles references: what it leaves without any, it will remove.
LEMMA SettleAccounts ==
  ASSUME RefsInv, Accounted, NEW w \in Workers, req[w].op # "unlink",
         NEW acq \in [Ids -> Nat], NEW rel \in [Ids -> Nat],
         Settle(acq, rel), Finish(w, Freed(acq, rel)),
         \A p \in Ids : disk'[p] = disk[p] \/ acq[p] > 0
  PROVE  Accounted'
<1>1. ASSUME NEW p \in Ids, disk'[p] # None, ~(refs'[p] > 0) PROVE Listed(p)'
  <2>1. refs[p] \in Nat /\ acq[p] \in Nat /\ rel[p] \in Nat
    BY DEF RefsInv, TypeInv, TypeOK
  <2>2. refs'[p] = Minus(refs[p] + acq[p], rel[p])
    BY DEF Settle
  <2>3. refs[p] + acq[p] <= rel[p]
    BY <1>1, <2>1, <2>2 DEF Minus
  <2>4. CASE rel[p] > 0
    <3>1. p \in Freed(acq, rel)
      BY <2>3, <2>4 DEF Freed
    <3>2. req'[w] = [op |-> "unlink", paths |-> Freed(acq, rel)]
      BY <3>1 DEF Finish, RefsInv, TypeInv, TypeOK
    <3> QED BY <3>1, <3>2 DEF Listed
  <2>5. CASE rel[p] = 0
    <3>1. refs[p] = 0 /\ disk[p] # None
      BY <1>1, <2>1, <2>3, <2>5
    <3>2. Listed(p)
      BY <3>1 DEF Accounted
    <3> QED BY <3>2, ListStays DEF Finish, RefsInv
  <2> QED BY <2>1, <2>4, <2>5
<1> QED BY <1>1 DEF Accounted

LEMMA NextAccounts == AccountInv /\ [Next]_vars => AccountInv'
<1> SUFFICES ASSUME AccountInv, [Next]_vars PROVE AccountInv'
  OBVIOUS
<1>1. RefsInv /\ RefsInv' /\ TypeInv
  BY NextRefs DEF AccountInv, RefsInv
<1>2. SUFFICES ASSUME Uncrashed' PROVE Accounted'
  BY <1>1 DEF AccountInv
<1>3. Accounted
  BY <1>2, LostGrows DEF AccountInv, Uncrashed, Intact
<1>4. ASSUME NEW w \in Workers,
             UploadInsert(w) \/ CopyCommit(w) \/ FromHashCommit(w)
      PROVE  Accounted'
  <2> DEFINE r == req[w]
             acq == [p \in Ids |-> One(p = BlobPath(r.donor))]
  <2>1. PICK n \in Names : AddRow(w, r.owner, n, r.sha, r.donor) /\ r \in AddReq
    BY <1>1, <1>4, AddingRow
  <2>2. acq \in [Ids -> Nat] /\ NoRefs \in [Ids -> Nat]
    BY DEF One, NoRefs
  <2>3. Settle(acq, NoRefs) /\ Finish(w, {}) /\ Place(r.donor, r.sha)
    BY <2>1 DEF AddRow
  <2>4. \A p \in Ids : disk'[p] = disk[p] \/ acq[p] > 0
    BY <2>3 DEF Place, One, BlobPath, RefsInv, TypeInv, TypeOK
  <2> HIDE DEF acq
  <2>5. Freed(acq, NoRefs) = {}
    BY <1>1, <2>2 DEF Freed, NoRefs, RefsInv, TypeInv, TypeOK
  <2>6. r.op # "unlink"
    BY <2>1 DEF AddReq
  <2> QED BY <1>1, <1>3, <2>2, <2>3, <2>4, <2>5, <2>6, SettleAccounts
<1>5. ASSUME NEW w \in Workers, UploadOverwrite(w) PROVE Accounted'
  <2> DEFINE r == req[w]
             ver == [file |-> r.file, no |-> NextNo(r.vers), path |-> r.row.path,
                     sha |-> r.row.sha]
             pruned == Pruned(r.vers \cup {ver})
             acq == [p \in Ids |-> One(p = r.row.path) + One(p = BlobPath(r.donor))]
             rel == [p \in Ids |-> One(p = r.row.path) + Uses(pruned, p)]
  <2>1. /\ r.op = "overwrite" /\ Settle(acq, rel) /\ Finish(w, Freed(acq, rel))
        /\ Place(r.donor, r.sha)
    BY <1>5 DEF UploadOverwrite
  <2>2. \A p : Uses(pruned, p) \in Nat
    <3>1. IsFiniteSet(r.vers)
      BY <1>1, <2>1 DEF TypeInv, Finite
    <3> HIDE DEF ver
    <3>2. IsFiniteSet(pruned)
      <4>1. IsFiniteSet(r.vers \cup {ver})
        BY <3>1, FS_AddElement
      <4> QED BY <4>1, PrunedSubset, FS_Subset
    <3> QED BY <3>2, UsesNat
  <2> HIDE DEF pruned
  <2>3. acq \in [Ids -> Nat] /\ rel \in [Ids -> Nat]
    BY <2>2 DEF One
  <2>4. \A p \in Ids : disk'[p] = disk[p] \/ acq[p] > 0
    BY <2>1 DEF Place, One, BlobPath, RefsInv, TypeInv, TypeOK
  <2> HIDE DEF acq, rel
  <2> QED BY <1>1, <1>3, <2>1, <2>3, <2>4, SettleAccounts
<1>6. ASSUME NEW w \in Workers, PurgeCommit(w) PROVE Accounted'
  <2> DEFINE r == req[w]
             rel == [p \in Ids |-> One(p = r.row.path) + Uses(r.vers, p)]
  <2>1. r.op = "purge" /\ Settle(NoRefs, rel) /\ Finish(w, Freed(NoRefs, rel)) /\ disk' = disk
    BY <1>6 DEF PurgeCommit
  <2>2. \A p : Uses(r.vers, p) \in Nat
    BY <1>1, <2>1, UsesNat DEF TypeInv, Finite
  <2>3. NoRefs \in [Ids -> Nat] /\ rel \in [Ids -> Nat]
    BY <2>2 DEF One, NoRefs
  <2> HIDE DEF rel
  <2> QED BY <1>1, <1>3, <2>1, <2>3, SettleAccounts
<1>7. ASSUME NEW w \in Workers, Unlink(w) PROVE Accounted'
  <2>1. ASSUME NEW p \in Ids, disk'[p] # None, ~(refs'[p] > 0) PROVE Listed(p)'
    <3>1. refs' = refs /\ req' = [req EXCEPT ![w] = Idle]
          /\ disk'[p] = IF p \in req[w].paths THEN None ELSE disk[p]
      BY <1>7 DEF Unlink
    <3>2. PICK v \in Workers : req[v].op = "unlink" /\ p \in req[v].paths
      BY <1>3, <2>1, <3>1 DEF Accounted, Listed
    <3>3. v # w
      BY <2>1, <3>1, <3>2
    <3> QED BY <1>1, <3>1, <3>2, <3>3 DEF Listed, TypeInv, TypeOK
  <2> QED BY <2>1 DEF Accounted
<1>8. ASSUME UNCHANGED <<disk, refs>>,
             \/ req' = req
             \/ \E r : \E w \in Workers : req[w].op # "unlink" /\ req' = [req EXCEPT ![w] = r]
      PROVE  Accounted'
  <2>1. ASSUME NEW p \in Ids, Listed(p) PROVE Listed(p)'
    <3>1. CASE req' = req
      BY <2>1, <3>1 DEF Listed
    <3>2. ASSUME NEW r, NEW w \in Workers, req[w].op # "unlink", req' = [req EXCEPT ![w] = r]
          PROVE  Listed(p)'
      BY <1>1, <2>1, <3>2, ListStays DEF Listed
    <3> QED BY <1>8, <3>1, <3>2
  <2> QED BY <1>3, <1>8, <2>1 DEF Accounted
<1>9. ASSUME NEW w \in Workers, Abort(w) PROVE Accounted'
  BY <1>8, <1>9 DEF Abort
<1>10. ASSUME NEW w \in Workers, NEW r, Start(w, r), UNCHANGED <<disk, refs>> PROVE Accounted'
  <2>1. req[w].op # "unlink" /\ req' = [req EXCEPT ![w] = r]
    BY <1>10 DEF Start, Idle
  <2> QED BY <1>8, <1>10, <2>1
<1>11. ASSUME NEW w \in Workers, NEW o \in Users, NEW n \in Names, NEW h \in Hashes,
              UploadRead(w, o, n, h) \/ FromHashRead(w, o, n, h)
       PROVE  Accounted'
  <2>1. (\E r : Start(w, r)) /\ UNCHANGED <<disk, refs>>
    BY <1>11 DEF UploadRead, FromHashRead
  <2> QED BY <1>10, <2>1
<1>12. ASSUME NEW w \in Workers, NEW f \in Ids,
              PurgeRead(w, f) \/ \E o \in Users : CopyRead(w, f, o)
       PROVE  Accounted'
  <2>1. (\E r : Start(w, r)) /\ UNCHANGED <<disk, refs>>
    BY <1>12 DEF PurgeRead, CopyRead
  <2> QED BY <1>10, <2>1
<1>13. ASSUME NEW f \in Ids, Delete(f) \/ Restore(f) PROVE Accounted'
  BY <1>8, <1>13 DEF Delete, Restore
<1>14. CASE Crash
  BY <1>2, <1>14 DEF Crash, Uncrashed, Intact
<1>15. CASE UNCHANGED vars
  BY <1>8, <1>15 DEF vars
<1> QED BY <1>4, <1>5, <1>6, <1>7, <1>9, <1>11, <1>12, <1>13, <1>14, <1>15 DEF Next

\* In a run without a crash and without an overtaken commit, no blob is left behind:
\* a path on disk belongs to a row, or a request is about to remove it.
THEOREM AccountedCorrect == Spec => []BlobsAccounted
<1>1. Init => AccountInv
  <2>1. Init => RefsInv
    BY InitTypeInv, InitRefs DEF RefsInv
  <2> QED BY <2>1 DEF Init, AccountInv, Accounted
<1>2. AccountInv => BlobsAccounted
  <2> SUFFICES ASSUME AccountInv, Uncrashed,
                      NEW p \in Ids, disk[p] # None, ~Listed(p)
               PROVE  Holders(p) > 0
    BY DEF BlobsAccounted, Uncrashed, Listed
  <2>1. refs[p] = Holders(p)
    BY DEF AccountInv, RefsInv, RefsMatchRows, Uncrashed, Intact
  <2> QED BY <2>1 DEF AccountInv, Accounted
<1> QED BY <1>1, <1>2, NextAccounts, PTL DEF Spec

--------------------------------------------------------------------------------
(* What an owner is charged.  The invariant is NeverOvercharged itself, with the *)
(* facts on rows and snapshots above; the work is in what a step does to the sum *)
(* of the sizes of an owner's rows.                                              *)

\* The sum of g over S, counted as a set.
Cells(S, g) == UNION {{x} \X (1 .. g[x]) : x \in S}
Load(S, g)  == Cardinality(Cells(S, g))

LEMMA CellsOne ==
  ASSUME NEW x, NEW n \in Nat
  PROVE  IsFiniteSet({x} \X (1 .. n)) /\ Cardinality({x} \X (1 .. n)) = n
<1>1. IsFiniteSet({x}) /\ Cardinality({x}) = 1
  BY FS_Singleton, Zenon
<1>2. IsFiniteSet(1 .. n) /\ Cardinality(1 .. n) = IF 1 > n THEN 0 ELSE n - 1 + 1
  BY FS_Interval
<1>3. Cardinality(1 .. n) = n
  BY <1>2
<1>4. /\ IsFiniteSet({x} \X (1 .. n))
      /\ Cardinality({x} \X (1 .. n)) = Cardinality({x}) * Cardinality(1 .. n)
  BY <1>1, <1>2, FS_Product, Zenon
<1>5. Cardinality({x} \X (1 .. n)) = 1 * n
  BY <1>1, <1>3, <1>4
<1> QED BY <1>4, <1>5

LEMMA LoadNat ==
  ASSUME NEW S, IsFiniteSet(S), NEW g, \A x \in S : g[x] \in Nat
  PROVE  IsFiniteSet(Cells(S, g)) /\ Load(S, g) \in Nat
<1> DEFINE T == {{x} \X (1 .. g[x]) : x \in S}
           c == [x \in S |-> {x} \X (1 .. g[x])]
<1>1. c \in Surjection(S, T)
  BY DEF Surjection
<1>2. IsFiniteSet(T)
  BY <1>1, FS_Surjection
<1>3. \A X \in T : IsFiniteSet(X)
  <2>1. \A x \in S : IsFiniteSet({x} \X (1 .. g[x]))
    BY CellsOne
  <2> QED BY <2>1
<1>4. IsFiniteSet(UNION T)
  BY <1>2, <1>3, FS_UNION
<1> QED BY <1>4, FS_CardinalityType DEF Cells, Load

LEMMA LoadOne ==
  ASSUME NEW x, NEW g, g[x] \in Nat
  PROVE  Load({x}, g) = g[x]
<1>1. Cells({x}, g) = {x} \X (1 .. g[x])
  BY DEF Cells
<1> QED BY <1>1, CellsOne DEF Load

LEMMA LoadSplit ==
  ASSUME NEW S, IsFiniteSet(S), NEW T \in SUBSET S, NEW g, \A x \in S : g[x] \in Nat
  PROVE  Load(S, g) = Load(S \ T, g) + Load(T, g)
<1> DEFINE A == Cells(S \ T, g)
           B == Cells(T, g)
<1>1. Cells(S, g) = A \cup B /\ A \cap B = {}
  BY DEF Cells
<1>2. IsFiniteSet(S \ T) /\ IsFiniteSet(T)
  BY FS_Subset
<1>3. IsFiniteSet(A) /\ IsFiniteSet(B)
  BY <1>2, LoadNat
<1>4. Cardinality(A) \in Nat /\ Cardinality(B) \in Nat
  BY <1>3, FS_CardinalityType
<1>5. Cardinality(A \cup B) = Cardinality(A) + Cardinality(B) - Cardinality(A \cap B)
  BY <1>3, FS_Union
<1>6. Cardinality(A \cap B) = 0
  BY <1>1, FS_EmptySet
<1>7. Cardinality(A \cup B) = Cardinality(A) + Cardinality(B)
  <2> HIDE DEF A, B
  <2> QED BY <1>4, <1>5, <1>6
<1> QED BY <1>1, <1>7 DEF Load

LEMMA LoadAdd ==
  ASSUME NEW S, IsFiniteSet(S), NEW x, x \notin S, NEW g, \A y \in S \cup {x} : g[y] \in Nat
  PROVE  Load(S \cup {x}, g) = Load(S, g) + g[x]
<1> DEFINE T == S \cup {x}
<1>1. IsFiniteSet(T) /\ {x} \in SUBSET T /\ T \ {x} = S /\ g[x] \in Nat
  BY FS_AddElement
<1>2. Load(T, g) = Load(T \ {x}, g) + Load({x}, g)
  <2> HIDE DEF T
  <2> QED BY <1>1, LoadSplit DEF T
<1> QED BY <1>1, <1>2, LoadOne

LEMMA LoadRemove ==
  ASSUME NEW S, IsFiniteSet(S), NEW x \in S, NEW g, \A y \in S : g[y] \in Nat
  PROVE  Load(S, g) = Load(S \ {x}, g) + g[x]
<1>1. Load(S, g) = Load(S \ {x}, g) + Load({x}, g)
  BY LoadSplit
<1> QED BY <1>1, LoadOne

LEMMA LoadAgree ==
  ASSUME NEW S, NEW g, NEW h, \A x \in S : g[x] = h[x]
  PROVE  Load(S, g) = Load(S, h)
<1>1. {{x} \X (1 .. g[x]) : x \in S} = {{x} \X (1 .. h[x]) : x \in S}
  OBVIOUS
<1> QED BY <1>1 DEF Cells, Load

\* The sizes of rows and versions, and an owner's live files and versions.
RowSize(F)     == [f \in DOMAIN F |-> Size[F[f].sha]]
VersionSize    == [v \in Version |-> Size[v.sha]]
LiveOf(F, o)   == {f \in DOMAIN F : ~F[f].deleted /\ F[f].owner = o}
PastOf(F, V, o) == {v \in V : F[v.file].owner = o}
Holding(F, V, o) == Load(LiveOf(F, o), RowSize(F)) + Bytes(PastOf(F, V, o))

LEMMA BytesLoad ==
  ASSUME NEW V \in SUBSET Version
  PROVE  Bytes(V) = Load(V, VersionSize) /\ \A v \in V : VersionSize[v] \in Nat
<1>1. \A v \in V : VersionSize[v] = Size[v.sha]
  BY DEF VersionSize
<1>2. {{v} \X (1 .. Size[v.sha]) : v \in V} = {{v} \X (1 .. VersionSize[v]) : v \in V}
  BY <1>1
<1>3. \A v \in V : VersionSize[v] \in Nat
  BY <1>1, StoreAssumption DEF Version
<1> QED BY <1>2, <1>3 DEF Bytes, Load, Cells

LEMMA BytesSplit ==
  ASSUME NEW V \in SUBSET Version, IsFiniteSet(V), NEW W \in SUBSET V
  PROVE  Bytes(V) = Bytes(V \ W) + Bytes(W)
<1>1. V \ W \in SUBSET Version /\ W \in SUBSET Version
  OBVIOUS
<1>2. Load(V, VersionSize) = Load(V \ W, VersionSize) + Load(W, VersionSize)
  BY BytesLoad, LoadSplit
<1>3. /\ Bytes(V) = Load(V, VersionSize)
      /\ Bytes(V \ W) = Load(V \ W, VersionSize)
      /\ Bytes(W) = Load(W, VersionSize)
  BY <1>1, BytesLoad
<1> QED BY <1>2, <1>3

LEMMA BytesAdd ==
  ASSUME NEW V \in SUBSET Version, IsFiniteSet(V), NEW v \in Version, v \notin V
  PROVE  Bytes(V \cup {v}) = Bytes(V) + Size[v.sha]
<1>1. V \cup {v} \in SUBSET Version
  OBVIOUS
<1>2. /\ Bytes(V) = Load(V, VersionSize)
      /\ Bytes(V \cup {v}) = Load(V \cup {v}, VersionSize)
      /\ \A u \in V \cup {v} : VersionSize[u] \in Nat
      /\ VersionSize[v] = Size[v.sha]
  BY <1>1, BytesLoad DEF VersionSize
<1> QED BY <1>2, LoadAdd

LEMMA HeldIs ==
  ASSUME TypeInv, NEW o
  PROVE  /\ Held(o) = Holding(files, versions, o)
         /\ IsFiniteSet(LiveOf(files, o))
         /\ \A f \in DOMAIN files : RowSize(files)[f] = Size[files[f].sha] /\ Size[files[f].sha] \in Nat
         /\ Load(LiveOf(files, o), RowSize(files)) \in Nat
         /\ PastOf(files, versions, o) \in SUBSET Version
         /\ IsFiniteSet(PastOf(files, versions, o))
         /\ Bytes(PastOf(files, versions, o)) \in Nat
<1>1. \A f \in DOMAIN files : RowSize(files)[f] = Size[files[f].sha] /\ Size[files[f].sha] \in Nat
  BY StoreAssumption DEF RowSize, TypeInv, TypeOK, Row
<1>2. IsFiniteSet(LiveOf(files, o))
  <2>1. IsFiniteSet(Ids)
    BY StoreAssumption, FS_Interval DEF Ids
  <2>2. LiveOf(files, o) \in SUBSET Ids
    BY DEF LiveOf, TypeInv, TypeOK
  <2> QED BY <2>1, <2>2, FS_Subset
<1>3. Load(LiveOf(files, o), RowSize(files)) \in Nat
  BY <1>1, <1>2, LoadNat DEF LiveOf
<1>4. PastOf(files, versions, o) \in SUBSET Version /\ IsFiniteSet(PastOf(files, versions, o))
  BY FS_Subset DEF PastOf, TypeInv, TypeOK, Finite
<1>5. Held(o) = Holding(files, versions, o)
  <2>1. {g \in DOMAIN files : Live(g) /\ files[g].owner = o} = LiveOf(files, o)
    BY DEF Live, LiveOf
  <2>2. {{f} \X (1 .. Size[files[f].sha]) : f \in LiveOf(files, o)}
          = {{f} \X (1 .. RowSize(files)[f]) : f \in LiveOf(files, o)}
    BY <1>1 DEF LiveOf
  <2> QED BY <2>1, <2>2 DEF Held, Holding, Load, Cells, PastOf
<1> QED BY <1>1, <1>2, <1>3, <1>4, <1>5, BytesNat

LEMMA HeldPrimed ==
  ASSUME TypeInv', NEW CONSTANT o
  PROVE  Held(o)' = Holding(files', versions', o)
<1>1. {g \in DOMAIN files' : Live(g)' /\ files'[g].owner = o} = LiveOf(files', o)
  BY DEF Live, LiveOf
<1>2. {{f} \X (1 .. Size[files'[f].sha]) : f \in LiveOf(files', o)}
        = {{f} \X (1 .. RowSize(files')[f]) : f \in LiveOf(files', o)}
  BY DEF LiveOf, RowSize
<1> QED BY <1>1, <1>2 DEF Held, Holding, Load, Cells, PastOf

\* A new row of size Size[h].
LEMMA AddRowHolds ==
  ASSUME RowsInv, NeverOvercharged, Intact({"stalePurge", "staleTarget"}),
         NEW w \in Workers, NEW n, NEW o \in Users, NEW h \in Hashes, NEW d,
         AddRow(w, o, n, h, d), NEW u \in Users, TypeInv'
  PROVE  used'[u] <= Held(u)'
<1> DEFINE row == [owner |-> o, name |-> n, path |-> BlobPath(d), sha |-> h, deleted |-> FALSE]
           L == LiveOf(files, u)
           M == LiveOf(files', u)
           g == RowSize(files)
           k == RowSize(files')
<1>1. /\ files' = [f \in DOMAIN files \cup {nextId} |-> IF f = nextId THEN row ELSE files[f]]
      /\ versions' = versions
      /\ used' = [used EXCEPT ![o] = @ + Size[h]]
  BY DEF AddRow
<1>2. nextId \notin DOMAIN files /\ TypeInv
  BY DEF RowsInv, RefsInv, Fresh, TypeInv, TypeOK
<1>3. used[u] <= Held(u) /\ used[u] \in Nat /\ Size[h] \in Nat
  BY <1>2, StoreAssumption DEF NeverOvercharged, TypeInv, TypeOK
<1>4. PastOf(files', versions', u) = PastOf(files, versions, u)
  BY <1>1, <1>2 DEF PastOf, RowsInv, Attached
<1>5. /\ Held(u) = Load(L, g) + Bytes(PastOf(files, versions, u))
      /\ IsFiniteSet(L) /\ Load(L, g) \in Nat /\ Bytes(PastOf(files, versions, u)) \in Nat
      /\ \A f \in DOMAIN files : g[f] \in Nat /\ g[f] = Size[files[f].sha]
  BY <1>2, HeldIs DEF Holding
<1>6. Held(u)' = Load(M, k) + Bytes(PastOf(files', versions', u))
  BY HeldPrimed DEF Holding
<1>7. \A f \in L : k[f] = g[f] /\ k[f] \in Nat
  BY <1>1, <1>2, <1>5 DEF LiveOf, RowSize
<1>8. Load(L, k) = Load(L, g)
  BY <1>7, LoadAgree
<1>9. CASE u = o
  <2>1. M = L \cup {nextId} /\ nextId \notin L
    BY <1>1, <1>2, <1>9 DEF LiveOf
  <2>2. k[nextId] = Size[h]
    BY <1>1 DEF RowSize
  <2> HIDE DEF L, M, g, k
  <2>3. Load(M, k) = Load(L, k) + Size[h]
    <3>1. \A f \in L \cup {nextId} : k[f] \in Nat
      BY <1>3, <1>7, <2>2
    <3>2. Load(L \cup {nextId}, k) = Load(L, k) + k[nextId]
      BY <1>5, <2>1, <3>1, LoadAdd
    <3> QED BY <2>1, <2>2, <3>2
  <2>4. used'[u] = used[u] + Size[h]
    BY <1>1, <1>2, <1>9 DEF TypeInv, TypeOK
  <2> QED BY <1>3, <1>4, <1>5, <1>6, <1>8, <2>3, <2>4
<1>10. CASE u # o
  <2>1. M = L
    BY <1>1, <1>2, <1>10 DEF LiveOf
  <2>2. used'[u] = used[u]
    BY <1>1, <1>2, <1>10 DEF TypeInv, TypeOK
  <2> QED BY <1>3, <1>4, <1>5, <1>6, <1>8, <2>1, <2>2
<1> QED BY <1>9, <1>10

\* A live file goes to the trash, or a trashed one comes back.
LEMMA TrashHolds ==
  ASSUME RowsInv, NeverOvercharged, Intact({"stalePurge", "staleTarget"}),
         NEW f \in Ids, Delete(f) \/ Restore(f), NEW u \in Users, TypeInv'
  PROVE  used'[u] <= Held(u)'
<1> DEFINE o == files[f].owner
           s == Size[files[f].sha]
           L == LiveOf(files, u)
           M == LiveOf(files', u)
           g == RowSize(files)
           k == RowSize(files')
           P == PastOf(files, versions, u)
<1>1. /\ TypeInv /\ f \in DOMAIN files /\ files[f] \in Row /\ versions' = versions
      /\ \E b \in BOOLEAN : files' = [files EXCEPT ![f] = [files[f] EXCEPT !.deleted = b]]
  BY DEF RowsInv, RefsInv, TypeInv, TypeOK, Delete, Restore, Live
<1>2. /\ DOMAIN files' = DOMAIN files
      /\ \A e \in DOMAIN files : /\ files'[e].owner = files[e].owner
                                 /\ files'[e].sha = files[e].sha
                                 /\ e # f => files'[e] = files[e]
  BY <1>1 DEF Row
<1>3. used[u] <= Held(u) /\ used[u] \in Nat /\ s \in Nat
  BY <1>1, StoreAssumption DEF NeverOvercharged, TypeInv, TypeOK, Row
<1>4. PastOf(files', versions', u) = P
  BY <1>1, <1>2 DEF PastOf, RowsInv, Attached
<1>5. /\ Held(u) = Load(L, g) + Bytes(P)
      /\ IsFiniteSet(L) /\ Load(L, g) \in Nat /\ Bytes(P) \in Nat
      /\ \A e \in DOMAIN files : g[e] \in Nat /\ g[e] = Size[files[e].sha]
  BY <1>1, HeldIs DEF Holding
<1>6. Held(u)' = Load(M, k) + Bytes(P)
  BY <1>4, HeldPrimed DEF Holding
<1>7. k = g
  BY <1>2 DEF RowSize
<1>8. L \subseteq DOMAIN files
  BY DEF LiveOf
<1>9. CASE u # o
  <2>1. M = L
    BY <1>2, <1>9 DEF LiveOf
  <2>2. used'[u] = used[u]
    BY <1>1, <1>9 DEF Delete, Restore, TypeInv, TypeOK
  <2> QED BY <1>3, <1>5, <1>6, <1>7, <2>1, <2>2
<1>10. CASE u = o /\ Delete(f)
  <2>1. M = L \ {f} /\ f \in L
    <3>1. files'[f].deleted /\ ~files[f].deleted
      BY <1>1, <1>10 DEF Delete, Live, Row
    <3> QED BY <1>1, <1>2, <1>10, <3>1 DEF LiveOf
  <2>2. used'[u] = Minus(used[u], s)
    BY <1>1, <1>10 DEF Delete, TypeInv, TypeOK
  <2> HIDE DEF L, M, g, k, P
  <2>3. Load(L, g) = Load(M, g) + s
    <3>1. Load(L, g) = Load(L \ {f}, g) + g[f]
      BY <1>5, <1>8, <2>1, LoadRemove
    <3> QED BY <1>1, <1>5, <2>1, <3>1
  <2>4. Load(M, g) \in Nat
    <3>1. IsFiniteSet(M) /\ \A e \in M : g[e] \in Nat
      BY <1>5, <1>8, <2>1, FS_RemoveElement
    <3> QED BY <3>1, LoadNat
  <2> HIDE DEF s
  <2> QED BY <1>3, <1>5, <1>6, <1>7, <2>2, <2>3, <2>4 DEF Minus
<1>11. CASE u = o /\ Restore(f)
  <2>1. M = L \cup {f} /\ f \notin L
    <3>1. ~files'[f].deleted /\ files[f].deleted
      BY <1>1, <1>11 DEF Restore, Row
    <3> QED BY <1>1, <1>2, <1>11, <3>1 DEF LiveOf
  <2>2. used'[u] = used[u] + s
    BY <1>1, <1>11 DEF Restore, TypeInv, TypeOK
  <2> HIDE DEF L, M, g, k, P
  <2>3. Load(M, g) = Load(L, g) + s
    <3>1. \A e \in L \cup {f} : g[e] \in Nat
      BY <1>1, <1>5, <1>8
    <3>2. Load(L \cup {f}, g) = Load(L, g) + g[f]
      BY <1>5, <2>1, <3>1, LoadAdd
    <3> QED BY <1>1, <1>5, <2>1, <3>2
  <2> HIDE DEF s
  <2> QED BY <1>3, <1>5, <1>6, <1>7, <2>2, <2>3
<1> QED BY <1>9, <1>10, <1>11

\* A purge of what it read: a trashed file has no live size, and its versions go.
LEMMA PurgeHolds ==
  ASSUME RowsInv, NeverOvercharged, Intact({"stalePurge", "staleTarget"}),
         Intact({"stalePurge", "staleTarget"})',
         NEW w \in Workers, PurgeCommit(w), NEW u \in Users, TypeInv'
  PROVE  used'[u] <= Held(u)'
<1> DEFINE r == req[w]
           f == r.file
           o == r.row.owner
           s == Size[r.row.sha]
           L == LiveOf(files, u)
           M == LiveOf(files', u)
           g == RowSize(files)
           k == RowSize(files')
           P == PastOf(files, versions, u)
           Q == PastOf(files', versions', u)
<1>1. /\ TypeInv /\ f \in DOMAIN files /\ files[f].deleted /\ files[f] = r.row
      /\ VersionsOf(f) = r.vers
      /\ files' = [e \in DOMAIN files \ {f} |-> files[e]]
      /\ versions' = versions \ VersionsOf(f)
      /\ used' = [used EXCEPT ![o] = Minus(@, s + Bytes(r.vers))]
  BY DEF RowsInv, RefsInv, PurgeCommit, Intact, Note
<1>2. used[u] <= Held(u) /\ used[u] \in Nat /\ s \in Nat
  BY <1>1, StoreAssumption DEF NeverOvercharged, TypeInv, TypeOK, Row
<1>3. /\ Held(u) = Load(L, g) + Bytes(P)
      /\ Load(L, g) \in Nat /\ Bytes(P) \in Nat
      /\ P \in SUBSET Version /\ IsFiniteSet(P)
  BY <1>1, HeldIs DEF Holding
<1>4. Held(u)' = Load(M, k) + Bytes(Q)
  BY HeldPrimed DEF Holding
<1>5. Load(M, k) = Load(L, g)
  <2>1. M = L
    BY <1>1 DEF LiveOf
  <2>2. \A e \in L : k[e] = g[e]
    BY <1>1 DEF LiveOf, RowSize
  <2> QED BY <2>1, <2>2, LoadAgree
<1>6. Q = P \ VersionsOf(f)
  BY <1>1 DEF PastOf, RowsInv, Attached, VersionsOf
<1>7. CASE u = o
  <2>1. VersionsOf(f) \in SUBSET P
    BY <1>1, <1>7 DEF VersionsOf, PastOf
  <2>2. Bytes(P) = Bytes(Q) + Bytes(r.vers)
    BY <1>1, <1>3, <1>6, <2>1, BytesSplit
  <2>3. Bytes(r.vers) \in Nat /\ Bytes(Q) \in Nat
    <3>1. r.vers \in SUBSET Version /\ IsFiniteSet(r.vers)
      BY <1>1, VersionsOfFinite
    <3>2. Q \in SUBSET Version /\ IsFiniteSet(Q)
      BY <1>3, <1>6, FS_Subset
    <3> QED BY <3>1, <3>2, BytesNat
  <2>4. used'[u] = Minus(used[u], s + Bytes(r.vers))
    BY <1>1, <1>7 DEF TypeInv, TypeOK
  <2> HIDE DEF L, M, g, k, P, Q, s
  <2> QED BY <1>2, <1>3, <1>4, <1>5, <2>2, <2>3, <2>4 DEF Minus
<1>8. CASE u # o
  <2>1. Q = P
    BY <1>1, <1>6, <1>8 DEF VersionsOf, PastOf
  <2>2. used'[u] = used[u]
    BY <1>1, <1>8 DEF TypeInv, TypeOK
  <2> QED BY <1>2, <1>3, <1>4, <1>5, <2>1, <2>2
<1> QED BY <1>7, <1>8

\* An overwrite charges the new content, keeps the old one as a version and releases
\* the pruned ones.
LEMMA OverwriteHolds ==
  ASSUME RowsInv, NeverOvercharged, Intact({"stalePurge", "staleTarget"}),
         Intact({"stalePurge", "staleTarget"})',
         NEW w \in Workers, UploadOverwrite(w), NEW u \in Users, TypeInv'
  PROVE  used'[u] <= Held(u)'
<1> DEFINE r == req[w]
           f == r.file
           o == r.owner
           ver == [file |-> f, no |-> NextNo(r.vers), path |-> r.row.path, sha |-> r.row.sha]
           pruned == Pruned(r.vers \cup {ver})
           s == Size[r.sha]
           t == Size[r.row.sha]
           L == LiveOf(files, u)
           M == LiveOf(files', u)
           g == RowSize(files)
           k == RowSize(files')
           P == PastOf(files, versions, u)
           Q == PastOf(files', versions', u)
<1>1. /\ TypeInv /\ r.op = "overwrite" /\ files[f] = r.row /\ VersionsOf(f) = r.vers
      /\ files' = [files EXCEPT ![f] = [files[f] EXCEPT !.path = BlobPath(r.donor), !.sha = r.sha]]
      /\ used' = [used EXCEPT ![o] = Minus(@ + s, Bytes(pruned))]
      /\ \A v \in VersionsOf(f) : v.no # ver.no
  BY DEF RowsInv, RefsInv, UploadOverwrite, Intact, Note
<1>2. /\ r \in OverwriteReq
      /\ f \in DOMAIN files
      /\ ver \in Version /\ ver \notin pruned
      /\ \A v \in pruned : v.file = f
      /\ versions' = (versions \cup {ver}) \ pruned
  BY OverwriteVersions
<1>3. /\ files[f] \in Row /\ ~files[f].deleted /\ files[f].owner = o
      /\ ver \notin versions /\ pruned \subseteq VersionsOf(f) \cup {ver}
  BY <1>1, <1>2, PrunedSubset DEF RowsInv, Sound, TypeInv, TypeOK, VersionsOf
<1>4. /\ DOMAIN files' = DOMAIN files
      /\ \A e \in DOMAIN files : /\ files'[e].owner = files[e].owner
                                 /\ files'[e].deleted = files[e].deleted
                                 /\ e # f => files'[e] = files[e]
      /\ files'[f].sha = r.sha
  BY <1>1, <1>2, <1>3 DEF Row
<1>5. used[u] <= Held(u) /\ used[u] \in Nat /\ s \in Nat /\ t \in Nat
  BY <1>1, <1>2, StoreAssumption DEF NeverOvercharged, TypeInv, TypeOK, OverwriteReq, Row
<1>6. /\ Held(u) = Load(L, g) + Bytes(P)
      /\ IsFiniteSet(L) /\ Load(L, g) \in Nat /\ Bytes(P) \in Nat
      /\ P \in SUBSET Version /\ IsFiniteSet(P)
      /\ \A e \in DOMAIN files : g[e] \in Nat /\ g[e] = Size[files[e].sha]
  BY <1>1, HeldIs DEF Holding
<1>7. Held(u)' = Load(M, k) + Bytes(Q)
  BY HeldPrimed DEF Holding
<1>8. M = L /\ L \subseteq DOMAIN files
  BY <1>4 DEF LiveOf
<1>9. CASE u # o
  <2>1. f \notin L
    BY <1>3, <1>9 DEF LiveOf
  <2>2. \A e \in L : k[e] = g[e]
    BY <1>4, <1>8, <2>1 DEF RowSize
  <2>3. Load(L, k) = Load(L, g)
    BY <2>2, LoadAgree
  <2>4. Q = P
    <3>1. ver.file = f
      OBVIOUS
    <3> HIDE DEF ver, pruned
    <3> QED BY <1>2, <1>3, <1>4, <1>9, <3>1 DEF PastOf, RowsInv, Attached
  <2>5. used'[u] = used[u]
    BY <1>1, <1>9 DEF TypeInv, TypeOK
  <2> QED BY <1>5, <1>6, <1>7, <1>8, <2>3, <2>4, <2>5
<1>10. CASE u = o
  <2>1. f \in L
    BY <1>2, <1>3, <1>10 DEF LiveOf
  <2>2. Load(L, k) + t = Load(L, g) + s /\ Load(L, k) \in Nat
    <3>1. \A e \in L \ {f} : k[e] = g[e]
      BY <1>4, <1>8 DEF RowSize
    <3>2. k[f] = s /\ g[f] = t
      BY <1>1, <1>2, <1>4, <1>6 DEF RowSize
    <3> HIDE DEF L, g, k, s, t
    <3>3. \A e \in L : k[e] \in Nat /\ g[e] \in Nat
      BY <1>5, <1>6, <1>8, <3>1, <3>2
    <3>4. Load(L, k) = Load(L \ {f}, k) + k[f] /\ Load(L, g) = Load(L \ {f}, g) + g[f]
      BY <1>6, <2>1, <3>3, LoadRemove
    <3>5. Load(L \ {f}, k) = Load(L \ {f}, g)
      BY <3>1, LoadAgree
    <3>6. Load(L \ {f}, g) \in Nat
      <4>1. IsFiniteSet(L \ {f}) /\ \A e \in L \ {f} : g[e] \in Nat
        BY <1>6, <2>1, <3>3, FS_RemoveElement
      <4> QED BY <4>1, LoadNat
    <3> QED BY <1>5, <3>2, <3>4, <3>5, <3>6
  <2>3. Bytes(P) + t = Bytes(Q) + Bytes(pruned) /\ Bytes(Q) \in Nat /\ Bytes(pruned) \in Nat
    <3>1. ver.file = f /\ ver.sha = r.row.sha
      OBVIOUS
    <3> HIDE DEF ver, pruned
    <3>2. ver \notin P
      BY <1>3 DEF PastOf
    <3>3. Q = (P \cup {ver}) \ pruned
      BY <1>2, <1>3, <1>4, <1>10, <3>1 DEF PastOf, RowsInv, Attached
    <3>4. pruned \in SUBSET (P \cup {ver})
      BY <1>3, <1>10 DEF PastOf, VersionsOf
    <3> HIDE DEF P, Q
    <3>5. P \cup {ver} \in SUBSET Version /\ IsFiniteSet(P \cup {ver})
      BY <1>2, <1>6, FS_AddElement
    <3>6. Bytes(P \cup {ver}) = Bytes(P) + t
      BY <1>2, <1>6, <3>1, <3>2, BytesAdd
    <3>7. Bytes(P \cup {ver}) = Bytes(Q) + Bytes(pruned)
      BY <3>3, <3>4, <3>5, BytesSplit
    <3>8. Bytes(Q) \in Nat /\ Bytes(pruned) \in Nat
      <4>1. /\ Q \in SUBSET Version /\ IsFiniteSet(Q)
            /\ pruned \in SUBSET Version /\ IsFiniteSet(pruned)
        BY <3>3, <3>4, <3>5, FS_Subset
      <4> QED BY <4>1, BytesNat
    <3> QED BY <3>6, <3>7, <3>8
  <2>4. used'[u] = Minus(used[u] + s, Bytes(pruned))
    BY <1>1, <1>10 DEF TypeInv, TypeOK
  <2> HIDE DEF L, M, g, k, P, Q, s, t, pruned
  <2> QED BY <1>5, <1>6, <1>7, <1>8, <2>2, <2>3, <2>4 DEF Minus
<1> QED BY <1>9, <1>10

QuotaInv == RowsInv /\ NeverOvercharged

LEMMA NextQuota == QuotaInv /\ [Next]_vars => QuotaInv'
<1> SUFFICES ASSUME QuotaInv, [Next]_vars PROVE QuotaInv'
  OBVIOUS
<1>1. RowsInv /\ RowsInv' /\ TypeInv /\ TypeInv' /\ NeverOvercharged
  BY NextRows DEF QuotaInv, RowsInv, RefsInv
<1> DEFINE Current == Intact({"stalePurge", "staleTarget"})
<1>2. SUFFICES ASSUME Current', NEW u \in Users PROVE used'[u] <= Held(u)'
  BY <1>1 DEF QuotaInv, NeverOvercharged
<1>3. Current
  BY <1>2, LostGrows DEF Intact
<1>4. ASSUME NEW w \in Workers,
             UploadInsert(w) \/ CopyCommit(w) \/ FromHashCommit(w)
      PROVE  used'[u] <= Held(u)'
  <2>1. PICK n \in Names : /\ AddRow(w, req[w].owner, n, req[w].sha, req[w].donor)
                           /\ req[w] \in AddReq
    BY <1>1, <1>4, AddingRow
  <2> QED BY <1>1, <1>2, <1>3, <2>1, AddRowHolds DEF AddReq
<1>5. ASSUME NEW w \in Workers, UploadOverwrite(w) \/ PurgeCommit(w)
      PROVE  used'[u] <= Held(u)'
  BY <1>1, <1>2, <1>3, <1>5, OverwriteHolds, PurgeHolds
<1>6. ASSUME NEW f \in Ids, Delete(f) \/ Restore(f)
      PROVE  used'[u] <= Held(u)'
  BY <1>1, <1>3, <1>6, TrashHolds
<1>7. CASE UNCHANGED <<files, versions, used>>
  <2>1. Held(u)' = Held(u)
    <3>1. Held(u) = Holding(files, versions, u) /\ Held(u)' = Holding(files', versions', u)
      BY <1>1, HeldIs, HeldPrimed
    <3> QED BY <1>7, <3>1
  <2> QED BY <1>1, <1>3, <1>7, <2>1 DEF NeverOvercharged
<1>8. ASSUME NEW w \in Workers, Unlink(w) \/ Abort(w)
      PROVE  UNCHANGED <<files, versions, used>>
  BY <1>8 DEF Unlink, Abort
<1>9. ASSUME NEW w \in Workers, NEW o \in Users, NEW n \in Names, NEW h \in Hashes,
             UploadRead(w, o, n, h) \/ FromHashRead(w, o, n, h)
      PROVE  UNCHANGED <<files, versions, used>>
  BY <1>9 DEF UploadRead, FromHashRead
<1>10. ASSUME NEW w \in Workers, NEW f \in Ids,
              PurgeRead(w, f) \/ \E o \in Users : CopyRead(w, f, o)
       PROVE  UNCHANGED <<files, versions, used>>
  BY <1>10 DEF PurgeRead, CopyRead
<1>11. Crash \/ UNCHANGED vars => UNCHANGED <<files, versions, used>>
  BY DEF Crash, vars
<1> QED BY <1>4, <1>5, <1>6, <1>7, <1>8, <1>9, <1>10, <1>11 DEF Next

\* Across reservations, trash and restore, pruning and the clamps at zero, used_bytes
\* charges no owner more than the rows hold, until a purge or an overwrite commits on
\* rows that changed after it read them.
THEOREM OverchargedCorrect == Spec => []NeverOvercharged
<1>1. Init => QuotaInv
  <2> SUFFICES ASSUME Init PROVE NeverOvercharged
    BY InitRows DEF QuotaInv
  <2>1. ASSUME NEW o \in Users PROVE used[o] <= Held(o)
    <3>1. /\ used[o] = 0
          /\ Held(o) = Holding(files, versions, o)
          /\ Load(LiveOf(files, o), RowSize(files)) \in Nat
          /\ Bytes(PastOf(files, versions, o)) \in Nat
      BY InitTypeInv, HeldIs DEF Init
    <3> QED BY <3>1 DEF Holding
  <2> QED BY <2>1 DEF NeverOvercharged
<1>2. QuotaInv => NeverOvercharged
  BY DEF QuotaInv
<1> QED BY <1>1, <1>2, NextQuota, PTL DEF Spec

--------------------------------------------------------------------------------
(* Every row can be read back.  A blob in use is never removed and never         *)
(* replaced: what waits to be removed has no reference and gets none, and what a *)
(* request means to share still has the content it looked for.                   *)

Unraced == Intact({"stalePurge", "staleTarget", "staleDonor"})

\* Rows and versions point at paths that have been drawn.
Drawn ==
  /\ \A f \in DOMAIN files : files[f].path < nextId
  /\ \A v \in versions : v.path < nextId

\* What a request will remove or share is as its transaction found it.
Holds(r) ==
  /\ r.op = "unlink" => \A p \in r.paths : p < nextId /\ refs[p] = 0
  /\ r.op \in {"insert", "copy", "byhash", "overwrite"} /\ r.donor # NoDonor =>
       r.donor < nextId /\ (refs[r.donor] > 0 => disk[r.donor] = r.sha)

ReadInv ==
  /\ RefsInv
  /\ RowsReadable
  /\ Unraced => Drawn /\ \A w \in Workers : Holds(req[w])

\* A path that a row or a version points at has a holder.
LEMMA RowsAreHolders ==
  ASSUME TypeInv
  PROVE  /\ \A f \in DOMAIN files : Holders(files[f].path) > 0
         /\ \A v \in versions : Holders(v.path) > 0
<1>1. ASSUME NEW f \in DOMAIN files PROVE Holders(files[f].path) > 0
  <2> DEFINE p == files[f].path
             A == Pointing(files, p)
  <2>1. A # {} /\ IsFiniteSet(A) /\ Cardinality(A) \in Nat
    BY PointingFinite DEF Pointing
  <2>2. Cardinality(A) > 0
    BY <2>1, FS_EmptySet
  <2>3. Uses(versions, p) \in Nat
    BY UsesNat DEF TypeInv, Finite
  <2>4. Holders(p) = Cardinality(A) + Uses(versions, p)
    BY HoldersSplit
  <2> QED BY <2>1, <2>2, <2>3, <2>4
<1>2. ASSUME NEW v \in versions PROVE Holders(v.path) > 0
  <2> DEFINE p == v.path
             B == {u \in versions : u.path = p}
  <2>1. B # {} /\ IsFiniteSet(B)
    BY FS_Subset DEF TypeInv, Finite
  <2>2. Cardinality(B) \in Nat /\ Cardinality(B) > 0 /\ Uses(versions, p) = Cardinality(B)
    BY <2>1, FS_EmptySet, FS_CardinalityType DEF Uses
  <2>3. Cardinality(Pointing(files, p)) \in Nat
    BY PointingFinite
  <2>4. Holders(p) = Cardinality(Pointing(files, p)) + Uses(versions, p)
    BY HoldersSplit
  <2> HIDE DEF B
  <2> QED BY <2>2, <2>3, <2>4
<1> QED BY <1>1, <1>2

\* So it has a reference, and is not removed.
LEMMA InUse ==
  ASSUME ReadInv, Unraced
  PROVE  /\ \A f \in DOMAIN files :
              files[f].path \in Ids /\ files[f].path < nextId /\ refs[files[f].path] > 0
         /\ \A v \in versions : v.path \in Ids /\ v.path < nextId /\ refs[v.path] > 0
<1>1. \A p \in Ids : refs[p] = Holders(p)
  BY DEF ReadInv, RefsInv, RefsMatchRows, Unraced, Intact
<1>2. /\ \A f \in DOMAIN files : files[f].path \in Ids
      /\ \A v \in versions : v.path \in Ids
  BY DEF ReadInv, RefsInv, TypeInv, TypeOK, Row, Version
<1> QED BY <1>1, <1>2, RowsAreHolders DEF ReadInv, RefsInv, Drawn

\* What a step must do to the paths that were drawn before it.
Steady ==
  /\ nextId <= nextId'
  /\ \A p \in Ids : p < nextId =>
       /\ refs[p] > 0 => disk'[p] = disk[p]
       /\ refs[p] = 0 => refs'[p] = 0

\* Requests that the step does not touch keep what they hold.
LEMMA RequestsHold ==
  ASSUME ReadInv, TypeInv', Unraced, Steady, NEW v \in Workers, req'[v] = req[v]
  PROVE  Holds(req[v])'
<1> DEFINE r == req[v]
<1>1. Holds(r) /\ r \in Request
  BY DEF ReadInv, RefsInv, TypeInv, TypeOK
<1>2. ASSUME r.op = "unlink", NEW p \in r.paths
      PROVE  p < nextId' /\ refs'[p] = 0
  <2>1. p \in Ids /\ p < nextId /\ refs[p] = 0
    BY <1>1, <1>2 DEF Request, Idle, AddReq, OverwriteReq, PurgeReq, UnlinkReq, Holds
  <2> QED BY <2>1 DEF Steady, ReadInv, RefsInv, TypeInv, TypeOK, Ids
<1>3. ASSUME r.op \in {"insert", "copy", "byhash", "overwrite"}, r.donor # NoDonor
      PROVE  r.donor < nextId' /\ (refs'[r.donor] > 0 => disk'[r.donor] = r.sha)
  <2>1. r.donor \in Ids /\ r.donor < nextId /\ (refs[r.donor] > 0 => disk[r.donor] = r.sha)
    BY <1>1, <1>3 DEF Request, Idle, AddReq, OverwriteReq, PurgeReq, UnlinkReq, Holds
  <2>2. refs[r.donor] \in Nat /\ nextId \in Nat /\ nextId' \in Nat /\ r.donor \in Nat
    BY <2>1 DEF ReadInv, RefsInv, TypeInv, TypeOK, Ids
  <2> QED BY <2>1, <2>2 DEF Steady
<1> QED BY <1>2, <1>3 DEF Holds

\* Rows that the step does not touch stay readable.
LEMMA RowsStay ==
  ASSUME ReadInv, TypeInv', Unraced, Steady
  PROVE  /\ \A f \in DOMAIN files : disk'[files[f].path] = files[f].sha /\ files[f].path < nextId'
         /\ \A v \in versions : disk'[v.path] = v.sha /\ v.path < nextId'
<1>1. /\ \A f \in DOMAIN files : disk[files[f].path] = files[f].sha
      /\ \A v \in versions : disk[v.path] = v.sha
  BY DEF ReadInv, RowsReadable, Unraced
<1>2. \A p \in Ids : p < nextId => p < nextId'
  BY DEF Steady, ReadInv, RefsInv, TypeInv, TypeOK, Ids
<1>3. ASSUME NEW f \in DOMAIN files
      PROVE  disk'[files[f].path] = files[f].sha /\ files[f].path < nextId'
  <2>1. files[f].path \in Ids /\ files[f].path < nextId /\ refs[files[f].path] > 0
    BY InUse
  <2>2. disk'[files[f].path] = disk[files[f].path]
    BY <2>1 DEF Steady
  <2> QED BY <1>1, <1>2, <2>1, <2>2
<1>4. ASSUME NEW v \in versions
      PROVE  disk'[v.path] = v.sha /\ v.path < nextId'
  <2>1. v.path \in Ids /\ v.path < nextId /\ refs[v.path] > 0
    BY InUse
  <2>2. disk'[v.path] = disk[v.path]
    BY <2>1 DEF Steady
  <2> QED BY <1>1, <1>2, <2>1, <2>2
<1> QED BY <1>3, <1>4

Readable ==
  /\ \A f \in DOMAIN files : disk[files[f].path] = files[f].sha
  /\ \A v \in versions : disk[v.path] = v.sha

LEMMA MinusZero ==
  ASSUME NEW a \in Nat, NEW b \in Nat, a <= b
  PROVE  Minus(a, b) = 0
BY DEF Minus

\* A path that is used has a row.
LEMMA UsesWitness ==
  ASSUME NEW V, NEW p, Uses(V, p) > 0
  PROVE  \E v \in V : v.path = p
<1>1. CASE {v \in V : v.path = p} = {}
  <2>1. Uses(V, p) = 0
    BY <1>1, FS_EmptySet DEF Uses
  <2> QED BY <2>1
<1> QED BY <1>1

\* A commit that adds a row: the donor, still counted, has the content.
LEMMA AddRowRead ==
  ASSUME ReadInv, Unraced, TypeInv', Unraced', NEW w \in Workers, NEW n,
         NEW o, NEW h \in Hashes, NEW d \in Ids \cup {NoDonor}, AddRow(w, o, n, h, d),
         d # NoDonor => d < nextId /\ (refs[d] > 0 => disk[d] = h)
  PROVE  Readable' /\ Drawn' /\ \A v \in Workers : Holds(req[v])'
<1> DEFINE b == BlobPath(d)
           acq == [p \in Ids |-> One(p = b)]
<1>1. /\ files' = [f \in DOMAIN files \cup {nextId} |->
                     IF f = nextId
                     THEN [owner |-> o, name |-> n, path |-> b, sha |-> h, deleted |-> FALSE]
                     ELSE files[f]]
      /\ refs' = [p \in Ids |-> Minus(refs[p] + acq[p], NoRefs[p])]
      /\ disk' = IF d = NoDonor THEN [disk EXCEPT ![nextId] = h] ELSE disk
      /\ nextId' = nextId + 1
      /\ lost' = lost \cup Note("staleDonor", DonorGone(d))
      /\ req' = [req EXCEPT ![w] = Idle]
      /\ versions' = versions
  BY DEF AddRow, Settle, Place, Finish
<1>2. nextId \in Ids /\ nextId \in Nat
  BY StoreAssumption DEF AddRow, ReadInv, RefsInv, TypeInv, TypeOK, Ids
<1>3. d # NoDonor => d \in Ids /\ d < nextId /\ refs[d] \in Nat /\ refs[d] > 0 /\ disk[d] = h
  <2>1. ~DonorGone(d)
    BY <1>1 DEF Unraced, Intact, Note
  <2> QED BY <2>1 DEF DonorGone, ReadInv, RefsInv, TypeInv, TypeOK
<1>4. b \in Ids /\ disk'[b] = h /\ b < nextId'
  <2>1. CASE d = NoDonor
    BY <1>1, <1>2, <2>1 DEF BlobPath, ReadInv, RefsInv, TypeInv, TypeOK
  <2>2. CASE d # NoDonor
    BY <1>1, <1>2, <1>3, <2>2 DEF BlobPath, Ids
  <2> QED BY <2>1, <2>2
<1>5. Steady
  <2>1. ASSUME NEW p \in Ids, p < nextId
        PROVE  /\ disk'[p] = disk[p]
               /\ refs[p] = 0 => refs'[p] = 0
    <3>1. disk'[p] = disk[p]
      BY <1>1, <1>2, <2>1
    <3>2. ASSUME refs[p] = 0 PROVE refs'[p] = 0
      <4>1. p # b
        BY <1>2, <1>3, <2>1, <3>2 DEF BlobPath
      <4> QED BY <1>1, <3>2, <4>1 DEF One, NoRefs, Minus
    <3> QED BY <3>1, <3>2
  <2>2. nextId <= nextId'
    BY <1>1, <1>2
  <2> QED BY <2>1, <2>2 DEF Steady
<1>6. ASSUME NEW v \in Workers PROVE Holds(req[v])'
  <2>1. CASE v = w
    BY <1>1, <2>1 DEF Holds, Idle, ReadInv, RefsInv, TypeInv, TypeOK
  <2>2. CASE v # w
    BY <1>1, <1>5, <2>2, RequestsHold DEF ReadInv, RefsInv, TypeInv, TypeOK
  <2> QED BY <2>1, <2>2
<1>7. Readable' /\ Drawn'
  <2>1. /\ \A f \in DOMAIN files : disk'[files[f].path] = files[f].sha /\ files[f].path < nextId'
        /\ \A v \in versions : disk'[v.path] = v.sha /\ v.path < nextId'
    BY <1>5, RowsStay
  <2>2. ASSUME NEW f \in DOMAIN files'
        PROVE  disk'[files'[f].path] = files'[f].sha /\ files'[f].path < nextId'
    <3>1. CASE f = nextId
      BY <1>1, <1>4, <3>1
    <3>2. CASE f # nextId
      BY <1>1, <2>1, <2>2, <3>2
    <3> QED BY <3>1, <3>2
  <2> QED BY <1>1, <2>1, <2>2 DEF Readable, Drawn
<1> QED BY <1>6, <1>7

\* A commit whose snapshot is current: blobs change hands, and those it leaves to be
\* removed have no reference left.
LEMMA OverwriteRead ==
  ASSUME ReadInv, Unraced, TypeInv', Unraced', NEW w \in Workers, UploadOverwrite(w)
  PROVE  Readable' /\ Drawn' /\ \A v \in Workers : Holds(req[v])'
<1> DEFINE r == req[w]
           f == r.file
           d == r.donor
           b == BlobPath(d)
           ver == [file |-> f, no |-> NextNo(r.vers), path |-> r.row.path, sha |-> r.row.sha]
           pruned == Pruned(r.vers \cup {ver})
           acq == [p \in Ids |-> One(p = r.row.path) + One(p = b)]
           rel == [p \in Ids |-> One(p = r.row.path) + Uses(pruned, p)]
           freed == Freed(acq, rel)
<1>1. /\ r.op = "overwrite"
      /\ f \in DOMAIN files
      /\ files' = [files EXCEPT ![f] = [files[f] EXCEPT !.path = b, !.sha = r.sha]]
      /\ versions' = (versions \cup {ver}) \ pruned
      /\ refs' = [p \in Ids |-> Minus(refs[p] + acq[p], rel[p])]
      /\ disk' = IF d = NoDonor THEN [disk EXCEPT ![nextId] = r.sha] ELSE disk
      /\ d = NoDonor => nextId <= MaxId
      /\ nextId' = IF d = NoDonor THEN nextId + 1 ELSE nextId
      /\ lost' = lost \cup Note("staleDonor", DonorGone(d))
                      \cup Note("staleTarget", files[f] # r.row \/ VersionsOf(f) # r.vers)
      /\ Finish(w, freed)
  BY DEF UploadOverwrite, Settle, Place
<1>2. r \in OverwriteReq /\ IsFiniteSet(r.vers)
  BY <1>1 DEF ReadInv, RefsInv, TypeInv, TypeOK, Finite, Request, Idle, AddReq, OverwriteReq,
     PurgeReq, UnlinkReq
<1>3. files[f] = r.row /\ VersionsOf(f) = r.vers /\ ~DonorGone(d)
  BY <1>1 DEF Unraced, Intact, Note
<1>4. nextId \in Nat /\ (d = NoDonor => nextId \in Ids) /\ nextId' \in {nextId, nextId + 1}
  BY <1>1, StoreAssumption DEF ReadInv, RefsInv, TypeInv, TypeOK, Ids
<1>5. d # NoDonor => d \in Ids /\ d < nextId /\ refs[d] \in Nat /\ refs[d] > 0 /\ disk[d] = r.sha
  <2>1. Holds(r)
    BY DEF ReadInv
  <2>2. d # NoDonor => d \in Ids /\ refs[d] \in Nat
    BY <1>2 DEF OverwriteReq, ReadInv, RefsInv, TypeInv, TypeOK
  <2> QED BY <1>1, <1>3, <2>1, <2>2 DEF DonorGone, Holds
<1>6. b \in Ids /\ disk'[b] = r.sha /\ b < nextId'
  <2>1. CASE d = NoDonor
    BY <1>1, <1>4, <2>1 DEF BlobPath, ReadInv, RefsInv, TypeInv, TypeOK
  <2>2. CASE d # NoDonor
    BY <1>1, <1>4, <1>5, <2>2 DEF BlobPath, Ids
  <2> QED BY <2>1, <2>2
<1>7. r.row.path \in Ids /\ r.row.path < nextId /\ refs[r.row.path] > 0
  BY <1>1, <1>3, InUse
<1>8. \A p \in Ids : /\ acq[p] \in Nat /\ rel[p] \in Nat /\ refs[p] \in Nat
                      /\ Uses(pruned, p) \in Nat
  <2>1. IsFiniteSet(pruned)
    <3>1. IsFiniteSet(r.vers \cup {ver})
      BY <1>2, FS_AddElement
    <3> QED BY <3>1, PrunedSubset, FS_Subset
  <2> QED BY <2>1, UsesNat DEF One, ReadInv, RefsInv, TypeInv, TypeOK
<1>9. Steady
  <2>1. ASSUME NEW p \in Ids, p < nextId
        PROVE  /\ disk'[p] = disk[p]
               /\ refs[p] = 0 => refs'[p] = 0
    <3>1. disk'[p] = disk[p]
      BY <1>1, <1>4, <2>1
    <3>2. ASSUME refs[p] = 0 PROVE refs'[p] = 0
      <4>1. p # b /\ p # r.row.path
        BY <1>4, <1>5, <1>7, <2>1, <3>2 DEF BlobPath
      <4>2. acq[p] = 0
        BY <4>1 DEF One
      <4>3. Minus(0, rel[p]) = 0
        <5> HIDE DEF rel
        <5> QED BY <1>8, MinusZero
      <4> HIDE DEF acq, rel
      <4> QED BY <1>1, <3>2, <4>2, <4>3
    <3> QED BY <3>1, <3>2
  <2>2. nextId <= nextId'
    BY <1>4
  <2> QED BY <2>1, <2>2 DEF Steady
<1>10. /\ \A g \in DOMAIN files : disk'[files[g].path] = files[g].sha /\ files[g].path < nextId'
       /\ \A v \in versions : disk'[v.path] = v.sha /\ v.path < nextId'
  BY <1>9, RowsStay
<1>11. disk'[ver.path] = ver.sha /\ ver.path < nextId'
  BY <1>1, <1>3, <1>10
<1>12. ASSUME NEW p \in freed PROVE p < nextId' /\ refs'[p] = 0
  <2>1. p \in Ids /\ rel[p] > 0 /\ refs[p] + acq[p] <= rel[p]
    BY DEF Freed
  <2>2. Minus(refs[p] + acq[p], rel[p]) = 0
    <3> HIDE DEF acq, rel
    <3> QED BY <1>8, <2>1, MinusZero
  <2>3. refs'[p] = 0
    <3> HIDE DEF acq, rel
    <3> QED BY <1>1, <2>1, <2>2
  <2>4. p = r.row.path \/ Uses(pruned, p) > 0
    <3> HIDE DEF acq, pruned
    <3> QED BY <1>8, <2>1 DEF One
  <2>5. ASSUME Uses(pruned, p) > 0 PROVE p < nextId'
    <3>1. PICK v \in pruned : v.path = p
      BY <2>5, UsesWitness
    <3>2. v \in versions \cup {ver}
      BY <1>3, PrunedSubset DEF VersionsOf
    <3> QED BY <1>10, <1>11, <3>1, <3>2
  <2> QED BY <1>11, <2>3, <2>4, <2>5
<1>13. ASSUME NEW v \in Workers PROVE Holds(req[v])'
  <2>1. CASE v = w
    <3>1. req'[w] = IF freed = {} THEN Idle ELSE [op |-> "unlink", paths |-> freed]
      BY <1>1 DEF Finish, ReadInv, RefsInv, TypeInv, TypeOK
    <3> HIDE DEF freed
    <3> QED BY <1>12, <2>1, <3>1 DEF Holds, Idle
  <2>2. CASE v # w
    BY <1>1, <1>9, <2>2, RequestsHold DEF Finish, ReadInv, RefsInv, TypeInv, TypeOK
  <2> QED BY <2>1, <2>2
<1>14. Readable' /\ Drawn'
  <2>1. files[f] \in Row
    BY <1>1 DEF ReadInv, RefsInv, TypeInv, TypeOK
  <2>2. ASSUME NEW g \in DOMAIN files'
        PROVE  disk'[files'[g].path] = files'[g].sha /\ files'[g].path < nextId'
    <3>1. CASE g = f
      <4>1. files'[g].path = b /\ files'[g].sha = r.sha
        BY <1>1, <2>1, <3>1 DEF Row
      <4> QED BY <1>6, <4>1
    <3>2. CASE g # f
      BY <1>1, <1>10, <2>2, <3>2
    <3> QED BY <3>1, <3>2
  <2>3. \A v \in versions' : v \in versions \/ v = ver
    BY <1>1
  <2> QED BY <1>10, <1>11, <2>2, <2>3 DEF Readable, Drawn
<1> QED BY <1>13, <1>14

LEMMA PurgeCommitRead ==
  ASSUME ReadInv, Unraced, TypeInv', Unraced', NEW w \in Workers, PurgeCommit(w)
  PROVE  Readable' /\ Drawn' /\ \A v \in Workers : Holds(req[v])'
<1> DEFINE r == req[w]
           f == r.file
           rel == [p \in Ids |-> One(p = r.row.path) + Uses(r.vers, p)]
           freed == Freed(NoRefs, rel)
<1>1. /\ r.op = "purge"
      /\ DOMAIN files' \subseteq DOMAIN files
      /\ \A g \in DOMAIN files' : files'[g] = files[g]
      /\ versions' \subseteq versions
      /\ refs' = [p \in Ids |-> Minus(refs[p] + NoRefs[p], rel[p])]
      /\ lost' = lost \cup Note("stalePurge", \/ ~(f \in DOMAIN files /\ files[f].deleted)
                                              \/ files[f] # r.row \/ VersionsOf(f) # r.vers)
      /\ Finish(w, freed)
      /\ UNCHANGED <<disk, nextId>>
  BY DEF PurgeCommit, Settle
<1>2. f \in DOMAIN files /\ files[f] = r.row /\ VersionsOf(f) = r.vers
  BY <1>1 DEF Unraced, Intact, Note
<1>3. \A p \in Ids : /\ NoRefs[p] = 0 /\ rel[p] \in Nat /\ refs[p] \in Nat
                      /\ Uses(r.vers, p) \in Nat
  <2>1. IsFiniteSet(r.vers)
    BY <1>2, VersionsOfFinite DEF ReadInv, RefsInv
  <2> QED BY <2>1, UsesNat DEF One, NoRefs, ReadInv, RefsInv, TypeInv, TypeOK
<1>4. Steady
  <2>1. ASSUME NEW p \in Ids, refs[p] = 0 PROVE refs'[p] = 0
    <3>1. Minus(0 + 0, rel[p]) = 0
      BY <1>3, MinusZero
    <3> HIDE DEF rel
    <3> QED BY <1>1, <1>3, <2>1, <3>1
  <2> QED BY <1>1, <2>1 DEF Steady, ReadInv, RefsInv, TypeInv, TypeOK
<1>5. /\ \A g \in DOMAIN files : disk'[files[g].path] = files[g].sha /\ files[g].path < nextId'
      /\ \A v \in versions : disk'[v.path] = v.sha /\ v.path < nextId'
  BY <1>4, RowsStay
<1>6. ASSUME NEW p \in freed PROVE p < nextId' /\ refs'[p] = 0
  <2>1. p \in Ids /\ rel[p] > 0 /\ refs[p] + NoRefs[p] <= rel[p]
    BY DEF Freed
  <2>2. Minus(refs[p] + NoRefs[p], rel[p]) = 0
    <3> HIDE DEF rel
    <3> QED BY <1>3, <2>1, MinusZero
  <2>3. refs'[p] = 0
    <3> HIDE DEF rel
    <3> QED BY <1>1, <2>1, <2>2
  <2>4. p = r.row.path \/ Uses(r.vers, p) > 0
    BY <1>3, <2>1 DEF One
  <2>5. ASSUME Uses(r.vers, p) > 0 PROVE p < nextId'
    <3>1. PICK v \in r.vers : v.path = p
      BY <2>5, UsesWitness
    <3> QED BY <1>2, <1>5, <3>1 DEF VersionsOf
  <2> QED BY <1>2, <1>5, <2>3, <2>4, <2>5
<1>7. ASSUME NEW v \in Workers PROVE Holds(req[v])'
  <2>1. CASE v = w
    <3>1. req'[w] = IF freed = {} THEN Idle ELSE [op |-> "unlink", paths |-> freed]
      BY <1>1 DEF Finish, ReadInv, RefsInv, TypeInv, TypeOK
    <3> HIDE DEF freed
    <3> QED BY <1>6, <2>1, <3>1 DEF Holds, Idle
  <2>2. CASE v # w
    BY <1>1, <1>4, <2>2, RequestsHold DEF Finish, ReadInv, RefsInv, TypeInv, TypeOK
  <2> QED BY <2>1, <2>2
<1> QED BY <1>1, <1>5, <1>7 DEF Readable, Drawn

\* Steps that change neither rows nor counts nor blobs in use.
LEMMA OtherRead ==
  ASSUME ReadInv, Unraced, TypeInv', Steady, DOMAIN files' = DOMAIN files, UNCHANGED versions,
         \A f \in DOMAIN files : files'[f].path = files[f].path /\ files'[f].sha = files[f].sha,
         \A v \in Workers : req'[v] = req[v] \/ Holds(req[v])'
  PROVE  Readable' /\ Drawn' /\ \A v \in Workers : Holds(req[v])'
<1>1. Readable' /\ Drawn'
  BY RowsStay DEF Readable, Drawn
<1> QED BY <1>1, RequestsHold

LEMMA StartRead ==
  ASSUME ReadInv, Unraced, TypeInv', NEW w \in Workers, NEW r, req' = [req EXCEPT ![w] = r],
         Holds(r), UNCHANGED <<files, versions, refs, disk, nextId>>
  PROVE  Readable' /\ Drawn' /\ \A v \in Workers : Holds(req[v])'
<1>1. Steady
  BY DEF Steady, ReadInv, RefsInv, TypeInv, TypeOK
<1>2. Holds(r)'
  BY DEF Holds
<1>3. \A v \in Workers : req'[v] = req[v] \/ Holds(req[v])'
  BY <1>2 DEF Holds, ReadInv, RefsInv, TypeInv, TypeOK
<1> QED BY <1>1, <1>3, OtherRead

\* A donor is a live row's path when it is read.
LEMMA DonorHolds ==
  ASSUME ReadInv, Unraced, NEW o, NEW h, NEW f, NEW d \in Donors(o, h, f), d # NoDonor
  PROVE  d < nextId /\ disk[d] = h
<1>1. PICK g \in DOMAIN files : files[g].sha = h /\ d = files[g].path
  BY DEF Donors
<1> QED BY <1>1 DEF ReadInv, RowsReadable, Drawn, Unraced

LEMMA ReadsRead ==
  ASSUME ReadInv, Unraced, TypeInv', NEW w \in Workers, NEW f
  PROVE  LET Fine == Readable' /\ Drawn' /\ \A v \in Workers : Holds(req[v])'
         IN  /\ \A o \in Users, n \in Names, h \in Hashes :
                    UploadRead(w, o, n, h) \/ FromHashRead(w, o, n, h) => Fine
             /\ \A o \in Users : CopyRead(w, f, o) => Fine
             /\ PurgeRead(w, f) => Fine
<1> DEFINE Fine == Readable' /\ Drawn' /\ \A v \in Workers : Holds(req[v])'
<1>1. ASSUME NEW o \in Users, NEW n \in Names, NEW h \in Hashes, UploadRead(w, o, n, h)
      PROVE  Fine
  <2>1. ASSUME NEW d \in Donors(o, h, 0),
               Start(w, [op |-> "insert", owner |-> o, name |-> n, sha |-> h, donor |-> d])
        PROVE  \E r : Start(w, r) /\ Holds(r)
    <3>1. Holds([op |-> "insert", owner |-> o, name |-> n, sha |-> h, donor |-> d])
      BY DonorHolds DEF Holds
    <3> QED BY <2>1, <3>1
  <2>2. ASSUME NEW g \in SameName(o, n), NEW d \in Donors(o, h, g),
               Start(w, [op |-> "overwrite", owner |-> o, sha |-> h, donor |-> d,
                         file |-> g, row |-> files[g], vers |-> VersionsOf(g)])
        PROVE  \E r : Start(w, r) /\ Holds(r)
    <3>1. Holds([op |-> "overwrite", owner |-> o, sha |-> h, donor |-> d,
                 file |-> g, row |-> files[g], vers |-> VersionsOf(g)])
      BY DonorHolds DEF Holds
    <3> QED BY <2>2, <3>1
  <2>3. \E r : Start(w, r) /\ Holds(r)
    BY <1>1, <2>1, <2>2 DEF UploadRead
  <2> QED BY <1>1, <2>3, StartRead DEF UploadRead, Start
<1>2. ASSUME NEW o \in Users, NEW n \in Names, NEW h \in Hashes, FromHashRead(w, o, n, h)
      PROVE  Fine
  <2>1. PICK d \in Donors(o, h, 0) \ {NoDonor} :
          Start(w, [op |-> "byhash", owner |-> o, name |-> n, sha |-> h, donor |-> d])
    BY <1>2 DEF FromHashRead
  <2>2. \E r : Start(w, r) /\ Holds(r)
    BY <2>1, DonorHolds DEF Holds
  <2> QED BY <1>2, <2>2, StartRead DEF FromHashRead, Start
<1>3. ASSUME NEW o \in Users, CopyRead(w, f, o)
      PROVE  Fine
  <2> DEFINE r == [op |-> "copy", owner |-> o, name |-> files[f].name,
                   sha |-> files[f].sha, donor |-> files[f].path]
  <2>1. Holds(r)
    BY <1>3 DEF CopyRead, Live, Holds, ReadInv, RowsReadable, Drawn, Unraced
  <2> QED BY <1>3, <2>1, StartRead DEF CopyRead, Start
<1>4. ASSUME PurgeRead(w, f)
      PROVE  Fine
  <2>1. \E r : Start(w, r) /\ Holds(r)
    BY <1>4 DEF PurgeRead, Holds
  <2> QED BY <1>4, <2>1, StartRead DEF PurgeRead, Start
<1> QED BY <1>1, <1>2, <1>3, <1>4

LEMMA EndsRead ==
  ASSUME ReadInv, Unraced, TypeInv', Crash \/ \E w \in Workers : Unlink(w) \/ Abort(w)
  PROVE  Readable' /\ Drawn' /\ \A v \in Workers : Holds(req[v])'
<1>1. ASSUME NEW w \in Workers, Abort(w)
      PROVE  Readable' /\ Drawn' /\ \A v \in Workers : Holds(req[v])'
  <2>1. Holds(Idle)
    BY DEF Holds, Idle
  <2> QED BY <1>1, <2>1, StartRead DEF Abort
<1>2. ASSUME NEW w \in Workers, Unlink(w)
      PROVE  Readable' /\ Drawn' /\ \A v \in Workers : Holds(req[v])'
  <2>1. \A p \in req[w].paths : refs[p] = 0
    BY <1>2 DEF Unlink, ReadInv, Holds
  <2>2. Steady
    BY <1>2, <2>1 DEF Unlink, Steady, ReadInv, RefsInv, TypeInv, TypeOK
  <2>3. \A v \in Workers : req'[v] = req[v] \/ Holds(req[v])'
    BY <1>2 DEF Unlink, Holds, Idle, ReadInv, RefsInv, TypeInv, TypeOK
  <2> QED BY <1>2, <2>2, <2>3, OtherRead DEF Unlink
<1>3. ASSUME Crash
      PROVE  Readable' /\ Drawn' /\ \A v \in Workers : Holds(req[v])'
  <2>1. \/ UNCHANGED <<disk, nextId>>
        \/ \E h : disk' = [disk EXCEPT ![nextId] = h] /\ nextId' = nextId + 1
    BY <1>3 DEF Crash
  <2>2. nextId <= nextId' /\ \A p \in Ids : p < nextId => disk'[p] = disk[p]
    BY <2>1 DEF ReadInv, RefsInv, TypeInv, TypeOK
  <2>3. Steady
    BY <1>3, <2>2 DEF Crash, Steady
  <2>4. \A v \in Workers : Holds(req[v])'
    BY <1>3 DEF Crash, Holds, Idle
  <2> QED BY <1>3, <2>3, <2>4, OtherRead DEF Crash
<1> QED BY <1>1, <1>2, <1>3

LEMMA NextRead == ReadInv /\ [Next]_vars => ReadInv'
<1> SUFFICES ASSUME ReadInv, [Next]_vars PROVE ReadInv'
  OBVIOUS
<1>1. RefsInv' /\ TypeInv'
  BY NextRefs DEF ReadInv, RefsInv
<1> DEFINE Fine == Readable' /\ Drawn' /\ \A v \in Workers : Holds(req[v])'
<1>2. SUFFICES ASSUME Unraced' PROVE Fine
  BY <1>1 DEF ReadInv, RowsReadable, Readable, Unraced
<1>3. Unraced
  BY <1>2, LostGrows DEF Unraced, Intact
<1>4. ASSUME NEW w \in Workers,
             UploadInsert(w) \/ CopyCommit(w) \/ FromHashCommit(w)
      PROVE  Fine
  <2> DEFINE r == req[w]
  <2>1. PICK n \in Names : AddRow(w, r.owner, n, r.sha, r.donor) /\ r \in AddReq
    BY <1>4, AddingRow DEF ReadInv, RefsInv
  <2>2. Holds(r)
    BY <1>3 DEF ReadInv
  <2>3. /\ r.sha \in Hashes /\ r.donor \in Ids \cup {NoDonor}
        /\ r.donor # NoDonor => r.donor < nextId /\ (refs[r.donor] > 0 => disk[r.donor] = r.sha)
    BY <2>1, <2>2 DEF AddReq, Holds
  <2> QED BY <1>1, <1>2, <1>3, <2>1, <2>3, AddRowRead
<1>5. ASSUME NEW w \in Workers, UploadOverwrite(w) \/ PurgeCommit(w)
      PROVE  Fine
  BY <1>1, <1>2, <1>3, <1>5, OverwriteRead, PurgeCommitRead
<1>6. ASSUME NEW f \in Ids, Delete(f) \/ Restore(f)
      PROVE  Fine
  <2>1. /\ UNCHANGED <<versions, refs, nextId, disk, req>>
        /\ f \in DOMAIN files
        /\ \E b \in BOOLEAN : files' = [files EXCEPT ![f] = [files[f] EXCEPT !.deleted = b]]
    BY <1>6 DEF Delete, Restore, Live
  <2>2. files[f] \in Row
    BY <2>1 DEF ReadInv, RefsInv, TypeInv, TypeOK
  <2>3. /\ DOMAIN files' = DOMAIN files
        /\ \A g \in DOMAIN files : files'[g].path = files[g].path /\ files'[g].sha = files[g].sha
    BY <2>1, <2>2 DEF Row
  <2>4. Steady
    BY <2>1 DEF Steady, ReadInv, RefsInv, TypeInv, TypeOK
  <2> QED BY <1>1, <1>3, <2>1, <2>3, <2>4, OtherRead
<1>7. CASE Crash \/ \E w \in Workers : Unlink(w) \/ Abort(w)
  BY <1>1, <1>3, <1>7, EndsRead
<1>8. ASSUME NEW w \in Workers, NEW o \in Users, NEW n \in Names, NEW h \in Hashes,
             UploadRead(w, o, n, h) \/ FromHashRead(w, o, n, h)
      PROVE  Fine
  BY <1>1, <1>3, <1>8, ReadsRead
<1>9. ASSUME NEW w \in Workers, NEW f \in Ids,
             PurgeRead(w, f) \/ \E o \in Users : CopyRead(w, f, o)
      PROVE  Fine
  BY <1>1, <1>3, <1>9, ReadsRead
<1>10. CASE UNCHANGED vars
  <2>1. Steady
    BY <1>10 DEF vars, Steady, ReadInv, RefsInv, TypeInv, TypeOK
  <2> QED BY <1>1, <1>3, <1>10, <2>1, OtherRead DEF vars
<1> QED BY <1>4, <1>5, <1>6, <1>7, <1>8, <1>9, <1>10 DEF Next

LEMMA InitRead == Init => ReadInv
<1>1. Init => RefsInv
  BY InitTypeInv, InitRefs DEF RefsInv
<1> QED BY <1>1 DEF Init, ReadInv, RowsReadable, Drawn, Holds, Idle

\* However uploads, copies, restores, purges, removals and crashes interleave, every
\* row and every version reads back the content it was written for, as long as no
\* commit acts on a snapshot that another overtook.
THEOREM ReadableCorrect == Spec => []RowsReadable
<1>1. ReadInv => RowsReadable
  BY DEF ReadInv
<1> QED BY <1>1, InitRead, NextRead, PTL DEF Spec

--------------------------------------------------------------------------------
(* The blob store keeps the promise of FileStore.                                *)

PromiseInv == ReadInv /\ RowsInv

\* What the rows promise a reader, without a look at the disk.
Told ==
  [f \in DOMAIN files |->
     [owner   |-> files[f].owner,
      text    |-> files[f].sha,
      trashed |-> files[f].deleted,
      past    |-> {[no |-> v.no, text |-> v.sha] : v \in VersionsOf(f)}]]

\* A table S of what is told with one file created, replaced, moved to or from the
\* trash, or forgotten.
Created(S, f, o, t) ==
  [g \in DOMAIN S \cup {f} |->
     IF g = f THEN [owner |-> o, text |-> t, trashed |-> FALSE, past |-> {}] ELSE S[g]]
Replaced(S, f, t, kept, n) ==
  [S EXCEPT ![f].text = t, ![f].past = kept \cup {[no |-> n, text |-> S[f].text]}]
Trashed(S, f, b) == [S EXCEPT ![f].trashed = b]
Without(S, f)    == [g \in DOMAIN S \ {f} |-> S[g]]

LEMMA SeenIsTold == Readable => Seen = Told
<1> SUFFICES ASSUME Readable PROVE Seen = Told
  OBVIOUS
<1>1. ASSUME NEW f \in DOMAIN files
      PROVE  {[no |-> v.no, text |-> disk[v.path]] : v \in VersionsOf(f)}
               = {[no |-> v.no, text |-> v.sha] : v \in VersionsOf(f)}
  BY DEF Readable, VersionsOf
<1>2. ASSUME NEW f \in DOMAIN files PROVE Seen[f] = Told[f]
  BY <1>1 DEF Readable, Seen, Told
<1> QED BY <1>2 DEF Seen, Told

\* A step before and after which all is readable is a step on what the rows tell.
LEMMA CreateStep ==
  ASSUME RowsInv, NEW w \in Workers, NEW n,
         NEW o \in Users, NEW h \in Hashes, NEW d \in Ids \cup {NoDonor},
         AddRow(w, o, n, h, d)
  PROVE  /\ nextId \in Ids /\ nextId \notin DOMAIN Told
         /\ Told' = Created(Told, nextId, o, h)
<1>1. nextId \in Ids /\ nextId \notin DOMAIN files
  BY StoreAssumption DEF AddRow, RowsInv, RefsInv, Fresh, TypeInv, TypeOK, Ids
<1>2. /\ files' = [f \in DOMAIN files \cup {nextId} |->
                     IF f = nextId
                     THEN [owner |-> o, name |-> n, path |-> BlobPath(d), sha |-> h,
                           deleted |-> FALSE]
                     ELSE files[f]]
      /\ versions' = versions
  BY DEF AddRow
<1>3. {v \in versions : v.file = nextId} = {}
  BY <1>1 DEF RowsInv, Attached
<1> DEFINE T == Created(Told, nextId, o, h)
<1>4. DOMAIN Told' = DOMAIN T /\ DOMAIN Told = DOMAIN files
  BY <1>2 DEF Told, Created
<1>5. ASSUME NEW g \in DOMAIN T PROVE Told'[g] = T[g]
  <2>1. CASE g = nextId
    BY <1>2, <1>3, <2>1 DEF Told, VersionsOf, Created
  <2>2. CASE g # nextId
    BY <1>2, <2>2 DEF Told, VersionsOf, Created
  <2> QED BY <2>1, <2>2
<1>6. Told' = T
  BY <1>4, <1>5 DEF Told, Created
<1> QED BY <1>1, <1>4, <1>6

LEMMA ReplaceStep ==
  ASSUME RowsInv, NEW w \in Workers, UploadOverwrite(w), files[req[w].file] = req[w].row,
         VersionsOf(req[w].file) = req[w].vers
  PROVE  LET f == req[w].file
         IN  /\ f \in DOMAIN Told /\ req[w].sha \in Hashes
             /\ ~Told[f].trashed
             /\ \E kept \in SUBSET Told[f].past :
                \E n \in {1} \cup {v.no + 1 : v \in Told[f].past} :
                  /\ \A v \in Told[f].past : v.no < n
                  /\ Told' = Replaced(Told, f, req[w].sha, kept, n)
<1> DEFINE r == req[w]
           f == r.file
           n == NextNo(r.vers)
           ver == [file |-> f, no |-> n, path |-> r.row.path, sha |-> r.row.sha]
           pruned == Pruned(r.vers \cup {ver})
           V == VersionsOf(f) \cup {ver}
           kept == {[no |-> v.no, text |-> v.sha] : v \in VersionsOf(f) \ pruned}
<1>1. /\ r \in OverwriteReq
      /\ f \in DOMAIN files
      /\ ver \in Version /\ ver \notin pruned
      /\ Of(versions', f) = V \ pruned
      /\ \A g : g # f => Of(versions', g) = VersionsOf(g)
  BY OverwriteVersions
<1>2. /\ files' = [files EXCEPT ![f] = [files[f] EXCEPT !.path = BlobPath(r.donor), !.sha = r.sha]]
      /\ r.op = "overwrite"
  BY DEF UploadOverwrite
<1>3. files[f] \in Row /\ ~files[f].deleted
  BY <1>1, <1>2 DEF RowsInv, RefsInv, TypeInv, TypeOK, Sound
<1>4. kept \in SUBSET Told[f].past
  BY <1>1 DEF Told
<1>5. /\ n \in {1} \cup {v.no + 1 : v \in Told[f].past}
      /\ \A v \in Told[f].past : v.no < n
  <2>1. r.vers \in SUBSET Version
    BY <1>1 DEF OverwriteReq
  <2>2. /\ n \in {1} \cup {v.no + 1 : v \in VersionsOf(f)}
        /\ \A v \in VersionsOf(f) : v.no < n
    BY <2>1, NextNoAbove
  <2> HIDE DEF n
  <2>3. Told[f].past = {[no |-> v.no, text |-> v.sha] : v \in VersionsOf(f)}
    BY <1>1 DEF Told
  <2>4. ASSUME NEW v \in VersionsOf(f) PROVE \E p \in Told[f].past : p.no = v.no
    <3>1. [no |-> v.no, text |-> v.sha] \in Told[f].past
      BY <2>3
    <3> QED BY <3>1
  <2>5. \A p \in Told[f].past : \E v \in VersionsOf(f) : p.no = v.no
    BY <2>3
  <2>6. n \in {1} \cup {v.no + 1 : v \in Told[f].past}
    BY <2>2, <2>4
  <2> QED BY <2>2, <2>5, <2>6
<1> DEFINE past == kept \cup {[no |-> n, text |-> Told[f].text]}
           T == [Told EXCEPT ![f] = [Told[f] EXCEPT !.text = r.sha, !.past = past]]
<1>6. {[no |-> v.no, text |-> v.sha] : v \in Of(versions', f)} = past
  <2>1. Told[f].text = ver.sha
    BY <1>1 DEF Told
  <2>2. ver.no = n
    OBVIOUS
  <2> HIDE DEF ver, pruned, n
  <2>3. Of(versions', f) = (VersionsOf(f) \ pruned) \cup {ver}
    BY <1>1
  <2> QED BY <2>1, <2>2, <2>3
<1>7. DOMAIN Told' = DOMAIN T /\ DOMAIN Told = DOMAIN files
  BY <1>2 DEF Told
<1>8. ASSUME NEW g \in DOMAIN files PROVE Told'[g] = T[g]
  <2>1. Told'[g] = [owner |-> files'[g].owner, text |-> files'[g].sha,
                    trashed |-> files'[g].deleted,
                    past |-> {[no |-> v.no, text |-> v.sha] : v \in Of(versions', g)}]
    BY <1>2 DEF Told, VersionsOf, Of
  <2>2. Told[g] = [owner |-> files[g].owner, text |-> files[g].sha,
                   trashed |-> files[g].deleted,
                   past |-> {[no |-> v.no, text |-> v.sha] : v \in VersionsOf(g)}]
    BY DEF Told
  <2>3. CASE g = f
    <3>1. files'[g] = [files[f] EXCEPT !.path = BlobPath(r.donor), !.sha = r.sha]
      BY <1>1, <1>2, <2>3
    <3>2. files'[g].owner = files[f].owner /\ files'[g].sha = r.sha /\ files'[g].deleted = files[f].deleted
      BY <1>3, <3>1 DEF Row
    <3>3. T[g] = [Told[f] EXCEPT !.text = r.sha, !.past = past]
      BY <1>1, <1>7, <2>3
    <3> HIDE DEF T, past
    <3>4. T[g] = [owner |-> files[f].owner, text |-> r.sha,
                  trashed |-> files[f].deleted, past |-> past]
      <4> DEFINE t == [owner |-> files[f].owner, text |-> files[f].sha,
                       trashed |-> files[f].deleted,
                       past |-> {[no |-> v.no, text |-> v.sha] : v \in VersionsOf(f)}]
      <4>1. Told[f] = t
        BY <2>2, <2>3
      <4>2. T[g] = [t EXCEPT !.text = r.sha, !.past = past]
        BY <3>3, <4>1, Zenon
      <4> QED BY <4>2
    <3> QED BY <1>6, <2>1, <2>3, <3>2, <3>4
  <2>4. CASE g # f
    <3>1. files'[g] = files[g] /\ Of(versions', g) = VersionsOf(g) /\ T[g] = Told[g]
      BY <1>1, <1>2, <1>7, <2>4
    <3> QED BY <2>1, <2>2, <3>1
  <2> QED BY <2>3, <2>4
<1>9. Told' = T
  BY <1>7, <1>8 DEF Told
<1>10. Told[f] = [owner |-> files[f].owner, text |-> files[f].sha,
                  trashed |-> files[f].deleted, past |-> Told[f].past]
  BY <1>1 DEF Told
<1>11. r.sha \in Hashes /\ f \in DOMAIN Told /\ ~Told[f].trashed
  BY <1>1, <1>3, <1>7, <1>10 DEF OverwriteReq
<1>12. T = Replaced(Told, f, r.sha, kept, n)
  BY DEF Replaced
<1> HIDE DEF n, kept, T
<1> QED BY <1>4, <1>5, <1>9, <1>11, <1>12

LEMMA TrashedStep ==
  ASSUME TypeInv, NEW f \in DOMAIN files, NEW b \in BOOLEAN, files[f].deleted # b,
         files' = [files EXCEPT ![f] = [files[f] EXCEPT !.deleted = b]],
         versions' = versions
  PROVE  /\ f \in DOMAIN Told /\ Told[f].trashed # b
         /\ Told' = Trashed(Told, f, b)
<1> DEFINE T == [Told EXCEPT ![f].trashed = b]
<1>1. DOMAIN Told' = DOMAIN T /\ DOMAIN Told = DOMAIN files
  BY DEF Told
<1>2. ASSUME NEW g \in DOMAIN files PROVE Told'[g] = T[g]
  <2>1. CASE g = f
    <3>1. files[f] \in Row
      BY DEF TypeInv, TypeOK
    <3>2. files'[f].owner = files[f].owner /\ files'[f].sha = files[f].sha /\ files'[f].deleted = b
      BY <3>1 DEF Row
    <3> QED BY <2>1, <3>2 DEF Told, VersionsOf
  <2>2. CASE g # f
    BY <2>2 DEF Told, VersionsOf
  <2> QED BY <2>1, <2>2
<1> QED BY <1>1, <1>2 DEF Told, Trashed

LEMMA ForgetStep ==
  ASSUME NEW f \in DOMAIN files, files[f].deleted,
         files' = [g \in DOMAIN files \ {f} |-> files[g]],
         versions' = versions \ VersionsOf(f)
  PROVE  /\ f \in DOMAIN Told /\ Told[f].trashed
         /\ Told' = Without(Told, f)
<1>1. \A g \in DOMAIN files \ {f} : {v \in versions' : v.file = g} = VersionsOf(g)
  BY DEF VersionsOf
<1>2. DOMAIN Told' = DOMAIN Told \ {f} /\ DOMAIN Told = DOMAIN files
  BY DEF Told
<1>3. \A g \in DOMAIN files \ {f} : Told'[g] = Told[g]
  BY <1>1 DEF Told, VersionsOf
<1> QED BY <1>2, <1>3 DEF Told, Without

\* What happens to the rows, seen as steps of the promise.
Creates(f) ==
  /\ f \notin DOMAIN Told
  /\ \E o \in Users, t \in Hashes : Told' = Created(Told, f, o, t)

Replaces(f) ==
  /\ f \in DOMAIN Told /\ ~Told[f].trashed
  /\ \E t \in Hashes : \E kept \in SUBSET Told[f].past :
     \E n \in {1} \cup {v.no + 1 : v \in Told[f].past} :
       /\ \A v \in Told[f].past : v.no < n
       /\ Told' = Replaced(Told, f, t, kept, n)

Trashes(f) ==
  /\ f \in DOMAIN Told
  /\ \E b \in BOOLEAN : Told[f].trashed # b /\ Told' = Trashed(Told, f, b)

Forgets(f) ==
  /\ f \in DOMAIN Told /\ Told[f].trashed
  /\ Told' = Without(Told, f)

LEMMA StepsTold ==
  ASSUME PromiseInv, [Next]_vars, Unraced'
  PROVE  \/ Told' = Told
         \/ \E f \in Ids : Creates(f) \/ Replaces(f) \/ Trashes(f) \/ Forgets(f)
<1> DEFINE Some == \E f \in Ids : Creates(f) \/ Replaces(f) \/ Trashes(f) \/ Forgets(f)
<1>1. TypeInv /\ DOMAIN files \subseteq Ids
  BY DEF PromiseInv, RowsInv, RefsInv, TypeInv, TypeOK
<1>2. ASSUME UNCHANGED <<files, versions>> PROVE Told' = Told
  BY <1>2 DEF Told, VersionsOf
<1>3. ASSUME NEW w \in Workers, UploadInsert(w) \/ CopyCommit(w) \/ FromHashCommit(w)
      PROVE  Some
  <2> DEFINE r == req[w]
  <2>1. PICK n \in Names : AddRow(w, r.owner, n, r.sha, r.donor) /\ r \in AddReq
    BY <1>1, <1>3, AddingRow
  <2>2. r.owner \in Users /\ r.sha \in Hashes /\ r.donor \in Ids \cup {NoDonor}
    BY <2>1 DEF AddReq
  <2>3. /\ nextId \in Ids /\ nextId \notin DOMAIN Told
        /\ Told' = Created(Told, nextId, r.owner, r.sha)
    BY <2>1, <2>2, CreateStep DEF PromiseInv
  <2>4. Creates(nextId)
    BY <2>2, <2>3 DEF Creates
  <2> QED BY <2>3, <2>4
<1>4. ASSUME NEW w \in Workers, UploadOverwrite(w) PROVE Some
  <2> DEFINE f == req[w].file
  <2>1. files[f] = req[w].row /\ VersionsOf(f) = req[w].vers
    BY <1>4 DEF UploadOverwrite, Unraced, Intact, Note
  <2>2. Replaces(f)
    BY <1>4, <2>1, ReplaceStep DEF PromiseInv, Replaces
  <2>3. f \in Ids
    BY <1>1, <1>4 DEF UploadOverwrite
  <2> QED BY <2>2, <2>3
<1>5. ASSUME NEW w \in Workers, PurgeCommit(w) PROVE Some
  <2> DEFINE f == req[w].file
  <2>1. /\ f \in DOMAIN files /\ files[f].deleted
        /\ files' = [g \in DOMAIN files \ {f} |-> files[g]]
        /\ versions' = versions \ VersionsOf(f)
    BY <1>5 DEF PurgeCommit, Unraced, Intact, Note
  <2>2. Forgets(f)
    BY <2>1, ForgetStep DEF Forgets
  <2> QED BY <1>1, <2>1, <2>2
<1>6. ASSUME NEW f \in Ids, Delete(f) \/ Restore(f) PROVE Some
  <2>1. PICK b \in BOOLEAN : /\ f \in DOMAIN files /\ files[f].deleted # b
                             /\ files' = [files EXCEPT ![f] = [files[f] EXCEPT !.deleted = b]]
                             /\ versions' = versions
    BY <1>6 DEF Delete, Restore, Live
  <2>2. Trashes(f)
    BY <1>1, <2>1, TrashedStep DEF Trashes
  <2> QED BY <2>2
<1>7. CASE UNCHANGED <<files, versions>>
  BY <1>2, <1>7
<1>8. ASSUME NEW w \in Workers, Unlink(w) \/ Abort(w)
      PROVE  UNCHANGED <<files, versions>>
  BY <1>8 DEF Unlink, Abort
<1>9. ASSUME NEW w \in Workers, NEW o \in Users, NEW n \in Names, NEW h \in Hashes,
             UploadRead(w, o, n, h) \/ FromHashRead(w, o, n, h)
      PROVE  UNCHANGED <<files, versions>>
  BY <1>9 DEF UploadRead, FromHashRead
<1>10. ASSUME NEW w \in Workers, NEW f \in Ids,
              PurgeRead(w, f) \/ \E o \in Users : CopyRead(w, f, o)
       PROVE  UNCHANGED <<files, versions>>
  BY <1>10 DEF PurgeRead, CopyRead
<1>11. Crash \/ UNCHANGED vars => UNCHANGED <<files, versions>>
  BY DEF Crash, vars
<1> QED BY <1>3, <1>4, <1>5, <1>6, <1>7, <1>8, <1>9, <1>10, <1>11 DEF Next

LEMMA PromiseStep ==
  ASSUME PromiseInv, PromiseInv', [Next]_vars
  PROVE  [Promise!Next]_<<Seen, Intact({"stalePurge", "staleTarget", "staleDonor"})>>
<1>1. CASE ~Unraced'
  BY <1>1 DEF Unraced, Promise!Next, Promise!Damage
<1>2. CASE Unraced'
  <2>1. Unraced
    BY <1>2, LostGrows DEF Unraced, Intact
  <2>2. Readable /\ Readable'
    BY <1>2, <2>1 DEF PromiseInv, ReadInv, RowsReadable, Readable, Unraced
  <2>3. (Seen = Told) /\ (Seen = Told)'
    BY <2>2, SeenIsTold, PTL
  <2>4. ASSUME NEW f \in Ids, Creates(f)
        PROVE  \E o \in Users, t \in Hashes : Promise!Create(f, o, t)
    <3>1. PICK o \in Users, t \in Hashes : Told' = Created(Told, f, o, t)
      BY <2>4 DEF Creates
    <3>2. f \notin DOMAIN Seen /\ Seen' = Created(Seen, f, o, t)
      BY <2>3, <2>4, <3>1 DEF Creates
    <3>3. Promise!Create(f, o, t)
      BY <3>2 DEF Promise!Create, Created
    <3> QED BY <3>3
  <2>5. ASSUME NEW f \in Ids, Replaces(f) PROVE \E t \in Hashes : Promise!Replace(f, t)
    <3>1. PICK t \in Hashes : \E kept \in SUBSET Seen[f].past :
            \E n \in {1} \cup {v.no + 1 : v \in Seen[f].past} :
              /\ \A v \in Seen[f].past : v.no < n
              /\ Seen' = Replaced(Seen, f, t, kept, n)
      BY <2>3, <2>5 DEF Replaces
    <3>2. f \in DOMAIN Seen /\ ~Seen[f].trashed
      BY <2>3, <2>5 DEF Replaces
    <3>3. Promise!Replace(f, t)
      BY <3>1, <3>2 DEF Promise!Replace, Replaced
    <3> QED BY <3>3
  <2>6. ASSUME NEW f \in Ids, Trashes(f)
        PROVE  Promise!SetTrashed(f, TRUE) \/ Promise!SetTrashed(f, FALSE)
    <3>1. PICK b \in BOOLEAN : Seen[f].trashed # b /\ Seen' = Trashed(Seen, f, b)
      BY <2>3, <2>6 DEF Trashes
    <3>2. f \in DOMAIN Seen
      BY <2>3, <2>6 DEF Trashes
    <3>3. Promise!SetTrashed(f, b)
      BY <3>1, <3>2 DEF Promise!SetTrashed, Trashed
    <3> QED BY <3>3
  <2>7. ASSUME NEW f \in Ids, Forgets(f) PROVE Promise!Forget(f)
    <3>1. f \in DOMAIN Seen /\ Seen[f].trashed /\ Seen' = Without(Seen, f)
      BY <2>3, <2>7 DEF Forgets
    <3> QED BY <3>1 DEF Promise!Forget, Without
  <2>8. \/ Seen' = Seen
        \/ \E f \in Ids :
             \/ \E o \in Users, t \in Hashes : Promise!Create(f, o, t)
             \/ \E t \in Hashes : Promise!Replace(f, t)
             \/ Promise!SetTrashed(f, TRUE) \/ Promise!SetTrashed(f, FALSE)
             \/ Promise!Forget(f)
    BY <1>2, <2>3, <2>4, <2>5, <2>6, <2>7, StepsTold
  <2>9. Intact({"stalePurge", "staleTarget", "staleDonor"})
        /\ Intact({"stalePurge", "staleTarget", "staleDonor"})'
    BY <1>2, <2>1 DEF Unraced
  <2> QED BY <2>8, <2>9 DEF Promise!Next, Promise!Keep, Intact
<1> QED BY <1>1, <1>2

\* Sharing blobs is invisible.  Every behaviour of the blob store is one of FileStore,
\* where a file's text and its past versions change by operations on that file only:
\* no upload, copy, prune, purge, removal or crash changes what another file or version
\* reads, until a commit acts on a snapshot that another overtook.
THEOREM PromiseKept == Spec => ImplementsFileStore
<1>1. Init => PromiseInv
  BY InitRead, InitRows DEF PromiseInv
<1>2. Init => Promise!Init
  BY DEF Init, Promise!Init, Seen, Intact
<1>3. PromiseInv /\ [Next]_vars => PromiseInv'
  BY NextRead, NextRows DEF PromiseInv
<1>4. PromiseInv /\ PromiseInv' /\ [Next]_vars
        => [Promise!Next]_<<Seen, Intact({"stalePurge", "staleTarget", "staleDonor"})>>
  BY PromiseStep
<1> QED BY <1>1, <1>2, <1>3, <1>4, PTL DEF Spec, ImplementsFileStore, Promise!Spec
================================================================================
