------------------------------ MODULE TrashProofs ------------------------------
(***************************************************************************)
(* Proofs about Trash, for any tree of folders and any number of           *)
(* concurrent requests: types; used_bytes is neither too small nor too     *)
(* large, nothing live is hidden in a trashed folder, and purges remove    *)
(* files of the trash only, except for the causes that Kinds names.        *)
(***************************************************************************)
EXTENDS Trash, TLAPS, FunctionTheorems, FiniteSetTheorems

(***************************************************************************)
(* Sums of sizes.                                                          *)
(***************************************************************************)
Cells(S) == UNION {{f} \X (1 .. Size[f]) : f \in S}

LEMMA OneFile ==
  ASSUME NEW f, NEW n \in Nat
  PROVE  /\ IsFiniteSet({f} \X (1 .. n))
         /\ Cardinality({f} \X (1 .. n)) = n
<1>1. IsFiniteSet({f}) /\ Cardinality({f}) = 1
  BY FS_Singleton, Zenon
<1>2. 1 \in Int /\ n \in Int
  OBVIOUS
<1>3. IsFiniteSet(1 .. n) /\ Cardinality(1 .. n) = IF 1 > n THEN 0 ELSE n - 1 + 1
  BY <1>2, FS_Interval, Zenon
<1>4. Cardinality(1 .. n) = n
  BY <1>3
<1>5. /\ IsFiniteSet({f} \X (1 .. n))
      /\ Cardinality({f} \X (1 .. n)) = Cardinality({f}) * Cardinality(1 .. n)
  BY <1>1, <1>3, FS_Product, Zenon
<1>6. Cardinality({f} \X (1 .. n)) = 1 * n
  BY <1>1, <1>4, <1>5
<1> QED BY <1>5, <1>6

LEMMA CellsFinite ==
  ASSUME NEW S \in SUBSET Ids
  PROVE  IsFiniteSet(Cells(S))
<1> DEFINE T == {{f} \X (1 .. Size[f]) : f \in S}
           g == [f \in S |-> {f} \X (1 .. Size[f])]
<1>1. IsFiniteSet(S)
  <2>1. IsFiniteSet(Ids)
    BY FS_Interval, TrashAssumption DEF Ids
  <2> QED BY <2>1, FS_Subset
<1>2. g \in Surjection(S, T)
  BY DEF Surjection
<1>3. IsFiniteSet(T)
  BY <1>1, <1>2, FS_Surjection
<1>4. \A f \in S : IsFiniteSet({f} \X (1 .. Size[f]))
  BY OneFile, TrashAssumption
<1>5. \A X \in T : IsFiniteSet(X)
  BY <1>4
<1> QED BY <1>3, <1>5, FS_UNION DEF Cells

LEMMA BytesType ==
  ASSUME NEW S \in SUBSET Ids
  PROVE  Bytes(S) \in Nat
BY CellsFinite, FS_CardinalityType DEF Bytes, Cells

LEMMA BytesOne ==
  ASSUME NEW f \in Ids
  PROVE  Bytes({f}) = Size[f] /\ Size[f] \in Nat
<1>1. Size[f] \in Nat
  BY TrashAssumption
<1>2. UNION {{e} \X (1 .. Size[e]) : e \in {f}} = {f} \X (1 .. Size[f])
  OBVIOUS
<1>3. Bytes({f}) = Cardinality({f} \X (1 .. Size[f]))
  BY <1>2 DEF Bytes
<1> QED BY <1>1, <1>3, OneFile

LEMMA BytesUnion ==
  ASSUME NEW S \in SUBSET Ids, NEW T \in SUBSET Ids
  PROVE  /\ Bytes(S \cup T) <= Bytes(S) + Bytes(T)
         /\ S \cap T = {} => Bytes(S \cup T) = Bytes(S) + Bytes(T)
<1>1. Cells(S \cup T) = Cells(S) \cup Cells(T)
  BY DEF Cells
<1>2. IsFiniteSet(Cells(S)) /\ IsFiniteSet(Cells(T))
  BY CellsFinite
<1>3. Cardinality(Cells(S) \cup Cells(T))
        = Cardinality(Cells(S)) + Cardinality(Cells(T)) - Cardinality(Cells(S) \cap Cells(T))
  BY <1>2, FS_Union
<1>4. Cells(S) \cap Cells(T) \in SUBSET Cells(S)
  OBVIOUS
<1>5. Cardinality(Cells(S) \cap Cells(T)) \in Nat
  BY <1>2, <1>4, FS_Subset, FS_CardinalityType
<1>6. S \cap T = {} => Cells(S) \cap Cells(T) = {}
  BY DEF Cells
<1>7. Cardinality({}) = 0
  BY FS_EmptySet
<1>8. Cardinality(Cells(S)) \in Nat /\ Cardinality(Cells(T)) \in Nat
  BY <1>2, FS_CardinalityType
<1>9. /\ Bytes(S) = Cardinality(Cells(S)) /\ Bytes(T) = Cardinality(Cells(T))
      /\ Bytes(S \cup T) = Cardinality(Cells(S \cup T))
  BY DEF Bytes, Cells
<1> QED BY <1>1, <1>3, <1>5, <1>6, <1>7, <1>8, <1>9

LEMMA BytesMinus ==
  ASSUME NEW S \in SUBSET Ids, NEW T \in SUBSET Ids
  PROVE  /\ Bytes(S) <= Bytes(S \ T) + Bytes(T)
         /\ T \subseteq S => Bytes(S) = Bytes(S \ T) + Bytes(T)
         /\ Bytes(S) <= Bytes(S \cup T)
<1>1. /\ S \ T \in SUBSET Ids /\ T \ S \in SUBSET Ids
      /\ (S \ T) \cap T = {} /\ S \cap (T \ S) = {} /\ S \cup (T \ S) = S \cup T
  OBVIOUS
<1>2. Bytes((S \ T) \cup T) = Bytes(S \ T) + Bytes(T)
  BY <1>1, BytesUnion
<1>3. (S \ T) \cup T = S \cup T
  OBVIOUS
<1>4. Bytes(S \cup T) = Bytes(S) + Bytes(T \ S)
  BY <1>1, BytesUnion
<1>5. Bytes(T \ S) \in Nat /\ Bytes(S) \in Nat
  BY <1>1, BytesType
<1>6. T \subseteq S => S \cup T = S
  OBVIOUS
<1> QED BY <1>2, <1>3, <1>4, <1>5, <1>6

(***************************************************************************)
(* Type correctness.                                                       *)
(***************************************************************************)
LEMMA ReserveType ==
  ASSUME TypeOK, NEW n \in Nat, Reserve(n)
  PROVE  used' \in 0 .. Quota
BY TrashAssumption DEF TypeOK, Reserve

LEMMA ReleaseType ==
  ASSUME TypeOK, NEW n \in Nat, Release(n)
  PROVE  used' \in 0 .. Quota
BY TrashAssumption DEF TypeOK, Release

LEMMA ReadsType ==
  ASSUME TypeOK, NEW w \in Workers, NEW r \in Request, Reads(w, r)
  PROVE  TypeOK'
BY DEF TypeOK, Reads, tables, Files

LEMMA FinishType ==
  ASSUME TypeOK, NEW w \in Workers, Finish(w)
  PROVE  req' \in [Workers -> Request]
BY DEF TypeOK, Finish, Request

\* What a pending folder request has read.
LEMMA SeenType ==
  ASSUME TypeOK, NEW w \in Workers, req[w].op \in {"trashAll", "restoreAll", "purgeAll"}
  PROVE  /\ req[w].folder \in Folders
         /\ req[w].seen \in SUBSET Ids
         /\ Bytes(req[w].seen) \in Nat
<1>1. req[w] \in FolderReq
  BY DEF TypeOK, Request, Idle, UploadReq, FileReq, FolderReq
<1>2. req[w].folder \in Folders /\ req[w].seen \in SUBSET Ids
  BY <1>1 DEF FolderReq
<1> QED BY <1>2, BytesType

LEMMA FileReqType ==
  ASSUME TypeOK, NEW w \in Workers, req[w].op \in {"return", "rollback", "purge"}
  PROVE  req[w].file \in Ids
BY DEF TypeOK, Request, Idle, UploadReq, FileReq, FolderReq

LEMMA DropType ==
  ASSUME TypeOK, NEW G, Drop(G)
  PROVE  /\ Files' = Files \ G
         /\ Files' \subseteq Ids
         /\ at' \in [Files' -> Folders \cup {Top}]
         /\ trash' \subseteq Files' /\ logged' \subseteq Files' /\ kept' \subseteq trash'
<1>1. Files' = Files \ G
  BY DEF Drop, Files
<1>2. at' \in [Files \ G -> Folders \cup {Top}]
  BY DEF TypeOK, Drop, Files
<1> QED BY <1>1, <1>2 DEF TypeOK, Drop

LEMMA TypeStep == TypeOK /\ [Next]_vars => TypeOK'
<1> SUFFICES ASSUME TypeOK, [Next]_vars PROVE TypeOK'
  OBVIOUS
<1>1. ASSUME UNCHANGED vars PROVE TypeOK'
  BY <1>1 DEF vars, TypeOK, Files
<1>2. ASSUME NEW f \in Files, DeleteFile(f) PROVE TypeOK'
  <2>1. Size[f] \in Nat
    BY BytesOne DEF TypeOK
  <2>2. used' \in 0 .. Quota
    BY <1>2, <2>1, ReleaseType DEF DeleteFile
  <2> QED BY <1>2, <2>2 DEF DeleteFile, TypeOK, Files, LiveFiles
<1>3. ASSUME NEW f \in Files, BatchDelete(f) PROVE TypeOK'
  BY <1>3 DEF BatchDelete, TypeOK, Files, LiveFiles
<1>4. ASSUME NEW f \in Files, RestoreFile(f) PROVE TypeOK'
  <2>1. Size[f] \in Nat
    BY BytesOne DEF TypeOK
  <2>2. used' \in 0 .. Quota
    BY <1>4, <2>1, ReserveType DEF RestoreFile
  <2> QED BY <1>4, <2>2 DEF RestoreFile, Return, Note, When, Kinds, TypeOK, Files
<1>5. ASSUME NEW d \in Folders, NEW F \in SUBSET Files, Sweep(d, F) PROVE TypeOK'
  BY <1>5 DEF Sweep, TypeOK, Files, LiveFiles
<1>6. ASSUME NEW w \in Workers, NEW d \in there \cup {Top}, UploadRead(w, d) PROVE TypeOK'
  <2>1. [op |-> "upload", to |-> d] \in Request
    BY DEF TypeOK, Request, UploadReq
  <2> QED BY <1>6, <2>1, ReadsType DEF UploadRead
<1>7. ASSUME NEW w \in Workers, UploadCommit(w) PROVE TypeOK'
  <2>1. nextId \in Ids /\ Size[nextId] \in Nat
    BY <1>7, BytesOne, TrashAssumption DEF UploadCommit, TypeOK, Ids
  <2>2. used' \in 0 .. Quota
    BY <1>7, <2>1, ReserveType DEF UploadCommit
  <2>3. req' \in [Workers -> Request]
    BY <1>7, FinishType DEF UploadCommit
  <2>4. PICK d \in Folders \cup {Top} :
          at' = [f \in Files \cup {nextId} |-> IF f = nextId THEN d ELSE at[f]]
    BY <1>7 DEF UploadCommit, TypeOK
  <2>5. Files' = Files \cup {nextId}
    BY <2>4 DEF Files
  <2>6. at' \in [Files' -> Folders \cup {Top}]
    BY <2>4, <2>5 DEF TypeOK, Files
  <2>7. nextId' \in 1 .. MaxId + 1
    BY <1>7, TrashAssumption DEF UploadCommit, TypeOK
  <2>8. lost' \subseteq Kinds
    BY <1>7 DEF UploadCommit, Note, When, Kinds, TypeOK
  <2>9. UNCHANGED <<trash, there, binned, logged, kept>>
    BY <1>7 DEF UploadCommit
  <2> QED BY <2>1, <2>2, <2>3, <2>5, <2>6, <2>7, <2>8, <2>9 DEF TypeOK
<1>8. ASSUME NEW w \in Workers, NEW f \in Files,
             ReturnRead(w, f) \/ RollbackRead(w, f) \/ PurgeRead(w, f)
      PROVE  TypeOK'
  <2>1. \A o \in {"return", "rollback", "purge"} : [op |-> o, file |-> f] \in Request
    BY DEF TypeOK, Request, FileReq
  <2> QED BY <1>8, <2>1, ReadsType DEF ReturnRead, RollbackRead, PurgeRead
<1>9. ASSUME NEW w \in Workers, ReturnCommit(w) PROVE TypeOK'
  <2>1. req' \in [Workers -> Request]
    BY <1>9, FinishType DEF ReturnCommit
  <2>2. lost' \subseteq Kinds
    BY <1>9 DEF ReturnCommit, Note, When, Kinds, TypeOK
  <2>3. trash' \subseteq trash /\ kept' \subseteq trash' /\ logged' \subseteq logged
    BY <1>9 DEF ReturnCommit, Return, TypeOK
  <2> QED BY <1>9, <2>1, <2>2, <2>3 DEF ReturnCommit, TypeOK, Files
<1>10. ASSUME NEW w \in Workers, PurgeCommit(w) PROVE TypeOK'
  <2>1. req[w].file \in Ids /\ Size[req[w].file] \in Nat
    BY <1>10, FileReqType, BytesOne DEF PurgeCommit
  <2>2. used' \in 0 .. Quota
    BY <1>10, <2>1, ReleaseType DEF PurgeCommit
  <2>3. req' \in [Workers -> Request]
    BY <1>10, FinishType DEF PurgeCommit
  <2>4. lost' \subseteq Kinds
    BY <1>10 DEF PurgeCommit, Note, When, Kinds, TypeOK
  <2>5. Drop({req[w].file} \cap trash)
    BY <1>10 DEF PurgeCommit
  <2> QED BY <1>10, <2>2, <2>3, <2>4, <2>5, DropType DEF PurgeCommit, TypeOK
<1>11. ASSUME NEW w \in Workers, NEW d \in Folders,
              TrashAllRead(w, d) \/ RestoreAllRead(w, d) \/ PurgeAllRead(w, d)
       PROVE  TypeOK'
  <2>1. \A o \in {"trashAll", "restoreAll", "purgeAll"}, S \in SUBSET Ids :
          [op |-> o, folder |-> d, seen |-> S] \in Request
    BY DEF Request, FolderReq
  <2>2. In(d) \in SUBSET Ids /\ In(d) \ trash \in SUBSET Ids /\ In(d) \cap trash \in SUBSET Ids
    BY DEF In, TypeOK
  <2> QED BY <1>11, <2>1, <2>2, ReadsType DEF TrashAllRead, RestoreAllRead, PurgeAllRead
<1>12. ASSUME NEW w \in Workers, TrashAllCommit(w) PROVE TypeOK'
  <2>1. Bytes(req[w].seen) \in Nat
    BY <1>12, SeenType DEF TrashAllCommit
  <2>2. used' \in 0 .. Quota
    BY <1>12, <2>1, ReleaseType DEF TrashAllCommit
  <2>3. req' \in [Workers -> Request]
    BY <1>12, FinishType DEF TrashAllCommit
  <2>4. lost' \subseteq Kinds
    BY <1>12 DEF TrashAllCommit, Note, When, Kinds, TypeOK
  <2>5. binned' \subseteq there /\ trash \subseteq trash' /\ trash' \subseteq Files
    BY <1>12 DEF TrashAllCommit, TypeOK, In
  <2>6. UNCHANGED <<at, there, logged, nextId, kept>>
    BY <1>12 DEF TrashAllCommit
  <2> QED BY <2>2, <2>3, <2>4, <2>5, <2>6 DEF TypeOK, Files
<1>13. ASSUME NEW w \in Workers, RestoreAllCommit(w) PROVE TypeOK'
  <2>1. Bytes(req[w].seen) \in Nat
    BY <1>13, SeenType DEF RestoreAllCommit
  <2>2. used' \in 0 .. Quota
    BY <1>13, <2>1, ReserveType DEF RestoreAllCommit
  <2>3. req' \in [Workers -> Request]
    BY <1>13, FinishType DEF RestoreAllCommit
  <2>4. lost' \subseteq Kinds
    BY <1>13 DEF RestoreAllCommit, Note, When, Kinds, TypeOK
  <2>5. binned' \subseteq there /\ trash' \subseteq trash /\ kept' \subseteq trash'
    BY <1>13 DEF RestoreAllCommit, TypeOK, Return
  <2>6. UNCHANGED <<at, there, logged, nextId>>
    BY <1>13 DEF RestoreAllCommit
  <2> QED BY <2>2, <2>3, <2>4, <2>5, <2>6 DEF TypeOK, Files
<1>14. ASSUME NEW w \in Workers, PurgeAllCommit(w) PROVE TypeOK'
  <2>1. Bytes(req[w].seen) \in Nat
    BY <1>14, SeenType DEF PurgeAllCommit
  <2>2. used' \in 0 .. Quota
    BY <1>14, <2>1, ReleaseType DEF PurgeAllCommit
  <2>3. req' \in [Workers -> Request]
    BY <1>14, FinishType DEF PurgeAllCommit
  <2>4. lost' \subseteq Kinds
    BY <1>14 DEF PurgeAllCommit, Note, When, Kinds, TypeOK
  <2>5. Drop(In(req[w].folder)) /\ there' \subseteq Folders /\ binned' \subseteq there'
    BY <1>14 DEF PurgeAllCommit, TypeOK
  <2> QED BY <1>14, <2>2, <2>3, <2>4, <2>5, DropType DEF PurgeAllCommit, TypeOK
<1>15. ASSUME NEW w \in Workers, Abort(w) PROVE TypeOK'
  BY <1>15, FinishType DEF Abort, tables, TypeOK, Files
<1> QED BY <1>1, <1>2, <1>3, <1>4, <1>5, <1>6, <1>7, <1>8, <1>9, <1>10, <1>11, <1>12, <1>13,
           <1>14, <1>15 DEF Next

LEMMA TypeInit == Init => TypeOK
BY TrashAssumption DEF Init, TypeOK, Files, Request

\* Every table and request keeps its type and used_bytes stays within the quota, in
\* every interleaving of any number of requests.
THEOREM TypeCorrect == Spec => []TypeOK
BY TypeInit, TypeStep, PTL DEF Spec

(***************************************************************************)
(* The balance of used_bytes.  What a step does to it is one of three      *)
(* things: it reserves the bytes of files that are owed from then on, it   *)
(* releases those of files that no longer are, or it leaves both alone.    *)
(* Anything else is one of the kinds that lost records.                    *)
(***************************************************************************)
Fresh   == \A f \in Files : f < nextId
Balance == NeverUndercharged /\ NeverOvercharged
Books   == TypeOK /\ Fresh /\ Balance

LEMMA OwedType ==
  ASSUME TypeOK
  PROVE  Owed \in SUBSET Ids /\ Bytes(Owed) \in Nat /\ used \in Nat
<1>1. Owed \in SUBSET Ids
  BY DEF TypeOK, Owed, LiveFiles
<1> QED BY <1>1, BytesType, TrashAssumption DEF TypeOK

LEMMA BytesOfOwed == Bytes(Owed)' = Bytes(Owed')
BY DEF Bytes

LEMMA Unclaimed ==
  ASSUME "stale" \in lost'
  PROVE  Balance'
BY DEF Balance, NeverUndercharged, NeverOvercharged, Never

LEMMA Same ==
  ASSUME Balance, lost \subseteq lost', used' = used, Owed' = Owed
  PROVE  Balance'
<1>1. Bytes(Owed)' = Bytes(Owed)
  BY BytesOfOwed
<1> QED BY <1>1 DEF Balance, NeverUndercharged, NeverOvercharged, Never

LEMMA Add ==
  ASSUME TypeOK, Balance, lost \subseteq lost', NEW S \in SUBSET Ids,
         Reserve(Bytes(S)), Owed' = Owed \cup S,
         "twice" \in lost' \/ S \cap Owed = {}
  PROVE  Balance'
<1>1. Bytes(Owed)' = Bytes(Owed \cup S)
  BY BytesOfOwed
<1>2. /\ Bytes(Owed \cup S) <= Bytes(Owed) + Bytes(S)
      /\ S \cap Owed = {} => Bytes(Owed \cup S) = Bytes(Owed) + Bytes(S)
  BY OwedType, BytesUnion
<1>3. Bytes(Owed \cup S) \in Nat /\ Bytes(Owed) \in Nat /\ Bytes(S) \in Nat /\ used \in Nat
  BY OwedType, BytesType
<1>4. used' = used + Bytes(S)
  BY DEF Reserve
<1>5. NeverUndercharged'
  <2> SUFFICES ASSUME Never({"again", "free", "stale"})' PROVE used' >= Bytes(Owed)'
    BY DEF NeverUndercharged
  <2>1. Never({"again", "free", "stale"})
    BY DEF Never
  <2>2. used >= Bytes(Owed)
    BY <2>1 DEF Balance, NeverUndercharged
  <2> QED BY <1>1, <1>2, <1>3, <1>4, <2>2
<1>6. NeverOvercharged'
  <2> SUFFICES ASSUME Never({"twice", "stale"})' PROVE used' <= Bytes(Owed)'
    BY DEF NeverOvercharged
  <2>1. Never({"twice", "stale"}) /\ "twice" \notin lost'
    BY DEF Never
  <2>2. used <= Bytes(Owed)
    BY <2>1 DEF Balance, NeverOvercharged
  <2> QED BY <1>1, <1>2, <1>3, <1>4, <2>1, <2>2
<1> QED BY <1>5, <1>6 DEF Balance

LEMMA Take ==
  ASSUME TypeOK, Balance, lost \subseteq lost', NEW S \in SUBSET Ids,
         Release(Bytes(S)), Owed' = Owed \ S,
         "again" \in lost' \/ S \subseteq Owed
  PROVE  Balance'
<1>1. Bytes(Owed)' = Bytes(Owed \ S)
  BY BytesOfOwed
<1>2. /\ Bytes(Owed) <= Bytes(Owed \ S) + Bytes(S)
      /\ S \subseteq Owed => Bytes(Owed) = Bytes(Owed \ S) + Bytes(S)
  BY OwedType, BytesMinus
<1>3. Bytes(Owed \ S) \in Nat /\ Bytes(Owed) \in Nat /\ Bytes(S) \in Nat /\ used \in Nat
  <2>1. Owed \ S \in SUBSET Ids
    BY OwedType
  <2> QED BY <2>1, OwedType, BytesType
<1>4. used' = IF used > Bytes(S) THEN used - Bytes(S) ELSE 0
  BY DEF Release
<1>5. NeverUndercharged'
  <2> SUFFICES ASSUME Never({"again", "free", "stale"})' PROVE used' >= Bytes(Owed)'
    BY DEF NeverUndercharged
  <2>1. Never({"again", "free", "stale"}) /\ "again" \notin lost'
    BY DEF Never
  <2>2. used >= Bytes(Owed)
    BY <2>1 DEF Balance, NeverUndercharged
  <2> QED BY <1>1, <1>2, <1>3, <1>4, <2>1, <2>2
<1>6. NeverOvercharged'
  <2> SUFFICES ASSUME Never({"twice", "stale"})' PROVE used' <= Bytes(Owed)'
    BY DEF NeverOvercharged
  <2>1. Never({"twice", "stale"})
    BY DEF Never
  <2>2. used <= Bytes(Owed)
    BY <2>1 DEF Balance, NeverOvercharged
  <2> QED BY <1>1, <1>2, <1>3, <1>4, <2>2
<1> QED BY <1>5, <1>6 DEF Balance

LEMMA FreshStep == Books /\ [Next]_vars => Fresh'
<1> SUFFICES ASSUME Books, [Next]_vars PROVE Fresh'
  OBVIOUS
<1>1. \A f \in Files : f \in Int /\ nextId \in Int
  BY TrashAssumption DEF Books, TypeOK, Ids
<1>2. ASSUME NEW w \in Workers, UploadCommit(w) PROVE Fresh'
  <2>1. Files' = Files \cup {nextId} /\ nextId' = nextId + 1
    BY <1>2 DEF UploadCommit, Files
  <2> QED BY <1>1, <2>1 DEF Books, TypeOK, Fresh, Ids
<1>3. ASSUME Files' \subseteq Files, nextId' = nextId PROVE Fresh'
  BY <1>3 DEF Books, Fresh
<1>4. ASSUME NEW G, Drop(G), nextId' = nextId PROVE Fresh'
  BY <1>3, <1>4, DropType DEF Books
<1>5. ASSUME at' = at, nextId' = nextId PROVE Fresh'
  BY <1>3, <1>5 DEF Files
<1>6. ASSUME NEW w \in Workers, PurgeCommit(w) \/ PurgeAllCommit(w) PROVE Fresh'
  BY <1>4, <1>6 DEF PurgeCommit, PurgeAllCommit
<1>7. UNCHANGED tables => Fresh'
  BY <1>5 DEF tables
<1>8. UNCHANGED vars => Fresh'
  BY <1>5 DEF vars
<1>9. ASSUME NEW w \in Workers, Abort(w) \/ (\E r : Reads(w, r)) PROVE Fresh'
  BY <1>7, <1>9 DEF Abort, Reads
<1>10. ASSUME NEW w \in Workers,
              ReturnCommit(w) \/ TrashAllCommit(w) \/ RestoreAllCommit(w)
       PROVE  Fresh'
  BY <1>5, <1>10 DEF ReturnCommit, TrashAllCommit, RestoreAllCommit
<1>11. ASSUME NEW f \in Files, DeleteFile(f) \/ BatchDelete(f) \/ RestoreFile(f) PROVE Fresh'
  BY <1>5, <1>11 DEF DeleteFile, BatchDelete, RestoreFile
<1>12. ASSUME NEW d \in Folders, NEW F \in SUBSET Files, Sweep(d, F) PROVE Fresh'
  BY <1>5, <1>12 DEF Sweep
<1>13. ASSUME NEW w \in Workers, NEW d \in there \cup {Top}, UploadRead(w, d) PROVE Fresh'
  BY <1>9, <1>13 DEF UploadRead
<1>14. ASSUME NEW w \in Workers, NEW f \in Files,
              ReturnRead(w, f) \/ RollbackRead(w, f) \/ PurgeRead(w, f)
       PROVE  Fresh'
  BY <1>9, <1>14 DEF ReturnRead, RollbackRead, PurgeRead
<1>15. ASSUME NEW w \in Workers, NEW d \in Folders,
              TrashAllRead(w, d) \/ RestoreAllRead(w, d) \/ PurgeAllRead(w, d)
       PROVE  Fresh'
  BY <1>9, <1>15 DEF TrashAllRead, RestoreAllRead, PurgeAllRead
<1> QED BY <1>2, <1>6, <1>8, <1>9, <1>10, <1>11, <1>12, <1>13, <1>14, <1>15 DEF Next

LEMMA BalanceStep == Books /\ [Next]_vars => Balance'
<1> SUFFICES ASSUME Books, [Next]_vars PROVE Balance'
  OBVIOUS
<1> USE DEF Books
<1>1. ASSUME UNCHANGED <<at, trash, kept, used, lost>> PROVE Balance'
  BY <1>1, Same DEF Owed, LiveFiles, Files
<1>2. ASSUME NEW f \in Files, DeleteFile(f) PROVE Balance'
  <2>1. f \in Ids /\ Release(Bytes({f}))
    BY <1>2, BytesOne DEF DeleteFile, TypeOK
  <2>2. {f} \subseteq Owed /\ Owed' = Owed \ {f}
    BY <1>2 DEF DeleteFile, Owed, LiveFiles, Files, TypeOK
  <2> QED BY <1>2, <2>1, <2>2, Take DEF DeleteFile
<1>3. ASSUME NEW f \in Files, BatchDelete(f) PROVE Balance'
  <2>1. Owed' = Owed
    BY <1>3 DEF BatchDelete, Owed, LiveFiles, Files
  <2> QED BY <1>3, <2>1, Same DEF BatchDelete
<1>4. ASSUME NEW f \in Files, RestoreFile(f) PROVE Balance'
  <2>1. f \in Ids /\ Reserve(Bytes({f}))
    BY <1>4, BytesOne DEF RestoreFile, TypeOK
  <2>2. Owed' = Owed \cup {f}
    BY <1>4 DEF RestoreFile, Return, Owed, LiveFiles, Files, TypeOK
  <2>3. f \notin kept => {f} \cap Owed = {}
    BY <1>4 DEF RestoreFile, Owed, LiveFiles
  <2>4. lost \subseteq lost' /\ (f \in kept => "twice" \in lost')
    BY <1>4 DEF RestoreFile, Note, When
  <2> QED BY <2>1, <2>2, <2>3, <2>4, Add
<1>5. ASSUME NEW d \in Folders, NEW F \in SUBSET Files, Sweep(d, F) PROVE Balance'
  <2>1. Owed' = Owed
    BY <1>5 DEF Sweep, Owed, LiveFiles, Files
  <2> QED BY <1>5, <2>1, Same DEF Sweep
<1>6. ASSUME NEW w \in Workers, UploadCommit(w) PROVE Balance'
  <2>1. nextId \in Ids /\ Reserve(Bytes({nextId}))
    BY <1>6, BytesOne, TrashAssumption DEF UploadCommit, TypeOK, Ids
  <2>2. nextId \notin Files
    BY <2>1 DEF Fresh, Ids
  <2>3. Files' = Files \cup {nextId} /\ UNCHANGED <<trash, kept>>
    BY <1>6 DEF UploadCommit, Files
  <2>4. Owed' = Owed \cup {nextId} /\ {nextId} \cap Owed = {}
    BY <2>2, <2>3 DEF Owed, LiveFiles, TypeOK
  <2>5. lost \subseteq lost'
    BY <1>6 DEF UploadCommit, Note
  <2> QED BY <2>1, <2>4, <2>5, Add
<1>7. ASSUME NEW w \in Workers, ReturnCommit(w) PROVE Balance'
  <2> DEFINE f == req[w].file
  <2>1. f \in trash /\ f \in Ids
    BY <1>7, FileReqType DEF ReturnCommit, TypeOK
  <2>2. Owed' = Owed \cup {f}
    BY <1>7, <2>1 DEF ReturnCommit, Return, Owed, LiveFiles, Files, TypeOK
  <2>3. lost \subseteq lost' /\ (f \notin kept => "free" \in lost') /\ used' = used
    BY <1>7 DEF ReturnCommit, Note, When
  <2>4. CASE f \in kept
    <3>1. Owed' = Owed
      BY <2>2, <2>4 DEF Owed
    <3> QED BY <2>3, <3>1, Same
  <2>5. CASE f \notin kept
    <3>1. Bytes(Owed)' >= Bytes(Owed)
      BY <2>1, <2>2, OwedType, BytesOfOwed, BytesMinus
    <3>2. Bytes(Owed)' \in Nat /\ Bytes(Owed) \in Nat /\ used \in Nat
      BY <2>1, <2>2, OwedType, BytesOfOwed, BytesType
    <3> QED BY <2>3, <2>5, <3>1, <3>2 DEF Balance, NeverUndercharged, NeverOvercharged, Never
  <2> QED BY <2>4, <2>5
<1>8. ASSUME NEW w \in Workers, PurgeCommit(w) PROVE Balance'
  <2> DEFINE f == req[w].file
  <2>1. f \in Ids /\ Release(Bytes({f}))
    BY <1>8, FileReqType, BytesOne DEF PurgeCommit
  <2>2. CASE f \notin trash
    BY <1>8, <2>2, Unclaimed DEF PurgeCommit, Note, When
  <2>3. CASE f \in trash
    <3>1. Drop({f})
      <4>1. {f} \cap trash = {f}
        BY <2>3
      <4> QED BY <1>8, <4>1 DEF PurgeCommit
    <3>2. Owed' = Owed \ {f}
      BY <3>1, <2>3, DropType DEF Drop, Owed, LiveFiles
    <3>3. lost \subseteq lost' /\ (f \notin kept => "again" \in lost')
      BY <1>8, <2>3 DEF PurgeCommit, Note, When
    <3>4. f \in kept => {f} \subseteq Owed
      BY DEF Owed
    <3> QED BY <2>1, <3>2, <3>3, <3>4, Take
  <2> QED BY <2>2, <2>3
<1>9. ASSUME NEW w \in Workers, TrashAllCommit(w) PROVE Balance'
  <2> DEFINE S == In(req[w].folder) \ trash
  <2>1. CASE req[w].seen # S
    BY <1>9, <2>1, Unclaimed DEF TrashAllCommit, Note, When
  <2>2. CASE req[w].seen = S
    <3>1. S \in SUBSET Ids /\ S \subseteq Owed
      BY DEF In, Owed, LiveFiles, TypeOK
    <3>2. Release(Bytes(S)) /\ lost \subseteq lost'
      BY <1>9, <2>2 DEF TrashAllCommit, Note
    <3>3. Owed' = Owed \ S
      BY <1>9 DEF TrashAllCommit, Owed, LiveFiles, Files, TypeOK
    <3> QED BY <3>1, <3>2, <3>3, Take
  <2> QED BY <2>1, <2>2
<1>10. ASSUME NEW w \in Workers, RestoreAllCommit(w) PROVE Balance'
  <2> DEFINE D == In(req[w].folder)
             S == D \cap trash
  <2>1. CASE req[w].seen # S
    BY <1>10, <2>1, Unclaimed DEF RestoreAllCommit, Note, When
  <2>2. CASE req[w].seen = S
    <3>1. S \in SUBSET Ids /\ D \subseteq Files
      BY DEF In, TypeOK
    <3>2. Reserve(Bytes(S)) /\ lost \subseteq lost' /\ (D \cap kept # {} => "twice" \in lost')
      BY <1>10, <2>2 DEF RestoreAllCommit, Note, When
    <3>3. Owed' = Owed \cup S
      BY <1>10, <3>1 DEF RestoreAllCommit, Return, Owed, LiveFiles, Files, TypeOK
    <3>4. D \cap kept = {} => S \cap Owed = {}
      BY DEF Owed, LiveFiles
    <3> QED BY <3>1, <3>2, <3>3, <3>4, Add
  <2> QED BY <2>1, <2>2
<1>11. ASSUME NEW w \in Workers, PurgeAllCommit(w) PROVE Balance'
  <2> DEFINE D == In(req[w].folder)
  <2>1. CASE req[w].seen # D
    BY <1>11, <2>1, Unclaimed DEF PurgeAllCommit, Note, When
  <2>2. CASE req[w].seen = D
    <3>1. D \in SUBSET Ids
      BY DEF In, TypeOK
    <3>2. /\ Release(Bytes(D)) /\ lost \subseteq lost' /\ Drop(D)
          /\ (D \cap trash) \ kept # {} => "again" \in lost'
      BY <1>11, <2>2 DEF PurgeAllCommit, Note, When
    <3>3. Owed' = Owed \ D
      BY <3>2, DropType DEF Drop, Owed, LiveFiles
    <3>4. (D \cap trash) \ kept = {} => D \subseteq Owed
      BY DEF Owed, LiveFiles, In
    <3> QED BY <3>1, <3>2, <3>3, <3>4, Take
  <2> QED BY <2>1, <2>2
<1>12. UNCHANGED vars => Balance'
  BY <1>1 DEF vars
<1>13. ASSUME NEW w \in Workers, Abort(w) \/ (\E r : Reads(w, r)) PROVE Balance'
  BY <1>1, <1>13 DEF Abort, Reads, tables
<1>14. ASSUME NEW w \in Workers, NEW d \in there \cup {Top}, UploadRead(w, d) PROVE Balance'
  BY <1>13, <1>14 DEF UploadRead
<1>15. ASSUME NEW w \in Workers, NEW f \in Files,
              ReturnRead(w, f) \/ RollbackRead(w, f) \/ PurgeRead(w, f)
       PROVE  Balance'
  BY <1>13, <1>15 DEF ReturnRead, RollbackRead, PurgeRead
<1>16. ASSUME NEW w \in Workers, NEW d \in Folders,
              TrashAllRead(w, d) \/ RestoreAllRead(w, d) \/ PurgeAllRead(w, d)
       PROVE  Balance'
  BY <1>13, <1>16 DEF TrashAllRead, RestoreAllRead, PurgeAllRead
<1> QED BY <1>2, <1>3, <1>4, <1>5, <1>6, <1>7, <1>8, <1>9, <1>10, <1>11, <1>12, <1>13, <1>14,
           <1>15, <1>16 DEF Next

LEMMA BooksInit == Init => Books
<1> SUFFICES ASSUME Init PROVE Books
  OBVIOUS
<1>1. Files = {} /\ Owed = {}
  BY DEF Init, Files, Owed, LiveFiles
<1>2. Bytes({}) = 0
  <2>1. UNION {{f} \X (1 .. Size[f]) : f \in {}} = {}
    OBVIOUS
  <2> QED BY <2>1, FS_EmptySet DEF Bytes
<1>3. Fresh /\ Balance
  BY <1>1, <1>2 DEF Init, Fresh, Balance, NeverUndercharged, NeverOvercharged
<1> QED BY <1>3, TypeInit DEF Books

LEMMA BooksInvariant == Spec => []Books
<1>1. Books /\ [Next]_vars => Books'
  BY TypeStep, FreshStep, BalanceStep DEF Books
<1> QED BY BooksInit, <1>1, PTL DEF Spec

\* Every live file is paid for in every interleaving, until a purge releases bytes
\* again, a file comes back without its bytes, or a commit was overtaken.
THEOREM UnderchargedCorrect == Spec => []NeverUndercharged
<1>1. Books => NeverUndercharged
  BY DEF Books, Balance
<1> QED BY <1>1, BooksInvariant, PTL

\* Nothing but live files and kept bytes is charged for in any interleaving, until
\* kept bytes are reserved again or a commit was overtaken.
THEOREM OverchargedCorrect == Spec => []NeverOvercharged
<1>1. Books => NeverOvercharged
  BY DEF Books, Balance
<1> QED BY <1>1, BooksInvariant, PTL

(***************************************************************************)
(* What can be reached.  The rows of a subtree are marked and unmarked     *)
(* together, so while nothing became live inside a trashed folder, the     *)
(* trashed folders are closed downwards and hold no live file.  For what a *)
(* purge removes it is also needed that a file's folder is there (Housed). *)
(***************************************************************************)
Housed == \A f \in Files : at[f] \in there \cup {Top}
Reach  == TypeOK /\ Housed /\ NothingHidden

\* A folder that is not in the trash is below none that is.
LEMMA Outside ==
  ASSUME NEW d \in Folders, NEW e \in binned, binned \subseteq Folders,
         d \notin binned, d \in Below[e], ~Inside(d)
  PROVE  FALSE
<1>1. e \in Below[d]
  BY DEF Inside
<1> QED BY <1>1, ForestAssumption

LEMMA HousedStep == Reach /\ [Next]_vars => Housed'
<1> SUFFICES ASSUME Reach, [Next]_vars PROVE Housed'
  OBVIOUS
<1> USE DEF Reach
<1>1. ASSUME at' = at, there' = there PROVE Housed'
  BY <1>1 DEF Housed, Files
<1>2. ASSUME NEW w \in Workers, UploadCommit(w) PROVE Housed'
  <2>1. PICK d \in there \cup {Top} :
          at' = [f \in Files \cup {nextId} |-> IF f = nextId THEN d ELSE at[f]]
    BY <1>2 DEF UploadCommit
  <2>2. there' = there
    BY <1>2 DEF UploadCommit
  <2> QED BY <2>1, <2>2 DEF Housed, Files
<1>3. ASSUME NEW w \in Workers, PurgeCommit(w) PROVE Housed'
  <2>1. there' = there /\ Drop({req[w].file} \cap trash)
    BY <1>3 DEF PurgeCommit
  <2> QED BY <2>1 DEF Drop, Housed, Files
<1>4. ASSUME NEW w \in Workers, PurgeAllCommit(w) PROVE Housed'
  <2>1. there' = there \ Below[req[w].folder] /\ Drop(In(req[w].folder))
    BY <1>4 DEF PurgeAllCommit
  <2>2. Files' = Files \ In(req[w].folder) /\ \A f \in Files' : at'[f] = at[f]
    BY <2>1 DEF Drop, Files
  <2>3. \A f \in Files' : at[f] \notin Below[req[w].folder]
    BY <2>2 DEF In
  <2> QED BY <2>1, <2>2, <2>3 DEF Housed
<1>5. UNCHANGED tables => Housed'
  BY <1>1 DEF tables
<1>6. UNCHANGED vars => Housed'
  BY <1>1 DEF vars
<1>7. ASSUME NEW w \in Workers, Abort(w) \/ (\E r : Reads(w, r)) PROVE Housed'
  BY <1>5, <1>7 DEF Abort, Reads
<1>8. ASSUME NEW w \in Workers,
             ReturnCommit(w) \/ TrashAllCommit(w) \/ RestoreAllCommit(w)
      PROVE  Housed'
  BY <1>1, <1>8 DEF ReturnCommit, TrashAllCommit, RestoreAllCommit
<1>9. ASSUME NEW f \in Files, DeleteFile(f) \/ BatchDelete(f) \/ RestoreFile(f) PROVE Housed'
  BY <1>1, <1>9 DEF DeleteFile, BatchDelete, RestoreFile
<1>10. ASSUME NEW d \in Folders, NEW F \in SUBSET Files, Sweep(d, F) PROVE Housed'
  BY <1>1, <1>10 DEF Sweep
<1>11. ASSUME NEW w \in Workers, NEW d \in there \cup {Top}, UploadRead(w, d) PROVE Housed'
  BY <1>7, <1>11 DEF UploadRead
<1>12. ASSUME NEW w \in Workers, NEW f \in Files,
              ReturnRead(w, f) \/ RollbackRead(w, f) \/ PurgeRead(w, f)
       PROVE  Housed'
  BY <1>7, <1>12 DEF ReturnRead, RollbackRead, PurgeRead
<1>13. ASSUME NEW w \in Workers, NEW d \in Folders,
              TrashAllRead(w, d) \/ RestoreAllRead(w, d) \/ PurgeAllRead(w, d)
       PROVE  Housed'
  BY <1>7, <1>13 DEF TrashAllRead, RestoreAllRead, PurgeAllRead
<1> QED BY <1>2, <1>3, <1>4, <1>6, <1>7, <1>8, <1>9, <1>10, <1>11, <1>12, <1>13 DEF Next

LEMMA HiddenStep == Reach /\ [Next]_vars => NothingHidden'
<1> SUFFICES ASSUME Reach, [Next]_vars, "inside" \notin lost'
             PROVE  /\ \A f \in LiveFiles' : at'[f] \notin binned'
                    /\ \A d \in there' \ binned' : ~Inside(d)'
  BY DEF NothingHidden, Never
<1> DEFINE Goal == /\ \A f \in LiveFiles' : at'[f] \notin binned'
                   /\ \A d \in there' \ binned' : ~Inside(d)'
<1> SUFFICES Goal
  OBVIOUS
<1> USE DEF Reach
<1>p. ASSUME lost \subseteq lost'
      PROVE  /\ \A f \in LiveFiles : at[f] \notin binned
             /\ \A d \in there \ binned : ~Inside(d)
  BY <1>p DEF NothingHidden, Never
\* Fewer live files, and the same folders.
<1>1. ASSUME LiveFiles' \subseteq LiveFiles, \A f \in LiveFiles' : at'[f] = at[f],
             binned' = binned, there' = there, lost \subseteq lost'
      PROVE  Goal
  <2>1. \A d : Inside(d)' <=> Inside(d)
    BY <1>1 DEF Inside
  <2> QED BY <1>1, <1>p, <2>1
\* One more live file, and the same folders.
<1>2. ASSUME NEW f, NEW d, LiveFiles' \subseteq LiveFiles \cup {f},
             \A g \in LiveFiles' : at'[g] = IF g = f THEN d ELSE at[g],
             binned' = binned, there' = there, lost \subseteq lost', d \notin binned
      PROVE  Goal
  <2>1. \A e : Inside(e)' <=> Inside(e)
    BY <1>2 DEF Inside
  <2> QED BY <1>2, <1>p, <2>1
<1>3. ASSUME NEW f \in Files, DeleteFile(f) \/ BatchDelete(f) PROVE Goal
  <2>1. LiveFiles' \subseteq LiveFiles /\ UNCHANGED <<at, binned, there, lost>>
    BY <1>3 DEF DeleteFile, BatchDelete, LiveFiles, Files
  <2> QED BY <1>1, <2>1
<1>4. ASSUME NEW d \in Folders, NEW F \in SUBSET Files, Sweep(d, F) PROVE Goal
  <2>1. LiveFiles' \subseteq LiveFiles /\ UNCHANGED <<at, binned, there, lost>>
    BY <1>4 DEF Sweep, LiveFiles, Files
  <2> QED BY <1>1, <2>1
<1>5. ASSUME NEW f \in Files, RestoreFile(f) PROVE Goal
  <2>1. /\ LiveFiles' \subseteq LiveFiles \cup {f}
        /\ UNCHANGED <<at, binned, there>> /\ lost \subseteq lost'
    BY <1>5 DEF RestoreFile, Return, LiveFiles, Files, Note
  <2>2. at[f] \notin binned
    BY <1>5 DEF RestoreFile, Note, When
  <2>3. \A g \in LiveFiles' : at'[g] = IF g = f THEN at[f] ELSE at[g]
    BY <2>1
  <2> HIDE DEF Goal
  <2> QED BY <1>2, <2>1, <2>2, <2>3
<1>6. ASSUME NEW w \in Workers, UploadCommit(w) PROVE Goal
  <2>1. PICK d : /\ at' = [f \in Files \cup {nextId} |-> IF f = nextId THEN d ELSE at[f]]
                 /\ Note(When(d \in binned, "inside"))
    BY <1>6 DEF UploadCommit
  <2>2. UNCHANGED <<binned, there, trash>> /\ lost \subseteq lost' /\ d \notin binned
    BY <1>6, <2>1 DEF UploadCommit, Note, When
  <2>3. /\ LiveFiles' \subseteq LiveFiles \cup {nextId}
        /\ \A g \in LiveFiles' : at'[g] = IF g = nextId THEN d ELSE at[g]
    BY <2>1, <2>2 DEF LiveFiles, Files
  <2> HIDE DEF Goal
  <2> QED BY <1>2, <2>2, <2>3
<1>7. ASSUME NEW w \in Workers, ReturnCommit(w) PROVE Goal
  <2> DEFINE f == req[w].file
  <2>1. /\ LiveFiles' \subseteq LiveFiles \cup {f}
        /\ UNCHANGED <<at, binned, there>> /\ lost \subseteq lost'
    BY <1>7 DEF ReturnCommit, Return, LiveFiles, Files, Note
  <2>2. at[f] \notin binned
    BY <1>7 DEF ReturnCommit, Note, When
  <2>3. \A g \in LiveFiles' : at'[g] = IF g = f THEN at[f] ELSE at[g]
    BY <2>1
  <2> HIDE DEF Goal, f
  <2> QED BY <1>2, <2>1, <2>2, <2>3
<1>8. ASSUME NEW w \in Workers, PurgeCommit(w) PROVE Goal
  <2>1. PICK G \in SUBSET trash : Drop(G)
    BY <1>8 DEF PurgeCommit
  <2>2. LiveFiles' \subseteq LiveFiles /\ \A f \in LiveFiles' : at'[f] = at[f]
    BY <2>1 DEF Drop, LiveFiles, Files
  <2>3. UNCHANGED <<binned, there>> /\ lost \subseteq lost'
    BY <1>8 DEF PurgeCommit, Note
  <2> QED BY <1>1, <2>2, <2>3
<1>9. ASSUME NEW w \in Workers, TrashAllCommit(w) PROVE Goal
  <2> DEFINE t == req[w].folder
  <2>1. /\ t \in Folders /\ at' = at /\ there' = there /\ lost \subseteq lost'
        /\ binned' = binned \cup (Below[t] \cap there)
        /\ trash' = trash \cup In(t)
    BY <1>9, SeenType DEF TrashAllCommit, Note
  <2> HIDE DEF t
  <2>2. \A f \in LiveFiles' : at'[f] \notin binned'
    <3> SUFFICES ASSUME NEW f \in LiveFiles' PROVE at[f] \notin binned'
      BY <2>1
    <3>1. f \in LiveFiles /\ f \notin In(t) /\ f \in Files
      BY <2>1 DEF LiveFiles, Files
    <3>2. at[f] \notin Below[t]
      BY <3>1 DEF In
    <3> QED BY <2>1, <3>1, <3>2, <1>p
  <2>3. ASSUME NEW d \in there' \ binned' PROVE ~Inside(d)'
    <3>1. d \in there /\ d \notin binned /\ d \notin Below[t] /\ ~Inside(d) /\ d \in Folders
      BY <2>1, <1>p DEF TypeOK
    <3> SUFFICES ASSUME NEW e \in binned' \ Below[d], d \in Below[e] PROVE FALSE
      BY DEF Inside
    <3>2. CASE e \in binned
      BY <3>1, <3>2 DEF Inside
    <3>3. CASE e \in Below[t]
      <4>1. Below[e] \subseteq Below[t]
        BY <2>1, <3>3, TrashAssumption
      <4> QED BY <3>1, <4>1
    <3> QED BY <2>1, <3>2, <3>3
  <2> QED BY <2>2, <2>3
<1>10. ASSUME NEW w \in Workers, RestoreAllCommit(w) PROVE Goal
  <2> DEFINE t == req[w].folder
  <2>1. /\ t \in Folders /\ at' = at /\ there' = there /\ lost \subseteq lost'
        /\ binned' = binned \ Below[t]
        /\ trash' = trash \ In(t)
        /\ ~Inside(t)
    BY <1>10, SeenType DEF RestoreAllCommit, Return, Note, When
  <2> HIDE DEF t
  <2>2. \A f \in LiveFiles' : at'[f] \notin binned'
    <3> SUFFICES ASSUME NEW f \in LiveFiles' PROVE at[f] \notin binned'
      BY <2>1
    <3>1. CASE f \in LiveFiles
      BY <2>1, <3>1, <1>p
    <3>2. CASE f \notin LiveFiles
      <4>1. f \in In(t)
        BY <2>1, <3>2 DEF LiveFiles, Files
      <4> QED BY <2>1, <4>1 DEF In
    <3> QED BY <3>1, <3>2
  <2>3. ASSUME NEW d \in there' \ binned' PROVE ~Inside(d)'
    <3>1. d \in there /\ d \in Folders /\ binned \subseteq Folders
      BY <2>1 DEF TypeOK
    <3> SUFFICES ASSUME NEW e \in binned' \ Below[d], d \in Below[e] PROVE FALSE
      BY DEF Inside
    <3>2. e \in binned /\ e \notin Below[t] /\ e \notin Below[d] /\ e \in Folders
      BY <2>1, <3>1
    <3>3. CASE d \notin binned
      BY <3>1, <3>2, <3>3, <1>p, <2>1 DEF Inside
    <3>4. CASE d \in binned
      <4>1. d \in Below[t]
        BY <2>1, <3>4
      <4>2. t \in Below[e]
        BY <3>2, <4>1, <2>1, ForestAssumption
      <4> QED BY <2>1, <3>2, <4>2 DEF Inside
    <3> QED BY <3>3, <3>4
  <2> QED BY <2>2, <2>3
<1>11. ASSUME NEW w \in Workers, PurgeAllCommit(w) PROVE Goal
  <2> DEFINE t == req[w].folder
  <2>1. /\ there' = there \ Below[t] /\ lost \subseteq lost'
        /\ binned' = binned \ Below[t]
        /\ Drop(In(t))
    BY <1>11 DEF PurgeAllCommit, Note
  <2> HIDE DEF t
  <2>2. \A f \in LiveFiles' : f \in LiveFiles /\ at'[f] = at[f]
    BY <2>1 DEF Drop, LiveFiles, Files
  <2>3. ASSUME NEW d \in there' \ binned' PROVE ~Inside(d)'
    <3>1. d \in there \ binned
      BY <2>1
    <3> QED BY <2>1, <3>1, <1>p DEF Inside
  <2> QED BY <1>p, <2>1, <2>2, <2>3
<1>12. ASSUME UNCHANGED <<at, trash, binned, there, lost>> PROVE Goal
  BY <1>1, <1>12 DEF LiveFiles, Files
<1> HIDE DEF Goal
<1>13. UNCHANGED vars => Goal
  BY <1>12 DEF vars
<1>14. ASSUME NEW w \in Workers, Abort(w) \/ (\E r : Reads(w, r)) PROVE Goal
  BY <1>12, <1>14 DEF Abort, Reads, tables
<1>15. ASSUME NEW w \in Workers, NEW d \in there \cup {Top}, UploadRead(w, d) PROVE Goal
  BY <1>14, <1>15 DEF UploadRead
<1>16. ASSUME NEW w \in Workers, NEW f \in Files,
              ReturnRead(w, f) \/ RollbackRead(w, f) \/ PurgeRead(w, f)
       PROVE  Goal
  BY <1>14, <1>16 DEF ReturnRead, RollbackRead, PurgeRead
<1>17. ASSUME NEW w \in Workers, NEW d \in Folders,
              TrashAllRead(w, d) \/ RestoreAllRead(w, d) \/ PurgeAllRead(w, d)
       PROVE  Goal
  BY <1>14, <1>17 DEF TrashAllRead, RestoreAllRead, PurgeAllRead
<1> QED BY <1>3, <1>4, <1>5, <1>6, <1>7, <1>8, <1>9, <1>10, <1>11, <1>13, <1>14, <1>15,
           <1>16, <1>17 DEF Next

LEMMA ReachInvariant == Spec => []Reach
<1>1. Init => Reach
  <2>1. Init => Housed /\ NothingHidden
    BY DEF Init, Housed, NothingHidden, LiveFiles, Files, Inside
  <2> QED BY <2>1, TypeInit DEF Reach
<1>2. Reach /\ [Next]_vars => Reach'
  BY TypeStep, HousedStep, HiddenStep DEF Reach
<1> QED BY <1>1, <1>2, PTL DEF Spec

\* Nothing live is out of reach in a trashed folder, in any tree of folders and any
\* interleaving, until something becomes live inside a trashed folder.
THEOREM HiddenCorrect == Spec => []NothingHidden
<1>1. Reach => NothingHidden
  BY DEF Reach
<1> QED BY <1>1, ReachInvariant, PTL

LEMMA PurgeStep ==
  Reach /\ [Next]_vars =>
    (lost' \cap {"inside", "stale"} = {} => Files \ Files' \subseteq trash)
<1> SUFFICES ASSUME Reach, [Next]_vars, "inside" \notin lost', "stale" \notin lost'
             PROVE  Files \ Files' \subseteq trash
  OBVIOUS
<1> DEFINE Goal == Files \ Files' \subseteq trash
<1> SUFFICES Goal
  OBVIOUS
<1>1. at' = at => Goal
  BY DEF Files
<1>2. ASSUME NEW w \in Workers, UploadCommit(w) PROVE Goal
  <2>1. Files' = Files \cup {nextId}
    BY <1>2 DEF UploadCommit, Files
  <2> QED BY <2>1
<1>3. ASSUME NEW w \in Workers, PurgeCommit(w) PROVE Goal
  BY <1>3, DropType DEF PurgeCommit, Reach
<1>4. ASSUME NEW w \in Workers, PurgeAllCommit(w) PROVE Goal
  <2> DEFINE t == req[w].folder
  <2>1. /\ t \in Folders /\ t \in binned /\ lost \subseteq lost' /\ Drop(In(t))
    BY <1>4, SeenType DEF PurgeAllCommit, Note, When, Reach
  <2> HIDE DEF t
  <2>2. Files \ Files' \subseteq In(t)
    BY <2>1, DropType DEF Reach
  <2>3. ASSUME NEW f \in In(t), f \notin trash PROVE FALSE
    <3>1. f \in LiveFiles /\ f \in Files /\ at[f] \in Below[t]
      BY <2>3 DEF In, LiveFiles
    <3>2. at[f] \notin binned /\ \A d \in there \ binned : ~Inside(d)
      BY <2>1, <3>1 DEF Reach, NothingHidden, Never
    <3>3. at[f] \in there /\ at[f] \in Folders /\ binned \subseteq Folders
      BY <2>1, <3>1, TrashAssumption DEF Reach, Housed, TypeOK
    <3> QED BY <2>1, <3>1, <3>2, <3>3, Outside
  <2> QED BY <2>2, <2>3
<1> HIDE DEF Goal
<1>5. UNCHANGED vars => Goal
  BY <1>1 DEF vars
<1>6. ASSUME NEW w \in Workers, Abort(w) \/ (\E r : Reads(w, r)) PROVE Goal
  BY <1>1, <1>6 DEF Abort, Reads, tables
<1>7. ASSUME NEW w \in Workers,
             ReturnCommit(w) \/ TrashAllCommit(w) \/ RestoreAllCommit(w)
      PROVE  Goal
  BY <1>1, <1>7 DEF ReturnCommit, TrashAllCommit, RestoreAllCommit
<1>8. ASSUME NEW f \in Files, DeleteFile(f) \/ BatchDelete(f) \/ RestoreFile(f) PROVE Goal
  BY <1>1, <1>8 DEF DeleteFile, BatchDelete, RestoreFile
<1>9. ASSUME NEW d \in Folders, NEW F \in SUBSET Files, Sweep(d, F) PROVE Goal
  BY <1>1, <1>9 DEF Sweep
<1>10. ASSUME NEW w \in Workers, NEW d \in there \cup {Top}, UploadRead(w, d) PROVE Goal
  BY <1>6, <1>10 DEF UploadRead
<1>11. ASSUME NEW w \in Workers, NEW f \in Files,
              ReturnRead(w, f) \/ RollbackRead(w, f) \/ PurgeRead(w, f)
       PROVE  Goal
  BY <1>6, <1>11 DEF ReturnRead, RollbackRead, PurgeRead
<1>12. ASSUME NEW w \in Workers, NEW d \in Folders,
              TrashAllRead(w, d) \/ RestoreAllRead(w, d) \/ PurgeAllRead(w, d)
       PROVE  Goal
  BY <1>6, <1>12 DEF TrashAllRead, RestoreAllRead, PurgeAllRead
<1> QED BY <1>2, <1>3, <1>4, <1>5, <1>6, <1>7, <1>8, <1>9, <1>10, <1>11, <1>12 DEF Next

\* A purge removes only files of the trash, in any tree and any interleaving, until
\* it was overtaken or something became live inside a trashed folder.
THEOREM PurgeCorrect == Spec => PurgesTrash
<1>1. Spec => [][Reach /\ [Next]_vars]_vars
  BY ReachInvariant, PTL DEF Spec
<1>2. (Reach /\ [Next]_vars) => (lost' \cap {"inside", "stale"} = {} => Files \ Files' \subseteq trash)
  BY PurgeStep
<1> QED BY <1>1, <1>2, PTL DEF PurgesTrash
================================================================================
