------------------------- MODULE VersionRestoreProofs -------------------------
(***************************************************************************)
(* Every row finds its blob around a restore, whatever else is uploaded or *)
(* purged meanwhile and wherever the renames or the COMMIT fail, for any   *)
(* files, contents, versions and failures.                                 *)
(*                                                                         *)
(* The invariant has two halves.  The books hold always: types, numbers of *)
(* versions, reference counts that cover the rows, and what an open        *)
(* restore holds.  InPlace holds as long as nothing did harm: the two      *)
(* blobs of an open restore have no other rows, each other row finds its   *)
(* blob, and the two are where the renames made so far have put them.      *)
(***************************************************************************)
EXTENDS VersionRestore, FiniteSetTheorems, WellFoundedInduction, TLAPS

\* The bounds are natural numbers and there are finitely many files.
Given ==
  /\ MaxBlobs \in Nat /\ MaxNo \in Nat /\ MaxFaults \in Nat
  /\ IsFiniteSet(Files)

\* A set of numbers that is not empty has a least member.
LEMMA Least ==
  ASSUME NEW T \in SUBSET Nat, T # {}
  PROVE  \E x \in T : \A y \in T : x <= y
<1> DEFINE R == {ss \in Nat \X Nat : ss[1] < ss[2]}
<1>1. OpToRel(<, Nat) = R
  BY DEF OpToRel
<1>2. IsWellFoundedOn(R, Nat)
  BY <1>1, NatLessThanWellFounded
<1>3. PICK x \in T : \A y \in T : ~ (<<y, x>> \in R)
  BY <1>2, WFMin
<1>4. ASSUME NEW y \in T, y < x PROVE <<y, x>> \in R
  BY <1>4
<1>5. \A y \in T : ~ (y < x)
  BY <1>3, <1>4, Zenon
<1> QED BY <1>5

\* When it is bounded, it has a greatest one, which is its Max.
LEMMA MaxIs ==
  ASSUME NEW n \in Nat, NEW T \in SUBSET (0 .. n), T # {}
  PROVE  Max(T) \in T /\ \A y \in T : y <= Max(T)
<1> DEFINE D == {n - x : x \in T}
<1>1. D \in SUBSET Nat /\ D # {}
  OBVIOUS
<1>2. PICK d \in D : \A e \in D : d <= e
  BY <1>1, Least
<1>3. PICK x \in T : d = n - x
  OBVIOUS
<1>4. \A y \in T : x >= y
  <2>1. ASSUME NEW y \in T PROVE x >= y
    <3>1. n - y \in D /\ d <= n - y
      BY <1>2
    <3> QED BY <1>3, <3>1
  <2> QED BY <2>1
<1>5. \E z \in T : \A y \in T : z >= y
  BY <1>4
<1> QED BY <1>5 DEF Max

(***************************************************************************)
(* Paths.                                                                  *)
(***************************************************************************)
\* Files have an order, so that the paths of their versions are apart.
LEMMA OrderType ==
  ASSUME Given
  PROVE  /\ Cardinality(Files) \in Nat
         /\ Order \in [Files -> 0 .. Cardinality(Files) - 1]
         /\ \A f, g \in Files : Order[f] = Order[g] => f = g
<1> DEFINE c == Cardinality(Files)
<1>1. c \in Nat /\ ExistsBijection(1 .. c, Files)
  BY FS_CardinalityType DEF Given
<1>2. PICK b \in Bijection(1 .. c, Files) : TRUE
  BY <1>1 DEF ExistsBijection
<1>3. /\ b \in [1 .. c -> Files]
      /\ \A f \in Files : \E k \in 1 .. c : b[k] = f
  BY <1>2 DEF Bijection, Injection, Surjection
<1> DEFINE o == [f \in Files |-> (CHOOSE k \in 1 .. c : b[k] = f) - 1]
<1>4. \A f \in Files : (CHOOSE k \in 1 .. c : b[k] = f) \in 1 .. c
                       /\ b[CHOOSE k \in 1 .. c : b[k] = f] = f
  BY <1>3
<1>5. o \in [Files -> 0 .. c - 1]
  BY <1>1, <1>4
<1>6. ASSUME NEW f \in Files, NEW g \in Files, o[f] = o[g] PROVE f = g
  <2>1. (CHOOSE k \in 1 .. c : b[k] = f) = (CHOOSE k \in 1 .. c : b[k] = g)
    BY <1>1, <1>4, <1>6
  <2> QED BY <1>4, <2>1
<1>7. \E p \in [Files -> 0 .. c - 1] : \A f, g \in Files : p[f] = p[g] => f = g
  BY <1>5, <1>6
<1> QED BY <1>1, <1>7 DEF Order

\* Blocks of m numbers do not overlap.
LEMMA Products ==
  ASSUME NEW m \in Nat, NEW a \in Nat, NEW b \in Nat, a < b
  PROVE  m * a \in Nat /\ m * b \in Nat /\ m * a + m <= m * b
<1>1. PICK d \in Nat : b = a + 1 + d
  <2>1. b - a - 1 \in Nat /\ b = a + 1 + (b - a - 1)
    OBVIOUS
  <2> QED BY <2>1
<1>2. m * b = m * a + m + m * d
  BY <1>1
<1>3. m * d \in Nat /\ m * a \in Nat
  OBVIOUS
<1> QED BY <1>2, <1>3

\* A version's path names its file and number, and is no other kind of path.
LEMMA PathOf ==
  ASSUME Given, NEW f \in Files, NEW n \in 1 .. MaxNo
  PROVE  /\ VersionPath(f, n) \in MaxBlobs + 1 .. Swap - 1
         /\ VersionPath(f, n) \in Paths
         /\ Swap \in Nat
         /\ \A g \in Files, k \in 1 .. MaxNo :
              VersionPath(f, n) = VersionPath(g, k) => f = g /\ n = k
<1> DEFINE c == Cardinality(Files)
<1>0. MaxBlobs \in Nat /\ MaxNo \in Nat /\ c \in Nat
  BY OrderType DEF Given
<1>1. \A g \in Files : Order[g] \in Nat /\ Order[g] < c
  BY <1>0, OrderType
<1> HIDE DEF c
<1>2. /\ MaxNo * Order[f] \in Nat /\ MaxNo * c \in Nat
      /\ MaxNo * Order[f] + MaxNo <= MaxNo * c
  BY <1>0, <1>1, Products
<1>3. VersionPath(f, n) = MaxBlobs + MaxNo * Order[f] + n /\ Swap = MaxBlobs + MaxNo * c + 1
  BY DEF VersionPath, Swap, c
<1>4. ASSUME NEW g \in Files, NEW k \in 1 .. MaxNo, VersionPath(f, n) = VersionPath(g, k)
      PROVE  f = g /\ n = k
  <2>1. VersionPath(g, k) = MaxBlobs + MaxNo * Order[g] + k
    BY DEF VersionPath
  <2>2. Order[f] \in Nat /\ Order[g] \in Nat
    BY <1>1
  <2>n. MaxNo * Order[f] \in Nat /\ MaxNo * Order[g] \in Nat
    BY <1>0, <2>2
  <2>e. MaxNo * Order[f] + n = MaxNo * Order[g] + k
    BY <1>0, <1>3, <1>4, <2>1, <2>n
  <2>3. CASE Order[f] < Order[g]
    <3>1. MaxNo * Order[f] + MaxNo <= MaxNo * Order[g]
      BY <1>0, <2>2, <2>3, Products
    <3> QED BY <1>0, <2>n, <2>e, <3>1
  <2>4. CASE Order[g] < Order[f]
    <3>1. MaxNo * Order[g] + MaxNo <= MaxNo * Order[f]
      BY <1>0, <2>2, <2>4, Products
    <3> QED BY <1>0, <2>n, <2>e, <3>1
  <2>5. CASE Order[f] = Order[g]
    <3>1. f = g
      BY <2>5, OrderType
    <3> QED BY <1>0, <2>n, <2>e, <2>5, <3>1
  <2> QED BY <2>2, <2>3, <2>4, <2>5
<1>5. VersionPath(f, n) \in MaxBlobs + 1 .. Swap - 1 /\ Swap \in Nat
  BY <1>0, <1>2, <1>3
<1> QED BY <1>0, <1>4, <1>5 DEF Paths

\* The paths of uploads and the temporary name.
LEMMA PlainPaths ==
  ASSUME Given
  PROVE  Swap \in Paths /\ Swap > MaxBlobs /\ 1 .. MaxBlobs \subseteq Paths /\ Swap \in Nat
<1>1. MaxBlobs \in Nat /\ MaxNo \in Nat /\ Cardinality(Files) \in Nat
  BY OrderType DEF Given
<1>2. MaxNo * Cardinality(Files) \in Nat
  BY <1>1
<1> QED BY <1>1, <1>2 DEF Swap, Paths

\* The number of a new version is above all of its file.
LEMMA NextNoIs ==
  ASSUME Given, TypeOK, NEW f \in Files
  PROVE  NextNo(f) \in Nat \ {0} /\ \A v \in VersionsOf(f) : v.no < NextNo(f)
<1> DEFINE T == {v.no : v \in VersionsOf(f)} \cup {0}
<1>1. T \in SUBSET (0 .. MaxNo) /\ T # {} /\ MaxNo \in Nat
  BY DEF TypeOK, VersionsOf, Given
<1>2. Max(T) \in T /\ \A y \in T : y <= Max(T)
  BY <1>1, MaxIs
<1>3. NextNo(f) = Max(T) + 1
  BY DEF NextNo
<1> HIDE DEF T
<1>4. Max(T) \in 0 .. MaxNo
  BY <1>1, <1>2
<1>5. ASSUME NEW v \in VersionsOf(f) PROVE v.no < NextNo(f)
  <2>1. v.no \in T /\ v.no \in Nat
    BY DEF T, TypeOK, VersionsOf
  <2> QED BY <1>2, <1>3, <1>4, <2>1
<1> QED BY <1>3, <1>4, <1>5

(***************************************************************************)
(* The invariant.                                                          *)
(***************************************************************************)
\* A version has the blob its content came with, or the path that a restore gave it,
\* and its number is its own.
Numbered ==
  /\ IsFiniteSet(versions)
  /\ \A v \in versions : v.path \in 1 .. minted \/ v.path = VersionPath(v.file, v.no)
  /\ \A u, v \in versions : u.file = v.file /\ u.no = v.no => u = v

\* What uses a path.
InRows(p)    == {f \in Files : rows[f].path = p}
Within(V, p) == {v \in V : v.path = p}
\* blob_refs counts at least the rows and versions of every upload's blob.
Counted == \A p \in 1 .. minted :
  Cardinality(InRows(p)) + Cardinality(Within(versions, p)) <= refs[p]

\* An open restore holds the row of its file and one of its versions, as they are.
Open == swap # NoSwap
OpenOK == Open =>
  /\ swap = [step |-> swap.step, file |-> swap.file, cur |-> swap.cur, ver |-> swap.ver,
             new |-> swap.new]
  /\ swap.file \in Files /\ swap.step \in 1 .. 4
  /\ swap.cur = rows[swap.file] /\ swap.cur # NoRow
  /\ swap.ver \in VersionsOf(swap.file)
  /\ swap.new \in 1 .. MaxNo /\ \A v \in VersionsOf(swap.file) : v.no < swap.new

\* Nobody else uses the two blobs it exchanges.
Apart == Open =>
  /\ swap.cur.path # swap.ver.path
  /\ \A g \in Files \ {swap.file} : rows[g].path \notin {swap.cur.path, swap.ver.path}
  /\ \A u \in versions \ {swap.ver} : u.path \notin {swap.cur.path, swap.ver.path}

\* Every other row and version finds its blob.
Matched ==
  /\ \A f \in Files : rows[f] # NoRow /\ ~(Open /\ swap.file = f) => disk[rows[f].path] = rows[f].key
  /\ \A v \in versions : ~(Open /\ swap.ver = v) => disk[v.path] = v.key

\* Where the blobs are after each rename.
NewPath == VersionPath(swap.file, swap.new)
Staged == Open =>
  /\ swap.step = 1 => disk[swap.cur.path] = swap.cur.key /\ disk[swap.ver.path] = swap.ver.key
  /\ swap.step = 2 => /\ disk[swap.cur.path] = NoBlob /\ disk[swap.ver.path] = swap.ver.key
                      /\ disk[Swap] = swap.cur.key
  /\ swap.step = 3 => /\ disk[swap.cur.path] = swap.ver.key /\ disk[swap.ver.path] = NoBlob
                      /\ disk[Swap] = swap.cur.key
  /\ swap.step = 4 => /\ disk[swap.cur.path] = swap.ver.key /\ disk[swap.ver.path] = NoBlob
                      /\ disk[NewPath] = swap.cur.key

Books == TypeOK /\ Numbered /\ Counted /\ OpenOK
InPlace == harm = {} => Apart /\ Matched /\ Staged
IInv == Books /\ InPlace

\* One, if a statement is true.
One(b) == IF b THEN 1 ELSE 0

(***************************************************************************)
(* Counting.                                                               *)
(***************************************************************************)
\* A new version adds one to the count of its path.
LEMMA WithinAdd ==
  ASSUME NEW V, IsFiniteSet(V), NEW v, v \notin V, NEW p
  PROVE  /\ Cardinality(Within(V \cup {v}, p)) = Cardinality(Within(V, p)) + One(v.path = p)
         /\ Cardinality(Within(V, p)) \in Nat
<1>1. IsFiniteSet(Within(V, p)) /\ Cardinality(Within(V, p)) \in Nat
  BY FS_Subset, FS_CardinalityType DEF Within
<1>2. CASE v.path = p
  <2>1. Within(V \cup {v}, p) = Within(V, p) \cup {v} /\ v \notin Within(V, p)
    BY <1>2 DEF Within
  <2> QED BY <1>1, <1>2, <2>1, FS_AddElement DEF One
<1>3. CASE v.path # p
  <2>1. Within(V \cup {v}, p) = Within(V, p)
    BY <1>3 DEF Within
  <2> QED BY <1>1, <1>3, <2>1 DEF One
<1> QED BY <1>2, <1>3

\* The counts of what goes and of what stays add up.
LEMMA WithinRemove ==
  ASSUME NEW V, IsFiniteSet(V), NEW W \in SUBSET V, NEW p
  PROVE  /\ Cardinality(Within(V, p)) = Cardinality(Within(V \ W, p)) + Cardinality(Within(W, p))
         /\ Cardinality(Within(V \ W, p)) \in Nat /\ Cardinality(Within(W, p)) \in Nat
<1>1. IsFiniteSet(Within(V \ W, p)) /\ IsFiniteSet(Within(W, p))
  <2>1. Within(V \ W, p) \in SUBSET V /\ Within(W, p) \in SUBSET V
    BY DEF Within
  <2> QED BY <2>1, FS_Subset
<1>2. /\ Within(V, p) = Within(V \ W, p) \cup Within(W, p)
      /\ Within(V \ W, p) \cap Within(W, p) = {}
  BY DEF Within
<1>3. Cardinality(Within(V, p)) = Cardinality(Within(V \ W, p)) + Cardinality(Within(W, p))
                                   - Cardinality({})
  BY <1>1, <1>2, FS_Union
<1>4. Cardinality({}) = 0 /\ Cardinality(Within(V \ W, p)) \in Nat
      /\ Cardinality(Within(W, p)) \in Nat
  BY <1>1, FS_EmptySet, FS_CardinalityType
<1> QED BY <1>3, <1>4

\* The rows on a path can be counted.
LEMMA RowsNat ==
  ASSUME Given, NEW p
  PROVE  IsFiniteSet(InRows(p)) /\ Cardinality(InRows(p)) \in Nat
BY FS_Subset, FS_CardinalityType DEF Given, InRows

\* When one row changes, the counts of its two paths do.
LEMMA RowsChange ==
  ASSUME Given, TypeOK, NEW f \in Files, NEW r, rows' = [rows EXCEPT ![f] = r], NEW p
  PROVE  /\ Cardinality(InRows(p)') + One(rows[f].path = p)
              = Cardinality(InRows(p)) + One(r.path = p)
         /\ Cardinality(InRows(p)') \in Nat
<1> DEFINE A == InRows(p) \ {f}
<1>1. IsFiniteSet(A) /\ Cardinality(A) \in Nat /\ f \notin A
  BY RowsNat, FS_Subset, FS_CardinalityType DEF InRows
<1>2. rows'[f] = r /\ \A g \in Files \ {f} : rows'[g] = rows[g]
  BY DEF TypeOK
<1>3. InRows(p) = (IF rows[f].path = p THEN A \cup {f} ELSE A)
  BY DEF InRows
<1>4. InRows(p)' = (IF r.path = p THEN A \cup {f} ELSE A)
  BY <1>2 DEF InRows
<1> HIDE DEF A
<1>5. Cardinality(A \cup {f}) = Cardinality(A) + 1
  BY <1>1, FS_AddElement
<1> QED BY <1>1, <1>3, <1>4, <1>5 DEF One

\* Acquiring adds one reference.
LEMMA AcquireIs ==
  ASSUME NEW r \in [Paths -> Nat], NEW q \in Paths
  PROVE  /\ Acquire(r, q) \in [Paths -> Nat]
         /\ \A p \in Paths : Acquire(r, q)[p] = r[p] + One(p = q)
BY DEF Acquire, One

\* Releasing removes at most one for each version given up.
LEMMA ReleaseIs ==
  ASSUME NEW r \in [Paths -> Nat], NEW V, IsFiniteSet(V)
  PROVE  /\ Release(r, V) \in [Paths -> Nat]
         /\ \A p \in Paths : /\ Release(r, V)[p] + Cardinality(Within(V, p)) >= r[p]
                             /\ Cardinality(Within(V, p)) \in Nat
<1>1. \A p : IsFiniteSet(Within(V, p)) /\ Cardinality(Within(V, p)) \in Nat
  BY FS_Subset, FS_CardinalityType DEF Within
<1>2. Release(r, V) = [p \in Paths |-> IF r[p] > Cardinality(Within(V, p))
                                         THEN r[p] - Cardinality(Within(V, p)) ELSE 0]
  BY DEF Release, Within
<1> QED BY <1>1, <1>2

\* One row counts once.
LEMMA WithinOne == \A x, p : IsFiniteSet({x}) /\ Cardinality(Within({x}, p)) = One(x.path = p)
<1> SUFFICES ASSUME NEW x, NEW p
             PROVE  IsFiniteSet({x}) /\ Cardinality(Within({x}, p)) = One(x.path = p)
  OBVIOUS
<1>1. Within({x}, p) = (IF x.path = p THEN {x} ELSE {})
  BY DEF Within
<1> QED BY <1>1, FS_Singleton, FS_EmptySet DEF One

\* What a row or a version uses after a step is counted after it.
LEMMA InUse ==
  ASSUME Given, TypeOK', Numbered', Counted', NEW p \in 1 .. minted',
         (\E f \in Files : rows'[f].path = p) \/ (\E v \in versions' : v.path = p)
  PROVE  refs'[p] # 0
<1>1. IsFiniteSet(InRows(p)') /\ Cardinality(InRows(p)') \in Nat
  <2>1. InRows(p)' \in SUBSET Files
    BY DEF InRows
  <2> QED BY <2>1, FS_Subset, FS_CardinalityType DEF Given
<1>2. IsFiniteSet(Within(versions', p)) /\ Cardinality(Within(versions', p)) \in Nat
  BY FS_Subset, FS_CardinalityType DEF Numbered, Within
<1>3. InRows(p)' # {} \/ Within(versions', p) # {}
  BY DEF InRows, Within
<1>4. Cardinality(InRows(p)') # 0 \/ Cardinality(Within(versions', p)) # 0
  BY <1>1, <1>2, <1>3, FS_EmptySet
<1>5. p \in Paths
  BY PlainPaths DEF Given, TypeOK
<1>6. refs'[p] \in Nat
  BY <1>5 DEF TypeOK
<1>7. Cardinality(InRows(p)') + Cardinality(Within(versions', p)) <= refs'[p]
  BY DEF Counted
<1> QED BY <1>1, <1>2, <1>4, <1>6, <1>7

(***************************************************************************)
(* Types of the parts of a step.                                           *)
(***************************************************************************)
\* What a version and a row are.
Versions == [file: Files, no: 1 .. MaxNo, path: Paths, key: Keys]
Rows     == [path: 1 .. minted, key: Keys, sha: Hashes]

\* The content of an upload: a blob that a row of another file has, or a new one.
LEMMA StoredIs ==
  ASSUME Given, TypeOK, NEW f \in Files, NEW h \in Hashes, NEW b \in Stored(f, h), Mint(b)
  PROVE  /\ minted' \in minted .. MaxBlobs /\ Keys \subseteq Keys'
         /\ b.path \in 1 .. minted' /\ b.path \in Paths /\ b.key \in Keys'
         /\ Written(b) \in [Paths -> Keys' \cup {NoBlob}]
         /\ \/ /\ minted' = minted + 1 /\ b.path = minted + 1 /\ Written(b)[b.path] = b.key
               /\ \A p \in Paths : p # minted + 1 => Written(b)[p] = disk[p]
            \/ /\ Written(b) = disk /\ minted' = minted
               /\ \E g \in Files \ {f} : /\ rows[g] # NoRow
                                         /\ b.path = rows[g].path /\ b.key = rows[g].key
<1>0. minted \in Nat /\ MaxBlobs \in Nat /\ minted <= MaxBlobs /\ 1 .. MaxBlobs \subseteq Paths
  BY PlainPaths DEF Given, TypeOK
<1>1. CASE Donors(f, h) # {}
  <2>1. PICK g \in Donors(f, h) : b = [path |-> rows[g].path, key |-> rows[g].key]
    BY <1>1 DEF Stored
  <2>2. g \in Files \ {f} /\ rows[g] # NoRow
    BY <2>1 DEF Donors
  <2>3. rows[g] \in Rows
    BY <2>2 DEF TypeOK, Rows
  <2>4. b.path = rows[g].path /\ b.key = rows[g].key
    BY <2>1
  <2>5. b.path \in 1 .. minted /\ b.key \in Keys /\ b.key.id \in 1 .. minted
    BY <2>3, <2>4 DEF Rows, Keys
  <2>6. b.key.id # minted + 1
    BY <1>0, <2>5
  <2>7. minted' = minted /\ Written(b) = disk
    BY <2>6 DEF Mint, Written
  <2>8. Keys' = Keys
    BY <2>7 DEF Keys
  <2> QED BY <1>0, <2>2, <2>4, <2>5, <2>7, <2>8 DEF TypeOK
<1>2. CASE Donors(f, h) = {}
  <2>1. minted < MaxBlobs /\ b = [path |-> minted + 1, key |-> Key(h)]
    BY <1>2 DEF Stored
  <2>2. b.path = minted + 1 /\ b.key = [id |-> minted + 1, sha |-> h] /\ b.key.id = minted + 1
    BY <2>1 DEF Key
  <2>3. minted' = minted + 1 /\ Written(b) = [disk EXCEPT ![b.path] = b.key]
    BY <2>2 DEF Mint, Written
  <2>4. Keys \subseteq Keys' /\ b.key \in Keys'
    BY <1>0, <2>2, <2>3 DEF Keys
  <2>5. b.path \in Paths
    BY <1>0, <2>1, <2>2
  <2>6. Written(b) \in [Paths -> Keys' \cup {NoBlob}]
    BY <2>3, <2>4, <2>5 DEF TypeOK
  <2>7. Written(b)[b.path] = b.key /\ \A p \in Paths : p # minted + 1 => Written(b)[p] = disk[p]
    BY <2>2, <2>3, <2>5 DEF TypeOK
  <2> QED BY <1>0, <2>1, <2>2, <2>3, <2>4, <2>5, <2>6, <2>7
<1> QED BY <1>1, <1>2

\* Only blobs without references are removed.
LEMMA UnlinkedIs ==
  ASSUME NEW K, NEW d \in [Paths -> K], NoBlob \in K, NEW V, NEW r
  PROVE  /\ Unlinked(d, V, r) \in [Paths -> K]
         /\ \A p \in Paths : \/ Unlinked(d, V, r)[p] = d[p]
                             \/ r[p] = 0 /\ \E v \in V : v.path = p
BY DEF Unlinked

\* A rename moves a blob between paths; what the handler undoes too.
LEMMA MovedIs ==
  ASSUME NEW K, NEW d \in [Paths -> K], NoBlob \in K, NEW from \in Paths, NEW to \in Paths
  PROVE  /\ Moved(d, from, to) \in [Paths -> K]
         /\ from # to /\ d[from] # NoBlob =>
              /\ Moved(d, from, to)[to] = d[from]
              /\ Moved(d, from, to)[from] = NoBlob
         /\ \A p \in Paths : p # from /\ p # to => Moved(d, from, to)[p] = d[p]
BY DEF Moved

\* The four paths of an open restore.
LEMMA SwapPaths ==
  ASSUME Given, TypeOK, OpenOK, Open
  PROVE  /\ swap.cur \in Rows /\ swap.ver \in Versions
         /\ swap.cur.path \in 1 .. minted
         /\ swap.cur.path \in Paths /\ swap.ver.path \in Paths /\ Swap \in Paths
         /\ NewPath \in Paths
         /\ swap.cur.path # Swap /\ swap.cur.path # NewPath /\ NewPath # Swap
         /\ swap.cur.key # NoBlob /\ swap.ver.key # NoBlob
<1>1. swap.cur \in Rows
  BY DEF OpenOK, TypeOK, Rows
<1>2. swap.ver \in Versions
  BY DEF OpenOK, TypeOK, Versions, VersionsOf
<1>3. minted \in Nat /\ MaxBlobs \in Nat /\ minted <= MaxBlobs
  BY DEF TypeOK, Given
<1>4. swap.cur.path \in 1 .. minted /\ swap.cur.path \in Paths
  BY <1>1, <1>3, PlainPaths DEF Rows
<1>5. NewPath \in MaxBlobs + 1 .. Swap - 1 /\ NewPath \in Paths /\ Swap \in Nat
  BY PathOf DEF OpenOK, NewPath
<1>6. swap.cur.path # Swap /\ swap.cur.path # NewPath /\ NewPath # Swap
  BY <1>3, <1>4, <1>5, PlainPaths
<1>7. \A k \in Keys : k # NoBlob
  BY DEF Keys, NoBlob
<1>8. swap.cur.key \in Keys /\ swap.ver.key \in Keys
  BY <1>1, <1>2 DEF Rows, Versions
<1>9. swap.ver.path \in Paths
  BY <1>2 DEF Versions
<1> QED BY <1>1, <1>2, <1>4, <1>5, <1>6, <1>7, <1>8, <1>9, PlainPaths

(***************************************************************************)
(* The books: types, numbers, counts, and what an open restore holds.      *)
(***************************************************************************)
\* The counts also cover the paths that no blob has yet.
LEMMA CountedAll ==
  ASSUME Given, Books, NEW p \in 1 .. MaxBlobs
  PROVE  /\ Cardinality(InRows(p)) + Cardinality(Within(versions, p)) <= refs[p]
         /\ Cardinality(InRows(p)) \in Nat /\ Cardinality(Within(versions, p)) \in Nat
         /\ refs[p] \in Nat /\ p \in Paths
<1>1. Cardinality(InRows(p)) \in Nat
  BY RowsNat
<1>2. Cardinality(Within(versions, p)) \in Nat
  <2>1. Within(versions, p) \in SUBSET versions
    BY DEF Within
  <2> QED BY <2>1, FS_Subset, FS_CardinalityType DEF Books, Numbered
<1>3. p \in Paths /\ refs[p] \in Nat
  BY PlainPaths DEF Books, TypeOK
<1>4. CASE p \in 1 .. minted
  BY <1>1, <1>2, <1>3, <1>4 DEF Books, Counted
<1>5. CASE p \notin 1 .. minted
  <2>0. MaxBlobs \in Nat /\ minted \in Nat
    BY DEF Books, TypeOK, Given
  <2>1. ASSUME NEW f \in Files PROVE rows[f].path # p
    <3>1. rows[f] \in Rows \/ rows[f] = NoRow
      BY DEF Books, TypeOK, Rows
    <3> QED BY <2>0, <1>5, <3>1 DEF Rows, NoRow
  <2>2. ASSUME NEW v \in versions PROVE v.path # p
    <3>1. v.file \in Files /\ v.no \in 1 .. MaxNo
      BY DEF Books, TypeOK
    <3>2. CASE v.path = VersionPath(v.file, v.no)
      <4>1. VersionPath(v.file, v.no) \in MaxBlobs + 1 .. Swap - 1 /\ Swap \in Nat
        BY <3>1, PathOf
      <4> QED BY <2>0, <3>2, <4>1
    <3> QED BY <1>5, <3>2 DEF Books, Numbered
  <2>3. InRows(p) = {} /\ Within(versions, p) = {}
    BY <2>1, <2>2 DEF InRows, Within
  <2>4. Cardinality(InRows(p)) = 0 /\ Cardinality(Within(versions, p)) = 0
    BY <2>3, FS_EmptySet
  <2> QED BY <1>3, <2>4
<1> QED BY <1>1, <1>2, <1>3, <1>4, <1>5

\* More blobs make more keys, and the types of rows and versions wider.
LEMMA Wider ==
  ASSUME Given, TypeOK, minted' \in minted .. MaxBlobs
  PROVE  Keys \subseteq Keys' /\ Rows \subseteq Rows' /\ Versions \subseteq Versions'
         /\ minted' \in 0 .. MaxBlobs /\ 1 .. minted \subseteq 1 .. minted'
<1>1. minted \in Nat /\ MaxBlobs \in Nat /\ minted' \in Nat /\ minted <= minted'
  BY DEF Given, TypeOK
<1>2. 1 .. minted \subseteq 1 .. minted'
  BY <1>1
<1>3. Keys \subseteq Keys'
  BY <1>2 DEF Keys
<1> QED BY <1>1, <1>2, <1>3 DEF Rows, Versions, Given, TypeOK

\* Other files change, and not the open restore.
LEMMA StaysOpen ==
  ASSUME Books, swap' = swap, Open => rows'[swap.file] = rows[swap.file],
         \A v : v.file = swap.file => (v \in versions' <=> v \in versions)
  PROVE  OpenOK'
BY DEF Books, OpenOK, Open, VersionsOf

\* One lemma for each action: the books stay right.
LEMMA InsertBooks ==
  ASSUME Given, Books, NEW f \in Files, NEW h \in Hashes, Insert(f, h)
  PROVE  Books'
<1> TypeOK /\ Numbered
  BY DEF Books
<1>1. PICK b \in Stored(f, h) :
        /\ rows' = [rows EXCEPT ![f] = [path |-> b.path, key |-> b.key, sha |-> h]]
        /\ refs' = Acquire(refs, b.path)
        /\ disk' = Written(b) /\ Mint(b)
        /\ harm' = IF Joins(b.path) THEN harm \cup {"shared"} ELSE harm
  BY DEF Insert
<1>2. /\ minted' \in minted .. MaxBlobs
      /\ b.path \in 1 .. minted' /\ b.path \in Paths /\ b.key \in Keys'
      /\ disk' \in [Paths -> Keys' \cup {NoBlob}]
  BY <1>1, StoredIs
<1>3. /\ Keys \subseteq Keys' /\ Rows \subseteq Rows' /\ Versions \subseteq Versions'
      /\ minted' \in 0 .. MaxBlobs /\ 1 .. minted \subseteq 1 .. minted'
  BY <1>2, Wider
<1>u. versions' = versions /\ swap' = swap /\ faults' = faults /\ rows[f] = NoRow
      /\ answered' = [file |-> f, sha |-> h]
  BY DEF Insert
<1> DEFINE r == [path |-> b.path, key |-> b.key, sha |-> h]
<1>r. r.path = b.path /\ rows' = [rows EXCEPT ![f] = r]
  BY <1>1
<1>4. TypeOK'
  <2>1. rows' \in [Files -> Rows' \cup {NoRow}]
    <3>1. [path |-> b.path, key |-> b.key, sha |-> h] \in Rows'
      BY <1>2 DEF Rows
    <3> QED BY <1>1, <1>3, <3>1 DEF TypeOK, Rows
  <2>2. versions' \subseteq Versions'
    BY <1>3, <1>u DEF TypeOK, Versions
  <2>3. refs' \in [Paths -> Nat]
    BY <1>1, <1>2, AcquireIs DEF TypeOK
  <2>4. harm' \subseteq {"shared", "commit", "crash"}
    BY <1>1 DEF TypeOK
  <2>5. answered' \in [file: Files, sha: Hashes] \cup {Unanswered}
    BY <1>u
  <2> QED BY <1>2, <1>3, <1>u, <2>1, <2>2, <2>3, <2>4, <2>5 DEF TypeOK, Rows, Versions
<1>5. Numbered'
  BY <1>3, <1>u DEF Numbered
<1>6. Counted'
  <2> SUFFICES ASSUME NEW p \in 1 .. minted'
               PROVE  Cardinality(InRows(p)') + Cardinality(Within(versions, p)) <= refs'[p]
    BY <1>u DEF Counted, Within
  <2>0. p \in 1 .. MaxBlobs /\ p \in Nat /\ p # 0
    BY <1>2, <1>3 DEF Given, TypeOK
  <2>1. /\ Cardinality(InRows(p)) + Cardinality(Within(versions, p)) <= refs[p]
        /\ Cardinality(InRows(p)) \in Nat /\ Cardinality(Within(versions, p)) \in Nat
        /\ refs[p] \in Nat /\ p \in Paths
    BY <2>0, CountedAll
  <2> HIDE DEF r
  <2>2. /\ Cardinality(InRows(p)') + One(rows[f].path = p)
              = Cardinality(InRows(p)) + One(r.path = p)
        /\ Cardinality(InRows(p)') \in Nat
    BY <1>r, RowsChange
  <2>3. One(rows[f].path = p) = 0
    BY <1>u, <2>0 DEF NoRow, One
  <2>4. refs'[p] = refs[p] + One(p = b.path)
    BY <1>1, <1>2, <2>1, AcquireIs DEF TypeOK
  <2>5. One(r.path = p) = One(p = b.path) /\ One(p = b.path) \in Nat
    BY <1>r DEF One
  <2> QED BY <2>1, <2>2, <2>3, <2>4, <2>5
<1>7. OpenOK'
  <2>1. Open => rows'[swap.file] = rows[swap.file]
    BY <1>1, <1>u DEF Books, OpenOK, TypeOK
  <2> QED BY <1>u, <2>1, StaysOpen
<1> QED BY <1>4, <1>5, <1>6, <1>7 DEF Books

\* The parts of an overwrite: what the tables and the disk are after it.
Overwritten(f, h, b, new, gone, mid) ==
  /\ b \in Stored(f, h) /\ new \in Versions /\ gone \in SUBSET (versions \cup {new})
  /\ mid \in [Paths -> Nat]
  /\ rows' = [rows EXCEPT ![f] = [path |-> b.path, key |-> b.key, sha |-> h]]
  /\ new.file = f /\ new.path = rows[f].path /\ new.key = rows[f].key
  /\ \A v \in VersionsOf(f) : v.no < new.no
  /\ \A v \in gone : v.file = f
  /\ versions' = (versions \cup {new}) \ gone
  /\ mid = Release(Acquire(Acquire(refs, rows[f].path), b.path), {rows[f]})
  /\ refs' = Release(mid, gone)
  /\ disk' = Unlinked(Unlinked(Written(b), gone, refs'), {rows[f]}, refs')
  /\ Mint(b)
  /\ harm' = IF Joins(b.path) THEN harm \cup {"shared"} ELSE harm

\* Every overwrite has these parts.
LEMMA OverwriteIs ==
  ASSUME Given, Books, NEW f \in Files, NEW h \in Hashes, Overwrite(f, h)
  PROVE  \E b, new, gone, mid : Overwritten(f, h, b, new, gone, mid)
<1> TypeOK /\ Numbered
  BY DEF Books
<1> DEFINE old == rows[f]
           new == [file |-> f, no |-> NextNo(f), path |-> old.path, key |-> old.key]
           all == VersionsOf(f) \cup {new}
           gone == Pruned(all)
           left(b) == Release(Release(Acquire(Acquire(refs, old.path), b.path), {old}), gone)
<1>1. PICK b \in Stored(f, h) :
        /\ rows' = [rows EXCEPT ![f] = [path |-> b.path, key |-> b.key, sha |-> h]]
        /\ versions' = (versions \ VersionsOf(f)) \cup (all \ gone)
        /\ refs' = left(b)
        /\ disk' = Unlinked(Unlinked(Written(b), gone, left(b)), {old}, left(b))
        /\ Mint(b)
        /\ harm' = IF Joins(b.path) THEN harm \cup {"shared"} ELSE harm
  BY DEF Overwrite
<1>2. old \in Rows /\ NextNo(f) <= MaxNo
  BY DEF Overwrite, TypeOK, Rows
<1>3. old.path \in 1 .. minted /\ old.path \in Paths /\ old.key \in Keys
  BY <1>2, PlainPaths DEF Rows, TypeOK, Given
<1>4. NextNo(f) \in 1 .. MaxNo /\ \A v \in VersionsOf(f) : v.no < NextNo(f)
  BY <1>2, NextNoIs DEF Given
<1>5. new \in Versions /\ new.file = f /\ new.path = old.path /\ new.key = old.key
      /\ new.no = NextNo(f)
  BY <1>3, <1>4 DEF Versions
<1> HIDE DEF new
<1>6. gone \subseteq all /\ all \subseteq versions \cup {new}
  BY DEF Pruned, VersionsOf
<1>7. \A v \in all : v.file = f
  BY <1>5 DEF VersionsOf
<1> HIDE DEF gone
<1>8. versions' = (versions \cup {new}) \ gone
  <2>1. \A v \in versions \ VersionsOf(f) : v \notin gone
    BY <1>6, <1>7 DEF VersionsOf
  <2>2. VersionsOf(f) \subseteq versions
    BY DEF VersionsOf
  <2>3. all = VersionsOf(f) \cup {new}
    OBVIOUS
  <2> HIDE DEF all, left, old
  <2> QED BY <1>1, <2>1, <2>2, <2>3
<1> DEFINE mid == Release(Acquire(Acquire(refs, old.path), b.path), {old})
<1>9. mid \in [Paths -> Nat]
  <2>1. Acquire(refs, old.path) \in [Paths -> Nat]
    BY <1>3, AcquireIs DEF TypeOK
  <2>2. b.path \in Paths
    BY <1>1, StoredIs
  <2>3. Acquire(Acquire(refs, old.path), b.path) \in [Paths -> Nat]
    BY <2>1, <2>2, AcquireIs
  <2> QED BY <2>3, ReleaseIs, WithinOne
<1>10. refs' = Release(mid, gone)
  BY <1>1
<1>11. disk' = Unlinked(Unlinked(Written(b), gone, refs'), {old}, refs')
  BY <1>1
<1>12. \A v \in VersionsOf(f) : v.no < new.no
  BY <1>4, <1>5
<1>13. \A v \in gone : v.file = f
  BY <1>6, <1>7
<1>14. gone \in SUBSET (versions \cup {new})
  BY <1>6
<1>15. mid = Release(Acquire(Acquire(refs, old.path), b.path), {old})
  OBVIOUS
<1> HIDE DEF mid, all, left
<1>16. Overwritten(f, h, b, new, gone, mid)
  BY <1>1, <1>5, <1>8, <1>9, <1>10, <1>11, <1>12, <1>13, <1>14, <1>15, Zenon DEF Overwritten
<1> QED BY <1>16

\* The reference of the old row goes over to the new version.
LEMMA OverwriteBooks ==
  ASSUME Given, Books, NEW f \in Files, NEW h \in Hashes, Overwrite(f, h)
  PROVE  Books'
<1> TypeOK /\ Numbered
  BY DEF Books
<1>0. PICK b, new, gone, mid : Overwritten(f, h, b, new, gone, mid)
  BY OverwriteIs
<1> b \in Stored(f, h) /\ new \in Versions /\ gone \in SUBSET (versions \cup {new})
    /\ mid \in [Paths -> Nat]
  BY <1>0 DEF Overwritten
<1>1. /\ rows' = [rows EXCEPT ![f] = [path |-> b.path, key |-> b.key, sha |-> h]]
      /\ new.file = f /\ new.path = rows[f].path /\ new.key = rows[f].key
      /\ \A v \in VersionsOf(f) : v.no < new.no
      /\ \A v \in gone : v.file = f
      /\ versions' = (versions \cup {new}) \ gone
      /\ mid = Release(Acquire(Acquire(refs, rows[f].path), b.path), {rows[f]})
      /\ refs' = Release(mid, gone)
      /\ disk' = Unlinked(Unlinked(Written(b), gone, refs'), {rows[f]}, refs')
      /\ Mint(b)
      /\ harm' = IF Joins(b.path) THEN harm \cup {"shared"} ELSE harm
  BY <1>0 DEF Overwritten
<1> DEFINE r == [path |-> b.path, key |-> b.key, sha |-> h]
<1>2. /\ minted' \in minted .. MaxBlobs
      /\ b.path \in 1 .. minted' /\ b.path \in Paths /\ b.key \in Keys'
      /\ Written(b) \in [Paths -> Keys' \cup {NoBlob}]
  BY <1>1, StoredIs
<1>3. /\ Keys \subseteq Keys' /\ Rows \subseteq Rows' /\ Versions \subseteq Versions'
      /\ minted' \in 0 .. MaxBlobs /\ 1 .. minted \subseteq 1 .. minted'
  BY <1>2, Wider
<1>u. /\ swap' = swap /\ faults' = faults /\ answered' = [file |-> f, sha |-> h]
      /\ swap.file # f /\ rows[f] \in Rows
  BY DEF Overwrite, TypeOK, Rows
<1>o. rows[f].path \in 1 .. minted /\ rows[f].path \in Paths
  BY <1>u, PlainPaths DEF Rows, TypeOK, Given
<1>r. r.path = b.path /\ rows' = [rows EXCEPT ![f] = r]
  BY <1>1
<1>n. new \notin versions
  <2>1. new \in versions => new \in VersionsOf(f) /\ new.no \in Int
    BY <1>1 DEF VersionsOf, Versions
  <2> QED BY <1>1, <2>1
<1>f. IsFiniteSet(versions) /\ IsFiniteSet(versions \cup {new}) /\ IsFiniteSet(gone)
      /\ IsFiniteSet(versions')
  <2>1. IsFiniteSet(versions \cup {new})
    BY FS_AddElement DEF Numbered
  <2>2. versions' \in SUBSET (versions \cup {new})
    BY <1>1
  <2> QED BY <2>1, <2>2, FS_Subset DEF Numbered
<1>4. TypeOK'
  <2>1. rows' \in [Files -> Rows' \cup {NoRow}]
    <3>1. r \in Rows'
      BY <1>2 DEF Rows
    <3> QED BY <1>r, <1>3, <3>1 DEF TypeOK, Rows
  <2>2. versions' \subseteq Versions'
    BY <1>1, <1>3 DEF TypeOK, Versions
  <2>3. refs' \in [Paths -> Nat]
    BY <1>1, <1>f, ReleaseIs
  <2>4. harm' \subseteq {"shared", "commit", "crash"}
    BY <1>1 DEF TypeOK
  <2>5. answered' \in [file: Files, sha: Hashes] \cup {Unanswered}
    BY <1>u
  <2>6. disk' \in [Paths -> Keys' \cup {NoBlob}]
    <3>1. Unlinked(Written(b), gone, refs') \in [Paths -> Keys' \cup {NoBlob}]
      BY <1>2, UnlinkedIs
    <3> QED BY <1>1, <3>1, UnlinkedIs
  <2> QED BY <1>2, <1>3, <1>u, <2>1, <2>2, <2>3, <2>4, <2>5, <2>6 DEF TypeOK, Rows, Versions
<1>5. Numbered'
  <2>1. \A v \in versions' : v.path \in 1 .. minted' \/ v.path = VersionPath(v.file, v.no)
    BY <1>1, <1>3, <1>o DEF Numbered
  <2>2. \A v \in versions : v.file = new.file => v.no < new.no
    BY <1>1 DEF VersionsOf
  <2>3. new.no \in Int /\ \A v \in versions : v.no \in Int
    BY DEF TypeOK, Versions
  <2>4. \A u, v \in versions \cup {new} : u.file = v.file /\ u.no = v.no => u = v
    BY <2>2, <2>3 DEF Numbered
  <2> QED BY <1>1, <1>f, <2>1, <2>4 DEF Numbered
<1>6. Counted'
  <2> SUFFICES ASSUME NEW p \in 1 .. minted'
               PROVE  Cardinality(InRows(p)') + Cardinality(Within(versions', p)) <= refs'[p]
    BY DEF Counted, Within
  <2>0. p \in 1 .. MaxBlobs
    BY <1>2, <1>3 DEF Given, TypeOK
  <2>1. /\ Cardinality(InRows(p)) + Cardinality(Within(versions, p)) <= refs[p]
        /\ Cardinality(InRows(p)) \in Nat /\ Cardinality(Within(versions, p)) \in Nat
        /\ refs[p] \in Nat /\ p \in Paths
    BY <2>0, CountedAll
  <2> HIDE DEF r
  <2>2. /\ Cardinality(InRows(p)') + One(rows[f].path = p)
              = Cardinality(InRows(p)) + One(r.path = p)
        /\ Cardinality(InRows(p)') \in Nat
    BY <1>r, RowsChange
  <2>3. Cardinality(Within(versions \cup {new}, p))
          = Cardinality(Within(versions, p)) + One(new.path = p)
    BY <1>f, <1>n, WithinAdd
  <2>4. /\ Cardinality(Within(versions \cup {new}, p))
             = Cardinality(Within(versions', p)) + Cardinality(Within(gone, p))
        /\ Cardinality(Within(versions', p)) \in Nat /\ Cardinality(Within(gone, p)) \in Nat
    BY <1>1, <1>f, WithinRemove
  <2> DEFINE a1 == Acquire(refs, rows[f].path)
             a2 == Acquire(a1, b.path)
  <2>5. a1 \in [Paths -> Nat] /\ a1[p] = refs[p] + One(p = rows[f].path)
    <3>1. refs \in [Paths -> Nat]
      BY DEF TypeOK
    <3> QED BY <1>o, <2>1, <3>1, AcquireIs
  <2>6. a2 \in [Paths -> Nat] /\ a2[p] = a1[p] + One(p = b.path)
    <3> HIDE DEF a1
    <3> QED BY <1>2, <2>1, <2>5, AcquireIs
  <2>7. mid[p] + One(rows[f].path = p) >= a2[p]
    <3>1. mid = Release(a2, {rows[f]})
      BY <1>1
    <3>2. IsFiniteSet({rows[f]}) /\ Cardinality(Within({rows[f]}, p)) = One(rows[f].path = p)
      BY WithinOne, Zenon
    <3> HIDE DEF a2
    <3>3. a2[p] <= Release(a2, {rows[f]})[p] + Cardinality(Within({rows[f]}, p))
      BY <2>1, <2>6, <3>2, ReleaseIs
    <3> QED BY <3>1, <3>2, <3>3
  <2>8. refs'[p] + Cardinality(Within(gone, p)) >= mid[p] /\ refs'[p] \in Nat /\ mid[p] \in Nat
    BY <1>1, <1>f, <2>1, ReleaseIs
  <2>9. /\ One(r.path = p) = One(p = b.path)
        /\ One(new.path = p) = One(rows[f].path = p)
        /\ One(p = rows[f].path) = One(rows[f].path = p)
        /\ One(p = b.path) \in Nat /\ One(rows[f].path = p) \in Nat
    BY <1>1, <1>r DEF One
  <2> HIDE DEF a1, a2
  <2> QED BY <2>1, <2>2, <2>3, <2>4, <2>5, <2>6, <2>7, <2>8, <2>9
<1>7. OpenOK'
  <2>1. Open => rows'[swap.file] = rows[swap.file]
    BY <1>1, <1>u DEF Books, OpenOK, TypeOK
  <2>2. \A v : v.file = swap.file => (v \in versions' <=> v \in versions)
    BY <1>1, <1>u
  <2> QED BY <1>u, <2>1, <2>2, StaysOpen
<1> QED BY <1>4, <1>5, <1>6, <1>7 DEF Books

\* The parts of a purge.
LEMMA PurgeIs ==
  ASSUME Given, Books, NEW f \in Files, Purge(f)
  PROVE  \E mid \in [Paths -> Nat] :
           /\ mid = Release(refs, VersionsOf(f))
           /\ refs' = Release(mid, {rows[f]})
           /\ disk' = Unlinked(Unlinked(disk, VersionsOf(f), refs'), {rows[f]}, refs')
           /\ versions' = versions \ VersionsOf(f)
           /\ rows' = [rows EXCEPT ![f] = NoRow]
           /\ IsFiniteSet(VersionsOf(f)) /\ VersionsOf(f) \in SUBSET versions
<1> DEFINE mid == Release(refs, VersionsOf(f))
<1>1. IsFiniteSet(VersionsOf(f)) /\ VersionsOf(f) \in SUBSET versions
  BY FS_Subset DEF Books, Numbered, VersionsOf
<1>2. mid \in [Paths -> Nat]
  BY <1>1, ReleaseIs DEF Books, TypeOK
<1>3. refs' = Release(mid, {rows[f]})
  BY DEF Purge
<1> QED BY <1>1, <1>2, <1>3 DEF Purge

\* A purge gives up the references of what it removes.
LEMMA PurgeBooks ==
  ASSUME Given, Books, NEW f \in Files, Purge(f)
  PROVE  Books'
<1> TypeOK /\ Numbered
  BY DEF Books
<1>1. PICK mid \in [Paths -> Nat] :
           /\ mid = Release(refs, VersionsOf(f))
           /\ refs' = Release(mid, {rows[f]})
           /\ disk' = Unlinked(Unlinked(disk, VersionsOf(f), refs'), {rows[f]}, refs')
           /\ versions' = versions \ VersionsOf(f)
           /\ rows' = [rows EXCEPT ![f] = NoRow]
           /\ IsFiniteSet(VersionsOf(f)) /\ VersionsOf(f) \in SUBSET versions
  BY PurgeIs
<1>u. /\ swap' = swap /\ faults' = faults /\ swap.file # f /\ minted' = minted /\ harm' = harm
      /\ answered' \in {answered, Unanswered} /\ Keys' = Keys
  BY DEF Purge, Keys
<1>2. IsFiniteSet(versions')
  BY <1>1, FS_Subset DEF Numbered
<1>4. TypeOK'
  <2>3. refs' \in [Paths -> Nat]
    BY <1>1, ReleaseIs, WithinOne
  <2>6. disk' \in [Paths -> Keys \cup {NoBlob}]
    <3>1. Unlinked(disk, VersionsOf(f), refs') \in [Paths -> Keys \cup {NoBlob}]
      BY UnlinkedIs DEF TypeOK
    <3> QED BY <1>1, <3>1, UnlinkedIs
  <2> QED BY <1>1, <1>u, <2>3, <2>6 DEF TypeOK
<1>5. Numbered'
  BY <1>1, <1>2, <1>u DEF Numbered
<1>6. Counted'
  <2> SUFFICES ASSUME NEW p \in 1 .. minted
               PROVE  Cardinality(InRows(p)') + Cardinality(Within(versions', p)) <= refs'[p]
    BY <1>u DEF Counted, Within
  <2>0. p \in 1 .. MaxBlobs /\ p # 0
    BY DEF Given, TypeOK
  <2>1. /\ Cardinality(InRows(p)) + Cardinality(Within(versions, p)) <= refs[p]
        /\ Cardinality(InRows(p)) \in Nat /\ Cardinality(Within(versions, p)) \in Nat
        /\ refs[p] \in Nat /\ p \in Paths
    BY <2>0, CountedAll
  <2>2. /\ Cardinality(InRows(p)') + One(rows[f].path = p)
              = Cardinality(InRows(p)) + One(NoRow.path = p)
        /\ Cardinality(InRows(p)') \in Nat
    BY <1>1, RowsChange
  <2>3. One(NoRow.path = p) = 0 /\ One(rows[f].path = p) \in Nat
    BY <2>0 DEF NoRow, One
  <2>4. /\ Cardinality(Within(versions, p))
             = Cardinality(Within(versions', p)) + Cardinality(Within(VersionsOf(f), p))
        /\ Cardinality(Within(versions', p)) \in Nat
        /\ Cardinality(Within(VersionsOf(f), p)) \in Nat
    BY <1>1, WithinRemove DEF Numbered
  <2>5. mid[p] + Cardinality(Within(VersionsOf(f), p)) >= refs[p] /\ mid[p] \in Nat
    BY <1>1, <2>1, ReleaseIs DEF TypeOK
  <2>6. refs'[p] + One(rows[f].path = p) >= mid[p] /\ refs'[p] \in Nat
    <3>1. IsFiniteSet({rows[f]}) /\ Cardinality(Within({rows[f]}, p)) = One(rows[f].path = p)
      BY WithinOne, Zenon
    <3>2. /\ Release(mid, {rows[f]}) \in [Paths -> Nat]
          /\ Release(mid, {rows[f]})[p] + Cardinality(Within({rows[f]}, p)) >= mid[p]
      BY <2>1, <3>1, ReleaseIs
    <3> QED BY <1>1, <2>1, <3>1, <3>2
  <2> QED BY <2>1, <2>2, <2>3, <2>4, <2>5, <2>6
<1>7. OpenOK'
  <2>1. Open => rows'[swap.file] = rows[swap.file]
    BY <1>1, <1>u DEF Books, OpenOK, TypeOK
  <2>2. \A v : v.file = swap.file => (v \in versions' <=> v \in versions)
    BY <1>1, <1>u DEF VersionsOf
  <2> QED BY <1>u, <2>1, <2>2, StaysOpen
<1> QED BY <1>4, <1>5, <1>6, <1>7 DEF Books

\* Undoing renames leaves keys where keys or nothing were.
LEMMA UndoneType ==
  ASSUME Given, Books, Open
  PROVE  /\ Undone(disk, swap) \in [Paths -> Keys \cup {NoBlob}]
         /\ To([swap EXCEPT !.step = 3]) = NewPath
<1> TypeOK /\ OpenOK
  BY DEF Books
<1> DEFINE K == Keys \cup {NoBlob}
           s3 == [swap EXCEPT !.step = 3]
<1>1. disk \in [Paths -> K] /\ NoBlob \in K /\ swap.step \in 1 .. 4
  BY DEF TypeOK, OpenOK
<1>2. swap.cur.path \in Paths /\ swap.ver.path \in Paths /\ Swap \in Paths /\ NewPath \in Paths
  BY SwapPaths
<1>3. s3.step = 3 /\ s3.file = swap.file /\ s3.new = swap.new
  BY DEF OpenOK
<1>4. To(s3) = NewPath
  <2> HIDE DEF s3
  <2> QED BY <1>3 DEF To, NewPath
<1> HIDE DEF K, s3
<1>5. Undone(disk, swap) \in [Paths -> K]
  <2>1. Moved(disk, Swap, swap.cur.path) \in [Paths -> K]
    BY <1>1, <1>2, MovedIs
  <2>2. Moved(Moved(disk, swap.cur.path, swap.ver.path), Swap, swap.cur.path) \in [Paths -> K]
    BY <1>1, <1>2, MovedIs
  <2>3. Moved(Moved(Moved(disk, NewPath, Swap), swap.cur.path, swap.ver.path), Swap, swap.cur.path)
          \in [Paths -> K]
    BY <1>1, <1>2, MovedIs
  <2>4. To([swap EXCEPT !.step = 3]) = NewPath
    BY <1>4 DEF s3
  <2> QED BY <1>1, <2>1, <2>2, <2>3, <2>4 DEF Undone
<1> QED BY <1>4, <1>5 DEF K, s3

\* What a restore reads is what it holds.
LEMMA BeginBooks ==
  ASSUME Given, Books, NEW f \in Files, NEW v \in versions, Begin(f, v)
  PROVE  Books' /\ swap' = [step |-> 1, file |-> f, cur |-> rows[f], ver |-> v, new |-> NextNo(f)]
<1> TypeOK /\ Numbered /\ Counted
  BY DEF Books
<1>u. UNCHANGED <<rows, versions, refs, disk, minted, answered, faults>>
      /\ harm' = IF Shared(f, v) THEN harm \cup {"shared"} ELSE harm
  BY DEF Begin
<1>1. swap' = [step |-> 1, file |-> f, cur |-> rows[f], ver |-> v, new |-> NextNo(f)]
  BY DEF Begin
<1>2. /\ swap'.step = 1 /\ swap'.file = f /\ swap'.cur = rows[f] /\ swap'.ver = v
      /\ swap'.new = NextNo(f)
  BY <1>1
<1>3. /\ rows[f] # NoRow /\ v \in VersionsOf(f) /\ NextNo(f) \in 1 .. MaxNo
      /\ \A u \in VersionsOf(f) : u.no < NextNo(f)
  BY NextNoIs DEF Begin, Given
<1>4. TypeOK'
  BY <1>u, <1>2 DEF TypeOK, Keys
<1>5. Numbered' /\ Counted'
  BY <1>u DEF Numbered, Counted, InRows, Within
<1>6. OpenOK'
  <2>1. VersionsOf(f)' = VersionsOf(f)
    BY <1>u DEF VersionsOf
  <2>2. swap' = [step |-> swap'.step, file |-> swap'.file, cur |-> swap'.cur,
                 ver |-> swap'.ver, new |-> swap'.new]
    BY <1>1, <1>2
  <2> QED BY <1>u, <1>2, <1>3, <2>1, <2>2 DEF OpenOK, VersionsOf
<1> QED BY <1>1, <1>4, <1>5, <1>6 DEF Books

\* When the restore is over, nothing is held.
LEMMA NoSwapIs ==
  ASSUME swap' = NoSwap
  PROVE  OpenOK' /\ ~ Open' /\ swap'.step = 0
BY DEF OpenOK, Open, NoSwap

\* The next of the renames, when it succeeds.
NextRename ==
  /\ swap.step \in 1 .. 3 /\ disk[From(swap)] # NoBlob
  /\ disk' = Moved(disk, From(swap), To(swap))
  /\ swap' = [swap EXCEPT !.step = @ + 1]

\* The renames go between the four paths.
LEMMA FromTo ==
  ASSUME Given, Books, Open, swap.step \in 1 .. 3
  PROVE  /\ From(swap) \in {swap.cur.path, swap.ver.path, Swap} /\ From(swap) \in Paths
         /\ To(swap) \in {swap.cur.path, Swap, NewPath} /\ To(swap) \in Paths
<1>1. swap.cur.path \in Paths /\ swap.ver.path \in Paths /\ Swap \in Paths /\ NewPath \in Paths
  BY SwapPaths DEF Books
<1>2. /\ From(swap) \in {swap.cur.path, swap.ver.path, Swap}
      /\ To(swap) \in {swap.cur.path, Swap, NewPath}
  BY DEF From, To, NewPath
<1> QED BY <1>1, <1>2

\* Renames leave the tables alone.
LEMMA RenameBooks ==
  ASSUME Given, Books, Rename
  PROVE  Books' /\ Open
<1> TypeOK /\ Numbered /\ Counted /\ OpenOK
  BY DEF Books
<1>1. Open /\ swap.step \in 1 .. 3
  BY DEF Rename, Open, NoSwap
<1>u. UNCHANGED <<rows, versions, refs, minted, answered, harm>> /\ Keys' = Keys
  BY DEF Rename, Keys
<1>2. Numbered' /\ Counted'
  BY <1>u DEF Numbered, Counted, InRows, Within
<1>3. faults' \in 0 .. MaxFaults
  BY DEF Rename, TypeOK, Given
<1>4. CASE NextRename
  <2>1. disk' \in [Paths -> Keys \cup {NoBlob}]
    <3>1. /\ From(swap) \in Paths /\ To(swap) \in Paths
          /\ disk \in [Paths -> Keys \cup {NoBlob}] /\ NoBlob \in Keys \cup {NoBlob}
      BY <1>1, FromTo DEF TypeOK
    <3> QED BY <1>4, <3>1, MovedIs DEF NextRename
  <2>2. /\ swap'.step = swap.step + 1 /\ swap'.file = swap.file /\ swap'.cur = swap.cur
        /\ swap'.ver = swap.ver /\ swap'.new = swap.new
        /\ swap' = [step |-> swap'.step, file |-> swap'.file, cur |-> swap'.cur,
                    ver |-> swap'.ver, new |-> swap'.new]
    BY <1>1, <1>4 DEF NextRename, OpenOK
  <2>3. TypeOK'
    BY <1>1, <1>u, <1>3, <2>1, <2>2 DEF TypeOK
  <2>4. OpenOK'
    <3>1. VersionsOf(swap.file)' = VersionsOf(swap'.file)
      BY <1>u, <2>2 DEF VersionsOf
    <3> QED BY <1>1, <1>u, <2>2, <3>1 DEF OpenOK, VersionsOf
  <2> QED BY <1>1, <1>2, <2>3, <2>4 DEF Books
<1>5. CASE disk' = Undone(disk, swap) /\ swap' = NoSwap
  <2>1. disk' \in [Paths -> Keys \cup {NoBlob}]
    BY <1>1, <1>5, UndoneType
  <2>2. TypeOK'
    BY <1>5, <1>u, <1>3, <2>1, NoSwapIs DEF TypeOK
  <2> QED BY <1>1, <1>2, <1>5, <2>2, NoSwapIs DEF Books
<1> QED BY <1>4, <1>5 DEF Rename, NextRename

\* So does a crash.
LEMMA CrashBooks ==
  ASSUME Given, Books, Crash
  PROVE  Books'
<1> TypeOK /\ Numbered /\ Counted
  BY DEF Books
<1>u. UNCHANGED <<rows, versions, refs, disk, minted, answered>> /\ Keys' = Keys
      /\ swap' = NoSwap /\ faults' = faults + 1 /\ faults < MaxFaults
  BY DEF Crash, Keys
<1>1. Numbered' /\ Counted'
  BY <1>u DEF Numbered, Counted, InRows, Within
<1>2. harm' \subseteq {"shared", "commit", "crash"}
  BY DEF Crash, TypeOK
<1>3. TypeOK'
  BY <1>u, <1>2, NoSwapIs DEF TypeOK, Given
<1> QED BY <1>u, <1>1, <1>3, NoSwapIs DEF Books

\* What COMMIT does to the tables keeps them in order.
LEMMA RestoredBooks ==
  ASSUME Given, Books, Open, Restored, UNCHANGED <<refs, minted>>
  PROVE  /\ Numbered' /\ Counted'
         /\ rows' \in [Files -> Rows \cup {NoRow}] /\ versions' \subseteq Versions
         /\ rows'[swap.file].path = swap.cur.path /\ rows'[swap.file].key = swap.ver.key
         /\ \A g \in Files \ {swap.file} : rows'[g] = rows[g]
         /\ \E n : /\ n.path = NewPath /\ n.key = swap.cur.key
                   /\ versions' = (versions \ {swap.ver}) \cup {n}
<1> TypeOK /\ Numbered /\ Counted /\ OpenOK
  BY DEF Books
<1> DEFINE f == swap.file
           n == [file |-> f, no |-> swap.new, path |-> NewPath, key |-> swap.cur.key]
           r == [rows[f] EXCEPT !.key = swap.ver.key]
<1>1. /\ f \in Files /\ swap.new \in 1 .. MaxNo /\ swap.cur = rows[f] /\ rows[f] \in Rows
      /\ swap.ver \in VersionsOf(f) /\ swap.ver \in versions
      /\ \A v \in VersionsOf(f) : v.no < swap.new
  BY SwapPaths DEF OpenOK, VersionsOf
<1>2. swap.ver.key \in Keys /\ swap.cur.key \in Keys /\ NewPath \in Paths
  BY SwapPaths DEF Rows, Versions
<1>3. rows' = [rows EXCEPT ![f] = r] /\ versions' = (versions \ {swap.ver}) \cup {n}
  <2>1. rows' = [rows EXCEPT ![f].key = swap.ver.key]
    BY DEF Restored
  <2>2. versions' = (versions \ {swap.ver}) \cup {n}
    BY DEF Restored, NewPath
  <2> QED BY <2>1, <2>2
<1>4. r \in Rows /\ r.path = rows[f].path /\ r.key = swap.ver.key
  BY <1>1, <1>2 DEF Rows
<1>5. n \in Versions /\ n.file = f /\ n.no = swap.new /\ n.path = NewPath /\ n.key = swap.cur.key
  BY <1>1, <1>2 DEF Versions
<1> HIDE DEF n, r
<1>6. /\ rows' \in [Files -> Rows \cup {NoRow}] /\ versions' \subseteq Versions
      /\ rows'[f] = r /\ \A g \in Files \ {f} : rows'[g] = rows[g]
  BY <1>1, <1>3, <1>4, <1>5 DEF TypeOK, Rows, Versions
<1>7. Numbered'
  <2>1. IsFiniteSet(versions \ {swap.ver})
    BY FS_Subset DEF Numbered
  <2>2. IsFiniteSet(versions')
    BY <1>3, <2>1, FS_AddElement
  <2>3. \A v \in versions' : v.path \in 1 .. minted \/ v.path = VersionPath(v.file, v.no)
    BY <1>3, <1>5 DEF Numbered, NewPath
  <2>4. \A v \in versions : v.file = f => v.no # swap.new
    <3>1. \A v \in versions : v.no \in Int
      BY DEF TypeOK
    <3> QED BY <1>1, <3>1 DEF VersionsOf
  <2>5. \A u, v \in versions' : u.file = v.file /\ u.no = v.no => u = v
    BY <1>3, <1>5, <2>4 DEF Numbered
  <2> QED BY <2>2, <2>3, <2>5 DEF Numbered
<1>8. Counted'
  <2> SUFFICES ASSUME NEW p \in 1 .. minted
               PROVE  Cardinality(InRows(p)') + Cardinality(Within(versions', p)) <= refs[p]
    BY DEF Counted, Within
  <2>0. p \in 1 .. MaxBlobs /\ p # NewPath
    <3>1. NewPath \in MaxBlobs + 1 .. Swap - 1 /\ Swap \in Nat
      BY <1>1, PathOf DEF NewPath
    <3> QED BY <3>1 DEF Given, TypeOK
  <2>1. /\ Cardinality(InRows(p)) + Cardinality(Within(versions, p)) <= refs[p]
        /\ Cardinality(InRows(p)) \in Nat /\ Cardinality(Within(versions, p)) \in Nat
        /\ refs[p] \in Nat /\ p \in Paths
    BY <2>0, CountedAll
  <2>2. /\ Cardinality(InRows(p)') + One(rows[f].path = p)
              = Cardinality(InRows(p)) + One(r.path = p)
        /\ Cardinality(InRows(p)') \in Nat
    BY <1>1, <1>3, RowsChange
  <2>3. One(rows[f].path = p) \in Nat
    BY DEF One
  <2>4. Within(versions', p) = Within(versions \ {swap.ver}, p)
    BY <1>3, <1>5, <2>0 DEF Within
  <2>5. /\ Cardinality(Within(versions, p))
             = Cardinality(Within(versions \ {swap.ver}, p)) + Cardinality(Within({swap.ver}, p))
        /\ Cardinality(Within(versions \ {swap.ver}, p)) \in Nat
        /\ Cardinality(Within({swap.ver}, p)) \in Nat
    <3>1. {swap.ver} \in SUBSET versions /\ IsFiniteSet(versions)
      BY <1>1 DEF Numbered
    <3> QED BY <3>1, WithinRemove
  <2> QED BY <1>4, <2>1, <2>2, <2>3, <2>4, <2>5
<1> QED BY <1>1, <1>3, <1>4, <1>5, <1>6, <1>7, <1>8

\* Whether COMMIT succeeds, fails or does so unnoticed, the books stay right.
LEMMA CommitBooks ==
  ASSUME Given, Books, Commit
  PROVE  Books' /\ Open
<1> TypeOK /\ Numbered /\ Counted /\ OpenOK
  BY DEF Books
<1>1. Open
  BY DEF Commit, Open, NoSwap
<1>u. UNCHANGED <<refs, minted>> /\ Keys' = Keys /\ swap' = NoSwap
      /\ answered' \in {answered, Unanswered}
  BY DEF Commit, Keys
<1>2. faults' \in 0 .. MaxFaults /\ harm' \subseteq {"shared", "commit", "crash"}
  <2>1. faults' = faults \/ (faults < MaxFaults /\ faults' = faults + 1)
    BY Zenon DEF Commit
  <2>2. harm' = harm \/ harm' = harm \cup {"commit"}
    BY Zenon DEF Commit
  <2>3. faults \in 0 .. MaxFaults /\ MaxFaults \in Nat
    BY DEF TypeOK, Given
  <2>4. faults' \in 0 .. MaxFaults
    BY <2>1, <2>3
  <2>5. harm' \subseteq {"shared", "commit", "crash"}
    BY <2>2 DEF TypeOK
  <2> QED BY <2>4, <2>5
<1>3. disk' \in [Paths -> Keys \cup {NoBlob}]
  <2>1. disk' = disk \/ disk' = Undone(disk, swap)
    BY DEF Commit
  <2> QED BY <1>1, <2>1, UndoneType DEF TypeOK
<1>4. /\ Numbered' /\ Counted'
      /\ rows' \in [Files -> Rows \cup {NoRow}] /\ versions' \subseteq Versions
  <2>1. CASE Restored
    BY <1>1, <1>u, <2>1, RestoredBooks
  <2>2. CASE UNCHANGED <<rows, versions>>
    BY <1>u, <2>2 DEF Numbered, Counted, InRows, Within, TypeOK, Rows, Versions
  <2> QED BY <2>1, <2>2 DEF Commit
<1>5. TypeOK'
  BY <1>u, <1>2, <1>3, <1>4, NoSwapIs DEF TypeOK, Rows, Versions
<1> QED BY <1>1, <1>u, <1>4, <1>5, NoSwapIs DEF Books

(***************************************************************************)
(* Rows and disk.                                                          *)
(***************************************************************************)

\* The temporary name and the new version's path are nobody's.
LEMMA Unclaimed ==
  ASSUME Given, Books
  PROVE  /\ \A f \in Files : rows[f].path # Swap /\ (Open => rows[f].path # NewPath)
         /\ \A v \in versions : v.path # Swap /\ (Open => v.path # NewPath)
<1> TypeOK /\ Numbered /\ OpenOK
  BY DEF Books
<1>1. minted \in Nat /\ MaxBlobs \in Nat /\ minted <= MaxBlobs /\ Swap \in Nat /\ Swap > MaxBlobs
  BY PlainPaths DEF TypeOK, Given
<1>2. Open => NewPath \in MaxBlobs + 1 .. Swap - 1
  BY PathOf DEF OpenOK, NewPath
<1>3. ASSUME NEW f \in Files PROVE rows[f].path # Swap /\ (Open => rows[f].path # NewPath)
  <2>1. rows[f].path \in 0 .. minted
    <3>1. rows[f] \in Rows \/ rows[f] = NoRow
      BY DEF TypeOK, Rows
    <3> QED BY <1>1, <3>1 DEF Rows, NoRow
  <2> QED BY <1>1, <1>2, <2>1
<1>4. ASSUME NEW v \in versions PROVE v.path # Swap /\ (Open => v.path # NewPath)
  <2>1. v.file \in Files /\ v.no \in 1 .. MaxNo
    BY DEF TypeOK
  <2>2. CASE v.path \in 1 .. minted
    BY <1>1, <1>2, <2>2
  <2>3. CASE v.path = VersionPath(v.file, v.no)
    <3>1. v.path # Swap
      BY <1>1, <2>1, <2>3, PathOf
    <3>2. ASSUME Open, v.path = NewPath PROVE FALSE
      <4>1. v.file = swap.file /\ v.no = swap.new
        BY <2>1, <2>3, <3>2, PathOf DEF NewPath, OpenOK
      <4>2. v \in VersionsOf(swap.file) /\ v.no < swap.new /\ v.no \in Int
        BY <2>1, <3>2, <4>1 DEF VersionsOf, OpenOK
      <4> QED BY <4>1, <4>2
    <3> QED BY <3>1, <3>2
  <2> QED BY <2>2, <2>3 DEF Numbered
<1> QED BY <1>3, <1>4

\* An upload that changes nothing.
LEMMA SameInPlace ==
  ASSUME Given, IInv, UNCHANGED <<rows, versions, refs, disk, minted, swap, faults, harm>>,
         answered' \in [file: Files, sha: Hashes] \cup {Unanswered}
  PROVE  IInv'
<1>1. Books'
  BY DEF IInv, Books, TypeOK, Numbered, Counted, OpenOK, Open, Keys, InRows, Within, VersionsOf
<1>2. InPlace'
  BY DEF IInv, InPlace, Apart, Matched, Staged, Open, NewPath
<1> QED BY <1>1, <1>2 DEF IInv

\* A restore that begins without harm has its two blobs to itself.
LEMMA BeginInPlace ==
  ASSUME Given, IInv, NEW f \in Files, NEW v \in versions, Begin(f, v)
  PROVE  InPlace'
<1> Books /\ InPlace
  BY DEF IInv
<1>1. swap' = [step |-> 1, file |-> f, cur |-> rows[f], ver |-> v, new |-> NextNo(f)]
  BY BeginBooks
<1>2. /\ swap'.step = 1 /\ swap'.file = f /\ swap'.cur = rows[f] /\ swap'.ver = v
  BY <1>1
<1>u. UNCHANGED <<rows, versions, refs, disk, minted, answered, faults>>
      /\ harm' = (IF Shared(f, v) THEN harm \cup {"shared"} ELSE harm)
      /\ swap = NoSwap /\ rows[f] # NoRow
  BY DEF Begin
<1> SUFFICES ASSUME harm' = {} PROVE Apart' /\ Matched' /\ Staged'
  BY DEF InPlace
<1>3. harm = {} /\ ~ Shared(f, v)
  BY <1>u
<1>4. Matched
  BY <1>3 DEF InPlace
<1>5. /\ \A g \in Files : rows[g] # NoRow => disk[rows[g].path] = rows[g].key
      /\ \A u \in versions : disk[u.path] = u.key
  BY <1>4, <1>u DEF Matched, Open
<1>6. Apart'
  BY <1>2, <1>3, <1>u DEF Apart, Shared
<1>7. Matched' /\ Staged'
  BY <1>2, <1>5, <1>u DEF Matched, Staged
<1> QED BY <1>6, <1>7

\* Undoing the renames leads back to where the restore began.
LEMMA UndoneIs ==
  ASSUME Given, IInv, Open, harm = {}
  PROVE  /\ \A f \in Files : rows[f] # NoRow => Undone(disk, swap)[rows[f].path] = rows[f].key
         /\ \A v \in versions : Undone(disk, swap)[v.path] = v.key
<1> Books /\ Apart /\ Matched /\ Staged
  BY DEF IInv, InPlace
<1> TypeOK /\ OpenOK
  BY DEF Books
<1> DEFINE K == Keys \cup {NoBlob}
           C == swap.cur.path
           W == swap.ver.path
           N == NewPath
           S == Swap
           D == Undone(disk, swap)
<1>1. /\ C \in Paths /\ W \in Paths /\ S \in Paths /\ N \in Paths
      /\ C # S /\ C # N /\ N # S /\ swap.cur.key # NoBlob /\ swap.ver.key # NoBlob
      /\ disk \in [Paths -> K] /\ NoBlob \in K
  BY SwapPaths DEF TypeOK
<1>2. C # W /\ W # S /\ W # N /\ swap.ver \in versions /\ swap.step \in 1 .. 4
      /\ swap.file \in Files /\ swap.cur = rows[swap.file]
  BY Unclaimed DEF Apart, OpenOK, VersionsOf
<1>3. /\ D[C] = swap.cur.key /\ D[W] = swap.ver.key
      /\ \A p \in Paths : p \notin {C, W, S, N} => D[p] = disk[p]
  <2>1. CASE swap.step = 1
    BY <2>1 DEF Undone, Staged
  <2>2. CASE swap.step = 2
    <3> DEFINE d1 == Moved(disk, S, C)
    <3>1. D = d1
      BY <2>2 DEF Undone
    <3>2. disk[C] = NoBlob /\ disk[W] = swap.ver.key /\ disk[S] = swap.cur.key
      BY <2>2 DEF Staged
    <3> HIDE DEF K, C, W, S, N, D
    <3>3. d1[C] = disk[S] /\ \A p \in Paths : p # S /\ p # C => d1[p] = disk[p]
      BY <1>1, <3>2, MovedIs
    <3> HIDE DEF d1
    <3> QED BY <1>1, <1>2, <3>1, <3>2, <3>3
  <2>3. CASE swap.step = 3
    <3> DEFINE d1 == Moved(disk, C, W)
               d2 == Moved(d1, S, C)
    <3>1. D = d2
      BY <2>3 DEF Undone
    <3>2. disk[C] = swap.ver.key /\ disk[W] = NoBlob /\ disk[S] = swap.cur.key
      BY <2>3 DEF Staged
    <3> HIDE DEF K, C, W, S, N, D
    <3>3. /\ d1 \in [Paths -> K] /\ d1[W] = disk[C]
          /\ \A p \in Paths : p # W /\ p # C => d1[p] = disk[p]
      BY <1>1, <1>2, <3>2, MovedIs
    <3> HIDE DEF d1
    <3>4. d2[C] = d1[S] /\ \A p \in Paths : p # S /\ p # C => d2[p] = d1[p]
      BY <1>1, <1>2, <3>2, <3>3, MovedIs
    <3> HIDE DEF d2
    <3> QED BY <1>1, <1>2, <3>1, <3>2, <3>3, <3>4
  <2>4. CASE swap.step = 4
    <3> DEFINE d0 == Moved(disk, N, S)
               d1 == Moved(d0, C, W)
               d2 == Moved(d1, S, C)
    <3>1. D = d2
      BY <2>4, UndoneType DEF Undone
    <3>2. disk[C] = swap.ver.key /\ disk[W] = NoBlob /\ disk[N] = swap.cur.key
      BY <2>4 DEF Staged
    <3> HIDE DEF K, C, W, S, N, D
    <3>3. /\ d0 \in [Paths -> K] /\ d0[S] = disk[N]
          /\ \A p \in Paths : p # S /\ p # N => d0[p] = disk[p]
      BY <1>1, <1>2, <3>2, MovedIs
    <3> HIDE DEF d0
    <3>4. /\ d1 \in [Paths -> K] /\ d1[W] = d0[C]
          /\ \A p \in Paths : p # W /\ p # C => d1[p] = d0[p]
      BY <1>1, <1>2, <3>2, <3>3, MovedIs
    <3> HIDE DEF d1
    <3>5. d2[C] = d1[S] /\ \A p \in Paths : p # S /\ p # C => d2[p] = d1[p]
      BY <1>1, <1>2, <3>2, <3>3, <3>4, MovedIs
    <3> HIDE DEF d2
    <3> QED BY <1>1, <1>2, <3>1, <3>2, <3>3, <3>4, <3>5
  <2> QED BY <1>2, <2>1, <2>2, <2>3, <2>4
<1> HIDE DEF D
<1>4. ASSUME NEW f \in Files, rows[f] # NoRow PROVE D[rows[f].path] = rows[f].key
  <2>1. CASE f = swap.file
    BY <1>2, <1>3, <2>1
  <2>2. CASE f # swap.file
    <3>1. rows[f].path \notin {C, W, S, N}
      BY <2>2, Unclaimed DEF Apart
    <3>2. rows[f].path \in Paths
      <4>1. rows[f].path \in 1 .. minted
        BY <1>4 DEF TypeOK
      <4> QED BY <4>1, PlainPaths DEF TypeOK, Given
    <3> QED BY <1>3, <1>4, <2>2, <3>1, <3>2 DEF Matched
  <2> QED BY <2>1, <2>2
<1>5. ASSUME NEW v \in versions PROVE D[v.path] = v.key
  <2>1. CASE v = swap.ver
    BY <1>3, <2>1
  <2>2. CASE v # swap.ver
    <3>1. v.path \notin {C, W, S, N}
      BY <2>2, Unclaimed DEF Apart
    <3>2. v.path \in Paths
      BY DEF TypeOK
    <3> QED BY <1>3, <2>2, <3>1, <3>2 DEF Matched
  <2> QED BY <2>1, <2>2
<1> QED BY <1>4, <1>5 DEF D

\* A rename takes a blob to where the next stage expects it; a failed one takes all back.
LEMMA RenameInPlace ==
  ASSUME Given, IInv, Rename
  PROVE  InPlace'
<1> Books /\ InPlace
  BY DEF IInv
<1> TypeOK /\ OpenOK
  BY DEF Books
<1>1. Open /\ swap.step \in 1 .. 3
  BY DEF Rename, Open, NoSwap
<1>u. UNCHANGED <<rows, versions, refs, minted, answered, harm>>
  BY DEF Rename
<1> SUFFICES ASSUME harm = {} PROVE Apart' /\ Matched' /\ Staged'
  BY <1>u DEF InPlace
<1>2. Apart /\ Matched /\ Staged
  BY DEF InPlace
<1>3. CASE disk' = Undone(disk, swap) /\ swap' = NoSwap
  <2>1. ~ Open'
    BY <1>3, NoSwapIs
  <2>2. Matched'
    BY <1>1, <1>3, <1>u, UndoneIs DEF Matched
  <2> QED BY <2>1, <2>2 DEF Apart, Staged
<1>4. CASE NextRename
  <2> DEFINE K == Keys \cup {NoBlob}
             C == swap.cur.path
             W == swap.ver.path
             N == NewPath
             S == Swap
  <2>1. /\ C \in Paths /\ W \in Paths /\ S \in Paths /\ N \in Paths
        /\ C # S /\ C # N /\ N # S /\ swap.cur.key # NoBlob /\ swap.ver.key # NoBlob
        /\ disk \in [Paths -> K] /\ NoBlob \in K
    BY <1>1, SwapPaths DEF TypeOK
  <2>2. C # W /\ W # S /\ W # N /\ swap.ver \in versions
        /\ swap.file \in Files /\ swap.cur = rows[swap.file]
    BY <1>1, <1>2, Unclaimed DEF Apart, OpenOK, VersionsOf
  <2>3. /\ swap'.step = swap.step + 1 /\ swap'.file = swap.file /\ swap'.cur = swap.cur
        /\ swap'.ver = swap.ver /\ swap'.new = swap.new
    BY <1>1, <1>4 DEF NextRename, OpenOK
  <2>o. Open'
    BY <1>1, <2>3 DEF Open, NoSwap
  <2>n. NewPath' = NewPath
    BY <2>3 DEF NewPath
  <2>a. Apart'
    BY <1>1, <1>2, <1>u, <2>3 DEF Apart
  <2>4. /\ \A p \in Paths : p \notin {C, W, S, N} => disk'[p] = disk[p]
        /\ Staged'
    <3>1. CASE swap.step = 1
      <4>1. disk' = Moved(disk, C, S) /\ disk[C] = swap.cur.key /\ disk[W] = swap.ver.key
        BY <1>1, <1>2, <1>4, <3>1 DEF NextRename, From, To, Staged
      <4>2. swap'.step = 2
        BY <2>3, <3>1
      <4> HIDE DEF K, C, W, S, N
      <4>3. disk'[S] = disk[C] /\ disk'[C] = NoBlob /\ \A p \in Paths : p # S /\ p # C => disk'[p] = disk[p]
        BY <2>1, <2>2, <4>1, MovedIs
      <4>4. disk'[C] = NoBlob /\ disk'[W] = swap.ver.key /\ disk'[S] = swap.cur.key
        BY <2>1, <2>2, <4>1, <4>3
      <4>5. Staged'
        BY <2>3, <4>2, <4>4 DEF Staged, C, W, S
      <4> QED BY <4>3, <4>5
    <3>2. CASE swap.step = 2
      <4>1. disk' = Moved(disk, W, C) /\ disk[S] = swap.cur.key /\ disk[W] = swap.ver.key
        BY <1>1, <1>2, <1>4, <3>2 DEF NextRename, From, To, Staged
      <4>2. swap'.step = 3
        BY <2>3, <3>2
      <4> HIDE DEF K, C, W, S, N
      <4>3. disk'[C] = disk[W] /\ disk'[W] = NoBlob /\ \A p \in Paths : p # C /\ p # W => disk'[p] = disk[p]
        BY <2>1, <2>2, <4>1, MovedIs
      <4>4. disk'[C] = swap.ver.key /\ disk'[W] = NoBlob /\ disk'[S] = swap.cur.key
        BY <2>1, <2>2, <4>1, <4>3
      <4>5. Staged'
        BY <2>3, <4>2, <4>4 DEF Staged, C, W, S
      <4> QED BY <4>3, <4>5
    <3>3. CASE swap.step = 3
      <4>1. disk' = Moved(disk, S, N) /\ disk[S] = swap.cur.key /\ disk[C] = swap.ver.key
            /\ disk[W] = NoBlob
        BY <1>1, <1>2, <1>4, <3>3 DEF NextRename, From, To, Staged, NewPath
      <4>2. swap'.step = 4
        BY <2>3, <3>3
      <4> HIDE DEF K, C, W, S, N
      <4>3. disk'[N] = disk[S] /\ \A p \in Paths : p # S /\ p # N => disk'[p] = disk[p]
        BY <2>1, <2>2, <4>1, MovedIs
      <4>4. disk'[C] = swap.ver.key /\ disk'[W] = NoBlob /\ disk'[N] = swap.cur.key
        BY <2>1, <2>2, <4>1, <4>3
      <4>5. Staged'
        BY <2>3, <2>n, <4>2, <4>4 DEF Staged, C, W, N
      <4> QED BY <4>3, <4>5
    <3> QED BY <1>1, <3>1, <3>2, <3>3
  <2>5. Matched'
    <3>1. ASSUME NEW f \in Files, rows[f] # NoRow, swap.file # f
          PROVE  disk'[rows[f].path] = rows[f].key
      <4>1. rows[f].path \notin {C, W, S, N}
        BY <1>1, <1>2, <3>1, Unclaimed DEF Apart
      <4>2. rows[f].path \in 1 .. minted
        BY <3>1 DEF TypeOK
      <4>3. rows[f].path \in Paths
        BY <4>2, PlainPaths DEF TypeOK, Given
      <4> QED BY <1>2, <2>4, <3>1, <4>1, <4>3 DEF Matched
    <3>2. ASSUME NEW v \in versions, swap.ver # v PROVE disk'[v.path] = v.key
      <4>1. v.path \notin {C, W, S, N} /\ v.path \in Paths
        BY <1>1, <1>2, <3>2, Unclaimed DEF Apart, TypeOK
      <4> QED BY <1>2, <2>4, <3>2, <4>1 DEF Matched
    <3> HIDE DEF K, C, W, S, N
    <3> QED BY <1>u, <2>3, <2>o, <3>1, <3>2 DEF Matched
  <2> QED BY <2>a, <2>4, <2>5
<1> QED BY <1>3, <1>4 DEF Rename, NextRename

\* After COMMIT the exchanged rows find the exchanged blobs.
LEMMA CommitInPlace ==
  ASSUME Given, IInv, Commit
  PROVE  InPlace'
<1> Books /\ InPlace
  BY DEF IInv
<1> TypeOK /\ OpenOK
  BY DEF Books
<1>1. Open /\ swap.step = 4 /\ swap' = NoSwap /\ ~ Open' /\ UNCHANGED <<refs, minted>>
  BY NoSwapIs DEF Commit, Open, NoSwap
<1> SUFFICES ASSUME harm' = {} PROVE Matched'
  BY <1>1 DEF InPlace, Apart, Staged
<1>2. harm = {} /\ (\/ Restored /\ UNCHANGED disk
                    \/ disk' = Undone(disk, swap) /\ UNCHANGED <<rows, versions>>)
  BY DEF Commit
<1>3. Apart /\ Matched /\ Staged
  BY <1>2 DEF InPlace
<1>4. CASE Restored /\ UNCHANGED disk
  <2>1. /\ rows'[swap.file].path = swap.cur.path /\ rows'[swap.file].key = swap.ver.key
        /\ \A g \in Files \ {swap.file} : rows'[g] = rows[g]
        /\ \E n : /\ n.path = NewPath /\ n.key = swap.cur.key
                  /\ versions' = (versions \ {swap.ver}) \cup {n}
    BY <1>1, <1>4, RestoredBooks
  <2>2. disk[swap.cur.path] = swap.ver.key /\ disk[NewPath] = swap.cur.key
    BY <1>1, <1>3 DEF Staged
  <2>3. \A f \in Files : rows'[f] # NoRow => disk[rows'[f].path] = rows'[f].key
    BY <1>3, <2>1, <2>2 DEF Matched
  <2>4. \A v \in versions' : disk[v.path] = v.key
    BY <1>3, <2>1, <2>2 DEF Matched
  <2> QED BY <1>4, <2>3, <2>4 DEF Matched
<1>5. CASE disk' = Undone(disk, swap) /\ UNCHANGED <<rows, versions>>
  BY <1>1, <1>2, <1>5, UndoneIs DEF Matched
<1> QED BY <1>2, <1>4, <1>5

\* A crash before the first rename leaves everything in place.
LEMMA CrashInPlace ==
  ASSUME Given, IInv, Crash
  PROVE  InPlace'
<1> Books /\ InPlace
  BY DEF IInv
<1>1. Open /\ swap' = NoSwap /\ ~ Open' /\ UNCHANGED <<rows, versions, disk>>
  BY NoSwapIs DEF Crash, Open
<1> SUFFICES ASSUME harm' = {} PROVE Matched'
  BY <1>1 DEF InPlace, Apart, Staged
<1>2. harm = {} /\ swap.step = 1
  BY DEF Crash
<1>3. Matched /\ Staged /\ OpenOK
  BY <1>2 DEF InPlace, Books
<1>4. disk[swap.cur.path] = swap.cur.key /\ disk[swap.ver.path] = swap.ver.key
      /\ swap.cur = rows[swap.file]
  BY <1>1, <1>2, <1>3 DEF Staged, OpenOK
<1> QED BY <1>1, <1>3, <1>4 DEF Matched

\* What an upload or a purge of another file f changes on disk: it writes W, then
\* removes the blobs without references of f's old row and of its versions in gone.
Elsewhere(f, gone, W) ==
  /\ f \in Files /\ ~(Open /\ swap.file = f) /\ swap' = swap
  /\ \A g \in Files \ {f} : rows'[g] = rows[g]
  /\ rows'[f] = NoRow \/ /\ rows'[f].path \in 1 .. minted'
                         /\ W[rows'[f].path] = rows'[f].key
                         /\ Open => rows'[f].path \notin {swap.cur.path, swap.ver.path}
  /\ gone \in SUBSET versions
  /\ \A u \in gone : u.file = f /\ u \notin versions'
  /\ \A v \in versions' \ versions :
       rows[f] # NoRow /\ v.path = rows[f].path /\ v.key = rows[f].key
  /\ minted' \in minted .. MaxBlobs
  /\ \A p \in Paths : p \in 1 .. minted \/ p > MaxBlobs => W[p] = disk[p]
  /\ \A p \in Paths :
       \/ disk'[p] = W[p]
       \/ refs'[p] = 0 /\ ((rows[f] # NoRow /\ rows[f].path = p) \/ \E u \in gone : u.path = p)

\* It leaves alone the blobs of all rows and versions that stay.
LEMMA Untouched ==
  ASSUME Given, Books, Books', NEW f, NEW gone, NEW W, Elsewhere(f, gone, W)
  PROVE  /\ \A p \in 1 .. minted' :
              (\E g \in Files : rows'[g].path = p) \/ (\E v \in versions' : v.path = p)
                => disk'[p] = W[p]
         /\ \A v \in versions : v \in versions' => disk'[v.path] = disk[v.path]
         /\ disk'[Swap] = disk[Swap] /\ (Open => disk'[NewPath] = disk[NewPath])
<1> TypeOK /\ Numbered /\ OpenOK
  BY DEF Books
<1>m. /\ minted \in Nat /\ MaxBlobs \in Nat /\ minted <= MaxBlobs
      /\ minted' \in Nat /\ minted <= minted' /\ minted' <= MaxBlobs
      /\ 1 .. MaxBlobs \subseteq Paths /\ Swap \in Paths /\ Swap > MaxBlobs
  BY PlainPaths DEF Elsewhere, TypeOK, Given
<1>1. ASSUME NEW p \in 1 .. minted',
             (\E g \in Files : rows'[g].path = p) \/ (\E v \in versions' : v.path = p)
      PROVE  disk'[p] = W[p]
  <2>1. refs'[p] # 0
    BY <1>1, InUse DEF Books
  <2>2. p \in Paths
    BY <1>m
  <2> QED BY <2>1, <2>2 DEF Elsewhere
<1>2. ASSUME NEW p \in Paths, p > MaxBlobs, ~ \E u \in gone : u.path = p
      PROVE  disk'[p] = disk[p]
  <2>1. rows[f] # NoRow => rows[f].path \in 1 .. minted
    BY DEF TypeOK, Elsewhere
  <2>2. ~(rows[f] # NoRow /\ rows[f].path = p)
    BY <1>m, <1>2, <2>1
  <2> QED BY <1>2, <2>2 DEF Elsewhere
<1>3. ASSUME NEW v \in versions, v \in versions'
      PROVE  disk'[v.path] = disk[v.path]
  <2>1. v.path \in Paths /\ v.file \in Files /\ v.no \in 1 .. MaxNo
    BY DEF TypeOK
  <2>2. CASE v.path \in 1 .. minted
    <3>1. v.path \in 1 .. minted'
      BY <1>m, <2>2
    <3>2. disk'[v.path] = W[v.path]
      BY <1>1, <1>3, <3>1
    <3> QED BY <2>1, <2>2, <3>2 DEF Elsewhere
  <2>3. CASE v.path \notin 1 .. minted
    <3>1. v.path = VersionPath(v.file, v.no)
      BY <2>3 DEF Numbered
    <3>2. v.path > MaxBlobs
      <4>1. VersionPath(v.file, v.no) \in MaxBlobs + 1 .. Swap - 1 /\ Swap \in Nat
        BY <2>1, PathOf
      <4> QED BY <1>m, <3>1, <4>1
    <3>3. ASSUME NEW u \in gone, u.path = v.path PROVE FALSE
      <4>1. u \in versions /\ u # v /\ u.file \in Files /\ u.no \in 1 .. MaxNo
        BY <1>3 DEF Elsewhere, TypeOK
      <4>2. u.path = VersionPath(u.file, u.no)
        BY <2>3, <3>3, <4>1 DEF Numbered
      <4>3. u.file = v.file /\ u.no = v.no
        <5>1. VersionPath(v.file, v.no) = VersionPath(u.file, u.no)
          BY <3>1, <3>3, <4>2
        <5>2. \A g \in Files, k \in 1 .. MaxNo :
                VersionPath(v.file, v.no) = VersionPath(g, k) => v.file = g /\ v.no = k
          BY <2>1, PathOf
        <5> QED BY <4>1, <5>1, <5>2
      <4> QED BY <4>1, <4>3 DEF Numbered
    <3> QED BY <1>2, <2>1, <3>2, <3>3
  <2> QED BY <2>2, <2>3
<1>4. disk'[Swap] = disk[Swap]
  <2>1. \A u \in gone : u.path # Swap
    BY Unclaimed DEF Elsewhere
  <2> QED BY <1>2, <1>m, <2>1
<1>5. Open => disk'[NewPath] = disk[NewPath]
  <2> SUFFICES ASSUME Open PROVE disk'[NewPath] = disk[NewPath]
    OBVIOUS
  <2>1. \A u \in gone : u.path # NewPath
    BY Unclaimed DEF Elsewhere
  <2>2. NewPath \in MaxBlobs + 1 .. Swap - 1 /\ NewPath \in Paths /\ Swap \in Nat
    BY PathOf DEF OpenOK, NewPath
  <2> QED BY <1>2, <1>m, <2>1, <2>2
<1> QED BY <1>1, <1>3, <1>4, <1>5

\* So the rows stay matched, and an open restore stays apart and staged.
LEMMA ElsewhereInPlace ==
  ASSUME Given, Books, Books', Apart, Matched, Staged,
         NEW f, NEW gone, NEW W, Elsewhere(f, gone, W)
  PROVE  Apart' /\ Matched' /\ Staged'
<1> TypeOK /\ Numbered /\ OpenOK /\ OpenOK'
  BY DEF Books
<1>s. swap' = swap /\ f \in Files /\ (Open => swap.file # f) /\ Open' = Open /\ NewPath' = NewPath
  BY DEF Elsewhere, Open, NewPath
<1>m. /\ minted \in Nat /\ MaxBlobs \in Nat /\ minted <= MaxBlobs /\ minted' \in Nat
      /\ minted <= minted' /\ 1 .. minted \subseteq Paths /\ 1 .. minted \subseteq 1 .. minted'
  BY PlainPaths DEF Elsewhere, TypeOK, Given
<1>o. Open => /\ swap.file \in Files /\ swap.cur = rows[swap.file] /\ swap.cur # NoRow
              /\ swap.ver \in versions /\ swap.ver \in versions'
              /\ rows'[swap.file] = rows[swap.file]
              /\ swap.cur.path \in Paths /\ swap.ver.path \in Paths
  BY <1>s, SwapPaths DEF OpenOK, VersionsOf, Elsewhere
<1>w. \A p \in 1 .. minted : W[p] = disk[p]
  BY <1>m DEF Elsewhere
<1>r. \A g \in Files : rows[g] # NoRow => rows[g].path \in 1 .. minted
  BY DEF TypeOK
<1>1. \A p \in 1 .. minted' :
         (\E g \in Files : rows'[g].path = p) \/ (\E v \in versions' : v.path = p)
           => disk'[p] = W[p]
  BY Untouched
<1>2. \A v \in versions : v \in versions' => disk'[v.path] = disk[v.path]
  BY Untouched
<1>3. Apart'
  <2> SUFFICES ASSUME Open
               PROVE  /\ \A g \in Files \ {swap.file} : rows'[g].path \notin {swap.cur.path, swap.ver.path}
                      /\ \A u \in versions' \ {swap.ver} : u.path \notin {swap.cur.path, swap.ver.path}
    BY <1>s DEF Apart
  <2>1. 0 \notin {swap.cur.path, swap.ver.path}
    BY <1>o DEF Paths
  <2>2. rows'[f].path \notin {swap.cur.path, swap.ver.path}
    BY <2>1 DEF Elsewhere, NoRow
  <2>3. \A g \in Files \ {swap.file} : rows'[g].path \notin {swap.cur.path, swap.ver.path}
    BY <2>2 DEF Elsewhere, Apart
  <2>4. \A u \in versions' \ {swap.ver} : u.path \notin {swap.cur.path, swap.ver.path}
    BY <1>s DEF Elsewhere, Apart
  <2> QED BY <2>3, <2>4
<1>4. ASSUME NEW g \in Files, rows'[g] # NoRow, ~(Open /\ swap.file = g)
      PROVE  disk'[rows'[g].path] = rows'[g].key
  <2>1. CASE g = f
    BY <1>1, <1>4, <2>1 DEF Elsewhere
  <2>2. CASE g # f
    <3>1. rows'[g] = rows[g] /\ rows[g].path \in 1 .. minted
      BY <1>4, <1>r, <2>2 DEF Elsewhere
    <3>2. disk'[rows[g].path] = W[rows[g].path]
      BY <1>1, <1>m, <3>1
    <3> QED BY <1>4, <1>w, <3>1, <3>2 DEF Matched
  <2> QED BY <2>1, <2>2
<1>5. ASSUME NEW v \in versions', ~(Open /\ swap.ver = v) PROVE disk'[v.path] = v.key
  <2>1. CASE v \in versions
    BY <1>2, <1>5, <2>1 DEF Matched
  <2>2. CASE v \notin versions
    <3>1. rows[f] # NoRow /\ v.path = rows[f].path /\ v.key = rows[f].key
      BY <2>2 DEF Elsewhere
    <3>2. v.path \in 1 .. minted
      BY <1>r, <1>s, <3>1
    <3>3. disk'[v.path] = W[v.path]
      BY <1>1, <1>m, <3>2
    <3> QED BY <1>s, <1>w, <3>1, <3>2, <3>3 DEF Matched
  <2> QED BY <2>1, <2>2
<1>6. Matched'
  BY <1>s, <1>4, <1>5 DEF Matched
<1>7. Staged'
  <2> SUFFICES ASSUME Open
               PROVE  /\ disk'[swap.cur.path] = disk[swap.cur.path]
                      /\ disk'[swap.ver.path] = disk[swap.ver.path]
                      /\ disk'[Swap] = disk[Swap] /\ disk'[NewPath] = disk[NewPath]
    BY <1>s DEF Staged
  <2>1. swap.cur.path \in 1 .. minted /\ rows'[swap.file].path = swap.cur.path
    BY <1>o, <1>r
  <2>2. disk'[swap.cur.path] = W[swap.cur.path]
    BY <1>1, <1>m, <1>o, <2>1
  <2> QED BY <1>2, <1>o, <1>w, <2>1, <2>2, Untouched
<1> QED BY <1>3, <1>6, <1>7

\* Where the content of an upload is stored is in place, unless the path is being exchanged.
LEMMA StoredInPlace ==
  ASSUME Given, Books, Matched, NEW f \in Files, NEW h \in Hashes, NEW b \in Stored(f, h),
         Mint(b), ~ Joins(b.path)
  PROVE  /\ minted' \in minted .. MaxBlobs
         /\ b.path \in 1 .. minted' /\ Written(b)[b.path] = b.key
         /\ Open => b.path \notin {swap.cur.path, swap.ver.path}
         /\ \A p \in Paths : p \in 1 .. minted \/ p > MaxBlobs => Written(b)[p] = disk[p]
<1> TypeOK /\ OpenOK
  BY DEF Books
<1>m. minted \in Nat /\ MaxBlobs \in Nat
  BY DEF Given, TypeOK
<1>1. /\ minted' \in minted .. MaxBlobs
      /\ b.path \in 1 .. minted'
      /\ \/ /\ minted' = minted + 1 /\ b.path = minted + 1 /\ Written(b)[b.path] = b.key
            /\ \A p \in Paths : p # minted + 1 => Written(b)[p] = disk[p]
         \/ /\ Written(b) = disk /\ minted' = minted
            /\ \E g \in Files \ {f} : /\ rows[g] # NoRow
                                      /\ b.path = rows[g].path /\ b.key = rows[g].key
  BY StoredIs
<1>2. Open => b.path \notin {swap.cur.path, swap.ver.path}
  BY DEF Joins, Open
<1>3. CASE /\ minted' = minted + 1 /\ b.path = minted + 1 /\ Written(b)[b.path] = b.key
           /\ \A p \in Paths : p # minted + 1 => Written(b)[p] = disk[p]
  <2>1. \A p \in Paths : p \in 1 .. minted \/ p > MaxBlobs => p # minted + 1
    BY <1>m, <1>1, <1>3
  <2> QED BY <1>1, <1>2, <1>3, <2>1
<1>4. ASSUME Written(b) = disk, NEW g \in Files \ {f}, rows[g] # NoRow,
             b.path = rows[g].path, b.key = rows[g].key
      PROVE  Written(b)[b.path] = b.key
  <2>1. ~(Open /\ swap.file = g)
    BY <1>2, <1>4 DEF OpenOK
  <2> QED BY <1>4, <2>1 DEF Matched
<1> QED BY <1>1, <1>2, <1>3, <1>4

\* Uploads and purges are such steps.
LEMMA InsertInPlace ==
  ASSUME Given, IInv, Books', NEW f \in Files, NEW h \in Hashes, Insert(f, h)
  PROVE  InPlace'
<1> Books /\ InPlace
  BY DEF IInv
<1> TypeOK /\ OpenOK
  BY DEF Books
<1>1. PICK b \in Stored(f, h) :
        /\ rows' = [rows EXCEPT ![f] = [path |-> b.path, key |-> b.key, sha |-> h]]
        /\ disk' = Written(b) /\ Mint(b)
        /\ harm' = IF Joins(b.path) THEN harm \cup {"shared"} ELSE harm
  BY DEF Insert
<1>u. versions' = versions /\ swap' = swap /\ rows[f] = NoRow
  BY DEF Insert
<1> SUFFICES ASSUME harm' = {} PROVE Apart' /\ Matched' /\ Staged'
  BY DEF InPlace
<1>2. harm = {} /\ ~ Joins(b.path)
  BY <1>1
<1>3. Apart /\ Matched /\ Staged
  BY <1>2 DEF InPlace
<1>4. /\ minted' \in minted .. MaxBlobs
      /\ b.path \in 1 .. minted' /\ Written(b)[b.path] = b.key
      /\ Open => b.path \notin {swap.cur.path, swap.ver.path}
      /\ \A p \in Paths : p \in 1 .. minted \/ p > MaxBlobs => Written(b)[p] = disk[p]
  BY <1>1, <1>2, <1>3, StoredInPlace
<1>5. /\ rows'[f].path = b.path /\ rows'[f].key = b.key
      /\ \A g \in Files \ {f} : rows'[g] = rows[g]
  BY <1>1 DEF TypeOK
<1>6. ~(Open /\ swap.file = f)
  BY <1>u DEF OpenOK
<1>7. Elsewhere(f, {}, Written(b))
  BY <1>1, <1>u, <1>4, <1>5, <1>6 DEF Elsewhere
<1> QED BY <1>3, <1>7, ElsewhereInPlace

\* An overwrite writes one blob, and may remove old ones of its file.
LEMMA OverwriteInPlace ==
  ASSUME Given, IInv, Books', NEW f \in Files, NEW h \in Hashes, Overwrite(f, h)
  PROVE  InPlace'
<1> Books /\ InPlace
  BY DEF IInv
<1> TypeOK /\ OpenOK
  BY DEF Books
<1>0. PICK b, new, gone, mid : Overwritten(f, h, b, new, gone, mid)
  BY OverwriteIs
<1>1. /\ b \in Stored(f, h) /\ gone \in SUBSET (versions \cup {new})
      /\ rows' = [rows EXCEPT ![f] = [path |-> b.path, key |-> b.key, sha |-> h]]
      /\ new.path = rows[f].path /\ new.key = rows[f].key
      /\ \A v \in gone : v.file = f
      /\ versions' = (versions \cup {new}) \ gone
      /\ disk' = Unlinked(Unlinked(Written(b), gone, refs'), {rows[f]}, refs')
      /\ Mint(b)
      /\ harm' = IF Joins(b.path) THEN harm \cup {"shared"} ELSE harm
  BY <1>0 DEF Overwritten
<1>u. swap' = swap /\ swap.file # f /\ rows[f] # NoRow
  BY DEF Overwrite
<1> SUFFICES ASSUME harm' = {} PROVE Apart' /\ Matched' /\ Staged'
  BY DEF InPlace
<1>2. harm = {} /\ ~ Joins(b.path)
  BY <1>1
<1>3. Apart /\ Matched /\ Staged
  BY <1>2 DEF InPlace
<1>4. /\ minted' \in minted .. MaxBlobs
      /\ b.path \in 1 .. minted' /\ Written(b)[b.path] = b.key
      /\ Open => b.path \notin {swap.cur.path, swap.ver.path}
      /\ \A p \in Paths : p \in 1 .. minted \/ p > MaxBlobs => Written(b)[p] = disk[p]
  BY <1>1, <1>2, <1>3, StoredInPlace
<1>5. /\ rows'[f].path = b.path /\ rows'[f].key = b.key
      /\ \A g \in Files \ {f} : rows'[g] = rows[g]
  BY <1>1 DEF TypeOK
<1>6. \A p \in Paths :
        \/ disk'[p] = Written(b)[p]
        \/ refs'[p] = 0 /\ (rows[f].path = p \/ \E u \in gone \cap versions : u.path = p)
  <2>1. \A p \in Paths :
          \/ Unlinked(Written(b), gone, refs')[p] = Written(b)[p]
          \/ refs'[p] = 0 /\ \E u \in gone : u.path = p
    BY DEF Unlinked
  <2>2. \A p \in Paths : \/ disk'[p] = Unlinked(Written(b), gone, refs')[p]
                         \/ refs'[p] = 0 /\ rows[f].path = p
    BY <1>1 DEF Unlinked
  <2>3. \A u \in gone : u \in gone \cap versions \/ u.path = rows[f].path
    BY <1>1
  <2> QED BY <2>1, <2>2, <2>3
<1>7. Elsewhere(f, gone \cap versions, Written(b))
  BY <1>1, <1>u, <1>4, <1>5, <1>6 DEF Elsewhere
<1> QED BY <1>3, <1>7, ElsewhereInPlace

\* A purge removes blobs of its file only.
LEMMA PurgeInPlace ==
  ASSUME Given, IInv, Books', NEW f \in Files, Purge(f)
  PROVE  InPlace'
<1> Books /\ InPlace
  BY DEF IInv
<1> TypeOK /\ OpenOK
  BY DEF Books
<1>1. /\ disk' = Unlinked(Unlinked(disk, VersionsOf(f), refs'), {rows[f]}, refs')
      /\ versions' = versions \ VersionsOf(f)
      /\ rows' = [rows EXCEPT ![f] = NoRow]
      /\ VersionsOf(f) \in SUBSET versions
  BY PurgeIs
<1>u. swap' = swap /\ swap.file # f /\ rows[f] # NoRow /\ minted' = minted /\ harm' = harm
  BY DEF Purge
<1> SUFFICES ASSUME harm = {} PROVE Apart' /\ Matched' /\ Staged'
  BY <1>u DEF InPlace
<1>3. Apart /\ Matched /\ Staged
  BY DEF InPlace
<1>5. rows'[f] = NoRow /\ \A g \in Files \ {f} : rows'[g] = rows[g]
  BY <1>1 DEF TypeOK
<1>6. \A p \in Paths :
        \/ disk'[p] = disk[p]
        \/ refs'[p] = 0 /\ (rows[f].path = p \/ \E u \in VersionsOf(f) : u.path = p)
  <2>1. \A p \in Paths :
          \/ Unlinked(disk, VersionsOf(f), refs')[p] = disk[p]
          \/ refs'[p] = 0 /\ \E u \in VersionsOf(f) : u.path = p
    BY DEF Unlinked
  <2>2. \A p \in Paths : \/ disk'[p] = Unlinked(disk, VersionsOf(f), refs')[p]
                         \/ refs'[p] = 0 /\ rows[f].path = p
    BY <1>1 DEF Unlinked
  <2> QED BY <2>1, <2>2
<1>7. \A u \in VersionsOf(f) : u.file = f /\ u \notin versions'
  BY <1>1 DEF VersionsOf
<1>8. minted' \in minted .. MaxBlobs
  BY <1>u DEF TypeOK, Given
<1>9. Elsewhere(f, VersionsOf(f), disk)
  BY <1>1, <1>u, <1>5, <1>6, <1>7, <1>8 DEF Elsewhere
<1> QED BY <1>3, <1>9, ElsewhereInPlace

\* Nothing is stored at first.
LEMMA Initially ==
  ASSUME Given, Init
  PROVE  IInv
<1>1. ~ Open /\ OpenOK /\ swap.step = 0
  BY DEF Init, Open, OpenOK, NoSwap
<1>2. TypeOK
  <2>1. faults \in 0 .. MaxFaults /\ minted \in 0 .. MaxBlobs
    BY DEF Init, Given
  <2> QED BY <1>1, <2>1 DEF Init, TypeOK
<1>3. Numbered /\ Counted
  BY FS_EmptySet DEF Init, Numbered, Counted
<1>4. Matched
  BY DEF Init, Matched
<1> QED BY <1>1, <1>2, <1>3, <1>4 DEF IInv, Books, InPlace, Apart, Staged

\* Every step keeps the invariant.
LEMMA IInvStep ==
  ASSUME Given, IInv, [Next]_vars
  PROVE  IInv'
<1> Books
  BY DEF IInv
<1>1. CASE UNCHANGED vars
  <2>1. answered' \in [file: Files, sha: Hashes] \cup {Unanswered}
    BY <1>1 DEF vars, Books, TypeOK
  <2> QED BY <1>1, <2>1, SameInPlace DEF vars
<1>2. ASSUME NEW f \in Files, NEW h \in Hashes, Same(f, h) PROVE IInv'
  BY <1>2, SameInPlace DEF Same
<1>3. ASSUME NEW f \in Files, NEW h \in Hashes, Insert(f, h) PROVE IInv'
  BY <1>3, InsertBooks, InsertInPlace DEF IInv
<1>4. ASSUME NEW f \in Files, NEW h \in Hashes, Overwrite(f, h) PROVE IInv'
  BY <1>4, OverwriteBooks, OverwriteInPlace DEF IInv
<1>5. ASSUME NEW f \in Files, Purge(f) PROVE IInv'
  BY <1>5, PurgeBooks, PurgeInPlace DEF IInv
<1>6. ASSUME NEW f \in Files, NEW v \in versions, Begin(f, v) PROVE IInv'
  BY <1>6, BeginBooks, BeginInPlace DEF IInv
<1>7. CASE Rename
  BY <1>7, RenameBooks, RenameInPlace DEF IInv
<1>8. CASE Commit
  BY <1>8, CommitBooks, CommitInPlace DEF IInv
<1>9. CASE Crash
  BY <1>9, CrashBooks, CrashInPlace DEF IInv
<1> QED BY <1>1, <1>2, <1>3, <1>4, <1>5, <1>6, <1>7, <1>8, <1>9 DEF Next

\* The invariant is stronger than what it is for.
LEMMA IInvHolds ==
  ASSUME IInv
  PROVE  TypeOK /\ RowsMatchDisk
<1>1. Open => swap.ver.file = swap.file
  BY DEF IInv, Books, OpenOK, VersionsOf
<1> QED BY <1>1 DEF IInv, Books, InPlace, Matched, RowsMatchDisk

\* The invariant holds.
LEMMA IInvCorrect ==
  ASSUME Given
  PROVE  Spec => []IInv
<1>1. Init => IInv
  BY Initially
<1>2. IInv /\ [Next]_vars => IInv'
  BY IInvStep
<1> QED BY <1>1, <1>2, PTL DEF Spec

\* The rows, versions, counts and blobs and the open restore keep their types
\* (handlers_versions.go:68-196).
THEOREM TypeCorrect ==
  ASSUME Given
  PROVE  Spec => []TypeOK
<1>1. IInv => TypeOK
  BY IInvHolds
<1> QED BY <1>1, IInvCorrect, PTL

\* In every interleaving of a restore with uploads and purges, and wherever its renames
\* or its COMMIT fail, every row and version finds at its path the blob that its key
\* decrypts, but for the named harm (handlers_versions.go:171-196).
THEOREM RowsCorrect ==
  ASSUME Given
  PROVE  Spec => []RowsMatchDisk
<1>1. IInv => RowsMatchDisk
  BY IInvHolds
<1> QED BY <1>1, IInvCorrect, PTL
================================================================================
