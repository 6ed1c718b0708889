---------------------------- MODULE ServicesProofs ----------------------------
(***************************************************************************)
(* The three services that the instance explores side by side, for any     *)
(* constants.  Accounts: no blob is left behind or taken away while files  *)
(* change hands and accounts go, no quota is passed, and each account is   *)
(* charged for what it holds.  File locks: one client at a time has the    *)
(* lock.  The restore of versions is proved in VersionRestoreProofs.       *)
(*                                                                         *)
(* The last part carries these over to the instance, where the three take  *)
(* their steps one at a time.                                              *)
(***************************************************************************)
EXTENDS MCServices, FiniteSetTheorems, TLAPS

VP == INSTANCE VersionRestoreProofs

--------------------------------------------------------------------------------
(* Accounts. *)

Given == Quota \in [Users -> Nat] /\ Size \in Seq(Nat)

\* Two rows or versions never have one blob, and the next blob is a new one.
Separate ==
  /\ \A f, g \in Ids : content[f] = content[g] => f = g
  /\ \A f \in Ids, v \in older : content[f] # v.blob
  /\ \A v, w \in older : v.blob = w.blob => v = w
  /\ \A b \in stored : b < next
  /\ \A f \in Ids : f < next

\* What a transfer compared before its transaction.
Compared ==
  \A w \in Workers : job[w].op = "transfer" =>
    job[w].seen + job[w].size <= Quota[job[w].to]

Bounded == \A u \in Users \ passed : used[u] <= Quota[u]

IInv == TypeOK /\ Separate /\ NoStrayBlobs /\ Compared /\ Bounded

\* The bytes of a blob.
LEMMA SizeType == ASSUME Given, NEW b \in Blobs PROVE Size[b] \in Nat /\ b \in 1 .. Len(Size)
BY DEF Given, Blobs

\* Releasing bytes adds none.
LEMMA ReleasedType ==
  ASSUME users \subseteq Users, NEW bytes \in [Users -> Nat], NEW u, NEW n \in Nat
  PROVE  /\ Released(bytes, u, n) \in [Users -> Nat]
         /\ \A v \in Users : Released(bytes, u, n)[v] <= bytes[v]
<1>1. CASE u \in users
  <2>1. u \in Users
    BY <1>1
  <2> QED BY <1>1, <2>1 DEF Released
<1>2. CASE u \notin users
  BY <1>2 DEF Released
<1> QED BY <1>1, <1>2

\* Charging bytes adds them to one account.
LEMMA ChargedType ==
  ASSUME users \subseteq Users, NEW bytes \in [Users -> Nat], NEW u, NEW n \in Nat
  PROVE  /\ Charged(bytes, u, n) \in [Users -> Nat]
         /\ \A v \in Users : v # u => Charged(bytes, u, n)[v] = bytes[v]
         /\ u \in users => Charged(bytes, u, n)[u] = bytes[u] + n
         /\ u \notin users => Charged(bytes, u, n) = bytes
<1>1. CASE u \in users
  <2>1. u \in Users
    BY <1>1
  <2> QED BY <1>1, <2>1 DEF Charged
<1>2. CASE u \notin users
  BY <1>2 DEF Charged
<1> QED BY <1>1, <1>2

\* A charge that fits passes no quota.
LEMMA FittingCharge ==
  ASSUME Given, users \subseteq Users, Bounded, used \in [Users -> Nat],
         NEW u \in users, NEW n \in Nat, Fits(u, n), used' = Charged(used, u, n),
         passed' = passed
  PROVE  Bounded'
<1> SUFFICES ASSUME NEW v \in Users \ passed PROVE Charged(used, u, n)[v] <= Quota[v]
  BY DEF Bounded
<1>1. CASE v = u
  BY <1>1, ChargedType DEF Fits
<1>2. CASE v # u
  BY <1>2, ChargedType DEF Bounded
<1> QED BY <1>1, <1>2

\* A request that rests, or that was made of values of their types, has its type.
LEMMA RestType ==
  ASSUME TypeOK, NEW w \in Workers, Rest(w)
  PROVE  job' \in [Workers -> Request]
<1>1. Resting \in Request
  BY DEF Request
<1> QED BY <1>1 DEF TypeOK, Rest

\* A new file, or new content, gets a blob that nothing else has.
LEMMA UploadStep ==
  ASSUME Given, IInv, NEW u \in users, Upload(u)
  PROVE  IInv'
<1> USE DEF IInv, Ids
<1>a. users \subseteq Users /\ u \in Users /\ used \in [Users -> Nat] /\ next \in Blobs
  BY DEF TypeOK, Upload
<1>b. Size[next] \in Nat /\ next \in 1 .. Len(Size)
  BY <1>a, SizeType
<1>c. next \notin stored /\ next \notin Ids
  BY <1>b DEF Separate, TypeOK
<1>d. Ids' = Ids \cup {next} /\ Ids \subseteq Blobs
  BY DEF Upload, TypeOK
<1>1. TypeOK'
  <2>1. used' \in [Users -> Nat]
    BY <1>a, <1>b, ChargedType DEF Upload
  <2>2. owner' \in [Ids' -> users'] /\ content' \in [Ids' -> stored']
    BY <1>c, <1>d DEF Upload, TypeOK
  <2>3. older' \subseteq [file: Ids', blob: stored', by: users']
    BY <1>d DEF Upload, TypeOK
  <2>4. stored' \subseteq Blobs /\ next' \in 1 .. Len(Size) + 1
    BY <1>a, <1>b DEF Upload, TypeOK
  <2> QED BY <2>1, <2>2, <2>3, <2>4, <1>a, <1>d DEF Upload, TypeOK
<1>2. Separate'
  <2>1. \A f \in Ids : content'[f] = content[f] /\ content[f] \in stored /\ f # next
    BY <1>c DEF Upload, TypeOK
  <2>2. content'[next] = next
    BY DEF Upload
  <2>3. \A v \in older : v.blob \in stored
    BY DEF TypeOK
  <2>4. next' = next + 1 /\ stored' = stored \cup {next} /\ older' = older
    BY DEF Upload
  <2>5. \A b \in stored : b \in Nat /\ b < next
    BY DEF Separate, TypeOK, Blobs, Given
  <2>6. \A f \in Ids : f \in Nat /\ f < next
    BY DEF Separate, TypeOK, Blobs, Given
  <2> QED BY <1>b, <1>c, <1>d, <2>1, <2>2, <2>3, <2>4, <2>5, <2>6 DEF Separate
<1>3. NoStrayBlobs'
  <2>1. \A f \in Ids : content'[f] = content[f]
    BY <1>c DEF Upload
  <2>2. \A v \in older : v.file \in Ids /\ v.file \in Ids'
    BY <1>d DEF TypeOK
  <2>3. BlobsOf(Ids)' = BlobsOf(Ids) \cup {next}
    BY <1>c, <1>d, <2>1, <2>2 DEF BlobsOf, Upload
  <2>4. stray \subseteq stored
    BY DEF TypeOK
  <2> QED BY <1>c, <2>3, <2>4 DEF Upload, NoStrayBlobs
<1>4. Compared'
  BY DEF Compared, Upload
<1>5. Bounded'
  <2>1. Fits(u, Size[next]) /\ used' = Charged(used, u, Size[next]) /\ passed' = passed
    BY DEF Upload
  <2> QED BY <1>a, <1>b, <2>1, FittingCharge
<1> QED BY <1>1, <1>2, <1>3, <1>4, <1>5

\* A request that is done has compared nothing.
LEMMA RestCompared ==
  ASSUME IInv, NEW w \in Workers, Rest(w)
  PROVE  Compared'
BY DEF IInv, TypeOK, Rest, Resting, Compared

\* New content gets a blob that nothing else has, and its version the blob it had.
LEMMA OverwriteStep ==
  ASSUME Given, IInv, NEW w \in Workers, OverwriteCommit(w)
  PROVE  IInv'
<1> USE DEF IInv, Ids
<1> DEFINE r == job[w]
           f == r.file
<1>a. /\ users \subseteq Users /\ r.from \in users /\ used \in [Users -> Nat]
      /\ next \in Blobs /\ f \in Ids /\ r.by \in users /\ owner[f] \in users
  BY DEF TypeOK, OverwriteCommit, Fits
<1>b. Size[next] \in Nat /\ next \in 1 .. Len(Size)
  BY <1>a, SizeType
<1>c. next \notin stored
  BY <1>b DEF Separate, TypeOK
<1>d. Ids' = Ids /\ Ids \subseteq Blobs
  BY DEF OverwriteCommit, TypeOK
<1> DEFINE new == [file |-> f, blob |-> content[f], by |-> r.by]
<1>e. /\ older' = older \cup {new} /\ content' = [content EXCEPT ![f] = next]
      /\ owner' = owner /\ users' = users /\ stray' = stray /\ passed' = passed
      /\ next' = next + 1 /\ stored' = stored \cup {next}
      /\ Fits(r.from, Size[next]) /\ used' = Charged(used, r.from, Size[next])
      /\ Rest(w) /\ trash' = trash /\ emptied' = emptied
  BY DEF OverwriteCommit
<1>f. drifted' \subseteq Users
  BY <1>a DEF OverwriteCommit, TypeOK
<1>g. job' \in [Workers -> Request] /\ Compared'
  BY <1>e, RestType, RestCompared
<1>h. new.file = f /\ new.blob = content[f] /\ new.by = r.by
  OBVIOUS
<1> HIDE DEF r, f, new
<1>1. TypeOK'
  <2>1. used' \in [Users -> Nat]
    BY <1>a, <1>b, <1>e, ChargedType
  <2>2. owner' \in [Ids' -> users'] /\ content' \in [Ids' -> stored']
    BY <1>d, <1>e DEF TypeOK
  <2>3. older' \subseteq [file: Ids', blob: stored', by: users']
    <3>1. new \in [file: Ids', blob: stored', by: users']
      BY <1>a, <1>d, <1>e DEF TypeOK, new
    <3> QED BY <1>d, <1>e, <3>1 DEF TypeOK
  <2>4. stored' \subseteq Blobs /\ next' \in 1 .. Len(Size) + 1
    BY <1>a, <1>b, <1>e DEF TypeOK
  <2> QED BY <2>1, <2>2, <2>3, <2>4, <1>d, <1>e, <1>f, <1>g DEF TypeOK
<1>2. Separate'
  <2>1. \A g \in Ids : content[g] \in stored /\ (g # f => content'[g] = content[g])
    BY <1>e DEF TypeOK
  <2>2. content'[f] = next
    BY <1>a, <1>e DEF TypeOK
  <2>3. \A v \in older : v.blob \in stored
    BY DEF TypeOK
  <2>5. \A b \in stored : b \in Nat /\ b < next
    BY DEF Separate, TypeOK, Blobs, Given
  <2>6. \A g \in Ids : g \in Nat /\ g < next
    BY DEF Separate, TypeOK, Blobs, Given
  <2>7. \A g, h \in Ids' : content'[g] = content'[h] => g = h
    BY <1>c, <1>d, <2>1, <2>2 DEF Separate
  <2>8. \A g \in Ids', v \in older' : content'[g] # v.blob
    BY <1>a, <1>c, <1>d, <1>e, <1>h, <2>1, <2>2, <2>3 DEF Separate
  <2>9. \A v, x \in older' : v.blob = x.blob => v = x
    <3>1. \A v \in older : v.blob # content[f]
      BY <1>a DEF Separate
    <3> QED BY <1>e, <1>h, <3>1 DEF Separate
  <2> QED BY <1>b, <1>d, <1>e, <2>5, <2>6, <2>7, <2>8, <2>9 DEF Separate
<1>3. NoStrayBlobs'
  <2>1. \A g \in Ids : g # f => content'[g] = content[g]
    BY <1>e DEF TypeOK
  <2>2. content'[f] = next
    BY <1>a, <1>e DEF TypeOK
  <2>3. \A v \in older : v.file \in Ids
    BY DEF TypeOK
  <2>4. BlobsOf(Ids)' = BlobsOf(Ids) \cup {next}
    <3>1. BlobsOf(Ids)' = {content'[g] : g \in Ids} \cup {v.blob : v \in older'}
      BY <1>a, <1>d, <1>e, <1>h, <2>3 DEF BlobsOf
    <3>2. BlobsOf(Ids) = {content[g] : g \in Ids} \cup {v.blob : v \in older}
      BY <2>3 DEF BlobsOf
    <3>3. {v.blob : v \in older'} = {v.blob : v \in older} \cup {content[f]}
      BY <1>e, <1>h
    <3>4. {content'[g] : g \in Ids} \cup {content[f]} = {content[g] : g \in Ids} \cup {next}
      BY <1>a, <2>1, <2>2
    <3> QED BY <3>1, <3>2, <3>3, <3>4
  <2>5. stray \subseteq stored
    BY DEF TypeOK
  <2> QED BY <1>c, <1>e, <2>4, <2>5 DEF NoStrayBlobs
<1>4. Bounded'
  BY <1>a, <1>b, <1>e, FittingCharge
<1> QED BY <1>1, <1>2, <1>3, <1>4, <1>g

LEMMA DeleteStep ==
  ASSUME Given, IInv, NEW w \in Workers, DeleteCommit(w)
  PROVE  IInv'
<1> USE DEF IInv, Ids
<1> DEFINE r == job[w]
           f == r.file
<1>a. /\ users \subseteq Users /\ used \in [Users -> Nat] /\ f \in Ids
      /\ content[f] \in Blobs /\ owner[f] \in users
  BY DEF TypeOK, Live, DeleteCommit
<1>u. r.from \in Users
  BY DEF TypeOK, Request, Resting, DeleteCommit
<1>b. Size[content[f]] \in Nat
  BY <1>a, SizeType
<1>c. used' \in [Users -> Nat] /\ \A v \in Users : used'[v] <= used[v]
  BY <1>a, <1>b, ReleasedType DEF DeleteCommit
<1>d. drifted' \subseteq Users
  BY <1>a, <1>u DEF DeleteCommit, TypeOK
<1>e. job' \in [Workers -> Request] /\ Compared'
  BY RestType, RestCompared DEF DeleteCommit
<1>1. TypeOK'
  BY <1>a, <1>c, <1>d, <1>e DEF DeleteCommit, TypeOK
<1>2. Separate' /\ NoStrayBlobs'
  BY DEF DeleteCommit, Separate, NoStrayBlobs, BlobsOf
<1>3. Bounded'
  BY <1>a, <1>c DEF DeleteCommit, Bounded, Given
<1> QED BY <1>1, <1>2, <1>3, <1>e

\* What a request reads has its type; only the guard of a transfer compares.
LEMMA ReadsType ==
  ASSUME Given, IInv, NEW w \in Workers, NEW r \in Request, Reads(w, r),
         r.op = "transfer" => r.seen + r.size <= Quota[r.to]
  PROVE  IInv'
<1> USE DEF IInv, Ids
<1>1. UNCHANGED <<users, used, files, emptied, drifted, passed>>
  BY DEF Reads
<1>2. job' \in [Workers -> Request] /\ Compared'
  BY DEF Reads, TypeOK, Compared
<1> QED BY <1>1, <1>2 DEF files, TypeOK, Separate, NoStrayBlobs, BlobsOf, Bounded

\* Reading, and giving up, changes requests only.
LEMMA ReadStep ==
  ASSUME Given, IInv, NEW w \in Workers, NEW f \in Live, NEW u \in users,
         \/ OverwriteRead(w, f, u) \/ DeleteRead(w, f)
         \/ TransferRead(w, f, u) \/ MoveRead(w, f, u)
  PROVE  IInv'
<1> USE DEF IInv, Ids
<1>a. /\ u \in Users /\ owner[f] \in Users /\ f \in Blobs /\ content[f] \in Blobs
      /\ used[u] \in Nat
  BY DEF TypeOK, Live
<1>b. Size[content[f]] \in Nat
  BY <1>a, SizeType
<1>1. CASE TransferRead(w, f, u)
  <2> DEFINE r == [op |-> "transfer", file |-> f, from |-> owner[f], to |-> u,
                   size |-> Size[content[f]], seen |-> used[u]]
  <2>1. Reads(w, r) /\ r \in Request /\ r.seen + r.size <= Quota[r.to]
    BY <1>1, <1>a, <1>b DEF TransferRead, Request, Fits
  <2> HIDE DEF r
  <2> QED BY <2>1, ReadsType
<1>2. CASE MoveRead(w, f, u)
  <2> DEFINE r == [op |-> "move", file |-> f, from |-> owner[f], to |-> u]
  <2>1. Reads(w, r) /\ r \in Request /\ r.op # "transfer"
    BY <1>2, <1>a DEF MoveRead, Request
  <2> HIDE DEF r
  <2> QED BY <2>1, ReadsType
<1>3. CASE OverwriteRead(w, f, u)
  <2> DEFINE r == [op |-> "overwrite", file |-> f, from |-> owner[f], by |-> u,
                   blob |-> content[f]]
  <2>1. Reads(w, r) /\ r \in Request /\ r.op # "transfer"
    BY <1>3, <1>a DEF OverwriteRead, Request
  <2> HIDE DEF r
  <2> QED BY <2>1, ReadsType
<1>4. CASE DeleteRead(w, f)
  <2> DEFINE r == [op |-> "delete", file |-> f, from |-> owner[f]]
  <2>1. Reads(w, r) /\ r \in Request /\ r.op # "transfer"
    BY <1>4, <1>a DEF DeleteRead, Request
  <2> HIDE DEF r
  <2> QED BY <2>1, ReadsType
<1> QED BY <1>1, <1>2, <1>3, <1>4

LEMMA AbortStep ==
  ASSUME Given, IInv, NEW w \in Workers, Abort(w)
  PROVE  IInv'
<1>1. job' \in [Workers -> Request] /\ Compared'
  BY RestType, RestCompared DEF IInv, Abort
<1> QED BY <1>1 DEF IInv, Abort, files, Ids, TypeOK, Separate, NoStrayBlobs, BlobsOf, Bounded

LEMMA TransferStep ==
  ASSUME Given, IInv, NEW w \in Workers, TransferCommit(w)
  PROVE  IInv'
<1> USE DEF IInv, Ids
<1> DEFINE r == job[w]
<1>a. /\ r.file \in Blobs /\ r.from \in Users /\ r.to \in Users /\ r.size \in Nat
      /\ r.seen \in Nat /\ r.op = "transfer" /\ r.seen + r.size <= Quota[r.to]
  BY DEF TransferCommit, TypeOK, Request, Resting, Compared
<1>b. users \subseteq Users /\ used \in [Users -> Nat] /\ owner \in [Ids -> users]
  BY DEF TypeOK
<1> DEFINE less == Released(used, r.from, r.size)
<1>c. less \in [Users -> Nat] /\ \A v \in Users : less[v] <= used[v]
  BY <1>a, <1>b, ReleasedType
<1>d. used' = Charged(less, r.to, r.size)
  BY DEF TransferCommit
<1>e. used' \in [Users -> Nat]
  BY <1>a, <1>b, <1>c, <1>d, ChargedType
<1>1. TypeOK'
  <2>1. owner' \in [Ids -> users] /\ Ids' = Ids
    BY <1>b DEF TransferCommit
  <2>2. drifted' \subseteq Users /\ passed' \subseteq Users
    BY <1>a, <1>b DEF TransferCommit, TypeOK
  <2>3. job' \in [Workers -> Request]
    BY RestType DEF TransferCommit
  <2> QED BY <1>e, <2>1, <2>2, <2>3 DEF TransferCommit, TypeOK
<1>2. Separate' /\ NoStrayBlobs'
  <2>1. Ids' = Ids
    BY <1>b DEF TransferCommit
  <2> QED BY <2>1 DEF TransferCommit, Separate, NoStrayBlobs, BlobsOf
<1>3. Compared'
  BY RestCompared DEF TransferCommit
<1>4. Bounded'
  <2> SUFFICES ASSUME NEW v \in Users \ passed' PROVE used'[v] <= Quota[v]
    BY DEF Bounded
  <2>0. v \notin passed /\ used[v] <= Quota[v] /\ less[v] <= used[v] /\ Quota[v] \in Nat
    BY <1>c DEF TransferCommit, Bounded, Given
  <2>1. CASE v # r.to \/ r.to \notin users
    <3>1. used'[v] = less[v]
      BY <1>a, <1>b, <1>c, <1>d, <2>1, ChargedType
    <3> QED BY <1>b, <1>c, <2>0, <3>1
  <2>2. CASE v = r.to /\ r.to \in users
    <3>1. ~(used[r.to] > r.seen)
      BY <2>2 DEF TransferCommit
    <3>2. used'[v] = less[v] + r.size
      BY <1>a, <1>b, <1>c, <1>d, <2>2, ChargedType
    <3>3. less[v] \in Nat /\ used[v] \in Nat
      BY <1>b, <1>c
    <3> QED BY <1>a, <2>0, <2>2, <3>1, <3>2, <3>3
  <2> QED BY <2>1, <2>2
<1> QED BY <1>1, <1>2, <1>3, <1>4

LEMMA MoveStep ==
  ASSUME Given, IInv, NEW w \in Workers, MoveCommit(w)
  PROVE  IInv'
<1> USE DEF IInv, Ids
<1> DEFINE r == job[w]
           n == Size[content[r.file]]
<1>a. r.file \in Ids /\ r.from \in Users /\ r.to \in users /\ r.op = "move"
  BY DEF MoveCommit, TypeOK, Request, Resting, Live
<1>b. /\ users \subseteq Users /\ used \in [Users -> Nat] /\ owner \in [Ids -> users]
      /\ content[r.file] \in Blobs
  BY <1>a DEF TypeOK
<1>n. n \in Nat
  BY <1>b, SizeType
<1> DEFINE less == Released(used, r.from, n)
<1>c. less \in [Users -> Nat] /\ \A v \in Users : less[v] <= used[v]
  BY <1>a, <1>b, <1>n, ReleasedType
<1>d. used' = Charged(less, r.to, n) /\ less[r.to] + n <= Quota[r.to] /\ passed' = passed
  BY DEF MoveCommit
<1>e. used' \in [Users -> Nat]
  BY <1>a, <1>b, <1>c, <1>d, <1>n, ChargedType
<1>1. TypeOK'
  <2>1. owner' \in [Ids -> users] /\ Ids' = Ids
    BY <1>a, <1>b DEF MoveCommit
  <2>2. drifted' \subseteq Users
    BY <1>a, <1>b DEF MoveCommit, TypeOK
  <2>3. job' \in [Workers -> Request]
    BY RestType DEF MoveCommit
  <2> QED BY <1>e, <2>1, <2>2, <2>3 DEF MoveCommit, TypeOK
<1>2. Separate' /\ NoStrayBlobs'
  <2>1. Ids' = Ids
    BY <1>b DEF MoveCommit
  <2> QED BY <2>1 DEF MoveCommit, Separate, NoStrayBlobs, BlobsOf
<1>3. Compared'
  BY RestCompared DEF MoveCommit
<1>4. Bounded'
  <2> SUFFICES ASSUME NEW v \in Users \ passed PROVE used'[v] <= Quota[v]
    BY <1>d DEF Bounded
  <2>1. CASE v = r.to
    BY <1>a, <1>b, <1>c, <1>d, <1>n, <2>1, ChargedType
  <2>2. CASE v # r.to
    <3>1. used'[v] = less[v]
      BY <1>b, <1>c, <1>d, <1>n, <2>2, ChargedType
    <3>2. used[v] <= Quota[v] /\ less[v] <= used[v] /\ Quota[v] \in Nat
      BY <1>c DEF Bounded, Given
    <3> QED BY <1>b, <1>c, <3>1, <3>2
  <2> QED BY <2>1, <2>2
<1> QED BY <1>1, <1>2, <1>3, <1>4

\* The files that go take their blobs, and no others.
LEMMA EmptyStep ==
  ASSUME Given, IInv, NEW u \in users, Empty(u)
  PROVE  IInv'
<1> USE DEF IInv, Ids
<1> DEFINE F == {f \in Ids : owner[f] = u}
<1>a. /\ Ids' = Ids \ F /\ trash' = trash \ F
      /\ owner' = [f \in Ids \ F |-> owner[f]]
      /\ content' = [f \in Ids \ F |-> content[f]]
      /\ older' = {v \in older : v.file \notin F}
      /\ stored' = stored \ BlobsOf(F)
  BY DEF Empty, Gone
<1>b. \A f \in Ids \ F : content'[f] = content[f] /\ owner'[f] = owner[f]
  BY <1>a
<1>c. \A v \in older : v.file \in Ids /\ v.blob \in stored
  BY DEF TypeOK
<1>k. BlobsOf(Ids)' = {content[f] : f \in Ids \ F}
                        \cup {v.blob : v \in {v \in older : v.file \notin F}}
  BY <1>a, <1>b, <1>c DEF BlobsOf
<1>o. BlobsOf(F) = {content[f] : f \in F} \cup {v.blob : v \in {v \in older : v.file \in F}}
  BY DEF BlobsOf
<1>s. BlobsOf(Ids) = BlobsOf(Ids)' \cup BlobsOf(F)
  <2>1. BlobsOf(Ids) = {content[f] : f \in Ids} \cup {v.blob : v \in older}
    BY <1>c DEF BlobsOf
  <2> QED BY <1>k, <1>o, <2>1
<1>d. BlobsOf(Ids)' \cap BlobsOf(F) = {}
  <2> SUFFICES ASSUME NEW b \in BlobsOf(Ids)', b \in BlobsOf(F) PROVE FALSE
    OBVIOUS
  <2>1. \/ \E f \in Ids \ F : b = content[f]
        \/ \E v \in older : v.file \notin F /\ b = v.blob
    BY <1>k
  <2>2. \/ \E f \in F : b = content[f]
        \/ \E v \in older : v.file \in F /\ b = v.blob
    BY <1>o
  <2> QED BY <2>1, <2>2 DEF Separate
<1>1. TypeOK'
  <2>1. \A f \in Ids \ F : content[f] \in stored \ BlobsOf(F)
    BY <1>d, <1>k DEF TypeOK
  <2>2. \A v \in older' : v.blob \in stored \ BlobsOf(F)
    BY <1>a, <1>c, <1>d, <1>k
  <2>3. owner' \in [Ids' -> users'] /\ content' \in [Ids' -> stored']
    BY <1>a, <2>1 DEF Empty, TypeOK
  <2>4. older' \subseteq [file: Ids', blob: stored', by: users']
    <3> SUFFICES ASSUME NEW v \in older'
                 PROVE  v \in [file: Ids', blob: stored', by: users']
      OBVIOUS
    <3>1. v \in [file: Ids, blob: stored, by: users] /\ v.file \in Ids'
      BY <1>a DEF TypeOK
    <3>2. v.blob \in stored'
      BY <1>a, <2>2
    <3> QED BY <3>1, <3>2 DEF Empty
  <2>5. stray \subseteq stored'
    BY <1>a, <1>s DEF TypeOK, NoStrayBlobs
  <2> QED BY <1>a, <2>3, <2>4, <2>5 DEF Empty, TypeOK
<1>2. Separate'
  BY <1>a, <1>b DEF Empty, Separate
<1>3. NoStrayBlobs'
  BY <1>a, <1>d, <1>s DEF Empty, NoStrayBlobs
<1>4. Compared' /\ Bounded'
  BY DEF Empty, Compared, Bounded
<1> QED BY <1>1, <1>2, <1>3, <1>4

\* What the foreign keys remove leaves its blobs to stray.
LEMMA DropStep ==
  ASSUME Given, IInv, NEW u \in users, Drop(u)
  PROVE  IInv'
<1> USE DEF IInv, Ids
<1> DEFINE F == {f \in Ids : owner[f] = u}
           made == {v \in older : v.by = u}
           lost == BlobsOf(F) \cup {v.blob : v \in made}
<1>a. /\ Ids' = Ids \ F /\ trash' = trash \ F
      /\ owner' = [f \in Ids \ F |-> owner[f]]
      /\ content' = [f \in Ids \ F |-> content[f]]
      /\ older' = {v \in older \ made : v.file \notin F}
      /\ stored' = stored /\ stray' = stray \cup lost
      /\ users' = users \ {u} /\ emptied' = emptied \ {u}
  BY DEF Drop, Gone
<1>b. \A f \in Ids \ F : content'[f] = content[f] /\ owner'[f] = owner[f]
  BY <1>a
<1>c. \A v \in older : v.file \in Ids /\ v.blob \in stored
  BY DEF TypeOK
<1>k. BlobsOf(Ids)' = {content[f] : f \in Ids \ F}
                        \cup {v.blob : v \in {v \in older \ made : v.file \notin F}}
  BY <1>a, <1>b, <1>c DEF BlobsOf
<1>o. BlobsOf(F) = {content[f] : f \in F} \cup {v.blob : v \in {v \in older : v.file \in F}}
  BY DEF BlobsOf
<1>s. BlobsOf(Ids) = BlobsOf(Ids)' \cup lost
  <2>1. BlobsOf(Ids) = {content[f] : f \in Ids} \cup {v.blob : v \in older}
    BY <1>c DEF BlobsOf
  <2> QED BY <1>k, <1>o, <2>1
<1>d. BlobsOf(Ids)' \cap lost = {}
  <2> SUFFICES ASSUME NEW b \in BlobsOf(Ids)', b \in lost PROVE FALSE
    OBVIOUS
  <2>1. \/ \E f \in Ids \ F : b = content[f]
        \/ \E v \in older \ made : v.file \notin F /\ b = v.blob
    BY <1>k
  <2>2. \/ \E f \in F : b = content[f]
        \/ \E v \in older : (v.file \in F \/ v \in made) /\ b = v.blob
    BY <1>o
  <2> QED BY <2>1, <2>2 DEF Separate
<1>1. TypeOK'
  <2>1. owner' \in [Ids' -> users'] /\ content' \in [Ids' -> stored']
    BY <1>a DEF TypeOK
  <2>2. older' \subseteq [file: Ids', blob: stored', by: users']
    BY <1>a DEF TypeOK
  <2>3. stray' \subseteq stored'
    BY <1>a, <1>s DEF NoStrayBlobs, TypeOK
  <2>4. drifted' \subseteq Users
    BY <1>c DEF Drop, TypeOK
  <2> QED BY <1>a, <2>1, <2>2, <2>3, <2>4 DEF Drop, TypeOK
<1>2. Separate'
  BY <1>a, <1>b DEF Drop, Separate
<1>3. NoStrayBlobs'
  <2>1. stray \cap BlobsOf(Ids) = {} /\ stored = BlobsOf(Ids) \cup stray
    BY DEF NoStrayBlobs
  <2> QED BY <1>a, <1>d, <1>s, <2>1 DEF NoStrayBlobs
<1>4. Compared' /\ Bounded'
  BY DEF Drop, Compared, Bounded
<1> QED BY <1>1, <1>2, <1>3, <1>4

LEMMA SurviveStep ==
  ASSUME Given, IInv, NEW u \in users, Survive(u)
  PROVE  IInv'
BY DEF IInv, Survive, files, Ids, TypeOK, Separate, NoStrayBlobs, BlobsOf, Compared, Bounded

LEMMA IInvStep ==
  ASSUME Given, IInv, [Next]_vars
  PROVE  IInv'
<1>1. CASE UNCHANGED vars
  BY <1>1 DEF vars, IInv, Ids, TypeOK, Separate, NoStrayBlobs, BlobsOf, Compared, Bounded
<1>2. CASE Next
  <2>1. CASE \E u \in users : Upload(u) \/ Empty(u) \/ Drop(u) \/ Survive(u)
    BY <2>1, UploadStep, EmptyStep, DropStep, SurviveStep
  <2>2. ASSUME NEW w \in Workers, NEW f \in Live, DeleteRead(w, f)
        PROVE  IInv'
    <3>1. owner[f] \in users
      BY DEF IInv, TypeOK, Live, Ids
    <3> QED BY <2>2, <3>1, ReadStep
  <2> QED BY <1>2, <2>1, <2>2, OverwriteStep, DeleteStep, ReadStep, AbortStep,
             TransferStep, MoveStep DEF Next
<1> QED BY <1>1, <1>2

LEMMA IInvInitially ==
  ASSUME Given
  PROVE  Init => IInv
BY DEF Init, Given, IInv, Ids, TypeOK, Separate, NoStrayBlobs, BlobsOf, Compared,
       Bounded, Request, Resting, Blobs

LEMMA IInvCorrect ==
  ASSUME Given
  PROVE  Spec => []IInv
<1>1. Init => IInv
  BY IInvInitially
<1>2. IInv /\ [Next]_vars => IInv'
  BY IInvStep
<1> QED BY <1>1, <1>2, PTL DEF Spec

\* The rows of users and files, the versions, the disk and the requests keep their
\* types (handlers_transfer.go:44-125, delete_helpers.go:301-404).
THEOREM TypeCorrect ==
  ASSUME Given
  PROVE  Spec => []TypeOK
<1>1. IInv => TypeOK
  BY DEF IInv
<1> QED BY <1>1, IInvCorrect, PTL

\* Whatever changes hands and whichever accounts go, the blobs on disk are those of
\* rows and versions, and those whose rows a foreign key removed
\* (delete_helpers.go:301-404, handlers_admin.go:228-236).
THEOREM NoStrayBlobsCorrect ==
  ASSUME Given
  PROVE  Spec => []NoStrayBlobs
<1>1. IInv => NoStrayBlobs
  BY DEF IInv
<1> QED BY <1>1, IInvCorrect, PTL

\* No account is charged beyond its quota, but for bytes that came in between the
\* check of a transfer and its transaction (handlers_transfer.go:73-88).
THEOREM WithinQuotaCorrect ==
  ASSUME Given
  PROVE  Spec => []WithinQuota
<1>1. IInv => WithinQuota
  BY DEF IInv, TypeOK, Bounded, WithinQuota
<1> QED BY <1>1, IInvCorrect, PTL
(* Sums of bytes.                                                          *)
Cells(D) == UNION {{x} \X (1 .. Size[x.blob]) : x \in D}
\* Finitely many rows, each with a blob.
Items(D) == IsFiniteSet(D) /\ \A x \in D : x.blob \in Blobs

\* The bytes of one row.
LEMMA OneRow ==
  ASSUME Given, NEW x, x.blob \in Blobs
  PROVE  /\ IsFiniteSet({x} \X (1 .. Size[x.blob]))
         /\ Cardinality({x} \X (1 .. Size[x.blob])) = Size[x.blob]
         /\ Size[x.blob] \in Nat
<1> DEFINE n == Size[x.blob]
<1>0. n \in Nat
  BY SizeType
<1> HIDE DEF n
<1>1. IsFiniteSet({x}) /\ Cardinality({x}) = 1
  BY FS_Singleton, Zenon
<1>2. 1 \in Int /\ n \in Int
  BY <1>0
<1>3. IsFiniteSet(1 .. n) /\ Cardinality(1 .. n) = IF 1 > n THEN 0 ELSE n - 1 + 1
  BY <1>2, FS_Interval, Zenon
<1>4. Cardinality(1 .. n) = n
  BY <1>0, <1>3
<1>5. /\ IsFiniteSet({x} \X (1 .. n))
      /\ Cardinality({x} \X (1 .. n)) = Cardinality({x}) * Cardinality(1 .. n)
  BY <1>1, <1>3, FS_Product, Zenon
<1>6. Cardinality({x} \X (1 .. n)) = 1 * n
  BY <1>1, <1>4, <1>5
<1> QED BY <1>0, <1>5, <1>6 DEF n

\* Their sum is a number.
LEMMA CellsFinite ==
  ASSUME Given, NEW D, Items(D)
  PROVE  IsFiniteSet(Cells(D)) /\ BytesOf(D) = Cardinality(Cells(D)) /\ BytesOf(D) \in Nat
<1> DEFINE T == {{x} \X (1 .. Size[x.blob]) : x \in D}
           g == [x \in D |-> {x} \X (1 .. Size[x.blob])]
<1>1. g \in Surjection(D, T)
  BY DEF Surjection
<1>2. IsFiniteSet(T)
  BY <1>1, FS_Surjection DEF Items
<1>3. \A x \in D : IsFiniteSet({x} \X (1 .. Size[x.blob]))
  BY OneRow DEF Items
<1>4. \A X \in T : IsFiniteSet(X)
  BY <1>3
<1>5. IsFiniteSet(Cells(D))
  BY <1>2, <1>4, FS_UNION DEF Cells
<1>6. BytesOf(D) = Cardinality(Cells(D))
  BY DEF BytesOf, Cells
<1> QED BY <1>5, <1>6, FS_CardinalityType

\* One row more adds its bytes.
LEMMA BytesAdd ==
  ASSUME Given, NEW D, Items(D), NEW x, x \notin D, x.blob \in Blobs
  PROVE  /\ Items(D \cup {x}) /\ Size[x.blob] \in Nat
         /\ BytesOf(D \cup {x}) = BytesOf(D) + Size[x.blob]
<1> DEFINE c == {x} \X (1 .. Size[x.blob])
<1>1. Items(D \cup {x})
  BY FS_AddElement DEF Items
<1>2. Cells(D \cup {x}) = Cells(D) \cup c
  BY DEF Cells
<1>3. Cells(D) \cap c = {}
  BY DEF Cells
<1>4. IsFiniteSet(c) /\ Cardinality(c) = Size[x.blob] /\ Size[x.blob] \in Nat
  BY OneRow
<1>5. IsFiniteSet(Cells(D)) /\ BytesOf(D) = Cardinality(Cells(D)) /\ BytesOf(D) \in Nat
  BY CellsFinite
<1> HIDE DEF c
<1>6. Cardinality(Cells(D) \cup c) = Cardinality(Cells(D)) + Cardinality(c) - Cardinality({})
  BY <1>3, <1>4, <1>5, FS_Union
<1>7. BytesOf(D \cup {x}) = Cardinality(Cells(D \cup {x}))
  BY <1>1, CellsFinite
<1>8. Cardinality({}) = 0
  BY FS_EmptySet
<1>9. BytesOf(D \cup {x}) = Cardinality(Cells(D) \cup c)
  BY <1>2, <1>7, Zenon
<1>10. Cardinality(c) \in Nat /\ Cardinality(Cells(D)) \in Nat
  BY <1>4, <1>5
<1>11. BytesOf(D \cup {x}) = Cardinality(Cells(D)) + Cardinality(c)
  BY <1>6, <1>8, <1>9, <1>10
<1> QED BY <1>1, <1>4, <1>5, <1>11

\* One row less takes them away.
LEMMA BytesTake ==
  ASSUME Given, NEW D, Items(D), NEW x \in D
  PROVE  /\ Items(D \ {x}) /\ Size[x.blob] \in Nat /\ BytesOf(D \ {x}) \in Nat
         /\ BytesOf(D) = BytesOf(D \ {x}) + Size[x.blob]
<1> DEFINE W == D \ {x}
<1>1. Items(W) /\ x \notin W /\ x.blob \in Blobs
  BY FS_Subset DEF Items
<1>2. W \cup {x} = D
  OBVIOUS
<1> HIDE DEF W
<1>3. /\ Size[x.blob] \in Nat /\ BytesOf(W \cup {x}) = BytesOf(W) + Size[x.blob]
      /\ BytesOf(W) \in Nat
  BY <1>1, BytesAdd, CellsFinite
<1> QED BY <1>1, <1>2, <1>3 DEF W

(* What each account is charged for.                                       *)
Charges == IInv /\ IsFiniteSet(older) /\ ChargedForOwn

\* The rows of an account have blobs, each its own.
LEMMA HeldType ==
  ASSUME Given, IInv, IsFiniteSet(older), NEW u
  PROVE  /\ Items(Held(u))
         /\ \A x \in Held(u) : x.blob \in stored
         /\ \A f \in Ids : \A x \in Held(u) : x.blob = content[f] => x = RowOf(f)
         /\ \A f \in Live : owner[f] = u => RowOf(f) \in Held(u)
         /\ \A f : RowOf(f).blob = content[f]
<1> TypeOK /\ Separate
  BY DEF IInv
<1> DEFINE F == {f \in Live : owner[f] = u}
           R == {RowOf(f) : f \in F}
           O == {v \in older : owner[v.file] = u}
           g == [f \in F |-> RowOf(f)]
<1>1. IsFiniteSet(F)
  <2>1. F \in SUBSET (1 .. Len(Size)) /\ Len(Size) \in Nat
    BY DEF Live, Ids, TypeOK, Given, Blobs
  <2>2. IsFiniteSet(1 .. Len(Size))
    BY <2>1, FS_Interval
  <2> QED BY <2>1, <2>2, FS_Subset
<1>2. g \in Surjection(F, R)
  BY DEF Surjection
<1>3. IsFiniteSet(R)
  BY <1>1, <1>2, FS_Surjection
<1>4. IsFiniteSet(O)
  BY FS_Subset
<1>5. Held(u) = R \cup O
  BY DEF Held
<1>6. \A f : RowOf(f).blob = content[f]
  BY DEF RowOf
<1>7. \A x \in R : x.blob \in stored
  BY <1>6 DEF Live, TypeOK
<1>8. \A x \in O : x.blob \in stored
  BY DEF TypeOK
<1>9. \A f \in Ids : \A x \in R : x.blob = content[f] => x = RowOf(f)
  BY <1>6 DEF Separate, Live
<1>10. \A f \in Ids : \A x \in O : x.blob # content[f]
  BY DEF Separate
<1> HIDE DEF R, O
<1>11. IsFiniteSet(Held(u))
  BY <1>3, <1>4, <1>5, FS_Union
<1>12. stored \subseteq Blobs
  BY DEF TypeOK
<1> QED BY <1>5, <1>6, <1>7, <1>8, <1>9, <1>10, <1>11, <1>12 DEF Items, R
\* What is held after a step is held of the tables after it.
HeldThen(u) == {[file |-> f, blob |-> content'[f]] : f \in {f \in Live' : owner'[f] = u}} \cup
               {v \in older' : owner'[v.file] = u}
LEMMA HeldNext == \A u : Held(u)' = HeldThen(u) /\ BytesOf(Held(u))' = BytesOf(HeldThen(u))
BY DEF Held, HeldThen, RowOf, BytesOf

\* An account that neither gains nor loses rows, and whose bytes stay.
Spared(v) == HeldThen(v) = Held(v) /\ used'[v] = used[v]

LEMMA SparedCharges ==
  ASSUME ChargedForOwn,
         \A v \in users' \ (drifted' \cup emptied') :
           \/ v \in users \ (drifted \cup emptied) /\ Spared(v)
           \/ used'[v] = BytesOf(HeldThen(v))
  PROVE  ChargedForOwn'
<1> SUFFICES ASSUME NEW v \in users' \ (drifted' \cup emptied')
             PROVE  used'[v] = BytesOf(HeldThen(v))
  BY HeldNext DEF ChargedForOwn
<1> QED BY DEF ChargedForOwn, Spared

LEMMA UploadCharges ==
  ASSUME Given, Charges, NEW u \in users, Upload(u)
  PROVE  ChargedForOwn'
<1> IInv /\ TypeOK /\ Separate /\ IsFiniteSet(older) /\ ChargedForOwn
  BY DEF Charges, IInv
<1>a. users \subseteq Users /\ used \in [Users -> Nat] /\ next \in Blobs
  BY DEF TypeOK, Upload
<1>b. Size[next] \in Nat /\ next \in 1 .. Len(Size)
  BY <1>a, SizeType
<1>c. next \notin stored /\ next \notin Ids
  BY <1>b DEF Separate, TypeOK
<1>d. /\ Ids' = Ids \cup {next} /\ owner'[next] = u /\ content'[next] = next
      /\ \A f \in Ids : owner'[f] = owner[f] /\ content'[f] = content[f]
  BY <1>c DEF Upload, Ids
<1>e. Live' = Live \cup {next} /\ next \notin Live /\ Live \subseteq Ids
  BY <1>c, <1>d DEF Live, Upload, TypeOK
<1>f. older' = older /\ \A v \in older : v.file \in Ids
  BY DEF Upload, TypeOK
<1>g. users' = users /\ drifted' = drifted /\ emptied' = emptied
      /\ used' = Charged(used, u, Size[next])
  BY DEF Upload
<1>1. ASSUME NEW v \in users, v # u PROVE Spared(v)
  <2>1. HeldThen(v) = Held(v)
    BY <1>1, <1>d, <1>e, <1>f DEF HeldThen, Held, RowOf
  <2>2. used'[v] = used[v]
    BY <1>1, <1>a, <1>b, <1>g, ChargedType
  <2> QED BY <2>1, <2>2 DEF Spared
<1>2. ASSUME u \notin drifted \cup emptied PROVE used'[u] = BytesOf(HeldThen(u))
  <2> DEFINE x == [file |-> next, blob |-> next]
  <2>1. HeldThen(u) = Held(u) \cup {x}
    BY <1>d, <1>e, <1>f DEF HeldThen, Held, RowOf
  <2>2. x \notin Held(u) /\ x.blob = next
    BY <1>c, HeldType
  <2> HIDE DEF x
  <2>3. BytesOf(Held(u) \cup {x}) = BytesOf(Held(u)) + Size[next]
    BY <1>a, <2>2, HeldType, BytesAdd
  <2>4. used'[u] = used[u] + Size[next]
    BY <1>a, <1>b, <1>g, ChargedType
  <2> QED BY <1>2, <2>1, <2>3, <2>4 DEF ChargedForOwn
<1> QED BY <1>1, <1>2, <1>g, SparedCharges

LEMMA OverwriteCharges ==
  ASSUME Given, Charges, NEW w \in Workers, OverwriteCommit(w)
  PROVE  ChargedForOwn' /\ IsFiniteSet(older')
<1> IInv /\ TypeOK /\ Separate /\ IsFiniteSet(older) /\ ChargedForOwn
  BY DEF Charges, IInv
<1> DEFINE r == job[w]
           f == r.file
           new == [file |-> f, blob |-> next]
           ver == [file |-> f, blob |-> content[f], by |-> r.by]
<1>a. users \subseteq Users /\ used \in [Users -> Nat] /\ next \in Blobs /\ f \in Ids
  BY DEF TypeOK, OverwriteCommit
<1>b. Size[next] \in Nat /\ next \in 1 .. Len(Size)
  BY <1>a, SizeType
<1>c. next \notin stored
  BY <1>b DEF Separate, TypeOK
<1>d. /\ content' = [content EXCEPT ![f] = next] /\ older' = older \cup {ver}
      /\ UNCHANGED <<owner, trash, users, emptied>>
      /\ used' = Charged(used, r.from, Size[next]) /\ r.from \in users
      /\ drifted' = IF f \in Live /\ owner[f] = r.from THEN drifted
                    ELSE drifted \cup {r.from, owner[f]}
  BY DEF OverwriteCommit, Fits
<1>e. Ids' = Ids /\ Live' = Live
  BY <1>d DEF Ids, Live
<1>f. content'[f] = next /\ \A g \in Ids \ {f} : content'[g] = content[g]
  BY <1>a, <1>d DEF TypeOK
<1>g. ver.file = f /\ ver.blob = content[f] /\ content[f] \in stored /\ ver \notin older
  <2>1. ver.file = f /\ ver.blob = content[f]
    OBVIOUS
  <2>2. content[f] \in stored
    BY <1>a DEF TypeOK
  <2> HIDE DEF ver
  <2> QED BY <1>a, <2>1, <2>2 DEF Separate
<1>h. new.blob = next
  OBVIOUS
<1> HIDE DEF ver
<1>1. ASSUME NEW v \in users, v # owner[f], v # r.from PROVE Spared(v)
  <2>1. HeldThen(v) = Held(v)
    BY <1>1, <1>a, <1>d, <1>e, <1>f, <1>g DEF HeldThen, Held, RowOf, Live
  <2>2. used'[v] = used[v]
    BY <1>1, <1>a, <1>b, <1>d, ChargedType
  <2> QED BY <2>1, <2>2 DEF Spared
<1>2. ASSUME f \in Live, owner[f] = r.from, r.from \notin drifted \cup emptied
      PROVE  used'[r.from] = BytesOf(HeldThen(r.from))
  <2> DEFINE u == r.from
             old == RowOf(f)
             mid == Held(u) \ {old}
             n == Size[content[f]]
  <2>1. HeldThen(u) = (mid \cup {ver}) \cup {new}
    <3>1. HeldThen(u) = {[file |-> g, blob |-> content'[g]] : g \in {g \in Live : owner[g] = u}} \cup
                        {v \in older \cup {ver} : owner[v.file] = u}
      BY <1>d, <1>e DEF HeldThen
    <3>2. {[file |-> g, blob |-> content'[g]] : g \in {g \in Live : owner[g] = u}}
            = {RowOf(g) : g \in {g \in Live \ {f} : owner[g] = u}} \cup {new}
      BY <1>2, <1>a, <1>f DEF RowOf, Live
    <3>3. {v \in older \cup {ver} : owner[v.file] = u} = {v \in older : owner[v.file] = u} \cup {ver}
      BY <1>2, <1>g
    <3>4. Held(u) = {RowOf(g) : g \in {g \in Live \ {f} : owner[g] = u}} \cup {old}
              \cup {v \in older : owner[v.file] = u}
      BY <1>2 DEF Held
    <3>5. old \notin {RowOf(g) : g \in {g \in Live \ {f} : owner[g] = u}}
      BY DEF RowOf
    <3>6. old \notin older
      <4>1. \A v \in older : v.blob # content[f]
        BY <1>a DEF Separate
      <4> QED BY <4>1 DEF RowOf
    <3> HIDE DEF new, old
    <3> QED BY <3>1, <3>2, <3>3, <3>4, <3>5, <3>6
  <2>2. Items(Held(u)) /\ old \in Held(u) /\ old.blob = content[f]
    BY <1>2, HeldType
  <2>3. ver \notin mid /\ new \notin mid \cup {ver} /\ ver.blob = content[f] /\ content[f] \in Blobs
    <3>1. /\ \A x \in Held(u) : x.blob \in stored
          /\ \A x \in Held(u) : x.blob = content[f] => x = old
      BY <1>a, HeldType
    <3>2. content[f] \in Blobs
      BY <1>g DEF TypeOK
    <3> HIDE DEF new, old
    <3> QED BY <1>c, <1>g, <1>h, <3>1, <3>2
  <2> HIDE DEF new, old, mid, n
  <2>4. /\ Items(mid) /\ n \in Nat /\ BytesOf(mid) \in Nat
        /\ BytesOf(Held(u)) = BytesOf(mid) + n
    BY <2>2, BytesTake DEF mid, n
  <2>5. Items(mid \cup {ver}) /\ BytesOf(mid \cup {ver}) = BytesOf(mid) + n
    BY <2>3, <2>4, BytesAdd DEF n
  <2>6. BytesOf((mid \cup {ver}) \cup {new}) = BytesOf(mid \cup {ver}) + Size[next]
    BY <1>a, <1>h, <2>3, <2>5, BytesAdd
  <2>7. used'[u] = used[u] + Size[next]
    BY <1>a, <1>b, <1>d, ChargedType
  <2>8. used[u] = BytesOf(Held(u))
    BY <1>2, <1>d DEF ChargedForOwn
  <2> QED BY <1>b, <2>1, <2>4, <2>5, <2>6, <2>7, <2>8
<1>3. IsFiniteSet(older')
  BY <1>d, FS_AddElement
<1>4. \A v \in users' \ (drifted' \cup emptied') :
        (v \in users \ (drifted \cup emptied) /\ Spared(v)) \/ used'[v] = BytesOf(HeldThen(v))
  BY <1>1, <1>2, <1>d
<1> QED BY <1>3, <1>4, SparedCharges

\* A step that moves nothing but requests.
LEMMA ReadCharges ==
  ASSUME ChargedForOwn, UNCHANGED <<users, used, files, emptied, drifted>>
  PROVE  ChargedForOwn' /\ older' = older
BY DEF ChargedForOwn, Held, RowOf, BytesOf, Live, Ids, files

LEMMA DeleteCharges ==
  ASSUME Given, Charges, NEW w \in Workers, DeleteCommit(w)
  PROVE  ChargedForOwn' /\ older' = older
<1> IInv /\ TypeOK /\ Separate /\ IsFiniteSet(older) /\ ChargedForOwn
  BY DEF Charges, IInv
<1> DEFINE r == job[w]
           f == r.file
           old == RowOf(f)
           n == Size[content[f]]
<1>a. users \subseteq Users /\ used \in [Users -> Nat] /\ f \in Live /\ f \in Ids
  BY DEF TypeOK, DeleteCommit, Live
<1>b. content[f] \in Blobs /\ n \in Nat
  BY <1>a, SizeType DEF TypeOK
<1>d. /\ UNCHANGED <<owner, content, older, users, emptied>> /\ trash' = trash \cup {f}
      /\ used' = Released(used, r.from, n)
      /\ drifted' = IF owner[f] = r.from THEN drifted ELSE drifted \cup {r.from, owner[f]}
  BY DEF DeleteCommit
<1>e. Ids' = Ids /\ Live' = Live \ {f}
  BY <1>d DEF Ids, Live
<1> HIDE DEF n
<1>1. ASSUME NEW v \in users, v # owner[f], v # r.from PROVE Spared(v)
  <2>1. HeldThen(v) = Held(v)
    BY <1>1, <1>d, <1>e DEF HeldThen, Held, RowOf
  <2>2. used'[v] = used[v]
    BY <1>1, <1>a, <1>d DEF Released
  <2> QED BY <2>1, <2>2 DEF Spared
<1>2. ASSUME owner[f] = r.from, r.from \in users \ (drifted \cup emptied)
      PROVE  used'[r.from] = BytesOf(HeldThen(r.from))
  <2> DEFINE u == r.from
  <2>1. HeldThen(u) = Held(u) \ {old}
    <3>1. Held(u) = {RowOf(g) : g \in {g \in Live \ {f} : owner[g] = u}} \cup {old}
              \cup {v \in older : owner[v.file] = u}
      BY <1>2, <1>a DEF Held
    <3>2. HeldThen(u) = {RowOf(g) : g \in {g \in Live \ {f} : owner[g] = u}}
              \cup {v \in older : owner[v.file] = u}
      BY <1>d, <1>e DEF HeldThen, RowOf
    <3>5. old \notin {RowOf(g) : g \in {g \in Live \ {f} : owner[g] = u}}
      BY DEF RowOf
    <3>6. old \notin older
      <4>1. \A v \in older : v.blob # content[f]
        BY <1>a DEF Separate
      <4> QED BY <4>1 DEF RowOf
    <3> HIDE DEF old
    <3> QED BY <3>1, <3>2, <3>5, <3>6
  <2>2. Items(Held(u)) /\ old \in Held(u) /\ old.blob = content[f]
    BY <1>2, <1>a, HeldType
  <2> HIDE DEF old
  <2>3. BytesOf(Held(u) \ {old}) \in Nat /\ BytesOf(Held(u)) = BytesOf(Held(u) \ {old}) + n
    BY <2>2, BytesTake DEF n
  <2>4. used[u] = BytesOf(Held(u))
    BY <1>2 DEF ChargedForOwn
  <2>5. used'[u] = IF used[u] > n THEN used[u] - n ELSE 0
    BY <1>2, <1>a, <1>d DEF Released
  <2> QED BY <1>b, <2>1, <2>3, <2>4, <2>5
<1>3. \A v \in users' \ (drifted' \cup emptied') :
        (v \in users \ (drifted \cup emptied) /\ Spared(v)) \/ used'[v] = BytesOf(HeldThen(v))
  BY <1>1, <1>2, <1>d
<1> QED BY <1>3, <1>d, SparedCharges
\* A file changes hands: whoever is neither its owner, nor named by the request, is spared.
Handed(f, from, to, n) ==
  /\ f \in Ids /\ to \in users
  /\ owner' = [owner EXCEPT ![f] = to]
  /\ UNCHANGED <<users, content, trash, older, emptied>>
  /\ used' = Charged(Released(used, from, n), to, n)

LEMMA HandedSpares ==
  ASSUME Given, IInv, NEW f, NEW from, NEW to, NEW n \in Nat, Handed(f, from, to, n),
         NEW v \in users, v # owner[f], v # from, v # to
  PROVE  Spared(v)
<1> TypeOK
  BY DEF IInv
<1>1. Ids' = Ids /\ Live' = Live /\ \A g \in Ids : owner'[g] = IF g = f THEN to ELSE owner[g]
  BY DEF Handed, Ids, Live, TypeOK
<1>2. \A x \in older : x.file \in Ids
  BY DEF TypeOK
<1>3. HeldThen(v) = Held(v)
  BY <1>1, <1>2 DEF HeldThen, Held, RowOf, Handed, Live
<1>4. users \subseteq Users /\ used \in [Users -> Nat]
  BY DEF TypeOK
<1>5. Released(used, from, n) \in [Users -> Nat] /\ Released(used, from, n)[v] = used[v]
  BY <1>4, ReleasedType DEF Released
<1>6. used'[v] = used[v]
  BY <1>4, <1>5, ChargedType DEF Handed
<1> QED BY <1>3, <1>6 DEF Spared

\* When it is the file that the request read, both accounts are charged rightly.
LEMMA HandedRight ==
  ASSUME Given, Charges, NEW f \in Live, NEW to, Handed(f, owner[f], to, Size[content[f]]),
         OldOf(f) = {}, NEW v \in users \ (drifted \cup emptied)
  PROVE  used'[v] = BytesOf(HeldThen(v))
<1> IInv /\ TypeOK /\ Separate /\ IsFiniteSet(older) /\ ChargedForOwn
  BY DEF Charges, IInv
<1> DEFINE n == Size[content[f]]
           from == owner[f]
           old == RowOf(f)
           rest(u) == {RowOf(g) : g \in {g \in Live \ {f} : owner[g] = u}} \cup
                      {x \in older : owner[x.file] = u}
<1>a. /\ users \subseteq Users /\ used \in [Users -> Nat] /\ f \in Ids /\ from \in users
      /\ content[f] \in Blobs /\ n \in Nat /\ to \in users
  BY SizeType DEF TypeOK, Live, Handed
<1>b. used[v] = BytesOf(Held(v))
  BY DEF ChargedForOwn
<1>1. Ids' = Ids /\ Live' = Live /\ \A g \in Ids : owner'[g] = IF g = f THEN to ELSE owner[g]
  BY DEF Handed, Ids, Live, TypeOK
<1>2. \A x \in older : x.file \in Ids /\ x.file # f
  BY DEF TypeOK, OldOf
<1>3. \A u : Held(u) = IF u = from THEN rest(u) \cup {old} ELSE rest(u)
  BY DEF Held
<1>4. \A u : HeldThen(u) = IF u = to THEN rest(u) \cup {old} ELSE rest(u)
  <2> SUFFICES ASSUME NEW u PROVE HeldThen(u) = IF u = to THEN rest(u) \cup {old} ELSE rest(u)
    OBVIOUS
  <2> DEFINE G == {g \in Live : owner'[g] = u}
             H == {g \in Live \ {f} : owner[g] = u}
             O == {x \in older : owner[x.file] = u}
  <2>1. HeldThen(u) = {RowOf(g) : g \in G} \cup {x \in older : owner'[x.file] = u}
    BY <1>1 DEF HeldThen, RowOf, Handed
  <2>2. {x \in older : owner'[x.file] = u} = O
    BY <1>1, <1>2
  <2>3. G = IF u = to THEN H \cup {f} ELSE H
    BY <1>1 DEF Live
  <2>4. rest(u) = {RowOf(g) : g \in H} \cup O
    OBVIOUS
  <2> HIDE DEF G, H, O, rest
  <2>5. CASE u = to
    <3>1. {RowOf(g) : g \in G} = {RowOf(g) : g \in H} \cup {RowOf(f)}
      BY <2>3, <2>5
    <3> HIDE DEF old
    <3>2. RowOf(f) = old
      BY DEF old
    <3> QED BY <2>1, <2>2, <2>4, <2>5, <3>1, <3>2
  <2>6. CASE u # to
    <3>1. HeldThen(u) = rest(u)
      BY <2>1, <2>2, <2>3, <2>4, <2>6
    <3> QED BY <2>6, <3>1
  <2> QED BY <2>5, <2>6
<1>5. \A u : old \notin rest(u)
  <2>1. \A x \in older : x.blob # content[f]
    BY <1>a DEF Separate
  <2> QED BY <2>1 DEF RowOf
<1>6. \A u : Items(Held(u)) /\ (u = from => old \in Held(u)) /\ old.blob = content[f]
  BY HeldType
<1> HIDE DEF n, old, rest, from
<1>7. /\ BytesOf(rest(v)) \in Nat
      /\ BytesOf(rest(v) \cup {old}) = BytesOf(rest(v)) + n
  <2>1. Items(rest(v))
    <3>1. rest(v) \in SUBSET Held(v)
      BY <1>3
    <3> QED BY <1>6, <3>1, FS_Subset DEF Items
  <2> QED BY <1>a, <1>5, <1>6, <2>1, BytesAdd, CellsFinite DEF n
<1>8. used' = Charged(Released(used, from, n), to, n)
  BY DEF Handed, n, from
<1>9. Released(used, from, n) \in [Users -> Nat]
  BY <1>a, ReleasedType
<1>10. Released(used, from, n)[v] = IF v = from THEN (IF used[v] > n THEN used[v] - n ELSE 0) ELSE used[v]
  BY <1>a DEF Released
<1>11. Released(used, from, n)[v] = BytesOf(rest(v))
  BY <1>a, <1>b, <1>3, <1>7, <1>10
<1>12. used'[v] = Released(used, from, n)[v] + (IF v = to THEN n ELSE 0)
  BY <1>a, <1>8, <1>9, ChargedType
<1>13. CASE v = to
  <2>1. HeldThen(v) = rest(v) \cup {old}
    BY <1>4, <1>13
  <2>2. used'[v] = BytesOf(rest(v)) + n
    BY <1>11, <1>12, <1>13
  <2> QED BY <1>7, <2>1, <2>2
<1>14. CASE v # to
  <2>1. HeldThen(v) = rest(v)
    BY <1>4, <1>14
  <2>2. used'[v] = BytesOf(rest(v))
    BY <1>7, <1>11, <1>12, <1>14
  <2> QED BY <2>1, <2>2
<1> QED BY <1>13, <1>14

LEMMA TransferCharges ==
  ASSUME Given, Charges, NEW w \in Workers, TransferCommit(w)
  PROVE  ChargedForOwn' /\ older' = older
<1> IInv /\ TypeOK /\ ChargedForOwn
  BY DEF Charges, IInv
<1> DEFINE r == job[w]
           f == r.file
           asRead == /\ f \in Live /\ owner[f] = r.from /\ Size[content[f]] = r.size
                     /\ OldOf(f) = {}
<1>1. /\ users' = users /\ emptied' = emptied /\ older' = older
      /\ drifted' = IF asRead THEN drifted
                    ELSE drifted \cup {r.from, r.to} \cup (IF f \in Ids THEN {owner[f]} ELSE {})
  BY DEF TransferCommit
<1>2. r.op = "transfer" /\ r.size \in Nat
  BY DEF TransferCommit, TypeOK, Request, Resting
<1>3. CASE f \in Ids
  <2>1. Handed(f, r.from, r.to, r.size)
    BY <1>3 DEF TransferCommit, Handed
  <2>2. CASE asRead
    <3>1. \A v \in users \ (drifted \cup emptied) : used'[v] = BytesOf(HeldThen(v))
      BY <2>1, <2>2, HandedRight
    <3> QED BY <1>1, <2>2, <3>1, SparedCharges
  <2>3. CASE ~ asRead
    <3>1. \A v \in users \ {owner[f], r.from, r.to} : Spared(v)
      BY <1>2, <2>1, HandedSpares
    <3>2. drifted' = drifted \cup {r.from, r.to} \cup {owner[f]}
      BY <1>1, <1>3, <2>3
    <3> HIDE DEF asRead
    <3>3. \A v \in users' \ (drifted' \cup emptied') : v \in users \ (drifted \cup emptied) /\ Spared(v)
      BY <1>1, <3>1, <3>2
    <3> QED BY <1>1, <3>3, SparedCharges
  <2> QED BY <2>2, <2>3
<1>4. CASE f \notin Ids
  <2>0. drifted' = drifted \cup {r.from, r.to}
    BY <1>1, <1>4 DEF Live
  <2>1. UNCHANGED <<owner, content, trash, older>>
        /\ used' = Charged(Released(used, r.from, r.size), r.to, r.size)
    BY <1>4 DEF TransferCommit
  <2>2. users \subseteq Users /\ used \in [Users -> Nat]
    BY DEF TypeOK
  <2>3. ASSUME NEW v \in users, v # r.from, v # r.to PROVE Spared(v)
    <3>1. HeldThen(v) = Held(v)
      BY <2>1 DEF HeldThen, Held, RowOf, Live, Ids
    <3>2. Released(used, r.from, r.size) \in [Users -> Nat]
          /\ Released(used, r.from, r.size)[v] = used[v]
      BY <1>2, <2>2, <2>3, ReleasedType DEF Released
    <3>3. used'[v] = used[v]
      BY <1>2, <2>1, <2>2, <2>3, <3>2, ChargedType
    <3> QED BY <3>1, <3>3 DEF Spared
  <2>4. \A v \in users' \ (drifted' \cup emptied') : v \in users \ (drifted \cup emptied) /\ Spared(v)
    BY <1>1, <2>0, <2>3
  <2> QED BY <1>1, <2>4, SparedCharges
<1> QED BY <1>3, <1>4

LEMMA MoveCharges ==
  ASSUME Given, Charges, NEW w \in Workers, MoveCommit(w)
  PROVE  ChargedForOwn' /\ older' = older
<1> IInv /\ TypeOK /\ ChargedForOwn
  BY DEF Charges, IInv
<1> DEFINE r == job[w]
           f == r.file
           n == Size[content[f]]
           asRead == owner[f] = r.from /\ OldOf(f) = {}
<1>1. /\ users' = users /\ emptied' = emptied /\ older' = older
      /\ drifted' = IF asRead THEN drifted ELSE drifted \cup {r.from, r.to, owner[f]}
      /\ f \in Live
  BY DEF MoveCommit
<1>2. n \in Nat
  BY <1>1, SizeType DEF TypeOK, Live
<1>3. Handed(f, r.from, r.to, n)
  BY <1>1 DEF MoveCommit, Handed, Live
<1>4. CASE asRead
  <2>1. \A v \in users \ (drifted \cup emptied) : used'[v] = BytesOf(HeldThen(v))
    BY <1>1, <1>3, <1>4, HandedRight
  <2> QED BY <1>1, <1>4, <2>1, SparedCharges
<1>5. CASE ~ asRead
  <2> HIDE DEF n
  <2>1. \A v \in users \ {owner[f], r.from, r.to} : Spared(v)
    BY <1>2, <1>3, HandedSpares
  <2>2. drifted' = drifted \cup {r.from, r.to, owner[f]}
    BY <1>1, <1>5
  <2> HIDE DEF asRead
  <2>3. \A v \in users' \ (drifted' \cup emptied') : v \in users \ (drifted \cup emptied) /\ Spared(v)
    BY <1>1, <2>1, <2>2
  <2> QED BY <1>1, <2>3, SparedCharges
<1> QED BY <1>4, <1>5

LEMMA EmptyCharges ==
  ASSUME Given, Charges, NEW u \in users, Empty(u)
  PROVE  ChargedForOwn' /\ older' \in SUBSET older
<1> IInv /\ TypeOK /\ ChargedForOwn
  BY DEF Charges, IInv
<1> DEFINE F == {f \in Ids : owner[f] = u}
<1>1. /\ Gone(F) /\ older' = {v \in older : v.file \notin F} /\ emptied' = emptied \cup {u}
      /\ UNCHANGED <<users, used, drifted>>
  BY DEF Empty
<1>2. /\ Ids' = Ids \ F /\ Live' = Live \ F
      /\ \A f \in Ids \ F : owner'[f] = owner[f] /\ content'[f] = content[f]
  BY <1>1 DEF Gone, Ids, Live
<1>3. \A v \in older : v.file \in Ids
  BY DEF TypeOK
<1>4. ASSUME NEW v \in users, v # u PROVE Spared(v)
  <2>1. HeldThen(v) = Held(v)
    BY <1>1, <1>2, <1>3, <1>4 DEF HeldThen, Held, RowOf, Live
  <2> QED BY <1>1, <2>1 DEF Spared
<1>5. \A v \in users' \ (drifted' \cup emptied') : v \in users \ (drifted \cup emptied) /\ Spared(v)
  BY <1>1, <1>4
<1> QED BY <1>1, <1>5, SparedCharges

LEMMA DropCharges ==
  ASSUME Given, Charges, NEW u \in users, Drop(u)
  PROVE  ChargedForOwn' /\ older' \in SUBSET older
<1> IInv /\ TypeOK /\ ChargedForOwn
  BY DEF Charges, IInv
<1> DEFINE F == {f \in Ids : owner[f] = u}
           made == {v \in older : v.by = u}
<1>1. /\ Gone(F) /\ older' = {v \in older \ made : v.file \notin F}
      /\ emptied' = emptied \ {u} /\ users' = users \ {u} /\ used' = used
      /\ drifted' = drifted \cup {owner[v.file] : v \in made}
  BY DEF Drop
<1>2. /\ Ids' = Ids \ F /\ Live' = Live \ F
      /\ \A f \in Ids \ F : owner'[f] = owner[f] /\ content'[f] = content[f]
  BY <1>1 DEF Gone, Ids, Live
<1>3. \A v \in older : v.file \in Ids
  BY DEF TypeOK
<1>4. ASSUME NEW v \in users, v # u, v \notin drifted' PROVE Spared(v)
  <2>1. \A x \in made : owner[x.file] # v
    BY <1>1, <1>4
  <2>2. {x \in older' : owner'[x.file] = v} = {x \in older : owner[x.file] = v}
    <3>1. \A x \in older : owner[x.file] = v => x \in older' /\ owner'[x.file] = v
      BY <1>1, <1>2, <1>3, <1>4, <2>1
    <3>2. \A x \in older' : x \in older /\ owner'[x.file] = owner[x.file]
      BY <1>1, <1>2, <1>3
    <3> QED BY <3>1, <3>2
  <2>3. {[file |-> f, blob |-> content'[f]] : f \in {f \in Live' : owner'[f] = v}}
          = {RowOf(f) : f \in {f \in Live : owner[f] = v}}
    BY <1>2, <1>4 DEF RowOf, Live
  <2>4. HeldThen(v) = Held(v)
    BY <2>2, <2>3 DEF HeldThen, Held
  <2> QED BY <1>1, <2>4 DEF Spared
<1>5. \A v \in users' \ (drifted' \cup emptied') : v \in users \ (drifted \cup emptied) /\ Spared(v)
  BY <1>1, <1>4
<1> QED BY <1>1, <1>5, SparedCharges

LEMMA SurviveCharges ==
  ASSUME Charges, NEW u \in users, Survive(u)
  PROVE  ChargedForOwn' /\ older' = older
<1>1. UNCHANGED <<users, used, files>> /\ emptied' = emptied \ {u} /\ drifted' = drifted \cup {u}
  BY DEF Survive
<1> QED BY <1>1 DEF Charges, ChargedForOwn, Held, RowOf, BytesOf, Live, Ids, files

LEMMA ChargesStep ==
  ASSUME Given, Charges, [Next]_vars
  PROVE  ChargedForOwn' /\ IsFiniteSet(older')
<1> IInv /\ ChargedForOwn /\ IsFiniteSet(older)
  BY DEF Charges
<1> SUFFICES ChargedForOwn' /\ (older' \in SUBSET older \/ IsFiniteSet(older'))
  BY FS_Subset
<1>1. CASE UNCHANGED vars
  BY <1>1, ReadCharges DEF vars, files
<1>2. ASSUME NEW u \in users, Upload(u) PROVE ChargedForOwn' /\ older' = older
  BY <1>2, UploadCharges DEF Upload
<1>3. ASSUME NEW w \in Workers, NEW r, Reads(w, r) PROVE ChargedForOwn' /\ older' = older
  BY <1>3, ReadCharges DEF Reads
<1>4. ASSUME NEW w \in Workers, Abort(w) PROVE ChargedForOwn' /\ older' = older
  BY <1>4, ReadCharges DEF Abort
<1>5. ASSUME NEW w \in Workers, NEW f \in Live, NEW u \in users,
             OverwriteRead(w, f, u) \/ TransferRead(w, f, u) \/ MoveRead(w, f, u) \/ DeleteRead(w, f)
      PROVE  ChargedForOwn' /\ older' = older
  BY <1>3, <1>5 DEF OverwriteRead, TransferRead, MoveRead, DeleteRead
<1>6. ASSUME NEW w \in Workers, DeleteRead(w, job[w].file) \/ \E f \in Live : DeleteRead(w, f)
      PROVE  ChargedForOwn' /\ older' = older
  BY <1>3, <1>6 DEF DeleteRead
<1> QED
  BY <1>1, <1>2, <1>4, <1>5, <1>6, OverwriteCharges, DeleteCharges, TransferCharges, MoveCharges,
     EmptyCharges, DropCharges, SurviveCharges DEF Next
LEMMA ChargesCorrect ==
  ASSUME Given
  PROVE  Spec => []Charges
<1>1. Init => Charges
  <2> SUFFICES ASSUME Init PROVE IsFiniteSet(older) /\ ChargedForOwn
    BY IInvInitially DEF Charges
  <2>1. older = {} /\ Live = {} /\ users = Users /\ used = [u \in Users |-> 0]
    BY DEF Init, Live, Ids
  <2>2. \A u : Held(u) = {}
    BY <2>1 DEF Held
  <2>3. Cells({}) = {}
    BY DEF Cells
  <2>4. BytesOf({}) = 0
    BY <2>3, FS_EmptySet DEF BytesOf, Cells
  <2> QED BY <2>1, <2>2, <2>4, FS_EmptySet DEF ChargedForOwn
<1>2. Charges /\ [Next]_vars => Charges'
  BY IInvStep, ChargesStep DEF Charges
<1> QED BY <1>1, <1>2, PTL DEF Spec

\* An account that no named cause has set adrift, and that is not being deleted, is
\* charged for its live files and for the versions of all its files, whatever changes
\* hands around it (handlers_transfer.go:44-125, delete_helpers.go:301-404).
THEOREM ChargedCorrect ==
  ASSUME Given
  PROVE  Spec => []ChargedForOwn
<1>1. Charges => ChargedForOwn
  BY DEF Charges
<1> QED BY <1>1, ChargesCorrect, PTL

--------------------------------------------------------------------------------
(* File locks. *)

\* Hypotheses on the constants of the locks.
LockGiven == Until \in Nat /\ Ttls \subseteq Nat

\* The row backs what a client was told: OneHolder follows, as there is one row.
Backed ==
  \A u \in Clients \ displaced :
    told[u] > clock + 1 => row # L!NoLock /\ row.by = u /\ row.ends >= told[u] - 1

LockInv == L!TypeOK /\ Backed

\* Every table, acquisition and answer keeps its type in each step of a client or
\* of the clock.
LEMMA LockTypeStep ==
  ASSUME LockGiven, L!TypeOK, [L!Next]_L!vars
  PROVE  L!TypeOK'
<1> USE DEF LockGiven, L!TypeOK, L!Locks, L!NoLock, L!Calls, L!NoCall
<1>1. CASE UNCHANGED L!vars
  BY <1>1 DEF L!vars
<1>2. ASSUME NEW u \in Clients, NEW ttl \in Ttls, L!Look(u, ttl) PROVE L!TypeOK'
  <2>1. clock + ttl \in 0 .. Until
    BY <1>2 DEF L!Look
  <2>2. call' \in [Clients -> L!Calls \cup {L!NoCall}]
    BY <1>2, <2>1 DEF L!Look
  <2> QED BY <1>2, <2>2 DEF L!Look
<1>3. ASSUME NEW u \in Clients, call[u] # L!NoCall, L!Upsert(u) PROVE row' \in L!Locks
  <2>1. call[u] \in L!Calls
    BY <1>3
  <2>2. call[u].ends \in 0 .. Until
    BY <2>1
  <2>3. PICK ends \in call[u].ends - 1 .. call[u].ends + 1 :
          ends >= 0 /\ row' = [by |-> u, ends |-> ends]
    BY <1>3 DEF L!Upsert
  <2>4. ends \in 0 .. Until + 1
    BY <2>2, <2>3
  <2> QED BY <2>3, <2>4
<1>4. ASSUME NEW u \in Clients PROVE L!Overtaken(u) \subseteq Clients
  BY DEF L!Overtaken, L!Guards
<1>5. ASSUME NEW u \in Clients, L!Take(u) PROVE L!TypeOK'
  <2>1. row' \in L!Locks
    BY <1>3, <1>5 DEF L!Take
  <2>2. call[u] \in L!Calls
    BY <1>5 DEF L!Take
  <2>3. told' \in [Clients -> 0 .. Until]
    BY <1>5, <2>2 DEF L!Take
  <2>4. displaced' \subseteq Clients
    BY <1>4, <1>5 DEF L!Take
  <2>5. call' \in [Clients -> L!Calls \cup {L!NoCall}]
    BY <1>5 DEF L!Take
  <2> QED BY <1>5, <2>1, <2>3, <2>4, <2>5 DEF L!Take
<1>6. ASSUME NEW u \in Clients, L!Fail(u) PROVE L!TypeOK'
  <2>1. row' \in L!Locks \cup {L!NoLock}
    BY <1>3, <1>6 DEF L!Fail
  <2>2. displaced' \subseteq Clients
    BY <1>4, <1>6 DEF L!Fail
  <2>3. call' \in [Clients -> L!Calls \cup {L!NoCall}]
    BY <1>6 DEF L!Fail
  <2> QED BY <1>6, <2>1, <2>2, <2>3 DEF L!Fail
<1>7. ASSUME NEW u \in Clients, L!Release(u) PROVE L!TypeOK'
  BY <1>7 DEF L!Release
<1>8. CASE L!Prune
  BY <1>8 DEF L!Prune
<1>9. CASE L!Tick
  BY <1>9 DEF L!Tick
<1> QED BY <1>1, <1>2, <1>5, <1>6, <1>7, <1>8, <1>9 DEF L!Next

\* A row that was taken is backed by itself; the others are displaced by it.
LEMMA LockBackedStep ==
  ASSUME LockGiven, LockInv, [L!Next]_L!vars
  PROVE  Backed'
<1> USE DEF LockInv, L!TypeOK, L!Locks, L!NoLock, L!Calls, L!NoCall
<1>t. L!TypeOK'
  BY LockTypeStep
<1>1. CASE UNCHANGED L!vars
  BY <1>1 DEF L!vars, Backed
<1>2. ASSUME NEW u \in Clients, NEW ttl \in Ttls, L!Look(u, ttl) PROVE Backed'
  BY <1>2 DEF L!Look, Backed
\* Whom the new row does not belong to was told nothing that lasts, or is displaced.
<1>3. ASSUME NEW u \in Clients, L!Upsert(u), NEW v \in Clients \ displaced, v # u,
             told[v] > clock + 1
      PROVE  v \in L!Overtaken(u)
  <2>1. row # L!NoLock /\ row.by = v /\ row.ends >= told[v] - 1
    BY <1>3 DEF Backed
  <2>2. row \in L!Locks
    BY <2>1
  <2>3. row.ends > clock
    BY <1>3, <2>1, <2>2
  <2> QED BY <1>3, <2>1, <2>3 DEF L!Overtaken, L!Guards
<1>4. ASSUME NEW u \in Clients, L!Take(u) PROVE Backed'
  <2> SUFFICES ASSUME NEW v \in Clients \ displaced', told'[v] > clock' + 1
               PROVE  row' # L!NoLock /\ row'.by = v /\ row'.ends >= told'[v] - 1
    BY DEF Backed
  <2>1. L!Upsert(u) /\ clock' = clock
    BY <1>4 DEF L!Take
  <2>2. CASE v = u
    <3>1. call[u] \in L!Calls /\ told'[u] = call[u].ends
      BY <1>4 DEF L!Take
    <3>2. PICK ends \in call[u].ends - 1 .. call[u].ends + 1 :
            ends >= 0 /\ row' = [by |-> u, ends |-> ends]
      BY <2>1 DEF L!Upsert
    <3> QED BY <2>2, <3>1, <3>2
  <2>3. CASE v # u
    <3>1. told'[v] = told[v] /\ v \notin displaced /\ v \notin L!Overtaken(u)
      BY <1>4, <2>3 DEF L!Take
    <3> QED BY <1>3, <2>1, <2>3, <3>1
  <2> QED BY <2>2, <2>3
<1>5. ASSUME NEW u \in Clients, L!Fail(u) PROVE Backed'
  <2>1. CASE UNCHANGED <<row, displaced>>
    BY <1>5, <2>1 DEF L!Fail, Backed
  <2>2. CASE L!Upsert(u) /\ displaced' = displaced \cup {u} \cup L!Overtaken(u)
    BY <1>3, <1>5, <2>2 DEF L!Fail, Backed
  <2> QED BY <1>5, <2>1, <2>2 DEF L!Fail
<1>6. ASSUME NEW u \in Clients, L!Release(u) PROVE Backed'
  <2> SUFFICES ASSUME NEW v \in Clients \ displaced', told'[v] > clock' + 1
               PROVE  row' # L!NoLock /\ row'.by = v /\ row'.ends >= told'[v] - 1
    BY DEF Backed
  <2>1. v # u
    BY <1>6 DEF L!Release
  <2>2. told'[v] = told[v] /\ v \notin displaced /\ clock' = clock
    BY <1>6, <2>1 DEF L!Release
  <2>3. row # L!NoLock /\ row.by = v /\ row.ends >= told[v] - 1
    BY <2>2 DEF Backed
  <2>4. row' = row
    BY <1>6, <2>1, <2>3 DEF L!Release
  <2> QED BY <2>2, <2>3, <2>4
<1>7. CASE L!Prune
  <2> SUFFICES ASSUME NEW v \in Clients \ displaced, told[v] > clock + 1 PROVE FALSE
    BY <1>7 DEF L!Prune, Backed
  <2>1. row # L!NoLock /\ row.ends >= told[v] - 1 /\ row.ends < clock
    BY <1>7 DEF L!Prune, Backed
  <2>2. row \in L!Locks
    BY <2>1
  <2> QED BY <2>1, <2>2
<1>8. CASE L!Tick
  <2> SUFFICES ASSUME NEW v \in Clients \ displaced, told[v] > clock' + 1
               PROVE  row # L!NoLock /\ row.by = v /\ row.ends >= told[v] - 1
    BY <1>8 DEF L!Tick, Backed
  <2>1. clock' = clock + 1
    BY <1>8 DEF L!Tick
  <2>2. told[v] > clock + 1
    BY <2>1
  <2> QED BY <2>2 DEF Backed
<1> QED BY <1>1, <1>2, <1>4, <1>5, <1>6, <1>7, <1>8 DEF L!Next

LEMMA LocksCorrect ==
  ASSUME LockGiven
  PROVE  L!Spec => []LockInv
<1>1. L!Init => LockInv
  BY DEF LockGiven, L!Init, LockInv, L!TypeOK, Backed, L!Calls, L!NoCall, L!NoLock, L!Locks
<1>2. LockInv /\ [L!Next]_L!vars => LockInv'
  BY LockTypeStep, LockBackedStep DEF LockInv
<1> QED BY <1>1, <1>2, PTL DEF L!Spec

\* The clock, the row of file_locks, the open acquisitions and the answers keep their
\* types (handlers_locks.go:45-139).
LEMMA LockTypes ==
  ASSUME LockGiven
  PROVE  L!Spec => []L!TypeOK
<1>1. LockInv => L!TypeOK
  BY DEF LockInv
<1> QED BY <1>1, LocksCorrect, PTL

\* However acquisitions, refreshes, releases and the maintenance job overlap, of the
\* clients that were not displaced by a named cause at most one is told that it holds
\* the lock (handlers_locks.go:78-113).
LEMMA LockHolders ==
  ASSUME LockGiven
  PROVE  L!Spec => []L!OneHolder
<1>1. LockInv => L!OneHolder
  BY DEF LockInv, Backed, L!OneHolder
<1> QED BY <1>1, LocksCorrect, PTL

--------------------------------------------------------------------------------
(* The instance. *)

\* Hypotheses on the constants of the three.
AllGiven == Given /\ LockGiven /\ VP!Given

\* The restore of versions is that of the module it is proved in.
LEMMA SameVersions == V!Init = VP!Init /\ V!Next = VP!Next /\ V!vars = VP!vars
<1>1. V!Init = VP!Init
  BY DEF V!Init, V!NoRow, V!Paths, V!Swap, V!NoBlob, V!NoSwap, V!Unanswered, V!Cardinality,
         VP!Init, VP!NoRow, VP!Paths, VP!Swap, VP!NoBlob, VP!NoSwap, VP!Unanswered,
         VP!Cardinality
<1>2. V!vars = VP!vars
  BY DEF V!vars, VP!vars
<1>3. V!Next = VP!Next
  BY DEF V!Order, V!VersionPath, V!Swap, V!Paths, V!NoBlob, V!Key, V!NoRow,
         V!NoSwap, V!Unanswered, V!VersionsOf, V!NextNo, V!Shared, V!Acquire,
         V!Release, V!Unlinked, V!Pruned, V!Donors, V!Stored, V!Written, V!Mint,
         V!Joins, V!Same, V!Insert, V!Overwrite, V!Purge, V!Begin, V!Moved,
         V!From, V!To, V!Undone, V!Rename, V!Restored, V!Commit, V!Crash,
         V!Next, V!vars, V!Init, V!Max, V!Cardinality, VP!Order, VP!VersionPath, VP!Swap, VP!Paths,
         VP!NoBlob, VP!Key, VP!NoRow, VP!NoSwap, VP!Unanswered, VP!VersionsOf,
         VP!NextNo, VP!Shared, VP!Acquire, VP!Release, VP!Unlinked, VP!Pruned,
         VP!Donors, VP!Stored, VP!Written, VP!Mint, VP!Joins, VP!Same,
         VP!Insert, VP!Overwrite, VP!Purge, VP!Begin, VP!Moved, VP!From, VP!To,
         VP!Undone, VP!Rename, VP!Restored, VP!Commit, VP!Crash, VP!Next,
         VP!vars, VP!Init,
         VP!Max, VP!Cardinality
<1> QED BY <1>1, <1>2, <1>3

LEMMA SameClaims == V!TypeOK = VP!TypeOK /\ V!RowsMatchDisk = VP!RowsMatchDisk
<1>1. V!RowsMatchDisk = VP!RowsMatchDisk
  BY DEF V!RowsMatchDisk, V!NoRow, V!NoBlob, VP!RowsMatchDisk, VP!NoRow, VP!NoBlob
<1>2. V!TypeOK = VP!TypeOK
  BY DEF V!TypeOK, V!Swap, V!NoRow, V!Keys, V!NoBlob, V!Paths, V!Unanswered, V!Cardinality,
         VP!TypeOK, VP!Swap, VP!NoRow, VP!Keys, VP!NoBlob, VP!Paths, VP!Unanswered, VP!Cardinality
<1> QED BY <1>1, <1>2

\* A behaviour of the instance is one of each service: of one, and a pause of the others.
LEMMA EachAlone == AllSpec => VP!Spec /\ Spec /\ L!Spec
<1>1. AllInit => VP!Init /\ Init /\ L!Init
  BY SameVersions DEF AllInit
<1>2. [AllNext]_allVars => [VP!Next]_VP!vars /\ [Next]_vars /\ [L!Next]_L!vars
  <2> SUFFICES ASSUME [AllNext]_allVars
               PROVE  (VP!Next \/ UNCHANGED VP!vars) /\ (Next \/ UNCHANGED vars)
                      /\ (L!Next \/ UNCHANGED L!vars)
    OBVIOUS
  <2>1. UNCHANGED versionVars => UNCHANGED VP!vars
    BY DEF versionVars, VP!vars
  <2>2. UNCHANGED lockVars => UNCHANGED L!vars
    BY DEF lockVars, L!vars
  <2>3. CASE UNCHANGED allVars
    <3>1. UNCHANGED versionVars /\ UNCHANGED vars /\ UNCHANGED lockVars
      BY <2>3 DEF allVars
    <3> QED BY <2>1, <2>2, <3>1
  <2>4. CASE AllNext
    BY <2>1, <2>2, <2>4, SameVersions DEF AllNext
  <2> QED BY <2>3, <2>4
<1> QED BY <1>1, <1>2, PTL DEF AllSpec, VP!Spec, Spec, L!Spec

\* The tables, requests and histories of all three keep their types while they run
\* (handlers_versions.go:68-196, handlers_transfer.go:44-125, handlers_locks.go:45-139).
THEOREM AllTypesCorrect ==
  ASSUME AllGiven
  PROVE  AllSpec => []AllTypesOK
<1>1. VP!Spec => []VP!TypeOK
  BY VP!TypeCorrect DEF AllGiven
<1>2. Spec => []TypeOK
  BY TypeCorrect DEF AllGiven
<1>3. L!Spec => []L!TypeOK
  BY LockTypes DEF AllGiven
<1>4. VP!TypeOK /\ TypeOK /\ L!TypeOK => AllTypesOK
  BY SameClaims DEF AllTypesOK
<1> QED BY <1>1, <1>2, <1>3, <1>4, EachAlone, PTL

\* Outside of its own restore, every row and version finds at its path the blob that
\* its key decrypts, also after renames or a COMMIT that failed and were undone, but
\* for the named harm (handlers_versions.go:171-196).
THEOREM RowsCorrect ==
  ASSUME AllGiven
  PROVE  AllSpec => []RowsMatchDisk
<1>1. VP!Spec => []VP!RowsMatchDisk
  BY VP!RowsCorrect DEF AllGiven
<1>2. VP!RowsMatchDisk => RowsMatchDisk
  BY SameClaims DEF RowsMatchDisk
<1> QED BY <1>1, <1>2, EachAlone, PTL

\* However acquisitions, refreshes, releases and the maintenance job overlap, of the
\* clients that were not displaced by a named cause at most one is told that it holds
\* the lock (handlers_locks.go:78-113).
THEOREM OneHolderCorrect ==
  ASSUME AllGiven
  PROVE  AllSpec => []OneHolder
<1>1. L!Spec => []L!OneHolder
  BY LockHolders DEF AllGiven
<1>2. L!OneHolder => OneHolder
  BY DEF OneHolder
<1> QED BY <1>1, <1>2, EachAlone, PTL

================================================================================
