------------------------------- MODULE Accounts -------------------------------
(***************************************************************************)
(* Accounts, the bytes they are charged for, and the blobs of their files, *)
(* where files change hands: transfers of ownership, moves into another    *)
(* owner's folder, and the deletion of an account while all of these go    *)
(* on.                                                                     *)
(*                                                                         *)
(* Every content here is a blob of its own, so that its reference count is *)
(* one.  A file is named by the blob it was created with.  Purges, and     *)
(* what else happens in the trash, are those of module Trash.              *)
(***************************************************************************)
EXTENDS Integers, Sequences, FiniteSets

CONSTANTS
  Users,    \* the accounts there are at first
  Workers,  \* concurrent requests about files
  Quota,    \* Quota[u]: users.quota_bytes
  Size      \* Size[b]: the bytes of the b-th blob; bound: its domain

Blobs == DOMAIN Size

VARIABLES
  users,    \* the rows of users
  used,     \* users.used_bytes
  owner,    \* the files there are: id |-> user_id
  content,  \* id |-> the blob of its row
  trash,    \* files with is_deleted set
  older,    \* file_versions: file, blob, and created_by
  stored,   \* blobs on disk
  next,     \* the next blob
  emptied,  \* deletions between their transaction and the DELETE of the user
  job,      \* what each request has read
  drifted,  \* history: users charged for other bytes than theirs, by a named cause
  passed,   \* history: users charged beyond their quota, by a named cause
  stray     \* history: blobs whose rows a foreign key removed

vars == <<users, used, owner, content, trash, older, stored, next, emptied, job,
          drifted, passed, stray>>
files == <<owner, content, trash, older, stored, next, stray>>

Ids     == DOMAIN owner
Live    == Ids \ trash
OldOf(f) == {v \in older : v.file = f}

Resting == [op |-> "none"]
Request == {Resting} \cup
  [op: {"transfer"}, file: Blobs, from: Users, to: Users, size: Nat, seen: Nat] \cup
  [op: {"move"}, file: Blobs, from: Users, to: Users] \cup
  [op: {"delete"}, file: Blobs, from: Users] \cup
  [op: {"overwrite"}, file: Blobs, from: Users, by: Users, blob: Blobs]

Init ==
  /\ users = Users /\ used = [u \in Users |-> 0]
  /\ owner = <<>> /\ content = <<>> /\ trash = {} /\ older = {}
  /\ stored = {} /\ next = 1 /\ emptied = {} /\ job = [w \in Workers |-> Resting]
  /\ drifted = {} /\ passed = {} /\ stray = {}

--------------------------------------------------------------------------------
(* Bytes.  UPDATEs of a user that is gone change no row.  A definition named      *)
(* Mutant... is the one that follows it with a plausible mistake in it; no        *)
(* specification uses it.                                                         *)

\* Goes below zero.
MutantReleased(bytes, u, n) ==
  IF u \in users THEN [bytes EXCEPT ![u] = @ - n] ELSE bytes

\* GREATEST keeps the column at zero.
Released(bytes, u, n) ==
  IF u \in users THEN [bytes EXCEPT ![u] = IF @ > n THEN @ - n ELSE 0] ELSE bytes

Fits(u, n)  == u \in users /\ used[u] + n <= Quota[u]
Charged(bytes, u, n) ==
  IF u \in users THEN [bytes EXCEPT ![u] = @ + n] ELSE bytes

Rest(w) == job' = [job EXCEPT ![w] = Resting]
Reads(w, r) ==
  /\ job[w] = Resting
  /\ job' = [job EXCEPT ![w] = r]
  /\ UNCHANGED <<users, used, files, emptied, drifted, passed>>

\* An upload with a new name, by the owner or by an editor of the folder.
Upload(u) ==
  /\ next \in Blobs /\ Fits(u, Size[next])
  /\ used' = Charged(used, u, Size[next])
  /\ owner' = [f \in Ids \cup {next} |-> IF f = next THEN u ELSE owner[f]]
  /\ content' = [f \in Ids \cup {next} |-> IF f = next THEN next ELSE content[f]]
  /\ stored' = stored \cup {next}
  /\ next' = next + 1
  /\ UNCHANGED <<users, trash, older, emptied, job, drifted, passed, stray>>

\* An upload finds the row of its name, without locking it.
OverwriteRead(w, f, by) ==
  /\ f \in Live /\ by \in users
  /\ Reads(w, [op |-> "overwrite", file |-> f, from |-> owner[f], by |-> by,
               blob |-> content[f]])

\* The row it found gets the new content and a version by this user.  Another
\* overwrite has taken the version_no, and a row that is gone fails.
OverwriteCommit(w) ==
  LET r == job[w]
      f == r.file
  IN /\ r.op = "overwrite" /\ f \in Ids /\ content[f] = r.blob /\ r.by \in users
     /\ next \in Blobs /\ Fits(r.from, Size[next])
     /\ used' = Charged(used, r.from, Size[next])
     /\ older' = older \cup {[file |-> f, blob |-> content[f], by |-> r.by]}
     /\ content' = [content EXCEPT ![f] = next]
     /\ stored' = stored \cup {next}
     /\ next' = next + 1
     \* The file changed hands or was trashed meanwhile.
     /\ drifted' = IF f \in Live /\ owner[f] = r.from THEN drifted
                   ELSE drifted \cup {r.from, owner[f]}
     /\ Rest(w)
     /\ UNCHANGED <<users, owner, trash, emptied, passed, stray>>

\* handleDeleteFile finds the owner by canAccessFile, before its transaction, ...
DeleteRead(w, f) ==
  /\ f \in Live
  /\ Reads(w, [op |-> "delete", file |-> f, from |-> owner[f]])

\* ... and releases the bytes of the content, not those of the versions.
DeleteCommit(w) ==
  LET r == job[w]
      f == r.file
  IN /\ r.op = "delete" /\ f \in Live
     /\ trash' = trash \cup {f}
     /\ used' = Released(used, r.from, Size[content[f]])
     \* The file changed hands meanwhile.
     /\ drifted' = IF owner[f] = r.from THEN drifted ELSE drifted \cup {r.from, owner[f]}
     /\ Rest(w)
     /\ UNCHANGED <<users, owner, content, older, stored, next, emptied, passed, stray>>

--------------------------------------------------------------------------------
(* Files change hands. *)

\* Reads the owner and the size, and compares the quota before the transaction.
MutantTransferRead(w, f, to) ==
  /\ f \in Live /\ owner[f] # to /\ to \in users
  /\ Reads(w, [op |-> "transfer", file |-> f, from |-> owner[f], to |-> to,
               size |-> Size[content[f]], seen |-> used[to]])

TransferRead(w, f, to) ==
  /\ f \in Live /\ owner[f] # to /\ Fits(to, Size[content[f]])
  /\ Reads(w, [op |-> "transfer", file |-> f, from |-> owner[f], to |-> to,
               size |-> Size[content[f]], seen |-> used[to]])

\* Changes the row without looking at it again.  A recipient that is gone makes the
\* UPDATE of an existing row fail; a file that is gone does not.
TransferCommit(w) ==
  LET r == job[w]
      f == r.file
      asRead == /\ f \in Live /\ owner[f] = r.from /\ Size[content[f]] = r.size
                /\ OldOf(f) = {}
  IN /\ r.op = "transfer"
     /\ f \in Ids => r.to \in users
     /\ used' = Charged(Released(used, r.from, r.size), r.to, r.size)
     /\ owner' = IF f \in Ids THEN [owner EXCEPT ![f] = r.to] ELSE owner
     \* The row changed meanwhile, or its versions stay charged to the old owner.
     /\ drifted' = IF asRead THEN drifted
                   ELSE drifted \cup {r.from, r.to} \cup (IF f \in Ids THEN {owner[f]} ELSE {})
     \* The recipient's bytes changed since they were compared.
     /\ passed' = IF r.to \in users /\ used[r.to] > r.seen THEN passed \cup {r.to} ELSE passed
     /\ Rest(w)
     /\ UNCHANGED <<users, content, trash, older, stored, next, emptied, stray>>

\* canAccessFile and canAccessFolder: both owners are read before the transaction.
MoveRead(w, f, to) ==
  /\ f \in Live /\ to \in users /\ owner[f] # to
  /\ Reads(w, [op |-> "move", file |-> f, from |-> owner[f], to |-> to])

\* Forgets to release the bytes of the old owner.
MutantMoveCommit(w) ==
  LET r == job[w]
      f == r.file
  IN /\ r.op = "move" /\ f \in Live /\ Fits(r.to, Size[content[f]])
     /\ used' = Charged(used, r.to, Size[content[f]])
     /\ owner' = [owner EXCEPT ![f] = r.to]
     /\ drifted' = IF owner[f] = r.from /\ OldOf(f) = {} THEN drifted
                   ELSE drifted \cup {r.from, r.to, owner[f]}
     /\ Rest(w)
     /\ UNCHANGED <<users, content, trash, older, stored, next, emptied, passed, stray>>

\* moveFile reads the size FOR UPDATE, and reserves it.
MoveCommit(w) ==
  LET r == job[w]
      f == r.file
      released == Released(used, r.from, Size[content[f]])
  IN /\ r.op = "move" /\ f \in Live
     /\ r.to \in users /\ released[r.to] + Size[content[f]] <= Quota[r.to]
     /\ used' = Charged(released, r.to, Size[content[f]])
     /\ owner' = [owner EXCEPT ![f] = r.to]
     \* The file changed hands meanwhile, or its versions stay charged to the old owner.
     /\ drifted' = IF owner[f] = r.from /\ OldOf(f) = {} THEN drifted
                   ELSE drifted \cup {r.from, r.to, owner[f]}
     /\ Rest(w)
     /\ UNCHANGED <<users, content, trash, older, stored, next, emptied, passed, stray>>

\* Any error before COMMIT.
Abort(w) ==
  /\ job[w] # Resting
  /\ Rest(w)
  /\ UNCHANGED <<users, used, files, emptied, drifted, passed>>

--------------------------------------------------------------------------------
(* The deletion of an account, by its owner or by an administrator. *)

Gone(F) == /\ owner' = [f \in Ids \ F |-> owner[f]]
           /\ content' = [f \in Ids \ F |-> content[f]]
           /\ trash' = trash \ F
BlobsOf(F) == {content[f] : f \in F} \cup {v.blob : v \in {v \in older : v.file \in F}}

\* Does not gather the paths of the versions.
MutantEmpty(u) ==
  LET F == {f \in Ids : owner[f] = u}
  IN /\ u \in users \ emptied
     /\ Gone(F)
     /\ older' = {v \in older : v.file \notin F}
     /\ stored' = stored \ {content[f] : f \in F}
     /\ emptied' = emptied \cup {u}
     /\ UNCHANGED <<users, used, next, job, drifted, passed, stray>>

\* deleteUserResources: the files with their versions, in one transaction, then the
\* blobs.  used_bytes stays as it is.
Empty(u) ==
  LET F == {f \in Ids : owner[f] = u}
  IN /\ u \in users \ emptied
     /\ Gone(F)
     /\ older' = {v \in older : v.file \notin F}
     /\ stored' = stored \ BlobsOf(F)
     /\ emptied' = emptied \cup {u}
     /\ UNCHANGED <<users, used, next, job, drifted, passed, stray>>

\* DELETE FROM users, and what the foreign keys remove with the row: files that came
\* in after deleteUserResources, and versions this user made of anybody's files.
\* Nobody releases their blobs, nor the bytes of the versions.
Drop(u) ==
  LET F == {f \in Ids : owner[f] = u}
      made == {v \in older : v.by = u}
      lost == BlobsOf(F) \cup {v.blob : v \in made}
  IN /\ u \in emptied
     /\ users' = users \ {u} /\ emptied' = emptied \ {u}
     /\ Gone(F)
     /\ older' = {v \in older \ made : v.file \notin F}
     /\ stray' = stray \cup lost
     /\ drifted' = drifted \cup {owner[v.file] : v \in made}
     /\ UNCHANGED <<used, stored, next, job, passed>>

\* The statement fails: the account stays, without its files and with their bytes.
Survive(u) ==
  /\ u \in emptied
  /\ emptied' = emptied \ {u}
  /\ drifted' = drifted \cup {u}
  /\ UNCHANGED <<users, used, files, job, passed>>

Next ==
  \/ \E u \in users : Upload(u) \/ Empty(u) \/ Drop(u) \/ Survive(u)
  \/ \E w \in Workers :
       \/ \E f \in Live, u \in users :
            OverwriteRead(w, f, u) \/ TransferRead(w, f, u) \/ MoveRead(w, f, u)
       \/ \E f \in Live : DeleteRead(w, f)
       \/ OverwriteCommit(w) \/ DeleteCommit(w) \/ TransferCommit(w) \/ MoveCommit(w)
       \/ Abort(w)

Spec == Init /\ [][Next]_vars

--------------------------------------------------------------------------------
(* Properties. *)

TypeOK ==
  /\ users \subseteq Users /\ used \in [Users -> Nat]
  /\ Ids \subseteq Blobs /\ owner \in [Ids -> users] /\ content \in [Ids -> stored]
  /\ trash \subseteq Ids
  /\ older \subseteq [file: Ids, blob: stored, by: users]
  /\ stored \subseteq Blobs /\ next \in 1 .. Len(Size) + 1
  /\ emptied \subseteq users /\ job \in [Workers -> Request]
  /\ drifted \subseteq Users /\ passed \subseteq Users /\ stray \subseteq stored

\* The rows of files and versions that the bytes of an account are of, and their
\* bytes: the i-th byte of a row is <<row, i>>.
RowOf(f)   == [file |-> f, blob |-> content[f]]
Held(u)    == {RowOf(f) : f \in {f \in Live : owner[f] = u}} \cup
              {v \in older : owner[v.file] = u}
BytesOf(V) == Cardinality(UNION {{v} \X (1 .. Size[v.blob]) : v \in V})

\* Whoever was not part of a request about a file that had changed since it was read,
\* or of a transfer or a move of a file that has versions, did not lose versions with
\* their author's account, and is not being deleted, is charged for its live files and
\* for the versions of all its files, whatever changes hands around it.
ChargedForOwn ==
  \A u \in users \ (drifted \cup emptied) : used[u] = BytesOf(Held(u))

\* Nobody is charged beyond the quota, unless other bytes came in between the quota
\* check of a transfer and its transaction.
WithinQuota == \A u \in users \ passed : used[u] <= Quota[u]

\* Every blob on disk belongs to a row or a version, and these find theirs, also
\* while accounts are deleted; the exceptions are the blobs of rows that a foreign
\* key removed.
NoStrayBlobs == stored = BlobsOf(Ids) \cup stray /\ BlobsOf(Ids) \cap stray = {}
================================================================================
