------------------------------ MODULE MCServices ------------------------------
(* Instances for TLC of three services that share no state: the restore of   *)
(* versions, accounts whose files change hands, and file locks.  They are    *)
(* explored one beside the other: subject, chosen at first, says whose       *)
(* behaviour this is, and the other two stay in their initial states.        *)
EXTENDS Accounts, TLC

CONSTANTS Files, Hashes, MaxVersions, MaxBlobs, MaxNo, MaxFaults,
          Clients, Ttls, Until

VARIABLES
  subject,
  rows, versions, refs, disk, minted, swap, answered, faults, harm,
  clock, row, call, told, displaced

\* One user can hold three bytes, the others two; the second upload is the larger.
Roomy == CHOOSE u \in Users : TRUE
MCQuota == [u \in Users |-> IF u = Roomy THEN 3 ELSE 2]
MCSize  == <<1, 2>>

\* Requests about files are alike; the properties are invariants.
Symmetry == Permutations(Workers)

\* Beyond the first harm RowsMatchDisk claims nothing.
Harmless == harm = {}

V == INSTANCE VersionRestore
L == INSTANCE FileLocks

versionVars == <<rows, versions, refs, disk, minted, swap, answered, faults, harm>>
lockVars == <<clock, row, call, told, displaced>>
allVars == <<subject, versionVars, vars, lockVars>>

AllInit ==
  /\ subject \in {"versions", "accounts", "locks"}
  /\ V!Init /\ Init /\ L!Init

AllNext ==
  /\ UNCHANGED subject
  /\ \/ subject = "versions" /\ V!Next /\ UNCHANGED <<vars, lockVars>>
     \/ subject = "accounts" /\ Next /\ UNCHANGED <<versionVars, lockVars>>
     \/ subject = "locks" /\ L!Next /\ UNCHANGED <<versionVars, vars>>

AllSpec == AllInit /\ [][AllNext]_allVars

\* Every table, request and history of the three services keeps its type.
AllTypesOK == V!TypeOK /\ TypeOK /\ L!TypeOK

\* A restored version and the content it replaces are found by their rows, also
\* after a rename or a COMMIT that failed (handlers_versions.go:171-196).
RowsMatchDisk == V!RowsMatchDisk

\* One client at a time is told that it holds a lock (handlers_locks.go:78-113).
OneHolder == L!OneHolder

\* storage_helpers.go:284-285 says that a same-content reupload is a no-op: the
\* content is in place already.
UploadsKept == V!UploadsKept
================================================================================
