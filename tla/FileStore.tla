------------------------------ MODULE FileStore ------------------------------
(***************************************************************************)
(* What the blob store promises its users, with no blobs in it: every file *)
(* has an owner, a current text and past versions, and only an operation   *)
(* on that file changes them.  A file is forgotten only from the trash.    *)
(*                                                                         *)
(* The promise is kept while intact holds.  BlobStore gives it up at the   *)
(* commits it names as races, and only there.                              *)
(***************************************************************************)
EXTENDS Integers

CONSTANTS FileIds, Owners, Texts

VARIABLES
  store,   \* file id |-> [owner, text, trashed, past]
  intact

Init ==
  /\ store = [f \in {} |-> {}]
  /\ intact = TRUE

Create(f, o, t) ==
  /\ f \notin DOMAIN store
  /\ store' = [g \in DOMAIN store \cup {f} |->
                 IF g = f THEN [owner |-> o, text |-> t, trashed |-> FALSE, past |-> {}]
                 ELSE store[g]]

\* The current text becomes the newest version; older versions may be dropped.
Replace(f, t) ==
  /\ f \in DOMAIN store
  /\ ~store[f].trashed
  /\ \E kept \in SUBSET store[f].past :
       \E n \in {1} \cup {v.no + 1 : v \in store[f].past} :
         /\ \A v \in store[f].past : v.no < n
         /\ store' = [store EXCEPT ![f].text = t,
                                   ![f].past = kept \cup {[no |-> n, text |-> store[f].text]}]

SetTrashed(f, b) ==
  /\ f \in DOMAIN store
  /\ store[f].trashed # b
  /\ store' = [store EXCEPT ![f].trashed = b]

Forget(f) ==
  /\ f \in DOMAIN store
  /\ store[f].trashed
  /\ store' = [g \in DOMAIN store \ {f} |-> store[g]]

\* The promise may be given up, in any step, and is then not taken up again.
Damage == ~intact'

Keep ==
  /\ intact /\ intact'
  /\ \E f \in FileIds :
       \/ \E o \in Owners, t \in Texts : Create(f, o, t)
       \/ \E t \in Texts : Replace(f, t)
       \/ SetTrashed(f, TRUE) \/ SetTrashed(f, FALSE)
       \/ Forget(f)

Next == Keep \/ Damage

Spec == Init /\ [][Next]_<<store, intact>>
==============================================================================
