------------------------------- MODULE FileLocks -------------------------------
(***************************************************************************)
(* The advisory lock of one file and kind (file_locks): what each user has *)
(* been told, beside the row that says who holds it.                       *)
(*                                                                         *)
(* The row is a DATETIME, which rounds the expiry to a whole second; time  *)
(* goes in half seconds here.  Locks of other files and kinds are rows of  *)
(* their own.                                                              *)
(***************************************************************************)
EXTENDS Integers

CONSTANTS
  Clients,  \* users with editor access
  Ttls,     \* what a request asks for, after the default and the cap
  Until     \* bound: the last instant

VARIABLES
  clock,  \* the time
  row,    \* the row of file_locks, or NoLock
  call,   \* the acquisition of each client between its SELECT and its upsert
  told,   \* when the lock that a client was last granted ends, by its answer
  displaced  \* history: clients whose row is not what they were told, by a named cause

vars == <<clock, row, call, told, displaced>>

NoLock  == [free |-> TRUE]
Locks   == [by: Clients, ends: 0 .. Until + 1]
NoCall  == [free |-> TRUE]
Calls   == [ends: 0 .. Until]

\* Whom the row keeps others from replacing.
Guards(l, u) == l # NoLock /\ l.by # u /\ l.ends > clock

Init ==
  /\ clock = 0 /\ row = NoLock /\ call = [u \in Clients |-> NoCall]
  /\ told = [u \in Clients |-> 0] /\ displaced = {}

--------------------------------------------------------------------------------
(* A definition named Mutant... is the one that follows it with a plausible       *)
(* mistake in it; no specification uses it.                                       *)

\* handleAcquireFileLock computes the expiry, looks for another holder, and answers
\* 409 when there is one.
Look(u, ttl) ==
  /\ call[u] = NoCall /\ clock + ttl <= Until
  /\ ~Guards(row, u)
  /\ call' = [call EXCEPT ![u] = [ends |-> clock + ttl]]
  /\ UNCHANGED <<clock, row, told, displaced>>

\* The upsert replaces whatever row there is by now.
Upsert(u) == \E ends \in call[u].ends - 1 .. call[u].ends + 1 :
  ends >= 0 /\ row' = [by |-> u, ends |-> ends]
\* The holder of a lock that was taken after this client had looked for one.
Overtaken(u) == IF Guards(row, u) THEN {row.by} ELSE {}

Take(u) ==
  /\ call[u] # NoCall
  /\ Upsert(u)
  /\ told' = [told EXCEPT ![u] = call[u].ends]
  /\ displaced' = (displaced \ {u}) \cup Overtaken(u)
  /\ call' = [call EXCEPT ![u] = NoCall]
  /\ UNCHANGED clock

\* An error, or a client that went away, before the upsert or after it.
Fail(u) ==
  /\ call[u] # NoCall
  /\ \/ UNCHANGED <<row, displaced>>
     \/ Upsert(u) /\ displaced' = displaced \cup {u} \cup Overtaken(u)
  /\ call' = [call EXCEPT ![u] = NoCall]
  /\ UNCHANGED <<clock, told>>

\* Deletes the lock of whoever holds it.
MutantRelease(u) ==
  /\ row' = NoLock
  /\ told' = [told EXCEPT ![u] = 0]
  /\ UNCHANGED <<clock, call, displaced>>

\* handleReleaseFileLock, for the own lock only.
Release(u) ==
  /\ row' = IF row # NoLock /\ row.by = u THEN NoLock ELSE row
  /\ told' = [told EXCEPT ![u] = 0]
  /\ UNCHANGED <<clock, call, displaced>>

\* The maintenance job deletes locks that have ended.
Prune ==
  /\ row # NoLock /\ row.ends < clock
  /\ row' = NoLock
  /\ UNCHANGED <<clock, call, told, displaced>>

Tick ==
  /\ clock < Until
  /\ clock' = clock + 1
  /\ UNCHANGED <<row, call, told, displaced>>

Next ==
  \/ \E u \in Clients : (\E ttl \in Ttls : Look(u, ttl)) \/ Take(u) \/ Fail(u) \/ Release(u)
  \/ Prune \/ Tick

Spec == Init /\ [][Next]_vars

--------------------------------------------------------------------------------
(* Properties. *)

TypeOK ==
  /\ clock \in 0 .. Until
  /\ row \in Locks \cup {NoLock}
  /\ call \in [Clients -> Calls \cup {NoCall}]
  /\ told \in [Clients -> 0 .. Until]
  /\ displaced \subseteq Clients

\* Of the clients that were told a lock that has not ended yet, one has it, but for
\* the half second that rounding takes off a row; the others were displaced by an
\* acquisition that had looked before they took it, or by one of their own whose
\* answer was lost.
OneHolder ==
  \A u, v \in Clients \ displaced :
    told[u] > clock + 1 /\ told[v] > clock + 1 => u = v
================================================================================
