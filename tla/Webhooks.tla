------------------------------ MODULE Webhooks ------------------------------
(***************************************************************************)
(* Outbound webhooks: the Redis job queue q:webhook, its dead-letter list  *)
(* and the pool of delivery workers (workers.go, handlers_admin_dlq.go),   *)
(* the deliveries and the automatic disabling of a failing hook            *)
(* (webhooks_dispatch.go), the owner's edits (handlers_webhooks.go) and    *)
(* the Redis set wh:users, which decides whether a user's activity is      *)
(* queued at all and which is kept equal to the table by every edit, by    *)
(* the boot and by the hourly maintenance.                                 *)
(*                                                                         *)
(* Each SQL statement, Redis command and HTTP attempt is a step of its     *)
(* own: nothing here runs in a transaction.                                *)
(***************************************************************************)
EXTENDS Naturals, Sequences, FiniteSets

CONSTANTS
  Users,            \* owners of hooks
  Hooks,            \* the uuids of webhooks
  Owner,            \* whose webhook a uuid names
  Actions,          \* action names an event can carry
  Events,           \* what is emitted, each at most once: [user, action, id]
  Workers,          \* goroutines draining q:webhook
  Handlers,         \* HTTP requests under way: edits, and retries of dead letters
  Nil,
  MaxAttempts,      \* WEBHOOK_MAX_ATTEMPTS
  AutoDisableAfter, \* WEBHOOK_AUTO_DISABLE_AFTER; 0 never disables
  MaxPerUser,       \* WEBHOOK_MAX_PER_USER; 0 is no limit
  MaxEdits,         \* bound: edits and administrator requests in a behaviour
  MaxFaults         \* bound: failed statements, restarts, losses of Redis

ASSUME HookAssumption ==
  /\ Owner \in [Hooks -> Users]
  /\ IsFiniteSet(Hooks)
  /\ \A e \in Events : e.user \in Users /\ e.action \in Actions
  /\ Nil \notin Events \cup Hooks \cup Users
  /\ MaxAttempts \in Nat \ {0}
  /\ {AutoDisableAfter, MaxPerUser, MaxEdits, MaxFaults} \subseteq Nat

VARIABLES
  queue,    \* q:webhook, oldest first
  failed,   \* q:webhook:failed, oldest first
  hooks,    \* table webhooks
  gate,     \* wh:users
  work,     \* where each worker is in its job
  req,      \* where each handler is in its request
  rebuild,  \* the users rebuildWebhookUserSet has read and not yet renamed into place
  \* history
  emitted, done, lost,  \* events queued; processed; gone from every list unprocessed
  tried,    \* [event][hook]: dispatches begun
  steady,   \* [event]: the hooks that have subscribed to it ever since it was queued
  inRow,    \* [hook]: failures recorded since the last success, or since it was enabled
  drift,    \* users whose place in wh:users was last written wrong, or could not be
  edits, faults

history == <<emitted, done, lost>>
vars == <<queue, failed, hooks, gate, work, req, rebuild, emitted, done, lost,
          tried, steady, inRow, drift, edits, faults>>

Exists(h) == hooks[h].state \in {"on", "off"}

\* SELECT COUNT( * ) ... WHERE user_id = ? AND is_active = 1, as a truth value
HasActive(u) == \E h \in Hooks : Owner[h] = u /\ hooks[h].state = "on"
ActiveUsers == {u \in Users : HasActive(u)}

\* the rows processWebhookJob loads for an event
Matches(e) == {h \in Hooks : /\ Owner[h] = e.user
                             /\ hooks[h].state = "on"
                             /\ e.action \in hooks[h].events}

Idle == [pc |-> "idle", ev |-> Nil, todo |-> {}, hook |-> Nil, tries |-> 0,
         has |-> FALSE, overtaken |-> FALSE]
NoRebuild == [on |-> FALSE, users |-> {}]
Free == [pc |-> "idle", user |-> Nil, ev |-> Nil, has |-> FALSE]

\* a statement or command that returns an error; where the code ignores it, the
\* step goes on without its effect
Fault == faults < MaxFaults /\ faults' = faults + 1

-----------------------------------------------------------------------------
(* The set wh:users                                                         *)

\* mutant: the user's last hook goes without an SREM
MutantSetGate(u, has) ==
  /\ gate' = IF has THEN gate \cup {u} ELSE gate
  /\ drift' = IF has = HasActive(u) THEN drift \ {u} ELSE drift \cup {u}

\* the SADD or SREM that writes what a COUNT found for user u
SetGate(u, has) ==
  /\ gate' = IF has THEN gate \cup {u} ELSE gate \ {u}
  /\ drift' = IF has = HasActive(u) THEN drift \ {u} ELSE drift \cup {u}

\* a refresh for user u gives up on an error
MissGate(u) ==
  /\ Fault
  /\ gate' = gate
  /\ drift' = drift \cup {u}

\* mutant: an empty set does not replace the old one
MutantReplaceGate(g) ==
  /\ gate' = IF g = {} THEN gate ELSE g
  /\ drift' = {u \in Users : (u \in g) # HasActive(u)}

\* the gate as a whole becomes g
ReplaceGate(g) ==
  /\ gate' = g
  /\ drift' = {u \in Users : (u \in g) # HasActive(u)}

\* hourly maintenance: SELECT DISTINCT user_id, then RENAME (or DEL if empty)
RebuildRead ==
  /\ ~rebuild.on
  /\ rebuild' = [on |-> TRUE, users |-> ActiveUsers]
  /\ UNCHANGED <<queue, failed, hooks, gate, work, req, history, tried, steady,
                 inRow, drift, edits, faults>>

RebuildSwap ==
  /\ rebuild.on
  /\ ReplaceGate(rebuild.users)
  /\ rebuild' = NoRebuild
  /\ UNCHANGED <<queue, failed, hooks, work, req, history, tried, steady, inRow,
                 edits, faults>>

RebuildFails ==
  /\ rebuild.on
  /\ Fault
  /\ rebuild' = NoRebuild
  /\ UNCHANGED <<queue, failed, hooks, gate, work, req, history, tried, steady,
                 inRow, drift, edits>>

-----------------------------------------------------------------------------
(* Activity                                                                 *)

\* fanOutWebhook: SISMEMBER, then LPUSH; a user outside the gate queues nothing
Emit(e) ==
  /\ e \notin emitted
  /\ e.user \in gate
  /\ queue' = Append(queue, e)
  /\ emitted' = emitted \cup {e}
  /\ steady' = [steady EXCEPT ![e] = Matches(e)]
  /\ UNCHANGED <<failed, hooks, gate, work, req, rebuild, done, lost, tried,
                 inRow, drift, edits, faults>>

-----------------------------------------------------------------------------
(* A worker: drainQueue around processWebhookJob                            *)

At(w, pc) == work[w].pc = pc

Goto(w, pc) == work' = [work EXCEPT ![w].pc = pc]

\* BRPOP takes the job off the list before it is processed
Take(w) ==
  /\ At(w, "idle")
  /\ queue # <<>>
  /\ queue' = Tail(queue)
  /\ work' = [work EXCEPT ![w] = [Idle EXCEPT !.pc = "load", !.ev = Head(queue)]]
  /\ UNCHANGED <<failed, hooks, gate, req, rebuild, history, tried, steady, inRow,
                 drift, edits, faults>>

Load(w) ==
  /\ At(w, "load")
  /\ work' = [work EXCEPT ![w].pc = "next", ![w].todo = Matches(work[w].ev)]
  /\ UNCHANGED <<queue, failed, hooks, gate, req, rebuild, history, tried, steady,
                 inRow, drift, edits, faults>>

\* the only error a job returns: its subscriptions could not be read
LoadFails(w) ==
  /\ At(w, "load")
  /\ Fault
  /\ Goto(w, "failed")
  /\ UNCHANGED <<queue, failed, hooks, gate, req, rebuild, history, tried, steady,
                 inRow, drift, edits>>

\* mutant: the drain loop ends with the first job that fails
MutantDeadLetter(w) ==
  /\ At(w, "failed")
  /\ failed' = Append(failed, work[w].ev)
  /\ work' = [work EXCEPT ![w] = [Idle EXCEPT !.pc = "stopped"]]
  /\ UNCHANGED <<queue, hooks, gate, req, rebuild, history, tried, steady, inRow,
                 drift, edits, faults>>

\* LPUSH to the dead-letter list; if that fails too, the job is only logged
DeadLetter(w) ==
  /\ At(w, "failed")
  /\ \/ /\ failed' = Append(failed, work[w].ev)
        /\ UNCHANGED <<lost, faults>>
     \/ /\ Fault
        /\ lost' = lost \cup {work[w].ev}
        /\ failed' = failed
  /\ work' = [work EXCEPT ![w] = Idle]
  /\ UNCHANGED <<queue, hooks, gate, req, rebuild, emitted, done, tried, steady,
                 inRow, drift, edits>>

\* the next subscription, in no particular order
Begin(w) ==
  /\ At(w, "next")
  /\ \E h \in work[w].todo :
       /\ work' = [work EXCEPT ![w].pc = "send", ![w].todo = @ \ {h},
                               ![w].hook = h, ![w].tries = 1]
       /\ tried' = [tried EXCEPT ![work[w].ev][h] = @ + 1]
  /\ UNCHANGED <<queue, failed, hooks, gate, req, rebuild, history, steady, inRow,
                 drift, edits, faults>>

\* one HTTP attempt: a 2xx, an answer worth another attempt, or the end of it
\* (no attempt or no time left, or an answer that will not change)
Attempt(w) ==
  /\ At(w, "send")
  /\ \/ Goto(w, "won")
     \/ /\ work[w].tries < MaxAttempts
        /\ work' = [work EXCEPT ![w].tries = @ + 1]
     \/ Goto(w, "lost")
  /\ UNCHANGED <<queue, failed, hooks, gate, req, rebuild, history, tried, steady,
                 inRow, drift, edits, faults>>

\* a row after a delivered event; mutant: one failure is taken back, not all
MutantHealed(row) == [row EXCEPT !.failures = @ - 1]
Healed(row) == [row EXCEPT !.failures = 0]

\* what follows a failure; mutant: it is the error of the job
MutantAfterFailure == "failed"
AfterFailure == IF AutoDisableAfter = 0 THEN "next" ELSE "judge"

\* the workers about to disable h have decided on a count that is now reset
Overtake(h) ==
  [w \in Workers |-> IF work[w].pc = "disable" /\ work[w].hook = h
                     THEN [work[w] EXCEPT !.overtaken = TRUE] ELSE work[w]]

\* UPDATE webhooks SET failure_count = 0
RecordSuccess(w) ==
  LET h == work[w].hook IN
  /\ At(w, "won")
  /\ \/ /\ Exists(h)
        /\ hooks' = [hooks EXCEPT ![h] = Healed(@)]
        /\ inRow' = [inRow EXCEPT ![h] = 0]
        /\ work' = [Overtake(h) EXCEPT ![w].pc = "next"]
        /\ faults' = faults
     \/ /\ ~Exists(h)
        /\ Goto(w, "next")
        /\ UNCHANGED <<hooks, inRow, faults>>
     \/ /\ Fault
        /\ Goto(w, "next")
        /\ UNCHANGED <<hooks, inRow>>
  /\ UNCHANGED <<queue, failed, gate, req, rebuild, history, tried, steady, drift, edits>>

\* UPDATE webhooks SET failure_count = failure_count + 1
RecordFailure(w) ==
  LET h == work[w].hook IN
  /\ At(w, "lost")
  /\ Goto(w, AfterFailure)
  /\ \/ /\ Exists(h)
        /\ hooks' = [hooks EXCEPT ![h].failures = @ + 1]
        /\ inRow' = [inRow EXCEPT ![h] = @ + 1]
        /\ faults' = faults
     \/ /\ ~Exists(h)
        /\ UNCHANGED <<hooks, inRow, faults>>
     \/ /\ Fault
        /\ UNCHANGED <<hooks, inRow>>
  /\ UNCHANGED <<queue, failed, gate, req, rebuild, history, tried, steady, drift, edits>>

\* SELECT failure_count, user_id
Judge(w) ==
  LET h == work[w].hook IN
  /\ At(w, "judge")
  /\ \/ /\ Goto(w, IF Exists(h) /\ hooks[h].failures >= AutoDisableAfter
                   THEN "disable" ELSE "next")
        /\ faults' = faults
     \/ Fault /\ Goto(w, "next")
  /\ UNCHANGED <<queue, failed, hooks, gate, req, rebuild, history, tried, steady,
                 inRow, drift, edits>>

\* no event may count on hook h from now on
Unsubscribe(h, acts) ==
  steady' = [e \in Events |-> IF e.action \in acts THEN steady[e] \ {h} ELSE steady[e]]

\* UPDATE webhooks SET is_active = 0, whatever the count has become
Disable(w) ==
  LET h == work[w].hook IN
  /\ At(w, "disable")
  /\ work' = [work EXCEPT ![w].pc = "refresh", ![w].overtaken = FALSE]
  /\ \/ /\ Exists(h)
        /\ hooks' = [hooks EXCEPT ![h].state = "off"]
        /\ Unsubscribe(h, Actions)
        /\ faults' = faults
     \/ /\ ~Exists(h)
        /\ UNCHANGED <<hooks, steady, faults>>
     \/ /\ Fault
        /\ UNCHANGED <<hooks, steady>>
  /\ UNCHANGED <<queue, failed, gate, req, rebuild, history, tried, inRow, drift, edits>>

\* refreshWebhookUserActive: COUNT, then SADD or SREM
RefreshCount(w) ==
  /\ At(w, "refresh")
  /\ work' = [work EXCEPT ![w].pc = "gate", ![w].has = HasActive(Owner[work[w].hook])]
  /\ UNCHANGED <<queue, failed, hooks, gate, req, rebuild, history, tried, steady,
                 inRow, drift, edits, faults>>

RefreshWrite(w) ==
  LET u == Owner[work[w].hook] IN
  /\ \/ At(w, "gate") /\ SetGate(u, work[w].has) /\ faults' = faults
     \/ At(w, "gate") /\ MissGate(u)
     \/ At(w, "refresh") /\ MissGate(u)
  /\ work' = [work EXCEPT ![w].pc = "next", ![w].has = FALSE]
  /\ UNCHANGED <<queue, failed, hooks, req, rebuild, history, tried, steady, inRow, edits>>

\* mutant: the job is done after its first delivery
MutantFinish(w) ==
  /\ At(w, "next")
  /\ work' = [work EXCEPT ![w] = Idle]
  /\ done' = done \cup {work[w].ev}
  /\ UNCHANGED <<queue, failed, hooks, gate, req, rebuild, emitted, lost, tried,
                 steady, inRow, drift, edits, faults>>

Finish(w) ==
  /\ At(w, "next")
  /\ work[w].todo = {}
  /\ work' = [work EXCEPT ![w] = Idle]
  /\ done' = done \cup {work[w].ev}
  /\ UNCHANGED <<queue, failed, hooks, gate, req, rebuild, emitted, lost, tried,
                 steady, inRow, drift, edits, faults>>

-----------------------------------------------------------------------------
(* The owner's edits                                                        *)

\* a request arrives
Arrive(c) ==
  /\ req[c].pc = "idle"
  /\ edits < MaxEdits
  /\ edits' = edits + 1

OfUser(u) == {h \in Hooks : Owner[h] = u /\ Exists(h)}

\* handleCreateMyWebhook: the COUNT against the limit, then the INSERT
CreateCheck(c) ==
  /\ Arrive(c)
  /\ \E u \in Users :
       /\ MaxPerUser > 0 => Cardinality(OfUser(u)) < MaxPerUser
       /\ req' = [req EXCEPT ![c].pc = "insert", ![c].user = u]
  /\ UNCHANGED <<queue, failed, hooks, gate, work, rebuild, history, tried, steady,
                 inRow, drift, faults>>

CreateInsert(c) ==
  /\ req[c].pc = "insert"
  /\ \/ /\ \E h \in Hooks, acts \in (SUBSET Actions) \ {{}}, st \in {"on", "off"} :
             /\ Owner[h] = req[c].user
             /\ hooks[h].state = "none"
             /\ hooks' = [hooks EXCEPT ![h] = [state |-> st, events |-> acts, failures |-> 0]]
             /\ req' = [req EXCEPT ![c] =
                          IF st = "on" THEN [req[c] EXCEPT !.pc = "refresh"] ELSE Free]
        /\ faults' = faults
     \/ /\ Fault
        /\ req' = [req EXCEPT ![c] = Free]
        /\ hooks' = hooks
  /\ UNCHANGED <<queue, failed, gate, work, rebuild, history, tried, steady, inRow,
                 drift, edits>>

\* a row after an edit of its events and, unless "kept", its is_active; mutant:
\* re-enabling does not clear the failures
MutantEdited(row, st, acts) ==
  [state |-> IF st = "kept" THEN row.state ELSE st, events |-> acts,
   failures |-> row.failures]
Edited(row, st, acts) ==
  [state |-> IF st = "kept" THEN row.state ELSE st, events |-> acts,
   failures |-> IF st = "on" THEN 0 ELSE row.failures]

\* handleUpdateMyWebhook
Update(c) ==
  /\ Arrive(c)
  /\ \E h \in Hooks, acts \in (SUBSET Actions) \ {{}}, st \in {"on", "off", "kept"} :
       /\ Exists(h)
       /\ hooks' = [hooks EXCEPT ![h] = Edited(@, st, acts)]
       /\ Unsubscribe(h, IF st = "off" THEN Actions ELSE Actions \ acts)
       /\ inRow' = IF st = "on" THEN [inRow EXCEPT ![h] = 0] ELSE inRow
       /\ work' = IF st = "on" THEN Overtake(h) ELSE work
       /\ req' = [req EXCEPT ![c].pc = "refresh", ![c].user = Owner[h]]
  /\ UNCHANGED <<queue, failed, gate, rebuild, history, tried, drift, faults>>

Delete(c) ==
  /\ Arrive(c)
  /\ \E h \in Hooks :
       /\ Exists(h)
       /\ hooks' = [hooks EXCEPT ![h].state = "deleted"]
       /\ Unsubscribe(h, Actions)
       /\ req' = [req EXCEPT ![c].pc = "refresh", ![c].user = Owner[h]]
  /\ UNCHANGED <<queue, failed, gate, work, rebuild, history, tried, inRow, drift, faults>>

EditCount(c) ==
  /\ req[c].pc = "refresh"
  /\ req' = [req EXCEPT ![c].pc = "gate", ![c].has = HasActive(req[c].user)]
  /\ UNCHANGED <<queue, failed, hooks, gate, work, rebuild, history, tried, steady,
                 inRow, drift, edits, faults>>

EditWrite(c) ==
  /\ \/ req[c].pc = "gate" /\ SetGate(req[c].user, req[c].has) /\ faults' = faults
     \/ req[c].pc \in {"refresh", "gate"} /\ MissGate(req[c].user)
  /\ req' = [req EXCEPT ![c] = Free]
  /\ UNCHANGED <<queue, failed, hooks, work, rebuild, history, tried, steady, inRow, edits>>

-----------------------------------------------------------------------------
(* The administrator's dead letters                                         *)

\* mutant: the oldest dead letter is read and stays on its list
MutantRetryPop(c) ==
  /\ \/ Arrive(c)
     \/ req[c].pc = "retry" /\ edits' = edits
  /\ req' = [req EXCEPT ![c] = IF failed = <<>> THEN Free
                               ELSE [Free EXCEPT !.pc = "repush", !.ev = Head(failed)]]
  /\ UNCHANGED <<queue, failed, hooks, gate, work, rebuild, history, tried, steady,
                 inRow, drift, faults>>

\* handleAdminDLQRetry: RPOP from the dead letters until none is left ...
RetryPop(c) ==
  /\ \/ Arrive(c)
     \/ req[c].pc = "retry" /\ edits' = edits
  /\ IF failed = <<>>
     THEN /\ req' = [req EXCEPT ![c] = Free]
          /\ failed' = failed
     ELSE /\ req' = [req EXCEPT ![c].pc = "repush", ![c].ev = Head(failed)]
          /\ failed' = Tail(failed)
  /\ UNCHANGED <<queue, hooks, gate, work, rebuild, history, tried, steady, inRow,
                 drift, faults>>

\* ... LPUSH to the queue, or back to the dead letters if that fails, which ends it
RetryPush(c) ==
  LET e == req[c].ev IN
  /\ req[c].pc = "repush"
  /\ \/ /\ queue' = Append(queue, e)
        /\ req' = [req EXCEPT ![c] = [Free EXCEPT !.pc = "retry"]]
        /\ UNCHANGED <<failed, lost, faults>>
     \/ /\ Fault
        /\ \/ failed' = Append(failed, e) /\ lost' = lost
           \/ failed' = failed /\ lost' = lost \cup {e}
        /\ req' = [req EXCEPT ![c] = Free]
        /\ queue' = queue
  /\ UNCHANGED <<hooks, gate, work, rebuild, emitted, done, tried, steady, inRow,
                 drift, edits>>

Members(s) == {s[i] : i \in DOMAIN s}

\* handleAdminDLQClear
Clear(c) ==
  /\ Arrive(c)
  /\ failed' = <<>>
  /\ lost' = lost \cup Members(failed)
  /\ UNCHANGED <<queue, hooks, gate, work, req, rebuild, emitted, done, tried,
                 steady, inRow, drift, faults>>

-----------------------------------------------------------------------------
(* Restarts                                                                 *)

\* what only the process's memory holds
Held == {e \in Events : \/ \E w \in Workers : work[w].ev = e
                        \/ \E c \in Handlers : req[c].ev = e}

\* the backend stops and starts again: startWorkers rebuilds wh:users before
\* anything else runs, if the database answers
Restart ==
  /\ Fault
  /\ work' = [w \in Workers |-> Idle]
  /\ req' = [c \in Handlers |-> Free]
  /\ rebuild' = NoRebuild
  /\ lost' = lost \cup Held
  /\ \E g \in {gate, ActiveUsers} : ReplaceGate(g)
  /\ UNCHANGED <<queue, failed, hooks, emitted, done, tried, steady, inRow, edits>>

\* Redis restarts without its data
RedisLost ==
  /\ Fault
  /\ queue' = <<>>
  /\ failed' = <<>>
  /\ lost' = lost \cup Members(queue) \cup Members(failed)
  /\ ReplaceGate({})
  /\ UNCHANGED <<hooks, work, req, rebuild, emitted, done, tried, steady, inRow, edits>>

-----------------------------------------------------------------------------
Init ==
  /\ queue = <<>> /\ failed = <<>>
  /\ \E on \in SUBSET Hooks :
       hooks = [h \in Hooks |-> [state |-> IF h \in on THEN "on" ELSE "none",
                                 events |-> Actions, failures |-> 0]]
  /\ gate = ActiveUsers
  /\ work = [w \in Workers |-> Idle]
  /\ req = [c \in Handlers |-> Free]
  /\ rebuild = NoRebuild
  /\ emitted = {} /\ done = {} /\ lost = {}
  /\ tried = [e \in Events |-> [h \in Hooks |-> 0]]
  /\ steady = [e \in Events |-> {}]
  /\ inRow = [h \in Hooks |-> 0]
  /\ drift = {}
  /\ edits = 0 /\ faults = 0

WorkerStep(w) ==
  \/ Take(w) \/ Load(w) \/ LoadFails(w) \/ DeadLetter(w) \/ Begin(w) \/ Attempt(w)
  \/ RecordSuccess(w) \/ RecordFailure(w) \/ Judge(w) \/ Disable(w)
  \/ RefreshCount(w) \/ RefreshWrite(w) \/ Finish(w)

\* the steps of a request that has begun
HandlerStep(c) ==
  \/ CreateInsert(c) \/ EditCount(c) \/ EditWrite(c) \/ RetryPush(c)
  \/ req[c].pc = "retry" /\ RetryPop(c)

Request(c) ==
  \/ CreateCheck(c) \/ Update(c) \/ Delete(c) \/ Clear(c)
  \/ req[c].pc = "idle" /\ RetryPop(c)

Next ==
  \/ \E e \in Events : Emit(e)
  \/ \E w \in Workers : WorkerStep(w)
  \/ \E c \in Handlers : HandlerStep(c) \/ Request(c)
  \/ RebuildRead \/ RebuildSwap \/ RebuildFails
  \/ Restart \/ RedisLost

Spec == Init /\ [][Next]_vars

\* goroutines keep running, every HTTP attempt and every statement ends, and the
\* maintenance tick comes back
Fairness ==
  /\ \A w \in Workers : WF_vars(WorkerStep(w))
  /\ \A c \in Handlers : WF_vars(HandlerStep(c))
  /\ WF_vars(RebuildRead) /\ WF_vars(RebuildSwap \/ RebuildFails)

FairSpec == Spec /\ Fairness

-----------------------------------------------------------------------------
(* Properties                                                               *)

Rows == [state : {"none", "on", "off", "deleted"}, events : SUBSET Actions,
         failures : Nat]

\* a job has an event, and inside a delivery a hook
Jobs == {j \in [pc : {"idle", "load", "next", "send", "won", "lost", "judge",
                      "disable", "refresh", "gate", "failed"},
                ev : Events \cup {Nil}, todo : SUBSET Hooks, hook : Hooks \cup {Nil},
                tries : Nat, has : BOOLEAN, overtaken : BOOLEAN] :
           /\ j.pc # "idle" => j.ev \in Events
           /\ j.pc \notin {"idle", "load", "next", "failed"} => j.hook \in Hooks}

\* a request has the user or the event its next step is about
Requests == {r \in [pc : {"idle", "insert", "refresh", "gate", "retry", "repush"},
                    user : Users \cup {Nil}, ev : Events \cup {Nil}, has : BOOLEAN] :
               /\ r.pc \in {"insert", "refresh", "gate"} => r.user \in Users
               /\ r.pc = "repush" => r.ev \in Events}

TypeOK ==
  /\ queue \in Seq(Events) /\ failed \in Seq(Events)
  /\ hooks \in [Hooks -> Rows]
  /\ gate \subseteq Users /\ drift \subseteq Users
  /\ work \in [Workers -> Jobs]
  /\ req \in [Handlers -> Requests]
  /\ rebuild \in [on : BOOLEAN, users : SUBSET Users]
  /\ emitted \subseteq Events /\ done \subseteq Events /\ lost \subseteq Events
  /\ tried \in [Events -> [Hooks -> Nat]]
  /\ steady \in [Events -> SUBSET Hooks]
  /\ inRow \in [Hooks -> Nat]
  /\ edits \in 0..MaxEdits /\ faults \in 0..MaxFaults

\* The places an event can be, each with its number
Copies(s, e) == Cardinality({i \in DOMAIN s : s[i] = e})
Places(e) ==
  Copies(queue, e) + Copies(failed, e)
  + Cardinality({w \in Workers : work[w].ev = e})
  + Cardinality({c \in Handlers : req[c].ev = e})
  + (IF e \in done THEN 1 ELSE 0) + (IF e \in lost THEN 1 ELSE 0)

\* A queued event is in exactly one place whatever drainQueue, the retries of
\* dead letters and failed pushes do: never on two lists, and gone only where
\* the code gives it up (a crash with the job in memory, two failed pushes, Clear).
OnePlace == \A e \in Events : Places(e) = (IF e \in emitted THEN 1 ELSE 0)

\* An event is dispatched to a hook at most once, retries of dead letters
\* included: a job is dead-lettered only before its first delivery
\* (processWebhookJob returns an error only for infrastructure failures).
TriedOnce == \A e \in Events, h \in Hooks : tried[e][h] <= 1

\* One dead endpoint, a dead-lettered job or a slow worker makes processWebhookJob
\* pass over no other hook: when a job is done, every hook that has subscribed to
\* the event since it was queued has been dispatched to.
NothingSkipped == \A e \in done : \A h \in steady[e] : tried[e][h] >= 1

\* A worker disables a hook only for AutoDisableAfter failures in a row, unless a
\* success or the owner's re-enabling came between its SELECT and its UPDATE
\* (handleWebhookFailure reads the count and writes is_active in two statements).
DisabledForCause ==
  \A w \in Workers : work[w].pc = "disable" =>
    \/ work[w].overtaken
    \/ ~Exists(work[w].hook)
    \/ inRow[work[w].hook] >= AutoDisableAfter

RefreshDue(u) ==
  \/ \E w \in Workers : work[w].pc \in {"refresh", "gate"} /\ Owner[work[w].hook] = u
  \/ \E c \in Handlers : req[c].pc \in {"refresh", "gate"} /\ req[c].user = u

\* wh:users lists exactly the users with an active hook, except while a refresh is
\* on its way, or after one was overtaken by another edit or failed: every edit
\* and every automatic disabling is followed by its refresh.
GateCurrent ==
  \A u \in Users \ drift : RefreshDue(u) \/ ((u \in gate) <=> HasActive(u))

\* Whatever overtook a refresh or failed, once the edits and the faults are over
\* the maintenance tick makes wh:users right, and it stays right.
GateHeals == <>[](gate = ActiveUsers)

Pending(e) == e \in Members(queue) \/ \E w \in Workers : work[w].ev = e

\* Every queued job is processed, dead-lettered or given up: no worker is stuck and
\* none is passed over for ever, whatever its deliveries do.
JobsEnd == \A e \in Events : Pending(e) ~> ~Pending(e)
=============================================================================
