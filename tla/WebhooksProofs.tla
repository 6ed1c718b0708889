--------------------------- MODULE WebhooksProofs ---------------------------
(***************************************************************************)
(* Proofs about Webhooks, for any hooks, events, workers and limits: type  *)
(* correctness, that a hook is disabled for cause, that wh:users is        *)
(* current wherever no refresh was overtaken, that every event is in one   *)
(* place, is dispatched to a hook once at most, and passes no hook over.   *)
(***************************************************************************)
EXTENDS Webhooks, FiniteSetTheorems, TLAPS

-----------------------------------------------------------------------------
(* Types.  Each step first types the records it writes, then the variables. *)

LEMMA FreshRecords ==
  /\ Idle \in Jobs /\ Free \in Requests
  /\ NoRebuild \in [on : BOOLEAN, users : SUBSET Users]
  BY DEF Idle, Free, NoRebuild, Jobs, Requests

\* Members of a list are members of its set.
LEMMA MembersType ==
  ASSUME NEW s \in Seq(Events)
  PROVE  Members(s) \subseteq Events
  BY DEF Members

\* The set wh:users and what is known of it stay sets of users.
LEMMA GateType ==
  ASSUME gate \subseteq Users, drift \subseteq Users, NEW u \in Users
  PROVE  /\ \A has : SetGate(u, has) => gate' \subseteq Users /\ drift' \subseteq Users
         /\ MissGate(u) => gate' \subseteq Users /\ drift' \subseteq Users
  BY DEF SetGate, MissGate

LEMMA ReplaceType ==
  ASSUME NEW g \in SUBSET Users, ReplaceGate(g)
  PROVE  gate' \subseteq Users /\ drift' \subseteq Users
  BY DEF ReplaceGate

LEMMA FaultType ==
  ASSUME faults \in 0..MaxFaults, Fault
  PROVE  faults' \in 0..MaxFaults
  BY HookAssumption DEF Fault

LEMMA OvertakeType ==
  ASSUME work \in [Workers -> Jobs], NEW h
  PROVE  Overtake(h) \in [Workers -> Jobs]
<1>1. ASSUME NEW w \in Workers
      PROVE  [work[w] EXCEPT !.overtaken = TRUE] \in Jobs
  BY DEF Jobs
<1> QED BY <1>1 DEF Overtake

LEMMA UnsubscribeType ==
  ASSUME steady \in [Events -> SUBSET Hooks], NEW h, NEW acts, Unsubscribe(h, acts)
  PROVE  steady' \in [Events -> SUBSET Hooks]
  BY DEF Unsubscribe

LEMMA RowType ==
  ASSUME NEW row \in Rows
  PROVE  /\ Healed(row) \in Rows
         /\ [row EXCEPT !.failures = @ + 1] \in Rows
         /\ [row EXCEPT !.state = "off"] \in Rows
         /\ [row EXCEPT !.state = "deleted"] \in Rows
         /\ \A st \in {"on", "off", "kept"}, acts \in SUBSET Actions :
              Edited(row, st, acts) \in Rows
  BY DEF Rows, Healed, Edited

LEMMA RowFields ==
  ASSUME NEW row \in Rows
  PROVE  /\ Healed(row).failures = 0 /\ Healed(row).state = row.state
         /\ [row EXCEPT !.state = "off"].state = "off"
         /\ [row EXCEPT !.state = "off"].failures = row.failures
         /\ [row EXCEPT !.state = "deleted"].state = "deleted"
         /\ [row EXCEPT !.state = "deleted"].failures = row.failures
  BY DEF Rows, Healed

LEMMA TypeInit == Init => TypeOK
<1> SUFFICES ASSUME Init PROVE TypeOK
  OBVIOUS
<1>1. hooks \in [Hooks -> Rows]
  <2> PICK on \in SUBSET Hooks :
        hooks = [h \in Hooks |-> [state |-> IF h \in on THEN "on" ELSE "none",
                                  events |-> Actions, failures |-> 0]]
    BY DEF Init
  <2> QED BY DEF Rows
<1> QED
  BY <1>1, FreshRecords, HookAssumption DEF Init, TypeOK, ActiveUsers


LEMMA TypeWorker ==
  ASSUME TypeOK, NEW w \in Workers, WorkerStep(w)
  PROVE  TypeOK'
<1> DEFINE j == work[w]
           Put(r) == [work EXCEPT ![w] = r]
<1>j. j \in Jobs
  BY DEF TypeOK
<1>p. ASSUME NEW r \in Jobs PROVE Put(r) \in [Workers -> Jobs]
  BY DEF TypeOK
<1> USE DEF TypeOK, history, Goto, At
<1> HIDE DEF Put
<1>1. CASE Take(w)
  <2>1. Head(queue) \in Events /\ Tail(queue) \in Seq(Events)
    BY <1>1 DEF Take
  <2>2. [Idle EXCEPT !.pc = "load", !.ev = Head(queue)] \in Jobs
    BY <2>1 DEF Idle, Jobs
  <2> QED BY <1>1, <1>p, <2>1, <2>2 DEF Take, Put
<1>2. CASE Load(w)
  <2>1. [j EXCEPT !.pc = "next", !.todo = Matches(j.ev)] \in Jobs
    BY <1>2, <1>j DEF Jobs, Load, Matches
  <2>2. work' = Put([j EXCEPT !.pc = "next", !.todo = Matches(j.ev)])
    BY <1>2 DEF Load, Put
  <2> QED BY <1>2, <1>p, <2>1, <2>2 DEF Load
<1>3. CASE LoadFails(w)
  <2>1. [j EXCEPT !.pc = "failed"] \in Jobs
    BY <1>3, <1>j DEF Jobs, LoadFails
  <2>2. work' = Put([j EXCEPT !.pc = "failed"])
    BY <1>3 DEF LoadFails, Put
  <2> QED BY <1>3, <1>p, <2>1, <2>2, FaultType DEF LoadFails
<1>4. CASE DeadLetter(w)
  <2>1. j.ev \in Events
    BY <1>4, <1>j DEF DeadLetter, Jobs
  <2>2. work' \in [Workers -> Jobs]
    BY <1>4, <1>p, FreshRecords DEF DeadLetter, Put
  <2>3. failed' \in Seq(Events)
    <3>1. Append(failed, j.ev) \in Seq(Events)
      BY <2>1
    <3> QED BY <1>4, <3>1 DEF DeadLetter
  <2>4. lost' \subseteq Events
    BY <1>4, <2>1 DEF DeadLetter
  <2>5. faults' \in 0..MaxFaults
    BY <1>4, FaultType DEF DeadLetter
  <2> QED BY <1>4, <2>2, <2>3, <2>4, <2>5 DEF DeadLetter
<1>5. CASE Begin(w)
  <2> PICK h \in j.todo :
        /\ work' = [work EXCEPT ![w].pc = "send", ![w].todo = @ \ {h},
                                ![w].hook = h, ![w].tries = 1]
        /\ tried' = [tried EXCEPT ![work[w].ev][h] = @ + 1]
    BY <1>5 DEF Begin
  <2> DEFINE r == [j EXCEPT !.pc = "send", !.todo = @ \ {h}, !.hook = h, !.tries = 1]
  <2>1. h \in Hooks /\ j.ev \in Events
    BY <1>5, <1>j DEF Jobs, Begin
  <2>2. r \in Jobs
    BY <1>5, <1>j, <2>1 DEF Jobs
  <2>3. work' = Put(r)
    BY DEF Put
  <2>4. work' \in [Workers -> Jobs]
    BY <1>p, <2>2, <2>3
  <2>5. tried' \in [Events -> [Hooks -> Nat]]
    <3>1. tried[j.ev] \in [Hooks -> Nat]
      BY <2>1
    <3>2. [tried[j.ev] EXCEPT ![h] = @ + 1] \in [Hooks -> Nat]
      BY <2>1, <3>1
    <3> QED BY <2>1, <3>2
  <2> QED BY <1>5, <2>4, <2>5 DEF Begin
<1>6. CASE Attempt(w)
  <2>1. /\ [j EXCEPT !.pc = "won"] \in Jobs
        /\ [j EXCEPT !.pc = "lost"] \in Jobs
        /\ [j EXCEPT !.tries = @ + 1] \in Jobs
    <3>1. j.pc = "send"
      BY <1>6 DEF Attempt
    <3>2. [j EXCEPT !.pc = "won"] \in Jobs
      BY <1>j, <3>1 DEF Jobs
    <3>3. [j EXCEPT !.pc = "lost"] \in Jobs
      BY <1>j, <3>1 DEF Jobs
    <3>4. [j EXCEPT !.tries = @ + 1] \in Jobs
      <4> DEFINE n == j.tries + 1
      <4>1. n \in Nat
        BY <1>j DEF Jobs
      <4> HIDE DEF n
      <4>2. [j EXCEPT !.tries = n] \in Jobs
        BY <1>j, <3>1, <4>1 DEF Jobs
      <4> QED BY <4>2 DEF n
    <3> QED BY <3>2, <3>3, <3>4
  <2>2. \/ work' = Put([j EXCEPT !.pc = "won"])
        \/ work' = Put([j EXCEPT !.pc = "lost"])
        \/ work' = Put([j EXCEPT !.tries = @ + 1])
    BY <1>6 DEF Attempt, Put
  <2>3. work' \in [Workers -> Jobs]
    BY <1>p, <2>1, <2>2
  <2> QED BY <1>6, <2>3 DEF Attempt
<1>7. CASE RecordSuccess(w)
  <2>1. j.hook \in Hooks /\ [j EXCEPT !.pc = "next"] \in Jobs
    BY <1>7, <1>j DEF RecordSuccess, Jobs
  <2>2. Overtake(j.hook) \in [Workers -> Jobs]
    BY OvertakeType, <2>1
  <2>3. [Overtake(j.hook) EXCEPT ![w].pc = "next"] \in [Workers -> Jobs]
    <3> DEFINE o == Overtake(j.hook)[w]
    <3>1. o \in Jobs /\ o.pc = "won"
      BY <1>7, <2>2 DEF Overtake, RecordSuccess
    <3>2. [o EXCEPT !.pc = "next"] \in Jobs
      BY <3>1 DEF Jobs
    <3> QED BY <2>2, <3>2
  <2>4. work' \in [Workers -> Jobs]
    <3>1. Put([j EXCEPT !.pc = "next"]) \in [Workers -> Jobs]
      BY <1>p, <2>1
    <3> QED BY <1>7, <2>3, <3>1 DEF RecordSuccess, Put
  <2>5. hooks' \in [Hooks -> Rows] /\ inRow' \in [Hooks -> Nat]
    <3>1. Healed(hooks[j.hook]) \in Rows
      BY <2>1, RowType
    <3>2. \/ /\ hooks' = [hooks EXCEPT ![j.hook] = Healed(@)]
             /\ inRow' = [inRow EXCEPT ![j.hook] = 0]
          \/ hooks' = hooks /\ inRow' = inRow
      BY <1>7 DEF RecordSuccess
    <3>3. hooks' \in [Hooks -> Rows]
      BY <2>1, <3>1, <3>2
    <3>4. inRow' \in [Hooks -> Nat]
      <4>1. inRow' = [inRow EXCEPT ![j.hook] = 0] \/ inRow' = inRow
        BY <3>2
      <4>2. inRow \in [Hooks -> Nat]
        OBVIOUS
      <4>3. [inRow EXCEPT ![j.hook] = 0] \in [Hooks -> Nat]
        BY <4>2
      <4> QED BY <4>1, <4>2, <4>3
    <3> QED BY <3>3, <3>4
  <2>6. faults' \in 0..MaxFaults
    BY <1>7, FaultType DEF RecordSuccess
  <2> QED BY <1>7, <2>4, <2>5, <2>6 DEF RecordSuccess
<1>8. CASE RecordFailure(w)
  <2>1. j.hook \in Hooks /\ [j EXCEPT !.pc = AfterFailure] \in Jobs
    BY <1>8, <1>j DEF RecordFailure, Jobs, AfterFailure
  <2>2. work' = Put([j EXCEPT !.pc = AfterFailure])
    BY <1>8 DEF RecordFailure, Put
  <2>3. work' \in [Workers -> Jobs]
    BY <1>p, <2>1, <2>2
  <2>4. hooks' \in [Hooks -> Rows] /\ inRow' \in [Hooks -> Nat]
    <3> DEFINE row == [hooks[j.hook] EXCEPT !.failures = @ + 1]
    <3>1. row \in Rows
      BY <2>1, RowType
    <3>2. \/ /\ hooks' = [hooks EXCEPT ![j.hook] = row]
             /\ inRow' = [inRow EXCEPT ![j.hook] = @ + 1]
          \/ hooks' = hooks /\ inRow' = inRow
      BY <1>8 DEF RecordFailure
    <3>3. hooks' \in [Hooks -> Rows]
      <4> HIDE DEF row
      <4> QED BY <2>1, <3>1, <3>2
    <3>4. inRow' \in [Hooks -> Nat]
      <4>1. inRow[j.hook] + 1 \in Nat
        BY <2>1
      <4>2. inRow' = [inRow EXCEPT ![j.hook] = inRow[j.hook] + 1] \/ inRow' = inRow
        BY <3>2
      <4> DEFINE n == inRow[j.hook] + 1
      <4> HIDE DEF n
      <4>3. [inRow EXCEPT ![j.hook] = n] \in [Hooks -> Nat]
        BY <4>1 DEF n
      <4> QED BY <4>2, <4>3 DEF n
    <3> QED BY <3>3, <3>4
  <2>5. faults' \in 0..MaxFaults
    BY <1>8, FaultType DEF RecordFailure
  <2> QED BY <1>8, <2>3, <2>4, <2>5 DEF RecordFailure
<1>9. CASE Judge(w)
  <2>1. [j EXCEPT !.pc = "disable"] \in Jobs /\ [j EXCEPT !.pc = "next"] \in Jobs
    BY <1>9, <1>j DEF Jobs, Judge
  <2>2. \/ work' = Put([j EXCEPT !.pc = "disable"])
        \/ work' = Put([j EXCEPT !.pc = "next"])
    BY <1>9 DEF Judge, Put
  <2>3. work' \in [Workers -> Jobs]
    BY <1>p, <2>1, <2>2
  <2> QED BY <1>9, <2>3, FaultType DEF Judge
<1>10. CASE Disable(w)
  <2>1. /\ j.hook \in Hooks
        /\ [j EXCEPT !.pc = "refresh", !.overtaken = FALSE] \in Jobs
    BY <1>10, <1>j DEF Disable, Jobs
  <2>2. work' = Put([j EXCEPT !.pc = "refresh", !.overtaken = FALSE])
    BY <1>10 DEF Disable, Put
  <2>3. hooks' \in [Hooks -> Rows]
    <3> DEFINE row == [hooks[j.hook] EXCEPT !.state = "off"]
    <3>1. row \in Rows
      BY <2>1, RowType
    <3>2. hooks' = [hooks EXCEPT ![j.hook] = row] \/ hooks' = hooks
      BY <1>10 DEF Disable
    <3> QED BY <2>1, <3>1, <3>2
  <2>4. steady' \in [Events -> SUBSET Hooks] /\ faults' \in 0..MaxFaults
    BY <1>10, UnsubscribeType, FaultType DEF Disable
  <2> QED BY <1>10, <1>p, <2>1, <2>2, <2>3, <2>4 DEF Disable
<1>11. CASE RefreshCount(w)
  <2>1. [j EXCEPT !.pc = "gate", !.has = HasActive(Owner[j.hook])] \in Jobs
    BY <1>11, <1>j DEF Jobs, RefreshCount, HasActive
  <2>2. work' = Put([j EXCEPT !.pc = "gate", !.has = HasActive(Owner[j.hook])])
    BY <1>11 DEF RefreshCount, Put
  <2> QED BY <1>11, <1>p, <2>1, <2>2 DEF RefreshCount
<1>12. CASE RefreshWrite(w)
  <2>1. Owner[j.hook] \in Users /\ [j EXCEPT !.pc = "next", !.has = FALSE] \in Jobs
    BY <1>12, <1>j, HookAssumption DEF Jobs, RefreshWrite
  <2>2. work' = Put([j EXCEPT !.pc = "next", !.has = FALSE])
    BY <1>12 DEF RefreshWrite, Put
  <2>3. gate' \subseteq Users /\ drift' \subseteq Users /\ faults' \in 0..MaxFaults
    BY <1>12, <2>1, GateType, FaultType DEF RefreshWrite, MissGate
  <2> QED BY <1>12, <1>p, <2>1, <2>2, <2>3 DEF RefreshWrite
<1>13. CASE Finish(w)
  <2>1. j.ev \in Events
    BY <1>13, <1>j DEF Finish, Jobs
  <2>2. work' = Put(Idle)
    BY <1>13 DEF Finish, Put
  <2> QED BY <1>13, <1>p, <2>1, <2>2, FreshRecords DEF Finish
<1> QED
  BY <1>1, <1>2, <1>3, <1>4, <1>5, <1>6, <1>7, <1>8, <1>9, <1>10, <1>11, <1>12, <1>13
  DEF WorkerStep

LEMMA TypeHandler ==
  ASSUME TypeOK, NEW c \in Handlers, HandlerStep(c) \/ Request(c)
  PROVE  TypeOK'
<1> DEFINE q == req[c]
           Put(r) == [req EXCEPT ![c] = r]
<1>q. q \in Requests
  BY DEF TypeOK
<1>p. ASSUME NEW r \in Requests PROVE Put(r) \in [Handlers -> Requests]
  BY DEF TypeOK
<1>a. Arrive(c) => q.pc = "idle" /\ edits' \in 0..MaxEdits
  BY HookAssumption DEF Arrive, TypeOK
<1>e. ASSUME NEW pc \in {"refresh", "insert"}, NEW u \in Users
      PROVE  [q EXCEPT !.pc = pc, !.user = u] \in Requests
  BY <1>q DEF Requests
<1> USE DEF TypeOK, history
<1> HIDE DEF Put
<1>1. CASE CreateCheck(c)
  <2>1. PICK u \in Users : req' = Put([q EXCEPT !.pc = "insert", !.user = u])
    BY <1>1 DEF CreateCheck, Put
  <2>2. req' \in [Handlers -> Requests]
    BY <1>p, <1>e, <2>1
  <2> QED BY <1>1, <1>a, <2>2 DEF CreateCheck
<1>2. CASE CreateInsert(c)
  <2>1. [q EXCEPT !.pc = "refresh"] \in Requests
    BY <1>2, <1>q DEF CreateInsert, Requests
  <2>2. req' \in {Put([q EXCEPT !.pc = "refresh"]), Put(Free)}
    BY <1>2 DEF CreateInsert, Put
  <2>3. req' \in [Handlers -> Requests]
    BY <1>p, <2>1, <2>2, FreshRecords
  <2>4. hooks' \in [Hooks -> Rows]
    <3>1. ASSUME NEW acts \in SUBSET Actions, NEW st \in {"on", "off"}
          PROVE  [state |-> st, events |-> acts, failures |-> 0] \in Rows
      BY DEF Rows
    <3>2. \/ hooks' = hooks
          \/ \E h \in Hooks, acts \in SUBSET Actions, st \in {"on", "off"} :
               hooks' = [hooks EXCEPT ![h] =
                           [state |-> st, events |-> acts, failures |-> 0]]
      BY <1>2 DEF CreateInsert
    <3>3. \/ hooks' = hooks
          \/ \E h \in Hooks, row \in Rows : hooks' = [hooks EXCEPT ![h] = row]
      BY <3>1, <3>2
    <3> QED BY <3>3
  <2>5. faults' \in 0..MaxFaults
    BY <1>2, FaultType DEF CreateInsert
  <2> QED BY <1>2, <2>3, <2>4, <2>5 DEF CreateInsert
<1>3. CASE Update(c)
  <2>1. PICK h \in Hooks, acts \in (SUBSET Actions) \ {{}}, st \in {"on", "off", "kept"} :
          /\ hooks' = [hooks EXCEPT ![h] = Edited(@, st, acts)]
          /\ Unsubscribe(h, IF st = "off" THEN Actions ELSE Actions \ acts)
          /\ inRow' = IF st = "on" THEN [inRow EXCEPT ![h] = 0] ELSE inRow
          /\ work' = IF st = "on" THEN Overtake(h) ELSE work
          /\ req' = Put([q EXCEPT !.pc = "refresh", !.user = Owner[h]])
    BY <1>3 DEF Update, Put
  <2>2. hooks' \in [Hooks -> Rows]
    <3>1. Edited(hooks[h], st, acts) \in Rows
      BY <2>1, RowType
    <3> QED BY <2>1, <3>1
  <2>3. steady' \in [Events -> SUBSET Hooks]
    BY <2>1, UnsubscribeType
  <2>4. work' \in [Workers -> Jobs] /\ inRow' \in [Hooks -> Nat]
    BY <2>1, OvertakeType
  <2>5. req' \in [Handlers -> Requests]
    BY <1>p, <1>e, <2>1, HookAssumption
  <2> QED BY <1>3, <1>a, <2>2, <2>3, <2>4, <2>5 DEF Update
<1>4. CASE Delete(c)
  <2>1. PICK h \in Hooks :
          /\ hooks' = [hooks EXCEPT ![h] = [hooks[h] EXCEPT !.state = "deleted"]]
          /\ Unsubscribe(h, Actions)
          /\ req' = Put([q EXCEPT !.pc = "refresh", !.user = Owner[h]])
    BY <1>4 DEF Delete, Put
  <2>2. hooks' \in [Hooks -> Rows]
    <3>1. [hooks[h] EXCEPT !.state = "deleted"] \in Rows
      BY <2>1, RowType
    <3> QED BY <2>1, <3>1
  <2>3. steady' \in [Events -> SUBSET Hooks]
    BY <2>1, UnsubscribeType
  <2>4. req' \in [Handlers -> Requests]
    BY <1>p, <1>e, <2>1, HookAssumption
  <2> QED BY <1>4, <1>a, <2>2, <2>3, <2>4 DEF Delete
<1>5. CASE EditCount(c)
  <2>1. [q EXCEPT !.pc = "gate", !.has = HasActive(q.user)] \in Requests
    BY <1>5, <1>q DEF EditCount, Requests, HasActive
  <2>2. req' = Put([q EXCEPT !.pc = "gate", !.has = HasActive(q.user)])
    BY <1>5 DEF EditCount, Put
  <2> QED BY <1>5, <1>p, <2>1, <2>2 DEF EditCount
<1>6. CASE EditWrite(c)
  <2>1. q.user \in Users
    BY <1>6, <1>q DEF EditWrite, Requests
  <2>2. gate' \subseteq Users /\ drift' \subseteq Users
    BY <1>6, <2>1, GateType DEF EditWrite
  <2>3. faults' \in 0..MaxFaults
    BY <1>6, FaultType DEF EditWrite, MissGate
  <2>4. req' = Put(Free)
    BY <1>6 DEF EditWrite, Put
  <2> QED BY <1>6, <1>p, <2>2, <2>3, <2>4, FreshRecords DEF EditWrite
<1>7. CASE RetryPop(c)
  <2>1. edits' \in 0..MaxEdits
    BY <1>7, <1>a DEF RetryPop
  <2>2. CASE failed = <<>>
    <3>1. req' = Put(Free) /\ failed' = failed
      BY <1>7, <2>2 DEF RetryPop, Put
    <3> QED BY <1>7, <1>p, <2>1, <3>1, FreshRecords DEF RetryPop
  <2>3. CASE failed # <<>>
    <3>1. Head(failed) \in Events /\ Tail(failed) \in Seq(Events)
      BY <2>3
    <3>2. [q EXCEPT !.pc = "repush", !.ev = Head(failed)] \in Requests
      BY <1>q, <3>1 DEF Requests
    <3>3. /\ req' = Put([q EXCEPT !.pc = "repush", !.ev = Head(failed)])
          /\ failed' = Tail(failed)
      BY <1>7, <2>3 DEF RetryPop, Put
    <3> QED BY <1>7, <1>p, <2>1, <3>1, <3>2, <3>3 DEF RetryPop
  <2> QED BY <2>2, <2>3
<1>8. CASE RetryPush(c)
  <2>1. q.ev \in Events
    BY <1>8, <1>q DEF RetryPush, Requests
  <2>2. queue' \in Seq(Events) /\ failed' \in Seq(Events)
    <3>1. Append(queue, q.ev) \in Seq(Events) /\ Append(failed, q.ev) \in Seq(Events)
      BY <2>1
    <3> QED BY <1>8, <3>1 DEF RetryPush
  <2>3. lost' \subseteq Events
    BY <1>8, <2>1 DEF RetryPush
  <2>4. faults' \in 0..MaxFaults
    BY <1>8, FaultType DEF RetryPush
  <2>5. [Free EXCEPT !.pc = "retry"] \in Requests
    BY DEF Free, Requests
  <2>6. req' \in {Put(Free), Put([Free EXCEPT !.pc = "retry"])}
    BY <1>8 DEF RetryPush, Put
  <2>7. req' \in [Handlers -> Requests]
    BY <1>p, <2>5, <2>6, FreshRecords
  <2> QED BY <1>8, <2>2, <2>3, <2>4, <2>7 DEF RetryPush
<1>9. CASE Clear(c)
  <2>1. lost' \subseteq Events
    BY <1>9, MembersType DEF Clear
  <2> QED BY <1>9, <1>a, <2>1 DEF Clear
<1> QED
  BY <1>1, <1>2, <1>3, <1>4, <1>5, <1>6, <1>7, <1>8, <1>9 DEF HandlerStep, Request

\* Activity, maintenance and restarts.
Other ==
  \/ \E e \in Events : Emit(e)
  \/ RebuildRead \/ RebuildSwap \/ RebuildFails \/ Restart \/ RedisLost

LEMMA TypeOther ==
  ASSUME TypeOK, Other
  PROVE  TypeOK'
<1> USE DEF TypeOK, history
<1>1. ASSUME NEW e \in Events, Emit(e) PROVE TypeOK'
  <2>1. Append(queue, e) \in Seq(Events) /\ Matches(e) \subseteq Hooks
    BY DEF Matches
  <2> QED BY <1>1, <2>1 DEF Emit
<1>u. ActiveUsers \subseteq Users
  BY DEF ActiveUsers
<1>2. CASE RebuildRead
  BY <1>2, <1>u DEF RebuildRead
<1>3. CASE RebuildSwap
  <2>1. gate' \subseteq Users /\ drift' \subseteq Users
    BY <1>3, ReplaceType DEF RebuildSwap
  <2> QED BY <1>3, <2>1, FreshRecords DEF RebuildSwap
<1>4. CASE RebuildFails
  BY <1>4, FaultType, FreshRecords DEF RebuildFails
<1>5. CASE Restart
  <2>1. gate' \subseteq Users /\ drift' \subseteq Users
    BY <1>5, <1>u, ReplaceType DEF Restart
  <2>2. lost' \subseteq Events
    BY <1>5 DEF Restart, Held
  <2>3. work' \in [Workers -> Jobs] /\ req' \in [Handlers -> Requests]
    BY <1>5, FreshRecords DEF Restart
  <2> QED BY <1>5, <2>1, <2>2, <2>3, FaultType, FreshRecords DEF Restart
<1>6. CASE RedisLost
  <2>1. gate' \subseteq Users /\ drift' \subseteq Users
    BY <1>6, ReplaceType DEF RedisLost
  <2>2. lost' \subseteq Events
    BY <1>6, MembersType DEF RedisLost
  <2> QED BY <1>6, <2>1, <2>2, FaultType DEF RedisLost
<1> QED BY <1>1, <1>2, <1>3, <1>4, <1>5, <1>6 DEF Other

LEMMA TypeStep == TypeOK /\ [Next]_vars => TypeOK'
<1> SUFFICES ASSUME TypeOK, [Next]_vars PROVE TypeOK'
  OBVIOUS
<1>1. CASE Next
  BY <1>1, TypeWorker, TypeHandler, TypeOther DEF Next, Other
<1>2. CASE UNCHANGED vars
  BY <1>2 DEF vars, TypeOK
<1> QED BY <1>1, <1>2

\* Every reachable state has its types: a job always has the event, a delivery
\* the hook and a request the user its next step works on.
THEOREM TypeCorrect == Spec => []TypeOK
  BY TypeInit, TypeStep, PTL DEF Spec

-----------------------------------------------------------------------------
(* Disabled for cause.                                                      *)

\* failure_count is the number of failures in a row of every row there is, and
\* a uuid not yet in the table has none.
Counted == \A h \in Hooks :
  /\ Exists(h) => hooks[h].failures = inRow[h]
  /\ hooks[h].state = "none" => inRow[h] = 0

\* a hook about to be disabled has been in the table
Born == \A w \in Workers :
  work[w].pc = "disable" => hooks[work[w].hook].state # "none"

CauseInv == Counted /\ Born /\ DisabledForCause

LEMMA CauseInit == Init => CauseInv
<1> SUFFICES ASSUME Init PROVE CauseInv
  OBVIOUS
<1>1. Counted
  <2> PICK on \in SUBSET Hooks :
        hooks = [h \in Hooks |-> [state |-> IF h \in on THEN "on" ELSE "none",
                                  events |-> Actions, failures |-> 0]]
    BY DEF Init
  <2> QED BY DEF Init, Counted, Exists
<1>2. Born /\ DisabledForCause
  BY DEF Init, Idle, Born, DisabledForCause
<1> QED BY <1>1, <1>2 DEF CauseInv

\* A step that touches neither the table nor the counts, and decides nothing.
LEMMA CauseSame ==
  ASSUME CauseInv, UNCHANGED <<hooks, inRow>>,
         \A w \in Workers : work'[w].pc = "disable" => work'[w] = work[w]
  PROVE  CauseInv'
<1>1. Counted'
  BY DEF CauseInv, Counted, Exists
<1>2. Born' /\ DisabledForCause'
  BY DEF CauseInv, Born, DisabledForCause, Exists
<1> QED BY <1>1, <1>2 DEF CauseInv

\* A step of worker w that does not leave it about to disable.
LEMMA CauseMove ==
  ASSUME TypeOK, CauseInv, UNCHANGED <<hooks, inRow>>, NEW w \in Workers,
         NEW r, r.pc # "disable", work' = [work EXCEPT ![w] = r]
  PROVE  CauseInv'
<1>1. \A v \in Workers : work'[v].pc = "disable" => work'[v] = work[v]
  BY DEF TypeOK
<1> QED BY <1>1, CauseSame

\* The count of an existing hook h goes up by one, or a worker other than those
\* about to disable h moves.
LEMMA CauseCount ==
  ASSUME TypeOK, CauseInv, NEW w \in Workers, RecordFailure(w)
  PROVE  CauseInv'
<1> DEFINE h == work[w].hook
           r == [work[w] EXCEPT !.pc = AfterFailure]
<1>1. work' = [work EXCEPT ![w] = r] /\ r.pc # "disable"
  <2>1. r.pc = AfterFailure
    BY DEF TypeOK, Jobs
  <2> QED BY <2>1 DEF RecordFailure, Goto, AfterFailure
<1>2. CASE UNCHANGED <<hooks, inRow>>
  BY <1>1, <1>2, CauseMove
<1>3. CASE /\ Exists(h)
           /\ hooks' = [hooks EXCEPT ![h].failures = @ + 1]
           /\ inRow' = [inRow EXCEPT ![h] = @ + 1]
  <2>1. h \in Hooks
    BY DEF RecordFailure, At, TypeOK, Jobs
  <2>2. \A g \in Hooks : hooks'[g].state = hooks[g].state
    BY <1>3 DEF TypeOK, Rows
  <2>3. \A g \in Hooks \ {h} : hooks'[g] = hooks[g] /\ inRow'[g] = inRow[g]
    BY <1>3 DEF TypeOK
  <2>4. /\ hooks'[h].failures = hooks[h].failures + 1
        /\ inRow'[h] = inRow[h] + 1
    BY <1>3, <2>1 DEF TypeOK, Rows
  <2>5. Counted'
    BY <1>3, <2>1, <2>2, <2>3, <2>4 DEF CauseInv, Counted, Exists
  <2>6. DisabledForCause'
    <3> SUFFICES ASSUME NEW v \in Workers, work'[v].pc = "disable"
                 PROVE  \/ work'[v].overtaken
                        \/ ~Exists(work[v].hook)'
                        \/ inRow'[work'[v].hook] >= AutoDisableAfter
      BY DEF DisabledForCause
    <3>1. work'[v] = work[v] /\ work[v].hook \in Hooks
      BY <1>1 DEF TypeOK, Jobs
    <3>2. \/ work[v].overtaken
          \/ ~Exists(work[v].hook)
          \/ inRow[work[v].hook] >= AutoDisableAfter
      BY <3>1 DEF CauseInv, DisabledForCause
    <3>3. inRow'[work[v].hook] \in {inRow[work[v].hook], inRow[work[v].hook] + 1}
      BY <2>3, <2>4, <3>1
    <3>4. inRow[work[v].hook] \in Nat /\ AutoDisableAfter \in Nat
      BY <3>1, HookAssumption DEF TypeOK
    <3> QED BY <2>2, <3>1, <3>2, <3>3, <3>4 DEF Exists
  <2>7. Born'
    <3> SUFFICES ASSUME NEW v \in Workers, work'[v].pc = "disable"
                 PROVE  hooks'[work'[v].hook].state # "none"
      BY DEF Born
    <3>1. work'[v] = work[v] /\ work[v].hook \in Hooks
      BY <1>1 DEF TypeOK, Jobs
    <3> QED BY <2>2, <3>1 DEF CauseInv, Born
  <2> QED BY <2>5, <2>6, <2>7 DEF CauseInv
<1> QED BY <1>2, <1>3 DEF RecordFailure

\* A success, or the owner's switch, sets the count of h to zero and marks the
\* workers about to disable it.
LEMMA CauseReset ==
  ASSUME TypeOK, CauseInv, NEW h \in Hooks, Exists(h),
         NEW row \in Rows, row.state \in {"on", "off"}, row.failures = 0,
         hooks' = [hooks EXCEPT ![h] = row],
         inRow' = [inRow EXCEPT ![h] = 0],
         \A v \in Workers : work'[v].pc = "disable" => work'[v] = Overtake(h)[v]
  PROVE  CauseInv'
<1>1. \A g \in Hooks \ {h} : hooks'[g] = hooks[g] /\ inRow'[g] = inRow[g]
  BY DEF TypeOK
<1>2. hooks'[h] = row /\ inRow'[h] = 0
  BY DEF TypeOK
<1>3. Counted'
  BY <1>1, <1>2 DEF CauseInv, Counted, Exists
<1>4. DisabledForCause'
  <2> SUFFICES ASSUME NEW v \in Workers, work'[v].pc = "disable"
               PROVE  \/ work'[v].overtaken
                      \/ ~Exists(work[v].hook)'
                      \/ inRow'[work'[v].hook] >= AutoDisableAfter
    BY DEF DisabledForCause
  <2>1. work'[v] = Overtake(h)[v] /\ work[v] \in Jobs
    BY DEF TypeOK
  <2>2. CASE work[v].pc = "disable" /\ work[v].hook = h
    BY <2>1, <2>2 DEF Overtake, Jobs
  <2>3. CASE ~(work[v].pc = "disable" /\ work[v].hook = h)
    <3>1. work'[v] = work[v]
      BY <2>1, <2>3 DEF Overtake
    <3>2. work[v].hook \in Hooks \ {h}
      BY <2>1, <2>3, <3>1 DEF Jobs
    <3> QED BY <1>1, <3>1, <3>2 DEF CauseInv, DisabledForCause, Exists
  <2> QED BY <2>2, <2>3
<1>5. Born'
  <2> SUFFICES ASSUME NEW v \in Workers, work'[v].pc = "disable"
               PROVE  hooks'[work'[v].hook].state # "none"
    BY DEF Born
  <2>1. /\ work[v] \in Jobs /\ work[v].pc = "disable"
        /\ work'[v].hook = work[v].hook
    BY DEF TypeOK, Overtake, Jobs
  <2>2. work[v].hook \in Hooks
    BY <2>1 DEF Jobs
  <2> QED BY <1>1, <1>2, <2>1, <2>2 DEF CauseInv, Born
<1> QED BY <1>3, <1>4, <1>5 DEF CauseInv

\* A change of h's row that keeps its count, or a row created with none.
LEMMA CauseKeep ==
  ASSUME TypeOK, CauseInv, NEW h \in Hooks, NEW row \in Rows,
         hooks' = [hooks EXCEPT ![h] = row], inRow' = inRow,
         row.state # "none", row.failures = hooks[h].failures \/ ~Exists(h),
         row.state \in {"on", "off"} => Exists(h) \/ row.failures = inRow[h],
         hooks[h].state = "none" \/ Exists(h),
         \A v \in Workers : work'[v].pc = "disable" => work'[v] = work[v]
  PROVE  CauseInv'
<1>1. \A g \in Hooks \ {h} : hooks'[g] = hooks[g]
  BY DEF TypeOK
<1>2. hooks'[h] = row
  BY DEF TypeOK
<1>3. Counted'
  BY <1>1, <1>2 DEF CauseInv, Counted, Exists
<1>4. DisabledForCause'
  <2> SUFFICES ASSUME NEW v \in Workers, work'[v].pc = "disable"
               PROVE  \/ work'[v].overtaken
                      \/ ~Exists(work[v].hook)'
                      \/ inRow'[work'[v].hook] >= AutoDisableAfter
    BY DEF DisabledForCause
  <2>1. work'[v] = work[v] /\ work[v].hook \in Hooks
    BY DEF TypeOK, Jobs
  <2> QED BY <1>1, <1>2, <2>1 DEF CauseInv, Born, DisabledForCause, Exists
<1>5. Born'
  <2> SUFFICES ASSUME NEW v \in Workers, work'[v].pc = "disable"
               PROVE  hooks'[work'[v].hook].state # "none"
    BY DEF Born
  <2>1. work'[v] = work[v] /\ work[v].hook \in Hooks
    BY DEF TypeOK, Jobs
  <2> QED BY <1>1, <1>2, <2>1 DEF CauseInv, Born
<1> QED BY <1>3, <1>4, <1>5 DEF CauseInv

LEMMA CauseWorker ==
  ASSUME TypeOK, CauseInv, NEW w \in Workers, WorkerStep(w)
  PROVE  CauseInv'
<1> DEFINE j == work[w]
<1>j. j \in Jobs
  BY DEF TypeOK
<1>pc. ASSUME NEW pc \in {"next", "failed", "won", "lost"} PROVE [j EXCEPT !.pc = pc].pc # "disable"
  BY <1>j DEF Jobs
<1> USE DEF Goto, At
<1>1. CASE Take(w)
  <2> DEFINE r == [Idle EXCEPT !.pc = "load", !.ev = Head(queue)]
  <2>1. r.pc # "disable"
    BY DEF Idle
  <2> QED BY <1>1, <2>1, CauseMove DEF Take
<1>2. CASE Load(w)
  <2> DEFINE r == [j EXCEPT !.pc = "next", !.todo = Matches(j.ev)]
  <2>1. r.pc # "disable"
    BY <1>j DEF Jobs
  <2>2. work' = [work EXCEPT ![w] = r]
    BY <1>2 DEF Load
  <2> QED BY <1>2, <2>1, <2>2, CauseMove DEF Load
<1>3. CASE LoadFails(w)
  BY <1>3, <1>pc, CauseMove DEF LoadFails
<1>4. CASE DeadLetter(w)
  <2>1. Idle.pc # "disable"
    BY DEF Idle
  <2> QED BY <1>4, <2>1, CauseMove DEF DeadLetter
<1>5. CASE Begin(w)
  <2>1. PICK h \in j.todo :
          work' = [work EXCEPT ![w].pc = "send", ![w].todo = @ \ {h},
                               ![w].hook = h, ![w].tries = 1]
    BY <1>5 DEF Begin
  <2> DEFINE r == [j EXCEPT !.pc = "send", !.todo = @ \ {h}, !.hook = h, !.tries = 1]
  <2>2. r.pc # "disable"
    BY <1>j DEF Jobs
  <2>3. work' = [work EXCEPT ![w] = r]
    BY <2>1
  <2> QED BY <1>5, <2>2, <2>3, CauseMove DEF Begin
<1>6. CASE Attempt(w)
  <2> DEFINE r == [j EXCEPT !.tries = @ + 1]
  <2>1. r.pc # "disable"
    BY <1>6, <1>j DEF Jobs, Attempt
  <2>2. \/ work' = [work EXCEPT ![w] = [j EXCEPT !.pc = "won"]]
        \/ work' = [work EXCEPT ![w] = [j EXCEPT !.pc = "lost"]]
        \/ work' = [work EXCEPT ![w] = r]
    BY <1>6 DEF Attempt
  <2>3. UNCHANGED <<hooks, inRow>>
    BY <1>6 DEF Attempt
  <2> HIDE DEF r
  <2> QED BY <2>1, <2>2, <2>3, <1>pc, CauseMove
<1>7. CASE RecordSuccess(w)
  <2> DEFINE h == j.hook
  <2>1. h \in Hooks
    BY <1>7, <1>j DEF RecordSuccess, Jobs
  <2>2. CASE UNCHANGED <<hooks, inRow>> /\ Goto(w, "next")
    BY <2>2, <1>pc, CauseMove
  <2>3. CASE /\ Exists(h)
             /\ hooks' = [hooks EXCEPT ![h] = Healed(@)]
             /\ inRow' = [inRow EXCEPT ![h] = 0]
             /\ work' = [Overtake(h) EXCEPT ![w].pc = "next"]
    <3>1. /\ Healed(hooks[h]) \in Rows /\ Healed(hooks[h]).failures = 0
          /\ Healed(hooks[h]).state \in {"on", "off"}
      BY <2>1, <2>3, RowType, RowFields DEF TypeOK, Exists
    <3>2. \A v \in Workers : work'[v].pc = "disable" => work'[v] = Overtake(h)[v]
      <4>1. Overtake(h) \in [Workers -> Jobs]
        BY OvertakeType DEF TypeOK
      <4>2. work'[w].pc = "next"
        BY <2>3, <4>1 DEF Jobs
      <4>3. \A v \in Workers \ {w} : work'[v] = Overtake(h)[v]
        BY <2>3, <4>1
      <4> QED BY <4>2, <4>3
    <3> QED BY <2>1, <2>3, <3>1, <3>2, CauseReset
  <2> QED BY <1>7, <2>2, <2>3 DEF RecordSuccess
<1>8. CASE RecordFailure(w)
  BY <1>8, CauseCount
<1>9. CASE Judge(w)
  <2>1. UNCHANGED <<hooks, inRow>> /\ j.hook \in Hooks
    BY <1>9, <1>j DEF Judge, Jobs
  <2>2. CASE Goto(w, "next")
    BY <2>1, <2>2, <1>pc, CauseMove
  <2>3. CASE Exists(j.hook) /\ hooks[j.hook].failures >= AutoDisableAfter
             /\ Goto(w, "disable")
    <3>1. inRow[j.hook] >= AutoDisableAfter /\ hooks[j.hook].state # "none"
      BY <2>1, <2>3 DEF CauseInv, Counted, Exists
    <3>2. work'[w].hook = j.hook
      BY <2>3, <1>j DEF TypeOK, Jobs
    <3>3. \A v \in Workers \ {w} : work'[v] = work[v]
      BY <2>3 DEF TypeOK
    <3>4. Counted'
      BY <2>1 DEF CauseInv, Counted, Exists
    <3>5. Born'
      BY <2>1, <3>1, <3>2, <3>3 DEF CauseInv, Born
    <3>6. DisabledForCause'
      BY <2>1, <3>1, <3>2, <3>3 DEF CauseInv, DisabledForCause, Exists
    <3> QED BY <3>4, <3>5, <3>6 DEF CauseInv
  <2> QED BY <1>9, <2>2, <2>3 DEF Judge
<1>10. CASE Disable(w)
  <2> DEFINE h == j.hook
             r == [j EXCEPT !.pc = "refresh", !.overtaken = FALSE]
  <2>1. h \in Hooks /\ r.pc # "disable" /\ work' = [work EXCEPT ![w] = r]
    BY <1>10, <1>j DEF Disable, Jobs
  <2>2. inRow' = inRow
    BY <1>10 DEF Disable
  <2>3. CASE hooks' = hooks
    <3> HIDE DEF r
    <3> QED BY <2>1, <2>2, <2>3, CauseMove
  <2>4. CASE Exists(h) /\ hooks' = [hooks EXCEPT ![h].state = "off"]
    <3> DEFINE row == [hooks[h] EXCEPT !.state = "off"]
    <3>1. row \in Rows /\ row.state = "off" /\ row.failures = hooks[h].failures
      BY <2>1, RowType, RowFields DEF TypeOK
    <3>2. \A v \in Workers : work'[v].pc = "disable" => work'[v] = work[v]
      <4> HIDE DEF r
      <4> QED BY <2>1 DEF TypeOK
    <3>3. hooks' = [hooks EXCEPT ![h] = row]
      BY <2>4
    <3> HIDE DEF row
    <3> QED BY <2>1, <2>2, <2>4, <3>1, <3>2, <3>3, CauseKeep
  <2> QED BY <1>10, <2>3, <2>4 DEF Disable
<1>11. CASE RefreshCount(w)
  <2> DEFINE r == [j EXCEPT !.pc = "gate", !.has = HasActive(Owner[j.hook])]
  <2>1. r.pc # "disable" /\ work' = [work EXCEPT ![w] = r]
    BY <1>11, <1>j DEF Jobs, RefreshCount
  <2> QED BY <1>11, <2>1, CauseMove DEF RefreshCount
<1>12. CASE RefreshWrite(w)
  <2> DEFINE r == [j EXCEPT !.pc = "next", !.has = FALSE]
  <2>1. r.pc # "disable" /\ work' = [work EXCEPT ![w] = r]
    BY <1>12, <1>j DEF Jobs, RefreshWrite
  <2> QED BY <1>12, <2>1, CauseMove DEF RefreshWrite
<1>13. CASE Finish(w)
  <2>1. Idle.pc # "disable"
    BY DEF Idle
  <2> QED BY <1>13, <2>1, CauseMove DEF Finish
<1> QED
  BY <1>1, <1>2, <1>3, <1>4, <1>5, <1>6, <1>7, <1>8, <1>9, <1>10, <1>11, <1>12, <1>13
  DEF WorkerStep

LEMMA CauseHandler ==
  ASSUME TypeOK, CauseInv, NEW c \in Handlers, HandlerStep(c) \/ Request(c)
  PROVE  CauseInv'
<1>1. CASE CreateCheck(c)
  BY <1>1, CauseSame DEF CreateCheck
<1>2. CASE CreateInsert(c)
  <2>1. work' = work /\ inRow' = inRow
    BY <1>2 DEF CreateInsert
  <2>2. CASE hooks' = hooks
    BY <2>1, <2>2, CauseSame
  <2>3. CASE hooks' # hooks
    <3>1. PICK h \in Hooks, acts \in SUBSET Actions, st \in {"on", "off"} :
            /\ hooks[h].state = "none"
            /\ hooks' = [hooks EXCEPT ![h] = [state |-> st, events |-> acts, failures |-> 0]]
      BY <1>2, <2>3 DEF CreateInsert
    <3> DEFINE row == [state |-> st, events |-> acts, failures |-> 0]
    <3>2. row \in Rows /\ row.state \in {"on", "off"} /\ row.failures = 0
      BY DEF Rows
    <3>3. inRow[h] = 0 /\ ~Exists(h)
      BY <3>1 DEF CauseInv, Counted, Exists
    <3>4. hooks' = [hooks EXCEPT ![h] = row]
      BY <3>1
    <3> HIDE DEF row
    <3> QED BY <2>1, <3>1, <3>2, <3>3, <3>4, CauseKeep
  <2> QED BY <2>2, <2>3
<1>3. CASE Update(c)
  <2>1. PICK h \in Hooks, acts \in (SUBSET Actions) \ {{}}, st \in {"on", "off", "kept"} :
          /\ Exists(h)
          /\ hooks' = [hooks EXCEPT ![h] = Edited(@, st, acts)]
          /\ inRow' = IF st = "on" THEN [inRow EXCEPT ![h] = 0] ELSE inRow
          /\ work' = IF st = "on" THEN Overtake(h) ELSE work
    BY <1>3 DEF Update
  <2> DEFINE row == Edited(hooks[h], st, acts)
  <2>2. /\ row \in Rows /\ row.state \in {"on", "off"}
        /\ st = "on" => row.failures = 0
        /\ st # "on" => row.failures = hooks[h].failures
    BY <2>1, RowType DEF TypeOK, Edited, Rows, Exists
  <2>3. hooks' = [hooks EXCEPT ![h] = row]
    BY <2>1
  <2> HIDE DEF row
  <2>4. CASE st = "on"
    BY <2>1, <2>2, <2>3, <2>4, CauseReset
  <2>5. CASE st # "on"
    BY <2>1, <2>2, <2>3, <2>5, CauseKeep
  <2> QED BY <2>4, <2>5
<1>4. CASE Delete(c)
  <2>1. PICK h \in Hooks :
          /\ Exists(h)
          /\ hooks' = [hooks EXCEPT ![h].state = "deleted"]
    BY <1>4 DEF Delete
  <2> DEFINE row == [hooks[h] EXCEPT !.state = "deleted"]
  <2>2. row \in Rows /\ row.state = "deleted" /\ row.failures = hooks[h].failures
    BY <2>1, RowType, RowFields DEF TypeOK
  <2>3. hooks' = [hooks EXCEPT ![h] = row] /\ work' = work /\ inRow' = inRow
    BY <1>4, <2>1 DEF Delete
  <2> HIDE DEF row
  <2> QED BY <2>1, <2>2, <2>3, CauseKeep
<1>5. CASE EditCount(c)
  BY <1>5, CauseSame DEF EditCount
<1>6. CASE EditWrite(c)
  BY <1>6, CauseSame DEF EditWrite
<1>7. CASE RetryPop(c)
  BY <1>7, CauseSame DEF RetryPop
<1>8. CASE RetryPush(c)
  BY <1>8, CauseSame DEF RetryPush
<1>9. CASE Clear(c)
  BY <1>9, CauseSame DEF Clear
<1> QED
  BY <1>1, <1>2, <1>3, <1>4, <1>5, <1>6, <1>7, <1>8, <1>9 DEF HandlerStep, Request

LEMMA CauseOther ==
  ASSUME CauseInv, Other
  PROVE  CauseInv'
<1>1. CASE Restart
  <2>1. \A w \in Workers : work'[w].pc # "disable"
    BY <1>1 DEF Restart, Idle
  <2> QED BY <1>1, <2>1, CauseSame DEF Restart
<1> QED
  BY <1>1, CauseSame
  DEF Other, Emit, RebuildRead, RebuildSwap, RebuildFails, RedisLost

\* A worker that disables a hook has AutoDisableAfter failures in a row to show,
\* whatever other workers deliver meanwhile, unless a success or the owner's
\* switch came between its SELECT and its UPDATE.
THEOREM CauseCorrect == Spec => []DisabledForCause
<1>1. TypeOK /\ CauseInv /\ [Next]_vars => CauseInv'
  <2> SUFFICES ASSUME TypeOK, CauseInv, [Next]_vars PROVE CauseInv'
    OBVIOUS
  <2>1. CASE Next
    BY <2>1, CauseWorker, CauseHandler, CauseOther DEF Next, Other
  <2>2. CASE UNCHANGED vars
    BY <2>2, CauseSame DEF vars
  <2> QED BY <2>1, <2>2
<1>2. CauseInv => DisabledForCause
  BY DEF CauseInv
<1> QED BY <1>1, <1>2, CauseInit, TypeCorrect, PTL DEF Spec

-----------------------------------------------------------------------------
(* The gate.                                                                *)

Writing == {"refresh", "gate"}

\* no refresh on its way is given up
KeepsWork == \A v \in Workers : work[v].pc \in Writing =>
  work'[v].pc \in Writing /\ work'[v].hook = work[v].hook
KeepsReq == \A c \in Handlers : req[c].pc \in Writing =>
  req'[c].pc \in Writing /\ req'[c].user = req[c].user

LEMMA KeepMove ==
  ASSUME TypeOK, NEW w \in Workers, work[w].pc \notin Writing, NEW r,
         work' = [work EXCEPT ![w] = r]
  PROVE  KeepsWork
  BY DEF KeepsWork, TypeOK

LEMMA KeepTurn ==
  ASSUME TypeOK, NEW c \in Handlers, req[c].pc \notin Writing, NEW r,
         req' = [req EXCEPT ![c] = r]
  PROVE  KeepsReq
  BY DEF KeepsReq, TypeOK

LEMMA KeepDue ==
  ASSUME KeepsWork, KeepsReq, NEW u, RefreshDue(u)
  PROVE  RefreshDue(u)'
  BY DEF KeepsWork, KeepsReq, RefreshDue, Writing

\* A step that changes neither the table nor the gate, nor gives up a refresh.
LEMMA GateSame ==
  ASSUME GateCurrent, UNCHANGED <<hooks, gate, drift>>, KeepsWork, KeepsReq
  PROVE  GateCurrent'
  BY KeepDue DEF GateCurrent, HasActive

\* A change of the row of h, with its refresh on its way.
LEMMA GateEdit ==
  ASSUME TypeOK, GateCurrent, NEW h \in Hooks, NEW row,
         hooks' = [hooks EXCEPT ![h] = row], UNCHANGED <<gate, drift>>,
         KeepsWork, KeepsReq,
         RefreshDue(Owner[h])' \/ (row.state = "on" <=> hooks[h].state = "on")
  PROVE  GateCurrent'
<1>1. hooks'[h] = row /\ \A g \in Hooks \ {h} : hooks'[g] = hooks[g]
  BY DEF TypeOK
<1> SUFFICES ASSUME NEW u \in Users \ drift
             PROVE  RefreshDue(u)' \/ ((u \in gate) <=> HasActive(u)')
  BY DEF GateCurrent
<1>2. CASE RefreshDue(u)
  BY <1>2, KeepDue
<1>3. CASE u = Owner[h] /\ RefreshDue(Owner[h])'
  BY <1>3
<1>4. CASE ~RefreshDue(u) /\ (u # Owner[h] \/ (row.state = "on" <=> hooks[h].state = "on"))
  <2>1. HasActive(u)' <=> HasActive(u)
    BY <1>1, <1>4 DEF HasActive
  <2> QED BY <1>4, <2>1 DEF GateCurrent
<1> QED BY <1>2, <1>3, <1>4

\* The end of a refresh of u, by SADD, SREM or an error: the other users' stay.
LEMMA GateWritten ==
  ASSUME TypeOK, GateCurrent, hooks' = hooks, NEW u \in Users,
         (\E has : SetGate(u, has)) \/ MissGate(u),
         \A v \in Users \ {u} : RefreshDue(v) => RefreshDue(v)'
  PROVE  GateCurrent'
<1> SUFFICES ASSUME NEW v \in Users \ drift'
             PROVE  RefreshDue(v)' \/ ((v \in gate') <=> HasActive(v)')
  BY DEF GateCurrent
<1>1. HasActive(v)' <=> HasActive(v)
  BY DEF HasActive
<1>2. CASE v = u
  BY <1>1, <1>2 DEF SetGate, MissGate
<1>3. CASE v # u
  <2>1. ((v \in gate') <=> (v \in gate)) /\ v \notin drift
    BY <1>3 DEF SetGate, MissGate
  <2> QED BY <1>1, <1>3, <2>1 DEF GateCurrent
<1> QED BY <1>2, <1>3

\* The whole set replaced.
LEMMA GateReplaced ==
  ASSUME hooks' = hooks, NEW g, ReplaceGate(g)
  PROVE  GateCurrent'
<1>1. \A u \in Users : HasActive(u)' <=> HasActive(u)
  BY DEF HasActive
<1> QED BY <1>1 DEF GateCurrent, ReplaceGate

LEMMA GateWorker ==
  ASSUME TypeOK, GateCurrent, NEW w \in Workers, WorkerStep(w)
  PROVE  GateCurrent'
<1> DEFINE j == work[w]
<1>j. j \in Jobs
  BY DEF TypeOK
<1>r. req' = req => KeepsReq
  BY DEF KeepsReq
<1> USE DEF Goto, At, Writing
<1>1. CASE Take(w)
  BY <1>1, <1>r, KeepMove, GateSame DEF Take
<1>2. CASE Load(w)
  <2>1. work' = [work EXCEPT ![w] = [j EXCEPT !.pc = "next", !.todo = Matches(j.ev)]]
    BY <1>2 DEF Load
  <2> QED BY <1>2, <1>r, <2>1, KeepMove, GateSame DEF Load
<1>3. CASE LoadFails(w)
  BY <1>3, <1>r, KeepMove, GateSame DEF LoadFails
<1>4. CASE DeadLetter(w)
  BY <1>4, <1>r, KeepMove, GateSame DEF DeadLetter
<1>5. CASE Begin(w)
  <2>1. PICK h \in j.todo :
          work' = [work EXCEPT ![w] = [j EXCEPT !.pc = "send", !.todo = @ \ {h},
                                                !.hook = h, !.tries = 1]]
    BY <1>5 DEF Begin
  <2> QED BY <1>5, <1>r, <2>1, KeepMove, GateSame DEF Begin
<1>6. CASE Attempt(w)
  <2>1. KeepsWork
    BY <1>6, KeepMove DEF Attempt
  <2> QED BY <1>6, <1>r, <2>1, GateSame DEF Attempt
<1>7. CASE RecordSuccess(w)
  <2> DEFINE h == j.hook
  <2>1. h \in Hooks
    BY <1>7, <1>j DEF RecordSuccess, Jobs
  <2>2. UNCHANGED <<gate, drift, req>>
    BY <1>7 DEF RecordSuccess
  <2>3. CASE UNCHANGED hooks /\ Goto(w, "next")
    BY <1>7, <1>r, <2>2, <2>3, KeepMove, GateSame DEF RecordSuccess
  <2>4. CASE /\ hooks' = [hooks EXCEPT ![h] = Healed(@)]
             /\ work' = [Overtake(h) EXCEPT ![w].pc = "next"]
    <3>1. KeepsWork
      <4>1. Overtake(h) \in [Workers -> Jobs] /\ j.pc = "won"
        BY <1>7, OvertakeType DEF TypeOK, RecordSuccess
      <4>2. \A v \in Workers \ {w} : work'[v] = Overtake(h)[v]
        BY <2>4, <4>1
      <4>3. \A v \in Workers : work[v].pc \in Writing => Overtake(h)[v] = work[v]
        BY DEF Overtake
      <4> QED BY <4>1, <4>2, <4>3 DEF KeepsWork
    <3>2. Healed(hooks[h]).state = hooks[h].state
      BY <2>1, RowFields DEF TypeOK
    <3> QED BY <1>r, <2>1, <2>2, <2>4, <3>1, <3>2, GateEdit
  <2> QED BY <1>7, <2>3, <2>4 DEF RecordSuccess
<1>8. CASE RecordFailure(w)
  <2> DEFINE h == j.hook
             row == [hooks[h] EXCEPT !.failures = @ + 1]
  <2>1. h \in Hooks
    BY <1>8, <1>j DEF RecordFailure, Jobs
  <2>2. KeepsWork /\ UNCHANGED <<gate, drift, req>>
    BY <1>8, KeepMove DEF RecordFailure
  <2>3. row.state = hooks[h].state
    BY <2>1 DEF TypeOK, Rows
  <2>4. hooks' = hooks \/ hooks' = [hooks EXCEPT ![h] = row]
    BY <1>8 DEF RecordFailure
  <2> HIDE DEF row
  <2> QED BY <1>r, <2>1, <2>2, <2>3, <2>4, GateSame, GateEdit
<1>9. CASE Judge(w)
  <2>1. KeepsWork
    BY <1>9, KeepMove DEF Judge
  <2> QED BY <1>9, <1>r, <2>1, GateSame DEF Judge
<1>10. CASE Disable(w)
  <2> DEFINE r == [j EXCEPT !.pc = "refresh", !.overtaken = FALSE]
  <2>1. PICK h \in Hooks : h = j.hook
    BY <1>10, <1>j DEF Disable, Jobs
  <2>2. work' = [work EXCEPT ![w] = r] /\ j.pc = "disable"
    BY <1>10 DEF Disable
  <2>3. r.pc = "refresh" /\ r.hook = h
    BY <1>j, <2>1 DEF Jobs
  <2> HIDE DEF r
  <2>4. KeepsWork
    BY <2>2, KeepMove
  <2>5. RefreshDue(Owner[h])'
    BY <2>2, <2>3 DEF RefreshDue, TypeOK
  <2>6. KeepsReq /\ gate' = gate /\ drift' = drift
    BY <1>10, <1>r DEF Disable
  <2>7. hooks' = hooks \/ hooks' = [hooks EXCEPT ![h] = [hooks[h] EXCEPT !.state = "off"]]
    BY <1>10, <2>1 DEF Disable
  <2> QED BY <2>4, <2>5, <2>6, <2>7, GateSame, GateEdit
<1>11. CASE RefreshCount(w)
  <2> DEFINE r == [j EXCEPT !.pc = "gate", !.has = HasActive(Owner[j.hook])]
  <2>1. r.pc = "gate" /\ r.hook = j.hook /\ work' = [work EXCEPT ![w] = r]
    BY <1>11, <1>j DEF Jobs, RefreshCount
  <2> HIDE DEF r
  <2>2. KeepsWork
    BY <2>1 DEF KeepsWork, TypeOK
  <2> QED BY <1>11, <1>r, <2>2, GateSame DEF RefreshCount
<1>12. CASE RefreshWrite(w)
  <2> DEFINE u == Owner[j.hook]
  <2>1. u \in Users
    BY <1>12, <1>j, HookAssumption DEF RefreshWrite, Jobs
  <2>2. (\E has : SetGate(u, has)) \/ MissGate(u)
    BY <1>12 DEF RefreshWrite
  <2>3. hooks' = hooks /\ req' = req /\ \A v \in Workers \ {w} : work'[v] = work[v]
    BY <1>12 DEF RefreshWrite, TypeOK
  <2>4. \A x \in Users \ {u} : RefreshDue(x) => RefreshDue(x)'
    BY <2>3 DEF RefreshDue
  <2> QED BY <2>1, <2>2, <2>3, <2>4, GateWritten
<1>13. CASE Finish(w)
  BY <1>13, <1>r, KeepMove, GateSame DEF Finish
<1> QED
  BY <1>1, <1>2, <1>3, <1>4, <1>5, <1>6, <1>7, <1>8, <1>9, <1>10, <1>11, <1>12, <1>13
  DEF WorkerStep

LEMMA GateHandler ==
  ASSUME TypeOK, GateCurrent, NEW c \in Handlers, HandlerStep(c) \/ Request(c)
  PROVE  GateCurrent'
<1> DEFINE q == req[c]
<1>q. q \in Requests
  BY DEF TypeOK
<1>w. work' = work => KeepsWork
  BY DEF KeepsWork
<1>d. ASSUME NEW r, r.pc = "refresh", req' = [req EXCEPT ![c] = r]
      PROVE  RefreshDue(r.user)'
  BY <1>d DEF RefreshDue, TypeOK
<1>e. ASSUME NEW u PROVE /\ [q EXCEPT !.pc = "refresh", !.user = u].pc = "refresh"
                         /\ [q EXCEPT !.pc = "refresh", !.user = u].user = u
  BY <1>q DEF Requests
<1> USE DEF Arrive, Writing
<1>1. CASE CreateCheck(c)
  <2>1. PICK u \in Users : req' = [req EXCEPT ![c] = [q EXCEPT !.pc = "insert", !.user = u]]
    BY <1>1 DEF CreateCheck
  <2> QED BY <1>1, <1>w, <2>1, KeepTurn, GateSame DEF CreateCheck
<1>2. CASE CreateInsert(c)
  <2>1. KeepsWork /\ KeepsReq /\ UNCHANGED <<gate, drift>>
    BY <1>2, <1>w, KeepTurn DEF CreateInsert
  <2>2. CASE hooks' = hooks
    BY <2>1, <2>2, GateSame
  <2>3. CASE hooks' # hooks
    <3>1. PICK h \in Hooks, acts \in SUBSET Actions, st \in {"on", "off"} :
            /\ Owner[h] = q.user
            /\ hooks[h].state = "none"
            /\ hooks' = [hooks EXCEPT ![h] = [state |-> st, events |-> acts, failures |-> 0]]
            /\ req' = [req EXCEPT ![c] =
                         IF st = "on" THEN [q EXCEPT !.pc = "refresh"] ELSE Free]
      BY <1>2, <2>3 DEF CreateInsert
    <3> DEFINE row == [state |-> st, events |-> acts, failures |-> 0]
    <3>2. hooks' = [hooks EXCEPT ![h] = row] /\ row.state = st
      BY <3>1
    <3>3. st = "on" => RefreshDue(Owner[h])'
      <4> DEFINE r == [q EXCEPT !.pc = "refresh"]
      <4>1. r.pc = "refresh" /\ r.user = q.user
        BY <1>q DEF Requests
      <4> HIDE DEF r
      <4>2. st = "on" => req' = [req EXCEPT ![c] = r]
        BY <3>1 DEF r
      <4> QED BY <1>d, <3>1, <4>1, <4>2
    <3> HIDE DEF row
    <3> QED BY <2>1, <3>1, <3>2, <3>3, GateEdit
  <2> QED BY <2>2, <2>3
<1>3. CASE Update(c)
  <2>1. PICK h \in Hooks, acts \in (SUBSET Actions) \ {{}}, st \in {"on", "off", "kept"} :
          /\ hooks' = [hooks EXCEPT ![h] = Edited(@, st, acts)]
          /\ work' = IF st = "on" THEN Overtake(h) ELSE work
          /\ req' = [req EXCEPT ![c].pc = "refresh", ![c].user = Owner[h]]
    BY <1>3 DEF Update
  <2>r. req' = [req EXCEPT ![c] = [q EXCEPT !.pc = "refresh", !.user = Owner[h]]]
    BY <2>1
  <2>2. KeepsWork
    <3>1. \A v \in Workers : work[v].pc \in Writing => Overtake(h)[v] = work[v]
      BY DEF Overtake
    <3> QED BY <2>1, <3>1 DEF KeepsWork
  <2>3. KeepsReq /\ UNCHANGED <<gate, drift>>
    BY <1>3, <2>r, KeepTurn DEF Update
  <2>4. RefreshDue(Owner[h])'
    BY <1>d, <1>e, <2>r
  <2> QED BY <2>1, <2>2, <2>3, <2>4, GateEdit
<1>4. CASE Delete(c)
  <2>1. PICK h \in Hooks :
          /\ hooks' = [hooks EXCEPT ![h].state = "deleted"]
          /\ req' = [req EXCEPT ![c].pc = "refresh", ![c].user = Owner[h]]
    BY <1>4 DEF Delete
  <2>r. req' = [req EXCEPT ![c] = [q EXCEPT !.pc = "refresh", !.user = Owner[h]]]
    BY <2>1
  <2>2. KeepsWork /\ KeepsReq /\ UNCHANGED <<gate, drift>>
    BY <1>4, <1>w, <2>r, KeepTurn DEF Delete
  <2>3. RefreshDue(Owner[h])'
    BY <1>d, <1>e, <2>r
  <2> QED BY <2>1, <2>2, <2>3, GateEdit
<1>5. CASE EditCount(c)
  <2> DEFINE r == [q EXCEPT !.pc = "gate", !.has = HasActive(q.user)]
  <2>1. r.pc = "gate" /\ r.user = q.user /\ req' = [req EXCEPT ![c] = r]
    BY <1>5, <1>q DEF Requests, EditCount
  <2> HIDE DEF r
  <2>2. KeepsReq
    BY <2>1 DEF KeepsReq, TypeOK
  <2> QED BY <1>5, <1>w, <2>2, GateSame DEF EditCount
<1>6. CASE EditWrite(c)
  <2>1. q.user \in Users
    BY <1>6, <1>q DEF EditWrite, Requests
  <2>2. (\E has : SetGate(q.user, has)) \/ MissGate(q.user)
    BY <1>6 DEF EditWrite
  <2>3. hooks' = hooks /\ work' = work /\ \A d \in Handlers \ {c} : req'[d] = req[d]
    BY <1>6 DEF EditWrite, TypeOK
  <2>4. \A x \in Users \ {q.user} : RefreshDue(x) => RefreshDue(x)'
    BY <2>3 DEF RefreshDue
  <2> QED BY <2>1, <2>2, <2>3, <2>4, GateWritten
<1>7. CASE RetryPop(c)
  <2>1. PICK r : req' = [req EXCEPT ![c] = r]
    <3>1. CASE failed = <<>>
      BY <1>7, <3>1 DEF RetryPop
    <3>2. CASE failed # <<>>
      <4>1. req' = [req EXCEPT ![c] = [q EXCEPT !.pc = "repush", !.ev = Head(failed)]]
        BY <1>7, <3>2 DEF RetryPop
      <4> QED BY <4>1
    <3> QED BY <3>1, <3>2
  <2>2. q.pc \notin Writing
    BY <1>7 DEF RetryPop
  <2> QED BY <1>7, <1>w, <2>1, <2>2, KeepTurn, GateSame DEF RetryPop
<1>8. CASE RetryPush(c)
  <2>1. KeepsReq
    BY <1>8, KeepTurn DEF RetryPush
  <2> QED BY <1>8, <1>w, <2>1, GateSame DEF RetryPush
<1>9. CASE Clear(c)
  BY <1>9, <1>w, GateSame DEF Clear, KeepsReq
<1> QED
  BY <1>1, <1>2, <1>3, <1>4, <1>5, <1>6, <1>7, <1>8, <1>9 DEF HandlerStep, Request

LEMMA GateOther ==
  ASSUME TypeOK, GateCurrent, Other
  PROVE  GateCurrent'
<1>1. CASE RebuildSwap
  BY <1>1, GateReplaced DEF RebuildSwap
<1>2. CASE Restart
  BY <1>2, GateReplaced DEF Restart
<1>3. CASE RedisLost
  BY <1>3, GateReplaced DEF RedisLost
<1>4. UNCHANGED <<work, req>> => KeepsWork /\ KeepsReq
  BY DEF KeepsWork, KeepsReq
<1> QED
  BY <1>1, <1>2, <1>3, <1>4, GateSame DEF Other, Emit, RebuildRead, RebuildFails

\* wh:users is right for every user whose last refresh was neither overtaken nor
\* failed, or has one on its way: no edit and no automatic disabling forgets its
\* refresh, for any number of users, handlers and workers.
THEOREM GateCorrect == Spec => []GateCurrent
<1>1. Init => GateCurrent
  BY DEF Init, GateCurrent, ActiveUsers
<1>2. TypeOK /\ GateCurrent /\ [Next]_vars => GateCurrent'
  <2> SUFFICES ASSUME TypeOK, GateCurrent, [Next]_vars PROVE GateCurrent'
    OBVIOUS
  <2>1. CASE Next
    BY <2>1, GateWorker, GateHandler, GateOther DEF Next, Other
  <2>2. CASE UNCHANGED vars
    <3>1. KeepsWork /\ KeepsReq
      BY <2>2 DEF vars, KeepsWork, KeepsReq
    <3> QED BY <2>2, <3>1, GateSame DEF vars
  <2> QED BY <2>1, <2>2
<1> QED BY <1>1, <1>2, TypeCorrect, PTL DEF Spec

-----------------------------------------------------------------------------
(* One place for each event.                                                *)

\* The events of the jobs in the workers' hands, and of those being retried
Busy == {work[w].ev : w \in Workers} \ {Nil}
Retried == {req[c].ev : c \in Handlers} \ {Nil}

Kinds == {"queue", "failed", "work", "req", "done", "lost"}
Place(k) ==
  CASE k = "queue" -> Members(queue)
    [] k = "failed" -> Members(failed)
    [] k = "work" -> Busy
    [] k = "req" -> Retried
    [] k = "done" -> done
    [] k = "lost" -> lost

\* an event is in one kind of place, if it was queued at all ...
Apart == \A k, l \in Kinds : k # l => Place(k) \cap Place(l) = {}
Somewhere == emitted = UNION {Place(k) : k \in Kinds}

\* ... and there once: one position of a list, one worker, one handler
Distinct(s) == \A i, j \in DOMAIN s : s[i] = s[j] => i = j
OneWorker == \A v, w \in Workers : work[v].ev = work[w].ev => v = w \/ work[v].ev = Nil
OneHandler == \A c, d \in Handlers : req[c].ev = req[d].ev => c = d \/ req[c].ev = Nil

\* nobody holds an event that is not at work on it
HandsEmpty ==
  /\ \A w \in Workers : work[w].pc = "idle" => work[w].ev = Nil
  /\ \A c \in Handlers : req[c].pc # "repush" => req[c].ev = Nil

Once == /\ Distinct(queue) /\ Distinct(failed)
        /\ OneWorker /\ OneHandler /\ HandsEmpty

PlaceInv == Apart /\ Somewhere /\ Once

\* What the lists hold after LPUSH and RPOP.
LEMMA Appended ==
  ASSUME NEW s \in Seq(Events), NEW e \in Events
  PROVE  /\ Members(Append(s, e)) = Members(s) \cup {e}
         /\ Distinct(s) /\ e \notin Members(s) => Distinct(Append(s, e))
<1> DEFINE t == Append(s, e)
<1>1. /\ DOMAIN s = 1..Len(s) /\ Len(s) \in Nat
      /\ DOMAIN t = 1..(Len(s) + 1)
      /\ \A i \in 1..Len(s) : t[i] = s[i]
      /\ t[Len(s) + 1] = e
  OBVIOUS
<1> HIDE DEF t
<1>2. \A i \in DOMAIN t : i \in DOMAIN s \/ i = Len(s) + 1
  BY <1>1
<1>3. DOMAIN s \subseteq DOMAIN t /\ Len(s) + 1 \in DOMAIN t
  BY <1>1
<1>4. Members(t) = Members(s) \cup {e}
  BY <1>1, <1>2, <1>3 DEF Members
<1>5. ASSUME Distinct(s), e \notin Members(s) PROVE Distinct(t)
  <2>1. \A i \in DOMAIN s : t[i] \in Members(s)
    BY <1>1 DEF Members
  <2> QED BY <1>1, <1>2, <1>5, <2>1 DEF Distinct
<1> QED BY <1>4, <1>5 DEF t

LEMMA Popped ==
  ASSUME NEW s \in Seq(Events), s # <<>>, Distinct(s)
  PROVE  /\ Head(s) \in Members(s) /\ Head(s) \in Events
         /\ Members(Tail(s)) = Members(s) \ {Head(s)}
         /\ Distinct(Tail(s))
<1> DEFINE t == Tail(s)
           e == Head(s)
<1>1. /\ DOMAIN s = 1..Len(s) /\ Len(s) \in Nat \ {0}
      /\ DOMAIN t = 1..(Len(s) - 1)
      /\ \A i \in 1..(Len(s) - 1) : t[i] = s[i + 1]
      /\ e = s[1] /\ e \in Events
  OBVIOUS
<1> HIDE DEF t, e
<1>2. 1 \in DOMAIN s /\ \A i \in DOMAIN t : i + 1 \in DOMAIN s /\ i + 1 # 1
  BY <1>1
<1>3. \A i \in DOMAIN s : i # 1 => i - 1 \in DOMAIN t /\ t[i - 1] = s[i]
  BY <1>1
<1>4. e \in Members(s)
  BY <1>1, <1>2 DEF Members
<1>5. Members(t) \subseteq Members(s) \ {e}
  <2> SUFFICES ASSUME NEW i \in DOMAIN t PROVE t[i] \in Members(s) \ {e}
    BY DEF Members
  <2>1. t[i] = s[i + 1] /\ i + 1 \in DOMAIN s /\ i + 1 # 1
    BY <1>1, <1>2
  <2>2. s[i + 1] # s[1]
    BY <1>2, <2>1 DEF Distinct
  <2>3. s[i + 1] \in Members(s)
    BY <2>1 DEF Members
  <2> QED BY <1>1, <2>1, <2>2, <2>3
<1>6. Members(s) \ {e} \subseteq Members(t)
  <2> SUFFICES ASSUME NEW i \in DOMAIN s, s[i] # e PROVE s[i] \in Members(t)
    BY DEF Members
  <2>1. i # 1
    BY <1>1
  <2> QED BY <1>3, <2>1 DEF Members
<1>7. Distinct(t)
  <2> SUFFICES ASSUME NEW i \in DOMAIN t, NEW j \in DOMAIN t, t[i] = t[j] PROVE i = j
    BY DEF Distinct
  <2>1. t[i] = s[i + 1] /\ t[j] = s[j + 1]
    BY <1>1
  <2>2. i + 1 = j + 1
    BY <1>2, <2>1 DEF Distinct
  <2> QED BY <1>1, <2>2
<1> QED BY <1>1, <1>4, <1>5, <1>6, <1>7 DEF t, e

LEMMA Emptied == Members(<<>>) = {} /\ Distinct(<<>>)
  BY DEF Members, Distinct

\* What the workers and the handlers hold after one of them has moved.
LEMMA WorkPut ==
  ASSUME TypeOK, OneWorker, NEW w \in Workers, NEW r \in Jobs,
         work' = [work EXCEPT ![w] = r],
         r.ev = Nil \/ r.ev = work[w].ev \/ r.ev \notin Busy
  PROVE  /\ Busy' = (Busy \ {work[w].ev}) \cup ({r.ev} \ {Nil})
         /\ OneWorker'
<1>1. work'[w] = r /\ \A v \in Workers \ {w} : work'[v] = work[v]
  BY DEF TypeOK
<1>2. \A v \in Workers \ {w} : work[v].ev = work[w].ev => work[v].ev = Nil
  BY DEF OneWorker
<1>3. Busy' = (Busy \ {work[w].ev}) \cup ({r.ev} \ {Nil})
  BY <1>1, <1>2 DEF Busy
<1>4. \A v \in Workers \ {w} : work[v].ev # Nil => work[v].ev \in Busy
  BY DEF Busy
<1>5. \A v \in Workers \ {w} : work[v].ev = r.ev => r.ev = Nil
  BY <1>2, <1>4
<1>6. OneWorker'
  BY <1>1, <1>5 DEF OneWorker
<1> QED BY <1>3, <1>6

LEMMA ReqPut ==
  ASSUME TypeOK, OneHandler, NEW c \in Handlers, NEW r \in Requests,
         req' = [req EXCEPT ![c] = r],
         r.ev = Nil \/ r.ev = req[c].ev \/ r.ev \notin Retried
  PROVE  /\ Retried' = (Retried \ {req[c].ev}) \cup ({r.ev} \ {Nil})
         /\ OneHandler'
<1>1. req'[c] = r /\ \A d \in Handlers \ {c} : req'[d] = req[d]
  BY DEF TypeOK
<1>2. \A d \in Handlers \ {c} : req[d].ev = req[c].ev => req[d].ev = Nil
  BY DEF OneHandler
<1>3. Retried' = (Retried \ {req[c].ev}) \cup ({r.ev} \ {Nil})
  BY <1>1, <1>2 DEF Retried
<1>4. \A d \in Handlers \ {c} : req[d].ev # Nil => req[d].ev \in Retried
  BY DEF Retried
<1>5. \A d \in Handlers \ {c} : req[d].ev = r.ev => r.ev = Nil
  BY <1>2, <1>4
<1>6. OneHandler'
  BY <1>1, <1>5 DEF OneHandler
<1> QED BY <1>3, <1>6

\* The events of S go to one place, from wherever they were.
LEMMA Moved ==
  ASSUME Apart, Somewhere, NEW l \in Kinds, NEW S,
         emitted' = emitted \cup S,
         Place(l)' = Place(l) \cup S,
         \A m \in Kinds \ {l} : Place(m)' = Place(m) \ S
  PROVE  Apart' /\ Somewhere'
<1>1. Apart'
  <2> SUFFICES ASSUME NEW a \in Kinds, NEW b \in Kinds, a # b
               PROVE  Place(a)' \cap Place(b)' = {}
    BY DEF Apart
  <2>1. Place(a) \cap Place(b) = {}
    BY DEF Apart
  <2> QED BY <2>1
<1>2. Somewhere'
  <2>1. (UNION {Place(k) : k \in Kinds})' = UNION {Place(k)' : k \in Kinds}
    OBVIOUS
  <2>2. emitted \cup S \subseteq UNION {Place(k)' : k \in Kinds}
    <3> SUFFICES ASSUME NEW e \in emitted \cup S PROVE \E k \in Kinds : e \in Place(k)'
      OBVIOUS
    <3>1. CASE e \in S
      BY <3>1
    <3>2. CASE e \notin S
      <4>1. PICK k \in Kinds : e \in Place(k)
        BY <3>2 DEF Somewhere
      <4> QED BY <3>2, <4>1
    <3> QED BY <3>1, <3>2
  <2>3. UNION {Place(k)' : k \in Kinds} \subseteq emitted \cup S
    <3> SUFFICES ASSUME NEW k \in Kinds, NEW e \in Place(k)' PROVE e \in emitted \cup S
      OBVIOUS
    <3>1. e \in Place(k) \/ e \in S
      OBVIOUS
    <3> QED BY <3>1 DEF Somewhere
  <2> QED BY <2>1, <2>2, <2>3 DEF Somewhere
<1> QED BY <1>1, <1>2

\* One event goes from one place to another.
LEMMA MovedOne ==
  ASSUME Apart, Somewhere, NEW k \in Kinds, NEW l \in Kinds, k # l, NEW e \in Place(k),
         emitted' = emitted,
         Place(k)' = Place(k) \ {e},
         Place(l)' = Place(l) \cup {e},
         \A m \in Kinds \ {k, l} : Place(m)' = Place(m)
  PROVE  Apart' /\ Somewhere'
<1>1. \A m \in Kinds \ {l} : Place(m)' = Place(m) \ {e}
  <2> SUFFICES ASSUME NEW m \in Kinds \ {l, k} PROVE Place(m)' = Place(m) \ {e}
    OBVIOUS
  <2>1. e \notin Place(m)
    BY DEF Apart
  <2> QED BY <2>1
<1>2. emitted' = emitted \cup {e}
  BY DEF Somewhere
<1> DEFINE S == {e}
<1>3. /\ emitted' = emitted \cup S /\ Place(l)' = Place(l) \cup S
      /\ \A m \in Kinds \ {l} : Place(m)' = Place(m) \ S
  BY <1>1, <1>2
<1> HIDE DEF S
<1> QED BY <1>3, Moved

\* A step that moves no event.
LEMMA PlaceSame ==
  ASSUME Apart, Somewhere, UNCHANGED <<queue, failed, emitted, done, lost>>,
         Busy' = Busy, Retried' = Retried
  PROVE  Apart' /\ Somewhere'
<1>1. \A k \in Kinds : Place(k)' = Place(k)
  BY DEF Place, Kinds
<1> QED BY <1>1 DEF Apart, Somewhere

\* Worker w goes on with the same event.
LEMMA PlaceWork ==
  ASSUME TypeOK, PlaceInv, NEW w \in Workers, NEW r \in Jobs,
         work' = [work EXCEPT ![w] = r], r.ev = work[w].ev,
         work[w].pc # "idle", r.pc # "idle",
         UNCHANGED <<queue, failed, req, emitted, done, lost>>
  PROVE  PlaceInv'
<1>1. Busy' = Busy /\ OneWorker'
  <2>1. Busy' = (Busy \ {work[w].ev}) \cup ({r.ev} \ {Nil}) /\ OneWorker'
    BY WorkPut DEF PlaceInv, Once
  <2>2. work[w].ev # Nil => work[w].ev \in Busy
    BY DEF Busy
  <2> QED BY <2>1, <2>2 DEF Busy
<1>2. Apart' /\ Somewhere'
  BY <1>1, PlaceSame DEF PlaceInv, Retried
<1>3. HandsEmpty'
  <2>1. work'[w] = r /\ \A v \in Workers \ {w} : work'[v] = work[v]
    BY DEF TypeOK
  <2> QED BY <2>1 DEF HandsEmpty, PlaceInv, Once
<1>4. Distinct(queue)' /\ Distinct(failed)' /\ OneHandler'
  BY DEF PlaceInv, Once, OneHandler
<1> QED BY <1>1, <1>2, <1>3, <1>4 DEF PlaceInv, Once

\* Handler c goes on with no event.
LEMMA PlaceReq ==
  ASSUME TypeOK, PlaceInv, NEW c \in Handlers, NEW r \in Requests,
         req' = [req EXCEPT ![c] = r], r.ev = Nil, req[c].ev = Nil,
         Busy' = Busy, OneWorker', \A w \in Workers : work'[w].pc = "idle" => work'[w].ev = Nil,
         UNCHANGED <<queue, failed, emitted, done, lost>>
  PROVE  PlaceInv'
<1>1. Retried' = Retried /\ OneHandler'
  <2>1. Retried' = (Retried \ {req[c].ev}) \cup ({r.ev} \ {Nil}) /\ OneHandler'
    BY ReqPut DEF PlaceInv, Once
  <2> QED BY <2>1 DEF Retried
<1>2. Apart' /\ Somewhere'
  BY <1>1, PlaceSame DEF PlaceInv
<1>3. HandsEmpty'
  <2>1. req'[c] = r /\ \A d \in Handlers \ {c} : req'[d] = req[d]
    BY DEF TypeOK
  <2> QED BY <2>1 DEF HandsEmpty, PlaceInv, Once
<1>4. Distinct(queue)' /\ Distinct(failed)'
  BY DEF PlaceInv, Once
<1> QED BY <1>1, <1>2, <1>3, <1>4 DEF PlaceInv, Once

\* A worker gives its event to another place and is idle.
LEMMA PlaceDrop ==
  ASSUME TypeOK, PlaceInv, NEW w \in Workers, work[w].ev \in Events,
         work' = [work EXCEPT ![w] = Idle]
  PROVE  /\ Busy' = Busy \ {work[w].ev} /\ work[w].ev \in Busy
         /\ OneWorker'
         /\ \A v \in Workers : work'[v].pc = "idle" => work'[v].ev = Nil
<1>1. Idle \in Jobs /\ Idle.ev = Nil
  BY FreshRecords DEF Idle
<1>2. Busy' = Busy \ {work[w].ev} /\ OneWorker'
  BY <1>1, WorkPut DEF PlaceInv, Once
<1>3. work[w].ev \in Busy
  BY HookAssumption DEF Busy
<1>4. work'[w] = Idle /\ \A v \in Workers \ {w} : work'[v] = work[v]
  BY DEF TypeOK
<1>5. \A v \in Workers : work'[v].pc = "idle" => work'[v].ev = Nil
  BY <1>1, <1>4 DEF PlaceInv, Once, HandsEmpty
<1> QED BY <1>2, <1>3, <1>5

LEMMA PlaceInit == Init => PlaceInv
<1> SUFFICES ASSUME Init PROVE PlaceInv
  OBVIOUS
<1>1. Busy = {} /\ Retried = {}
  BY DEF Init, Busy, Retried, Idle, Free
<1>2. \A k \in Kinds : Place(k) = {}
  BY <1>1, Emptied DEF Kinds, Place, Init
<1>3. Apart /\ Somewhere
  BY <1>2 DEF Apart, Somewhere, Init
<1>4. Once
  BY Emptied DEF Init, Once, OneWorker, OneHandler, HandsEmpty, Idle, Free
<1> QED BY <1>3, <1>4 DEF PlaceInv

LEMMA PlaceTake ==
  ASSUME TypeOK, PlaceInv, NEW w \in Workers, Take(w)
  PROVE  PlaceInv'
<1> DEFINE e == Head(queue)
           r == [Idle EXCEPT !.pc = "load", !.ev = e]
<1>1. /\ queue # <<>> /\ queue' = Tail(queue) /\ work' = [work EXCEPT ![w] = r]
      /\ work[w].pc = "idle" /\ UNCHANGED <<failed, req, emitted, done, lost>>
  BY DEF Take, At, history
<1>2. /\ e \in Place("queue") /\ e \in Events
      /\ Place("queue")' = Place("queue") \ {e} /\ Distinct(queue)'
  BY <1>1, Popped DEF TypeOK, PlaceInv, Once, Place
<1>3. r \in Jobs /\ r.ev = e /\ r.pc = "load"
  BY <1>2 DEF Idle, Jobs
<1>4. e \notin Busy /\ e # Nil /\ work[w].ev = Nil
  <2>1. Place("queue") \cap Place("work") = {}
    BY DEF PlaceInv, Apart, Kinds
  <2>2. Place("work") = Busy
    BY DEF Place
  <2> QED BY <1>1, <1>2, <2>1, <2>2, HookAssumption DEF PlaceInv, Once, HandsEmpty
<1> HIDE DEF e, r
<1>5. Busy' = Busy \cup {e} /\ OneWorker'
  <2>1. Busy' = (Busy \ {work[w].ev}) \cup ({r.ev} \ {Nil}) /\ OneWorker'
    BY <1>1, <1>3, <1>4, WorkPut DEF PlaceInv, Once
  <2> QED BY <1>3, <1>4, <2>1 DEF Busy
<1>6. Apart' /\ Somewhere'
  <2>1. Place("work")' = Place("work") \cup {e}
    BY <1>5 DEF Place
  <2>2. \A m \in Kinds \ {"queue", "work"} : Place(m)' = Place(m)
    BY <1>1 DEF Kinds, Place, Retried
  <2>3. "queue" \in Kinds /\ "work" \in Kinds
    BY DEF Kinds
  <2> QED BY <1>1, <1>2, <2>1, <2>2, <2>3, MovedOne DEF PlaceInv
<1>7. HandsEmpty'
  <2>1. work'[w] = r /\ \A v \in Workers \ {w} : work'[v] = work[v]
    BY <1>1 DEF TypeOK
  <2> QED BY <1>1, <1>3, <2>1 DEF HandsEmpty, PlaceInv, Once
<1> QED BY <1>1, <1>2, <1>5, <1>6, <1>7 DEF PlaceInv, Once, OneHandler

LEMMA PlaceDead ==
  ASSUME TypeOK, PlaceInv, NEW w \in Workers, DeadLetter(w)
  PROVE  PlaceInv'
<1> DEFINE e == work[w].ev
<1>1. /\ e \in Events /\ work' = [work EXCEPT ![w] = Idle]
      /\ UNCHANGED <<queue, req, emitted, done>>
      /\ \/ failed' = Append(failed, e) /\ lost' = lost
         \/ lost' = lost \cup {e} /\ failed' = failed
  BY DEF DeadLetter, At, TypeOK, Jobs
<1>2. /\ Busy' = Busy \ {e} /\ e \in Busy /\ OneWorker'
      /\ \A v \in Workers : work'[v].pc = "idle" => work'[v].ev = Nil
  BY <1>1, PlaceDrop
<1>3. e \notin Members(failed)
  <2>1. Place("failed") \cap Place("work") = {}
    BY DEF PlaceInv, Apart, Kinds
  <2> QED BY <1>2, <2>1 DEF Place
<1> HIDE DEF e
<1>4. e \in Place("work") /\ Place("work")' = Place("work") \ {e}
  BY <1>2 DEF Place
<1>5. {"work", "failed", "lost"} \subseteq Kinds
  BY DEF Kinds
<1>6. CASE failed' = Append(failed, e) /\ lost' = lost
  <2>1. Members(failed)' = Members(failed) \cup {e} /\ Distinct(failed)'
    BY <1>1, <1>3, <1>6, Appended DEF TypeOK, PlaceInv, Once
  <2>2. Place("failed")' = Place("failed") \cup {e}
    BY <2>1 DEF Place
  <2>3. \A m \in Kinds \ {"work", "failed"} : Place(m)' = Place(m)
    BY <1>1, <1>6 DEF Kinds, Place, Retried
  <2>4. Apart' /\ Somewhere'
    BY <1>1, <1>4, <1>5, <2>2, <2>3, MovedOne DEF PlaceInv
  <2> QED BY <1>1, <1>2, <2>1, <2>4 DEF PlaceInv, Once, OneHandler, HandsEmpty
<1>7. CASE lost' = lost \cup {e} /\ failed' = failed
  <2>1. Place("lost")' = Place("lost") \cup {e}
    BY <1>7 DEF Place
  <2>2. \A m \in Kinds \ {"work", "lost"} : Place(m)' = Place(m)
    BY <1>1, <1>7 DEF Kinds, Place, Retried
  <2>3. Apart' /\ Somewhere'
    BY <1>1, <1>4, <1>5, <2>1, <2>2, MovedOne DEF PlaceInv
  <2> QED BY <1>1, <1>2, <1>7, <2>3 DEF PlaceInv, Once, OneHandler, HandsEmpty
<1> QED BY <1>1, <1>6, <1>7

LEMMA PlaceFinish ==
  ASSUME TypeOK, PlaceInv, NEW w \in Workers, Finish(w)
  PROVE  PlaceInv'
<1> DEFINE e == work[w].ev
<1>1. /\ e \in Events /\ work' = [work EXCEPT ![w] = Idle]
      /\ UNCHANGED <<queue, failed, req, emitted, lost>> /\ done' = done \cup {e}
  BY DEF Finish, At, TypeOK, Jobs
<1>2. /\ Busy' = Busy \ {e} /\ e \in Busy /\ OneWorker'
      /\ \A v \in Workers : work'[v].pc = "idle" => work'[v].ev = Nil
  BY <1>1, PlaceDrop
<1> HIDE DEF e
<1>3. /\ e \in Place("work") /\ Place("work")' = Place("work") \ {e}
      /\ Place("done")' = Place("done") \cup {e}
  BY <1>1, <1>2 DEF Place
<1>4. \A m \in Kinds \ {"work", "done"} : Place(m)' = Place(m)
  BY <1>1 DEF Kinds, Place, Retried
<1>5. {"work", "done"} \subseteq Kinds
  BY DEF Kinds
<1>6. Apart' /\ Somewhere'
  BY <1>1, <1>3, <1>4, <1>5, MovedOne DEF PlaceInv
<1> QED BY <1>1, <1>2, <1>6 DEF PlaceInv, Once, OneHandler, HandsEmpty

\* No worker takes or drops a job, or a hook of its job.
Early == {"load", "failed"}
KeepsJobs == \A v \in Workers :
  /\ work'[v].ev = work[v].ev /\ work'[v].todo = work[v].todo
  /\ (work'[v].pc = "idle") <=> (work[v].pc = "idle")
  /\ (work'[v].pc \in Early) <=> (work[v].pc \in Early)

LEMMA JobPut ==
  ASSUME TypeOK, NEW w \in Workers, NEW r, work' = [work EXCEPT ![w] = r],
         r.ev = work[w].ev, r.todo = work[w].todo,
         (r.pc = "idle") <=> (work[w].pc = "idle"),
         (r.pc \in Early) <=> (work[w].pc \in Early)
  PROVE  KeepsJobs
  BY DEF KeepsJobs, TypeOK

LEMMA OvertakeKeeps ==
  ASSUME work \in [Workers -> Jobs], NEW h
  PROVE  \A v \in Workers :
           /\ Overtake(h)[v].ev = work[v].ev /\ Overtake(h)[v].todo = work[v].todo
           /\ Overtake(h)[v].pc = work[v].pc
  BY DEF Overtake, Jobs

\* The steps of a delivery, and a job that cannot be loaded.
Delivery(w) ==
  \/ LoadFails(w) \/ Attempt(w) \/ RecordSuccess(w) \/ RecordFailure(w) \/ Judge(w)
  \/ Disable(w) \/ RefreshCount(w) \/ RefreshWrite(w)

LEMMA JobsKept ==
  ASSUME TypeOK, NEW w \in Workers, Delivery(w)
  PROVE  /\ KeepsJobs
         /\ UNCHANGED <<queue, failed, req, emitted, done, lost, tried>>
<1> DEFINE j == work[w]
<1>j. j \in Jobs
  BY DEF TypeOK
<1>1. ASSUME NEW pc \in {"failed"}, j.pc = "load", Goto(w, pc) PROVE KeepsJobs
  <2> DEFINE r == [j EXCEPT !.pc = pc]
  <2>1. r.ev = j.ev /\ r.todo = j.todo /\ r.pc = pc
    BY <1>j DEF Jobs
  <2>2. work' = [work EXCEPT ![w] = r]
    BY <1>1 DEF Goto
  <2> HIDE DEF r
  <2> QED BY <1>1, <2>1, <2>2, JobPut DEF Early
<1>2. ASSUME NEW pc, pc \notin {"idle", "load", "failed"},
             j.pc \notin {"idle", "load", "failed"}, Goto(w, pc)
      PROVE  KeepsJobs
  <2> DEFINE r == [j EXCEPT !.pc = pc]
  <2>1. r.ev = j.ev /\ r.todo = j.todo /\ r.pc = pc
    BY <1>j DEF Jobs
  <2>2. work' = [work EXCEPT ![w] = r]
    BY <1>2 DEF Goto
  <2> HIDE DEF r
  <2> QED BY <1>2, <2>1, <2>2, JobPut DEF Early
<1> USE DEF At, history
<1>3. CASE LoadFails(w)
  BY <1>1, <1>3 DEF LoadFails
<1>4. CASE Attempt(w)
  <2>1. CASE work' = [work EXCEPT ![w].tries = @ + 1]
    <3> DEFINE r == [j EXCEPT !.tries = @ + 1]
    <3>1. r.ev = j.ev /\ r.todo = j.todo /\ r.pc = j.pc
      BY <1>j DEF Jobs
    <3>2. work' = [work EXCEPT ![w] = r]
      BY <2>1
    <3> HIDE DEF r
    <3>3. KeepsJobs
      BY <3>1, <3>2, JobPut
    <3> QED BY <1>4, <3>3 DEF Attempt
  <2>2. CASE Goto(w, "won") \/ Goto(w, "lost")
    <3>1. KeepsJobs
      BY <1>2, <1>4, <2>2 DEF Attempt
    <3> QED BY <1>4, <3>1 DEF Attempt
  <2> QED BY <1>4, <2>1, <2>2 DEF Attempt
<1>5. CASE RecordSuccess(w)
  <2> DEFINE h == j.hook
  <2>1. CASE Goto(w, "next")
    <3>1. KeepsJobs
      BY <1>2, <1>5, <2>1 DEF RecordSuccess
    <3> QED BY <1>5, <3>1 DEF RecordSuccess
  <2>2. CASE work' = [Overtake(h) EXCEPT ![w].pc = "next"]
    <3>1. Overtake(h) \in [Workers -> Jobs]
      BY OvertakeType DEF TypeOK
    <3>2. \A v \in Workers \ {w} : work'[v] = Overtake(h)[v]
      BY <2>2, <3>1
    <3>3. /\ work'[w].ev = Overtake(h)[w].ev /\ work'[w].todo = Overtake(h)[w].todo
          /\ work'[w].pc = "next"
      BY <2>2, <3>1 DEF Jobs
    <3>4. work[w].pc = "won"
      BY <1>5 DEF RecordSuccess
    <3>5. KeepsJobs
      <4>1. \A v \in Workers :
              /\ Overtake(h)[v].ev = work[v].ev /\ Overtake(h)[v].todo = work[v].todo
              /\ Overtake(h)[v].pc = work[v].pc
        BY OvertakeKeeps DEF TypeOK
      <4> QED BY <3>2, <3>3, <3>4, <4>1 DEF KeepsJobs, Early
    <3> QED BY <1>5, <3>5 DEF RecordSuccess
  <2> QED BY <1>5, <2>1, <2>2 DEF RecordSuccess
<1>6. CASE RecordFailure(w)
  <2>1. KeepsJobs
    BY <1>2, <1>6 DEF RecordFailure, AfterFailure
  <2> QED BY <1>6, <2>1 DEF RecordFailure
<1>7. CASE Judge(w)
  <2>1. KeepsJobs
    BY <1>2, <1>7 DEF Judge
  <2> QED BY <1>7, <2>1 DEF Judge
<1>8. CASE Disable(w)
  <2> DEFINE r == [j EXCEPT !.pc = "refresh", !.overtaken = FALSE]
  <2>1. r.ev = j.ev /\ r.todo = j.todo /\ r.pc = "refresh"
    BY <1>j DEF Jobs
  <2>2. work' = [work EXCEPT ![w] = r] /\ j.pc = "disable"
    BY <1>8 DEF Disable
  <2> HIDE DEF r
  <2>3. KeepsJobs
    BY <2>1, <2>2, JobPut DEF Early
  <2> QED BY <1>8, <2>3 DEF Disable
<1>9. CASE RefreshCount(w)
  <2> DEFINE r == [j EXCEPT !.pc = "gate", !.has = HasActive(Owner[j.hook])]
  <2>1. r.ev = j.ev /\ r.todo = j.todo /\ r.pc = "gate"
    BY <1>j DEF Jobs
  <2>2. work' = [work EXCEPT ![w] = r] /\ j.pc = "refresh"
    BY <1>9 DEF RefreshCount
  <2> HIDE DEF r
  <2>3. KeepsJobs
    BY <2>1, <2>2, JobPut DEF Early
  <2> QED BY <1>9, <2>3 DEF RefreshCount
<1>10. CASE RefreshWrite(w)
  <2> DEFINE r == [j EXCEPT !.pc = "next", !.has = FALSE]
  <2>1. r.ev = j.ev /\ r.todo = j.todo /\ r.pc = "next"
    BY <1>j DEF Jobs
  <2>2. work' = [work EXCEPT ![w] = r] /\ j.pc \in {"refresh", "gate"}
    BY <1>10 DEF RefreshWrite
  <2> HIDE DEF r
  <2>3. KeepsJobs
    BY <2>1, <2>2, JobPut DEF Early
  <2> QED BY <1>10, <2>3 DEF RefreshWrite
<1> QED
  BY <1>3, <1>4, <1>5, <1>6, <1>7, <1>8, <1>9, <1>10 DEF Delivery

LEMMA PlaceKept ==
  ASSUME PlaceInv, KeepsJobs, UNCHANGED <<queue, failed, req, emitted, done, lost>>
  PROVE  PlaceInv'
<1>1. Busy' = Busy /\ Retried' = Retried
  BY DEF KeepsJobs, Busy, Retried
<1>2. Apart' /\ Somewhere'
  BY <1>1, PlaceSame DEF PlaceInv
<1>3. OneWorker' /\ OneHandler' /\ HandsEmpty'
  BY DEF PlaceInv, Once, KeepsJobs, OneWorker, OneHandler, HandsEmpty
<1> QED BY <1>2, <1>3 DEF PlaceInv, Once

LEMMA PlaceWorker ==
  ASSUME TypeOK, PlaceInv, NEW w \in Workers, WorkerStep(w)
  PROVE  PlaceInv'
<1> DEFINE j == work[w]
<1>j. j \in Jobs
  BY DEF TypeOK
<1> USE DEF At, history
<1>1. CASE Load(w)
  <2> DEFINE r == [j EXCEPT !.pc = "next", !.todo = Matches(j.ev)]
  <2>1. work' = [work EXCEPT ![w] = r] /\ j.pc = "load"
    BY <1>1 DEF Load
  <2>2. r \in Jobs /\ r.ev = j.ev /\ r.pc = "next"
    BY <1>j, <2>1 DEF Jobs, Matches
  <2> HIDE DEF r
  <2> QED BY <1>1, <2>1, <2>2, PlaceWork DEF Load
<1>2. CASE Begin(w)
  <2> PICK h \in j.todo :
        work' = [work EXCEPT ![w].pc = "send", ![w].todo = @ \ {h},
                             ![w].hook = h, ![w].tries = 1]
    BY <1>2 DEF Begin
  <2> DEFINE r == [j EXCEPT !.pc = "send", !.todo = @ \ {h}, !.hook = h, !.tries = 1]
  <2>1. work' = [work EXCEPT ![w] = r] /\ j.pc = "next"
    BY <1>2 DEF Begin
  <2>2. r \in Jobs /\ r.ev = j.ev /\ r.pc = "send"
    BY <1>j, <2>1 DEF Jobs
  <2> HIDE DEF r
  <2> QED BY <1>2, <2>1, <2>2, PlaceWork DEF Begin
<1>3. CASE Delivery(w)
  BY <1>3, JobsKept, PlaceKept
<1> QED
  BY <1>1, <1>2, <1>3, PlaceTake, PlaceDead, PlaceFinish DEF WorkerStep, Delivery

LEMMA PlacePop ==
  ASSUME TypeOK, PlaceInv, NEW c \in Handlers, RetryPop(c)
  PROVE  PlaceInv'
<1> DEFINE q == req[c]
<1>q. q \in Requests /\ q.ev = Nil
  BY DEF TypeOK, RetryPop, Arrive, PlaceInv, Once, HandsEmpty
<1>1. UNCHANGED <<queue, work, emitted, done, lost>>
  BY DEF RetryPop, history
<1>w. Busy' = Busy /\ OneWorker' /\ \A w \in Workers : work'[w].pc = "idle" => work'[w].ev = Nil
  BY <1>1 DEF Busy, OneWorker, PlaceInv, Once, HandsEmpty
<1>2. CASE failed = <<>>
  <2>1. req' = [req EXCEPT ![c] = Free] /\ failed' = failed /\ Free.ev = Nil
    BY <1>2 DEF RetryPop, Free
  <2> QED BY <1>q, <1>1, <1>w, <2>1, FreshRecords, PlaceReq
<1>3. CASE failed # <<>>
  <2> DEFINE e == Head(failed)
             r == [q EXCEPT !.pc = "repush", !.ev = e]
  <2>1. req' = [req EXCEPT ![c] = r] /\ failed' = Tail(failed)
    BY <1>3 DEF RetryPop
  <2>2. /\ e \in Place("failed") /\ e \in Events
        /\ Place("failed")' = Place("failed") \ {e} /\ Distinct(failed)'
    BY <1>3, <2>1, Popped DEF TypeOK, PlaceInv, Once, Place
  <2>3. r \in Requests /\ r.ev = e /\ r.pc = "repush"
    BY <1>q, <2>2 DEF Requests
  <2> HIDE DEF e, r
  <2>4. e \notin Retried /\ e # Nil
    <3>1. Place("failed") \cap Place("req") = {}
      BY DEF PlaceInv, Apart, Kinds
    <3>2. Place("req") = Retried
      BY DEF Place
    <3> QED BY <2>2, <3>1, <3>2, HookAssumption
  <2>5. Retried' = Retried \cup {e} /\ OneHandler'
    <3>1. Retried' = (Retried \ {q.ev}) \cup ({r.ev} \ {Nil}) /\ OneHandler'
      BY <2>1, <2>3, <2>4, ReqPut DEF PlaceInv, Once
    <3> QED BY <1>q, <2>3, <2>4, <3>1 DEF Retried
  <2>6. Apart' /\ Somewhere'
    <3>1. Place("req")' = Place("req") \cup {e}
      BY <2>5 DEF Place
    <3>2. \A m \in Kinds \ {"failed", "req"} : Place(m)' = Place(m)
      BY <1>1, <1>w DEF Kinds, Place
    <3>3. "failed" \in Kinds /\ "req" \in Kinds
      BY DEF Kinds
    <3> QED BY <1>1, <2>2, <3>1, <3>2, <3>3, MovedOne DEF PlaceInv
  <2>7. HandsEmpty'
    <3>1. req'[c] = r /\ \A d \in Handlers \ {c} : req'[d] = req[d]
      BY <2>1 DEF TypeOK
    <3> QED BY <1>w, <2>3, <3>1 DEF HandsEmpty, PlaceInv, Once
  <2> QED BY <1>1, <1>w, <2>2, <2>5, <2>6, <2>7 DEF PlaceInv, Once
<1> QED BY <1>2, <1>3

LEMMA PlacePush ==
  ASSUME TypeOK, PlaceInv, NEW c \in Handlers, RetryPush(c)
  PROVE  PlaceInv'
<1> DEFINE e == req[c].ev
<1> USE DEF history
<1>1. /\ e \in Events /\ UNCHANGED <<work, emitted, done>>
      /\ \E r \in {Free, [Free EXCEPT !.pc = "retry"]} : req' = [req EXCEPT ![c] = r]
      /\ \/ queue' = Append(queue, e) /\ UNCHANGED <<failed, lost>>
         \/ failed' = Append(failed, e) /\ UNCHANGED <<queue, lost>>
         \/ lost' = lost \cup {e} /\ UNCHANGED <<queue, failed>>
  BY DEF RetryPush, TypeOK, Requests
<1>2. /\ Retried' = Retried \ {e} /\ e \in Retried /\ OneHandler'
      /\ \A d \in Handlers : req'[d].pc # "repush" => req'[d].ev = Nil
  <2>1. PICK r : /\ r \in Requests /\ r.ev = Nil
                 /\ req' = [req EXCEPT ![c] = r]
    <3>1. /\ Free \in Requests /\ Free.ev = Nil
          /\ [Free EXCEPT !.pc = "retry"] \in Requests
          /\ [Free EXCEPT !.pc = "retry"].ev = Nil
      BY DEF Free, Requests
    <3> QED BY <1>1, <3>1
  <2>2. Retried' = Retried \ {e} /\ OneHandler'
    BY <2>1, ReqPut DEF PlaceInv, Once
  <2>3. e \in Retried
    BY <1>1, HookAssumption DEF Retried
  <2>4. req'[c] = r /\ \A d \in Handlers \ {c} : req'[d] = req[d]
    BY <2>1 DEF TypeOK
  <2>5. \A d \in Handlers : req'[d].pc # "repush" => req'[d].ev = Nil
    BY <2>1, <2>4 DEF PlaceInv, Once, HandsEmpty
  <2> QED BY <2>2, <2>3, <2>5
<1>w. Busy' = Busy /\ OneWorker' /\ \A w \in Workers : work'[w].pc = "idle" => work'[w].ev = Nil
  BY <1>1 DEF Busy, OneWorker, PlaceInv, Once, HandsEmpty
<1>3. e \notin Members(failed) /\ e \notin Members(queue)
  <2>1. Place("failed") \cap Place("req") = {} /\ Place("queue") \cap Place("req") = {}
    BY DEF PlaceInv, Apart, Kinds
  <2> QED BY <1>2, <2>1 DEF Place
<1> HIDE DEF e
<1>4. e \in Place("req") /\ Place("req")' = Place("req") \ {e}
  BY <1>2 DEF Place
<1>5. {"req", "queue", "failed", "lost"} \subseteq Kinds
  BY DEF Kinds
<1>6. ASSUME NEW l \in {"queue", "failed", "lost"}, Place(l)' = Place(l) \cup {e},
             \A m \in {"queue", "failed", "lost"} \ {l} : Place(m)' = Place(m)
      PROVE  Apart' /\ Somewhere'
  <2>1. \A m \in Kinds \ {"req", l} : Place(m)' = Place(m)
    <3>1. Place("work")' = Place("work") /\ Place("done")' = Place("done")
      BY <1>1, <1>w DEF Place
    <3> QED BY <1>6, <3>1 DEF Kinds
  <2> QED BY <1>1, <1>4, <1>5, <1>6, <2>1, MovedOne DEF PlaceInv
<1>7. CASE queue' = Append(queue, e) /\ UNCHANGED <<failed, lost>>
  <2>1. Members(queue)' = Members(queue) \cup {e} /\ Distinct(queue)'
    BY <1>1, <1>3, <1>7, Appended DEF TypeOK, PlaceInv, Once
  <2>2. /\ Place("queue")' = Place("queue") \cup {e}
        /\ Place("failed")' = Place("failed") /\ Place("lost")' = Place("lost")
    BY <1>7, <2>1 DEF Place
  <2>3. Apart' /\ Somewhere'
    BY <1>6, <2>2
  <2> QED BY <1>2, <1>w, <1>7, <2>1, <2>3 DEF PlaceInv, Once, HandsEmpty
<1>8. CASE failed' = Append(failed, e) /\ UNCHANGED <<queue, lost>>
  <2>1. Members(failed)' = Members(failed) \cup {e} /\ Distinct(failed)'
    BY <1>1, <1>3, <1>8, Appended DEF TypeOK, PlaceInv, Once
  <2>2. /\ Place("failed")' = Place("failed") \cup {e}
        /\ Place("queue")' = Place("queue") /\ Place("lost")' = Place("lost")
    BY <1>8, <2>1 DEF Place
  <2>3. Apart' /\ Somewhere'
    BY <1>6, <2>2
  <2> QED BY <1>2, <1>w, <1>8, <2>1, <2>3 DEF PlaceInv, Once, HandsEmpty
<1>9. CASE lost' = lost \cup {e} /\ UNCHANGED <<queue, failed>>
  <2>1. /\ Place("lost")' = Place("lost") \cup {e}
        /\ Place("queue")' = Place("queue") /\ Place("failed")' = Place("failed")
    BY <1>9 DEF Place
  <2>2. Apart' /\ Somewhere'
    BY <1>6, <2>1
  <2> QED BY <1>2, <1>w, <1>9, <2>2 DEF PlaceInv, Once, HandsEmpty
<1> QED BY <1>1, <1>7, <1>8, <1>9

\* The owner's requests move no event and no job.
Edit(c) == CreateCheck(c) \/ CreateInsert(c) \/ Update(c) \/ Delete(c)
           \/ EditCount(c) \/ EditWrite(c)

LEMMA EditKeeps ==
  ASSUME TypeOK, NEW c \in Handlers, Edit(c)
  PROVE  /\ KeepsJobs /\ UNCHANGED <<queue, failed, emitted, done, lost, tried>>
         /\ req[c].pc # "repush"
         /\ \E r \in Requests : /\ r.pc # "repush" /\ r.ev \in {Nil, req[c].ev}
                                /\ req' = [req EXCEPT ![c] = r]
<1> DEFINE q == req[c]
<1>q. q \in Requests /\ Free \in Requests /\ Free.ev = Nil /\ Free.pc = "idle"
  BY FreshRecords DEF TypeOK, Free
<1>w. work' = work => KeepsJobs
  BY DEF KeepsJobs
<1>e. ASSUME NEW pc \in {"refresh", "insert"}, NEW u \in Users
      PROVE  /\ [q EXCEPT !.pc = pc, !.user = u] \in Requests
             /\ [q EXCEPT !.pc = pc, !.user = u].pc = pc
             /\ [q EXCEPT !.pc = pc, !.user = u].ev = q.ev
  BY <1>q DEF Requests
<1> USE DEF history, Arrive
<1>1. CASE CreateCheck(c)
  <2>1. PICK u \in Users : req' = [req EXCEPT ![c] = [q EXCEPT !.pc = "insert", !.user = u]]
    BY <1>1 DEF CreateCheck
  <2> QED BY <1>1, <1>w, <1>e, <2>1 DEF CreateCheck
<1>2. CASE CreateInsert(c)
  <2> DEFINE r == [q EXCEPT !.pc = "refresh"]
  <2>1. r \in Requests /\ r.pc = "refresh" /\ r.ev = q.ev
    BY <1>2, <1>q DEF Requests, CreateInsert
  <2>2. req' = [req EXCEPT ![c] = r] \/ req' = [req EXCEPT ![c] = Free]
    BY <1>2 DEF CreateInsert
  <2> HIDE DEF r
  <2> QED BY <1>2, <1>w, <1>q, <2>1, <2>2 DEF CreateInsert
<1>3. CASE Update(c)
  <2>1. PICK h \in Hooks, st \in {"on", "off", "kept"} :
          /\ work' = IF st = "on" THEN Overtake(h) ELSE work
          /\ req' = [req EXCEPT ![c] = [q EXCEPT !.pc = "refresh", !.user = Owner[h]]]
    BY <1>3 DEF Update
  <2>2. KeepsJobs
    <3>1. \A v \in Workers :
            /\ Overtake(h)[v].ev = work[v].ev /\ Overtake(h)[v].todo = work[v].todo
            /\ Overtake(h)[v].pc = work[v].pc
      BY OvertakeKeeps DEF TypeOK
    <3> QED BY <2>1, <3>1 DEF KeepsJobs
  <2>3. Owner[h] \in Users
    BY HookAssumption
  <2> QED BY <1>3, <1>e, <2>1, <2>2, <2>3 DEF Update
<1>4. CASE Delete(c)
  <2>1. PICK h \in Hooks :
          req' = [req EXCEPT ![c] = [q EXCEPT !.pc = "refresh", !.user = Owner[h]]]
    BY <1>4 DEF Delete
  <2>2. Owner[h] \in Users
    BY HookAssumption
  <2> QED BY <1>4, <1>w, <1>e, <2>1, <2>2 DEF Delete
<1>5. CASE EditCount(c)
  <2> DEFINE r == [q EXCEPT !.pc = "gate", !.has = HasActive(q.user)]
  <2>1. r \in Requests /\ r.pc = "gate" /\ r.ev = q.ev
    BY <1>5, <1>q DEF EditCount, Requests, HasActive
  <2>2. req' = [req EXCEPT ![c] = r]
    BY <1>5 DEF EditCount
  <2> HIDE DEF r
  <2> QED BY <1>5, <1>w, <2>1, <2>2 DEF EditCount
<1>6. CASE EditWrite(c)
  BY <1>6, <1>w, <1>q DEF EditWrite
<1> QED BY <1>1, <1>2, <1>3, <1>4, <1>5, <1>6 DEF Edit

LEMMA PlaceEdit ==
  ASSUME TypeOK, PlaceInv, NEW c \in Handlers, Edit(c)
  PROVE  PlaceInv'
<1>1. PICK r \in Requests : /\ r.pc # "repush" /\ r.ev \in {Nil, req[c].ev}
                            /\ req' = [req EXCEPT ![c] = r]
  BY EditKeeps
<1>2. req[c].ev = Nil /\ r.ev = Nil
  BY <1>1, EditKeeps DEF PlaceInv, Once, HandsEmpty
<1>3. KeepsJobs /\ UNCHANGED <<queue, failed, emitted, done, lost>>
  BY EditKeeps
<1>4. Busy' = Busy /\ OneWorker' /\ \A w \in Workers : work'[w].pc = "idle" => work'[w].ev = Nil
  BY <1>3 DEF KeepsJobs, Busy, OneWorker, PlaceInv, Once, HandsEmpty
<1> QED BY <1>1, <1>2, <1>3, <1>4, PlaceReq

LEMMA PlaceClear ==
  ASSUME TypeOK, PlaceInv, NEW c \in Handlers, Clear(c)
  PROVE  PlaceInv'
<1>1. /\ failed' = <<>> /\ lost' = lost \cup Members(failed)
      /\ UNCHANGED <<queue, work, req, emitted, done>>
  BY DEF Clear
<1> DEFINE S == Place("failed")
<1>2. /\ Place("failed")' = {} /\ Place("lost")' = Place("lost") \cup S
      /\ \A m \in Kinds \ {"failed", "lost"} : Place(m)' = Place(m)
  BY <1>1, Emptied DEF Place, Kinds, Busy, Retried
<1>3. \A m \in Kinds \ {"lost"} : Place(m)' = Place(m) \ S
  <2> SUFFICES ASSUME NEW m \in Kinds \ {"lost"} PROVE Place(m)' = Place(m) \ S
    OBVIOUS
  <2>1. CASE m = "failed"
    BY <1>2, <2>1
  <2>2. CASE m # "failed"
    <3>1. Place(m) \cap S = {}
      BY <2>2 DEF PlaceInv, Apart, Kinds
    <3> QED BY <1>2, <2>2, <3>1
  <2> QED BY <2>1, <2>2
<1>4. emitted' = emitted \cup S /\ "lost" \in Kinds
  BY <1>1 DEF PlaceInv, Somewhere, Kinds
<1> HIDE DEF S
<1>5. Apart' /\ Somewhere'
  BY <1>2, <1>3, <1>4, Moved DEF PlaceInv
<1> QED BY <1>1, <1>5, Emptied DEF PlaceInv, Once, OneWorker, OneHandler, HandsEmpty

LEMMA PlaceHandler ==
  ASSUME TypeOK, PlaceInv, NEW c \in Handlers, HandlerStep(c) \/ Request(c)
  PROVE  PlaceInv'
  BY PlaceEdit, PlacePop, PlacePush, PlaceClear DEF HandlerStep, Request, Edit

LEMMA PlaceOther ==
  ASSUME TypeOK, PlaceInv, Other
  PROVE  PlaceInv'
<1> USE DEF history
<1>1. ASSUME NEW e \in Events, Emit(e) PROVE PlaceInv'
  <2>1. /\ e \notin emitted /\ queue' = Append(queue, e) /\ emitted' = emitted \cup {e}
        /\ UNCHANGED <<failed, work, req, done, lost>>
    BY <1>1 DEF Emit
  <2>2. \A m \in Kinds : e \notin Place(m)
    BY <2>1 DEF PlaceInv, Somewhere
  <2>3. e \notin Members(queue)
    BY <2>2 DEF Place, Kinds
  <2>4. Members(queue)' = Members(queue) \cup {e} /\ Distinct(queue)'
    BY <2>1, <2>3, Appended DEF TypeOK, PlaceInv, Once
  <2>5. /\ Place("queue")' = Place("queue") \cup {e} /\ "queue" \in Kinds
        /\ \A m \in Kinds \ {"queue"} : Place(m)' = Place(m)
    BY <2>1, <2>4 DEF Place, Kinds, Busy, Retried
  <2> DEFINE S == {e}
  <2>6. /\ Place("queue")' = Place("queue") \cup S /\ emitted' = emitted \cup S
        /\ \A m \in Kinds \ {"queue"} : Place(m)' = Place(m) \ S
    BY <2>1, <2>2, <2>5
  <2> HIDE DEF S
  <2>7. Apart' /\ Somewhere'
    BY <2>5, <2>6, Moved DEF PlaceInv
  <2> QED BY <2>1, <2>4, <2>7 DEF PlaceInv, Once, OneWorker, OneHandler, HandsEmpty
<1>2. CASE Restart
  <2>1. /\ work' = [w \in Workers |-> Idle] /\ req' = [c \in Handlers |-> Free]
        /\ lost' = lost \cup Held /\ UNCHANGED <<queue, failed, emitted, done>>
    BY <1>2 DEF Restart
  <2>2. /\ Busy' = {} /\ Retried' = {} /\ OneWorker' /\ OneHandler' /\ HandsEmpty'
    BY <2>1 DEF Idle, Free, Busy, Retried, OneWorker, OneHandler, HandsEmpty
  <2>3. Held = Busy \cup Retried
    <3>1. \A w \in Workers : work[w].ev \in Events \cup {Nil}
      BY DEF TypeOK, Jobs
    <3>2. \A c \in Handlers : req[c].ev \in Events \cup {Nil}
      BY DEF TypeOK, Requests
    <3> QED BY <3>1, <3>2, HookAssumption DEF Held, Busy, Retried
  <2> DEFINE S == Held
  <2>4. /\ Place("lost")' = Place("lost") \cup S /\ "lost" \in Kinds
        /\ {"work", "req"} \subseteq Kinds
        /\ S = Place("work") \cup Place("req")
    BY <2>1, <2>3 DEF Place, Kinds
  <2>5. \A m \in Kinds \ {"lost"} : Place(m)' = Place(m) \ S
    <3> SUFFICES ASSUME NEW m \in Kinds \ {"lost"} PROVE Place(m)' = Place(m) \ S
      OBVIOUS
    <3>1. CASE m \in {"work", "req"}
      <4>1. Place(m)' = {}
        BY <2>2, <3>1 DEF Place
      <4> QED BY <2>4, <3>1, <4>1
    <3>2. CASE m \notin {"work", "req"}
      <4>1. Place(m)' = Place(m)
        BY <2>1, <3>2 DEF Place, Kinds
      <4>2. Place(m) \cap Place("work") = {} /\ Place(m) \cap Place("req") = {}
        BY <2>4, <3>2 DEF PlaceInv, Apart
      <4> QED BY <2>4, <4>1, <4>2
    <3> QED BY <3>1, <3>2
  <2>6. emitted' = emitted \cup S
    BY <2>1, <2>4 DEF PlaceInv, Somewhere
  <2> HIDE DEF S
  <2>7. Apart' /\ Somewhere'
    BY <2>4, <2>5, <2>6, Moved DEF PlaceInv
  <2> QED BY <2>1, <2>2, <2>7 DEF PlaceInv, Once
<1>3. CASE RedisLost
  <2>1. /\ queue' = <<>> /\ failed' = <<>>
        /\ lost' = lost \cup Members(queue) \cup Members(failed)
        /\ UNCHANGED <<work, req, emitted, done>>
    BY <1>3 DEF RedisLost
  <2> DEFINE S == Members(queue) \cup Members(failed)
  <2>2. /\ Place("lost")' = Place("lost") \cup S /\ "lost" \in Kinds
        /\ {"queue", "failed"} \subseteq Kinds
        /\ S = Place("queue") \cup Place("failed")
    BY <2>1 DEF Place, Kinds
  <2>3. \A m \in Kinds \ {"lost"} : Place(m)' = Place(m) \ S
    <3> SUFFICES ASSUME NEW m \in Kinds \ {"lost"} PROVE Place(m)' = Place(m) \ S
      OBVIOUS
    <3>1. CASE m \in {"queue", "failed"}
      <4>1. Place(m)' = {}
        BY <2>1, <3>1, Emptied DEF Place
      <4> QED BY <2>2, <3>1, <4>1
    <3>2. CASE m \notin {"queue", "failed"}
      <4>1. Place(m)' = Place(m)
        BY <2>1, <3>2 DEF Place, Kinds, Busy, Retried
      <4>2. Place(m) \cap Place("queue") = {} /\ Place(m) \cap Place("failed") = {}
        BY <2>2, <3>2 DEF PlaceInv, Apart
      <4> QED BY <2>2, <4>1, <4>2
    <3> QED BY <3>1, <3>2
  <2>4. emitted' = emitted \cup S
    BY <2>1, <2>2 DEF PlaceInv, Somewhere
  <2> HIDE DEF S
  <2>5. Apart' /\ Somewhere'
    BY <2>2, <2>3, <2>4, Moved DEF PlaceInv
  <2> QED BY <2>1, <2>5, Emptied DEF PlaceInv, Once, OneWorker, OneHandler, HandsEmpty
<1>4. ASSUME UNCHANGED <<queue, failed, work, req, emitted, done, lost>> PROVE PlaceInv'
  <2>1. KeepsJobs
    BY <1>4 DEF KeepsJobs
  <2> QED BY <1>4, <2>1, PlaceKept
<1> QED
  BY <1>1, <1>2, <1>3, <1>4 DEF Other, RebuildRead, RebuildSwap, RebuildFails

LEMMA PlaceStep == TypeOK /\ PlaceInv /\ [Next]_vars => PlaceInv'
<1> SUFFICES ASSUME TypeOK, PlaceInv, [Next]_vars PROVE PlaceInv'
  OBVIOUS
<1>1. CASE Next
  BY <1>1, PlaceWorker, PlaceHandler, PlaceOther DEF Next, Other
<1>2. CASE UNCHANGED vars
  <2>1. KeepsJobs
    BY <1>2 DEF vars, KeepsJobs
  <2> QED BY <1>2, <2>1, PlaceKept DEF vars
<1> QED BY <1>1, <1>2

\* One place of each kind holds an event at most once, so the numbers of OnePlace
\* are those of its being there.
LEMMA CopiesIs ==
  ASSUME NEW s \in Seq(Events), Distinct(s), NEW e
  PROVE  Copies(s, e) = IF e \in Members(s) THEN 1 ELSE 0
<1>1. CASE e \in Members(s)
  <2> PICK i \in DOMAIN s : s[i] = e
    BY <1>1 DEF Members
  <2>1. {k \in DOMAIN s : s[k] = e} = {i}
    BY DEF Distinct
  <2> QED BY <1>1, <2>1, FS_Singleton DEF Copies
<1>2. CASE e \notin Members(s)
  <2>1. {k \in DOMAIN s : s[k] = e} = {}
    BY <1>2 DEF Members
  <2> QED BY <1>2, <2>1, FS_EmptySet DEF Copies
<1> QED BY <1>1, <1>2

LEMMA PlaceOne == TypeOK /\ PlaceInv => OnePlace
<1> SUFFICES ASSUME TypeOK, PlaceInv, NEW e \in Events
             PROVE  Places(e) = (IF e \in emitted THEN 1 ELSE 0)
  BY DEF OnePlace
<1>n. e # Nil
  BY HookAssumption
<1>1. Copies(queue, e) = IF e \in Members(queue) THEN 1 ELSE 0
  BY CopiesIs DEF TypeOK, PlaceInv, Once
<1>2. Copies(failed, e) = IF e \in Members(failed) THEN 1 ELSE 0
  BY CopiesIs DEF TypeOK, PlaceInv, Once
<1>3. Cardinality({w \in Workers : work[w].ev = e}) = IF e \in Busy THEN 1 ELSE 0
  <2>1. CASE e \in Busy
    <3> PICK w \in Workers : work[w].ev = e
      BY <2>1 DEF Busy
    <3>1. {v \in Workers : work[v].ev = e} = {w}
      BY <1>n DEF PlaceInv, Once, OneWorker
    <3> QED BY <2>1, <3>1, FS_Singleton
  <2>2. CASE e \notin Busy
    <3>1. {v \in Workers : work[v].ev = e} = {}
      BY <2>2, <1>n DEF Busy
    <3> QED BY <2>2, <3>1, FS_EmptySet
  <2> QED BY <2>1, <2>2
<1>4. Cardinality({c \in Handlers : req[c].ev = e}) = IF e \in Retried THEN 1 ELSE 0
  <2>1. CASE e \in Retried
    <3> PICK c \in Handlers : req[c].ev = e
      BY <2>1 DEF Retried
    <3>1. {d \in Handlers : req[d].ev = e} = {c}
      BY <1>n DEF PlaceInv, Once, OneHandler
    <3> QED BY <2>1, <3>1, FS_Singleton
  <2>2. CASE e \notin Retried
    <3>1. {d \in Handlers : req[d].ev = e} = {}
      BY <2>2, <1>n DEF Retried
    <3> QED BY <2>2, <3>1, FS_EmptySet
  <2> QED BY <2>1, <2>2
<1>5. /\ ~(e \in Members(queue) /\ e \in Members(failed))
      /\ ~(e \in Members(queue) /\ e \in Busy)
      /\ ~(e \in Members(queue) /\ e \in Retried)
      /\ ~(e \in Members(queue) /\ e \in done)
      /\ ~(e \in Members(queue) /\ e \in lost)
      /\ ~(e \in Members(failed) /\ e \in Busy)
      /\ ~(e \in Members(failed) /\ e \in Retried)
      /\ ~(e \in Members(failed) /\ e \in done)
      /\ ~(e \in Members(failed) /\ e \in lost)
      /\ ~(e \in Busy /\ e \in Retried)
      /\ ~(e \in Busy /\ e \in done)
      /\ ~(e \in Busy /\ e \in lost)
      /\ ~(e \in Retried /\ e \in done)
      /\ ~(e \in Retried /\ e \in lost)
      /\ ~(e \in done /\ e \in lost)
  <2>1. /\ Place("queue") = Members(queue) /\ Place("failed") = Members(failed)
        /\ Place("work") = Busy /\ Place("req") = Retried
        /\ Place("done") = done /\ Place("lost") = lost
    BY DEF Place
  <2>2. \A k, l \in Kinds : k # l => ~(e \in Place(k) /\ e \in Place(l))
    BY DEF PlaceInv, Apart
  <2>3. /\ "queue" \in Kinds /\ "failed" \in Kinds /\ "work" \in Kinds
        /\ "req" \in Kinds /\ "done" \in Kinds /\ "lost" \in Kinds
    BY DEF Kinds
  <2> QED BY <2>1, <2>2, <2>3
<1>6. e \in emitted <=> \/ e \in Members(queue) \/ e \in Members(failed) \/ e \in Busy
                        \/ e \in Retried \/ e \in done \/ e \in lost
  BY DEF PlaceInv, Somewhere, Kinds, Place
<1> QED BY <1>1, <1>2, <1>3, <1>4, <1>5, <1>6 DEF Places

\* Every event queued is in one place, once, whatever workers, retries of dead
\* letters, failed pushes and crashes do: on a list, in the hands of one worker or
\* one request, processed, or given up.
THEOREM OnePlaceCorrect == Spec => []OnePlace
  BY PlaceInit, PlaceStep, PlaceOne, TypeCorrect, PTL DEF Spec

-----------------------------------------------------------------------------
(* Dispatched once.                                                         *)

\* a worker has loaded the subscriptions of its job and not finished it
Underway(w) == work[w].pc \notin Early \cup {"idle"}

\* the events no job has dispatched: not queued yet, on a list, being retried, or
\* in a job that has not loaded its subscriptions or could not
Fresh == {e \in Events : \/ e \notin emitted
                         \/ e \in Members(queue) \cup Members(failed) \cup Retried
                         \/ \E w \in Workers : work[w].pc \in Early /\ work[w].ev = e}
Untried(e) == \A h \in Hooks : tried[e][h] = 0

TriedInv ==
  /\ \A e \in Fresh : Untried(e)
  /\ \A w \in Workers : Underway(w) => \A h \in work[w].todo : tried[work[w].ev][h] = 0
  /\ TriedOnce

LEMMA TriedInit == Init => TriedInv
  BY DEF Init, TriedInv, Fresh, Untried, Underway, Idle, TriedOnce

\* A step that dispatches nothing.
LEMMA TriedSame ==
  ASSUME TypeOK, TriedInv, tried' = tried, Fresh' \subseteq Fresh,
         \A v \in Workers : Underway(v)' =>
           /\ work'[v].ev = work[v].ev /\ work'[v].todo \subseteq Hooks
           /\ \/ work[v].ev \in Fresh
              \/ Underway(v) /\ work'[v].todo \subseteq work[v].todo
  PROVE  TriedInv'
<1>1. \A e \in Fresh' : Untried(e)'
  BY DEF TriedInv, Untried
<1>2. \A w \in Workers : Underway(w)' => \A h \in work'[w].todo : tried'[work'[w].ev][h] = 0
  <2> SUFFICES ASSUME NEW w \in Workers, Underway(w)', NEW h \in work'[w].todo
               PROVE  tried'[work'[w].ev][h] = 0
    OBVIOUS
  <2>1. CASE work[w].ev \in Fresh
    BY <2>1 DEF TriedInv, Untried
  <2>2. CASE work[w].ev \notin Fresh
    BY <2>2 DEF TriedInv
  <2> QED BY <2>1, <2>2
<1>3. TriedOnce'
  BY DEF TriedInv, TriedOnce
<1> QED BY <1>1, <1>2, <1>3 DEF TriedInv

LEMMA TriedKept ==
  ASSUME TypeOK, TriedInv, KeepsJobs, UNCHANGED tried, Fresh' \subseteq Fresh
  PROVE  TriedInv'
<1>1. \A v \in Workers : Underway(v)' =>
        /\ work'[v].ev = work[v].ev /\ work'[v].todo \subseteq Hooks
        /\ Underway(v) /\ work'[v].todo \subseteq work[v].todo
  BY DEF KeepsJobs, Underway, TypeOK, Jobs
<1> QED BY <1>1, TriedSame

\* The lists after a step, and the events no job has dispatched.
LEMMA FreshKept ==
  ASSUME KeepsJobs, UNCHANGED <<queue, failed, emitted>>,
         Retried' \subseteq Retried
  PROVE  Fresh' \subseteq Fresh
  BY DEF KeepsJobs, Fresh

LEMMA TriedWorker ==
  ASSUME TypeOK, PlaceInv, TriedInv, NEW w \in Workers, WorkerStep(w)
  PROVE  TriedInv'
<1> DEFINE j == work[w]
<1>j. j \in Jobs
  BY DEF TypeOK
<1>p. ASSUME NEW r, work' = [work EXCEPT ![w] = r]
      PROVE  work'[w] = r /\ \A v \in Workers \ {w} : work'[v] = work[v]
  BY <1>p DEF TypeOK
<1>t. \A v \in Workers : work[v].todo \subseteq Hooks
  BY DEF TypeOK, Jobs
<1> USE DEF At, history
<1>1. CASE Take(w)
  <2> DEFINE e == Head(queue)
             r == [Idle EXCEPT !.pc = "load", !.ev = e]
  <2>1. /\ work' = [work EXCEPT ![w] = r] /\ queue' = Tail(queue) /\ queue # <<>>
        /\ UNCHANGED <<failed, req, emitted, tried>>
    BY <1>1 DEF Take
  <2>2. e \in Members(queue) /\ Members(queue)' \subseteq Members(queue)
    BY <2>1, Popped DEF TypeOK, PlaceInv, Once
  <2>3. r.ev = e /\ r.pc = "load"
    BY DEF Idle
  <2> HIDE DEF r, e
  <2>4. work'[w] = r /\ \A v \in Workers \ {w} : work'[v] = work[v]
    BY <1>p, <2>1
  <2>5. Fresh' \subseteq Fresh
    BY <2>1, <2>2, <2>3, <2>4 DEF Fresh, Retried
  <2> QED BY <1>t, <2>1, <2>3, <2>4, <2>5, TriedSame DEF Underway, Early
<1>2. CASE Load(w)
  <2> DEFINE r == [j EXCEPT !.pc = "next", !.todo = Matches(j.ev)]
  <2>1. /\ work' = [work EXCEPT ![w] = r] /\ j.pc = "load"
        /\ UNCHANGED <<queue, failed, req, emitted, tried>>
    BY <1>2 DEF Load
  <2>2. r.ev = j.ev /\ r.pc = "next" /\ r.todo \subseteq Hooks
    BY <1>j DEF Jobs, Matches
  <2> HIDE DEF r
  <2>3. work'[w] = r /\ \A v \in Workers \ {w} : work'[v] = work[v]
    BY <1>p, <2>1
  <2>4. j.ev \in Fresh
    BY <1>j, <2>1 DEF Fresh, Early, Jobs
  <2>5. Fresh' \subseteq Fresh
    BY <2>1, <2>2, <2>3 DEF Fresh, Retried, Early
  <2> QED BY <1>t, <2>1, <2>2, <2>3, <2>4, <2>5, TriedSame DEF Underway
<1>3. CASE DeadLetter(w)
  <2>1. /\ work' = [work EXCEPT ![w] = Idle] /\ j.pc = "failed"
        /\ failed' \in {failed, Append(failed, j.ev)}
        /\ UNCHANGED <<queue, req, emitted, tried>>
    BY <1>3 DEF DeadLetter
  <2>2. j.ev \in Fresh /\ j.ev \in Events
    BY <1>j, <2>1 DEF Fresh, Early, Jobs
  <2>3. Members(failed)' \subseteq Members(failed) \cup {j.ev}
    BY <2>1, <2>2, Appended DEF TypeOK
  <2>4. work'[w] = Idle /\ \A v \in Workers \ {w} : work'[v] = work[v]
    BY <1>p, <2>1
  <2>5. Idle.pc = "idle"
    BY DEF Idle
  <2>6. Fresh' \subseteq Fresh
    BY <2>1, <2>2, <2>3, <2>4, <2>5 DEF Fresh, Retried, Early
  <2> QED BY <1>t, <2>1, <2>4, <2>5, <2>6, TriedSame DEF Underway
<1>4. CASE Finish(w)
  <2>1. /\ work' = [work EXCEPT ![w] = Idle]
        /\ UNCHANGED <<queue, failed, req, emitted, tried>>
    BY <1>4 DEF Finish
  <2>2. work'[w] = Idle /\ \A v \in Workers \ {w} : work'[v] = work[v]
    BY <1>p, <2>1
  <2>3. Idle.pc = "idle"
    BY DEF Idle
  <2>4. Fresh' \subseteq Fresh
    BY <2>1, <2>2, <2>3 DEF Fresh, Retried, Early
  <2> QED BY <1>t, <2>1, <2>2, <2>3, <2>4, TriedSame DEF Underway
<1>5. CASE Delivery(w)
  <2>1. KeepsJobs /\ UNCHANGED <<queue, failed, req, emitted, tried>>
    BY <1>5, JobsKept
  <2>2. Retried' = Retried
    BY <2>1 DEF Retried
  <2> QED BY <2>1, <2>2, FreshKept, TriedKept
<1>6. CASE Begin(w)
  <2> PICK h \in j.todo :
        /\ work' = [work EXCEPT ![w].pc = "send", ![w].todo = @ \ {h},
                                ![w].hook = h, ![w].tries = 1]
        /\ tried' = [tried EXCEPT ![work[w].ev][h] = @ + 1]
    BY <1>6 DEF Begin
  <2> DEFINE r == [j EXCEPT !.pc = "send", !.todo = @ \ {h}, !.hook = h, !.tries = 1]
             e == j.ev
  <2>1. /\ work' = [work EXCEPT ![w] = r] /\ j.pc = "next"
        /\ UNCHANGED <<queue, failed, req, emitted>>
    BY <1>6 DEF Begin
  <2>2. r.ev = e /\ r.pc = "send" /\ r.todo = j.todo \ {h} /\ h \in Hooks /\ e \in Events
    BY <1>j, <2>1 DEF Jobs
  <2>3. Underway(w) /\ tried[e][h] = 0
    BY <2>1 DEF Underway, Early, TriedInv
  <2>4. /\ \A f \in Events, g \in Hooks : tried'[f][g] = tried[f][g] \/ (f = e /\ g = h)
        /\ tried'[e][h] = 1
    <3>1. tried[e] \in [Hooks -> Nat] /\ tried \in [Events -> [Hooks -> Nat]]
      BY <2>2 DEF TypeOK
    <3>2. tried' = [tried EXCEPT ![e] = [tried[e] EXCEPT ![h] = tried[e][h] + 1]]
      OBVIOUS
    <3> HIDE DEF e
    <3> QED BY <2>2, <2>3, <3>1, <3>2
  <2> HIDE DEF r
  <2>5. work'[w] = r /\ \A v \in Workers \ {w} : work'[v] = work[v]
    BY <1>p, <2>1
  <2>6. e \in Busy /\ e # Nil
    BY <2>2, HookAssumption DEF Busy
  <2>7. Fresh' \subseteq Fresh
    BY <2>1, <2>2, <2>5 DEF Fresh, Retried, Early
  <2>8. e \notin Fresh'
    <3>1. e \notin Members(queue) /\ e \notin Members(failed) /\ e \notin Retried
      <4>1. /\ Place("queue") \cap Place("work") = {} /\ Place("failed") \cap Place("work") = {}
            /\ Place("req") \cap Place("work") = {}
        BY DEF PlaceInv, Apart, Kinds
      <4> QED BY <2>6, <4>1 DEF Place
    <3>2. e \in emitted
      BY <2>6 DEF PlaceInv, Somewhere, Place, Kinds
    <3>3. \A v \in Workers \ {w} : work'[v].ev # e
      BY <2>5, <2>6 DEF PlaceInv, Once, OneWorker
    <3> QED BY <2>1, <2>2, <2>5, <3>1, <3>2, <3>3 DEF Fresh, Retried, Early
  <2>9. \A f \in Fresh' : Untried(f)'
    <3> SUFFICES ASSUME NEW f \in Fresh', NEW g \in Hooks PROVE tried'[f][g] = 0
      BY DEF Untried
    <3>1. f \in Events /\ f # e /\ f \in Fresh
      BY <2>7, <2>8 DEF Fresh
    <3> QED BY <2>4, <3>1 DEF TriedInv, Untried
  <2>10. \A v \in Workers : Underway(v)' => \A g \in work'[v].todo : tried'[work'[v].ev][g] = 0
    <3> SUFFICES ASSUME NEW v \in Workers, Underway(v)', NEW g \in work'[v].todo
                 PROVE  tried'[work'[v].ev][g] = 0
      OBVIOUS
    <3>1. CASE v = w
      <4>1. g \in Hooks /\ g # h /\ g \in j.todo
        BY <1>t, <2>2, <2>5, <3>1
      <4> QED BY <2>2, <2>3, <2>4, <2>5, <3>1, <4>1 DEF TriedInv
    <3>2. CASE v # w
      <4>1. work'[v] = work[v] /\ Underway(v)
        BY <2>5, <3>2 DEF Underway
      <4>2. work[v].ev \in Events
        BY <4>1 DEF TypeOK, Jobs, Underway
      <4>3. work[v].ev # e /\ g \in Hooks
        BY <1>t, <2>6, <3>2, <4>1 DEF PlaceInv, Once, OneWorker
      <4>4. tried[work[v].ev][g] = 0
        BY <4>1 DEF TriedInv
      <4> QED BY <2>4, <4>1, <4>2, <4>3, <4>4
    <3> QED BY <3>1, <3>2
  <2>11. TriedOnce'
    <3> SUFFICES ASSUME NEW f \in Events, NEW g \in Hooks PROVE tried'[f][g] <= 1
      BY DEF TriedOnce
    <3> HIDE DEF e
    <3>1. tried[f][g] <= 1
      BY DEF TriedInv, TriedOnce
    <3> QED BY <2>4, <3>1
  <2> QED BY <2>9, <2>10, <2>11 DEF TriedInv
<1> QED
  BY <1>1, <1>2, <1>3, <1>4, <1>5, <1>6 DEF WorkerStep, Delivery

LEMMA TriedHandler ==
  ASSUME TypeOK, PlaceInv, TriedInv, NEW c \in Handlers, HandlerStep(c) \/ Request(c)
  PROVE  TriedInv'
<1>w. work' = work => KeepsJobs
  BY DEF KeepsJobs
<1>p. ASSUME NEW r, req' = [req EXCEPT ![c] = r]
      PROVE  Retried' \subseteq Retried \cup ({r.ev} \ {Nil})
  BY <1>p DEF TypeOK, Retried
<1> USE DEF history
<1>1. CASE Edit(c)
  <2>1. PICK r \in Requests : /\ r.pc # "repush" /\ r.ev \in {Nil, req[c].ev}
                              /\ req' = [req EXCEPT ![c] = r]
    BY <1>1, EditKeeps
  <2>2. r.ev = Nil
    BY <1>1, <2>1, EditKeeps DEF PlaceInv, Once, HandsEmpty
  <2> QED BY <1>1, <1>p, <2>1, <2>2, EditKeeps, FreshKept, TriedKept
<1>2. CASE RetryPop(c)
  <2>1. UNCHANGED <<queue, work, emitted, tried>>
    BY <1>2 DEF RetryPop
  <2>2. CASE failed = <<>>
    <3>1. req' = [req EXCEPT ![c] = Free] /\ failed' = failed /\ Free.ev = Nil
      BY <1>2, <2>2 DEF RetryPop, Free
    <3>2. Retried' \subseteq Retried
      BY <1>p, <3>1
    <3> QED BY <1>w, <2>1, <3>1, <3>2, FreshKept, TriedKept
  <2>3. CASE failed # <<>>
    <3> DEFINE e == Head(failed)
               r == [req[c] EXCEPT !.pc = "repush", !.ev = e]
    <3>1. req' = [req EXCEPT ![c] = r] /\ failed' = Tail(failed)
      BY <1>2, <2>3 DEF RetryPop
    <3>2. e \in Members(failed) /\ Members(failed)' \subseteq Members(failed)
      BY <2>3, <3>1, Popped DEF TypeOK, PlaceInv, Once
    <3>3. r.ev = e
      BY DEF TypeOK, Requests
    <3> HIDE DEF e, r
    <3>4. Retried' \subseteq Retried \cup {e}
      BY <1>p, <3>1, <3>3
    <3>5. Fresh' \subseteq Fresh
      BY <2>1, <3>2, <3>4 DEF Fresh
    <3> QED BY <1>w, <2>1, <3>5, TriedKept
  <2> QED BY <2>2, <2>3
<1>3. CASE RetryPush(c)
  <2> DEFINE e == req[c].ev
  <2>1. /\ UNCHANGED <<work, emitted, tried>> /\ e \in Events
        /\ queue' \in {queue, Append(queue, e)} /\ failed' \in {failed, Append(failed, e)}
        /\ \E r \in {Free, [Free EXCEPT !.pc = "retry"]} : req' = [req EXCEPT ![c] = r]
    BY <1>3 DEF RetryPush, TypeOK, Requests
  <2>2. e \in Retried
    BY <2>1, HookAssumption DEF Retried
  <2> HIDE DEF e
  <2>3. /\ Members(queue)' \subseteq Members(queue) \cup {e}
        /\ Members(failed)' \subseteq Members(failed) \cup {e}
    BY <2>1, Appended DEF TypeOK
  <2>4. Retried' \subseteq Retried
    <3>1. Free.ev = Nil /\ [Free EXCEPT !.pc = "retry"].ev = Nil
      BY DEF Free
    <3> QED BY <1>p, <2>1, <3>1
  <2>5. Fresh' \subseteq Fresh
    BY <2>1, <2>2, <2>3, <2>4 DEF Fresh
  <2> QED BY <1>w, <2>1, <2>5, TriedKept
<1>4. CASE Clear(c)
  <2>1. UNCHANGED <<queue, work, req, emitted, tried>> /\ failed' = <<>>
    BY <1>4 DEF Clear
  <2>2. Fresh' \subseteq Fresh
    BY <2>1, Emptied DEF Fresh, Retried
  <2> QED BY <1>w, <2>1, <2>2, TriedKept
<1> QED BY <1>1, <1>2, <1>3, <1>4 DEF HandlerStep, Request, Edit

LEMMA TriedOther ==
  ASSUME TypeOK, TriedInv, Other
  PROVE  TriedInv'
<1>w. work' = work => KeepsJobs
  BY DEF KeepsJobs
<1> USE DEF history
<1>1. ASSUME NEW e \in Events, Emit(e) PROVE TriedInv'
  <2>1. /\ e \notin emitted /\ queue' = Append(queue, e) /\ emitted' = emitted \cup {e}
        /\ UNCHANGED <<failed, work, req, tried>>
    BY <1>1 DEF Emit
  <2>2. Members(queue)' = Members(queue) \cup {e}
    BY <2>1, Appended DEF TypeOK
  <2>3. Fresh' \subseteq Fresh
    BY <2>1, <2>2 DEF Fresh, Retried
  <2> QED BY <1>w, <2>1, <2>3, TriedKept
<1>2. CASE Restart
  <2>1. /\ work' = [w \in Workers |-> Idle] /\ req' = [c \in Handlers |-> Free]
        /\ UNCHANGED <<queue, failed, emitted, tried>>
    BY <1>2 DEF Restart
  <2>2. Fresh' \subseteq Fresh
    BY <2>1 DEF Fresh, Retried, Free, Idle, Early
  <2> QED BY <2>1, <2>2, TriedSame DEF Underway, Idle
<1>3. CASE RedisLost
  <2>1. /\ queue' = <<>> /\ failed' = <<>> /\ UNCHANGED <<work, req, emitted, tried>>
    BY <1>3 DEF RedisLost
  <2>2. Fresh' \subseteq Fresh
    BY <2>1, Emptied DEF Fresh, Retried
  <2> QED BY <1>w, <2>1, <2>2, TriedKept
<1>4. ASSUME UNCHANGED <<queue, failed, work, req, emitted, tried>> PROVE TriedInv'
  <2>1. Retried' = Retried
    BY <1>4 DEF Retried
  <2> QED BY <1>4, <1>w, <2>1, FreshKept, TriedKept
<1> QED
  BY <1>1, <1>2, <1>3, <1>4 DEF Other, RebuildRead, RebuildSwap, RebuildFails

LEMMA TriedStep == TypeOK /\ PlaceInv /\ TriedInv /\ [Next]_vars => TriedInv'
<1> SUFFICES ASSUME TypeOK, PlaceInv, TriedInv, [Next]_vars PROVE TriedInv'
  OBVIOUS
<1>1. CASE Next
  BY <1>1, TriedWorker, TriedHandler, TriedOther DEF Next, Other
<1>2. CASE UNCHANGED vars
  <2>1. KeepsJobs /\ Retried' = Retried
    BY <1>2 DEF vars, KeepsJobs, Retried
  <2> QED BY <1>2, <2>1, FreshKept, TriedKept DEF vars
<1> QED BY <1>1, <1>2

\* No event is dispatched to a hook twice, however often its job is dead-lettered
\* and retried and whichever workers take it: a job is put back only before its
\* first delivery.
THEOREM TriedOnceCorrect == Spec => []TriedOnce
<1>1. TriedInv => TriedOnce
  BY DEF TriedInv
<1> QED BY <1>1, TriedInit, TriedStep, PlaceInit, PlaceStep, TypeCorrect, PTL DEF Spec

-----------------------------------------------------------------------------
(* No hook is passed over.                                                  *)

\* who has subscribed ever since still matches ...
SteadyMatch == \A e \in Events : steady[e] \subseteq Matches(e)

\* ... and is still to be dispatched to, or has been
SteadyServed == \A w \in Workers : Underway(w) =>
  \A h \in steady[work[w].ev] : h \in work[w].todo \/ tried[work[w].ev][h] >= 1

SkipInv == SteadyMatch /\ SteadyServed /\ NothingSkipped

LEMMA SkipInit == Init => SkipInv
  BY DEF Init, SkipInv, SteadyMatch, SteadyServed, NothingSkipped, Underway, Idle

\* Nobody joins the steady hooks of an event that has been queued.
Shrinks == \A e \in emitted : steady'[e] \subseteq steady[e]

LEMMA UnderwayEmitted ==
  ASSUME TypeOK, PlaceInv, NEW w \in Workers, Underway(w)
  PROVE  work[w].ev \in Events /\ work[w].ev \in emitted
<1>1. work[w].ev \in Events
  BY DEF TypeOK, Jobs, Underway
<1>2. work[w].ev \in Place("work") /\ "work" \in Kinds
  BY <1>1, HookAssumption DEF Place, Busy, Kinds
<1> QED BY <1>1, <1>2 DEF PlaceInv, Somewhere

\* A step that loads, dispatches and finishes nothing.
LEMMA SkipServed ==
  ASSUME TypeOK, PlaceInv, SkipInv, Shrinks, UNCHANGED <<done, tried>>,
         \A v \in Workers : Underway(v)' =>
           Underway(v) /\ work'[v].ev = work[v].ev /\ work'[v].todo = work[v].todo
  PROVE  SteadyServed' /\ NothingSkipped'
<1>1. SteadyServed'
  BY UnderwayEmitted DEF SkipInv, SteadyServed, Shrinks
<1>2. done \subseteq emitted
  BY DEF PlaceInv, Somewhere, Place, Kinds
<1> QED BY <1>1, <1>2 DEF SkipInv, NothingSkipped, Shrinks

LEMMA SkipSame ==
  ASSUME TypeOK, PlaceInv, SkipInv, UNCHANGED <<hooks, steady, done, tried>>,
         \A v \in Workers : Underway(v)' =>
           Underway(v) /\ work'[v].ev = work[v].ev /\ work'[v].todo = work[v].todo
  PROVE  SkipInv'
<1>1. SteadyMatch'
  BY DEF SkipInv, SteadyMatch, Matches
<1> QED BY <1>1, SkipServed DEF SkipInv, Shrinks

LEMMA KeepsUnderway ==
  ASSUME KeepsJobs
  PROVE  \A v \in Workers : Underway(v)' =>
           Underway(v) /\ work'[v].ev = work[v].ev /\ work'[v].todo = work[v].todo
  BY DEF KeepsJobs, Underway

\* The row of h changes, and the events that it no longer matches give it up.
LEMMA SkipEdit ==
  ASSUME TypeOK, PlaceInv, SkipInv, UNCHANGED <<done, tried>>, KeepsJobs,
         NEW h \in Hooks, NEW row, hooks' = [hooks EXCEPT ![h] = row],
         \A e \in Events : steady'[e] \subseteq steady[e],
         \A e \in Events : h \in steady'[e] => row.state = "on" /\ e.action \in row.events
  PROVE  SkipInv'
<1>1. hooks'[h] = row /\ \A g \in Hooks \ {h} : hooks'[g] = hooks[g]
  BY DEF TypeOK
<1>2. SteadyMatch'
  <2> SUFFICES ASSUME NEW e \in Events, NEW g \in steady'[e] PROVE g \in Matches(e)'
    BY DEF SteadyMatch
  <2>1. g \in Matches(e)
    BY DEF SkipInv, SteadyMatch
  <2> QED BY <1>1, <2>1 DEF Matches
<1>3. Shrinks
  BY DEF Shrinks, TypeOK
<1> QED BY <1>2, <1>3, KeepsUnderway, SkipServed DEF SkipInv

\* Whom Unsubscribe leaves subscribed.
LEMMA Unsubscribed ==
  ASSUME TypeOK, NEW h, NEW acts, Unsubscribe(h, acts)
  PROVE  \A e \in Events : /\ steady'[e] \subseteq steady[e]
                           /\ e.action \in acts => h \notin steady'[e]
  BY DEF Unsubscribe

LEMMA SkipDelivery ==
  ASSUME TypeOK, PlaceInv, SkipInv, NEW w \in Workers, Delivery(w)
  PROVE  SkipInv'
<1> DEFINE h == work[w].hook
<1>k. KeepsJobs /\ UNCHANGED <<done, tried>>
  BY JobsKept
<1>u. \A v \in Workers : Underway(v)' =>
        Underway(v) /\ work'[v].ev = work[v].ev /\ work'[v].todo = work[v].todo
  BY <1>k, KeepsUnderway
<1>m. \A e \in Events : h \in steady[e] => hooks[h].state = "on" /\ e.action \in hooks[h].events
  BY DEF SkipInv, SteadyMatch, Matches
<1>1. CASE UNCHANGED <<hooks, steady>>
  BY <1>1, <1>k, <1>u, SkipSame
<1>2. CASE RecordSuccess(w) /\ hooks' # hooks
  <2>1. h \in Hooks /\ steady' = steady /\ hooks' = [hooks EXCEPT ![h] = Healed(hooks[h])]
    BY <1>2 DEF RecordSuccess, At, TypeOK, Jobs
  <2> DEFINE row == Healed(hooks[h])
  <2>2. row.state = hooks[h].state /\ row.events = hooks[h].events
    BY <2>1 DEF TypeOK, Rows, Healed
  <2> HIDE DEF row, h
  <2> QED BY <1>k, <1>m, <2>1, <2>2, SkipEdit DEF row
<1>3. CASE RecordFailure(w) /\ hooks' # hooks
  <2> DEFINE row == [hooks[h] EXCEPT !.failures = @ + 1]
  <2>1. h \in Hooks /\ steady' = steady /\ hooks' = [hooks EXCEPT ![h] = row]
    BY <1>3 DEF RecordFailure, At, TypeOK, Jobs
  <2>2. row.state = hooks[h].state /\ row.events = hooks[h].events
    BY <2>1 DEF TypeOK, Rows
  <2> HIDE DEF row, h
  <2> QED BY <1>k, <1>m, <2>1, <2>2, SkipEdit
<1>4. CASE Disable(w) /\ ~UNCHANGED <<hooks, steady>>
  <2> DEFINE row == [hooks[h] EXCEPT !.state = "off"]
  <2>1. /\ h \in Hooks /\ Unsubscribe(h, Actions) /\ hooks' = [hooks EXCEPT ![h] = row]
    BY <1>4 DEF Disable, At, TypeOK, Jobs
  <2>2. \A e \in Events : steady'[e] \subseteq steady[e] /\ h \notin steady'[e]
    BY <2>1, Unsubscribed, HookAssumption
  <2> HIDE DEF row, h
  <2> QED BY <1>k, <2>1, <2>2, SkipEdit
<1> QED
  BY <1>1, <1>2, <1>3, <1>4
  DEF Delivery, LoadFails, Attempt, RecordSuccess, RecordFailure, Judge, RefreshCount,
      RefreshWrite

LEMMA SkipWorker ==
  ASSUME TypeOK, PlaceInv, SkipInv, NEW w \in Workers, WorkerStep(w)
  PROVE  SkipInv'
<1> DEFINE j == work[w]
<1>j. j \in Jobs
  BY DEF TypeOK
<1>p. ASSUME NEW r, work' = [work EXCEPT ![w] = r]
      PROVE  work'[w] = r /\ \A v \in Workers \ {w} : work'[v] = work[v]
  BY <1>p DEF TypeOK
<1>i. Idle.pc = "idle"
  BY DEF Idle
<1>d. \A v \in Workers \ {w} : Underway(v) => work[v].ev # j.ev
  BY UnderwayEmitted, HookAssumption DEF PlaceInv, Once, OneWorker
<1> USE DEF At, history
<1>1. CASE Take(w)
  <2> DEFINE r == [Idle EXCEPT !.pc = "load", !.ev = Head(queue)]
  <2>1. work' = [work EXCEPT ![w] = r] /\ UNCHANGED <<hooks, steady, done, tried>>
    BY <1>1 DEF Take
  <2>2. r.pc = "load"
    BY DEF Idle
  <2> HIDE DEF r
  <2>3. work'[w] = r /\ \A v \in Workers \ {w} : work'[v] = work[v]
    BY <1>p, <2>1
  <2> QED BY <2>1, <2>2, <2>3, SkipSame DEF Underway, Early
<1>2. CASE DeadLetter(w)
  <2>1. work' = [work EXCEPT ![w] = Idle] /\ UNCHANGED <<hooks, steady, done, tried>>
    BY <1>2 DEF DeadLetter
  <2>2. work'[w] = Idle /\ \A v \in Workers \ {w} : work'[v] = work[v]
    BY <1>p, <2>1
  <2> QED BY <1>i, <2>1, <2>2, SkipSame DEF Underway
<1>3. CASE Load(w)
  <2> DEFINE r == [j EXCEPT !.pc = "next", !.todo = Matches(j.ev)]
  <2>1. work' = [work EXCEPT ![w] = r] /\ UNCHANGED <<hooks, steady, done, tried>>
    BY <1>3 DEF Load
  <2>2. r.ev = j.ev /\ r.todo = Matches(j.ev) /\ j.ev \in Events
    BY <1>3, <1>j DEF Jobs, Load
  <2> HIDE DEF r
  <2>3. work'[w] = r /\ \A v \in Workers \ {w} : work'[v] = work[v]
    BY <1>p, <2>1
  <2>4. SteadyMatch' /\ NothingSkipped'
    BY <2>1 DEF SkipInv, SteadyMatch, Matches, NothingSkipped
  <2>5. SteadyServed'
    BY <2>1, <2>2, <2>3 DEF SkipInv, SteadyMatch, SteadyServed, Underway
  <2> QED BY <2>4, <2>5 DEF SkipInv
<1>4. CASE Begin(w)
  <2> PICK h \in j.todo :
        /\ work' = [work EXCEPT ![w].pc = "send", ![w].todo = @ \ {h},
                                ![w].hook = h, ![w].tries = 1]
        /\ tried' = [tried EXCEPT ![work[w].ev][h] = @ + 1]
    BY <1>4 DEF Begin
  <2> DEFINE r == [j EXCEPT !.pc = "send", !.todo = @ \ {h}, !.hook = h, !.tries = 1]
             e == j.ev
  <2>1. work' = [work EXCEPT ![w] = r] /\ j.pc = "next" /\ UNCHANGED <<hooks, steady, done>>
    BY <1>4 DEF Begin
  <2>2. r.ev = e /\ r.todo = j.todo \ {h} /\ h \in Hooks /\ e \in Events
    BY <1>j, <2>1 DEF Jobs
  <2>3. /\ \A f \in Events, g \in Hooks : tried'[f][g] = tried[f][g] \/ (f = e /\ g = h)
        /\ tried'[e][h] = tried[e][h] + 1 /\ tried[e][h] \in Nat
    <3>1. tried[e] \in [Hooks -> Nat] /\ tried \in [Events -> [Hooks -> Nat]]
      BY <2>2 DEF TypeOK
    <3>2. tried' = [tried EXCEPT ![e] = [tried[e] EXCEPT ![h] = tried[e][h] + 1]]
      OBVIOUS
    <3> HIDE DEF e
    <3> QED BY <2>2, <3>1, <3>2
  <2> HIDE DEF r, e
  <2>4. work'[w] = r /\ \A v \in Workers \ {w} : work'[v] = work[v]
    BY <1>p, <2>1
  <2>5. \A f \in Events, g \in Hooks : tried[f][g] >= 1 => tried'[f][g] >= 1
    BY <2>2, <2>3
  <2>6. tried'[e][h] >= 1
    BY <2>3
  <2>7. SteadyMatch'
    BY <2>1 DEF SkipInv, SteadyMatch, Matches
  <2>8. NothingSkipped'
    BY <2>1, <2>5 DEF SkipInv, NothingSkipped, TypeOK
  <2>9. SteadyServed'
    <3> SUFFICES ASSUME NEW v \in Workers, Underway(v)', NEW g \in steady'[work'[v].ev]
                 PROVE  g \in work'[v].todo \/ tried'[work'[v].ev][g] >= 1
      BY DEF SteadyServed
    <3>1. /\ work'[v].ev = work[v].ev /\ work[v].ev \in Events /\ Underway(v)
          /\ work'[v].todo = work[v].todo \/ v = w
      <4>1. CASE v = w
        BY <2>1, <2>2, <2>4, <4>1 DEF Underway, Early, e
      <4>2. CASE v # w
        BY <2>4, <4>2, UnderwayEmitted DEF Underway
      <4> QED BY <4>1, <4>2
    <3>2. g \in Hooks
      BY <2>1, <3>1 DEF TypeOK
    <3>3. g \in work[v].todo \/ tried[work[v].ev][g] >= 1
      BY <2>1, <3>1 DEF SkipInv, SteadyServed
    <3>4. CASE tried[work[v].ev][g] >= 1
      BY <2>5, <3>1, <3>2, <3>4
    <3>5. CASE g \in work[v].todo
      <4>1. CASE v = w
        BY <2>2, <2>4, <2>6, <3>1, <3>5, <4>1 DEF e
      <4>2. CASE v # w
        BY <3>1, <3>5, <4>2
      <4> QED BY <4>1, <4>2
    <3> QED BY <3>3, <3>4, <3>5
  <2> QED BY <2>7, <2>8, <2>9 DEF SkipInv
<1>5. CASE Finish(w)
  <2>1. /\ work' = [work EXCEPT ![w] = Idle] /\ j.pc = "next" /\ j.todo = {}
        /\ done' = done \cup {j.ev} /\ UNCHANGED <<hooks, steady, tried>>
    BY <1>5 DEF Finish
  <2>2. work'[w] = Idle /\ \A v \in Workers \ {w} : work'[v] = work[v]
    BY <1>p, <2>1
  <2>3. SteadyMatch'
    BY <2>1 DEF SkipInv, SteadyMatch, Matches
  <2>4. SteadyServed'
    BY <1>i, <2>1, <2>2 DEF SkipInv, SteadyServed, Underway
  <2>5. \A h \in steady[j.ev] : tried[j.ev][h] >= 1
    BY <2>1 DEF SkipInv, SteadyServed, Underway, Early
  <2>6. NothingSkipped'
    BY <2>1, <2>5 DEF SkipInv, NothingSkipped
  <2> QED BY <2>3, <2>4, <2>6 DEF SkipInv
<1>6. CASE Delivery(w)
  BY <1>6, SkipDelivery
<1> QED
  BY <1>1, <1>2, <1>3, <1>4, <1>5, <1>6 DEF WorkerStep, Delivery

LEMMA SkipHandler ==
  ASSUME TypeOK, PlaceInv, SkipInv, NEW c \in Handlers, HandlerStep(c) \/ Request(c)
  PROVE  SkipInv'
<1>e. Edit(c) => KeepsJobs /\ UNCHANGED <<done, tried>>
  BY EditKeeps
<1>w. work' = work => KeepsJobs
  BY DEF KeepsJobs
<1>s. KeepsJobs /\ UNCHANGED <<hooks, steady, done, tried>> => SkipInv'
  BY KeepsUnderway, SkipSame
<1> USE DEF history
<1>1. CASE CreateCheck(c) \/ EditCount(c) \/ EditWrite(c)
  BY <1>1, <1>w, <1>s DEF CreateCheck, EditCount, EditWrite
<1>2. CASE CreateInsert(c)
  <2>1. KeepsJobs /\ UNCHANGED <<steady, done, tried>>
    BY <1>2, <1>w DEF CreateInsert
  <2>2. CASE hooks' = hooks
    BY <1>s, <2>1, <2>2
  <2>3. CASE hooks' # hooks
    <3>1. PICK h \in Hooks, acts \in SUBSET Actions, st \in {"on", "off"} :
            /\ hooks[h].state = "none"
            /\ hooks' = [hooks EXCEPT ![h] = [state |-> st, events |-> acts, failures |-> 0]]
      BY <1>2, <2>3 DEF CreateInsert
    <3> DEFINE row == [state |-> st, events |-> acts, failures |-> 0]
    <3>2. hooks' = [hooks EXCEPT ![h] = row]
      BY <3>1
    <3>3. \A e \in Events : h \notin steady'[e]
      BY <2>1, <3>1 DEF SkipInv, SteadyMatch, Matches
    <3> HIDE DEF row
    <3> QED BY <2>1, <3>2, <3>3, SkipEdit
  <2> QED BY <2>2, <2>3
<1>3. CASE Update(c)
  <2>1. PICK h \in Hooks, acts \in (SUBSET Actions) \ {{}}, st \in {"on", "off", "kept"} :
          /\ hooks' = [hooks EXCEPT ![h] = Edited(@, st, acts)]
          /\ Unsubscribe(h, IF st = "off" THEN Actions ELSE Actions \ acts)
    BY <1>3 DEF Update
  <2> DEFINE row == Edited(hooks[h], st, acts)
             gone == IF st = "off" THEN Actions ELSE Actions \ acts
  <2>2. hooks' = [hooks EXCEPT ![h] = row]
    BY <2>1
  <2>3. row.events = acts /\ row.state = (IF st = "kept" THEN hooks[h].state ELSE st)
    BY DEF Edited
  <2>4. \A e \in Events : /\ steady'[e] \subseteq steady[e]
                          /\ e.action \in gone => h \notin steady'[e]
    <3> HIDE DEF gone
    <3>1. Unsubscribe(h, gone)
      BY <2>1 DEF gone
    <3> QED BY <3>1, Unsubscribed
  <2>5. \A e \in Events : h \in steady'[e] => row.state = "on" /\ e.action \in row.events
    <3> SUFFICES ASSUME NEW e \in Events, h \in steady'[e]
                 PROVE  row.state = "on" /\ e.action \in row.events
      OBVIOUS
    <3>1. hooks[h].state = "on"
      BY <2>4 DEF SkipInv, SteadyMatch, Matches
    <3>2. e.action \in Actions /\ e.action \notin gone
      BY <2>4, HookAssumption
    <3> QED BY <2>3, <3>1, <3>2
  <2> HIDE DEF row, gone
  <2> QED BY <1>3, <1>e, <2>2, <2>4, <2>5, SkipEdit DEF Edit
<1>4. CASE Delete(c)
  <2>1. PICK h \in Hooks :
          /\ hooks' = [hooks EXCEPT ![h] = [hooks[h] EXCEPT !.state = "deleted"]]
          /\ Unsubscribe(h, Actions)
    BY <1>4 DEF Delete
  <2>2. \A e \in Events : steady'[e] \subseteq steady[e] /\ h \notin steady'[e]
    BY <2>1, Unsubscribed, HookAssumption
  <2> DEFINE row == [hooks[h] EXCEPT !.state = "deleted"]
  <2>3. hooks' = [hooks EXCEPT ![h] = row]
    BY <2>1
  <2> HIDE DEF row
  <2> QED BY <1>4, <1>e, <2>2, <2>3, SkipEdit DEF Edit
<1>5. CASE RetryPop(c)
  BY <1>5, <1>w, <1>s DEF RetryPop
<1>6. CASE RetryPush(c)
  BY <1>6, <1>w, <1>s DEF RetryPush
<1>7. CASE Clear(c)
  BY <1>7, <1>w, <1>s DEF Clear
<1> QED
  BY <1>1, <1>2, <1>3, <1>4, <1>5, <1>6, <1>7 DEF HandlerStep, Request

LEMMA SkipOther ==
  ASSUME TypeOK, PlaceInv, SkipInv, Other
  PROVE  SkipInv'
<1>w. work' = work => KeepsJobs
  BY DEF KeepsJobs
<1> USE DEF history
<1>1. ASSUME NEW e \in Events, Emit(e) PROVE SkipInv'
  <2>1. /\ e \notin emitted /\ steady' = [steady EXCEPT ![e] = Matches(e)]
        /\ UNCHANGED <<hooks, work, done, tried>>
    BY <1>1 DEF Emit
  <2>2. /\ steady'[e] = Matches(e) /\ \A f \in Events \ {e} : steady'[f] = steady[f]
    BY <2>1 DEF TypeOK
  <2>3. SteadyMatch'
    BY <2>1, <2>2 DEF SkipInv, SteadyMatch, Matches
  <2>4. Shrinks
    BY <2>1, <2>2 DEF Shrinks, TypeOK
  <2>5. SteadyServed' /\ NothingSkipped'
    BY <1>w, <2>1, <2>4, KeepsUnderway, SkipServed
  <2> QED BY <2>3, <2>5 DEF SkipInv
<1>2. CASE Restart
  <2>1. work' = [w \in Workers |-> Idle] /\ UNCHANGED <<hooks, steady, done, tried>>
    BY <1>2 DEF Restart
  <2> QED BY <2>1, SkipSame DEF Underway, Idle
<1>3. ASSUME UNCHANGED <<hooks, work, steady, done, tried>> PROVE SkipInv'
  BY <1>3, <1>w, KeepsUnderway, SkipSame
<1> QED
  BY <1>1, <1>2, <1>3 DEF Other, RebuildRead, RebuildSwap, RebuildFails, RedisLost

LEMMA SkipStep == TypeOK /\ PlaceInv /\ SkipInv /\ [Next]_vars => SkipInv'
<1> SUFFICES ASSUME TypeOK, PlaceInv, SkipInv, [Next]_vars PROVE SkipInv'
  OBVIOUS
<1>1. CASE Next
  BY <1>1, SkipWorker, SkipHandler, SkipOther DEF Next, Other
<1>2. CASE UNCHANGED vars
  <2>1. KeepsJobs
    BY <1>2 DEF vars, KeepsJobs
  <2> QED BY <1>2, <2>1, KeepsUnderway, SkipSame DEF vars
<1> QED BY <1>1, <1>2

\* A finished job has dispatched its event to every hook that has subscribed to it
\* since it was queued, whatever the others' endpoints do and the owner edits.
THEOREM SkippedCorrect == Spec => []NothingSkipped
<1>1. SkipInv => NothingSkipped
  BY DEF SkipInv
<1> QED BY <1>1, SkipInit, SkipStep, PlaceInit, PlaceStep, TypeCorrect, PTL DEF Spec

=============================================================================
