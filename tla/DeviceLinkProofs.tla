---------------------------- MODULE DeviceLinkProofs ----------------------------
(***************************************************************************)
(* Theorems about device linking, for any number of handlers, sessions,    *)
(* requests and failures: no session's tokens are delivered twice, and a   *)
(* record without a TTL is a handler's to finish unless Redis failed; and, *)
(* of requests that do not overlap, that an approval carries its tokens    *)
(* and that the documented state machine is followed.                      *)
(***************************************************************************)
EXTENDS DeviceLink, TLAPS

USE LinkAssumption

--------------------------------------------------------------------------------
(* Type correctness. *)

\* What a handler's bookkeeping operators do to req.
LEMMA ThenType ==
  ASSUME TypeOK, NEW h \in Handlers, NEW c \in Commands, Then(h, c)
  PROVE  req' \in [Handlers -> Request]
  BY DEF TypeOK, Then, Do, Request

LEMMA TypeStep ==
  ASSUME TypeOK, [Next]_vars
  PROVE  TypeOK'
<1>0. serial' \in BOOLEAN
  BY DEF Next, vars, TypeOK
<1>1. CASE UNCHANGED vars
  BY <1>1 DEF TypeOK, vars
<1>2. ASSUME NEW h \in Handlers, Create(h) PROVE TypeOK'
  <2>1. req' \in [Handlers -> Request]
    BY <1>2, ThenType DEF Create, Commands
  <2>2. requests' \in 0 .. MaxRequests
    BY <1>2 DEF Create, Arrives, TypeOK
  <2>. QED
    BY <1>0, <1>2, <2>1, <2>2 DEF Create, TypeOK, Pair, History
<1>3. ASSUME NEW h \in Handlers, ClaimRead(h) PROVE TypeOK'
  <2>1. req' \in [Handlers -> Request]
    BY <1>3, ThenType DEF ClaimRead, Commands
  <2>. QED
    BY <1>0, <1>3, <2>1 DEF ClaimRead, Arrives, TypeOK, History
<1>4. ASSUME NEW h \in Handlers, ApproveRead(h) PROVE TypeOK'
  <2>1. req' \in [Handlers -> Request]
    BY <1>4 DEF ApproveRead, TypeOK, Request, Commands, Sessions
  <2>. QED
    BY <1>0, <1>4, <2>1 DEF ApproveRead, Arrives, TypeOK, History
<1>5. ASSUME NEW h \in Handlers, DenyRead(h) PROVE TypeOK'
  <2>1. req' \in [Handlers -> Request]
    BY <1>5, ThenType DEF DenyRead, Commands
  <2>. QED
    BY <1>0, <1>5, <2>1 DEF DenyRead, Arrives, TypeOK, History
<1>6. ASSUME NEW h \in Handlers, ClaimWrite(h) PROVE TypeOK'
  <2>1. req' \in [Handlers -> Request]
    BY <1>6, ThenType DEF ClaimWrite, Commands
  <2>. QED
    BY <1>0, <1>6, <2>1 DEF ClaimWrite, TypeOK, Pair, History
<1>7. ASSUME NEW h \in Handlers, ApproveWrite(h) PROVE TypeOK'
  <2>1. req' \in [Handlers -> Request]
    BY <1>7, ThenType DEF ApproveWrite, Commands
  <2>2. req[h].session \in Sessions \cup {NoTokens}
    BY DEF TypeOK, Request
  <2>. QED
    BY <1>0, <1>7, <2>1, <2>2 DEF ApproveWrite, TypeOK, Pair, History
<1>8. ASSUME NEW h \in Handlers, DenyWrite(h) PROVE TypeOK'
  <2>1. req' \in [Handlers -> Request]
    BY <1>8, ThenType DEF DenyWrite, Commands
  <2>. QED
    BY <1>0, <1>8, <2>1 DEF DenyWrite, TypeOK, Pair, History
<1>9. ASSUME NEW h \in Handlers, DenyDrop(h) PROVE TypeOK'
  <2>1. req' \in [Handlers -> Request]
    BY <1>9, ThenType DEF DenyDrop, Commands
  <2>. QED
    BY <1>0, <1>9, <2>1 DEF DenyDrop, TypeOK, Pair, History
<1>10. ASSUME NEW h \in Handlers, SetTtl(h) PROVE TypeOK'
  <2>1. req' \in [Handlers -> Request] /\ code' \in {"none", "creating", "shown"}
    BY <1>10, ThenType DEF SetTtl, Answer, Commands, TypeOK
  <2>. QED
    BY <1>0, <1>10, <2>1 DEF SetTtl, TypeOK, Pair, History
<1>11. ASSUME NEW h \in Handlers, Fail(h) PROVE TypeOK'
  <2>1. req' \in [Handlers -> Request] /\ code' \in {"none", "creating", "shown"}
    BY <1>11, ThenType DEF Fail, Answer, Commands, TypeOK
  <2>2. failures' \in 0 .. MaxFailures
    BY <1>11 DEF Fail, TypeOK
  <2>. QED
    BY <1>0, <1>11, <2>1, <2>2 DEF Fail, TypeOK, History
<1>12. CASE Poll
  <2>1. delivered' \in [Sessions -> Nat]
    <3>1. CASE pair.tokens = NoTokens
      BY <1>12, <3>1 DEF Poll, TypeOK
    <3>2. CASE pair.tokens # NoTokens
      BY <1>12, <3>2 DEF Poll, TypeOK, Pair
    <3>. QED
      BY <3>1, <3>2
  <2>2. blank' \in BOOLEAN
    BY <1>12, Zenon DEF Poll, TypeOK
  <2>3. pair' \in Pair
    BY <1>12 DEF Poll, TypeOK, Pair
  <2>4. UNCHANGED <<code, req, minted, requests, failures>>
    BY <1>12 DEF Poll
  <2>. QED
    BY <1>0, <2>1, <2>2, <2>3, <2>4 DEF TypeOK
<1>13. CASE Expire
  BY <1>0, <1>13 DEF Expire, Gone, TypeOK, Pair, History
<1>. QED
  BY <1>1, <1>2, <1>3, <1>4, <1>5, <1>6, <1>7, <1>8, <1>9, <1>10, <1>11, <1>12,
     <1>13 DEF Next

LEMMA TypeInit == Init => TypeOK
<1>. SUFFICES ASSUME Init PROVE TypeOK
  OBVIOUS
<1>1. pair \in Pair
  BY DEF Init, Gone, Pair
<1>2. req \in [Handlers -> Request]
  BY DEF Init, Do, Request, Commands
<1>3. 0 \in 0 .. MaxSessions /\ 0 \in 0 .. MaxRequests /\ 0 \in 0 .. MaxFailures
  OBVIOUS
<1>4. delivered \in [Sessions -> Nat]
  BY DEF Init
<1>. QED
  BY <1>1, <1>2, <1>3, <1>4, Zenon DEF Init, TypeOK

\* Every variable of the pairing protocol keeps its type (the hash, the
\* requests and the counters of handlers_device_link.go).
THEOREM TypeCorrect == Spec => []TypeOK
<1>1. TypeOK /\ [Next]_vars => TypeOK'
  BY TypeStep
<1>. QED
  BY TypeInit, <1>1, PTL DEF Spec

--------------------------------------------------------------------------------
(* No session is delivered twice. *)

\* A session that may still be delivered has not been: one that is not minted
\* yet, one whose tokens are in the hash, one that a handler is about to write.
\* And each waits in one place only.
Waiting(s) ==
  \/ s > minted
  \/ s = pair.tokens
  \/ \E h \in Handlers : s = req[h].session

Undelivered == \A s \in Sessions : Waiting(s) => delivered[s] = 0

Apart ==
  /\ pair.tokens <= minted
  /\ \A h \in Handlers :
       /\ req[h].session <= minted
       /\ req[h].session # NoTokens =>
            /\ req[h].session # pair.tokens
            /\ \A g \in Handlers \ {h} : req[g].session # req[h].session

OnceInv == TypeOK /\ DeliveredOnce /\ Undelivered /\ Apart

LEMMA OnceInit == Init => OnceInv
<1>. SUFFICES ASSUME Init PROVE OnceInv
  OBVIOUS
<1>1. TypeOK
  BY TypeInit
<1>. QED
  BY <1>1 DEF Init, OnceInv, DeliveredOnce, Undelivered, Apart, Waiting, Gone, Do,
    NoTokens, Sessions

\* A step that delivers nothing, mints nothing and at most forgets waiting
\* sessions.
LEMMA ForgetStep ==
  ASSUME OnceInv, TypeOK', UNCHANGED <<minted, delivered>>,
         pair'.tokens \in {pair.tokens, NoTokens},
         NEW h \in Handlers,
         NEW c \in Commands, req' = [req EXCEPT ![h] = Do(c)] \/ req' = req
  PROVE  OnceInv'
<1>1. \A g \in Handlers : req'[g].session \in {req[g].session, NoTokens}
  BY DEF OnceInv, TypeOK, Do, Request
<1>2. \A s \in Sessions : Waiting(s)' => Waiting(s)
  BY <1>1 DEF Waiting, Sessions, NoTokens
<1>3. Undelivered'
  BY <1>2 DEF OnceInv, Undelivered
<1>4. Apart'
  <2>1. pair'.tokens <= minted' /\ \A g \in Handlers : req'[g].session <= minted'
    BY <1>1 DEF OnceInv, Apart, NoTokens, TypeOK
  <2>. QED
    BY <2>1, <1>1 DEF OnceInv, Apart, NoTokens
<1>. QED
  BY <1>3, <1>4 DEF OnceInv, DeliveredOnce

LEMMA OnceStep ==
  ASSUME OnceInv, [Next]_vars
  PROVE  OnceInv'
<1>. TypeOK' /\ TypeOK
  BY TypeStep DEF OnceInv
<1>1. CASE UNCHANGED vars
  BY <1>1 DEF OnceInv, vars, DeliveredOnce, Undelivered, Waiting, Apart
<1>2. ASSUME NEW h \in Handlers,
             Create(h) \/ ClaimRead(h) \/ DenyRead(h) \/ ClaimWrite(h)
               \/ DenyWrite(h) \/ DenyDrop(h) \/ SetTtl(h) \/ Fail(h)
      PROVE  OnceInv'
  <2>1. UNCHANGED <<minted, delivered>> /\ pair'.tokens \in {pair.tokens, NoTokens}
    BY <1>2 DEF Create, ClaimRead, DenyRead, ClaimWrite, DenyWrite, DenyDrop, SetTtl,
      Fail, History, TypeOK, Pair
  <2>2. \E c \in Commands : Then(h, c)
    BY <1>2 DEF Create, ClaimRead, DenyRead, ClaimWrite, DenyWrite, DenyDrop, SetTtl,
      Fail, Answer, Commands
  <2>. QED
    BY <2>1, <2>2, ForgetStep DEF Then
<1>3. ASSUME NEW h \in Handlers, ApproveRead(h) PROVE OnceInv'
  <2>1. /\ minted' = minted + 1 /\ minted + 1 \in Sessions
        /\ UNCHANGED <<pair, delivered>>
        /\ req' = [req EXCEPT ![h] = [cmd |-> "approve", session |-> minted + 1]]
    BY <1>3 DEF ApproveRead, History, TypeOK, Sessions
  <2>2. req'[h].session = minted + 1 /\ \A g \in Handlers \ {h} : req'[g] = req[g]
    BY <2>1 DEF TypeOK
  <2>3. \A s \in Sessions : Waiting(s)' => Waiting(s)
    BY <2>1, <2>2 DEF Waiting, TypeOK, Sessions
  <2>4. Undelivered'
    BY <2>1, <2>3 DEF OnceInv, Undelivered
  <2>5. Apart'
    <3>1. \A g \in Handlers : req[g].session <= minted /\ req[g].session \in Nat
      BY DEF OnceInv, Apart, TypeOK, Request, Sessions, NoTokens
    <3>2. pair.tokens <= minted /\ pair.tokens \in Nat
      BY DEF OnceInv, Apart, TypeOK, Pair, Sessions, NoTokens
    <3>3. minted \in Nat
      BY DEF TypeOK
    <3>. QED
      BY <2>1, <2>2, <3>1, <3>2, <3>3 DEF OnceInv, Apart, NoTokens
  <2>. QED
    BY <2>1, <2>4, <2>5 DEF OnceInv, DeliveredOnce
<1>4. ASSUME NEW h \in Handlers, ApproveWrite(h) PROVE OnceInv'
  <2>1. /\ UNCHANGED <<minted, delivered>>
        /\ pair'.tokens = req[h].session
        /\ req'[h].session = NoTokens
        /\ \A g \in Handlers \ {h} : req'[g] = req[g]
    BY <1>4 DEF ApproveWrite, Then, Do, History, TypeOK, Pair
  <2>2. \A s \in Sessions : Waiting(s)' => Waiting(s)
    BY <2>1 DEF Waiting, Sessions, NoTokens
  <2>3. Undelivered'
    BY <2>1, <2>2 DEF OnceInv, Undelivered
  <2>4. Apart'
    BY <2>1 DEF OnceInv, Apart, NoTokens, TypeOK
  <2>. QED
    BY <2>1, <2>3, <2>4 DEF OnceInv, DeliveredOnce
<1>5. CASE Poll
  <2>1. UNCHANGED <<minted, req>> /\ pair'.tokens = NoTokens
    BY <1>5 DEF Poll, TypeOK, Pair
  <2>2. \A s \in Sessions : delivered'[s] # delivered[s] =>
          s = pair.tokens /\ delivered'[s] = delivered[s] + 1
    BY <1>5 DEF Poll, TypeOK
  <2>3. DeliveredOnce'
    BY <2>2 DEF OnceInv, DeliveredOnce, Undelivered, Waiting
  <2>4. ASSUME NEW s \in Sessions, Waiting(s)' PROVE Waiting(s) /\ s # pair.tokens
    <3>1. s \in Nat /\ s # NoTokens /\ minted \in Nat /\ pair.tokens \in Nat
      BY DEF Sessions, NoTokens, TypeOK, Pair
    <3>2. s > minted \/ \E h \in Handlers : s = req[h].session
      BY <2>1, <2>4, <3>1 DEF Waiting
    <3>3. CASE s > minted
      BY <3>1, <3>3 DEF Waiting, OnceInv, Apart
    <3>4. ASSUME NEW h \in Handlers, s = req[h].session
          PROVE  Waiting(s) /\ s # pair.tokens
      BY <3>1, <3>4 DEF Waiting, OnceInv, Apart
    <3>. QED
      BY <3>2, <3>3, <3>4
  <2>5. Undelivered'
    BY <2>2, <2>4 DEF OnceInv, Undelivered
  <2>6. Apart'
    BY <2>1 DEF OnceInv, Apart, NoTokens, TypeOK
  <2>. QED
    BY <2>3, <2>5, <2>6 DEF OnceInv
<1>6. CASE Expire
  <2>1. UNCHANGED <<minted, delivered, req>> /\ pair'.tokens = NoTokens
    BY <1>6 DEF Expire, History, Gone
  <2>2. \A s \in Sessions : Waiting(s)' => Waiting(s)
    BY <2>1 DEF Waiting, Sessions, NoTokens
  <2>3. Undelivered' /\ Apart' /\ DeliveredOnce'
    BY <2>1, <2>2 DEF OnceInv, Undelivered, Apart, DeliveredOnce, NoTokens, TypeOK
  <2>. QED
    BY <2>3 DEF OnceInv
<1>. QED
  BY <1>1, <1>2, <1>3, <1>4, <1>5, <1>6 DEF Next

\* The tokens of a session reach at most one poll, however many claims,
\* approvals, denials and polls of a code overlap (pollConsumeScript).
THEOREM OnceCorrect == Spec => []DeliveredOnce
<1>1. OnceInv /\ [Next]_vars => OnceInv'
  BY OnceStep
<1>2. OnceInv => DeliveredOnce
  BY DEF OnceInv
<1>. QED
  BY OnceInit, <1>1, <1>2, PTL DEF Spec

--------------------------------------------------------------------------------
(* A record without a TTL is a handler's to finish. *)

TtlInv == TypeOK /\ TtlOwed

\* After a step of h that owes a TTL now, or one that leaves the record and the
\* other handlers alone.
LEMMA TtlStep ==
  ASSUME TtlInv, [Next]_vars
  PROVE  TtlInv'
<1>. TypeOK' /\ TypeOK
  BY TypeStep DEF TtlInv
<1>. SUFFICES TtlOwed'
  BY DEF TtlInv
<1>. DEFINE Owing == {"createTtl", "drop", "ttl"}
<1>1. CASE UNCHANGED vars
  BY <1>1 DEF TtlInv, TtlOwed, vars
<1>2. ASSUME NEW h \in Handlers,
             Create(h) \/ ClaimWrite(h) \/ ApproveWrite(h) \/ DenyWrite(h)
               \/ DenyDrop(h)
      PROVE  TtlOwed'
  <2>1. req'[h].cmd \in Owing
    BY <1>2 DEF Create, ClaimWrite, ApproveWrite, DenyWrite, DenyDrop, Then, Do, TypeOK
  <2>. QED
    BY <2>1 DEF TtlOwed
<1>3. ASSUME NEW h \in Handlers, ClaimRead(h) \/ ApproveRead(h) \/ DenyRead(h)
      PROVE  TtlOwed'
  <2>1. /\ UNCHANGED <<pair, failures>> /\ req[h].cmd = "idle"
        /\ \A g \in Handlers \ {h} : req'[g] = req[g]
    BY <1>3 DEF ClaimRead, ApproveRead, DenyRead, Arrives, Runs, Then, TypeOK
  <2>2. \A g \in Handlers : req[g].cmd \in Owing => req'[g].cmd \in Owing
    BY <2>1
  <2>. QED
    BY <2>1, <2>2 DEF TtlInv, TtlOwed
<1>4. ASSUME NEW h \in Handlers, SetTtl(h) PROVE TtlOwed'
  <2>1. pair'.ttl = (pair # Gone)
    <3>1. pair' = [pair EXCEPT !.ttl = pair # Gone]
      BY <1>4 DEF SetTtl
    <3>2. pair = [state |-> pair.state, whole |-> pair.whole, tokens |-> pair.tokens,
                  ttl |-> pair.ttl]
      BY DEF TypeOK, Pair
    <3>. QED
      BY <3>1, <3>2
  <2>2. ASSUME pair = Gone PROVE pair' = Gone
    <3>1. pair' = [Gone EXCEPT !.ttl = pair # Gone] /\ (pair # Gone) = FALSE
      BY <1>4, <2>2, Zenon DEF SetTtl
    <3>2. pair' = [Gone EXCEPT !.ttl = FALSE]
      BY <3>1, Zenon
    <3>. QED
      BY <3>2 DEF Gone
  <2>. QED
    BY <2>1, <2>2 DEF TtlOwed
<1>5. ASSUME NEW h \in Handlers, Fail(h) PROVE TtlOwed'
  BY <1>5 DEF Fail, TypeOK, TtlOwed
<1>6. CASE Poll
  <2>1. pair'.ttl
    BY <1>6 DEF Poll, TypeOK, Pair
  <2>. QED
    BY <2>1 DEF TtlOwed
<1>7. CASE Expire
  BY <1>7 DEF Expire, TtlOwed
<1>. QED
  BY <1>1, <1>2, <1>3, <1>4, <1>5, <1>6, <1>7 DEF Next

\* Unless a Redis command has failed, a hash of pair:<code> without a TTL has a
\* handler that is still to run the PEXPIRE, so no code stays for ever.
THEOREM TtlCorrect == Spec => []TtlOwed
<1>1. Init => TtlInv
  BY TypeInit DEF Init, TtlInv, TtlOwed
<1>2. TtlInv /\ [Next]_vars => TtlInv'
  BY TtlStep
<1>3. TtlInv => TtlOwed
  BY DEF TtlInv
<1>. QED
  BY <1>1, <1>2, <1>3, PTL DEF Spec

--------------------------------------------------------------------------------
(* Requests that do not overlap follow the state machine. *)

Alone == \A g, h \in Handlers : req[g].cmd # "idle" /\ req[h].cmd # "idle" => g = h

\* What the record is like while a request is between its read and its write:
\* Redis may have removed it, and nothing else has happened that matters.
Expected(h) ==
  /\ Runs(h, "claim") => (pair.whole => pair.state = "pending")
  /\ Runs(h, "approve") =>
       req[h].session \in Sessions /\ (pair.whole => pair.state = "awaiting_approval")
  /\ Runs(h, "drop") => (pair.whole => pair.state = "denied")

\* A code that is not there yet is nobody's business.
Unborn == pair = Gone /\ \A h \in Handlers : Runs(h, "idle")

SerialInv ==
  /\ pair.whole => pair.state # "expired"
  /\ code = "none" => Unborn
  /\ serial => /\ Alone /\ ~blank
               /\ pair.whole /\ pair.state = "approved" => pair.tokens # NoTokens
               /\ \A h \in Handlers : Expected(h)

LEMMA SerialInit == Init => SerialInv
  BY DEF Init, SerialInv, Unborn, Alone, Expected, Runs, Do, Gone

\* What a handler's step makes of req.
LEMMA Turn ==
  ASSUME TypeOK, NEW h \in Handlers, NEW r, req' = [req EXCEPT ![h] = r]
  PROVE  req'[h] = r /\ \A g \in Handlers \ {h} : req'[g] = req[g]
  BY DEF TypeOK

LEMMA ThenTurn ==
  ASSUME TypeOK, NEW h \in Handlers, NEW c, Then(h, c)
  PROVE  /\ req'[h].cmd = c /\ req'[h].session = NoTokens
         /\ \A g \in Handlers \ {h} : req'[g] = req[g]
<1>1. req' = [req EXCEPT ![h] = Do(c)]
  BY DEF Then
<1>2. req'[h] = Do(c) /\ \A g \in Handlers \ {h} : req'[g] = req[g]
  BY <1>1, Turn
<1>. QED
  BY <1>2 DEF Do

\* The other handlers are idle beside one that runs.
LEMMA Others ==
  ASSUME SerialInv, serial, NEW h \in Handlers, req[h].cmd # "idle"
  PROVE  \A g \in Handlers \ {h} : req[g].cmd = "idle"
  BY DEF SerialInv, Alone

\* With the other handlers idle, only h is to be looked at.
LEMMA OnlyOne ==
  ASSUME TypeOK, SerialInv, TypeOK', serial' = serial, NEW h \in Handlers,
         serial => /\ \A g \in Handlers \ {h} : req[g].cmd = "idle"
                   /\ Expected(h)' /\ blank' = blank
                   /\ pair'.whole /\ pair'.state = "approved" => pair'.tokens # NoTokens,
         \A g \in Handlers \ {h} : req'[g] = req[g],
         pair'.whole => pair'.state # "expired",
         code' # "none"
  PROVE  SerialInv'
<1>1. ASSUME serial PROVE Alone'
  BY <1>1 DEF Alone
<1>2. ASSUME serial, NEW g \in Handlers PROVE Expected(g)'
  <2>1. CASE g = h
    BY <1>2, <2>1
  <2>2. CASE g # h
    <3>1. req'[g].cmd = "idle"
      BY <1>2, <2>2
    <3>. QED
      BY <3>1 DEF Expected, Runs
  <2>. QED
    BY <2>1, <2>2
<1>. QED
  BY <1>1, <1>2 DEF SerialInv

LEMMA SerialStep ==
  ASSUME TypeOK, SerialInv, [Next]_vars
  PROVE  SerialInv'
<1>. TypeOK'
  BY TypeStep
<1>s. serial' = serial
  BY DEF Next, vars
<1>p. pair = [state |-> pair.state, whole |-> pair.whole, tokens |-> pair.tokens,
              ttl |-> pair.ttl]
  BY DEF TypeOK, Pair
<1>u. ASSUME NEW h \in Handlers, ~Runs(h, "idle") PROVE code # "none"
  BY <1>u DEF SerialInv, Unborn
<1>1. CASE UNCHANGED vars
  BY <1>1 DEF SerialInv, vars, Unborn, Alone, Expected, Runs
<1>2. ASSUME NEW h \in Handlers, Create(h) PROVE SerialInv'
  <2>1. /\ pair' = [state |-> "pending", whole |-> TRUE, tokens |-> NoTokens, ttl |-> FALSE]
        /\ code' = "creating" /\ blank' = blank /\ Then(h, "createTtl")
        /\ serial => \A g \in Handlers \ {h} : req[g].cmd = "idle"
    BY <1>2 DEF Create, History, Arrives, Runs
  <2>2. Expected(h)'
    BY <2>1, ThenTurn DEF Expected, Runs
  <2>. QED
    BY <1>s, <2>1, <2>2, ThenTurn, OnlyOne
<1>3. ASSUME NEW h \in Handlers, ClaimRead(h) PROVE SerialInv'
  <2>1. /\ pair' = pair /\ pair.state = "pending" /\ code' = "shown" /\ code = "shown"
        /\ blank' = blank /\ Then(h, "claim")
        /\ serial => \A g \in Handlers \ {h} : req[g].cmd = "idle"
    BY <1>3 DEF ClaimRead, History, Arrives, Runs
  <2>2. Expected(h)'
    BY <2>1, ThenTurn DEF Expected, Runs
  <2>. QED
    BY <1>s, <2>1, <2>2, ThenTurn, OnlyOne DEF SerialInv
<1>4. ASSUME NEW h \in Handlers, ApproveRead(h) PROVE SerialInv'
  <2>1. /\ pair' = pair /\ pair.state = "awaiting_approval" /\ code' = "shown"
        /\ blank' = blank /\ minted + 1 \in Sessions
        /\ req' = [req EXCEPT ![h] = [cmd |-> "approve", session |-> minted + 1]]
        /\ serial => \A g \in Handlers \ {h} : req[g].cmd = "idle"
    BY <1>4 DEF ApproveRead, History, Arrives, Runs, Sessions, TypeOK
  <2>2. /\ req'[h] = [cmd |-> "approve", session |-> minted + 1]
        /\ \A g \in Handlers \ {h} : req'[g] = req[g]
    BY <2>1, Turn
  <2>3. Expected(h)'
    BY <2>1, <2>2 DEF Expected, Runs
  <2>. QED
    BY <1>s, <2>1, <2>2, <2>3, OnlyOne DEF SerialInv
<1>5. ASSUME NEW h \in Handlers, DenyRead(h) PROVE SerialInv'
  <2>1. /\ pair' = pair /\ code' = "shown"
        /\ blank' = blank /\ Then(h, "deny")
        /\ serial => \A g \in Handlers \ {h} : req[g].cmd = "idle"
    BY <1>5 DEF DenyRead, History, Arrives, Runs
  <2>2. Expected(h)'
    BY <2>1, ThenTurn DEF Expected, Runs
  <2>. QED
    BY <1>s, <2>1, <2>2, ThenTurn, OnlyOne DEF SerialInv
<1>6. ASSUME NEW h \in Handlers, ClaimWrite(h) PROVE SerialInv'
  <2>1. /\ pair'.state = "awaiting_approval" /\ pair'.whole = pair.whole
        /\ code' = code /\ blank' = blank /\ Then(h, "ttl") /\ req[h].cmd = "claim"
    BY <1>6, <1>p DEF ClaimWrite, History, Runs
  <2>2. Expected(h)' /\ code # "none"
    BY <1>u, <2>1, ThenTurn DEF Expected, Runs
  <2>. QED
    BY <1>s, <2>1, <2>2, Others, ThenTurn, OnlyOne DEF SerialInv
<1>7. ASSUME NEW h \in Handlers, ApproveWrite(h) PROVE SerialInv'
  <2>1. /\ pair'.state = "approved" /\ pair'.whole = pair.whole
        /\ pair'.tokens = req[h].session
        /\ code' = code /\ blank' = blank /\ Then(h, "ttl") /\ req[h].cmd = "approve"
    BY <1>7, <1>p DEF ApproveWrite, History, Runs
  <2>2. Expected(h)' /\ code # "none"
    BY <1>u, <2>1, ThenTurn DEF Expected, Runs
  <2>3. serial => pair'.tokens # NoTokens
    BY <2>1 DEF SerialInv, Expected, Runs, Sessions, NoTokens
  <2>. QED
    BY <1>s, <2>1, <2>2, <2>3, Others, ThenTurn, OnlyOne
<1>8. ASSUME NEW h \in Handlers, DenyWrite(h) PROVE SerialInv'
  <2>1. /\ pair'.state = "denied" /\ pair'.whole = pair.whole
        /\ code' = code /\ blank' = blank /\ Then(h, "drop") /\ req[h].cmd = "deny"
    BY <1>8, <1>p DEF DenyWrite, History, Runs
  <2>2. Expected(h)' /\ code # "none"
    BY <1>u, <2>1, ThenTurn DEF Expected, Runs
  <2>. QED
    BY <1>s, <2>1, <2>2, Others, ThenTurn, OnlyOne
<1>9. ASSUME NEW h \in Handlers, DenyDrop(h) PROVE SerialInv'
  <2>1. /\ pair'.state = pair.state /\ pair'.whole = pair.whole
        /\ code' = code /\ blank' = blank /\ Then(h, "ttl") /\ req[h].cmd = "drop"
    BY <1>9, <1>p DEF DenyDrop, History, Runs
  <2>2. Expected(h)' /\ code # "none"
    BY <1>u, <2>1, ThenTurn DEF Expected, Runs
  <2>3. serial /\ pair.whole => pair.state = "denied"
    BY <2>1 DEF SerialInv, Expected, Runs
  <2>4. pair'.whole => pair'.state # "expired"
    BY <2>1 DEF SerialInv
  <2>. QED
    BY <1>s, <2>1, <2>2, <2>3, <2>4, Others, ThenTurn, OnlyOne
<1>10. ASSUME NEW h \in Handlers, SetTtl(h) PROVE SerialInv'
  <2>1. /\ pair'.state = pair.state /\ pair'.whole = pair.whole
        /\ pair'.tokens = pair.tokens
        /\ blank' = blank /\ Then(h, "idle") /\ req[h].cmd \in {"createTtl", "ttl"}
        /\ code' \in {"shown", code}
    BY <1>10, <1>p DEF SetTtl, Answer, History, Runs
  <2>2. Expected(h)' /\ code' # "none"
    BY <1>u, <2>1, ThenTurn DEF Expected, Runs
  <2>3. /\ pair'.whole => pair'.state # "expired"
        /\ serial => (pair'.whole /\ pair'.state = "approved" => pair'.tokens # NoTokens)
    BY <2>1 DEF SerialInv
  <2>4. serial => \A g \in Handlers \ {h} : req[g].cmd = "idle"
    BY <2>1, Others
  <2>. QED
    BY <1>s, <2>1, <2>2, <2>3, <2>4, ThenTurn, OnlyOne
<1>11. ASSUME NEW h \in Handlers, Fail(h) PROVE SerialInv'
  <2>1. ~serial /\ pair' = pair /\ code' \in {"shown", code}
        /\ req[h].cmd # "idle"
    BY <1>11 DEF Fail, Answer, Runs
  <2>. QED
    BY <1>s, <1>u, <2>1 DEF SerialInv, Runs
<1>12. CASE Poll
  <2>1. /\ pair'.state = "consumed" /\ pair.state = "approved" /\ pair.whole
        /\ code' = code /\ req' = req /\ code # "none"
        /\ blank' = blank \/ pair.tokens = NoTokens
    BY <1>12, <1>p DEF Poll
  <2>2. serial => blank' = blank
    BY <2>1 DEF SerialInv
  <2>3. serial => \A h \in Handlers : Expected(h)' /\ Alone'
    BY <2>1 DEF SerialInv, Expected, Runs, Alone
  <2>. QED
    BY <1>s, <2>1, <2>2, <2>3 DEF SerialInv, Alone
<1>13. CASE Expire
  <2>1. pair' = Gone /\ ~Gone.whole /\ UNCHANGED <<code, req, blank>>
    BY <1>13 DEF Expire, History, Gone
  <2>2. serial => \A h \in Handlers : Expected(h)'
    BY <2>1 DEF SerialInv, Expected, Runs
  <2>. QED
    BY <1>s, <2>1, <2>2 DEF SerialInv, Alone, Unborn, Runs
<1>. QED
  BY <1>1, <1>2, <1>3, <1>4, <1>5, <1>6, <1>7, <1>8, <1>9, <1>10, <1>11, <1>12,
     <1>13 DEF Next

\* While requests do not overlap and no command fails, whatever polls and the expiry
\* do, the poll that is told "approved" gets the tokens: a denial removes them only
\* when the state says so.
THEOREM TokensCorrect == Spec => []ApprovedCarriesTokens
<1>1. SerialInv => ApprovedCarriesTokens
  BY DEF SerialInv, ApprovedCarriesTokens
<1>. QED
  BY <1>1, SerialInit, SerialStep, TypeCorrect, PTL DEF Spec

--------------------------------------------------------------------------------
(* The refinement of Pairing. *)

\* What the code is in the state machine.
State == IF ~serial \/ code = "none" THEN "new"
         ELSE IF pair.whole THEN pair.state ELSE "expired"
Session == IF serial /\ pair.whole /\ pair.state = "approved" THEN pair.tokens
           ELSE NoTokens
Delivered == IF serial THEN delivered ELSE [s \in Sessions |-> 0]

LEMMA PairingInit == Init => Machine!Init
<1>. SUFFICES ASSUME Init PROVE Machine!Init
  OBVIOUS
<1>1. State = "new" /\ Session = NoTokens /\ Delivered = [s \in Sessions |-> 0]
  BY DEF Init, State, Session, Delivered, Gone
<1>. QED
  BY <1>1 DEF State, Session, Delivered, Machine!Init, Machine!Sessions, Sessions,
    Machine!NoTokens, NoTokens

LEMMA PairingStep ==
  ASSUME OnceInv, SerialInv, [Next]_vars
  PROVE  [Machine!Next]_Machine!pairing
<1>. TypeOK
  BY DEF OnceInv
<1>s. serial' = serial
  BY DEF Next, vars
<1>p. pair = [state |-> pair.state, whole |-> pair.whole, tokens |-> pair.tokens,
              ttl |-> pair.ttl]
  BY DEF TypeOK, Pair
<1>a. pair.whole => pair.state \in Machine!Alive
  BY DEF SerialInv, TypeOK, Pair, Machine!Alive
<1>u. ASSUME NEW h \in Handlers, ~Runs(h, "idle") PROVE code # "none"
  BY <1>u DEF SerialInv, Unborn
<1>same. ASSUME UNCHANGED <<State, Session, Delivered>> PROVE UNCHANGED Machine!pairing
  BY <1>same DEF State, Session, Delivered, Machine!pairing
<1>d. ASSUME delivered' = delivered PROVE Delivered' = Delivered
  BY <1>s, <1>d DEF Delivered
<1>0. CASE ~serial
  BY <1>0, <1>s, <1>same DEF State, Session, Delivered
<1>1. CASE UNCHANGED vars
  BY <1>1, <1>same DEF vars, State, Session, Delivered
<1>2. ASSUME serial, NEW h \in Handlers, Create(h) PROVE Machine!Show
  <2>1. /\ pair'.state = "pending" /\ pair'.whole = TRUE /\ code' = "creating"
        /\ code = "none" /\ delivered' = delivered
    BY <1>2 DEF Create, History
  <2>2. ~pair.whole
    BY <2>1 DEF SerialInv, Unborn, Gone
  <2>3. State = "new" /\ State' = "pending" /\ Session' = Session /\ Delivered' = Delivered
    BY <1>2, <1>s, <1>d, <2>1, <2>2 DEF State, Session
  <2>. QED
    BY <2>3 DEF Machine!Show, Machine!Go, State, Session, Delivered
<1>3. ASSUME NEW h \in Handlers,
             ClaimRead(h) \/ ApproveRead(h) \/ DenyRead(h) \/ SetTtl(h)
      PROVE  UNCHANGED Machine!pairing
  <2>1. /\ pair'.state = pair.state /\ pair'.whole = pair.whole
        /\ pair'.tokens = pair.tokens
        /\ delivered' = delivered
    BY <1>3, <1>p DEF ClaimRead, ApproveRead, DenyRead, SetTtl, History
  <2>2. code' = code \/ (code # "none" /\ code' # "none")
    BY <1>3, <1>u DEF ClaimRead, ApproveRead, DenyRead, SetTtl, Answer, Runs
  <2>3. State' = State /\ Session' = Session
    BY <1>s, <2>1, <2>2 DEF State, Session
  <2>. QED
    BY <1>same, <1>d, <2>1, <2>3
<1>4. ASSUME serial, NEW h \in Handlers, ClaimWrite(h) PROVE [Machine!Next]_Machine!pairing
  <2>1. /\ pair'.state = "awaiting_approval" /\ pair'.whole = pair.whole
        /\ code' = code /\ delivered' = delivered /\ Runs(h, "claim") /\ code # "none"
    BY <1>4, <1>p, <1>u DEF ClaimWrite, History, Runs
  <2>2. pair.whole => pair.state = "pending"
    BY <1>4, <2>1 DEF SerialInv, Expected
  <2>3. Session' = Session /\ Delivered' = Delivered
    BY <1>s, <1>d, <2>1, <2>2 DEF Session
  <2>4. CASE pair.whole
    <3>1. State = "pending" /\ State' = "awaiting_approval"
      BY <1>4, <1>s, <2>1, <2>2, <2>4 DEF State
    <3>2. Machine!Claim
      BY <2>3, <3>1 DEF Machine!Claim, Machine!Go, State, Session, Delivered
    <3>. QED
      BY <3>2 DEF Machine!Next
  <2>5. CASE ~pair.whole
    BY <1>s, <1>same, <2>1, <2>3, <2>5 DEF State
  <2>. QED
    BY <2>4, <2>5
<1>5. ASSUME serial, NEW h \in Handlers, ApproveWrite(h) PROVE [Machine!Next]_Machine!pairing
  <2>1. /\ pair'.state = "approved" /\ pair'.whole = pair.whole
        /\ pair'.tokens = req[h].session
        /\ code' = code /\ delivered' = delivered /\ Runs(h, "approve") /\ code # "none"
    BY <1>5, <1>p, <1>u DEF ApproveWrite, History, Runs
  <2>2. /\ pair.whole => pair.state = "awaiting_approval"
        /\ req[h].session \in Sessions
    BY <1>5, <2>1 DEF SerialInv, Expected
  <2>3. delivered[req[h].session] = 0
    BY <2>2 DEF OnceInv, Undelivered, Waiting
  <2>4. Delivered' = Delivered
    BY <1>d, <2>1
  <2>5. CASE pair.whole
    <3>1. /\ State = "awaiting_approval" /\ State' = "approved"
          /\ Session' = req[h].session /\ Delivered = delivered
      BY <1>5, <1>s, <2>1, <2>2, <2>5 DEF State, Session, Delivered
    <3>2. Session' \in {s \in Sessions : Delivered[s] = 0}
      BY <2>2, <2>3, <3>1
    <3>3. Machine!Approve
      BY <2>4, <3>1, <3>2 DEF Machine!Approve, Machine!Go, Machine!Sessions, Sessions,
        State, Session, Delivered
    <3>. QED
      BY <3>3 DEF Machine!Next
  <2>6. CASE ~pair.whole
    <3>1. State' = State /\ Session' = Session
      BY <1>s, <2>1, <2>6 DEF State, Session
    <3>. QED
      BY <1>same, <2>4, <3>1
  <2>. QED
    BY <2>5, <2>6
<1>6. ASSUME serial, NEW h \in Handlers, DenyWrite(h) PROVE [Machine!Next]_Machine!pairing
  <2>1. /\ pair'.state = "denied" /\ pair'.whole = pair.whole
        /\ code' = code /\ delivered' = delivered /\ code # "none"
    BY <1>6, <1>p, <1>u DEF DenyWrite, History, Runs
  <2>2. Session' = NoTokens /\ Delivered' = Delivered
    BY <1>d, <2>1 DEF Session
  <2>3. CASE pair.whole
    <3>1. State \in Machine!Alive /\ State' = "denied"
      BY <1>6, <1>s, <1>a, <2>1, <2>3 DEF State
    <3>2. Machine!Deny
      BY <2>2, <3>1 DEF Machine!Deny, Machine!Go, Machine!NoTokens, NoTokens,
        State, Session, Delivered
    <3>. QED
      BY <3>2 DEF Machine!Next
  <2>4. CASE ~pair.whole
    <3>1. State' = State /\ Session' = Session
      BY <1>s, <2>1, <2>4 DEF State, Session
    <3>. QED
      BY <1>same, <2>2, <3>1
  <2>. QED
    BY <2>3, <2>4
<1>7. ASSUME serial, NEW h \in Handlers, DenyDrop(h) PROVE UNCHANGED Machine!pairing
  <2>1. /\ pair'.state = pair.state /\ pair'.whole = pair.whole
        /\ code' = code /\ delivered' = delivered /\ Runs(h, "drop")
    BY <1>7, <1>p DEF DenyDrop, History
  <2>2. pair.whole => pair.state = "denied"
    BY <1>7, <2>1 DEF SerialInv, Expected
  <2>3. State' = State /\ Session' = Session
    BY <1>s, <2>1, <2>2 DEF State, Session
  <2>. QED
    BY <1>same, <1>d, <2>1, <2>3
<1>8. ASSUME serial, NEW h \in Handlers, Fail(h) PROVE FALSE
  BY <1>8 DEF Fail
<1>9. ASSUME serial, Poll PROVE Machine!Fetch
  <2>1. /\ pair'.state = "consumed" /\ pair'.whole = pair.whole /\ pair.whole
        /\ pair.state = "approved" /\ code' = code /\ code # "none"
    BY <1>9, <1>p DEF Poll
  <2>2. pair.tokens # NoTokens
    BY <1>9, <2>1 DEF SerialInv
  <2>3. delivered' = [delivered EXCEPT ![pair.tokens] = @ + 1]
    BY <1>9, <2>2 DEF Poll
  <2>4. /\ State = "approved" /\ State' = "consumed"
        /\ Session = pair.tokens /\ Session' = NoTokens
        /\ Delivered = delivered /\ Delivered' = delivered'
    BY <1>9, <1>s, <2>1 DEF State, Session, Delivered
  <2>5. Delivered' = [Delivered EXCEPT ![Session] = @ + 1]
    BY <2>3, <2>4
  <2>. QED
    BY <2>4, <2>5 DEF Machine!Fetch, Machine!Go, Machine!NoTokens, NoTokens,
      State, Session, Delivered
<1>10. ASSUME serial, Expire PROVE [Machine!Next]_Machine!pairing
  <2>1. pair' = Gone /\ ~Gone.whole /\ code' = code /\ delivered' = delivered
    BY <1>10 DEF Expire, History, Gone
  <2>2. Session' = NoTokens /\ Delivered' = Delivered
    BY <1>d, <2>1 DEF Session
  <2>3. code # "none"
    BY <1>10 DEF Expire, SerialInv, Unborn, Gone
  <2>4. CASE pair.whole
    <3>1. State \in Machine!Alive /\ State' = "expired"
      BY <1>10, <1>s, <1>a, <2>1, <2>3, <2>4 DEF State
    <3>2. Machine!Expire
      BY <2>2, <3>1 DEF Machine!Expire, Machine!Go, Machine!NoTokens, NoTokens,
        State, Session, Delivered
    <3>. QED
      BY <3>2 DEF Machine!Next
  <2>5. CASE ~pair.whole
    <3>1. State' = State /\ Session' = Session
      BY <1>s, <2>1, <2>5 DEF State, Session
    <3>. QED
      BY <1>same, <2>2, <3>1
  <2>. QED
    BY <2>4, <2>5
<1>. QED
  BY <1>0, <1>1, <1>2, <1>3, <1>4, <1>5, <1>6, <1>7, <1>8, <1>9, <1>10
  DEF Next, Machine!Next

\* Requests that do not overlap take the code through the state machine at the head
\* of handlers_device_link.go, step by step: claimed once, approved once with a
\* session nobody has had, fetched once, and denied or expired for good.
THEOREM PairingKept == Spec => ImplementsPairing
<1>1. OnceInv /\ [Next]_vars => OnceInv'
  BY OnceStep
<1>2. OnceInv /\ SerialInv /\ [Next]_vars => SerialInv'
  BY SerialStep DEF OnceInv
<1>3. OnceInv /\ SerialInv /\ [Next]_vars => [Machine!Next]_Machine!pairing
  BY PairingStep
<1>. QED
  BY OnceInit, SerialInit, PairingInit, <1>1, <1>2, <1>3, PTL
  DEF Spec, ImplementsPairing, Machine!Spec
================================================================================
