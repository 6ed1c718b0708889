------------------------------- MODULE DeviceLink -------------------------------
(***************************************************************************)
(* Linking a phone by QR code: the Redis hash pair:<code> of one code and  *)
(* the requests that read and write it.  The browser creates the code and  *)
(* approves or denies, the phone claims and polls.                         *)
(*                                                                         *)
(* Only the poll is one atomic script.  The other handlers are a sequence  *)
(* of Redis commands, so a handler is a process whose next command is kept *)
(* in req, and the hash may change, or expire, in between.  HSET on a key  *)
(* that has expired makes a new hash that has the written fields only and  *)
(* no TTL.                                                                 *)
(***************************************************************************)
EXTENDS Integers

CONSTANTS
  Handlers,     \* concurrent requests of the browser and the phone
  MaxSessions,  \* bound: how many sessions may be minted
  MaxRequests,  \* bound: how many requests a behaviour may make
  MaxFailures   \* bound: how many Redis commands may fail

ASSUME LinkAssumption ==
  /\ MaxSessions \in Nat
  /\ MaxRequests \in Nat
  /\ MaxFailures \in Nat

Sessions == 1 .. MaxSessions
NoTokens == 0

VARIABLES
  pair,       \* the hash; its state is "expired" when there is no key
  code,       \* "none", "creating", "shown": who may know the code
  req,        \* the command each handler runs next
  minted,     \* sessions minted so far
  delivered,  \* history: how often each session's tokens were delivered
  blank,      \* history: an "approved" answer has carried no tokens
  requests,   \* requests made so far
  failures,   \* Redis commands that failed so far
  serial      \* in this behaviour requests do not overlap and no command fails

vars == <<pair, code, req, minted, delivered, blank, requests, failures, serial>>

\* whole: the fields that create wrote (user_id, verifier_hash) are there.
Pair == [state: {"pending", "awaiting_approval", "approved", "consumed",
                 "denied", "expired"},
         whole: BOOLEAN, tokens: Sessions \cup {NoTokens}, ttl: BOOLEAN]
Gone == [state |-> "expired", whole |-> FALSE, tokens |-> NoTokens, ttl |-> FALSE]

Commands == {"idle", "createTtl", "claim", "approve", "deny", "drop", "ttl"}
Request  == [cmd: Commands, session: Sessions \cup {NoTokens}]
Do(c)    == [cmd |-> c, session |-> NoTokens]

TypeOK ==
  /\ pair \in Pair
  /\ code \in {"none", "creating", "shown"}
  /\ req \in [Handlers -> Request]
  /\ minted \in 0 .. MaxSessions
  /\ delivered \in [Sessions -> Nat]
  /\ blank \in BOOLEAN
  /\ requests \in 0 .. MaxRequests
  /\ failures \in 0 .. MaxFailures
  /\ serial \in BOOLEAN

Init ==
  /\ pair = Gone
  /\ code = "none"
  /\ req = [h \in Handlers |-> Do("idle")]
  /\ minted = 0
  /\ delivered = [s \in Sessions |-> 0]
  /\ blank = FALSE
  /\ requests = 0
  /\ failures = 0
  /\ serial \in BOOLEAN

--------------------------------------------------------------------------------
(* Steps of a handler.  A definition named Mutant... is the one that follows it *)
(* with a plausible mistake in it; no specification uses it.                    *)

Runs(h, c)    == req[h].cmd = c
Then(h, c)    == req' = [req EXCEPT ![h] = Do(c)]
\* A new request; the ones for a code come from someone who was shown it.
Arrives(h)    ==
  /\ Runs(h, "idle")
  /\ serial => \A k \in Handlers : Runs(k, "idle")
  /\ requests < MaxRequests /\ requests' = requests + 1
History       == <<delivered, blank>>

\* The HSET of handleDeviceLinkCreate.
Create(h) ==
  /\ Arrives(h)
  /\ code = "none" /\ code' = "creating"
  /\ pair' = [state |-> "pending", whole |-> TRUE, tokens |-> NoTokens, ttl |-> FALSE]
  /\ Then(h, "createTtl")
  /\ UNCHANGED <<minted, History, failures>>

\* Without the check of the state.
MutantClaimRead(h) ==
  /\ Arrives(h)
  /\ code = "shown" /\ pair.whole
  /\ Then(h, "claim")
  /\ UNCHANGED <<pair, code, minted, History, failures>>

\* The HGETALL of handleDeviceLinkClaim and its checks.
ClaimRead(h) ==
  /\ Arrives(h)
  /\ code = "shown" /\ pair.whole /\ pair.state = "pending"
  /\ Then(h, "claim")
  /\ UNCHANGED <<pair, code, minted, History, failures>>

ClaimWrite(h) ==
  /\ Runs(h, "claim")
  /\ pair' = [pair EXCEPT !.state = "awaiting_approval"]
  /\ Then(h, "ttl")
  /\ UNCHANGED <<code, minted, History, requests, failures>>

\* The HGETALL of handleDeviceLinkApprove, its checks, and the session minted
\* and recorded in the database before Redis is written.
ApproveRead(h) ==
  /\ Arrives(h)
  /\ code = "shown" /\ pair.whole /\ pair.state = "awaiting_approval"
  /\ minted < MaxSessions
  /\ minted' = minted + 1
  /\ req' = [req EXCEPT ![h] = [cmd |-> "approve", session |-> minted + 1]]
  /\ UNCHANGED <<pair, code, History, failures>>

\* Sets the state without the tokens.
MutantApproveWrite(h) ==
  /\ Runs(h, "approve")
  /\ pair' = [pair EXCEPT !.state = "approved"]
  /\ Then(h, "ttl")
  /\ UNCHANGED <<code, minted, History, requests, failures>>

ApproveWrite(h) ==
  /\ Runs(h, "approve")
  /\ pair' = [pair EXCEPT !.state = "approved", !.tokens = req[h].session]
  /\ Then(h, "ttl")
  /\ UNCHANGED <<code, minted, History, requests, failures>>

\* The HGET of handleDeviceLinkDeny: the hash must name its owner, in any state.
DenyRead(h) ==
  /\ Arrives(h)
  /\ code = "shown" /\ pair.whole
  /\ Then(h, "deny")
  /\ UNCHANGED <<pair, code, minted, History, failures>>

\* Writes a state no reader knows.
MutantDenyWrite(h) ==
  /\ Runs(h, "deny")
  /\ pair' = [pair EXCEPT !.state = "deny"]
  /\ Then(h, "drop")
  /\ UNCHANGED <<code, minted, History, requests, failures>>

DenyWrite(h) ==
  /\ Runs(h, "deny")
  /\ pair' = [pair EXCEPT !.state = "denied"]
  /\ Then(h, "drop")
  /\ UNCHANGED <<code, minted, History, requests, failures>>

\* Finished without the PEXPIRE.
MutantDenyDrop(h) ==
  /\ Runs(h, "drop")
  /\ pair' = [pair EXCEPT !.tokens = NoTokens]
  /\ Then(h, "idle")
  /\ UNCHANGED <<code, minted, History, requests, failures>>

\* Deny's HDEL of the tokens field.
DenyDrop(h) ==
  /\ Runs(h, "drop")
  /\ pair' = [pair EXCEPT !.tokens = NoTokens]
  /\ Then(h, "ttl")
  /\ UNCHANGED <<code, minted, History, requests, failures>>

\* What a handler does after its PEXPIRE, whether or not it failed: the error
\* is ignored, and create shows the code.
Answer(h) ==
  /\ req[h].cmd \in {"createTtl", "ttl"}
  /\ code' = IF Runs(h, "createTtl") THEN "shown" ELSE code
  /\ Then(h, "idle")

\* Leaves a key that HSET has just made without a TTL.
MutantSetTtl(h) ==
  /\ Answer(h)
  /\ pair' = [pair EXCEPT !.ttl = pair.whole]
  /\ UNCHANGED <<minted, History, requests, failures>>

\* PEXPIRE: a key that is gone stays gone.
SetTtl(h) ==
  /\ Answer(h)
  /\ pair' = [pair EXCEPT !.ttl = pair # Gone]
  /\ UNCHANGED <<minted, History, requests, failures>>

\* A command of h fails: Redis is away for it or the client has left, which
\* cancels the request's context.  Claim and approve give up on a failed HSET;
\* deny goes on.
Fail(h) ==
  /\ ~serial /\ failures < MaxFailures
  /\ failures' = failures + 1
  /\ \/ req[h].cmd \in {"claim", "approve"} /\ Then(h, "idle") /\ UNCHANGED code
     \/ Runs(h, "deny") /\ Then(h, "drop") /\ UNCHANGED code
     \/ Runs(h, "drop") /\ Then(h, "ttl") /\ UNCHANGED code
     \/ Answer(h)
  /\ UNCHANGED <<pair, minted, History, requests>>

--------------------------------------------------------------------------------

\* Leaves the tokens on record.
MutantPoll ==
  /\ code = "shown" /\ pair.whole /\ pair.state = "approved"
  /\ pair' = [pair EXCEPT !.ttl = TRUE]
  /\ IF pair.tokens = NoTokens
       THEN blank' = TRUE /\ UNCHANGED delivered
       ELSE /\ delivered' = [delivered EXCEPT ![pair.tokens] = @ + 1]
            /\ UNCHANGED blank
  /\ UNCHANGED <<code, req, minted, requests, failures>>

\* pollConsumeScript in the one state where it writes.
Poll ==
  /\ code = "shown" /\ pair.whole /\ pair.state = "approved"
  /\ pair' = [pair EXCEPT !.state = "consumed", !.tokens = NoTokens, !.ttl = TRUE]
  /\ IF pair.tokens = NoTokens
       THEN blank' = TRUE /\ UNCHANGED delivered
       ELSE /\ delivered' = [delivered EXCEPT ![pair.tokens] = @ + 1]
            /\ UNCHANGED blank
  /\ UNCHANGED <<code, req, minted, requests, failures>>

\* Redis removes a key whose TTL has run out.
Expire ==
  /\ pair.ttl
  /\ pair' = Gone
  /\ UNCHANGED <<code, req, minted, History, requests, failures>>

Step(h) ==
  \/ ClaimWrite(h) \/ ApproveWrite(h) \/ DenyWrite(h) \/ DenyDrop(h) \/ SetTtl(h)

Next ==
  /\ \/ \E h \in Handlers :
          \/ Create(h) \/ ClaimRead(h) \/ ApproveRead(h) \/ DenyRead(h)
          \/ ClaimWrite(h) \/ ApproveWrite(h) \/ DenyWrite(h) \/ DenyDrop(h)
          \/ SetTtl(h) \/ Fail(h)
     \/ Poll
     \/ Expire
  /\ UNCHANGED serial

Spec == Init /\ [][Next]_vars

\* A handler runs to its end, and Redis expires keys.
Fairness ==
  /\ \A h \in Handlers : WF_vars(Step(h) /\ UNCHANGED serial)
  /\ WF_vars(Expire /\ UNCHANGED serial)
FairSpec == Spec /\ Fairness

--------------------------------------------------------------------------------
(* Properties. *)

\* The tokens of a minted session are delivered to at most one poll, in
\* whatever order claims, approvals and polls run (pollConsumeScript).
DeliveredOnce == \A s \in Sessions : delivered[s] <= 1

\* As long as no Redis command has failed, a hash without a TTL has a handler
\* that is still going to give it one: also the hash that an HSET makes of a
\* key which expired after the handler read it.
TtlOwed ==
  pair # Gone /\ ~pair.ttl /\ failures = 0 =>
    \E h \in Handlers : req[h].cmd \in {"createTtl", "drop", "ttl"}

\* When requests do not overlap, an "approved" answer to a poll carries tokens,
\* as the comment on pollConsumeScript has it.
ApprovedCarriesTokens == serial => ~blank

\* A denied code is not brought back: "denied" is terminal in the state
\* machine at the head of the file.
DeniedIsTerminal ==
  [][pair.whole /\ pair.state = "denied" => pair'.state \in {"denied", "expired"}]_vars

\* Every record of a pairing is removed at last, whatever overlaps, as long as
\* no Redis command fails.
EventuallyGone == (pair # Gone) ~> (pair = Gone \/ failures > 0)

\* Requests of the browser and the phone that do not overlap follow the state
\* machine that the head of the file draws (polls and the expiry may come at any
\* moment of a request).  A hash made by an HSET after the key expired has no
\* owner and no verifier: every request treats it as a code that is not there.
Machine == INSTANCE Pairing WITH
  state     <- IF ~serial \/ code = "none" THEN "new"
               ELSE IF pair.whole THEN pair.state ELSE "expired",
  session   <- IF serial /\ pair.whole /\ pair.state = "approved" THEN pair.tokens
               ELSE NoTokens,
  delivered <- IF serial THEN delivered ELSE [s \in Sessions |-> 0]
ImplementsPairing == Machine!Spec
================================================================================
