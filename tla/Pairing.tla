-------------------------------- MODULE Pairing --------------------------------
(***************************************************************************)
(* What a device-link code promises: the state machine that the head of    *)
(* handlers_device_link.go draws.  A code is shown once, claimed once,     *)
(* approved once and its session is fetched once; the browser may deny it  *)
(* at any time, and it may expire at any time, for good.                   *)
(***************************************************************************)
EXTENDS Integers

CONSTANT MaxSessions  \* bound: how many sessions a behaviour may mint

Sessions == 1 .. MaxSessions
NoTokens == 0

VARIABLES
  state,      \* "new" before the code exists, "expired" once it is gone
  session,    \* the session whose tokens wait to be fetched
  delivered   \* how often the tokens of each session were fetched

pairing == <<state, session, delivered>>

Init ==
  /\ state = "new"
  /\ session = NoTokens
  /\ delivered = [s \in Sessions |-> 0]

Go(from, to) == state \in from /\ state' = to
Alive == {"pending", "awaiting_approval", "approved", "consumed", "denied"}

Show  == Go({"new"}, "pending") /\ UNCHANGED <<session, delivered>>
Claim == Go({"pending"}, "awaiting_approval") /\ UNCHANGED <<session, delivered>>

Approve ==
  /\ Go({"awaiting_approval"}, "approved")
  /\ session' \in {s \in Sessions : delivered[s] = 0}
  /\ UNCHANGED delivered

Fetch ==
  /\ Go({"approved"}, "consumed")
  /\ delivered' = [delivered EXCEPT ![session] = @ + 1]
  /\ session' = NoTokens

Deny   == Go(Alive, "denied") /\ session' = NoTokens /\ UNCHANGED delivered
Expire == Go(Alive, "expired") /\ session' = NoTokens /\ UNCHANGED delivered

Next == Show \/ Claim \/ Approve \/ Fetch \/ Deny \/ Expire

Spec == Init /\ [][Next]_pairing
================================================================================
