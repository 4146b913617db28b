---------------------------- MODULE RelayContract ----------------------------
(***************************************************************************)
(* What the relay promises its upstream peers, whatever the schedule of    *)
(* handlers and sweeps: a request is open until every platform that owes   *)
(* an answer has given one, a fulfilled request stays fulfilled, and the   *)
(* breach of a request is recorded once.                                   *)
(***************************************************************************)
EXTENDS FiniteSets

CONSTANTS Requests, Platforms

VARIABLES
  state,     \* of each request
  owed,      \* platforms whose answer the request still waits for
  breached   \* requests whose breach is on record

cvars == <<state, owed, breached>>

States == {"none", "open", "late", "fulfilled"}

CInit ==
  /\ state = [r \in Requests |-> "none"]
  /\ owed = [r \in Requests |-> {}]
  /\ breached = {}

\* A request arrives and is split over the routed platforms.
Open(r, ps) ==
  /\ state[r] = "none"
  /\ ps # {}
  /\ state' = [state EXCEPT ![r] = "open"]
  /\ owed' = [owed EXCEPT ![r] = ps]
  /\ UNCHANGED breached

\* A platform answers (perhaps again); the last answer may fulfil the request.
Answer(r, p) ==
  /\ state[r] # "none"
  /\ owed' = [owed EXCEPT ![r] = @ \ {p}]
  /\ state' \in {state, [state EXCEPT ![r] = "fulfilled"]}
  /\ state'[r] = "fulfilled" => owed'[r] = {}
  /\ UNCHANGED breached

MarkLate(r) ==
  /\ state[r] = "open"
  /\ state' = [state EXCEPT ![r] = "late"]
  /\ UNCHANGED <<owed, breached>>

Breach(r) ==
  /\ state[r] # "none"
  /\ r \notin breached
  /\ breached' = breached \cup {r}
  /\ UNCHANGED <<state, owed>>

\* A platform is deleted: nothing is owed by it any more.
Withdraw(p) ==
  /\ owed' = [r \in Requests |-> owed[r] \ {p}]
  /\ UNCHANGED <<state, breached>>

CNext ==
  \/ \E r \in Requests : (\E ps \in SUBSET Platforms : Open(r, ps)) \/ MarkLate(r) \/ Breach(r)
  \/ \E r \in Requests, p \in Platforms : Answer(r, p)
  \/ \E p \in Platforms : Withdraw(p)

CSpec == CInit /\ [][CNext]_cvars
==============================================================================
