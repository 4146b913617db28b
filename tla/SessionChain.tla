----------------------------- MODULE SessionChain -----------------------------
(***************************************************************************)
(* What a login promises, without Redis, requests or clocks: a session is   *)
(* live until it is spent, a spent session is never live again, and it is   *)
(* renewed at most once, by one new session.  Sessions therefore form       *)
(* chains, each with at most one live end.                                  *)
(***************************************************************************)
CONSTANTS Sessions, NoSession

VARIABLES state, parent

vars == <<state, parent>>

Init ==
  /\ state = [s \in Sessions |-> "none"]
  /\ parent = [s \in Sessions |-> NoSession]

Login(s) ==
  /\ state[s] = "none"
  /\ state' = [state EXCEPT ![s] = "live"]
  /\ UNCHANGED parent

\* A refresh has taken it, or a logout.
Spend(s) ==
  /\ state[s] = "live"
  /\ state' = [state EXCEPT ![s] = "spent"]
  /\ UNCHANGED parent

Renew(s, p) ==
  /\ state[s] = "none"
  /\ state[p] = "spent"
  /\ \A t \in Sessions : parent[t] # p
  /\ state' = [state EXCEPT ![s] = "live"]
  /\ parent' = [parent EXCEPT ![s] = p]

Next ==
  \E s \in Sessions :
    \/ Login(s)
    \/ Spend(s)
    \/ \E p \in Sessions : Renew(s, p)

Spec == Init /\ [][Next]_vars

(***************************************************************************)
(* A login has at most one live session, however often it is refreshed:    *)
(* root follows the parents to the session that the login itself has made. *)
(***************************************************************************)
OneLiveEnd ==
  \E root \in [Sessions -> Sessions] :
    /\ \A s \in Sessions : root[s] = IF parent[s] = NoSession THEN s ELSE root[parent[s]]
    /\ \A s, t \in Sessions :
         (state[s] = "live" /\ state[t] = "live" /\ root[s] = root[t]) => s = t
===============================================================================
