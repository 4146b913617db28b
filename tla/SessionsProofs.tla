---------------------------- MODULE SessionsProofs ----------------------------
(***************************************************************************)
(* Proofs about Sessions for every number of users, sessions and requests: *)
(* type correctness, that what was ended stays ended, and that the jtis in *)
(* Redis implement the chain of sessions.                                  *)
(***************************************************************************)
EXTENDS Sessions, TLAPS

\* The steps of one request.
Step(c) ==
  \/ \E u \in Users : EidLogin(c, u) \/ GoogleLogin(c, u) \/ SsoLogin(c, u) \/ ManageRead(c, u) \/ Promote(c, u)
  \/ \E s \in Sessions : Mint(c, s) \/ RefreshConsume(c, s) \/ LogoutDelete(c, s) \/ ChangeStart(c, s)
  \/ MfaVerify(c) \/ RefreshLookup(c) \/ LogoutDeny(c)
  \/ ChangeUpdate(c) \/ ChangePublish(c) \/ ManageWrite(c) \/ GiveUp(c)

LEMMA NextSteps ==
  ASSUME Next
  PROVE  Tick \/ (\E c \in Calls : Step(c))
BY DEF Next, Step

\* A request record is one of Requests.
LEMMA RequestType ==
  ASSUME NEW at \in Steps, NEW u \in Users \cup {NoUser}, NEW s \in Sessions \cup {NoSession},
         NEW a \in BOOLEAN, NEW b \in BOOLEAN, NEW n \in Nat, NEW T \in SUBSET Sessions
  PROVE  Request(at, u, s, a, b, n, T) \in Requests
BY DEF Request, Requests

LEMMA IdleType == Idle \in Requests
BY RequestType DEF Idle, Steps

\* The types of everything but the requests.
DataOK ==
  /\ active \in [Users -> BOOLEAN]
  /\ deleted \in [Users -> BOOLEAN]
  /\ super \in [Users -> BOOLEAN]
  /\ rotated \in [Users -> Nat]
  /\ live \in SUBSET issued
  /\ denied \in SUBSET issued
  /\ cutoff \in [Users -> Nat]
  /\ issued \in SUBSET Sessions
  /\ delivered \in SUBSET issued
  /\ owner \in [Sessions -> Users \cup {NoUser}]
  /\ \A s \in issued : owner[s] \in Users
  /\ iat \in [Sessions -> Nat]
  /\ claim \in SUBSET issued
  /\ parent \in [Sessions -> issued \cup {NoSession}]
  /\ verified \in SUBSET issued
  /\ between \in SUBSET issued
  /\ outdated \in SUBSET issued
  /\ unserved \in SUBSET issued
  /\ now \in Nat
  /\ faults \in Nat

CallsOK ==
  /\ call \in [Calls -> Requests]
  /\ \A c \in Calls : RequestOK(call[c])

LEMMA TypeParts == TypeOK <=> DataOK /\ CallsOK
BY DEF TypeOK, DataOK, CallsOK

\* Sessions are issued for good, so what a request is about stays.
LEMMA CallsKept ==
  ASSUME CallsOK, issued \subseteq issued', NEW c \in Calls,
         call' = [call EXCEPT ![c] = call'[c]],
         call'[c] \in Requests, RequestOK(call[c])'
  PROVE  CallsOK'
<1>1. call' \in [Calls -> Requests]
  BY DEF CallsOK
<1>2. ASSUME NEW d \in Calls PROVE RequestOK(call[d])'
  <2>1. CASE d = c
    BY <2>1
  <2>2. CASE d # c
    <3>1. call'[d] = call[d]
      BY <2>2 DEF CallsOK
    <3>2. RequestOK(call[d])
      BY DEF CallsOK
    <3> QED BY <3>1, <3>2 DEF RequestOK
  <2> QED BY <2>1, <2>2
<1> QED BY <1>1, <1>2 DEF CallsOK

-------------------------------------------------------------------------------
(* Type correctness: one lemma for the data, one for the requests. *)

LEMMA DataStep ==
  ASSUME TypeOK, NEW c \in Calls, Step(c)
  PROVE  DataOK' /\ issued \subseteq issued'
<1> USE SessionsAssumption, TypeParts
<1>1. ASSUME NEW u \in Users,
             EidLogin(c, u) \/ GoogleLogin(c, u) \/ SsoLogin(c, u) \/ ManageRead(c, u) \/ Promote(c, u)
      PROVE  DataOK' /\ issued \subseteq issued'
  BY <1>1 DEF DataOK, EidLogin, GoogleLogin, SsoLogin, ManageRead, Promote, account, redis, tokens, ended
<1>2. ASSUME NEW s \in Sessions, Mint(c, s) PROVE DataOK' /\ issued \subseteq issued'
  <2>1. call[c] \in Requests /\ RequestOK(call[c]) /\ call[c].user \in Users
    BY <1>2 DEF CallsOK, RequestOK, Mint
  <2>2. /\ live' \in SUBSET issued' /\ denied' \in SUBSET issued' /\ issued' \in SUBSET Sessions
        /\ delivered' \in SUBSET issued' /\ claim' \in SUBSET issued' /\ verified' \in SUBSET issued'
        /\ outdated' \in SUBSET issued' /\ unserved' \in SUBSET issued'
        /\ between' \in SUBSET issued'
    BY <1>2 DEF DataOK, Mint, Sign, Fault, account, ended
  <2>3. owner' \in [Sessions -> Users \cup {NoUser}] /\ \A t \in issued' : owner'[t] \in Users
    BY <1>2, <2>1 DEF DataOK, Mint, Sign
  <2>4. iat' \in [Sessions -> Nat] /\ parent' \in [Sessions -> issued' \cup {NoSession}]
    BY <1>2, <2>1 DEF DataOK, Mint, Sign, RequestOK
  <2>5. faults' \in Nat
    BY <1>2 DEF DataOK, Mint, Fault
  <2> QED BY <1>2, <2>2, <2>3, <2>4, <2>5 DEF DataOK, Mint, Sign, account
<1>3. ASSUME NEW s \in Sessions, RefreshConsume(c, s) \/ LogoutDelete(c, s) \/ ChangeStart(c, s)
      PROVE  DataOK' /\ issued \subseteq issued'
  <2>1. CASE RefreshConsume(c, s) \/ LogoutDelete(c, s)
    <3>1. live' = live \ {s} /\ UNCHANGED <<account, denied, cutoff, tokens, ended, now>>
      BY <2>1 DEF RefreshConsume, LogoutDelete, GetDel
    <3>2. faults' \in Nat
      <4>1. UNCHANGED faults \/ Fault
        BY <2>1, Zenon DEF RefreshConsume, LogoutDelete
      <4> QED BY <4>1 DEF DataOK, Fault
    <3> QED BY <3>1, <3>2 DEF DataOK, account, tokens, ended
  <2>3. CASE ChangeStart(c, s)
    BY <2>3 DEF DataOK, ChangeStart, account, redis, tokens, ended
  <2> QED BY <1>3, <2>1, <2>3
<1>4. CASE MfaVerify(c) \/ RefreshLookup(c) \/ GiveUp(c)
  BY <1>4 DEF DataOK, MfaVerify, RefreshLookup, GiveUp, account, redis, tokens, ended
<1>5. CASE LogoutDeny(c)
  <2>1. call[c].token \in issued
    BY <1>5 DEF CallsOK, RequestOK, LogoutDeny
  <2> QED BY <1>5, <2>1 DEF DataOK, LogoutDeny, Fault, account, tokens
<1>6. CASE ChangeUpdate(c)
  <2>1. call[c].stamp \in Nat /\ call[c].before \subseteq issued
    BY <1>6 DEF CallsOK, RequestOK, ChangeUpdate, Requests
  <2> QED BY <1>6, <2>1 DEF DataOK, ChangeUpdate, redis, tokens
<1>7. CASE ChangePublish(c)
  <2>1. call[c].stamp \in Nat /\ call[c].before \subseteq issued
    BY <1>7 DEF CallsOK, RequestOK, ChangePublish, Requests
  <2> QED BY <1>7, <2>1 DEF DataOK, ChangePublish, Fault, account, tokens
<1>8. CASE ManageWrite(c)
  BY <1>8 DEF DataOK, ManageWrite, redis, tokens, ended
<1> QED BY <1>1, <1>2, <1>3, <1>4, <1>5, <1>6, <1>7, <1>8 DEF Step

\* What a request becomes, in the terms of CallsKept.
LEMMA Became ==
  ASSUME CallsOK, NEW c \in Calls, NEW r \in Requests, Becomes(c, r)
  PROVE  /\ call' = [call EXCEPT ![c] = call'[c]]
         /\ call'[c] = r
BY DEF CallsOK, Becomes

LEMMA CallsStep ==
  ASSUME TypeOK, NEW c \in Calls, Step(c)
  PROVE  CallsOK'
<1> USE TypeParts, SessionsAssumption
<1>0. issued \subseteq issued' /\ CallsOK
  BY DataStep
<1>1. CASE Ends(c)
  <2>1. call' = [call EXCEPT ![c] = call'[c]] /\ call'[c] = Idle
    BY <1>0, <1>1, IdleType, Became DEF Ends
  <2>2. RequestOK(call[c])'
    BY <2>1 DEF RequestOK, Idle, Request
  <2> QED BY <1>0, <2>1, <2>2, CallsKept, IdleType
<1>2. CASE UNCHANGED call
  BY <1>0, <1>2 DEF CallsOK, RequestOK
<1>3. ASSUME NEW u \in Users, EidLogin(c, u) \/ GoogleLogin(c, u) \/ SsoLogin(c, u) PROVE CallsOK'
  <2>1. PICK b \in BOOLEAN : Becomes(c, Identified(u, b))
    BY <1>3 DEF EidLogin, GoogleLogin, SsoLogin
  <2>2. super[u] \in BOOLEAN
    BY DEF DataOK
  <2>3. Identified(u, b) \in Requests
    BY <2>2, RequestType DEF Identified, Steps
  <2>4. call' = [call EXCEPT ![c] = call'[c]] /\ call'[c] = Identified(u, b)
    BY <1>0, <2>1, <2>3, Became
  <2>5. RequestOK(call[c])'
    BY <2>4 DEF RequestOK, Identified, Request
  <2> QED BY <1>0, <2>3, <2>4, <2>5, CallsKept
<1>4. ASSUME NEW u \in Users, ManageRead(c, u) \/ Promote(c, u) PROVE CallsOK'
  <2>0. PICK at \in {"manage", "mint"}, b \in BOOLEAN :
          Becomes(c, Request(at, u, NoSession, b, b, 0, {}))
    BY <1>4 DEF ManageRead, Promote
  <2> DEFINE r == Request(at, u, NoSession, b, b, 0, {})
  <2>1. r \in Requests
    BY RequestType DEF Steps
  <2>2. call' = [call EXCEPT ![c] = call'[c]] /\ call'[c] = r
    BY <1>0, <2>0, <2>1, Became
  <2>3. RequestOK(call[c])'
    BY <2>2 DEF RequestOK, Request
  <2> QED BY <1>0, <2>1, <2>2, <2>3, CallsKept
<1>5. CASE MfaVerify(c)
  <2> DEFINE r == Request("mint", call[c].user, NoSession, TRUE, TRUE, 0, {})
  <2>1. call[c].user \in Users
    BY <1>0, <1>5 DEF MfaVerify, CallsOK, RequestOK
  <2>2. r \in Requests
    BY <2>1, RequestType DEF Steps
  <2>3. call' = [call EXCEPT ![c] = call'[c]] /\ call'[c] = r
    BY <1>0, <1>5, <2>2, Became DEF MfaVerify
  <2>4. RequestOK(call[c])'
    BY <2>1, <2>3 DEF RequestOK, Request
  <2> QED BY <1>0, <2>2, <2>3, <2>4, CallsKept
<1>6. ASSUME NEW s \in issued, NEW at \in {"consumed", "deny"},
             Becomes(c, Request(at, NoUser, s, FALSE, FALSE, 0, {}))
      PROVE  CallsOK'
  <2> DEFINE r == Request(at, NoUser, s, FALSE, FALSE, 0, {})
  <2>1. r \in Requests
    BY RequestType DEF Steps, DataOK
  <2>2. call' = [call EXCEPT ![c] = call'[c]] /\ call'[c] = r
    BY <1>0, <1>6, <2>1, Became
  <2>3. RequestOK(call[c])'
    BY <1>0, <2>2 DEF RequestOK, Request
  <2> QED BY <1>0, <2>1, <2>2, <2>3, CallsKept
<1>7. ASSUME NEW s \in Sessions, RefreshConsume(c, s) \/ LogoutDelete(c, s) PROVE CallsOK'
  BY <1>2, <1>6, <1>7 DEF RefreshConsume, LogoutDelete, DataOK
<1>8. CASE RefreshLookup(c)
  <2> DEFINE s == call[c].token
             r == Request("mint", owner[s], s, super[owner[s]], s \in verified, 0, {})
  <2>1. s \in issued /\ owner[s] \in Users /\ s \in Sessions
    BY <1>0, <1>8 DEF RefreshLookup, CallsOK, RequestOK, DataOK
  <2>2. super[owner[s]] \in BOOLEAN /\ (s \in verified) \in BOOLEAN
    BY <2>1 DEF DataOK
  <2>3. r \in Requests
    BY <2>1, <2>2, RequestType DEF Steps
  <2>4. CASE Becomes(c, r)
    <3>1. call' = [call EXCEPT ![c] = call'[c]] /\ call'[c] = r
      BY <1>0, <2>3, <2>4, Became
    <3>2. RequestOK(call[c])'
      BY <1>0, <2>1, <3>1 DEF RequestOK, Request
    <3> QED BY <1>0, <2>3, <3>1, <3>2, CallsKept
  <2> QED BY <1>1, <1>8, <2>4 DEF RefreshLookup
<1>9. ASSUME NEW s \in Sessions, ChangeStart(c, s) PROVE CallsOK'
  <2> DEFINE r == Request("update", owner[s], NoSession, FALSE, FALSE, now, SessionsOf(owner[s]))
  <2>1. owner[s] \in Users /\ SessionsOf(owner[s]) \subseteq issued /\ issued \subseteq Sessions /\ now \in Nat
    BY <1>9 DEF ChangeStart, DataOK, SessionsOf
  <2>2. r \in Requests
    BY <2>1, RequestType DEF Steps
  <2>3. call' = [call EXCEPT ![c] = call'[c]] /\ call'[c] = r
    BY <1>0, <1>9, <2>2, Became DEF ChangeStart
  <2>4. RequestOK(call[c])'
    BY <1>0, <2>1, <2>3 DEF RequestOK, Request
  <2> QED BY <1>0, <2>2, <2>3, <2>4, CallsKept
<1>10. CASE ChangeUpdate(c)
  <2> DEFINE q == call[c]
             r == Request("publish", q.user, NoSession, FALSE, FALSE, q.stamp, q.before)
  <2>1. q \in Requests /\ RequestOK(q) /\ q.user \in Users
    BY <1>0, <1>10 DEF ChangeUpdate, CallsOK, RequestOK
  <2>2. r \in Requests
    BY <2>1, RequestType DEF Steps, Requests
  <2>3. call' = [call EXCEPT ![c] = call'[c]] /\ call'[c] = r
    BY <1>0, <1>10, <2>2, Became DEF ChangeUpdate
  <2>4. RequestOK(call[c])'
    BY <1>0, <2>1, <2>3 DEF RequestOK, Request
  <2> QED BY <1>0, <2>2, <2>3, <2>4, CallsKept
<1> QED BY <1>1, <1>3, <1>4, <1>5, <1>7, <1>8, <1>9, <1>10
        DEF Step, Mint, LogoutDeny, ChangePublish, ManageWrite, GiveUp

LEMMA TypeInit == Init => TypeOK
<1>1. Init => DataOK
  BY SessionsAssumption DEF Init, DataOK
<1>2. Init => CallsOK
  BY IdleType DEF Init, CallsOK, RequestOK, Idle, Request
<1> QED BY <1>1, <1>2, TypeParts

(***************************************************************************)
(* The variables have their types, whatever the requests interleave.       *)
(***************************************************************************)
THEOREM TypeCorrect == Spec => []TypeOK
<1>1. Init => TypeOK
  BY TypeInit
<1>2. TypeOK /\ [Next]_vars => TypeOK'
  <2> SUFFICES ASSUME TypeOK, [Next]_vars PROVE TypeOK'
    OBVIOUS
  <2>1. CASE \E c \in Calls : Step(c)
    BY <2>1, DataStep, CallsStep DEF TypeOK, DataOK, CallsOK
  <2>2. CASE Tick
    BY <2>2 DEF TypeOK, Tick, account, redis, tokens, ended, RequestOK
  <2>4. CASE UNCHANGED vars
    BY <2>4 DEF TypeOK, vars, account, redis, tokens, ended, RequestOK
  <2> QED BY <2>1, <2>2, <2>4, NextSteps
<1> QED BY <1>1, <1>2, PTL DEF Spec

-------------------------------------------------------------------------------
(* What was ended stays ended.  A session that is not issued between (in a   *)
(* later second than that of a change in flight) is not newer than any       *)
(* second that may still be written, in whatever order they are.             *)

IsChanging(c) == call[c].at \in {"update", "publish"}

\* The session s is not newer than the second n, and n is a second.
NotAfter(s, n) == n # 0 /\ iat[s] <= n

Clock ==
  /\ now # 0
  /\ \A s \in issued : iat[s] <= now
  /\ \A c \in Calls : IsChanging(c) => call[c].stamp # 0 /\ call[c].stamp <= now

\* A change is to end sessions of its user that are not newer than its second.
OwnSecond ==
  \A c \in Calls : IsChanging(c) =>
    \A s \in call[c].before : owner[s] = call[c].user /\ NotAfter(s, call[c].stamp)

\* No change in flight has an older second than a session not issued between.
Dated ==
  \A c \in Calls : IsChanging(c) =>
    \A s \in issued \ between : owner[s] = call[c].user => NotAfter(s, call[c].stamp)

\* What has been ended, but for the sessions of S, is gone or not newer than
\* the second in the row, or in Redis.
OutdatedBut(S) == \A s \in outdated \ S : s \notin live \/ NotAfter(s, rotated[owner[s]])
UnservedBut(S) == \A s \in unserved \ S : s \in denied \/ NotAfter(s, cutoff[owner[s]])

Taken == \A c \in Calls : call[c].at \in {"consumed", "deny"} => call[c].token \notin live

IInv == TypeOK /\ Clock /\ OwnSecond /\ Dated /\ OutdatedBut(between) /\ UnservedBut(between) /\ Taken

\* A second in the row or in Redis is what MayRenew and Served compare with.
LEMMA OverIsEnded ==
  ASSUME TypeOK, NEW S
  PROVE  /\ OutdatedBut(S) => \A s \in outdated \ S : s \notin live \/ ~ MayRenew(s)
         /\ UnservedBut(S) => \A s \in unserved \ S : ~ Served(s)
<1>1. ASSUME OutdatedBut(S), NEW s \in outdated \ S, s \in live PROVE ~ MayRenew(s)
  <2>1. owner[s] \in Users /\ iat[s] \in Nat /\ rotated[owner[s]] \in Nat
    BY <1>1 DEF TypeOK
  <2> QED BY <1>1, <2>1 DEF OutdatedBut, NotAfter, MayRenew
<1>2. ASSUME UnservedBut(S), NEW s \in unserved \ S PROVE ~ Served(s)
  <2>1. owner[s] \in Users /\ iat[s] \in Nat /\ cutoff[owner[s]] \in Nat
    BY <1>2 DEF TypeOK
  <2> QED BY <1>2, <2>1 DEF UnservedBut, NotAfter, Served
<1> QED BY <1>1, <1>2

LEMMA IInvSuffices == IInv => EndedUnlessBetween
BY OverIsEnded DEF IInv, EndedUnlessBetween

\* Steps that leave the sessions, what is ended and the changes in flight alone.
\* (The refresh jtis may go, and the request c may do something else.)
LEMMA QuietStep ==
  ASSUME IInv, TypeOK', NEW c \in Calls, NEW r \in Requests, Becomes(c, r) \/ UNCHANGED call,
         ~ IsChanging(c)', live' \subseteq live, denied \subseteq denied',
         r.at \in {"consumed", "deny"} => r.token \notin live',
         UNCHANGED <<rotated, cutoff, issued, owner, iat, between, ended, now>>
  PROVE  IInv'
<1>1. \A d \in Calls : IsChanging(d)' => IsChanging(d) /\ call'[d] = call[d]
  BY DEF IsChanging, Becomes, IInv, TypeOK
<1>2. Clock' /\ OwnSecond' /\ Dated' /\ OutdatedBut(between)' /\ UnservedBut(between)'
  BY <1>1 DEF IInv, Clock, OwnSecond, Dated, OutdatedBut, UnservedBut, NotAfter, ended
<1>3. Taken'
  BY DEF IInv, Taken, TypeOK, Becomes
<1> QED BY <1>2, <1>3 DEF IInv

LEMMA QuietRequests ==
  ASSUME IInv, TypeOK', NEW c \in Calls, Step(c),
         ~ LogoutDeny(c), ~ ChangeUpdate(c), ~ ChangePublish(c),
         \A s \in Sessions : ~ Mint(c, s) /\ ~ ChangeStart(c, s)
  PROVE  IInv'
<1>1. ASSUME NEW r \in Requests, Becomes(c, r), ~ r.at \in {"update", "publish", "consumed", "deny"},
             live' = live, denied' = denied, UNCHANGED <<rotated, cutoff, issued, owner, iat, between, ended, now>>
      PROVE  IInv'
  <2>1. ~ IsChanging(c)'
    BY <1>1 DEF IsChanging, Becomes, IInv, TypeOK
  <2> QED BY <1>1, <2>1, QuietStep
<1>2. ASSUME Ends(c), live' = live, denied' = denied,
             UNCHANGED <<rotated, cutoff, issued, owner, iat, between, ended, now>>
      PROVE  IInv'
  <2>1. Idle \in Requests /\ Idle.at = "idle"
    BY IdleType DEF Idle, Request
  <2> QED BY <1>1, <1>2, <2>1 DEF Ends
<1>3. ASSUME NEW u \in Users,
             EidLogin(c, u) \/ GoogleLogin(c, u) \/ SsoLogin(c, u) \/ ManageRead(c, u) \/ Promote(c, u)
      PROVE  IInv'
  <2>1. PICK at \in {"mfa", "mint", "manage"}, b \in BOOLEAN, m \in BOOLEAN :
          Becomes(c, Request(at, u, NoSession, b, m, 0, {}))
    BY <1>3 DEF EidLogin, GoogleLogin, SsoLogin, ManageRead, Promote, Identified, IInv, TypeOK
  <2>2. Request(at, u, NoSession, b, m, 0, {}) \in Requests
    BY RequestType DEF Steps
  <2>3. Request(at, u, NoSession, b, m, 0, {}).at = at
    BY DEF Request
  <2>4. UNCHANGED <<rotated, live, denied, cutoff, issued, owner, iat, between, ended, now>>
    BY <1>3 DEF EidLogin, GoogleLogin, SsoLogin, ManageRead, Promote, account, redis, tokens, ended
  <2> QED BY <1>1, <2>1, <2>2, <2>3, <2>4
<1>4. CASE MfaVerify(c)
  <2> DEFINE r == Request("mint", call[c].user, NoSession, TRUE, TRUE, 0, {})
  <2>1. call[c].user \in Users
    BY <1>4 DEF MfaVerify, IInv, TypeOK, RequestOK
  <2>2. r \in Requests
    BY <2>1, RequestType DEF Steps
  <2>3. r.at = "mint"
    BY DEF Request
  <2>4. UNCHANGED <<rotated, live, denied, cutoff, issued, owner, iat, between, ended, now>>
    BY <1>4 DEF MfaVerify, account, redis, tokens, ended
  <2>5. Becomes(c, r)
    BY <1>4 DEF MfaVerify
  <2> QED BY <1>1, <2>2, <2>3, <2>4, <2>5
<1>5. ASSUME NEW s \in Sessions, RefreshConsume(c, s) \/ LogoutDelete(c, s) PROVE IInv'
  <2>1. live' = live \ {s} /\ UNCHANGED <<rotated, denied, cutoff, issued, owner, iat, between, ended, now>>
    BY <1>5 DEF RefreshConsume, LogoutDelete, GetDel, account, tokens, ended
  <2>2. CASE UNCHANGED call
    <3>1. ~ IsChanging(c)'
      BY <1>5, <2>2 DEF RefreshConsume, LogoutDelete, IsIdle, IsChanging, Idle, Request
    <3>2. Idle \in Requests /\ Idle.at = "idle"
      BY IdleType DEF Idle, Request
    <3> QED BY <2>1, <2>2, <3>1, <3>2, QuietStep
  <2>3. ASSUME NEW at \in {"consumed", "deny"}, Becomes(c, Request(at, NoUser, s, FALSE, FALSE, 0, {}))
        PROVE  IInv'
    <3> DEFINE r == Request(at, NoUser, s, FALSE, FALSE, 0, {})
    <3>1. r \in Requests /\ r.at = at /\ r.token = s
      BY RequestType DEF Steps, Request
    <3>2. ~ IsChanging(c)'
      BY <2>3, <3>1 DEF IsChanging, Becomes, IInv, TypeOK
    <3> HIDE DEF r
    <3> QED BY <2>1, <2>3, <3>1, <3>2, QuietStep DEF r
  <2> QED BY <1>5, <2>2, <2>3 DEF RefreshConsume, LogoutDelete
<1>6. CASE RefreshLookup(c)
  <2> DEFINE s == call[c].token
             r == Request("mint", owner[s], s, super[owner[s]], s \in verified, 0, {})
  <2>1. s \in issued /\ owner[s] \in Users /\ s \in Sessions
    BY <1>6 DEF RefreshLookup, IInv, TypeOK, RequestOK
  <2>2. super[owner[s]] \in BOOLEAN /\ (s \in verified) \in BOOLEAN
    BY <2>1 DEF IInv, TypeOK
  <2>3. r \in Requests
    BY <2>1, <2>2, RequestType DEF Steps
  <2>4. r.at = "mint"
    BY DEF Request
  <2>5. UNCHANGED <<rotated, live, denied, cutoff, issued, owner, iat, between, ended, now>>
    BY <1>6 DEF RefreshLookup, account, redis, tokens, ended
  <2>6. Becomes(c, r) \/ Ends(c)
    BY <1>6 DEF RefreshLookup
  <2> QED BY <1>1, <1>2, <2>3, <2>4, <2>5, <2>6
<1>7. CASE ManageWrite(c) \/ GiveUp(c)
  BY <1>2, <1>7 DEF ManageWrite, GiveUp, account, redis, tokens, ended
<1> QED BY <1>3, <1>4, <1>5, <1>6, <1>7 DEF Step

LEMMA MintStep ==
  ASSUME IInv, TypeOK', NEW c \in Calls, NEW s \in Sessions, Mint(c, s)
  PROVE  IInv'
<1>1. \A d \in Calls : call'[d] = call[d] \/ call'[d] = Idle
  BY DEF Mint, Ends, Becomes, IInv, TypeOK
<1>2. \A d \in Calls : ~ call'[d].at = "idle" => call'[d] = call[d]
  BY <1>1 DEF Idle, Request
<1>3. \A t \in issued : iat'[t] = iat[t] /\ owner'[t] = owner[t]
  BY DEF Mint, Sign, IInv, TypeOK
<1>4. /\ issued' = issued \cup {s} /\ s \notin issued /\ live' = live \cup {s} /\ iat'[s] = now
      /\ owner'[s] = call[c].user
      /\ UNCHANGED <<rotated, denied, cutoff, outdated, unserved, now>>
  BY DEF Mint, Sign, account, ended, IInv, TypeOK
<1>5. /\ outdated \subseteq issued /\ unserved \subseteq issued
      /\ \A d \in Calls : RequestOK(call[d])
  BY DEF IInv, TypeOK
<1>6. between \subseteq between' /\ (Behind(call[c].user) => s \in between')
  BY DEF Mint, Sign
<1>7. Clock'
  <2>1. \A t \in issued' : iat'[t] <= now'
    BY <1>3, <1>4 DEF IInv, Clock, TypeOK
  <2> QED BY <1>2, <1>4, <2>1 DEF IInv, Clock, IsChanging
<1>8. OwnSecond'
  <2> SUFFICES ASSUME NEW d \in Calls, IsChanging(d)', NEW t \in call'[d].before
               PROVE  owner'[t] = call'[d].user /\ iat'[t] <= call'[d].stamp /\ call'[d].stamp # 0
    BY DEF OwnSecond, NotAfter
  <2>1. call'[d] = call[d] /\ t \in issued
    BY <1>2, <1>5 DEF IsChanging, RequestOK
  <2> QED BY <1>3, <2>1 DEF IInv, OwnSecond, NotAfter, IsChanging
<1>9. Dated'
  <2> SUFFICES ASSUME NEW d \in Calls, IsChanging(d)', NEW t \in issued' \ between',
                      owner'[t] = call'[d].user
               PROVE  iat'[t] <= call'[d].stamp /\ call'[d].stamp # 0
    BY DEF Dated, NotAfter
  <2>1. call'[d] = call[d] /\ IsChanging(d)
    BY <1>2 DEF IsChanging
  <2>2. CASE t = s
    <3>1. ~ call[d].stamp < now
      BY <1>4, <1>6, <2>1, <2>2 DEF Behind, IsChanging
    <3>2. call[d].stamp \in Nat /\ now \in Nat
      BY DEF IInv, TypeOK, Requests
    <3> QED BY <1>4, <2>1, <2>2, <3>1, <3>2 DEF IInv, Clock
  <2>3. CASE t # s
    BY <1>3, <1>4, <1>6, <2>1, <2>3 DEF IInv, Dated, NotAfter
  <2> QED BY <2>2, <2>3
<1>10. OutdatedBut(between)'
  BY <1>3, <1>4, <1>5, <1>6 DEF IInv, OutdatedBut, NotAfter
<1>11. UnservedBut(between)'
  BY <1>3, <1>4, <1>5, <1>6 DEF IInv, UnservedBut, NotAfter
<1>12. Taken'
  BY <1>2, <1>4, <1>5 DEF IInv, Taken, RequestOK
<1> QED BY <1>7, <1>8, <1>9, <1>10, <1>11, <1>12 DEF IInv

LEMMA LogoutDenyStep ==
  ASSUME IInv, TypeOK', NEW c \in Calls, LogoutDeny(c)
  PROVE  IInv'
<1> DEFINE s == call[c].token
<1>1. \A d \in Calls : call'[d] = call[d] \/ call'[d] = Idle
  BY DEF LogoutDeny, Ends, Becomes, IInv, TypeOK
<1>2. \A d \in Calls : call'[d].at # "idle" => call'[d] = call[d]
  BY <1>1 DEF Idle, Request
<1>3. /\ s \notin live /\ outdated' = outdated \cup {s}
      /\ UNCHANGED <<rotated, live, cutoff, issued, owner, iat, between, now>>
  BY DEF LogoutDeny, IInv, Taken, account, tokens
<1>4. \/ denied' = denied \cup {s} /\ unserved' = unserved \cup {s}
      \/ UNCHANGED <<denied, unserved>>
  BY DEF LogoutDeny
<1>5. Clock' /\ OwnSecond' /\ Dated'
  BY <1>2, <1>3 DEF IInv, Clock, OwnSecond, Dated, NotAfter, IsChanging
<1>6. OutdatedBut(between)'
  BY <1>3 DEF IInv, OutdatedBut, NotAfter
<1>7. UnservedBut(between)'
  BY <1>3, <1>4 DEF IInv, UnservedBut, NotAfter
<1>8. Taken'
  BY <1>2, <1>3 DEF IInv, Taken
<1> QED BY <1>5, <1>6, <1>7, <1>8 DEF IInv

\* A new change has the latest second: no session is newer.
LEMMA ChangeStartStep ==
  ASSUME IInv, TypeOK', NEW c \in Calls, NEW s \in Sessions, ChangeStart(c, s)
  PROVE  IInv'
<1> DEFINE u == owner[s]
<1>1. /\ call'[c].at = "update" /\ call'[c].user = u /\ call'[c].stamp = now
      /\ call'[c].before = SessionsOf(u)
      /\ \A d \in Calls : d # c => call'[d] = call[d]
  BY DEF ChangeStart, Becomes, Request, IInv, TypeOK
<1>2. UNCHANGED <<rotated, live, denied, cutoff, issued, owner, iat, between, outdated, unserved, now>>
  BY DEF ChangeStart, account, redis, tokens, ended
<1>3. \A d \in Calls : IsChanging(d)' => d = c \/ (IsChanging(d) /\ call'[d] = call[d])
  BY <1>1 DEF IsChanging
<1>4. now \in Nat /\ \A t \in SessionsOf(u) : t \in issued /\ owner[t] = u
  BY DEF SessionsOf, IInv, TypeOK
<1>5. Clock'
  BY <1>1, <1>2, <1>3, <1>4 DEF IInv, Clock
<1>6. OwnSecond'
  BY <1>1, <1>2, <1>3, <1>4 DEF IInv, OwnSecond, NotAfter, Clock
<1>7. Dated'
  BY <1>1, <1>2, <1>3 DEF IInv, Dated, NotAfter, Clock
<1>8. OutdatedBut(between)' /\ UnservedBut(between)'
  BY <1>2 DEF IInv, OutdatedBut, UnservedBut, NotAfter
<1>9. Taken'
  BY <1>1, <1>2 DEF IInv, Taken
<1> QED BY <1>5, <1>6, <1>7, <1>8, <1>9 DEF IInv

\* What ChangeUpdate writes, and what it leaves alone.
LEMMA UpdateWrites ==
  ASSUME TypeOK, NEW c \in Calls, ChangeUpdate(c)
  PROVE  /\ IsChanging(c) /\ call[c].user \in Users /\ call[c].before \subseteq issued
         /\ \A d \in Calls : /\ IsChanging(d)' <=> IsChanging(d)
                             /\ call'[d].user = call[d].user /\ call'[d].stamp = call[d].stamp
                             /\ call'[d].before = call[d].before
                             /\ call'[d].at \in {"consumed", "deny"} => call'[d] = call[d]
         /\ rotated' = [rotated EXCEPT ![call[c].user] = call[c].stamp]
         /\ outdated' = outdated \cup call[c].before
         /\ UNCHANGED <<live, denied, cutoff, issued, owner, iat, between, unserved, now>>
<1>0. call[c].user \in Users /\ call[c].before \subseteq issued /\ IsChanging(c)
  BY DEF ChangeUpdate, TypeOK, RequestOK, IsChanging
<1>1. /\ call'[c].at = "publish" /\ call'[c].user = call[c].user /\ call'[c].stamp = call[c].stamp
      /\ call'[c].before = call[c].before
      /\ \A d \in Calls : d # c => call'[d] = call[d]
  BY DEF ChangeUpdate, Becomes, Request, TypeOK
<1> QED BY <1>0, <1>1 DEF ChangeUpdate, redis, tokens, IsChanging

LEMMA ChangeUpdateStep ==
  ASSUME IInv, TypeOK', NEW c \in Calls, ChangeUpdate(c)
  PROVE  IInv'
<1> DEFINE q == call[c]
<1>0. TypeOK
  BY DEF IInv
<1>1. Clock' /\ OwnSecond' /\ Dated'
  BY <1>0, UpdateWrites DEF IInv, Clock, OwnSecond, Dated, NotAfter
<1>2. OutdatedBut(between)'
  <2> SUFFICES ASSUME NEW t \in outdated' \ between, t \in live
               PROVE  rotated'[owner[t]] # 0 /\ iat[t] <= rotated'[owner[t]]
    BY <1>0, UpdateWrites DEF OutdatedBut, NotAfter
  <2>1. t \in issued /\ owner[t] \in Users
    BY <1>0, UpdateWrites DEF TypeOK
  <2>2. CASE owner[t] = q.user
    BY <1>0, <2>1, <2>2, UpdateWrites DEF IInv, Dated, NotAfter, TypeOK
  <2>3. CASE owner[t] # q.user
    BY <1>0, <2>1, <2>3, UpdateWrites DEF IInv, OwnSecond, OutdatedBut, NotAfter, TypeOK
  <2> QED BY <2>2, <2>3
<1>3. UnservedBut(between)'
  BY <1>0, UpdateWrites DEF IInv, UnservedBut, NotAfter
<1>4. Taken'
  BY <1>0, UpdateWrites DEF IInv, Taken
<1> QED BY <1>1, <1>2, <1>3, <1>4 DEF IInv

\* What ChangePublish writes, if it does, and what it leaves alone.
LEMMA PublishWrites ==
  ASSUME TypeOK, NEW c \in Calls, ChangePublish(c)
  PROVE  /\ IsChanging(c) /\ call[c].user \in Users /\ call[c].before \subseteq issued
         /\ \A d \in Calls : call'[d].at # "idle" => call'[d] = call[d]
         /\ \/ cutoff' = [cutoff EXCEPT ![call[c].user] = call[c].stamp]
               /\ unserved' = unserved \cup call[c].before
            \/ UNCHANGED <<cutoff, unserved>>
         /\ UNCHANGED <<rotated, live, denied, issued, owner, iat, between, outdated, now>>
<1>0. call[c].user \in Users /\ call[c].before \subseteq issued /\ IsChanging(c)
  BY DEF ChangePublish, TypeOK, RequestOK, IsChanging
<1>1. \A d \in Calls : call'[d] = call[d] \/ call'[d] = Idle
  BY DEF ChangePublish, Ends, Becomes, TypeOK
<1>2. \A d \in Calls : call'[d].at # "idle" => call'[d] = call[d]
  BY <1>1 DEF Idle, Request
<1> QED BY <1>0, <1>2 DEF ChangePublish, account, tokens

LEMMA ChangePublishStep ==
  ASSUME IInv, TypeOK', NEW c \in Calls, ChangePublish(c)
  PROVE  IInv'
<1> DEFINE q == call[c]
<1>0. TypeOK
  BY DEF IInv
<1>1. Clock' /\ OwnSecond' /\ Dated' /\ OutdatedBut(between)' /\ Taken'
  BY <1>0, PublishWrites DEF IInv, Clock, OwnSecond, Dated, OutdatedBut, Taken, NotAfter, IsChanging
<1>2. UnservedBut(between)'
  <2>1. CASE UNCHANGED <<cutoff, unserved>>
    BY <1>0, <2>1, PublishWrites DEF IInv, UnservedBut, NotAfter
  <2>2. CASE cutoff' = [cutoff EXCEPT ![q.user] = q.stamp] /\ unserved' = unserved \cup q.before
    <3> SUFFICES ASSUME NEW t \in unserved' \ between, t \notin denied
                 PROVE  cutoff'[owner[t]] # 0 /\ iat[t] <= cutoff'[owner[t]]
      BY <1>0, PublishWrites DEF UnservedBut, NotAfter
    <3>1. t \in issued /\ owner[t] \in Users
      BY <1>0, <2>2, PublishWrites DEF TypeOK
    <3>2. CASE owner[t] = q.user
      BY <1>0, <2>2, <3>1, <3>2, PublishWrites DEF IInv, Dated, NotAfter, TypeOK
    <3>3. CASE owner[t] # q.user
      BY <1>0, <2>2, <3>1, <3>3, PublishWrites DEF IInv, OwnSecond, UnservedBut, NotAfter, TypeOK
    <3> QED BY <3>2, <3>3
  <2> QED BY <1>0, <2>1, <2>2, PublishWrites
<1> QED BY <1>1, <1>2 DEF IInv

LEMMA Inductive == IInv /\ [Next]_vars /\ TypeOK' => IInv'
<1> SUFFICES ASSUME IInv, [Next]_vars, TypeOK' PROVE IInv'
  OBVIOUS
<1>1. ASSUME NEW c \in Calls, Step(c) PROVE IInv'
  BY <1>1, QuietRequests, MintStep, LogoutDenyStep, ChangeStartStep, ChangeUpdateStep, ChangePublishStep
<1>2. CASE Tick
  <2>1. now' = now + 1 /\ now \in Nat /\ UNCHANGED <<account, redis, tokens, call, ended, faults>>
    BY <1>2 DEF Tick, IInv, TypeOK
  <2>2. Clock'
    <3>1. \A t \in issued : iat[t] \in Nat
      BY DEF IInv, TypeOK
    <3>2. \A d \in Calls : call[d].stamp \in Nat
      BY DEF IInv, TypeOK, Requests
    <3> QED BY <2>1, <3>1, <3>2 DEF IInv, Clock, tokens, IsChanging
  <2>3. OwnSecond' /\ Dated' /\ OutdatedBut(between)' /\ UnservedBut(between)' /\ Taken'
    BY <2>1 DEF IInv, OwnSecond, Dated, OutdatedBut, UnservedBut, Taken, NotAfter, IsChanging,
                account, redis, tokens, ended
  <2> QED BY <2>2, <2>3 DEF IInv
<1>4. CASE UNCHANGED vars
  BY <1>4 DEF vars, IInv, Clock, OwnSecond, Dated, OutdatedBut, UnservedBut, Taken, NotAfter,
              IsChanging, account, redis, tokens, ended
<1> QED BY <1>1, <1>2, <1>4, NextSteps

LEMMA InitEnded == Init => IInv
<1>1. Init => TypeOK
  BY TypeInit
<1>2. Init => Clock /\ OwnSecond /\ Dated /\ OutdatedBut(between) /\ UnservedBut(between) /\ Taken
  BY DEF Init, Clock, OwnSecond, Dated, OutdatedBut, UnservedBut, Taken, IsChanging, Idle, Request
<1> QED BY <1>1, <1>2 DEF IInv

(***************************************************************************)
(* What a logout or a change of the password has ended stays ended, for    *)
(* every number of users, sessions and requests in flight, unless it was   *)
(* issued while a change was in flight, in a later second than that one's. *)
(***************************************************************************)
THEOREM EndedForGood == Spec => []EndedUnlessBetween
BY InitEnded, TypeCorrect, Inductive, IInvSuffices, PTL DEF Spec

-------------------------------------------------------------------------------
(* One change of a user's password at a time: then nothing comes back.       *)

OneChangeAtATime ==
  \A c, d \in Calls : IsChanging(c) /\ IsChanging(d) /\ call[c].user = call[d].user => c = d

\* What has been written is not newer than what is to be written, nor than now.
InOrder ==
  /\ \A u \in Users : rotated[u] <= now /\ cutoff[u] <= now
  /\ \A c \in Calls : IsChanging(c) =>
       rotated[call[c].user] <= call[c].stamp /\ cutoff[call[c].user] <= call[c].stamp

TurnInv == InOrder /\ OutdatedBut({}) /\ UnservedBut({})

\* A step that starts no change and writes nothing that has been ended.
LEMMA TurnKept ==
  ASSUME IInv, TurnInv, TypeOK', UNCHANGED <<rotated, cutoff, outdated, unserved>>,
         \A t \in issued : iat'[t] = iat[t] /\ owner'[t] = owner[t] /\ (t \in live' => t \in live),
         denied \subseteq denied', now' = now \/ now' = now + 1,
         \A d \in Calls : IsChanging(d)' =>
           IsChanging(d) /\ call'[d].user = call[d].user /\ call'[d].stamp = call[d].stamp
  PROVE  TurnInv'
<1>1. outdated \subseteq issued /\ unserved \subseteq issued
  BY DEF IInv, TypeOK
<1>2. OutdatedBut({})' /\ UnservedBut({})'
  BY <1>1 DEF TurnInv, OutdatedBut, UnservedBut, NotAfter
<1>3. InOrder'
  <2>1. now \in Nat /\ \A u \in Users : rotated[u] \in Nat /\ cutoff[u] \in Nat
    BY DEF IInv, TypeOK
  <2> QED BY <2>1 DEF TurnInv, InOrder
<1> QED BY <1>2, <1>3 DEF TurnInv

\* Only a change of a password is ever changing one.
LEMMA OthersChangeNothing ==
  ASSUME IInv, NEW c \in Calls, Step(c), ~ ChangeUpdate(c), \A s \in Sessions : ~ ChangeStart(c, s),
         NEW d \in Calls, IsChanging(d)'
  PROVE  IsChanging(d) /\ call'[d] = call[d]
<1>1. ASSUME NEW r, Becomes(c, r), r.at \notin {"update", "publish"}
      PROVE  IsChanging(d) /\ call'[d] = call[d]
  BY <1>1 DEF Becomes, IsChanging, IInv, TypeOK
<1>2. CASE Ends(c)
  BY <1>1, <1>2 DEF Ends, Idle, Request
<1>3. CASE UNCHANGED call
  BY <1>3 DEF IsChanging
<1>4. ASSUME NEW at \in {"mfa", "mint", "manage", "consumed", "deny"}, NEW u, NEW s, NEW b, NEW m,
             Becomes(c, Request(at, u, s, b, m, 0, {}))
      PROVE  IsChanging(d) /\ call'[d] = call[d]
  <2>1. Request(at, u, s, b, m, 0, {}).at \notin {"update", "publish"}
    BY DEF Request
  <2> QED BY <1>1, <1>4, <2>1
<1>5. ASSUME NEW u \in Users,
             EidLogin(c, u) \/ GoogleLogin(c, u) \/ SsoLogin(c, u) \/ ManageRead(c, u) \/ Promote(c, u)
      PROVE  IsChanging(d) /\ call'[d] = call[d]
  BY <1>4, <1>5 DEF EidLogin, GoogleLogin, SsoLogin, ManageRead, Promote, Identified
<1>6. CASE MfaVerify(c) \/ RefreshLookup(c)
  BY <1>2, <1>4, <1>6 DEF MfaVerify, RefreshLookup
<1>7. ASSUME NEW s \in Sessions, RefreshConsume(c, s) \/ LogoutDelete(c, s)
      PROVE  IsChanging(d) /\ call'[d] = call[d]
  BY <1>3, <1>4, <1>7 DEF RefreshConsume, LogoutDelete
<1> QED BY <1>2, <1>5, <1>6, <1>7 DEF Step, Mint, LogoutDeny, ChangePublish, ManageWrite, GiveUp

LEMMA TurnStep ==
  ASSUME IInv, TurnInv, OneChangeAtATime, [Next]_vars, TypeOK'
  PROVE  TurnInv'
<1>0. TypeOK
  BY DEF IInv
<1>1. CASE UNCHANGED vars \/ Tick
  BY <1>1, TurnKept DEF vars, Tick, account, redis, tokens, ended, IsChanging
<1>2. ASSUME NEW c \in Calls, NEW s \in Sessions, ChangeStart(c, s) PROVE TurnInv'
  <2>1. /\ call'[c].at = "update" /\ call'[c].user = owner[s] /\ call'[c].stamp = now
        /\ \A d \in Calls : d # c => call'[d] = call[d]
    BY <1>2 DEF ChangeStart, Becomes, Request, IInv, TypeOK
  <2>2. UNCHANGED <<rotated, live, denied, cutoff, owner, iat, outdated, unserved, now>>
    BY <1>2 DEF ChangeStart, account, redis, tokens, ended
  <2>3. owner[s] \in Users
    BY <1>2 DEF ChangeStart, IInv, TypeOK
  <2>4. InOrder'
    BY <2>1, <2>2, <2>3 DEF TurnInv, InOrder, IsChanging
  <2> QED BY <2>2, <2>4 DEF TurnInv, OutdatedBut, UnservedBut, NotAfter
<1>3. ASSUME NEW c \in Calls, ChangeUpdate(c) PROVE TurnInv'
  <2> DEFINE u == call[c].user
             n == call[c].stamp
  <2>1. n \in Nat /\ n <= now /\ \A v \in Users : rotated[v] \in Nat /\ cutoff[v] \in Nat
    BY <1>0, <1>3, UpdateWrites DEF IInv, Clock, TypeOK, Requests
  <2>2. \A v \in Users : rotated'[v] = IF v = u THEN n ELSE rotated[v]
    BY <1>0, <1>3, UpdateWrites DEF TypeOK
  <2>3. \A d \in Calls : IsChanging(d) /\ call[d].user = u => d = c
    BY <1>0, <1>3, UpdateWrites DEF OneChangeAtATime
  <2>4. InOrder'
    <3>1. \A v \in Users : rotated'[v] <= now' /\ cutoff'[v] <= now'
      BY <1>0, <1>3, <2>1, <2>2, UpdateWrites DEF TurnInv, InOrder
    <3>2. ASSUME NEW d \in Calls, IsChanging(d)'
          PROVE  rotated'[call'[d].user] <= call'[d].stamp /\ cutoff'[call'[d].user] <= call'[d].stamp
      <4>1. IsChanging(d) /\ call'[d].user = call[d].user /\ call'[d].stamp = call[d].stamp
            /\ call[d].user \in Users /\ cutoff' = cutoff
        BY <1>0, <1>3, <3>2, UpdateWrites DEF IsChanging, TypeOK, RequestOK
      <4> QED BY <2>1, <2>2, <2>3, <4>1 DEF TurnInv, InOrder
    <3> QED BY <3>1, <3>2 DEF InOrder
  <2>5. OutdatedBut({})'
    <3> SUFFICES ASSUME NEW t \in outdated', t \in live
                 PROVE  rotated'[owner[t]] # 0 /\ iat[t] <= rotated'[owner[t]]
      BY <1>0, <1>3, UpdateWrites DEF OutdatedBut, NotAfter
    <3>1. t \in issued /\ owner[t] \in Users /\ iat[t] \in Nat
      BY <1>0, <1>3, UpdateWrites DEF TypeOK
    <3>2. CASE t \in call[c].before
      BY <1>0, <1>3, <2>2, <3>1, <3>2, UpdateWrites DEF IInv, OwnSecond, NotAfter
    <3>3. CASE t \notin call[c].before
      <4>1. rotated[owner[t]] # 0 /\ iat[t] <= rotated[owner[t]]
        BY <1>0, <1>3, <3>3, UpdateWrites DEF TurnInv, OutdatedBut, NotAfter
      <4>2. rotated[u] <= n
        BY <1>0, <1>3, UpdateWrites DEF TurnInv, InOrder
      <4> QED BY <2>1, <2>2, <3>1, <4>1, <4>2
    <3> QED BY <3>2, <3>3
  <2>6. UnservedBut({})'
    BY <1>0, <1>3, UpdateWrites DEF TurnInv, UnservedBut, NotAfter
  <2> QED BY <2>4, <2>5, <2>6 DEF TurnInv
<1>4. ASSUME NEW c \in Calls, ChangePublish(c) PROVE TurnInv'
  <2> DEFINE u == call[c].user
             n == call[c].stamp
  <2>1. n \in Nat /\ n <= now /\ \A v \in Users : rotated[v] \in Nat /\ cutoff[v] \in Nat
    BY <1>0, <1>4, PublishWrites DEF IInv, Clock, TypeOK, Requests
  <2>2. CASE UNCHANGED <<cutoff, unserved>>
    BY <1>0, <1>4, <2>2, PublishWrites, TurnKept DEF IsChanging
  <2>3. CASE cutoff' = [cutoff EXCEPT ![u] = n] /\ unserved' = unserved \cup call[c].before
    <3>1. \A v \in Users : cutoff'[v] = IF v = u THEN n ELSE cutoff[v]
      BY <1>0, <2>3 DEF TypeOK
    <3>2. \A d \in Calls : IsChanging(d)' => IsChanging(d) /\ call'[d] = call[d] /\ call[d].user \in Users
      BY <1>0, <1>4, PublishWrites DEF IsChanging, TypeOK, RequestOK
    <3>3. \A d \in Calls : IsChanging(d) /\ call[d].user = u => d = c
      BY <1>0, <1>4, PublishWrites DEF OneChangeAtATime
    <3>4. InOrder'
      BY <1>0, <1>4, <2>1, <3>1, <3>2, <3>3, PublishWrites DEF TurnInv, InOrder
    <3>5. OutdatedBut({})'
      BY <1>0, <1>4, PublishWrites DEF TurnInv, OutdatedBut, NotAfter
    <3>6. UnservedBut({})'
      <4> SUFFICES ASSUME NEW t \in unserved', t \notin denied
                   PROVE  cutoff'[owner[t]] # 0 /\ iat[t] <= cutoff'[owner[t]]
        BY <1>0, <1>4, PublishWrites DEF UnservedBut, NotAfter
      <4>1. t \in issued /\ owner[t] \in Users /\ iat[t] \in Nat
        BY <1>0, <1>4, <2>3, PublishWrites DEF TypeOK
      <4>2. CASE t \in call[c].before
        BY <1>0, <1>4, <3>1, <4>1, <4>2, PublishWrites DEF IInv, OwnSecond, NotAfter
      <4>3. CASE t \notin call[c].before
        <5>1. cutoff[owner[t]] # 0 /\ iat[t] <= cutoff[owner[t]]
          BY <2>3, <4>3 DEF TurnInv, UnservedBut, NotAfter
        <5>2. cutoff[u] <= n
          BY <1>0, <1>4, PublishWrites DEF TurnInv, InOrder
        <5> QED BY <2>1, <3>1, <4>1, <5>1, <5>2
      <4> QED BY <4>2, <4>3
    <3> QED BY <3>4, <3>5, <3>6 DEF TurnInv
  <2> QED BY <1>0, <1>4, <2>2, <2>3, PublishWrites
<1>5. ASSUME NEW c \in Calls, Step(c), ~ ChangeUpdate(c), ~ ChangePublish(c),
             \A s \in Sessions : ~ ChangeStart(c, s)
      PROVE  TurnInv'
  <2>1. \A d \in Calls : IsChanging(d)' => IsChanging(d) /\ call'[d] = call[d]
    BY <1>5, OthersChangeNothing
  <2>2. CASE LogoutDeny(c)
    <3>1. /\ outdated' = outdated \cup {call[c].token} /\ call[c].token \notin live
          /\ \/ denied' = denied \cup {call[c].token} /\ unserved' = unserved \cup {call[c].token}
             \/ UNCHANGED <<denied, unserved>>
          /\ UNCHANGED <<rotated, live, cutoff, owner, iat, now>>
      BY <2>2 DEF LogoutDeny, IInv, Taken, account, tokens
    <3>2. InOrder'
      BY <2>1, <3>1 DEF TurnInv, InOrder
    <3>3. OutdatedBut({})'
      BY <3>1 DEF TurnInv, OutdatedBut, NotAfter
    <3>4. UnservedBut({})'
      BY <3>1 DEF TurnInv, UnservedBut, NotAfter
    <3> QED BY <3>2, <3>3, <3>4 DEF TurnInv
  <2>3. CASE ~ LogoutDeny(c)
    <3>1. UNCHANGED <<rotated, denied, cutoff, outdated, unserved, now>>
      BY <1>5, <2>3 DEF Step, EidLogin, GoogleLogin, SsoLogin, MfaVerify, Mint, RefreshConsume,
                        RefreshLookup, LogoutDelete, ManageRead, ManageWrite, Promote, GiveUp,
                        account, redis, tokens, ended
    <3>2. ASSUME NEW t \in issued
          PROVE  iat'[t] = iat[t] /\ owner'[t] = owner[t] /\ (t \in live' => t \in live)
      <4>1. CASE \E s \in Sessions : Mint(c, s)
        BY <4>1 DEF Mint, Sign, IInv, TypeOK
      <4>2. CASE \E s \in Sessions : RefreshConsume(c, s) \/ LogoutDelete(c, s)
        BY <4>2 DEF RefreshConsume, GetDel, LogoutDelete, tokens
      <4>3. CASE \A s \in Sessions : ~ Mint(c, s) /\ ~ RefreshConsume(c, s) /\ ~ LogoutDelete(c, s)
        BY <1>5, <2>3, <4>3 DEF Step, EidLogin, GoogleLogin, SsoLogin, MfaVerify, RefreshLookup,
                                ManageRead, ManageWrite, Promote, GiveUp, account, redis, tokens
      <4> QED BY <4>1, <4>2, <4>3
    <3> QED BY <2>1, <3>1, <3>2, TurnKept
  <2> QED BY <2>2, <2>3
<1> QED BY <1>1, <1>2, <1>3, <1>4, <1>5, NextSteps

(***************************************************************************)
(* The only way back is the overlap of two changes: as long as the changes *)
(* of one user's password come one after the other, whatever a logout or a *)
(* change has ended is never renewed and never served again.               *)
(***************************************************************************)
THEOREM EndedInTurn == Spec /\ []OneChangeAtATime => []EndedStaysEnded
<1>1. Init => TurnInv
  BY DEF Init, TurnInv, InOrder, OutdatedBut, UnservedBut, IsChanging, Idle, Request
<1>2. TypeOK /\ TurnInv => EndedStaysEnded
  BY OverIsEnded DEF TurnInv, EndedStaysEnded
<1>3. IInv /\ TurnInv /\ OneChangeAtATime /\ [Next]_vars /\ TypeOK' => TurnInv'
  BY TurnStep
<1> QED BY <1>1, <1>2, <1>3, InitEnded, TypeCorrect, Inductive, PTL DEF Spec

-------------------------------------------------------------------------------
(* The chain: a session that a request has taken out of Redis has no child, *)
(* and no other request has it.                                             *)

Carrying(c) == call[c].at \in {"consumed", "mint"} /\ call[c].token # NoSession

Childless(p) == \A t \in Sessions : parent[t] # p

Unshared ==
  /\ \A c \in Calls : Carrying(c) => call[c].token \in issued \ live /\ Childless(call[c].token)
  /\ \A c, d \in Calls : Carrying(c) /\ Carrying(d) /\ call[c].token = call[d].token => c = d
  /\ \A s \in live : Childless(s)
  /\ \A s \in Sessions \ issued : parent[s] = NoSession

ChainInv == TypeOK /\ Unshared

ChainState == [s \in Sessions |-> IF s \in live THEN "live" ELSE IF s \in issued THEN "spent" ELSE "none"]

\* A request that carries nothing new, over jtis that at most go.
LEMMA ChainQuiet ==
  ASSUME ChainInv, TypeOK', NEW c \in Calls, \A d \in Calls : d # c => call'[d] = call[d],
         Carrying(c)' => Carrying(c) /\ call'[c].token = call[c].token,
         live' \subseteq live, UNCHANGED <<issued, parent>>
  PROVE  ChainInv'
<1>1. \A d \in Calls : Carrying(d)' => Carrying(d) /\ call'[d].token = call[d].token
  BY DEF Carrying
<1> QED BY <1>1 DEF ChainInv, Unshared, Childless

LEMMA ChainStutter ==
  ASSUME UNCHANGED <<live, issued, parent>>
  PROVE  UNCHANGED Chain!vars
BY DEF Chain!vars

LEMMA ChainSpend ==
  ASSUME TypeOK, NEW s \in Sessions, live' = live \ {s}, UNCHANGED <<issued, parent>>, s \in issued
  PROVE  [Chain!Next]_(Chain!vars)
<1>1. CASE s \notin live
  <2>1. live' = live
    BY <1>1
  <2> QED BY <2>1, ChainStutter
<1>2. CASE s \in live
  <2>1. ChainState[s] = "live" /\ ChainState' = [ChainState EXCEPT ![s] = "spent"]
    BY <1>2 DEF ChainState, TypeOK
  <2>2. Chain!Spend(s)
    BY <2>1 DEF ChainState, Chain!Spend
  <2> QED BY <2>2 DEF Chain!Next
<1> QED BY <1>1, <1>2

LEMMA ChainMint ==
  ASSUME ChainInv, TypeOK', NEW c \in Calls, NEW s \in Sessions, Mint(c, s)
  PROVE  ChainInv' /\ [Chain!Next]_(Chain!vars)
<1> DEFINE p == call[c].token
<1>1. /\ s \notin issued /\ issued' = issued \cup {s} /\ live' = live \cup {s}
      /\ parent' = [parent EXCEPT ![s] = p] /\ p \in issued \cup {NoSession}
      /\ call[c].at = "mint" /\ parent \in [Sessions -> issued \cup {NoSession}]
      /\ issued \subseteq Sessions /\ live \subseteq issued
  BY DEF Mint, Sign, ChainInv, TypeOK, RequestOK
<1>2. /\ ~ Carrying(c)'
      /\ \A d \in Calls : d # c => call'[d] = call[d]
  BY DEF Mint, Ends, Becomes, Idle, Request, Carrying, ChainInv, TypeOK
<1>3. \A d \in Calls : Carrying(d)' => d # c /\ Carrying(d) /\ call'[d].token = call[d].token
  BY <1>2 DEF Carrying
<1>4. NoSession \notin Sessions
  BY SessionsAssumption
<1>5. p # NoSession => Carrying(c)
  BY <1>1 DEF Carrying
<1>6. \A d \in Calls : d # c /\ Carrying(d) => call[d].token # p
  BY <1>5 DEF ChainInv, Unshared, Carrying
<1>7. Childless(s)'
  BY <1>1, <1>4 DEF Childless
<1>8. \A q \in Sessions : q # p /\ Childless(q) => Childless(q)'
  BY <1>1 DEF Childless
<1>9. p \notin live
  BY <1>1, <1>4, <1>5 DEF ChainInv, Unshared
<1>10. ChainInv'
  <2>1. ASSUME NEW d \in Calls, Carrying(d)'
        PROVE  (call[d].token \in issued \ live /\ Childless(call[d].token))'
    <3>1. call[d].token \in issued \ live /\ Childless(call[d].token) /\ call[d].token # p
      BY <1>3, <1>6, <2>1 DEF ChainInv, Unshared
    <3>2. \A t \in Sessions : parent'[t] # call[d].token
      BY <1>1, <3>1 DEF Childless
    <3> QED BY <1>1, <1>3, <2>1, <3>1, <3>2 DEF Childless
  <2>2. \A d, e \in Calls : Carrying(d)' /\ Carrying(e)' /\ call'[d].token = call'[e].token => d = e
    BY <1>3 DEF ChainInv, Unshared
  <2>3. \A q \in live' : Childless(q)'
    BY <1>1, <1>7, <1>8, <1>9 DEF ChainInv, Unshared
  <2>4. \A q \in Sessions \ issued' : parent'[q] = NoSession
    BY <1>1 DEF ChainInv, Unshared
  <2> QED BY <2>1, <2>2, <2>3, <2>4 DEF ChainInv, Unshared
<1>11. ChainState[s] = "none" /\ ChainState' = [ChainState EXCEPT ![s] = "live"]
  BY <1>1 DEF ChainState
<1>12. CASE p = NoSession
  <2>1. parent' = parent
    BY <1>1, <1>12 DEF ChainInv, Unshared
  <2>2. Chain!Login(s)
    BY <1>11, <2>1 DEF ChainState, Chain!Login
  <2> QED BY <1>10, <2>2 DEF Chain!Next
<1>13. CASE p # NoSession
  <2>1. PICK q \in Sessions : q = p /\ q \in issued \ live /\ Childless(q)
    BY <1>1, <1>5, <1>13 DEF ChainInv, Unshared
  <2>2. ChainState[q] = "spent"
    BY <2>1 DEF ChainState
  <2>3. Chain!Renew(s, q)
    BY <1>1, <1>11, <2>1, <2>2 DEF ChainState, Chain!Renew, Childless
  <2> QED BY <1>10, <2>1, <2>3 DEF Chain!Next
<1> QED BY <1>12, <1>13

LEMMA ChainStep ==
  ASSUME ChainInv, [Next]_vars, TypeOK'
  PROVE  ChainInv' /\ [Chain!Next]_(Chain!vars)
<1>1. ASSUME NEW c \in Calls, \A d \in Calls : d # c => call'[d] = call[d],
             call'[c].at \in {"consumed", "mint"} => call'[c].token = NoSession,
             UNCHANGED <<live, issued, parent>>
      PROVE  ChainInv' /\ [Chain!Next]_(Chain!vars)
  BY <1>1, ChainQuiet, ChainStutter DEF Carrying
<1>2. ASSUME NEW c \in Calls, Step(c) PROVE \A d \in Calls : d # c => call'[d] = call[d]
  BY <1>2 DEF Step, EidLogin, GoogleLogin, SsoLogin, ManageRead, Mint, RefreshConsume, LogoutDelete,
              ChangeStart, MfaVerify, RefreshLookup, LogoutDeny, ChangeUpdate, ChangePublish,
              ManageWrite, Promote, GiveUp, Ends, Becomes, ChainInv, TypeOK
<1>3. ASSUME NEW c \in Calls, Ends(c), UNCHANGED <<live, issued, parent>>,
             \A d \in Calls : d # c => call'[d] = call[d]
      PROVE  ChainInv' /\ [Chain!Next]_(Chain!vars)
  <2>1. call'[c].at = "idle"
    BY <1>3 DEF Ends, Becomes, Idle, Request, ChainInv, TypeOK
  <2> QED BY <1>1, <1>3, <2>1
<1>4. ASSUME NEW c \in Calls, Step(c),
             LogoutDeny(c) \/ ChangePublish(c) \/ ManageWrite(c) \/ GiveUp(c)
      PROVE  ChainInv' /\ [Chain!Next]_(Chain!vars)
  <2>1. Ends(c) /\ UNCHANGED <<live, issued, parent>>
    BY <1>4 DEF LogoutDeny, ChangePublish, ManageWrite, GiveUp, account, redis, tokens
  <2> QED BY <1>2, <1>3, <1>4, <2>1
<1>5. ASSUME NEW c \in Calls, Step(c),
             \/ \E u \in Users :
                  EidLogin(c, u) \/ GoogleLogin(c, u) \/ SsoLogin(c, u) \/ ManageRead(c, u) \/ Promote(c, u)
             \/ MfaVerify(c) \/ ChangeUpdate(c) \/ \E s \in Sessions : ChangeStart(c, s)
      PROVE  ChainInv' /\ [Chain!Next]_(Chain!vars)
  <2>1. UNCHANGED <<live, issued, parent>>
    BY <1>5 DEF EidLogin, GoogleLogin, SsoLogin, ManageRead, Promote, MfaVerify, ChangeUpdate, ChangeStart,
                redis, tokens
  <2>2. call'[c].token = NoSession
    BY <1>5 DEF EidLogin, GoogleLogin, SsoLogin, ManageRead, Promote, MfaVerify, ChangeUpdate, ChangeStart,
                Identified, Becomes, Request, ChainInv, TypeOK
  <2> QED BY <1>1, <1>2, <1>5, <2>1, <2>2
<1>6. ASSUME NEW c \in Calls, NEW s \in Sessions, RefreshConsume(c, s)
      PROVE  ChainInv' /\ [Chain!Next]_(Chain!vars)
  <2>1. s \in live /\ s \in issued /\ live' = live \ {s} /\ UNCHANGED <<issued, parent>> /\ ~ Carrying(c)
    BY <1>6 DEF RefreshConsume, GetDel, tokens, IsIdle, Idle, Request, Carrying, ChainInv, TypeOK
  <2>2. [Chain!Next]_(Chain!vars)
    BY <2>1, ChainSpend DEF ChainInv
  <2>3. \A d \in Calls : d # c => call'[d] = call[d]
    BY <1>2, <1>6 DEF Step
  <2>4. CASE UNCHANGED call
    BY <2>1, <2>2, <2>4, ChainQuiet DEF Carrying
  <2>5. CASE Becomes(c, Request("consumed", NoUser, s, FALSE, FALSE, 0, {}))
    <3>1. call'[c].token = s
      BY <2>5 DEF Becomes, Request, ChainInv, TypeOK
    <3>2. \A d \in Calls : Carrying(d)' => d = c \/ (Carrying(d) /\ call'[d].token = call[d].token)
      BY <2>3 DEF Carrying
    <3>3. \A d \in Calls : Carrying(d) => call[d].token # s
      BY <2>1 DEF ChainInv, Unshared
    <3> QED BY <2>1, <2>2, <2>3, <3>1, <3>2, <3>3 DEF ChainInv, Unshared, Childless
  <2> QED BY <1>6, <2>4, <2>5 DEF RefreshConsume
<1>7. ASSUME NEW c \in Calls, NEW s \in Sessions, LogoutDelete(c, s)
      PROVE  ChainInv' /\ [Chain!Next]_(Chain!vars)
  <2>1. s \in issued /\ live' = live \ {s} /\ UNCHANGED <<issued, parent>>
    BY <1>7 DEF LogoutDelete, tokens, ChainInv, TypeOK
  <2>2. \A d \in Calls : d # c => call'[d] = call[d]
    BY <1>2, <1>7 DEF Step
  <2>3. ~ Carrying(c)'
    BY <1>7 DEF LogoutDelete, Becomes, IsIdle, Idle, Request, Carrying, ChainInv, TypeOK
  <2> QED BY <2>1, <2>2, <2>3, ChainSpend, ChainQuiet DEF ChainInv
<1>8. ASSUME NEW c \in Calls, Step(c), RefreshLookup(c) PROVE ChainInv' /\ [Chain!Next]_(Chain!vars)
  <2>1. UNCHANGED <<live, issued, parent>>
    BY <1>8 DEF RefreshLookup, redis, tokens
  <2>2. CASE Ends(c)
    BY <1>2, <1>3, <1>8, <2>1, <2>2
  <2>3. CASE ~ Ends(c)
    <3>1. call'[c].token = call[c].token /\ call[c].at = "consumed"
      BY <1>8, <2>3 DEF RefreshLookup, Becomes, Request, ChainInv, TypeOK
    <3>2. Carrying(c)' => Carrying(c)
      BY <3>1 DEF Carrying
    <3> QED BY <1>2, <1>8, <2>1, <3>1, <3>2, ChainQuiet, ChainStutter
  <2> QED BY <2>2, <2>3
<1>9. ASSUME UNCHANGED <<live, issued, parent, call>> PROVE ChainInv' /\ [Chain!Next]_(Chain!vars)
  BY <1>9, ChainStutter DEF ChainInv, Unshared, Carrying, Childless
<1>10. ASSUME NEW c \in Calls, Step(c) PROVE ChainInv' /\ [Chain!Next]_(Chain!vars)
  BY <1>4, <1>5, <1>6, <1>7, <1>8, <1>10, ChainMint DEF Step
<1>11. ASSUME Tick \/ UNCHANGED vars
       PROVE  ChainInv' /\ [Chain!Next]_(Chain!vars)
  BY <1>9, <1>11 DEF Tick, vars, redis, tokens
<1> QED BY <1>10, <1>11, NextSteps

(***************************************************************************)
(* Logins, refreshes and logouts, interleaved command by command with the  *)
(* faults of Redis, implement the chain: a session is renewed at most      *)
(* once, and never lives again.                                            *)
(***************************************************************************)
THEOREM RefreshIsAChain == Spec => ImplementsChain
<1>1. Init => ChainInv /\ Chain!Init
  <2>1. Init => TypeOK
    BY TypeInit
  <2>2. Init => Unshared
    BY DEF Init, Unshared, Carrying, Childless, Idle, Request
  <2>3. Init => Chain!Init
    BY DEF Init, Chain!Init
  <2> QED BY <2>1, <2>2, <2>3 DEF ChainInv
<1>2. ChainInv /\ [Next]_vars /\ TypeOK' => ChainInv' /\ [Chain!Next]_(Chain!vars)
  BY ChainStep
<1> QED BY <1>1, <1>2, TypeCorrect, PTL DEF Spec, ImplementsChain, Chain!Spec

-------------------------------------------------------------------------------
(* The chain's promise.  A renewed session has one child at most and is no   *)
(* end any more, so each login has one end; proved of the abstract chain,    *)
(* and so of what implements it.                                             *)

Exists(s) == ChainState[s] # "none"
IsEnd(s) == Exists(s) /\ Childless(s)

RootsOK(root) ==
  /\ root \in [Sessions -> Sessions]
  /\ \A s \in Sessions : root[s] = IF parent[s] = NoSession THEN s ELSE root[parent[s]]
  /\ \A s \in Sessions : Exists(s) => Exists(root[s])
  /\ \A s, t \in Sessions : (IsEnd(s) /\ IsEnd(t) /\ root[s] = root[t]) => s = t

EndInv ==
  /\ parent \in [Sessions -> Sessions \cup {NoSession}]
  /\ \A s \in Sessions : ~ Exists(s) => parent[s] = NoSession /\ Childless(s)
  /\ \A s \in Sessions : ChainState[s] = "live" => Childless(s)
  /\ \E root : RootsOK(root)

LEMMA EndInit == Chain!Init => EndInv
<1> SUFFICES ASSUME Chain!Init PROVE EndInv
  OBVIOUS
<1>1. /\ parent = [s \in Sessions |-> NoSession]
      /\ \A s \in Sessions : ~ Exists(s)
  BY DEF Chain!Init, ChainState, Exists
<1>2. \A s \in Sessions : Childless(s) /\ ~ IsEnd(s)
  BY <1>1, SessionsAssumption DEF Childless, IsEnd
<1>3. RootsOK([s \in Sessions |-> s])
  BY <1>1, <1>2 DEF RootsOK
<1> QED BY <1>1, <1>2, <1>3 DEF EndInv, Exists

\* A login begins a chain.
LEMMA EndLogin ==
  ASSUME EndInv, NEW s \in Sessions, ~ Exists(s), UNCHANGED parent,
         ChainState' = [ChainState EXCEPT ![s] = "live"]
  PROVE  EndInv'
<1>1. PICK root : RootsOK(root)
  BY DEF EndInv
<1>2. /\ \A t \in Sessions : Childless(t)' <=> Childless(t)
      /\ \A t \in Sessions : t # s => ChainState'[t] = ChainState[t]
      /\ ChainState'[s] = "live"
  BY DEF Childless, ChainState
<1>3. \A t \in Sessions : t # s => (Exists(t)' <=> Exists(t)) /\ (IsEnd(t)' <=> IsEnd(t))
  BY <1>2 DEF Exists, IsEnd
<1>4. Exists(s)' /\ parent[s] = NoSession /\ Childless(s) /\ root[s] = s
  BY <1>1, <1>2 DEF EndInv, RootsOK, Exists
<1>5. \A t \in Sessions : t # s /\ Exists(t) => root[t] # s
  BY <1>1 DEF RootsOK
<1>6. RootsOK(root)'
  BY <1>1, <1>3, <1>4, <1>5 DEF RootsOK, IsEnd
<1>7. \A t \in Sessions : ~ Exists(t)' => parent[t] = NoSession /\ Childless(t)
  BY <1>3, <1>4 DEF EndInv
<1>8. \A t \in Sessions : ChainState'[t] = "live" => Childless(t)
  BY <1>2, <1>4 DEF EndInv
<1> QED BY <1>2, <1>6, <1>7, <1>8 DEF EndInv

\* A session that is spent stays where it is in its chain.
LEMMA EndSpend ==
  ASSUME EndInv, NEW s \in Sessions, ChainState[s] = "live", UNCHANGED parent,
         ChainState' = [ChainState EXCEPT ![s] = "spent"]
  PROVE  EndInv'
<1>1. PICK root : RootsOK(root)
  BY DEF EndInv
<1>2. /\ \A t \in Sessions : Childless(t)' <=> Childless(t)
      /\ \A t \in Sessions : t # s => ChainState'[t] = ChainState[t]
      /\ ChainState'[s] = "spent"
  BY DEF Childless, ChainState
<1>3. \A t \in Sessions : (Exists(t)' <=> Exists(t)) /\ (IsEnd(t)' <=> IsEnd(t))
  BY <1>2 DEF Exists, IsEnd
<1>4. RootsOK(root)'
  BY <1>1, <1>3 DEF RootsOK
<1> QED BY <1>2, <1>3, <1>4 DEF EndInv

\* A renewal puts the new session in the place of the one it renews.
LEMMA EndRenew ==
  ASSUME EndInv, NEW s \in Sessions, NEW p \in Sessions, ~ Exists(s), ChainState[p] = "spent",
         Childless(p), parent' = [parent EXCEPT ![s] = p],
         ChainState' = [ChainState EXCEPT ![s] = "live"]
  PROVE  EndInv'
<1>1. PICK root : RootsOK(root)
  BY DEF EndInv
<1> DEFINE new == [root EXCEPT ![s] = root[p]]
<1>2. /\ s # p /\ Exists(p) /\ p \in Sessions /\ p # NoSession
      /\ parent[s] = NoSession /\ Childless(s)
  BY SessionsAssumption DEF EndInv, Exists
<1>3. /\ parent'[s] = p /\ \A t \in Sessions : t # s => parent'[t] = parent[t]
      /\ parent' \in [Sessions -> Sessions \cup {NoSession}]
  BY DEF EndInv
<1>4. /\ \A t \in Sessions : t # s => ChainState'[t] = ChainState[t]
      /\ ChainState'[s] = "live"
  BY DEF ChainState
<1>5. \A t \in Sessions : Childless(t)' <=> Childless(t) /\ t # p
  <2>1. ~ Childless(p)'
    BY <1>3 DEF Childless
  <2>2. ASSUME NEW t \in Sessions, t # p, Childless(t) PROVE Childless(t)'
    BY <1>3, <2>2 DEF Childless
  <2>3. ASSUME NEW t \in Sessions, Childless(t)' PROVE Childless(t)
    <3>1. \A x \in Sessions : x # s => parent[x] # t
      BY <1>3, <2>3 DEF Childless
    <3>2. parent[s] # t
      BY <1>2, SessionsAssumption
    <3> QED BY <3>1, <3>2 DEF Childless
  <2> QED BY <2>1, <2>2, <2>3
<1>6. /\ \A t \in Sessions : t # s => (Exists(t)' <=> Exists(t))
      /\ \A t \in Sessions : t # s => (IsEnd(t)' <=> IsEnd(t) /\ t # p)
      /\ Exists(s)'
  BY <1>4, <1>5 DEF Exists, IsEnd
<1>7. \A t \in Sessions : parent[t] # s
  BY <1>2 DEF Childless
<1>8. /\ root \in [Sessions -> Sessions] /\ Exists(root[p]) /\ root[p] # s /\ root[s] = s
      /\ \A t \in Sessions : Exists(t) => root[t] # s
  BY <1>1, <1>2 DEF RootsOK
<1>9. /\ new \in [Sessions -> Sessions] /\ new[s] = root[p]
      /\ \A t \in Sessions : t # s => new[t] = root[t]
  BY <1>8
<1> HIDE DEF new
<1>10. \A t \in Sessions : new[t] = IF parent'[t] = NoSession THEN t ELSE new[parent'[t]]
  <2>1. ASSUME NEW t \in Sessions, t # s PROVE new[t] = IF parent'[t] = NoSession THEN t ELSE new[parent'[t]]
    <3>1. parent[t] \in Sessions \cup {NoSession} /\ parent[t] # s
      BY <1>7 DEF EndInv
    <3>2. root[t] = IF parent[t] = NoSession THEN t ELSE root[parent[t]]
      BY <1>1 DEF RootsOK
    <3> QED BY <1>3, <1>9, <2>1, <3>1, <3>2
  <2> QED BY <1>2, <1>3, <1>9, <2>1
<1>11. \A t \in Sessions : Exists(t)' => Exists(new[t])'
  BY <1>1, <1>2, <1>6, <1>8, <1>9 DEF RootsOK
<1>12. \A t \in Sessions : t # s /\ IsEnd(t)' => new[t] # new[s]
  <2> SUFFICES ASSUME NEW t \in Sessions, t # s, IsEnd(t), t # p PROVE root[t] # root[p]
    BY <1>6, <1>9
  <2> QED BY <1>1, <1>2 DEF RootsOK, IsEnd
<1>13. \A t, v \in Sessions : (IsEnd(t)' /\ IsEnd(v)' /\ new[t] = new[v]) => t = v
  <2>1. ASSUME NEW t \in Sessions, NEW v \in Sessions, t # s, v # s, IsEnd(t)', IsEnd(v)', new[t] = new[v]
        PROVE  t = v
    BY <1>1, <1>6, <1>9, <2>1 DEF RootsOK
  <2> QED BY <1>12, <2>1
<1>14. RootsOK(new)'
  BY <1>9, <1>10, <1>11, <1>13 DEF RootsOK
<1>15. \A t \in Sessions : ~ Exists(t)' => parent'[t] = NoSession /\ Childless(t)'
  BY <1>2, <1>3, <1>5, <1>6 DEF EndInv
<1>16. \A t \in Sessions : ChainState'[t] = "live" => Childless(t)'
  BY <1>2, <1>4, <1>5 DEF EndInv
<1> QED BY <1>3, <1>14, <1>15, <1>16 DEF EndInv

LEMMA EndStep == EndInv /\ [Chain!Next]_(Chain!vars) => EndInv'
<1> SUFFICES ASSUME EndInv, [Chain!Next]_(Chain!vars) PROVE EndInv'
  OBVIOUS
<1>1. ASSUME NEW s \in Sessions, Chain!Login(s) PROVE EndInv'
  BY <1>1, EndLogin DEF Chain!Login, ChainState, Exists
<1>2. ASSUME NEW s \in Sessions, Chain!Spend(s) PROVE EndInv'
  BY <1>2, EndSpend DEF Chain!Spend, ChainState
<1>3. ASSUME NEW s \in Sessions, NEW p \in Sessions, Chain!Renew(s, p) PROVE EndInv'
  BY <1>3, EndRenew DEF Chain!Renew, ChainState, Exists, Childless
<1>4. ASSUME UNCHANGED Chain!vars PROVE EndInv'
  <2>1. ChainState' = ChainState /\ parent' = parent
    BY <1>4 DEF Chain!vars, ChainState
  <2> QED BY <2>1 DEF EndInv, RootsOK, IsEnd, Exists, Childless
<1> QED BY <1>1, <1>2, <1>3, <1>4 DEF Chain!Next

(***************************************************************************)
(* A login has one live session at most, over any number of refreshes,     *)
(* logouts and faults of Redis: of the sessions that descend from it, only *)
(* the last can be.                                                        *)
(***************************************************************************)
THEOREM OneLiveSession == Spec => []Chain!OneLiveEnd
<1>1. Chain!Spec => []EndInv
  BY EndInit, EndStep, PTL DEF Chain!Spec
<1>2. EndInv => Chain!OneLiveEnd
  <2> SUFFICES ASSUME EndInv PROVE Chain!OneLiveEnd
    OBVIOUS
  <2>1. PICK root : RootsOK(root)
    BY DEF EndInv
  <2>2. \A s \in Sessions : ChainState[s] = "live" => IsEnd(s)
    BY DEF EndInv, IsEnd, Exists
  <2>3. /\ root \in [Sessions -> Sessions]
        /\ \A s \in Sessions : root[s] = IF parent[s] = NoSession THEN s ELSE root[parent[s]]
        /\ \A s, t \in Sessions :
             (ChainState[s] = "live" /\ ChainState[t] = "live" /\ root[s] = root[t]) => s = t
    BY <2>1, <2>2 DEF RootsOK
  <2> QED BY <2>3 DEF Chain!OneLiveEnd, ChainState
<1> QED BY <1>1, <1>2, RefreshIsAChain, PTL DEF ImplementsChain

-------------------------------------------------------------------------------
(* The second factor.  There are two ways round it, and no other. *)

\* What is about to be signed for a super admin carries a second factor.
SuperInv ==
  /\ \A c \in Calls : call[c].at = "mint" /\ call[c].super => call[c].strong
  /\ claim \subseteq verified

\* No super admin comes in by SSO, and none by renewing a session that has no
\* second factor, which it has from before it was promoted.
NoWayRound ==
  /\ \A c \in Calls, u \in Users : SsoLogin(c, u) => ~ super[u]
  /\ \A c \in Calls : (RefreshLookup(c) /\ super[owner[call[c].token]]) => call[c].token \in verified

LEMMA SuperInit == Init => SuperInv
BY DEF Init, SuperInv, Idle, Request

LEMMA SuperRequest ==
  ASSUME TypeOK, SuperInv, NEW c \in Calls, NEW r, Becomes(c, r),
         r.at = "mint" /\ r.super => r.strong, UNCHANGED <<claim, verified>>
  PROVE  SuperInv'
BY DEF TypeOK, SuperInv, Becomes

LEMMA SuperStep ==
  ASSUME TypeOK, SuperInv, NoWayRound, NEW c \in Calls, Step(c)
  PROVE  SuperInv'
<1>1. ASSUME NEW s \in Sessions, Mint(c, s) PROVE SuperInv'
  <2>1. call[c].super => call[c].strong
    BY <1>1 DEF Mint, SuperInv
  <2>2. claim' \subseteq verified'
    BY <1>1, <2>1 DEF Mint, Sign, SuperInv
  <2>3. \A d \in Calls : call'[d].at = "mint" => call'[d] = call[d]
    BY <1>1 DEF Mint, Ends, Becomes, Idle, Request, TypeOK
  <2> QED BY <2>2, <2>3 DEF SuperInv
<1>2. ASSUME NEW u \in Users, EidLogin(c, u) \/ GoogleLogin(c, u) PROVE SuperInv'
  <2>1. Identified(u, TRUE).at = "mint" => ~ Identified(u, TRUE).super
    BY DEF Identified, Request
  <2> QED BY <1>2, <2>1, SuperRequest DEF EidLogin, GoogleLogin, tokens
<1>3. ASSUME NEW u \in Users, SsoLogin(c, u) PROVE SuperInv'
  <2>1. ~ Identified(u, FALSE).super
    BY <1>3 DEF NoWayRound, Identified, Request
  <2> QED BY <1>3, <2>1, SuperRequest DEF SsoLogin, tokens
<1>4. CASE RefreshLookup(c)
  <2> DEFINE s == call[c].token
             r == Request("mint", owner[s], s, super[owner[s]], s \in verified, 0, {})
  <2>1. Becomes(c, r) \/ Becomes(c, Idle)
    BY <1>4 DEF RefreshLookup, Ends
  <2>2. r.super => r.strong
    BY <1>4 DEF NoWayRound, Request
  <2>3. Idle.at # "mint"
    BY DEF Idle, Request
  <2>4. UNCHANGED <<claim, verified>>
    BY <1>4 DEF RefreshLookup, tokens
  <2> HIDE DEF r
  <2> QED BY <2>1, <2>2, <2>3, <2>4, SuperRequest
<1>5. ASSUME NEW r, Becomes(c, r), r.at # "mint" \/ r.strong = TRUE, UNCHANGED <<claim, verified>>
      PROVE  SuperInv'
  BY <1>5, SuperRequest
<1>6. ASSUME UNCHANGED <<call, claim, verified>> PROVE SuperInv'
  BY <1>6 DEF SuperInv
<1>7. CASE MfaVerify(c) \/ LogoutDeny(c) \/ ChangeUpdate(c) \/ ChangePublish(c)
           \/ ManageWrite(c) \/ GiveUp(c)
  BY <1>5, <1>7 DEF MfaVerify, LogoutDeny, ChangeUpdate, ChangePublish, ManageWrite, GiveUp,
                    Ends, Idle, Request, tokens
<1>8. ASSUME NEW u \in Users, ManageRead(c, u) \/ Promote(c, u) PROVE SuperInv'
  BY <1>5, <1>8 DEF ManageRead, Promote, Request, tokens
<1>9. ASSUME NEW s \in Sessions, RefreshConsume(c, s) \/ LogoutDelete(c, s) \/ ChangeStart(c, s)
      PROVE  SuperInv'
  BY <1>5, <1>6, <1>9 DEF RefreshConsume, LogoutDelete, ChangeStart, Request, tokens
<1> QED BY <1>1, <1>2, <1>3, <1>4, <1>7, <1>8, <1>9 DEF Step

(***************************************************************************)
(* SuperPassedMfa fails (run sessions_mfa).  It fails in no other way than *)
(* the two that NoWayRound names: where no super admin takes them, every   *)
(* session of one has passed the second factor, also when the account is   *)
(* promoted or its sessions are refreshed while a login is on its way.     *)
(***************************************************************************)
THEOREM SuperOnlyRoundMfa == Spec /\ [][NoWayRound]_vars => []SuperPassedMfa
<1>1. TypeOK /\ SuperInv /\ [Next]_vars /\ [NoWayRound]_vars => SuperInv'
  <2> SUFFICES ASSUME TypeOK, SuperInv, [Next]_vars, [NoWayRound]_vars PROVE SuperInv'
    OBVIOUS
  <2>1. ASSUME UNCHANGED <<call, claim, verified>> PROVE SuperInv'
    BY <2>1 DEF SuperInv
  <2>2. CASE UNCHANGED vars
    BY <2>1, <2>2 DEF vars, tokens
  <2>3. CASE Tick
    BY <2>1, <2>3 DEF Tick, tokens
  <2>4. ASSUME NEW c \in Calls, Step(c), NoWayRound PROVE SuperInv'
    BY <2>4, SuperStep
  <2> QED BY <2>2, <2>3, <2>4, NextSteps
<1>2. SuperInv => SuperPassedMfa
  BY DEF SuperInv, SuperPassedMfa
<1> QED BY <1>1, <1>2, SuperInit, TypeCorrect, PTL DEF Spec
==============================================================================
