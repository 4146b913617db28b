------------------------------- MODULE Sessions -------------------------------
(***************************************************************************)
(* Login sessions: the users table, the refresh, deny and cutoff keys in   *)
(* Redis, and the requests of usecases/auth, usecases/sso and the second   *)
(* step of usecases/superadmin_onboarding that read one and write another. *)
(*                                                                         *)
(* A session is an access token with the refresh token minted beside it.   *)
(* call[c] is the request c in flight; a Redis command may time out after  *)
(* it was executed (redis.ts withTimeout).  Expiry has no step: every key  *)
(* lives as long as the token it is about.                                 *)
(***************************************************************************)
EXTENDS Naturals

CONSTANTS
  Users, Sessions, Calls,
  NoUser, NoSession,    \* no user, no session
  MaxTime, MaxFaults    \* bounds: the clock in seconds, the faults

ASSUME SessionsAssumption ==
  /\ NoUser \notin Users
  /\ NoSession \notin Sessions
  /\ MaxTime \in Nat
  /\ MaxFaults \in Nat

VARIABLES
  \* users: columns of one row each; rotated is password_changed_at, 0 for NULL
  active, deleted, super, rotated,
  \* Redis: refresh jtis, denied access jtis, cutoff second of a user (0: none)
  live, denied, cutoff,
  \* tokens that exist, and what is signed into them
  issued, delivered, owner, iat, claim, parent,
  call, now, faults,
  \* history: the sessions whose login passed the second factor, and the ones a
  \* logout or a change of the password has ended, in the database or in Redis,
  \* and the ones issued in a later second than that of a change still in flight
  verified, outdated, unserved, between

account == <<active, deleted, super, rotated>>
redis == <<live, denied, cutoff>>
tokens == <<issued, delivered, owner, iat, claim, parent, verified, between>>
ended == <<outdated, unserved>>
vars == <<account, redis, tokens, call, ended, now, faults>>

Steps == {"idle", "mfa", "mint", "consumed", "deny", "update", "publish", "manage"}

\* A request: the step it is at, the user and the token it is about, what it has
\* read of the user (super), whether it carries a second factor (strong), and for
\* a change of the password its second and the sessions it is to end (before).
Request(at, u, s, super_, strong_, second, sessions) ==
  [at |-> at, user |-> u, token |-> s, super |-> super_, strong |-> strong_,
   stamp |-> second, before |-> sessions]

Idle == Request("idle", NoUser, NoSession, FALSE, FALSE, 0, {})

Requests ==
  [at : Steps, user : Users \cup {NoUser}, token : Sessions \cup {NoSession},
   super : BOOLEAN, strong : BOOLEAN, stamp : Nat, before : SUBSET Sessions]

\* What a request is about exists.
RequestOK(r) ==
  /\ r.at \in {"mfa", "mint", "update", "publish", "manage"} => r.user \in Users
  /\ r.at \in {"consumed", "deny"} => r.token \in issued
  /\ r.token \in issued \cup {NoSession}
  /\ r.before \subseteq issued

TypeOK ==
  /\ active \in [Users -> BOOLEAN]
  /\ deleted \in [Users -> BOOLEAN]
  /\ super \in [Users -> BOOLEAN]
  /\ rotated \in [Users -> Nat]
  /\ live \in SUBSET issued
  /\ denied \in SUBSET issued
  /\ cutoff \in [Users -> Nat]
  /\ issued \in SUBSET Sessions
  /\ delivered \in SUBSET issued
  /\ owner \in [Sessions -> Users \cup {NoUser}]
  /\ \A s \in issued : owner[s] \in Users
  /\ iat \in [Sessions -> Nat]
  /\ claim \in SUBSET issued
  /\ parent \in [Sessions -> issued \cup {NoSession}]
  /\ verified \in SUBSET issued
  /\ between \in SUBSET issued
  /\ call \in [Calls -> Requests]
  /\ \A c \in Calls : RequestOK(call[c])
  /\ outdated \in SUBSET issued
  /\ unserved \in SUBSET issued
  /\ now \in Nat
  /\ faults \in Nat

Init ==
  /\ active = [u \in Users |-> TRUE]
  /\ deleted = [u \in Users |-> FALSE]
  /\ super = [u \in Users |-> FALSE]
  /\ rotated = [u \in Users |-> 0]
  /\ live = {}
  /\ denied = {}
  /\ cutoff = [u \in Users |-> 0]
  /\ issued = {}
  /\ delivered = {}
  /\ owner = [s \in Sessions |-> NoUser]
  /\ iat = [s \in Sessions |-> 0]
  /\ claim = {}
  /\ parent = [s \in Sessions |-> NoSession]
  /\ verified = {}
  /\ between = {}
  /\ call = [c \in Calls |-> Idle]
  /\ outdated = {}
  /\ unserved = {}
  /\ now = 1
  /\ faults = 0

-------------------------------------------------------------------------------
(* What the code asks of a token *)

\* The middleware: not logged out, and not issued before the cutoff in Redis.
Served(s) ==
  /\ s \notin denied
  /\ cutoff[owner[s]] = 0 \/ iat[s] > cutoff[owner[s]]

\* Mutant: a token of the very second of the change may be renewed.
MayRenewSameSecond(s) ==
  /\ ~ deleted[owner[s]]
  /\ active[owner[s]]
  /\ rotated[owner[s]] = 0 \/ iat[s] >= rotated[owner[s]]

\* /refresh, of the row it has read: an account that may log in, and a token
\* that is younger than the last change of the password.
MayRenew(s) ==
  /\ ~ deleted[owner[s]]
  /\ active[owner[s]]
  /\ rotated[owner[s]] = 0 \/ iat[s] > rotated[owner[s]]

\* A Redis command reports an error.
Fault == faults < MaxFaults /\ faults' = faults + 1

IsIdle(c) == call[c] = Idle
Becomes(c, request) == call' = [call EXCEPT ![c] = request]
Ends(c) == Becomes(c, Idle)

-------------------------------------------------------------------------------
(* Logging in *)

\* What a login that has just read u goes on with: the second factor if it is
\* asked for and u is a super admin.
Identified(u, asksMfa) ==
  Request(IF asksMfa /\ super[u] THEN "mfa" ELSE "mint", u, NoSession, super[u], FALSE, 0, {})

\* eidPoll: the upsert activates the row, whether or not it is deleted.
EidLogin(c, u) ==
  /\ IsIdle(c)
  /\ active' = [active EXCEPT ![u] = TRUE]
  /\ Becomes(c, Identified(u, TRUE))
  /\ UNCHANGED <<deleted, super, rotated, redis, tokens, ended, now, faults>>

\* googleLogin of an account that is already linked.
GoogleLogin(c, u) ==
  /\ IsIdle(c)
  /\ ~ deleted[u]
  /\ Becomes(c, Identified(u, TRUE))
  /\ UNCHANGED <<account, redis, tokens, ended, now, faults>>

\* The end of both SSO flows: it does not ask for the second factor.
SsoLogin(c, u) ==
  /\ IsIdle(c)
  /\ active' = [active EXCEPT ![u] = TRUE]
  /\ Becomes(c, Identified(u, FALSE))
  /\ UNCHANGED <<deleted, super, rotated, redis, tokens, ended, now, faults>>

\* superadminMfa with a right code: the account is read again.
MfaVerify(c) ==
  /\ call[c].at = "mfa"
  /\ ~ deleted[call[c].user]
  /\ super[call[c].user]
  /\ Becomes(c, Request("mint", call[c].user, NoSession, TRUE, TRUE, 0, {}))
  /\ UNCHANGED <<account, redis, tokens, ended, now, faults>>

\* A change of u's password is in flight whose second is over.
Behind(u) ==
  \E d \in Calls :
    call[d].at \in {"update", "publish"} /\ call[d].user = u /\ call[d].stamp < now

\* Mutant: the user is not signed into the token.
SignAnonymous(r, s) ==
  /\ issued' = issued \cup {s}
  /\ iat' = [iat EXCEPT ![s] = now]
  /\ claim' = IF r.super THEN claim \cup {s} ELSE claim
  /\ parent' = [parent EXCEPT ![s] = r.token]
  /\ verified' = IF r.strong THEN verified \cup {s} ELSE verified
  /\ between' = IF Behind(r.user) THEN between \cup {s} ELSE between
  /\ UNCHANGED owner

\* The pair s is signed for the request r.
Sign(r, s) ==
  /\ issued' = issued \cup {s}
  /\ owner' = [owner EXCEPT ![s] = r.user]
  /\ iat' = [iat EXCEPT ![s] = now]
  /\ claim' = IF r.super THEN claim \cup {s} ELSE claim
  /\ parent' = [parent EXCEPT ![s] = r.token]
  /\ verified' = IF r.strong THEN verified \cup {s} ELSE verified
  /\ between' = IF Behind(r.user) THEN between \cup {s} ELSE between

\* mintSession, and the same lines of the SSO and MFA flows: the refresh jti is
\* remembered and the pair is answered, or the command fails and is not.
Mint(c, s) ==
  /\ call[c].at = "mint"
  /\ s \notin issued
  /\ Sign(call[c], s)
  /\ live' = live \cup {s}
  /\ \/ delivered' = delivered \cup {s} /\ UNCHANGED faults
     \/ UNCHANGED delivered /\ Fault
  /\ Ends(c)
  /\ UNCHANGED <<account, denied, cutoff, ended, now>>

-------------------------------------------------------------------------------
(* Refresh and logout *)

\* Mutant: a GET, with the DEL left to the end of the request.
Get(s) == UNCHANGED live

\* Redis GETDEL.
GetDel(s) == live' = live \ {s}

\* GETDEL of the presented jti; the answer may be lost after the deletion.
RefreshConsume(c, s) ==
  /\ IsIdle(c)
  /\ s \in delivered \cap live
  /\ GetDel(s)
  /\ \/ Becomes(c, Request("consumed", NoUser, s, FALSE, FALSE, 0, {})) /\ UNCHANGED faults
     \/ UNCHANGED call /\ Fault
  /\ UNCHANGED <<account, denied, cutoff, tokens, ended, now>>

\* The row is read after the jti is gone; a refusal has spent it.
RefreshLookup(c) ==
  LET s == call[c].token IN
  /\ call[c].at = "consumed"
  /\ \/ /\ MayRenew(s)
        /\ Becomes(c, Request("mint", owner[s], s, super[owner[s]], s \in verified, 0, {}))
     \/ ~ MayRenew(s) /\ Ends(c)
  /\ UNCHANGED <<account, redis, tokens, ended, now, faults>>

\* DEL of the refresh jti.  An error is a 500, executed or not.
LogoutDelete(c, s) ==
  /\ IsIdle(c)
  /\ s \in delivered
  /\ live' = live \ {s}
  /\ \/ Becomes(c, Request("deny", NoUser, s, FALSE, FALSE, 0, {})) /\ UNCHANGED faults
     \/ UNCHANGED call /\ Fault
  /\ UNCHANGED <<account, denied, cutoff, tokens, ended, now>>

\* The access jti is denied, best effort, and the logout is answered.
LogoutDeny(c) ==
  LET s == call[c].token IN
  /\ call[c].at = "deny"
  /\ \/ denied' = denied \cup {s} /\ unserved' = unserved \cup {s} /\ UNCHANGED faults
     \/ UNCHANGED <<denied, unserved>> /\ Fault
  /\ outdated' = outdated \cup {s}
  /\ Ends(c)
  /\ UNCHANGED <<account, live, cutoff, tokens, now>>

-------------------------------------------------------------------------------
(* Changing the password *)

\* The sessions that a change of u's password ends: all there are at its second.
SessionsOf(u) == {t \in issued : owner[t] = u}

\* The old password fits and the new one is hashed: now is password_changed_at.
ChangeStart(c, s) ==
  LET u == owner[s] IN
  /\ IsIdle(c)
  /\ s \in delivered
  /\ Served(s)
  /\ ~ deleted[u]
  /\ Becomes(c, Request("update", u, NoSession, FALSE, FALSE, now, SessionsOf(u)))
  /\ UNCHANGED <<account, redis, tokens, ended, now, faults>>

\* The UPDATE: no row when the account was deleted meanwhile.
ChangeUpdate(c) ==
  LET r == call[c] IN
  /\ r.at = "update"
  /\ ~ deleted[r.user]
  /\ rotated' = [rotated EXCEPT ![r.user] = r.stamp]
  /\ outdated' = outdated \cup r.before
  /\ Becomes(c, Request("publish", r.user, NoSession, FALSE, FALSE, r.stamp, r.before))
  /\ UNCHANGED <<active, deleted, super, redis, tokens, unserved, now, faults>>

\* The cutoff is published for the middleware; an error is swallowed.
ChangePublish(c) ==
  LET r == call[c] IN
  /\ r.at = "publish"
  /\ \/ /\ cutoff' = [cutoff EXCEPT ![r.user] = r.stamp]
        /\ unserved' = unserved \cup r.before
        /\ UNCHANGED faults
     \/ UNCHANGED <<cutoff, unserved>> /\ Fault
  /\ Ends(c)
  /\ UNCHANGED <<account, live, denied, tokens, outdated, now>>

-------------------------------------------------------------------------------
(* The accounts, the process and the clock *)

\* setActive and deleteUser read the row and refuse a super admin ...
ManageRead(c, u) ==
  /\ IsIdle(c)
  /\ ~ deleted[u]
  /\ ~ super[u]
  /\ Becomes(c, Request("manage", u, NoSession, FALSE, FALSE, 0, {}))
  /\ UNCHANGED <<account, redis, tokens, ended, now, faults>>

\* ... and then write it, if it is not deleted.
ManageWrite(c) ==
  LET u == call[c].user IN
  /\ call[c].at = "manage"
  /\ ~ deleted[u]
  /\ \/ \E b \in BOOLEAN : active' = [active EXCEPT ![u] = b] /\ UNCHANGED deleted
     \/ deleted' = [deleted EXCEPT ![u] = TRUE] /\ UNCHANGED active
  /\ Ends(c)
  /\ UNCHANGED <<super, rotated, redis, tokens, ended, now, faults>>

\* totpVerify, the end of the wizard: it makes the account of its Google login
\* a super admin and logs it in.
Promote(c, u) ==
  /\ IsIdle(c)
  /\ ~ deleted[u]
  /\ super' = [super EXCEPT ![u] = TRUE]
  /\ active' = [active EXCEPT ![u] = TRUE]
  /\ Becomes(c, Request("mint", u, NoSession, TRUE, TRUE, 0, {}))
  /\ UNCHANGED <<deleted, rotated, redis, tokens, ended, now, faults>>

\* A request ends early: an error it does not survive, an UPDATE that finds no
\* row, a client that does not come back with a code, a crash of the process.
GiveUp(c) ==
  /\ ~ IsIdle(c)
  /\ Ends(c)
  /\ UNCHANGED <<account, redis, tokens, ended, now, faults>>

Tick ==
  /\ now < MaxTime
  /\ now' = now + 1
  /\ UNCHANGED <<account, redis, tokens, call, ended, faults>>

Next ==
  \/ Tick
  \/ \E c \in Calls :
       \/ \E u \in Users : EidLogin(c, u)
       \/ \E u \in Users : GoogleLogin(c, u)
       \/ \E u \in Users : SsoLogin(c, u)
       \/ MfaVerify(c)
       \/ \E s \in Sessions : Mint(c, s)
       \/ \E s \in Sessions : RefreshConsume(c, s)
       \/ RefreshLookup(c)
       \/ \E s \in Sessions : LogoutDelete(c, s)
       \/ LogoutDeny(c)
       \/ \E s \in Sessions : ChangeStart(c, s)
       \/ ChangeUpdate(c)
       \/ ChangePublish(c)
       \/ \E u \in Users : ManageRead(c, u)
       \/ \E u \in Users : Promote(c, u)
       \/ ManageWrite(c)
       \/ GiveUp(c)

Spec == Init /\ [][Next]_vars

-------------------------------------------------------------------------------
(* Properties *)

\* The jtis in Redis and the requests that have taken one implement the chain:
\* a spent session is never live again and is renewed once, by one session.
\* (GETDEL before everything else in refresh.)
Chain == INSTANCE SessionChain WITH
  state <- [s \in Sessions |-> IF s \in live THEN "live"
                               ELSE IF s \in issued THEN "spent" ELSE "none"]

ImplementsChain == Chain!Spec

(***************************************************************************)
(* docs/API_CONTRACT.md: after a change of the password every token issued *)
(* before its cutoff is rejected; and so it is after a logout.  What has   *)
(* been ended is not renewed, nor served once the key in Redis is written. *)
(* False of the code: two changes may write their seconds in either order. *)
(***************************************************************************)
EndedStaysEnded ==
  /\ \A s \in outdated : s \notin live \/ ~ MayRenew(s)
  /\ \A s \in unserved : ~ Served(s)

(***************************************************************************)
(* Only a session that was issued while a change of the password was in    *)
(* flight, in a later second than that change's, can come back: any other  *)
(* stays ended - although seconds are compared, although two changes may   *)
(* write in either order, and whatever is refreshed meanwhile.             *)
(***************************************************************************)
EndedUnlessBetween ==
  /\ \A s \in outdated \ between : s \notin live \/ ~ MayRenew(s)
  /\ \A s \in unserved \ between : ~ Served(s)

\* onboarding_usecase.ts: every session of a super admin has passed the second
\* factor.
SuperPassedMfa ==
  claim \cap delivered \subseteq verified
===============================================================================
