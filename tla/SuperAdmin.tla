------------------------------ MODULE SuperAdmin ------------------------------
(***************************************************************************)
(* How a super admin comes to be and logs in: the onboarding wizard over   *)
(* its pending session in Redis, the second factor with its attempt        *)
(* counter, recovery codes, invitations, and the role changes that read    *)
(* the row before they write it.                                           *)
(*                                                                         *)
(* call[c] is the request c in flight; each step is one await of its       *)
(* handler.  A pending session is read whole and written back whole, so    *)
(* two requests with one onboard_token overwrite each other.  Expiry has   *)
(* no step: a key that expired is one no further request reads.            *)
(***************************************************************************)
EXTENDS Naturals, FiniteSets

CONSTANTS
  Users,        \* Google accounts, and the users row keyed by each (google_sub)
  Emails, EmailOf,
  People,       \* who the eID service may say is there
  Wizards, Tokens,      \* onboard_token and mfa_token values
  Secrets, Codes,       \* TOTP secrets, sets of recovery codes handed out at once
  Calls,
  None,         \* no user, wizard, token, person, secret or session
  MaxTries,     \* mfaMaxAttempts
  MaxFaults     \* bound: commands and transactions that fail

AccountRows == [wizard : Wizards, civil : People, secret : Secrets]

ASSUME SuperAdminAssumption ==
  /\ EmailOf \in [Users -> Emails]
  /\ \A S \in {Users, People, Wizards, Tokens, Secrets, AccountRows} : None \notin S
  /\ IsFiniteSet(Calls)
  /\ MaxTries \in Nat \ {0}
  /\ MaxFaults \in Nat

VARIABLES
  invite,     \* superadmin_invites: none, open or accepted
  role,       \* users.role_id, none while there is no row
  account,    \* superadmin_accounts, written with the role
  codes,      \* user_recovery_codes that can be used
  owner,      \* google_sub (and the invited e-mail) of a wizard
  pending,    \* Redis: the session of a wizard
  otp,        \* Redis: wizards with a code sent by e-mail
  bearer,     \* the user an mfa_token was made for
  valid,      \* Redis: mfa_tokens
  tries,      \* Redis: their attempt counters
  call, faults,
  \* history: what eID, the mail code and the authenticator have proved in a
  \* wizard, the secrets and codes made, and the attempts let through
  identified, approved, shown, entered, used, made, passes

rows == <<invite, role, account, codes>>
wizards == <<owner, pending, otp, identified, approved, shown, entered, used>>
factors == <<bearer, valid, tries, passes>>
vars == <<rows, wizards, factors, made, call, faults>>

\* A pending session; google_sub and e-mail never change and are owner's.
Session(step, civil, verified, secret) ==
  [step |-> step, civil |-> civil, verified |-> verified, secret |-> secret]
PendingSessions ==
  {s \in [step : {"eid", "email", "totp"}, civil : People \cup {None}, verified : BOOLEAN,
          secret : Secrets \cup {None}] : s.step # "eid" => s.civil # None}
NoPending == Session("eid", None, FALSE, None)

Steps ==
  {"idle", "eid", "send", "verify", "approved", "init", "upsert", "delete", "insert",
   "accept", "forget", "count", "load", "check", "drop", "reset", "refuse", "role"}

\* A request: its step, the wizard and the session it has read, or the mfa_token;
\* the user it is about; the codes it deletes, or the role to write.
Request(at, t, s, m, u, B, r) ==
  [at |-> at, wizard |-> t, session |-> s, token |-> m, user |-> u, codes |-> B, role |-> r]
Idle == Request("idle", None, NoPending, None, None, {}, "none")
OfWizard(at, t, s) == Request(at, t, s, None, owner[t], {}, "none")
OfToken(at, m, u) == Request(at, None, NoPending, m, u, {}, "none")

Roles == {"none", "user", "admin", "super"}
Requests ==
  [at : Steps, wizard : Wizards \cup {None}, session : PendingSessions,
   token : Tokens \cup {None}, user : Users \cup {None},
   codes : SUBSET Codes, role : Roles]

\* What a request is about exists, and the session it has read is at its step.
RequestOK(r) ==
  /\ r.wizard \in Wizards => owner[r.wizard] = r.user /\ r.user \in Users
  /\ r.token \in Tokens => r.user \in Users
  /\ r.at \in {"eid", "send", "verify", "approved", "init", "upsert", "delete", "insert",
              "accept", "forget"} => r.wizard \in Wizards
  /\ r.at = "eid" => r.session.step = "eid"
  /\ r.at \in {"send", "verify", "approved"} => r.session.step = "email"
  /\ r.at \in {"init", "upsert"} => r.session.step = "totp"
  /\ r.at = "upsert" => r.session.secret # None
  /\ r.at \in {"count", "load", "check", "drop", "reset", "refuse"} => r.token \in Tokens
  /\ r.at = "role" => r.user \in Users /\ r.role # "super"

TypeOK ==
  /\ invite \in [Emails -> {"none", "open", "accepted"}]
  /\ role \in [Users -> Roles]
  /\ account \in [Users -> AccountRows \cup {None}]
  /\ codes \in [Users -> SUBSET Codes]
  /\ owner \in [Wizards -> Users \cup {None}]
  /\ pending \in [Wizards -> PendingSessions \cup {None}]
  /\ \A t \in Wizards : pending[t] # None => owner[t] \in Users
  /\ otp \in SUBSET Wizards
  /\ bearer \in [Tokens -> Users \cup {None}]
  /\ valid \in SUBSET Tokens
  /\ \A m \in valid : bearer[m] \in Users
  /\ tries \in [Tokens -> Nat]
  /\ call \in [Calls -> Requests]
  /\ \A c \in Calls : RequestOK(call[c])
  /\ faults \in Nat
  /\ identified \in SUBSET (Wizards \X People)
  /\ approved \in SUBSET (Wizards \X People)
  /\ shown \in SUBSET (Wizards \X People \X Secrets)
  /\ entered \in SUBSET (Wizards \X Secrets)
  /\ used \in SUBSET Secrets
  /\ made \in SUBSET Codes
  /\ passes \in [Tokens -> Nat]

Init ==
  /\ invite = [e \in Emails |-> "open"]
  /\ role \in [Users -> {"none", "user"}]
  /\ account = [u \in Users |-> None]
  /\ codes = [u \in Users |-> {}]
  /\ owner = [t \in Wizards |-> None]
  /\ pending = [t \in Wizards |-> None]
  /\ otp = {}
  /\ bearer = [m \in Tokens |-> None]
  /\ valid = {}
  /\ tries = [m \in Tokens |-> 0]
  /\ call = [c \in Calls |-> Idle]
  /\ faults = 0
  /\ identified = {} /\ approved = {} /\ shown = {} /\ entered = {}
  /\ used = {} /\ made = {}
  /\ passes = [m \in Tokens |-> 0]

IsIdle(c) == call[c] = Idle
Becomes(c, request) == call' = [call EXCEPT ![c] = request]
Ends(c) == Becomes(c, Idle)
Fault == faults < MaxFaults /\ faults' = faults + 1

-------------------------------------------------------------------------------
(* Invitations and roles: usecases/superadmin and usecases/users *)

CreateInvite(e) ==
  /\ invite[e] = "none"
  /\ invite' = [invite EXCEPT ![e] = "open"]
  /\ UNCHANGED <<role, account, codes, wizards, factors, made, call, faults>>

DeleteInvite(e) ==
  /\ invite[e] # "none"
  /\ invite' = [invite EXCEPT ![e] = "none"]
  /\ UNCHANGED <<role, account, codes, wizards, factors, made, call, faults>>

\* updateRole has read a row that is no super admin's ...
RoleRead(c, u, r) ==
  /\ IsIdle(c)
  /\ role[u] \in {"user", "admin"} /\ r # role[u]
  /\ Becomes(c, Request("role", None, NoPending, None, u, {}, r))
  /\ UNCHANGED <<rows, wizards, factors, made, faults>>

\* ... and writes it whatever it has become.
RoleWrite(c) ==
  /\ call[c].at = "role"
  /\ role' = [role EXCEPT ![call[c].user] = call[c].role]
  /\ Ends(c)
  /\ UNCHANGED <<invite, account, codes, wizards, factors, made, faults>>

-------------------------------------------------------------------------------
(* The wizard *)

\* google: an invitation that is open lets a wizard begin.
Google(t, u) ==
  /\ owner[t] = None
  /\ invite[EmailOf[u]] = "open"
  /\ owner' = [owner EXCEPT ![t] = u]
  /\ pending' = [pending EXCEPT ![t] = Session("eid", None, FALSE, None)]
  /\ UNCHANGED <<rows, otp, identified, approved, shown, entered, used, factors, made,
                 call, faults>>

\* loadPending and requireStep; `at` is what the handler goes on with.
LoadPending(c, t, step, at) ==
  /\ IsIdle(c)
  /\ pending[t] # None /\ pending[t].step = step
  /\ Becomes(c, OfWizard(at, t, pending[t]))
  /\ UNCHANGED <<rows, wizards, factors, made, faults>>

EidLoad(c, t) == LoadPending(c, t, "eid", "eid")
SendLoad(c, t) == LoadPending(c, t, "email", "send")
VerifyLoad(c, t) == LoadPending(c, t, "email", "verify")
InitLoad(c, t) == LoadPending(c, t, "totp", "init")

\* Mutant: eidPoll writes the identity into the session as it is by then.
IdentifiedMerged(c, p) ==
  IF pending[call[c].wizard] = None THEN Session("email", p, FALSE, None)
  ELSE [pending[call[c].wizard] EXCEPT !.civil = p, !.step = IF @ = "eid" THEN "email" ELSE @]

\* Mutant: a complete answer without an identity is taken.
IdentifiedNobody(c, p) ==
  [call[c].session EXCEPT !.step = "email"]

\* eidPoll: the session it has read, with the identity.
Identified(c, p) ==
  [call[c].session EXCEPT !.civil = p, !.step = "email"]

SavePending(c, session) ==
  pending' = [pending EXCEPT ![call[c].wizard] = session]

\* The eID session is complete, and p is who it was.
EidSave(c, p) ==
  /\ call[c].at = "eid"
  /\ SavePending(c, Identified(c, p))
  /\ identified' = identified \cup {<<call[c].wizard, p>>}
  /\ Ends(c)
  /\ UNCHANGED <<rows, owner, otp, approved, shown, entered, used, factors, made, faults>>

\* emailSend; the counter of wrong codes is abstracted to VerifyRefused.
SendSave(c) ==
  /\ call[c].at = "send"
  /\ otp' = otp \cup {call[c].wizard}
  /\ Ends(c)
  /\ UNCHANGED <<rows, owner, pending, identified, approved, shown, entered, used, factors,
                 made, faults>>

\* emailVerify: the code is there and right.
VerifyCheck(c) ==
  /\ call[c].at = "verify"
  /\ call[c].wizard \in otp
  /\ approved' = approved \cup {<<call[c].wizard, call[c].session.civil>>}
  /\ Becomes(c, [call[c] EXCEPT !.at = "approved"])
  /\ UNCHANGED <<rows, owner, pending, otp, identified, shown, entered, used, factors, made,
                 faults>>

\* One wrong code too many: the code is withdrawn.
VerifyRefused(c) ==
  /\ call[c].at = "verify"
  /\ otp' = otp \ {call[c].wizard}
  /\ Ends(c)
  /\ UNCHANGED <<rows, owner, pending, identified, approved, shown, entered, used, factors,
                 made, faults>>

VerifySave(c) ==
  /\ call[c].at = "approved"
  /\ SavePending(c, [call[c].session EXCEPT !.verified = TRUE, !.step = "totp"])
  /\ \/ otp' = otp \ {call[c].wizard} /\ faults' = faults
     \/ otp' = otp /\ Fault
  /\ Ends(c)
  /\ UNCHANGED <<rows, owner, identified, approved, shown, entered, used, factors, made>>

\* totpInit: a new secret each time, shown to whoever is at the browser.
InitSave(c, k) ==
  /\ call[c].at = "init"
  /\ k \notin used
  /\ used' = used \cup {k}
  /\ SavePending(c, [call[c].session EXCEPT !.secret = k])
  /\ shown' = shown \cup {<<call[c].wizard, call[c].session.civil, k>>}
  /\ Ends(c)
  /\ UNCHANGED <<rows, owner, otp, identified, approved, entered, factors, made, faults>>

\* Mutant: the invitation is marked before the row is written.
InviteFirst == [code |-> "accept", accepted |-> "upsert", coded |-> "forget"]

\* The order of totpVerify's writes: the row, the codes, the invitation, the session.
WriteOrder == [code |-> "upsert", coded |-> "accept", accepted |-> "forget"]

\* totpVerify: everything is there and the code belongs to the secret it has read.
VerifyCode(c, t) ==
  /\ IsIdle(c)
  /\ pending[t] # None
  /\ pending[t].step = "totp"
  /\ pending[t].secret # None
  /\ pending[t].verified /\ pending[t].civil # None
  /\ entered' = entered \cup {<<t, pending[t].secret>>}
  /\ Becomes(c, OfWizard(WriteOrder.code, t, pending[t]))
  /\ UNCHANGED <<rows, owner, pending, otp, identified, approved, shown, used, factors, made,
                 faults>>

\* No other row holds the e-mail of u (unique index).
EmailFree(u) ==
  \A v \in Users \ {u} : account[v] = None \/ EmailOf[v] # EmailOf[u]

\* upsertSuperAdmin: the role and the account in one transaction.
Upsert(c) ==
  /\ call[c].at = "upsert"
  /\ EmailFree(call[c].user)
  /\ role' = [role EXCEPT ![call[c].user] = "super"]
  /\ account' = [account EXCEPT ![call[c].user] =
                   [wizard |-> call[c].wizard, civil |-> call[c].session.civil,
                    secret |-> call[c].session.secret]]
  /\ Becomes(c, [call[c] EXCEPT !.at = "delete"])
  /\ UNCHANGED <<invite, codes, wizards, factors, made, faults>>

\* recovery.replace, DELETE: the rows it saw when it began.  Should it wait for one
\* that another request has locked, it deletes that one then, and sees no new one.
DeleteCodes(c) ==
  /\ call[c].at = "delete"
  /\ Becomes(c, [call[c] EXCEPT !.at = "insert", !.codes = codes[call[c].user]])
  /\ UNCHANGED <<rows, wizards, factors, made, faults>>

\* recovery.replace, INSERT and COMMIT.
InsertCodes(c, B) ==
  /\ call[c].at = "insert"
  /\ B \notin made
  /\ made' = made \cup {B}
  /\ codes' = [codes EXCEPT ![call[c].user] = (@ \ call[c].codes) \cup {B}]
  /\ Becomes(c, [call[c] EXCEPT !.at = WriteOrder.coded, !.codes = {}])
  /\ UNCHANGED <<invite, role, account, wizards, factors, faults>>

\* markAccepted, best effort.
MarkAccepted(c) ==
  /\ call[c].at = "accept"
  /\ \/ /\ invite[EmailOf[call[c].user]] = "open"
        /\ invite' = [invite EXCEPT ![EmailOf[call[c].user]] = "accepted"]
        /\ UNCHANGED faults
     \/ invite[EmailOf[call[c].user]] # "open" /\ UNCHANGED <<invite, faults>>
     \/ Fault /\ UNCHANGED invite
  /\ Becomes(c, [call[c] EXCEPT !.at = WriteOrder.accepted])
  /\ UNCHANGED <<role, account, codes, wizards, factors, made>>

\* The pending session is deleted, best effort; Sessions has the login that follows.
Forget(c) ==
  /\ call[c].at = "forget"
  /\ \/ pending' = [pending EXCEPT ![call[c].wizard] = None] /\ UNCHANGED faults
     \/ Fault /\ UNCHANGED pending
  /\ Ends(c)
  /\ UNCHANGED <<rows, owner, otp, identified, approved, shown, entered, used, factors, made>>

\* A refusal, an error or a crash ends a request anywhere.
GiveUp(c) ==
  /\ ~ IsIdle(c)
  /\ Ends(c)
  /\ UNCHANGED <<rows, wizards, factors, made, faults>>

-------------------------------------------------------------------------------
(* The second factor of a login: superadminMfa *)

\* googleLogin and eidPoll of a super admin.
MakeToken(m, u) ==
  /\ bearer[m] = None
  /\ role[u] = "super"
  /\ bearer' = [bearer EXCEPT ![m] = u]
  /\ valid' = valid \cup {m}
  /\ UNCHANGED <<rows, wizards, tries, passes, made, call, faults>>

MfaGet(c, m) ==
  /\ IsIdle(c)
  /\ m \in valid
  /\ Becomes(c, OfToken("count", m, bearer[m]))
  /\ UNCHANGED <<rows, wizards, factors, made, faults>>

\* The attempt is let through, or it is one too many.
Counted(c, attempts) ==
  LET m == call[c].token
      u == call[c].user
  IN  \/ /\ attempts <= MaxTries
         /\ passes' = [passes EXCEPT ![m] = @ + 1]
         /\ Becomes(c, OfToken("load", m, u))
      \/ /\ attempts > MaxTries
         /\ Becomes(c, OfToken("drop", m, u))
         /\ UNCHANGED passes

\* INCR; the counts past MaxTries + 1 are all alike.
Incremented(m) ==
  [tries EXCEPT ![m] = IF @ > MaxTries THEN @ ELSE @ + 1]

\* An error leaves attempts at 0, whether or not the command was executed.
MfaCount(c) ==
  LET m == call[c].token
  IN  /\ call[c].at = "count"
      /\ \/ /\ tries' = Incremented(m)
            /\ Counted(c, tries[m] + 1)
            /\ UNCHANGED faults
         \/ /\ Fault
            /\ tries' = Incremented(m) \/ UNCHANGED tries
            /\ Counted(c, 0)
      /\ UNCHANGED <<rows, wizards, bearer, valid, made>>

\* getById and accounts.get: still a super admin with a second factor?
MfaLoad(c) ==
  LET u == call[c].user
      m == call[c].token
  IN  /\ call[c].at = "load"
      /\ \/ /\ role[u] = "super" /\ account[u] # None
            /\ Becomes(c, OfToken("check", m, u))
         \/ /\ role[u] # "super" \/ account[u] = None
            /\ Becomes(c, OfToken("refuse", m, u))
      /\ UNCHANGED <<rows, wizards, factors, made, faults>>

MfaRefuse(c) ==
  /\ call[c].at = "refuse"
  /\ \/ valid' = valid \ {call[c].token} /\ UNCHANGED faults
     \/ Fault /\ UNCHANGED valid
  /\ Ends(c)
  /\ UNCHANGED <<rows, wizards, bearer, tries, passes, made>>

\* consume: a recovery code works once; a row that is locked is skipped.
Consume(u) == \E B \in codes[u] : codes' = [codes EXCEPT ![u] = @ \ {B}]

\* verifyMfaCode: the authenticator's code, or a recovery code.
MfaCheck(c) ==
  LET u == call[c].user
  IN  /\ call[c].at = "check"
      /\ UNCHANGED codes \/ Consume(u)
      /\ Becomes(c, OfToken("drop", call[c].token, u))
      /\ UNCHANGED <<invite, role, account, wizards, factors, made, faults>>

\* Mutant: the counter goes first.
DropOrderSwapped == [first |-> "tries", second |-> "token"]

\* The token goes first, then its counter.
DropOrder == [first |-> "token", second |-> "tries"]

\* DEL of one of the two keys, best effort.
Del(c, key) ==
  \/ /\ key = "token"
     /\ valid' = valid \ {call[c].token}
     /\ UNCHANGED <<tries, faults>>
  \/ /\ key = "tries"
     /\ tries' = [tries EXCEPT ![call[c].token] = 0]
     /\ UNCHANGED <<valid, faults>>
  \/ Fault /\ UNCHANGED <<valid, tries>>

MfaDrop(c) ==
  /\ call[c].at = "drop"
  /\ Del(c, DropOrder.first)
  /\ Becomes(c, [call[c] EXCEPT !.at = "reset"])
  /\ UNCHANGED <<rows, wizards, bearer, passes, made>>

\* The answer, or the session that Sessions mints.
MfaReset(c) ==
  /\ call[c].at = "reset"
  /\ Del(c, DropOrder.second)
  /\ Ends(c)
  /\ UNCHANGED <<rows, wizards, bearer, passes, made>>

-------------------------------------------------------------------------------
Next ==
  \/ \E e \in Emails : CreateInvite(e) \/ DeleteInvite(e)
  \/ \E t \in Wizards, u \in Users : Google(t, u)
  \/ \E m \in Tokens, u \in Users : MakeToken(m, u)
  \/ \E c \in Calls :
       \/ \E u \in Users, r \in {"user", "admin"} : RoleRead(c, u, r)
       \/ \E t \in Wizards :
            EidLoad(c, t) \/ SendLoad(c, t) \/ VerifyLoad(c, t) \/ InitLoad(c, t) \/ VerifyCode(c, t)
       \/ \E p \in People : EidSave(c, p)
       \/ \E k \in Secrets : InitSave(c, k)
       \/ \E B \in Codes : InsertCodes(c, B)
       \/ \E m \in Tokens : MfaGet(c, m)
       \/ RoleWrite(c)
       \/ SendSave(c) \/ VerifyCheck(c) \/ VerifyRefused(c) \/ VerifySave(c)
       \/ Upsert(c) \/ DeleteCodes(c) \/ MarkAccepted(c) \/ Forget(c) \/ GiveUp(c)
       \/ MfaCount(c) \/ MfaLoad(c) \/ MfaRefuse(c) \/ MfaCheck(c) \/ MfaDrop(c) \/ MfaReset(c)

Spec == Init /\ [][Next]_vars

-------------------------------------------------------------------------------
(***************************************************************************)
(* ARCHITECTURE.md calls the wizard the only door to super admin: whoever  *)
(* is one was identified by eID in a wizard of his Google account, that    *)
(* wizard's mail code was approved for this identity, the secret was shown *)
(* to it, and a code of the secret was entered, however the requests of    *)
(* one onboard_token overwrote each other.                                 *)
(***************************************************************************)
OnlyDoor ==
  \A u \in Users : role[u] = "super" =>
    /\ account[u] # None
    /\ owner[account[u].wizard] = u
    /\ <<account[u].wizard, account[u].civil>> \in identified \cap approved
    /\ <<account[u].wizard, account[u].civil, account[u].secret>> \in shown
    /\ <<account[u].wizard, account[u].secret>> \in entered

(***************************************************************************)
(* While an mfa_token can be presented, no more than mfaMaxAttempts codes  *)
(* have been let through, and as many again for each error of Redis: the   *)
(* counter fails open and a DEL that fails is ignored.                     *)
(***************************************************************************)
AttemptsAreCounted == \A m \in valid : passes[m] <= MaxTries + MaxTries * faults

(***************************************************************************)
(* An invitation is used up only by a super admin who was made: a crash or *)
(* a conflict on the way leaves it open (markAccepted comes last).         *)
(***************************************************************************)
AcceptedMadeOne ==
  \A e \in Emails : invite[e] = "accepted" =>
    \E u \in Users : EmailOf[u] = e /\ account[u] # None

===============================================================================
