--------------------------- MODULE SuperAdminProofs ---------------------------
(***************************************************************************)
(* Proofs about SuperAdmin for every number of users, wizards, tokens and  *)
(* requests: type correctness, that the wizard is the only door, that an   *)
(* invitation is used up only by a super admin, that attempts count, and   *)
(* which overlaps alone undo the recovery codes and the role check.        *)
(***************************************************************************)
EXTENDS SuperAdmin, FiniteSetTheorems, TLAPS

\* The steps of one request, wizard by wizard and token by token.
WizardStep(c) ==
  \/ \E t \in Wizards :
       EidLoad(c, t) \/ SendLoad(c, t) \/ VerifyLoad(c, t) \/ InitLoad(c, t) \/ VerifyCode(c, t)
  \/ \E p \in People : EidSave(c, p)
  \/ \E k \in Secrets : InitSave(c, k)
  \/ \E B \in Codes : InsertCodes(c, B)
  \/ SendSave(c) \/ VerifyCheck(c) \/ VerifyRefused(c) \/ VerifySave(c)
  \/ Upsert(c) \/ DeleteCodes(c) \/ MarkAccepted(c) \/ Forget(c)

TokenStep(c) ==
  \/ \E m \in Tokens : MfaGet(c, m)
  \/ MfaCount(c) \/ MfaLoad(c) \/ MfaRefuse(c) \/ MfaCheck(c) \/ MfaDrop(c) \/ MfaReset(c)

RoleStep(c) == (\E u \in Users, r \in {"user", "admin"} : RoleRead(c, u, r)) \/ RoleWrite(c)

\* The steps of no request.
Other ==
  \/ \E e \in Emails : CreateInvite(e) \/ DeleteInvite(e)
  \/ \E t \in Wizards, u \in Users : Google(t, u)
  \/ \E m \in Tokens, u \in Users : MakeToken(m, u)

LEMMA NextSteps ==
  ASSUME Next
  PROVE  Other \/ \E c \in Calls : WizardStep(c) \/ TokenStep(c) \/ RoleStep(c) \/ GiveUp(c)
BY DEF Next, Other, WizardStep, TokenStep, RoleStep

LEMMA RequestType ==
  ASSUME NEW at \in Steps, NEW t \in Wizards \cup {None}, NEW s \in PendingSessions,
         NEW m \in Tokens \cup {None}, NEW u \in Users \cup {None}, NEW B \in SUBSET Codes,
         NEW r \in Roles
  PROVE  Request(at, t, s, m, u, B, r) \in Requests
BY DEF Request, Requests

LEMMA SessionType ==
  ASSUME NEW step \in {"eid", "email", "totp"}, NEW p \in People \cup {None}, NEW v \in BOOLEAN,
         NEW k \in Secrets \cup {None}, step # "eid" => p # None
  PROVE  Session(step, p, v, k) \in PendingSessions
BY DEF Session, PendingSessions

LEMMA IdleType == NoPending \in PendingSessions /\ Idle \in Requests
<1>1. NoPending \in PendingSessions
  BY SessionType DEF NoPending
<1> QED BY <1>1, RequestType DEF Idle, Steps, Roles

\* The types of everything but the requests.
DataOK ==
  /\ invite \in [Emails -> {"none", "open", "accepted"}]
  /\ role \in [Users -> Roles]
  /\ account \in [Users -> AccountRows \cup {None}]
  /\ codes \in [Users -> SUBSET Codes]
  /\ owner \in [Wizards -> Users \cup {None}]
  /\ pending \in [Wizards -> PendingSessions \cup {None}]
  /\ \A t \in Wizards : pending[t] # None => owner[t] \in Users
  /\ otp \in SUBSET Wizards
  /\ bearer \in [Tokens -> Users \cup {None}]
  /\ valid \in SUBSET Tokens
  /\ \A m \in valid : bearer[m] \in Users
  /\ tries \in [Tokens -> Nat]
  /\ faults \in Nat
  /\ identified \in SUBSET (Wizards \X People)
  /\ approved \in SUBSET (Wizards \X People)
  /\ shown \in SUBSET (Wizards \X People \X Secrets)
  /\ entered \in SUBSET (Wizards \X Secrets)
  /\ used \in SUBSET Secrets
  /\ made \in SUBSET Codes
  /\ passes \in [Tokens -> Nat]

CallsOK ==
  /\ call \in [Calls -> Requests]
  /\ \A c \in Calls : RequestOK(call[c])

LEMMA TypeParts == TypeOK <=> DataOK /\ CallsOK
BY DEF TypeOK, DataOK, CallsOK

\* A wizard that has begun stays with its Google account.
OwnersStay == \A t \in Wizards : owner[t] \in Users => owner'[t] = owner[t]

\* So what the other requests are about stays.
LEMMA CallsKept ==
  ASSUME CallsOK, OwnersStay, NEW c \in Calls,
         call' = [call EXCEPT ![c] = call'[c]],
         call'[c] \in Requests, RequestOK(call[c])'
  PROVE  CallsOK'
<1>1. call' \in [Calls -> Requests]
  BY DEF CallsOK
<1>2. ASSUME NEW d \in Calls PROVE RequestOK(call[d])'
  <2>1. CASE d = c
    BY <2>1
  <2>2. CASE d # c
    <3>1. call'[d] = call[d]
      BY <2>2 DEF CallsOK
    <3>2. RequestOK(call[d])
      BY DEF CallsOK
    <3> QED BY <3>1, <3>2 DEF RequestOK, OwnersStay
  <2> QED BY <2>1, <2>2
<1> QED BY <1>1, <1>2 DEF CallsOK

\* What a request becomes, in the terms of CallsKept.
LEMMA Became ==
  ASSUME CallsOK, NEW c \in Calls, NEW r \in Requests, Becomes(c, r)
  PROVE  /\ call' = [call EXCEPT ![c] = call'[c]]
         /\ call'[c] = r
BY DEF CallsOK, Becomes

LEMMA EndsOK ==
  ASSUME CallsOK, OwnersStay, NEW c \in Calls, Ends(c)
  PROVE  CallsOK'
<1>1. call' = [call EXCEPT ![c] = call'[c]] /\ call'[c] = Idle
  BY IdleType, Became DEF Ends
<1>2. RequestOK(call[c])'
  BY <1>1, SuperAdminAssumption DEF RequestOK, Idle, Request
<1> QED BY <1>1, <1>2, CallsKept, IdleType

-------------------------------------------------------------------------------
(* Type correctness *)

LEMMA OtherType == ASSUME TypeOK, Other PROVE TypeOK'
<1> USE TypeParts, SuperAdminAssumption
<1>1. ASSUME NEW e \in Emails, CreateInvite(e) \/ DeleteInvite(e) PROVE TypeOK'
  <2>1. DataOK'
    BY <1>1 DEF DataOK, CreateInvite, DeleteInvite, wizards, factors
  <2>2. CallsOK'
    BY <1>1 DEF CallsOK, RequestOK, CreateInvite, DeleteInvite, wizards
  <2> QED BY <2>1, <2>2 DEF TypeOK, DataOK, CallsOK
<1>2. ASSUME NEW t \in Wizards, NEW u \in Users, Google(t, u) PROVE TypeOK'
  <2>1. Session("eid", None, FALSE, None) \in PendingSessions
    BY SessionType
  <2>2. DataOK'
    BY <1>2, <2>1 DEF DataOK, Google, rows, factors
  <2>3. OwnersStay /\ UNCHANGED call
    BY <1>2 DEF OwnersStay, DataOK, Google
  <2>4. CallsOK'
    BY <2>3 DEF CallsOK, RequestOK, OwnersStay
  <2> QED BY <2>2, <2>4 DEF TypeOK, DataOK, CallsOK
<1>3. ASSUME NEW m \in Tokens, NEW u \in Users, MakeToken(m, u) PROVE TypeOK'
  <2>1. DataOK'
    BY <1>3 DEF DataOK, MakeToken, rows, wizards
  <2>2. CallsOK'
    BY <1>3 DEF CallsOK, RequestOK, MakeToken, wizards
  <2> QED BY <2>1, <2>2 DEF TypeOK, DataOK, CallsOK
<1> QED BY <1>1, <1>2, <1>3 DEF Other

\* What the record of a request holds.
LEMMA CallFacts ==
  ASSUME CallsOK, NEW c \in Calls
  PROVE  /\ call[c] \in Requests /\ RequestOK(call[c])
         /\ call[c].session \in PendingSessions
         /\ call[c].codes \in SUBSET Codes
         /\ call[c].role \in Roles
         /\ call[c].user \in Users \cup {None}
         /\ call[c].wizard \in Wizards \cup {None}
         /\ call[c].token \in Tokens \cup {None}
BY DEF CallsOK, Requests

\* A request that has read the session of a wizard.
LEMMA LoadedType ==
  ASSUME TypeOK, NEW c \in Calls, NEW t \in Wizards, pending[t] # None, OwnersStay,
         NEW at \in {"eid", "send", "verify", "init", "upsert"},
         at = "eid" => pending[t].step = "eid",
         at \in {"send", "verify"} => pending[t].step = "email",
         at \in {"init", "upsert"} => pending[t].step = "totp",
         at = "upsert" => pending[t].secret # None,
         Becomes(c, OfWizard(at, t, pending[t]))
  PROVE  CallsOK'
<1> USE TypeParts, SuperAdminAssumption
<1>1. pending[t] \in PendingSessions /\ owner[t] \in Users
  BY DEF DataOK
<1>2. OfWizard(at, t, pending[t]) \in Requests
  BY <1>1, RequestType DEF OfWizard, Steps, Roles
<1>3. call' = [call EXCEPT ![c] = call'[c]] /\ call'[c] = OfWizard(at, t, pending[t])
  BY <1>2, Became
<1>4. RequestOK(call[c])'
  BY <1>1, <1>3 DEF RequestOK, OfWizard, Request, OwnersStay
<1> QED BY <1>2, <1>3, <1>4, CallsKept

\* A request that goes on to another step with what it has read.
LEMMA MovedType ==
  ASSUME CallsOK, OwnersStay, NEW c \in Calls, call[c].wizard \in Wizards,
         NEW at \in {"approved", "delete", "insert", "accept", "forget"}, NEW B \in SUBSET Codes,
         at = "approved" => call[c].session.step = "email",
         Becomes(c, [call[c] EXCEPT !.at = at, !.codes = B])
  PROVE  CallsOK'
<1> DEFINE r == [call[c] EXCEPT !.at = at, !.codes = B]
<1>1. r \in Requests
  BY CallFacts DEF Requests, Steps
<1>2. call' = [call EXCEPT ![c] = call'[c]] /\ call'[c] = r
  BY <1>1, Became
<1>3. /\ r.wizard = call[c].wizard /\ r.user = call[c].user /\ r.session = call[c].session
      /\ r.token = call[c].token /\ r.at = at
  BY CallFacts DEF Requests
<1>4. RequestOK(call[c])'
  BY <1>2, <1>3, CallFacts DEF RequestOK, OwnersStay
<1> QED BY <1>1, <1>2, <1>4, CallsKept

\* A session with changed fields.
LEMMA IdentityType ==
  ASSUME NEW s \in PendingSessions, NEW p \in People
  PROVE  [s EXCEPT !.civil = p, !.step = "email"] \in PendingSessions
<1>1. p # None
  BY SuperAdminAssumption
<1> QED BY <1>1 DEF PendingSessions

LEMMA ApprovalType ==
  ASSUME NEW s \in PendingSessions, s.step # "eid"
  PROVE  [s EXCEPT !.verified = TRUE, !.step = "totp"] \in PendingSessions
BY DEF PendingSessions

LEMMA SecretType ==
  ASSUME NEW s \in PendingSessions, NEW k \in Secrets
  PROVE  [s EXCEPT !.secret = k] \in PendingSessions
BY DEF PendingSessions

LEMMA CivilType ==
  ASSUME NEW s \in PendingSessions, s.step # "eid"
  PROVE  s.civil \in People
BY DEF PendingSessions

LEMMA WizardType == ASSUME TypeOK, NEW c \in Calls, WizardStep(c) PROVE TypeOK'
<1> DEFINE q == call[c]
<1> USE TypeParts, SuperAdminAssumption
<1>0. q \in Requests /\ RequestOK(q) /\ q.session \in PendingSessions
  BY CallFacts
<1>1. OwnersStay
  BY DEF WizardStep, OwnersStay, EidLoad, SendLoad, VerifyLoad, InitLoad, LoadPending, VerifyCode,
         EidSave, InitSave, InsertCodes, SendSave, VerifyCheck, VerifyRefused, VerifySave, Upsert,
         DeleteCodes, MarkAccepted, Forget, wizards
<1>2. ASSUME NEW t \in Wizards,
             EidLoad(c, t) \/ SendLoad(c, t) \/ VerifyLoad(c, t) \/ InitLoad(c, t)
      PROVE  TypeOK'
  <2>1. DataOK'
    BY <1>2 DEF DataOK, EidLoad, SendLoad, VerifyLoad, InitLoad, LoadPending, rows, wizards, factors
  <2>2. CallsOK'
    BY <1>1, <1>2, LoadedType DEF EidLoad, SendLoad, VerifyLoad, InitLoad, LoadPending
  <2> QED BY <2>1, <2>2 DEF TypeOK, DataOK, CallsOK
<1>3. ASSUME NEW t \in Wizards, VerifyCode(c, t) PROVE TypeOK'
  <2>1. pending[t].secret \in Secrets
    BY <1>3 DEF VerifyCode, DataOK, PendingSessions
  <2>2. DataOK'
    BY <1>3, <2>1 DEF DataOK, VerifyCode, rows, factors
  <2>3. CallsOK'
    BY <1>1, <1>3, LoadedType DEF VerifyCode, WriteOrder
  <2> QED BY <2>2, <2>3 DEF TypeOK, DataOK, CallsOK
<1>4. ASSUME NEW p \in People, EidSave(c, p) PROVE TypeOK'
  <2>1. q.wizard \in Wizards /\ owner[q.wizard] \in Users
    BY <1>0, <1>4 DEF EidSave, RequestOK
  <2>2. Identified(c, p) \in PendingSessions
    BY <1>0, IdentityType DEF Identified
  <2>3. DataOK'
    BY <1>4, <2>1, <2>2 DEF DataOK, EidSave, SavePending, rows, factors
  <2>4. CallsOK'
    BY <1>1, <1>4, EndsOK DEF EidSave
  <2> QED BY <2>3, <2>4 DEF TypeOK, DataOK, CallsOK
<1>5. ASSUME NEW k \in Secrets, InitSave(c, k) PROVE TypeOK'
  <2>1. q.wizard \in Wizards /\ owner[q.wizard] \in Users /\ q.session.civil \in People
    BY <1>0, <1>5, CivilType DEF InitSave, RequestOK
  <2>2. [q.session EXCEPT !.secret = k] \in PendingSessions
    BY <1>0, SecretType
  <2>3. DataOK'
    BY <1>5, <2>1, <2>2 DEF DataOK, InitSave, SavePending, rows, factors
  <2>4. CallsOK'
    BY <1>1, <1>5, EndsOK DEF InitSave
  <2> QED BY <2>3, <2>4 DEF TypeOK, DataOK, CallsOK
<1>6. ASSUME NEW B \in Codes, InsertCodes(c, B) PROVE TypeOK'
  <2>1. q.wizard \in Wizards
    BY <1>0, <1>6 DEF InsertCodes, RequestOK
  <2>2. DataOK'
    BY <1>6 DEF DataOK, InsertCodes, wizards, factors
  <2>3. CallsOK'
    <3>1. Becomes(c, [q EXCEPT !.at = "accept", !.codes = {}])
      BY <1>6 DEF InsertCodes, WriteOrder
    <3>2. {} \in SUBSET Codes /\ "accept" \in {"approved", "delete", "insert", "accept", "forget"}
      OBVIOUS
    <3>3. CallsOK /\ q.wizard \in Wizards /\ ("accept" = "approved" => q.session.step = "email")
      BY <2>1
    <3> QED BY <1>1, <3>1, <3>2, <3>3, MovedType
  <2> QED BY <2>2, <2>3 DEF TypeOK, DataOK, CallsOK
<1>7. CASE SendSave(c) \/ VerifyRefused(c)
  <2>1. q.wizard \in Wizards
    BY <1>0, <1>7 DEF SendSave, VerifyRefused, RequestOK
  <2>2. DataOK'
    BY <1>7, <2>1 DEF DataOK, SendSave, VerifyRefused, rows, factors
  <2>3. CallsOK'
    BY <1>1, <1>7, EndsOK DEF SendSave, VerifyRefused
  <2> QED BY <2>2, <2>3 DEF TypeOK, DataOK, CallsOK
<1>8. CASE VerifyCheck(c)
  <2>1. q.wizard \in Wizards /\ q.session.step = "email" /\ q.session.civil \in People
    BY <1>0, <1>8, CivilType DEF VerifyCheck, RequestOK
  <2>2. DataOK'
    BY <1>8, <2>1 DEF DataOK, VerifyCheck, rows, factors
  <2>3. [q EXCEPT !.at = "approved"] = [q EXCEPT !.at = "approved", !.codes = q.codes]
    BY <1>0 DEF Requests
  <2>4. CallsOK'
    BY <1>1, <1>8, <2>1, <2>3, CallFacts, MovedType DEF VerifyCheck
  <2> QED BY <2>2, <2>4 DEF TypeOK, DataOK, CallsOK
<1>9. CASE VerifySave(c)
  <2>1. q.wizard \in Wizards /\ owner[q.wizard] \in Users /\ q.session.step = "email"
    BY <1>0, <1>9 DEF VerifySave, RequestOK
  <2>2. [q.session EXCEPT !.verified = TRUE, !.step = "totp"] \in PendingSessions
    BY <1>0, <2>1, ApprovalType
  <2>3. otp' \in SUBSET Wizards /\ faults' \in Nat
    BY <1>9 DEF VerifySave, DataOK, Fault
  <2>4. DataOK'
    BY <1>9, <2>1, <2>2, <2>3 DEF DataOK, VerifySave, SavePending, rows, factors
  <2>5. CallsOK'
    BY <1>1, <1>9, EndsOK DEF VerifySave
  <2> QED BY <2>4, <2>5 DEF TypeOK, DataOK, CallsOK
<1>10. CASE Upsert(c)
  <2>1. q.wizard \in Wizards /\ q.user \in Users /\ q.session.civil \in People /\ q.session.secret \in Secrets
    BY <1>0, <1>10, CivilType DEF Upsert, RequestOK, PendingSessions
  <2>2. [wizard |-> q.wizard, civil |-> q.session.civil, secret |-> q.session.secret] \in AccountRows
    BY <2>1 DEF AccountRows
  <2>3. DataOK'
    BY <1>10, <2>1, <2>2 DEF DataOK, Upsert, Roles, wizards, factors
  <2>4. [q EXCEPT !.at = "delete"] = [q EXCEPT !.at = "delete", !.codes = q.codes]
    BY <1>0 DEF Requests
  <2>5. CallsOK'
    BY <1>1, <1>10, <2>1, <2>4, CallFacts, MovedType DEF Upsert
  <2> QED BY <2>3, <2>5 DEF TypeOK, DataOK, CallsOK
<1>11. CASE DeleteCodes(c)
  <2>1. q.wizard \in Wizards /\ q.user \in Users /\ codes[q.user] \in SUBSET Codes
    BY <1>0, <1>11 DEF DeleteCodes, RequestOK, DataOK
  <2>2. DataOK'
    BY <1>11 DEF DataOK, DeleteCodes, rows, wizards, factors
  <2>3. CallsOK'
    BY <1>1, <1>11, <2>1, MovedType DEF DeleteCodes
  <2> QED BY <2>2, <2>3 DEF TypeOK, DataOK, CallsOK
<1>12. CASE MarkAccepted(c)
  <2>1. q.wizard \in Wizards /\ q.user \in Users
    BY <1>0, <1>12 DEF MarkAccepted, RequestOK
  <2>2. invite' \in [Emails -> {"none", "open", "accepted"}] /\ faults' \in Nat
    BY <1>12, <2>1 DEF MarkAccepted, DataOK, Fault
  <2>3. DataOK'
    BY <1>12, <2>2 DEF DataOK, MarkAccepted, wizards, factors
  <2>4. [q EXCEPT !.at = "forget"] = [q EXCEPT !.at = "forget", !.codes = q.codes]
    BY <1>0 DEF Requests
  <2>5. CallsOK'
    BY <1>1, <1>12, <2>1, <2>4, CallFacts, MovedType DEF MarkAccepted, WriteOrder
  <2> QED BY <2>3, <2>5 DEF TypeOK, DataOK, CallsOK
<1>13. CASE Forget(c)
  <2>1. q.wizard \in Wizards
    BY <1>0, <1>13 DEF Forget, RequestOK
  <2>2. pending' \in [Wizards -> PendingSessions \cup {None}] /\ faults' \in Nat
    BY <1>13, <2>1 DEF Forget, DataOK, Fault
  <2>3. \A t \in Wizards : pending'[t] # None => owner'[t] \in Users
    BY <1>13, <2>1 DEF Forget, DataOK
  <2>4. DataOK'
    BY <1>13, <2>2, <2>3 DEF DataOK, Forget, rows, factors
  <2>5. CallsOK'
    BY <1>1, <1>13, EndsOK DEF Forget
  <2> QED BY <2>4, <2>5 DEF TypeOK, DataOK, CallsOK
<1> QED BY <1>2, <1>3, <1>4, <1>5, <1>6, <1>7, <1>8, <1>9, <1>10, <1>11, <1>12, <1>13 DEF WizardStep

\* A request about a token.
LEMMA TokenType ==
  ASSUME CallsOK, OwnersStay, NEW c \in Calls, NEW m \in Tokens, NEW u \in Users,
         NEW at \in {"count", "load", "check", "drop", "reset", "refuse"},
         Becomes(c, OfToken(at, m, u))
  PROVE  CallsOK'
<1>1. OfToken(at, m, u) \in Requests
  BY RequestType, IdleType DEF OfToken, Steps, Roles
<1>2. call' = [call EXCEPT ![c] = call'[c]] /\ call'[c] = OfToken(at, m, u)
  BY <1>1, Became
<1>3. RequestOK(call[c])'
  BY <1>2, SuperAdminAssumption DEF RequestOK, OfToken, Request
<1> QED BY <1>1, <1>2, <1>3, CallsKept

LEMMA TokenStepType == ASSUME TypeOK, NEW c \in Calls, TokenStep(c) PROVE TypeOK'
<1> DEFINE q == call[c]
<1> USE TypeParts, SuperAdminAssumption
<1>0. q \in Requests /\ RequestOK(q)
  BY CallFacts
<1>1. OwnersStay
  BY DEF TokenStep, OwnersStay, MfaGet, MfaCount, MfaLoad, MfaRefuse, MfaCheck, MfaDrop, MfaReset,
         wizards
<1>2. ASSUME NEW m \in Tokens, MfaGet(c, m) PROVE TypeOK'
  <2>1. DataOK'
    BY <1>2 DEF DataOK, MfaGet, rows, wizards, factors
  <2>2. bearer[m] \in Users
    BY <1>2 DEF DataOK, MfaGet
  <2>3. CallsOK'
    BY <1>1, <1>2, <2>2, TokenType DEF MfaGet
  <2> QED BY <2>1, <2>3 DEF TypeOK, DataOK, CallsOK
<1>3. CASE MfaCount(c)
  <2>1. q.token \in Tokens /\ q.user \in Users
    BY <1>0, <1>3 DEF MfaCount, RequestOK
  <2>2. PICK n \in Nat : Counted(c, n)
    BY <1>3, <2>1 DEF MfaCount, DataOK
  <2>3. passes' \in [Tokens -> Nat]
    BY <2>1, <2>2 DEF Counted, DataOK
  <2>4. tries' \in [Tokens -> Nat]
    BY <1>3, <2>1 DEF MfaCount, Incremented, DataOK
  <2>5. faults' \in Nat
    <3>1. UNCHANGED faults \/ Fault
      BY <1>3, Zenon DEF MfaCount
    <3> QED BY <3>1 DEF DataOK, Fault
  <2>6. DataOK'
    BY <1>3, <2>3, <2>4, <2>5 DEF MfaCount, DataOK, rows, wizards
  <2>7. CallsOK'
    BY <1>1, <2>1, <2>2, TokenType DEF Counted
  <2> QED BY <2>6, <2>7 DEF TypeOK, DataOK, CallsOK
<1>4. CASE MfaLoad(c)
  <2>1. q.token \in Tokens /\ q.user \in Users
    BY <1>0, <1>4 DEF MfaLoad, RequestOK
  <2>2. DataOK'
    BY <1>4 DEF DataOK, MfaLoad, rows, wizards, factors
  <2>3. CallsOK'
    BY <1>1, <1>4, <2>1, TokenType DEF MfaLoad
  <2> QED BY <2>2, <2>3 DEF TypeOK, DataOK, CallsOK
<1>5. CASE MfaRefuse(c)
  <2>1. valid' \subseteq valid /\ faults' \in Nat
    BY <1>5 DEF MfaRefuse, DataOK, Fault
  <2>2. DataOK'
    BY <1>5, <2>1 DEF DataOK, MfaRefuse, rows, wizards
  <2>3. CallsOK'
    BY <1>1, <1>5, EndsOK DEF MfaRefuse
  <2> QED BY <2>2, <2>3 DEF TypeOK, DataOK, CallsOK
<1>6. CASE MfaCheck(c)
  <2>1. q.token \in Tokens /\ q.user \in Users
    BY <1>0, <1>6 DEF MfaCheck, RequestOK
  <2>2. codes' \in [Users -> SUBSET Codes]
    BY <1>6, <2>1 DEF MfaCheck, Consume, DataOK
  <2>3. DataOK'
    BY <1>6, <2>2 DEF DataOK, MfaCheck, wizards, factors
  <2>4. CallsOK'
    BY <1>1, <1>6, <2>1, TokenType DEF MfaCheck
  <2> QED BY <2>3, <2>4 DEF TypeOK, DataOK, CallsOK
<1>7. CASE MfaDrop(c)
  <2>1. q.token \in Tokens /\ q.user \in Users
    BY <1>0, <1>7 DEF MfaDrop, RequestOK
  <2>2. valid' \subseteq valid /\ UNCHANGED tries /\ faults' \in Nat
    BY <1>7 DEF MfaDrop, Del, DropOrder, DataOK, Fault
  <2>3. DataOK'
    BY <1>7, <2>2 DEF DataOK, MfaDrop, rows, wizards
  <2>4. [q EXCEPT !.at = "reset"] \in Requests
    BY <1>0 DEF Requests, Steps
  <2>5. call' = [call EXCEPT ![c] = call'[c]] /\ call'[c] = [q EXCEPT !.at = "reset"]
    BY <1>7, <2>4, Became DEF MfaDrop
  <2>6. RequestOK(call[c])'
    BY <1>0, <1>1, <2>1, <2>5 DEF RequestOK, Requests, OwnersStay
  <2>7. CallsOK'
    BY <1>1, <2>4, <2>5, <2>6, CallsKept
  <2> QED BY <2>3, <2>7 DEF TypeOK, DataOK, CallsOK
<1>8. CASE MfaReset(c)
  <2>1. q.token \in Tokens
    BY <1>0, <1>8 DEF MfaReset, RequestOK
  <2>2. UNCHANGED valid /\ tries' \in [Tokens -> Nat] /\ faults' \in Nat
    BY <1>8, <2>1 DEF MfaReset, Del, DropOrder, DataOK, Fault
  <2>3. DataOK'
    BY <1>8, <2>2 DEF DataOK, MfaReset, rows, wizards
  <2>4. CallsOK'
    BY <1>1, <1>8, EndsOK DEF MfaReset
  <2> QED BY <2>3, <2>4 DEF TypeOK, DataOK, CallsOK
<1> QED BY <1>2, <1>3, <1>4, <1>5, <1>6, <1>7, <1>8 DEF TokenStep

LEMMA RoleType == ASSUME TypeOK, NEW c \in Calls, RoleStep(c) PROVE TypeOK'
<1> USE TypeParts, SuperAdminAssumption
<1>1. OwnersStay
  BY DEF RoleStep, RoleRead, RoleWrite, OwnersStay, wizards
<1>2. ASSUME NEW u \in Users, NEW r \in {"user", "admin"}, RoleRead(c, u, r) PROVE TypeOK'
  <2> DEFINE q == Request("role", None, NoPending, None, u, {}, r)
  <2>1. DataOK'
    BY <1>2 DEF DataOK, RoleRead, rows, wizards, factors
  <2>2. q \in Requests
    BY RequestType, IdleType DEF Steps, Roles
  <2>3. call' = [call EXCEPT ![c] = call'[c]] /\ call'[c] = q
    BY <1>2, <2>2, Became DEF RoleRead
  <2>4. RequestOK(call[c])'
    BY <2>3 DEF RequestOK, Request
  <2>5. CallsOK'
    BY <1>1, <2>2, <2>3, <2>4, CallsKept
  <2> QED BY <2>1, <2>5 DEF TypeOK, DataOK, CallsOK
<1>3. CASE RoleWrite(c)
  <2>1. call[c].user \in Users /\ call[c].role \in Roles
    BY <1>3, CallFacts DEF RoleWrite, RequestOK
  <2>2. DataOK'
    BY <1>3, <2>1 DEF DataOK, RoleWrite, wizards, factors
  <2>3. CallsOK'
    BY <1>1, <1>3, EndsOK DEF RoleWrite
  <2> QED BY <2>2, <2>3 DEF TypeOK, DataOK, CallsOK
<1> QED BY <1>2, <1>3 DEF RoleStep

LEMMA GiveUpType == ASSUME TypeOK, NEW c \in Calls, GiveUp(c) PROVE TypeOK'
<1>1. DataOK'
  BY TypeParts DEF DataOK, GiveUp, rows, wizards, factors
<1>2. CallsOK'
  BY TypeParts, EndsOK DEF GiveUp, OwnersStay, wizards
<1> QED BY <1>1, <1>2 DEF TypeOK, DataOK, CallsOK

LEMMA TypeInit == Init => TypeOK
<1>1. Init => DataOK
  BY SuperAdminAssumption DEF Init, DataOK, Roles
<1>2. Init => CallsOK
  BY IdleType, SuperAdminAssumption DEF Init, CallsOK, RequestOK, Idle, Request
<1> QED BY <1>1, <1>2, TypeParts

LEMMA TypeStep == ASSUME TypeOK, [Next]_vars PROVE TypeOK'
<1>1. CASE Next
  BY <1>1, NextSteps, OtherType, WizardType, TokenStepType, RoleType, GiveUpType
<1>2. CASE UNCHANGED vars
  BY <1>2 DEF TypeOK, RequestOK, vars, rows, wizards, factors
<1> QED BY <1>1, <1>2

(***************************************************************************)
(* The variables have their types, and what a request is about exists,     *)
(* whatever the requests of one onboard_token overwrite.                   *)
(***************************************************************************)
THEOREM TypeCorrect == Spec => []TypeOK
<1>1. Init => TypeOK
  BY TypeInit
<1>2. TypeOK /\ [Next]_vars => TypeOK'
  BY TypeStep
<1> QED BY <1>1, <1>2, PTL DEF Spec

-------------------------------------------------------------------------------
(* The only door: what a session, a request and an account say was proved. *)

\* A session that t's browser shows holds what t has proved so far.
SessionProven(t, s) ==
  /\ s.step # "totp" => ~ s.verified /\ s.secret = None
  /\ s.step # "eid" => <<t, s.civil>> \in identified
  /\ s.step = "totp" => <<t, s.civil>> \in approved
  /\ s.secret # None => <<t, s.civil, s.secret>> \in shown

ProvenSteps == {"eid", "send", "verify", "approved", "init", "upsert"}

CallProven(r) ==
  /\ r.at \in ProvenSteps => SessionProven(r.wizard, r.session)
  /\ r.at = "approved" => <<r.wizard, r.session.civil>> \in approved
  /\ r.at = "upsert" => <<r.wizard, r.session.secret>> \in entered

AccountProven(u) ==
  /\ owner[account[u].wizard] = u
  /\ <<account[u].wizard, account[u].civil>> \in identified \cap approved
  /\ <<account[u].wizard, account[u].civil, account[u].secret>> \in shown
  /\ <<account[u].wizard, account[u].secret>> \in entered

Door ==
  /\ \A t \in Wizards : pending[t] # None => SessionProven(t, pending[t])
  /\ \A c \in Calls : CallProven(call[c])
  /\ \A u \in Users : account[u] # None => AccountProven(u)
  /\ \A u \in Users : role[u] = "super" => account[u] # None

Proofs == <<identified, approved, shown, entered>>

Grows ==
  /\ identified \subseteq identified' /\ approved \subseteq approved'
  /\ shown \subseteq shown' /\ entered \subseteq entered'

LEMMA DoorInit == Init => Door
BY SuperAdminAssumption, IdleType
   DEF Init, Door, CallProven, ProvenSteps, Idle, Request, NoPending, Session, SessionProven

\* Steps that prove nothing, write no account and make no super admin.
LEMMA DoorQuiet ==
  ASSUME TypeOK, Door, UNCHANGED <<owner, pending, account, Proofs>>,
         \A u \in Users : role'[u] = "super" => role[u] = "super",
         \A c \in Calls : call'[c] = call[c] \/ call'[c].at \notin ProvenSteps
  PROVE  Door'
<1>1. \A c \in Calls : CallProven(call[c])'
  BY DEF Door, CallProven, SessionProven, Proofs, ProvenSteps
<1>2. \A u \in Users : account'[u] # None => AccountProven(u)'
  BY DEF Door, AccountProven, Proofs
<1>3. \A t \in Wizards : pending'[t] # None => SessionProven(t, pending[t])'
  BY DEF Door, SessionProven, Proofs
<1>4. \A u \in Users : role'[u] = "super" => account'[u] # None
  BY DEF Door
<1> QED BY <1>1, <1>2, <1>3, <1>4 DEF Door

\* What was proved for the others stays proved.
LEMMA DoorGrows ==
  ASSUME TypeOK, Door, Grows, OwnersStay, UNCHANGED <<role, account>>, NEW c \in Calls,
         \A d \in Calls \ {c} : call'[d] = call[d],
         CallProven(call[c])',
         \A t \in Wizards : pending'[t] = pending[t] \/ pending'[t] = None \/ SessionProven(t, pending[t])'
  PROVE  Door'
<1>1. ASSUME NEW d \in Calls PROVE CallProven(call[d])'
  <2>1. CASE d # c
    <3>1. call'[d] = call[d] /\ CallProven(call[d])
      BY <2>1 DEF Door
    <3> QED BY <3>1 DEF CallProven, SessionProven, Grows
  <2> QED BY <2>1
<1>2. ASSUME NEW u \in Users, account'[u] # None PROVE AccountProven(u)'
  <2>1. AccountProven(u) /\ account[u] \in AccountRows
    BY <1>2 DEF Door, TypeOK
  <2>2. account[u].wizard \in Wizards
    BY <2>1 DEF AccountRows
  <2> QED BY <2>1, <2>2 DEF AccountProven, Grows, OwnersStay
<1>3. ASSUME NEW t \in Wizards, pending'[t] # None PROVE SessionProven(t, pending[t])'
  BY <1>3 DEF Door, SessionProven, Grows
<1>4. \A u \in Users : role'[u] = "super" => account'[u] # None
  BY DEF Door
<1> QED BY <1>1, <1>2, <1>3, <1>4 DEF Door

LEMMA DoorOther == ASSUME TypeOK, Door, Other PROVE Door'
<1>1. ASSUME NEW e \in Emails, CreateInvite(e) \/ DeleteInvite(e) PROVE Door'
  BY <1>1, DoorQuiet DEF CreateInvite, DeleteInvite, wizards, Proofs
<1>2. ASSUME NEW m \in Tokens, NEW u \in Users, MakeToken(m, u) PROVE Door'
  BY <1>2, DoorQuiet DEF MakeToken, rows, wizards, Proofs
<1>3. ASSUME NEW t \in Wizards, NEW u \in Users, Google(t, u) PROVE Door'
  <2>1. OwnersStay
    BY <1>3, SuperAdminAssumption DEF Google, OwnersStay, TypeOK
  <2>2. UNCHANGED <<role, account, call, Proofs>>
    BY <1>3 DEF Google, rows, Proofs
  <2>3. \A w \in Wizards : pending'[w] = pending[w] \/ SessionProven(w, pending[w])'
    BY <1>3 DEF Google, SessionProven, Session, TypeOK
  <2>4. \A c \in Calls : CallProven(call[c])'
    BY <2>2 DEF Door, CallProven, SessionProven, Proofs
  <2>5. \A v \in Users : account'[v] # None => AccountProven(v)'
    <3>1. ASSUME NEW v \in Users, account[v] # None PROVE AccountProven(v)'
      <4>1. AccountProven(v) /\ account[v].wizard \in Wizards
        BY <3>1 DEF Door, TypeOK, AccountRows
      <4> QED BY <2>1, <2>2, <4>1 DEF AccountProven, OwnersStay, Proofs
    <3> QED BY <2>2, <3>1
  <2>6. \A w \in Wizards : pending'[w] # None => SessionProven(w, pending[w])'
    BY <2>2, <2>3 DEF Door, SessionProven, Proofs
  <2> QED BY <2>2, <2>4, <2>5, <2>6 DEF Door
<1> QED BY <1>1, <1>2, <1>3 DEF Other

\* The request of c alone has moved.
LEMMA Elsewhere ==
  ASSUME TypeOK, NEW c \in Calls, NEW r, Becomes(c, r)
  PROVE  call'[c] = r /\ \A d \in Calls \ {c} : call'[d] = call[d]
BY DEF TypeOK, Becomes

LEMMA DoorQuietSteps ==
  ASSUME TypeOK, Door, NEW c \in Calls, TokenStep(c) \/ RoleStep(c) \/ GiveUp(c)
  PROVE  Door'
<1>1. CASE TokenStep(c)
  <2>1. UNCHANGED <<owner, pending, account, role, Proofs>>
    BY <1>1 DEF TokenStep, MfaGet, MfaCount, MfaLoad, MfaRefuse, MfaCheck, MfaDrop, MfaReset, rows,
                wizards, Proofs
  <2>2. \E r : Becomes(c, r) /\ r.at \notin ProvenSteps
    <3>1. CASE MfaDrop(c)
      <4>1. [call[c] EXCEPT !.at = "reset"].at = "reset"
        BY CallFacts, TypeParts DEF Requests
      <4> QED BY <3>1, <4>1 DEF MfaDrop, ProvenSteps
    <3>2. CASE Ends(c)
      <4>1. Idle.at \notin ProvenSteps
        BY DEF Idle, Request, ProvenSteps
      <4> QED BY <3>2, <4>1 DEF Ends
    <3>3. ASSUME NEW at \in {"count", "load", "check", "drop", "refuse"}, NEW m, NEW u,
                 Becomes(c, OfToken(at, m, u))
          PROVE  \E r : Becomes(c, r) /\ r.at \notin ProvenSteps
      <4>1. OfToken(at, m, u).at \notin ProvenSteps
        BY DEF OfToken, Request, ProvenSteps
      <4> QED BY <3>3, <4>1
    <3>4. MfaCount(c) => Becomes(c, OfToken("load", call[c].token, call[c].user))
                           \/ Becomes(c, OfToken("drop", call[c].token, call[c].user))
      BY DEF MfaCount, Counted
    <3> QED BY <1>1, <3>1, <3>2, <3>3, <3>4 DEF TokenStep, MfaGet, MfaLoad, MfaRefuse, MfaCheck, MfaReset
  <2> QED BY <2>1, <2>2, Elsewhere, DoorQuiet
<1>2. CASE GiveUp(c)
  BY <1>2, Elsewhere, DoorQuiet DEF GiveUp, Ends, Idle, Request, ProvenSteps, rows, wizards, Proofs
<1>3. ASSUME NEW u \in Users, NEW r \in {"user", "admin"}, RoleRead(c, u, r) PROVE Door'
  BY <1>3, Elsewhere, DoorQuiet DEF RoleRead, Request, ProvenSteps, rows, wizards, Proofs
<1>4. CASE RoleWrite(c)
  <2>1. call[c].role # "super" /\ call[c].user \in Users
    BY <1>4 DEF RoleWrite, TypeOK, RequestOK
  <2>2. \A u \in Users : role'[u] = "super" => role[u] = "super"
    BY <1>4, <2>1 DEF RoleWrite, TypeOK
  <2> QED BY <1>4, <2>2, Elsewhere, DoorQuiet
          DEF RoleWrite, Ends, Idle, Request, ProvenSteps, wizards, Proofs
<1> QED BY <1>1, <1>2, <1>3, <1>4 DEF RoleStep

LEMMA DoorWizard == ASSUME TypeOK, Door, NEW c \in Calls, WizardStep(c) PROVE Door'
<1> DEFINE q == call[c]
<1>0. q \in Requests /\ RequestOK(q) /\ q.session \in PendingSessions /\ CallProven(q)
  BY CallFacts, TypeParts DEF Door
<1>1. OwnersStay
  BY DEF WizardStep, OwnersStay, EidLoad, SendLoad, VerifyLoad, InitLoad, LoadPending, VerifyCode,
         EidSave, InitSave, InsertCodes, SendSave, VerifyCheck, VerifyRefused, VerifySave, Upsert,
         DeleteCodes, MarkAccepted, Forget, wizards
<1>2. ASSUME NEW t \in Wizards, NEW at, pending[t] # None, UNCHANGED <<role, account, pending>>, Grows,
             Becomes(c, OfWizard(at, t, pending[t])), at # "approved",
             at = "upsert" => <<t, pending[t].secret>> \in entered'
      PROVE  Door'
  <2>1. call'[c] = OfWizard(at, t, pending[t]) /\ \A d \in Calls \ {c} : call'[d] = call[d]
    BY <1>2, TypeParts DEF CallsOK, Becomes
  <2>2. call'[c].at = at /\ call'[c].wizard = t /\ call'[c].session = pending[t]
    BY <2>1 DEF OfWizard, Request
  <2>3. SessionProven(t, pending[t])
    BY <1>2 DEF Door
  <2>4. CallProven(call[c])'
    BY <1>2, <2>2, <2>3 DEF CallProven, SessionProven, Grows
  <2> QED BY <1>1, <1>2, <2>1, <2>4, DoorGrows
<1>3. ASSUME NEW t \in Wizards,
             EidLoad(c, t) \/ SendLoad(c, t) \/ VerifyLoad(c, t) \/ InitLoad(c, t)
      PROVE  Door'
  <2>1. UNCHANGED <<role, account, pending>> /\ Grows /\ pending[t] # None
    BY <1>3 DEF EidLoad, SendLoad, VerifyLoad, InitLoad, LoadPending, rows, wizards, Grows
  <2>2. \E at \in {"eid", "send", "verify", "init"} : Becomes(c, OfWizard(at, t, pending[t]))
    BY <1>3 DEF EidLoad, SendLoad, VerifyLoad, InitLoad, LoadPending
  <2> QED BY <1>2, <2>1, <2>2
<1>4. ASSUME NEW t \in Wizards, VerifyCode(c, t) PROVE Door'
  <2>1. UNCHANGED <<role, account, pending>> /\ Grows /\ pending[t] # None
    BY <1>4 DEF VerifyCode, rows, Grows
  <2>2. Becomes(c, OfWizard("upsert", t, pending[t])) /\ <<t, pending[t].secret>> \in entered'
    BY <1>4 DEF VerifyCode, WriteOrder
  <2> QED BY <1>2, <2>1, <2>2
\* The request ends, and the session it saves was proved.
<1>5. ASSUME Ends(c), UNCHANGED <<role, account>>, Grows,
             \A t \in Wizards : pending'[t] = pending[t] \/ pending'[t] = None \/ SessionProven(t, pending[t])'
      PROVE  Door'
  <2>1. call'[c] = Idle /\ \A d \in Calls \ {c} : call'[d] = call[d]
    BY <1>5, Elsewhere DEF Ends
  <2>2. CallProven(call[c])'
    BY <2>1 DEF CallProven, Idle, Request, ProvenSteps
  <2> QED BY <1>1, <1>5, <2>1, <2>2, DoorGrows
<1>6. ASSUME NEW p \in People, EidSave(c, p) PROVE Door'
  <2>1. q.wizard \in Wizards /\ q.session.step = "eid" /\ SessionProven(q.wizard, q.session)
    BY <1>0, <1>6 DEF EidSave, RequestOK, CallProven, ProvenSteps
  <2>2. pending' = [pending EXCEPT ![q.wizard] = Identified(c, p)] /\ Grows
    BY <1>6 DEF EidSave, SavePending, Grows
  <2>3. Identified(c, p).step = "email" /\ Identified(c, p).civil = p
        /\ Identified(c, p).verified = q.session.verified /\ Identified(c, p).secret = q.session.secret
    BY <1>0 DEF Identified, PendingSessions
  <2>4. pending'[q.wizard] = Identified(c, p)
    BY <2>1, <2>2 DEF TypeOK
  <2>6. \A t \in Wizards : pending'[t] = pending[t] \/ SessionProven(t, pending[t])'
    <3>1. ASSUME NEW t \in Wizards, t # q.wizard PROVE pending'[t] = pending[t]
      BY <2>2, <3>1 DEF TypeOK
    <3>2. ASSUME NEW t \in Wizards, t = q.wizard PROVE SessionProven(t, pending[t])'
      <4>1. /\ pending'[t].step = "email" /\ pending'[t].civil = p
            /\ pending'[t].verified = q.session.verified /\ pending'[t].secret = q.session.secret
        BY <2>3, <2>4, <3>2
      <4>2. ~ q.session.verified /\ q.session.secret = None
        BY <2>1 DEF SessionProven
      <4> QED BY <1>6, <3>2, <4>1, <4>2 DEF SessionProven, EidSave
    <3> QED BY <3>1, <3>2
  <2> QED BY <1>5, <1>6, <2>2, <2>6 DEF EidSave, rows
<1>7. ASSUME NEW k \in Secrets, InitSave(c, k) PROVE Door'
  <2> DEFINE s == [q.session EXCEPT !.secret = k]
  <2>1. q.wizard \in Wizards /\ q.session.step = "totp" /\ SessionProven(q.wizard, q.session)
    BY <1>0, <1>7 DEF InitSave, RequestOK, CallProven, ProvenSteps
  <2>2. pending' = [pending EXCEPT ![q.wizard] = s] /\ Grows
    BY <1>7 DEF InitSave, SavePending, Grows
  <2>3. s.step = "totp" /\ s.civil = q.session.civil /\ s.secret = k
    BY <1>0, <2>1 DEF PendingSessions
  <2>4. \A t \in Wizards : pending'[t] = pending[t] \/ SessionProven(t, pending[t])'
    <3>1. ASSUME NEW t \in Wizards, t # q.wizard PROVE pending'[t] = pending[t]
      BY <2>2, <3>1 DEF TypeOK
    <3>2. ASSUME NEW t \in Wizards, t = q.wizard PROVE SessionProven(t, pending[t])'
      <4>1. pending'[t].step = "totp" /\ pending'[t].civil = q.session.civil /\ pending'[t].secret = k
        BY <2>1, <2>2, <2>3, <3>2 DEF TypeOK
      <4>2. <<t, q.session.civil>> \in identified /\ <<t, q.session.civil>> \in approved
        BY <2>1, <3>2 DEF SessionProven
      <4> QED BY <1>7, <3>2, <4>1, <4>2 DEF SessionProven, InitSave
    <3> QED BY <3>1, <3>2
  <2> QED BY <1>5, <1>7, <2>2, <2>4 DEF InitSave, rows
<1>8. CASE SendSave(c) \/ VerifyRefused(c)
  BY <1>5, <1>8 DEF SendSave, VerifyRefused, rows, Grows
<1>9. CASE Forget(c)
  <2>1. \A t \in Wizards : pending'[t] = pending[t] \/ pending'[t] = None
    BY <1>9 DEF Forget, TypeOK
  <2> QED BY <1>5, <1>9, <2>1 DEF Forget, rows, Grows
<1>10. CASE VerifySave(c)
  <2> DEFINE s == [q.session EXCEPT !.verified = TRUE, !.step = "totp"]
  <2>1. /\ q.wizard \in Wizards /\ q.session.step = "email" /\ SessionProven(q.wizard, q.session)
        /\ <<q.wizard, q.session.civil>> \in approved
    BY <1>0, <1>10 DEF VerifySave, RequestOK, CallProven, ProvenSteps
  <2>2. pending' = [pending EXCEPT ![q.wizard] = s] /\ Grows
    BY <1>10 DEF VerifySave, SavePending, Grows
  <2>3. s.step = "totp" /\ s.civil = q.session.civil /\ s.secret = q.session.secret
    BY <1>0, <2>1 DEF PendingSessions
  <2>4. \A t \in Wizards : pending'[t] = pending[t] \/ SessionProven(t, pending[t])'
    <3>1. ASSUME NEW t \in Wizards, t # q.wizard PROVE pending'[t] = pending[t]
      BY <2>2, <3>1 DEF TypeOK
    <3>2. ASSUME NEW t \in Wizards, t = q.wizard PROVE SessionProven(t, pending[t])'
      <4>1. /\ pending'[t].step = "totp" /\ pending'[t].civil = q.session.civil
            /\ pending'[t].secret = q.session.secret
        BY <2>1, <2>2, <2>3, <3>2 DEF TypeOK
      <4>2. /\ <<t, q.session.civil>> \in identified /\ <<t, q.session.civil>> \in approved
            /\ q.session.secret = None
        BY <2>1, <3>2 DEF SessionProven
      <4> QED BY <1>10, <3>2, <4>1, <4>2 DEF SessionProven, VerifySave
    <3> QED BY <3>1, <3>2
  <2> QED BY <1>5, <1>10, <2>2, <2>4 DEF VerifySave, rows
<1>11. CASE VerifyCheck(c)
  <2>1. q.wizard \in Wizards /\ SessionProven(q.wizard, q.session)
    BY <1>0, <1>11 DEF VerifyCheck, RequestOK, CallProven, ProvenSteps
  <2>2. Grows /\ UNCHANGED <<role, account, pending>>
    BY <1>11 DEF VerifyCheck, Grows, rows
  <2>3. /\ call'[c].at = "approved" /\ call'[c].wizard = q.wizard /\ call'[c].session = q.session
        /\ \A d \in Calls \ {c} : call'[d] = call[d]
    BY <1>0, <1>11, TypeParts DEF VerifyCheck, Becomes, CallsOK, Requests
  <2>4. CallProven(call[c])'
    BY <1>11, <2>1, <2>2, <2>3 DEF CallProven, SessionProven, Grows, VerifyCheck
  <2> QED BY <1>1, <2>2, <2>3, <2>4, DoorGrows
<1>12. CASE DeleteCodes(c) \/ MarkAccepted(c) \/ \E B \in Codes : InsertCodes(c, B)
  <2>1. UNCHANGED <<owner, pending, account, role, Proofs>>
    BY <1>12 DEF DeleteCodes, MarkAccepted, InsertCodes, rows, wizards, Proofs
  <2>2. call'[c].at \in {"insert", "accept", "forget"} /\ \A d \in Calls \ {c} : call'[d] = call[d]
    BY <1>0, <1>12, TypeParts
       DEF DeleteCodes, MarkAccepted, InsertCodes, WriteOrder, Becomes, CallsOK, Requests
  <2> QED BY <2>1, <2>2, DoorQuiet DEF ProvenSteps
<1>13. CASE Upsert(c)
  <2> DEFINE u == q.user
             row == [wizard |-> q.wizard, civil |-> q.session.civil, secret |-> q.session.secret]
  <2>1. /\ q.wizard \in Wizards /\ u \in Users /\ owner[q.wizard] = u /\ q.session.step = "totp"
        /\ q.session.secret \in Secrets /\ q.session.civil \in People
        /\ SessionProven(q.wizard, q.session) /\ <<q.wizard, q.session.secret>> \in entered
    BY <1>0, <1>13, CivilType DEF Upsert, RequestOK, CallProven, ProvenSteps, PendingSessions
  <2>2. row \in AccountRows /\ row # None
    BY <2>1, SuperAdminAssumption DEF AccountRows
  <2>3. UNCHANGED <<owner, pending, Proofs>>
    BY <1>13 DEF Upsert, wizards, Proofs
  <2>4. account'[u] = row /\ \A v \in Users \ {u} : account'[v] = account[v] /\ role'[v] = role[v]
    BY <1>13, <2>1 DEF Upsert, TypeOK
  <2>5. /\ <<q.wizard, q.session.civil>> \in identified \cap approved
        /\ <<q.wizard, q.session.civil, q.session.secret>> \in shown
    BY <2>1, SuperAdminAssumption DEF SessionProven
  <2>7. ASSUME NEW v \in Users, account'[v] # None PROVE AccountProven(v)'
    <3>1. CASE v = u
      BY <2>1, <2>3, <2>4, <2>5, <3>1 DEF AccountProven, Proofs
    <3>2. CASE v # u
      <4>1. account'[v] = account[v] /\ AccountProven(v)
        BY <1>0, <1>13, <2>4, <2>7, <3>2 DEF Door
      <4> QED BY <2>3, <4>1 DEF AccountProven, Proofs
    <3> QED BY <3>1, <3>2
  <2>8. \A v \in Users : role'[v] = "super" => account'[v] # None
    BY <2>2, <2>4 DEF Door
  <2>9. call'[c].at = "delete" /\ \A d \in Calls \ {c} : call'[d] = call[d]
    BY <1>0, <1>13, TypeParts DEF Upsert, Becomes, CallsOK, Requests
  <2>10. \A d \in Calls : CallProven(call[d])'
    BY <2>3, <2>9 DEF Door, CallProven, SessionProven, Proofs, ProvenSteps
  <2>11. \A t \in Wizards : pending'[t] # None => SessionProven(t, pending[t])'
    BY <2>3 DEF Door, SessionProven, Proofs
  <2> QED BY <2>7, <2>8, <2>10, <2>11 DEF Door
<1> QED BY <1>3, <1>4, <1>6, <1>7, <1>8, <1>9, <1>10, <1>11, <1>12, <1>13 DEF WizardStep

(***************************************************************************)
(* Whoever is a super admin has come through the wizard, with the proofs   *)
(* of one identity, for any number of requests with one onboard_token.     *)
(***************************************************************************)
THEOREM TheOnlyDoor == Spec => []OnlyDoor
<1>1. Init => TypeOK /\ Door
  BY TypeInit, DoorInit
<1>2. TypeOK /\ Door /\ [Next]_vars => TypeOK' /\ Door'
  <2> SUFFICES ASSUME TypeOK, Door, [Next]_vars PROVE TypeOK' /\ Door'
    OBVIOUS
  <2>1. TypeOK'
    BY TypeStep
  <2>2. CASE Next
    BY <2>2, NextSteps, DoorOther, DoorWizard, DoorQuietSteps, <2>1
  <2>3. CASE UNCHANGED vars
    BY <2>3, <2>1, DoorQuiet DEF vars, rows, wizards, Proofs
  <2> QED BY <2>1, <2>2, <2>3
<1>3. Door => OnlyDoor
  BY DEF Door, OnlyDoor, AccountProven
<1> QED BY <1>1, <1>2, <1>3, PTL DEF Spec

-------------------------------------------------------------------------------
(* Invitations *)

\* The account is there before the invitation is used up, and stays.
Invited ==
  /\ AcceptedMadeOne
  /\ \A c \in Calls : call[c].at \in {"delete", "insert", "accept"} => account[call[c].user] # None

LEMMA InvitedStep ==
  ASSUME TypeOK, Invited, [Next]_vars
  PROVE  Invited'
<1> USE TypeParts
<1>1. \A u \in Users : account[u] # None => account'[u] # None
  <2>1. CASE \E c \in Calls : Upsert(c)
    <3>1. PICK c \in Calls : Upsert(c)
      BY <2>1
    <3>2. call[c].wizard \in Wizards /\ call[c].session.civil \in People /\ call[c].session.secret \in Secrets
      BY <3>1, CallFacts, CivilType DEF Upsert, RequestOK, PendingSessions
    <3>3. PICK row \in AccountRows : account' = [account EXCEPT ![call[c].user] = row]
      BY <3>1, <3>2 DEF Upsert, AccountRows
    <3> QED BY <3>3, SuperAdminAssumption DEF DataOK
  <2>2. CASE UNCHANGED account
    BY <2>2
  <2> QED BY <2>1, <2>2, NextSteps
          DEF vars, rows, Other, WizardStep, TokenStep, RoleStep, CreateInvite, DeleteInvite, Google,
              MakeToken, EidLoad, SendLoad, VerifyLoad, InitLoad, LoadPending, VerifyCode, EidSave,
              InitSave, InsertCodes, SendSave, VerifyCheck, VerifyRefused, VerifySave, DeleteCodes,
              MarkAccepted, Forget, MfaGet, MfaCount, MfaLoad, MfaRefuse, MfaCheck, MfaDrop, MfaReset,
              RoleRead, RoleWrite, GiveUp
<1>2. \A e \in Emails : invite'[e] = "accepted" =>
        invite[e] = "accepted" \/ \E u \in Users : EmailOf[u] = e /\ account[u] # None
  <2>1. CASE \E c \in Calls : MarkAccepted(c)
    <3>1. PICK c \in Calls : MarkAccepted(c)
      BY <2>1
    <3>2. call[c].user \in Users /\ account[call[c].user] # None
      BY <3>1, CallFacts DEF MarkAccepted, RequestOK, Invited
    <3>3. \A e \in Emails \ {EmailOf[call[c].user]} : invite'[e] = invite[e]
      BY <3>1 DEF MarkAccepted, DataOK
    <3> QED BY <3>2, <3>3
  <2>2. CASE \E e \in Emails : CreateInvite(e) \/ DeleteInvite(e)
    BY <2>2 DEF CreateInvite, DeleteInvite, DataOK
  <2>3. CASE UNCHANGED invite
    BY <2>3
  <2> QED BY <2>1, <2>2, <2>3, NextSteps
          DEF vars, rows, Other, WizardStep, TokenStep, RoleStep, Google, MakeToken, EidLoad, SendLoad,
              VerifyLoad, InitLoad, LoadPending, VerifyCode, EidSave, InitSave, InsertCodes, SendSave,
              VerifyCheck, VerifyRefused, VerifySave, Upsert, DeleteCodes, Forget, MfaGet, MfaCount,
              MfaLoad, MfaRefuse, MfaCheck, MfaDrop, MfaReset, RoleRead, RoleWrite, GiveUp
<1>3. ASSUME NEW d \in Calls, call'[d].at \in {"delete", "insert", "accept"}
      PROVE  account'[call'[d].user] # None
  <2>1. call'[d] = call[d] \/ \E c \in Calls : c = d /\
          (Upsert(c) \/ DeleteCodes(c) \/ \E B \in Codes : InsertCodes(c, B))
    <3>1. ASSUME NEW c \in Calls, NEW r, Becomes(c, r)
          PROVE  call'[d] = call[d] \/ (c = d /\ call'[d] = r)
      BY <3>1 DEF Becomes, CallsOK
    <3>2. Idle.at = "idle"
      BY DEF Idle, Request
    <3>3. ASSUME NEW at, NEW t, NEW z PROVE OfWizard(at, t, z).at = at
      BY DEF OfWizard, Request
    <3>4. ASSUME NEW at, NEW t, NEW z PROVE OfToken(at, t, z).at = at
      BY DEF OfToken, Request
    <3>5. ASSUME NEW c \in Calls, GiveUp(c) PROVE call'[d] = call[d]
      BY <1>3, <3>1, <3>2, <3>5 DEF GiveUp, Ends
    <3>6. ASSUME NEW c \in Calls, RoleStep(c) PROVE call'[d] = call[d]
      <4>1. ASSUME NEW u \in Users, NEW r \in {"user", "admin"}, RoleRead(c, u, r) PROVE call'[d] = call[d]
        <5> DEFINE q == Request("role", None, NoPending, None, u, {}, r)
        <5>1. q.at = "role" /\ Becomes(c, q)
          BY <4>1 DEF Request, RoleRead
        <5> QED BY <1>3, <3>1, <5>1
      <4>2. ASSUME RoleWrite(c) PROVE call'[d] = call[d]
        BY <1>3, <3>1, <3>2, <4>2 DEF RoleWrite, Ends
      <4> QED BY <3>6, <4>1, <4>2 DEF RoleStep
    <3>7. ASSUME NEW c \in Calls, MfaDrop(c) PROVE call'[d] = call[d]
      <4>1. [call[c] EXCEPT !.at = "reset"].at = "reset"
        BY CallFacts DEF Requests
      <4> QED BY <1>3, <3>1, <3>7, <4>1 DEF MfaDrop
    <3>8. ASSUME NEW c \in Calls, TokenStep(c) PROVE call'[d] = call[d]
      <4>1. ASSUME NEW m \in Tokens, MfaGet(c, m) PROVE call'[d] = call[d]
        BY <1>3, <3>1, <3>4, <4>1 DEF MfaGet
      <4>2. ASSUME MfaLoad(c) \/ MfaCheck(c) PROVE call'[d] = call[d]
        BY <1>3, <3>1, <3>4, <4>2 DEF MfaLoad, MfaCheck
      <4>3. ASSUME MfaCount(c) PROVE call'[d] = call[d]
        <5>1. PICK n : Counted(c, n)
          BY <4>3 DEF MfaCount
        <5> QED BY <1>3, <3>1, <3>4, <5>1 DEF Counted
      <4>4. ASSUME MfaRefuse(c) \/ MfaReset(c) PROVE call'[d] = call[d]
        BY <1>3, <3>1, <3>2, <4>4 DEF MfaRefuse, MfaReset, Ends
      <4> QED BY <3>7, <3>8, <4>1, <4>2, <4>3, <4>4 DEF TokenStep
    <3>9. ASSUME NEW c \in Calls, NEW t \in Wizards,
                 EidLoad(c, t) \/ SendLoad(c, t) \/ VerifyLoad(c, t) \/ InitLoad(c, t) \/ VerifyCode(c, t)
          PROVE  call'[d] = call[d]
      <4>1. PICK at \in {"eid", "send", "verify", "init", "upsert"} : Becomes(c, OfWizard(at, t, pending[t]))
        BY <3>9 DEF EidLoad, SendLoad, VerifyLoad, InitLoad, LoadPending, VerifyCode, WriteOrder
      <4> QED BY <1>3, <3>1, <3>3, <4>1
    <3>10. ASSUME NEW c \in Calls, VerifyCheck(c) \/ MarkAccepted(c) PROVE call'[d] = call[d]
      <4>1. [call[c] EXCEPT !.at = "approved"].at = "approved"
            /\ [call[c] EXCEPT !.at = "forget"].at = "forget"
        BY CallFacts DEF Requests
      <4> QED BY <1>3, <3>1, <3>10, <4>1 DEF VerifyCheck, MarkAccepted, WriteOrder
    <3>11. ASSUME NEW c \in Calls,
                  SendSave(c) \/ VerifyRefused(c) \/ VerifySave(c) \/ Forget(c)
                  \/ (\E p \in People : EidSave(c, p)) \/ \E k \in Secrets : InitSave(c, k)
           PROVE  call'[d] = call[d]
      BY <1>3, <3>1, <3>2, <3>11 DEF SendSave, VerifyRefused, VerifySave, Forget, EidSave, InitSave, Ends
    <3>12. ASSUME NEW c \in Calls, Upsert(c) \/ DeleteCodes(c) \/ \E B \in Codes : InsertCodes(c, B)
           PROVE  call'[d] = call[d] \/ c = d
      BY <3>12 DEF Upsert, DeleteCodes, InsertCodes, Becomes, CallsOK
    <3>13. ASSUME Other \/ UNCHANGED vars PROVE call'[d] = call[d]
      BY <3>13 DEF Other, CreateInvite, DeleteInvite, Google, MakeToken, vars
    <3> QED BY <3>5, <3>6, <3>8, <3>9, <3>10, <3>11, <3>12, <3>13, NextSteps DEF WizardStep
  <2>2. CASE call'[d] = call[d]
    <3>1. call[d].at \in {"delete", "insert", "accept"} => call[d].user \in Users /\ account[call[d].user] # None
      BY CallFacts DEF RequestOK, Invited
    <3> QED BY <1>1, <1>3, <2>2, <3>1
  <2>3. CASE Upsert(d)
    <3>1. call[d].user \in Users /\ call[d].session.civil \in People /\ call[d].session.secret \in Secrets
          /\ call[d].wizard \in Wizards
      BY <2>3, CallFacts, CivilType DEF Upsert, RequestOK, PendingSessions
    <3>2. [wizard |-> call[d].wizard, civil |-> call[d].session.civil, secret |-> call[d].session.secret]
            \in AccountRows
      BY <3>1 DEF AccountRows
    <3>3. call'[d].user = call[d].user
      BY <2>3, CallFacts DEF Upsert, Becomes, CallsOK, Requests
    <3> QED BY <2>3, <3>1, <3>2, <3>3, SuperAdminAssumption DEF Upsert, DataOK
  <2>4. CASE DeleteCodes(d) \/ \E B \in Codes : InsertCodes(d, B)
    <3>1. call'[d].user = call[d].user
      BY <2>4, CallFacts DEF DeleteCodes, InsertCodes, Becomes, CallsOK, Requests
    <3>2. call[d].user \in Users /\ account[call[d].user] # None
      BY <2>4, CallFacts DEF DeleteCodes, InsertCodes, RequestOK, Invited
    <3> QED BY <1>1, <3>1, <3>2
  <2> QED BY <2>1, <2>2, <2>3, <2>4
<1> QED BY <1>1, <1>2, <1>3 DEF Invited, AcceptedMadeOne

(***************************************************************************)
(* An invitation is used up only by a super admin who was made, wherever   *)
(* the handler stops.                                                      *)
(***************************************************************************)
THEOREM InvitationsMakeOne == Spec => []AcceptedMadeOne
<1>1. Init => TypeOK /\ Invited
  BY TypeInit DEF Init, Invited, AcceptedMadeOne, Idle, Request
<1>2. TypeOK /\ Invited /\ [Next]_vars => TypeOK' /\ Invited'
  BY TypeStep, InvitedStep
<1>3. Invited => AcceptedMadeOne
  BY DEF Invited
<1> QED BY <1>1, <1>2, <1>3, PTL DEF Spec

-------------------------------------------------------------------------------
(* Attempts *)

\* Requests that have yet to delete the counter of m.
Resetting(m) == {c \in Calls : call[c].at = "reset" /\ call[c].token = m}

Capped(n) == IF n <= MaxTries THEN n ELSE MaxTries

\* Each of them has paid with an error for the token being there still.
CountOK(m) ==
  /\ Cardinality(Resetting(m)) <= faults
  /\ passes[m] + MaxTries * Cardinality(Resetting(m)) <= Capped(tries[m]) + MaxTries * faults

Counts ==
  /\ \A m \in valid : CountOK(m)
  /\ \A m \in Tokens : bearer[m] = None => passes[m] = 0
  /\ \A c \in Calls : call[c].token \in Tokens => bearer[call[c].token] # None

\* Products, for the solver: it is better with their properties than with them.
LEMMA Times ==
  ASSUME NEW M \in Nat, NEW a \in Nat, NEW b \in Nat
  PROVE  /\ M * a \in Nat
         /\ M * (a + 1) = M * a + M
         /\ a <= b => M * a <= M * b
<1>1. M * a \in Nat
  OBVIOUS
<1>2. M * (a + 1) = M * a + M
  OBVIOUS
<1>3. ASSUME a <= b PROVE M * a <= M * b
  <2>1. b - a \in Nat /\ M * (b - a) \in Nat
    BY <1>3
  <2>2. M * b = M * a + M * (b - a)
    OBVIOUS
  <2>3. M * a \in Nat /\ M * b \in Nat
    OBVIOUS
  <2> QED BY <2>1, <2>2, <2>3
<1> QED BY <1>1, <1>2, <1>3

LEMMA ResettingFinite ==
  ASSUME NEW m
  PROVE  /\ IsFiniteSet(Resetting(m)) /\ Cardinality(Resetting(m)) \in Nat
         /\ IsFiniteSet(Resetting(m)') /\ Cardinality(Resetting(m)') \in Nat
<1>1. Resetting(m) \subseteq Calls /\ Resetting(m)' \subseteq Calls
  BY DEF Resetting
<1> QED BY <1>1, FS_Subset, FS_CardinalityType, SuperAdminAssumption

\* Nothing of the token changes, or only an error is reported.
LEMMA CountQuiet ==
  ASSUME TypeOK, NEW m \in Tokens, CountOK(m), Resetting(m)' \subseteq Resetting(m),
         passes'[m] = passes[m], tries'[m] = tries[m], faults' \in Nat, faults <= faults'
  PROVE  CountOK(m)'
<1> DEFINE n == Cardinality(Resetting(m))
           o == Cardinality(Resetting(m)')
<1>1. n \in Nat /\ o \in Nat /\ o <= n
  BY ResettingFinite, FS_Subset
<1>2. MaxTries \in Nat /\ faults \in Nat /\ passes[m] \in Nat /\ Capped(tries[m]) \in Nat
  BY SuperAdminAssumption DEF TypeOK, Capped
<1>3. /\ MaxTries * o \in Nat /\ MaxTries * n \in Nat
      /\ MaxTries * faults \in Nat /\ MaxTries * faults' \in Nat
      /\ MaxTries * o <= MaxTries * n /\ MaxTries * faults <= MaxTries * faults'
  BY <1>1, <1>2, Times
<1>4. Capped(tries[m])' = Capped(tries[m])
  BY DEF Capped
<1>5. n <= faults /\ passes[m] + MaxTries * n <= Capped(tries[m]) + MaxTries * faults
  BY DEF CountOK
<1>6. o <= faults' /\ passes[m] + MaxTries * o <= Capped(tries[m]) + MaxTries * faults'
  <2> HIDE DEF n, o
  <2> QED BY <1>1, <1>2, <1>3, <1>5
<1> QED BY <1>4, <1>6 DEF CountOK

\* What a request of the wizard or about a role leaves alone.
LEMMA Untouched ==
  ASSUME TypeOK, NEW c \in Calls, WizardStep(c) \/ RoleStep(c) \/ GiveUp(c)
  PROVE  /\ UNCHANGED factors
         /\ faults' \in Nat /\ faults <= faults'
         /\ call'[c].at # "reset" /\ call'[c].token \in {None, call[c].token}
         /\ \A d \in Calls \ {c} : call'[d] = call[d]
<1> USE TypeParts
<1>1. UNCHANGED factors
  BY DEF WizardStep, RoleStep, EidLoad, SendLoad, VerifyLoad, InitLoad, LoadPending, VerifyCode, EidSave,
         InitSave, InsertCodes, SendSave, VerifyCheck, VerifyRefused, VerifySave, Upsert, DeleteCodes,
         MarkAccepted, Forget, RoleRead, RoleWrite, GiveUp
<1>2. UNCHANGED faults \/ Fault
  BY Zenon
     DEF WizardStep, RoleStep, EidLoad, SendLoad, VerifyLoad, InitLoad, LoadPending, VerifyCode, EidSave,
         InitSave, InsertCodes, SendSave, VerifyCheck, VerifyRefused, VerifySave, Upsert, DeleteCodes,
         MarkAccepted, Forget, RoleRead, RoleWrite, GiveUp
<1>3. faults' \in Nat /\ faults <= faults'
  BY <1>2 DEF Fault, DataOK
<1>4. ASSUME NEW r, Becomes(c, r), r.at # "reset", r.token \in {None, call[c].token}
      PROVE  /\ call'[c].at # "reset" /\ call'[c].token \in {None, call[c].token}
             /\ \A d \in Calls \ {c} : call'[d] = call[d]
  BY <1>4 DEF Becomes, CallsOK
<1>5. Idle.at # "reset" /\ Idle.token = None
  BY DEF Idle, Request
<1>6. ASSUME NEW at, NEW B
      PROVE  /\ [call[c] EXCEPT !.at = at].at = at
             /\ [call[c] EXCEPT !.at = at].token = call[c].token
             /\ [call[c] EXCEPT !.at = at, !.codes = B].at = at
             /\ [call[c] EXCEPT !.at = at, !.codes = B].token = call[c].token
  BY CallFacts DEF Requests
<1>7. \E r : Becomes(c, r) /\ r.at # "reset" /\ r.token \in {None, call[c].token}
  <2>1. CASE Ends(c)
    BY <2>1, <1>5 DEF Ends
  <2>2. ASSUME NEW at \in {"approved", "delete", "forget"}, Becomes(c, [call[c] EXCEPT !.at = at])
        PROVE  \E r : Becomes(c, r) /\ r.at # "reset" /\ r.token \in {None, call[c].token}
    BY <2>2, <1>6
  <2>3. ASSUME NEW at \in {"insert", "accept"}, NEW B, Becomes(c, [call[c] EXCEPT !.at = at, !.codes = B])
        PROVE  \E r : Becomes(c, r) /\ r.at # "reset" /\ r.token \in {None, call[c].token}
    <3> DEFINE s == [call[c] EXCEPT !.at = at, !.codes = B]
    <3>1. Becomes(c, s) /\ s.at = at /\ s.token = call[c].token
      BY <2>3, <1>6
    <3> HIDE DEF s
    <3> QED BY <3>1
  <2>4. ASSUME NEW t \in Wizards,
               EidLoad(c, t) \/ SendLoad(c, t) \/ VerifyLoad(c, t) \/ InitLoad(c, t) \/ VerifyCode(c, t)
        PROVE  \E r : Becomes(c, r) /\ r.at # "reset" /\ r.token \in {None, call[c].token}
    <3>1. PICK at \in {"eid", "send", "verify", "init", "upsert"} : Becomes(c, OfWizard(at, t, pending[t]))
      BY <2>4 DEF EidLoad, SendLoad, VerifyLoad, InitLoad, LoadPending, VerifyCode, WriteOrder
    <3>2. OfWizard(at, t, pending[t]).at = at /\ OfWizard(at, t, pending[t]).token = None
      BY DEF OfWizard, Request
    <3> QED BY <3>1, <3>2
  <2>5. ASSUME NEW u \in Users, NEW r \in {"user", "admin"}, RoleRead(c, u, r)
        PROVE  \E q : Becomes(c, q) /\ q.at # "reset" /\ q.token \in {None, call[c].token}
    <3> DEFINE s == Request("role", None, NoPending, None, u, {}, r)
    <3>1. Becomes(c, s) /\ s.at = "role" /\ s.token = None
      BY <2>5 DEF RoleRead, Request
    <3> HIDE DEF s
    <3> QED BY <3>1
  <2>6. CASE RoleStep(c) \/ GiveUp(c)
    BY <2>6, <2>1, <2>5 DEF RoleStep, RoleWrite, GiveUp
  <2>7. VerifyCheck(c) \/ Upsert(c) \/ MarkAccepted(c) =>
          \E at \in {"approved", "delete", "forget"} : Becomes(c, [call[c] EXCEPT !.at = at])
    BY DEF VerifyCheck, Upsert, MarkAccepted, WriteOrder
  <2>8. DeleteCodes(c) \/ (\E B \in Codes : InsertCodes(c, B)) =>
          \E at \in {"insert", "accept"}, B \in SUBSET Codes :
            Becomes(c, [call[c] EXCEPT !.at = at, !.codes = B])
    <3>1. ASSUME DeleteCodes(c)
          PROVE  \E B \in SUBSET Codes : Becomes(c, [call[c] EXCEPT !.at = "insert", !.codes = B])
      BY <3>1, CallFacts DEF DeleteCodes, RequestOK, DataOK
    <3>2. ASSUME \E B \in Codes : InsertCodes(c, B)
          PROVE  Becomes(c, [call[c] EXCEPT !.at = "accept", !.codes = {}])
      BY <3>2 DEF InsertCodes, WriteOrder
    <3> QED BY <3>1, <3>2
  <2>9. CASE WizardStep(c)
    BY <2>9, <2>1, <2>2, <2>3, <2>4, <2>7, <2>8
       DEF WizardStep, EidSave, InitSave, SendSave, VerifyRefused, VerifySave, Forget
  <2> QED BY <2>6, <2>9
<1> QED BY <1>1, <1>3, <1>4, <1>7

\* The numbers of CountOK, for the solver.
LEMMA CountNumbers ==
  ASSUME TypeOK, TypeOK', NEW m \in Tokens
  PROVE  /\ faults \in Nat /\ faults' \in Nat /\ passes[m] \in Nat /\ passes'[m] \in Nat
         /\ tries[m] \in Nat /\ tries'[m] \in Nat
         /\ Capped(tries[m]) \in Nat /\ Capped(tries[m]) <= MaxTries /\ Capped(tries[m])' \in Nat
         /\ MaxTries \in Nat /\ MaxTries >= 1 /\ MaxTries * faults \in Nat
         /\ MaxTries * (faults + 1) = MaxTries * faults + MaxTries
<1>1. faults \in Nat /\ faults' \in Nat /\ tries[m] \in Nat /\ tries'[m] \in Nat
      /\ passes[m] \in Nat /\ passes'[m] \in Nat
  BY DEF TypeOK
<1>2. MaxTries \in Nat /\ MaxTries >= 1
  BY SuperAdminAssumption
<1> QED BY <1>1, <1>2, Times DEF Capped

\* A code is let through, or an error is reported for it.
LEMMA CountUp ==
  ASSUME TypeOK, TypeOK', NEW m \in Tokens, CountOK(m), Resetting(m)' \subseteq Resetting(m),
         \/ passes'[m] = passes[m] + 1 /\ tries'[m] = tries[m] + 1 /\ tries'[m] <= MaxTries
              /\ faults' = faults
         \/ passes'[m] \in {passes[m], passes[m] + 1} /\ tries'[m] \in {tries[m], tries[m] + 1}
              /\ faults' = faults + 1
         \/ passes'[m] = passes[m] /\ tries'[m] \in {tries[m], tries[m] + 1} /\ faults' = faults
  PROVE  CountOK(m)'
<1> DEFINE n == Cardinality(Resetting(m))
           o == Cardinality(Resetting(m)')
<1>1. n \in Nat /\ o \in Nat /\ o <= n
  BY ResettingFinite, FS_Subset
<1>2. MaxTries * o \in Nat /\ MaxTries * n \in Nat /\ MaxTries * o <= MaxTries * n
  BY <1>1, CountNumbers, Times
<1>3. n <= faults /\ passes[m] + MaxTries * n <= Capped(tries[m]) + MaxTries * faults
  BY DEF CountOK
<1>4. \/ Capped(tries[m])' = Capped(tries[m]) + 1 /\ passes'[m] = passes[m] + 1 /\ faults' = faults
      \/ Capped(tries[m])' >= Capped(tries[m]) /\ passes'[m] <= passes[m] + 1 /\ faults' = faults + 1
      \/ Capped(tries[m])' >= Capped(tries[m]) /\ passes'[m] = passes[m] /\ faults' = faults
  BY CountNumbers DEF Capped
<1>5. o <= faults' /\ passes'[m] + MaxTries * o <= Capped(tries[m])' + MaxTries * faults'
  <2> HIDE DEF n, o
  <2> DEFINE x == MaxTries * faults
             a == MaxTries * o
             b == MaxTries * n
             k == Capped(tries[m])
             l == Capped(tries[m])'
  <2>1. /\ x \in Nat /\ a \in Nat /\ b \in Nat /\ a <= b /\ k \in Nat /\ l \in Nat
        /\ passes[m] + b <= k + x
    BY <1>2, <1>3, CountNumbers
  <2>2. CASE faults' = faults
    <3>1. \/ l = k + 1 /\ passes'[m] = passes[m] + 1
          \/ l >= k /\ passes'[m] = passes[m]
      BY <1>4, <2>2, CountNumbers
    <3>2. passes'[m] + a <= l + x
      <4> HIDE DEF x, a, b, k, l
      <4> QED BY <2>1, <3>1, CountNumbers
    <3>3. MaxTries * faults' = x /\ o <= faults'
      BY <1>1, <1>3, <2>2, CountNumbers
    <3> QED BY <3>2, <3>3
  <2>3. CASE faults' = faults + 1
    <3>1. l >= k /\ passes'[m] <= passes[m] + 1
      BY <1>4, <2>3, CountNumbers
    <3>2. passes'[m] + a <= l + (x + MaxTries)
      <4> HIDE DEF x, a, b, k, l
      <4> QED BY <2>1, <3>1, CountNumbers
    <3>3. MaxTries * faults' = x + MaxTries
      BY <2>3, CountNumbers
    <3>4. o <= faults'
      BY <1>1, <1>3, <2>3, CountNumbers
    <3> QED BY <3>2, <3>3, <3>4
  <2> QED BY <1>4, <2>2, <2>3
<1> QED BY <1>5 DEF CountOK

\* The last steps of a request: the token is deleted, then the counter.
LEMMA CountDrop ==
  ASSUME TypeOK, TypeOK', Counts, NEW c \in Calls, MfaDrop(c), NEW m \in valid'
  PROVE  CountOK(m)'
<1> USE TypeParts
<1> DEFINE n == Cardinality(Resetting(m))
           o == Cardinality(Resetting(m)')
<1>1. m \in valid /\ m \in Tokens /\ CountOK(m)
  BY DEF MfaDrop, Del, DropOrder, DataOK, Counts
<1>2. call'[c].at = "reset" /\ call'[c].token = call[c].token
      /\ \A d \in Calls \ {c} : call'[d] = call[d]
  BY CallFacts DEF MfaDrop, Becomes, Requests, CallsOK
<1>3. UNCHANGED <<passes, tries>>
  BY DEF MfaDrop, Del, DropOrder
<1>4. CASE call[c].token # m
  <2>1. Resetting(m)' \subseteq Resetting(m)
    BY <1>2, <1>4 DEF Resetting
  <2>2. UNCHANGED faults \/ Fault
    BY DEF MfaDrop, Del
  <2>3. faults' \in Nat /\ faults <= faults'
    BY <2>2 DEF Fault, DataOK
  <2> QED BY <1>1, <1>3, <2>1, <2>3, CountQuiet
<1>5. CASE call[c].token = m
  <2>1. faults' = faults + 1
    BY <1>1, <1>5 DEF MfaDrop, Del, DropOrder, Fault
  <2>2. Resetting(m)' = Resetting(m) \cup {c} /\ c \notin Resetting(m)
    BY <1>2, <1>5 DEF Resetting, MfaDrop
  <2>3. n \in Nat /\ o = n + 1
    BY <2>2, ResettingFinite, FS_AddElement
  <2>4. n <= faults /\ passes[m] + MaxTries * n <= Capped(tries[m]) + MaxTries * faults
    BY <1>1 DEF CountOK
  <2>5. MaxTries * n \in Nat /\ MaxTries * (n + 1) = MaxTries * n + MaxTries
    BY <2>3, SuperAdminAssumption, Times
  <2>6. Capped(tries[m])' = Capped(tries[m])
    BY <1>3 DEF Capped
  <2>7. /\ faults \in Nat /\ passes[m] \in Nat /\ Capped(tries[m]) \in Nat
        /\ MaxTries \in Nat /\ MaxTries * faults \in Nat
        /\ MaxTries * (faults + 1) = MaxTries * faults + MaxTries
    BY <1>1, CountNumbers
  <2>8. n + 1 <= faults + 1
        /\ passes[m] + MaxTries * (n + 1) <= Capped(tries[m]) + MaxTries * (faults + 1)
    <3> DEFINE x == MaxTries * faults
               b == MaxTries * n
               k == Capped(tries[m])
    <3>1. passes[m] + (b + MaxTries) <= k + (x + MaxTries)
      <4>1. b \in Nat /\ x \in Nat /\ k \in Nat /\ passes[m] + b <= k + x
        BY <2>4, <2>5, <2>7
      <4> HIDE DEF x, b, k
      <4> QED BY <4>1, <2>7
    <3>2. n + 1 <= faults + 1
      BY <2>3, <2>4, <2>7
    <3> HIDE DEF n
    <3> QED BY <3>1, <3>2, <2>5, <2>7
  <2>9. Cardinality(Resetting(m)') = n + 1
    BY <2>3
  <2> HIDE DEF n
  <2> QED BY <1>3, <2>1, <2>6, <2>8, <2>9 DEF CountOK
<1> QED BY <1>4, <1>5

LEMMA CountReset ==
  ASSUME TypeOK, TypeOK', Counts, NEW c \in Calls, MfaReset(c), NEW m \in valid'
  PROVE  CountOK(m)'
<1> USE TypeParts
<1> DEFINE n == Cardinality(Resetting(m))
           o == Cardinality(Resetting(m)')
<1>1. m \in valid /\ m \in Tokens /\ CountOK(m)
  BY DEF MfaReset, Del, DropOrder, DataOK, Counts
<1>2. call'[c].at = "idle" /\ \A d \in Calls \ {c} : call'[d] = call[d]
  <2>1. Idle.at = "idle"
    BY DEF Idle, Request
  <2> QED BY <2>1 DEF MfaReset, Ends, Becomes, CallsOK
<1>3. UNCHANGED passes
  BY DEF MfaReset
<1>4. \/ Fault /\ UNCHANGED tries
      \/ faults' = faults /\ tries' = [tries EXCEPT ![call[c].token] = 0]
  BY DEF MfaReset, Del, DropOrder
<1>5. CASE call[c].token # m
  <2>1. Resetting(m)' \subseteq Resetting(m)
    BY <1>2 DEF Resetting
  <2>2. tries'[m] = tries[m] /\ faults' \in Nat /\ faults <= faults'
    BY <1>1, <1>4, <1>5 DEF Fault, DataOK
  <2> QED BY <1>1, <1>3, <2>1, <2>2, CountQuiet
<1>6. CASE call[c].token = m
  <2>1. Resetting(m)' = Resetting(m) \ {c} /\ c \in Resetting(m)
    BY <1>2, <1>6 DEF Resetting, MfaReset
  <2>2. n \in Nat /\ n >= 1 /\ o = n - 1 /\ o \in Nat
    <3>1. n \in Nat /\ o \in Nat /\ o = n - 1
      BY <2>1, ResettingFinite, FS_RemoveElement
    <3> QED BY <3>1
  <2>3. n <= faults /\ passes[m] + MaxTries * n <= Capped(tries[m]) + MaxTries * faults
    BY <1>1 DEF CountOK
  <2>4. MaxTries * o \in Nat /\ MaxTries * n = MaxTries * o + MaxTries
    <3>1. MaxTries * o \in Nat /\ MaxTries * (o + 1) = MaxTries * o + MaxTries
      BY <2>2, SuperAdminAssumption, Times
    <3>2. n = o + 1
      BY <2>2
    <3> HIDE DEF n, o
    <3> QED BY <3>1, <3>2
  <2>5. /\ faults \in Nat /\ passes[m] \in Nat
        /\ Capped(tries[m]) \in Nat /\ Capped(tries[m]) <= MaxTries /\ Capped(tries[m])' \in Nat
        /\ MaxTries \in Nat /\ MaxTries * faults \in Nat
        /\ MaxTries * (faults + 1) = MaxTries * faults + MaxTries
    BY <1>1, CountNumbers
  <2> DEFINE x == MaxTries * faults
             a == MaxTries * o
             k == Capped(tries[m])
             l == Capped(tries[m])'
  <2>6. x \in Nat /\ a \in Nat /\ k \in Nat /\ k <= MaxTries /\ l \in Nat
        /\ passes[m] + (a + MaxTries) <= k + x
    <3> HIDE DEF n, o
    <3> QED BY <2>3, <2>4, <2>5
  <2>7. o <= faults
    BY <2>2, <2>3, <2>5
  <2>8. CASE faults' = faults
    <3>1. passes[m] + a <= l + x
      <4> HIDE DEF x, a, k, l
      <4> QED BY <2>5, <2>6
    <3>2. MaxTries * faults' = x
      BY <2>8
    <3> QED BY <1>3, <2>7, <2>8, <3>1, <3>2 DEF CountOK
  <2>9. CASE faults' = faults + 1 /\ UNCHANGED tries
    <3>1. passes[m] + a <= l + (x + MaxTries)
      <4>1. l = k
        BY <2>9 DEF Capped
      <4> HIDE DEF x, a, k, l
      <4> QED BY <2>5, <2>6, <4>1
    <3>2. MaxTries * faults' = x + MaxTries
      BY <2>5, <2>9
    <3>3. o <= faults'
      BY <2>2, <2>5, <2>7, <2>9
    <3> QED BY <1>3, <3>1, <3>2, <3>3 DEF CountOK
  <2> QED BY <1>4, <2>8, <2>9 DEF Fault
<1> QED BY <1>5, <1>6

LEMMA CountToken ==
  ASSUME TypeOK, TypeOK', Counts, NEW c \in Calls, TokenStep(c)
  PROVE  Counts'
<1> USE TypeParts
<1>1. UNCHANGED bearer /\ valid' \subseteq valid
  BY DEF TokenStep, MfaGet, MfaCount, MfaLoad, MfaRefuse, MfaCheck, MfaDrop, MfaReset, Del, DropOrder, factors
<1>2. \A m \in valid : m \in Tokens /\ bearer[m] # None /\ CountOK(m)
  BY SuperAdminAssumption DEF DataOK, Counts
<1>3. ASSUME NEW r, Becomes(c, r)
      PROVE  call'[c] = r /\ \A d \in Calls \ {c} : call'[d] = call[d]
  BY <1>3 DEF Becomes, CallsOK
<1>4. Idle.at = "idle" /\ Idle.token = None
  BY DEF Idle, Request
<1>5. ASSUME NEW at, NEW m, NEW u PROVE OfToken(at, m, u).at = at /\ OfToken(at, m, u).token = m
  BY DEF OfToken, Request
<1>6. (\A d \in Calls \ {c} : call'[d] = call[d]) /\ (call'[c].token \in Tokens => bearer[call'[c].token] # None)
  <2>1. call[c].token \in Tokens => bearer[call[c].token] # None
    BY DEF Counts
  <2>2. None \notin Tokens
    BY SuperAdminAssumption
  <2>3. CASE Ends(c)
    BY <2>2, <2>3, <1>3, <1>4 DEF Ends
  <2>4. ASSUME NEW m \in Tokens, MfaGet(c, m)
        PROVE  (\A d \in Calls \ {c} : call'[d] = call[d]) /\ bearer[call'[c].token] # None
    BY <2>4, <1>2, <1>3, <1>5 DEF MfaGet
  <2>5. ASSUME NEW at, NEW u, Becomes(c, OfToken(at, call[c].token, u))
        PROVE  (\A d \in Calls \ {c} : call'[d] = call[d]) /\ call'[c].token = call[c].token
    BY <2>5, <1>3, <1>5
  <2>6. CASE MfaCount(c) \/ MfaLoad(c) \/ MfaCheck(c)
    BY <2>1, <2>5, <2>6 DEF MfaCount, Counted, MfaLoad, MfaCheck
  <2>7. CASE MfaDrop(c)
    <3>1. [call[c] EXCEPT !.at = "reset"].token = call[c].token
      BY CallFacts DEF Requests
    <3> QED BY <2>1, <2>7, <1>3, <3>1 DEF MfaDrop
  <2> QED BY <2>3, <2>4, <2>6, <2>7 DEF TokenStep, MfaRefuse, MfaReset
<1>7. ASSUME call'[c].at # "reset", NEW m PROVE Resetting(m)' \subseteq Resetting(m)
  BY <1>6, <1>7 DEF Resetting
<1>8. \A m \in valid' : CountOK(m)'
  <2> SUFFICES ASSUME NEW m \in valid' PROVE CountOK(m)'
    OBVIOUS
  <2>1. m \in Tokens /\ CountOK(m)
    BY <1>1, <1>2
  <2>2. CASE MfaDrop(c) \/ MfaReset(c)
    BY <2>2, CountDrop, CountReset
  <2>3. CASE MfaCount(c)
    <3>1. PICK k \in Nat : Counted(c, k)
      BY <2>3, CallFacts DEF MfaCount, RequestOK, DataOK
    <3>2. call'[c].at \in {"load", "drop"}
      BY <1>3, <1>5, <3>1 DEF Counted
    <3>3. Resetting(m)' \subseteq Resetting(m)
      BY <1>7, <3>2
    <3>4. CASE call[c].token # m
      <4>1. passes'[m] = passes[m]
        BY <2>1, <3>1, <3>4 DEF Counted, DataOK
      <4>2. tries'[m] = tries[m]
        BY <2>1, <2>3, <3>4 DEF MfaCount, Incremented, DataOK
      <4>3. UNCHANGED faults \/ Fault
        BY <2>3, Zenon DEF MfaCount
      <4>4. faults' \in Nat /\ faults <= faults'
        BY <4>3 DEF Fault, DataOK
      <4> QED BY <2>1, <3>3, <4>1, <4>2, <4>4, CountQuiet
    <3>5. CASE call[c].token = m
      <4>1. MaxTries \in Nat /\ tries[m] \in Nat /\ passes[m] \in Nat /\ faults \in Nat
        BY <2>1, SuperAdminAssumption DEF DataOK
      <4>2. Incremented(m)[m] \in {tries[m], tries[m] + 1}
            /\ (tries[m] + 1 <= MaxTries => Incremented(m)[m] = tries[m] + 1)
        BY <2>1, <4>1 DEF Incremented, DataOK
      <4>3. ASSUME NEW n \in Nat, Counted(c, n)
            PROVE  \/ n <= MaxTries /\ passes'[m] = passes[m] + 1
                   \/ n > MaxTries /\ passes'[m] = passes[m]
        BY <2>1, <3>5, <4>3 DEF Counted, DataOK
      <4>4. CASE tries' = Incremented(m) /\ Counted(c, tries[m] + 1) /\ UNCHANGED faults
        <5>1. tries'[m] \in {tries[m], tries[m] + 1} /\ (tries[m] + 1 <= MaxTries => tries'[m] = tries[m] + 1)
          BY <4>2, <4>4
        <5>2. \/ tries[m] + 1 <= MaxTries /\ passes'[m] = passes[m] + 1
              \/ tries[m] + 1 > MaxTries /\ passes'[m] = passes[m]
          BY <4>1, <4>3, <4>4
        <5> QED BY <2>1, <3>3, <4>1, <4>4, <5>1, <5>2, CountUp
      <4>5. CASE Fault /\ (tries' = Incremented(m) \/ UNCHANGED tries) /\ Counted(c, 0)
        <5>1. tries'[m] \in {tries[m], tries[m] + 1}
          BY <4>2, <4>5
        <5>2. passes'[m] \in {passes[m], passes[m] + 1}
          BY <4>3, <4>5
        <5>3. faults' = faults + 1
          BY <4>5 DEF Fault
        <5> QED BY <2>1, <3>3, <5>1, <5>2, <5>3, CountUp
      <4> QED BY <2>3, <3>5, <4>4, <4>5, Zenon DEF MfaCount
    <3> QED BY <3>4, <3>5
  <2>4. ASSUME MfaLoad(c) \/ MfaCheck(c) \/ MfaRefuse(c) \/ \E z \in Tokens : MfaGet(c, z)
        PROVE  CountOK(m)'
    <3>1. call'[c].at # "reset"
      <4>1. ASSUME MfaLoad(c) \/ MfaCheck(c) PROVE call'[c].at # "reset"
        BY <4>1, <1>3, <1>5 DEF MfaLoad, MfaCheck
      <4>2. ASSUME NEW z \in Tokens, MfaGet(c, z) PROVE call'[c].at # "reset"
        BY <4>2, <1>3, <1>5 DEF MfaGet
      <4>3. ASSUME MfaRefuse(c) PROVE call'[c].at # "reset"
        BY <4>3, <1>3, <1>4 DEF MfaRefuse, Ends
      <4> QED BY <2>4, <4>1, <4>2, <4>3
    <3>2. UNCHANGED <<passes, tries>>
      BY <2>4 DEF MfaLoad, MfaCheck, MfaRefuse, MfaGet, factors
    <3>3. UNCHANGED faults \/ Fault
      BY <2>4, Zenon DEF MfaLoad, MfaCheck, MfaRefuse, MfaGet
    <3>4. faults' \in Nat /\ faults <= faults'
      BY <3>3 DEF Fault, DataOK
    <3> QED BY <1>7, <2>1, <3>1, <3>2, <3>4, CountQuiet
  <2> QED BY <2>2, <2>3, <2>4 DEF TokenStep
<1>9. ASSUME NEW m \in Tokens, bearer'[m] = None PROVE passes'[m] = 0
  <2>1. bearer[m] = None /\ passes[m] = 0
    BY <1>1, <1>9 DEF Counts
  <2>2. CASE MfaCount(c)
    <3>1. call[c].token \in Tokens /\ bearer[call[c].token] # None
      BY <2>2, CallFacts DEF MfaCount, RequestOK, Counts
    <3>2. PICK k : Counted(c, k)
      BY <2>2 DEF MfaCount
    <3> QED BY <2>1, <3>1, <3>2 DEF Counted, DataOK
  <2>3. CASE ~ MfaCount(c)
    BY <2>1, <2>3 DEF TokenStep, MfaGet, MfaLoad, MfaRefuse, MfaCheck, MfaDrop, MfaReset, factors
  <2> QED BY <2>2, <2>3
<1>10. ASSUME NEW d \in Calls, call'[d].token \in Tokens PROVE bearer'[call'[d].token] # None
  BY <1>1, <1>6, <1>10 DEF Counts
<1> QED BY <1>8, <1>9, <1>10 DEF Counts

LEMMA CountOther == ASSUME TypeOK, TypeOK', Counts, Other PROVE Counts'
<1> USE TypeParts
<1>1. call' = call /\ UNCHANGED <<tries, passes, faults>>
  BY DEF Other, CreateInvite, DeleteInvite, Google, MakeToken, factors
<1>2. ASSUME NEW m PROVE CountOK(m)' = CountOK(m)
  BY <1>1 DEF CountOK, Resetting, Capped
<1>3. CASE UNCHANGED <<bearer, valid>>
  BY <1>1, <1>2, <1>3 DEF Counts
<1>4. ASSUME NEW k \in Tokens, NEW u \in Users, MakeToken(k, u) PROVE Counts'
  <2>1. valid' = valid \cup {k} /\ bearer[k] = None /\ bearer' = [bearer EXCEPT ![k] = u] /\ u # None
    BY <1>4, SuperAdminAssumption DEF MakeToken
  <2>2. ASSUME NEW m \in Tokens, bearer[m] # None PROVE bearer'[m] # None
    BY <2>1, <2>2 DEF DataOK
  <2>3. CountOK(k)
    <3>1. Resetting(k) = {}
      BY <2>1 DEF Resetting, Counts
    <3>2. Cardinality(Resetting(k)) = 0
      BY <3>1, FS_EmptySet
    <3>3. passes[k] = 0 /\ tries[k] \in Nat /\ faults \in Nat
      BY <2>1 DEF Counts, DataOK
    <3>4. MaxTries \in Nat /\ MaxTries * 0 = 0 /\ MaxTries * faults \in Nat /\ Capped(tries[k]) \in Nat
      BY <3>3, SuperAdminAssumption, Times DEF Capped
    <3> QED BY <3>2, <3>3, <3>4 DEF CountOK
  <2>4. \A m \in valid' : CountOK(m)'
    BY <1>2, <2>1, <2>3 DEF Counts
  <2>5. ASSUME NEW m \in Tokens, bearer'[m] = None PROVE passes'[m] = 0
    BY <1>1, <2>2, <2>5 DEF Counts
  <2>6. ASSUME NEW d \in Calls, call'[d].token \in Tokens PROVE bearer'[call'[d].token] # None
    BY <1>1, <2>2, <2>6 DEF Counts
  <2> QED BY <2>4, <2>5, <2>6 DEF Counts
<1> QED BY <1>3, <1>4 DEF Other, CreateInvite, DeleteInvite, Google, factors

LEMMA CountStep == ASSUME TypeOK, TypeOK', Counts, [Next]_vars PROVE Counts'
<1>1. ASSUME NEW c \in Calls, WizardStep(c) \/ RoleStep(c) \/ GiveUp(c) PROVE Counts'
  <2>1. /\ UNCHANGED <<bearer, valid, tries, passes>>
        /\ faults' \in Nat /\ faults <= faults'
        /\ call'[c].at # "reset" /\ call'[c].token \in {None, call[c].token}
        /\ \A d \in Calls \ {c} : call'[d] = call[d]
    BY <1>1, Untouched DEF factors
  <2>2. ASSUME NEW m \in valid' PROVE CountOK(m)'
    <3>1. m \in Tokens /\ CountOK(m)
      BY <2>1, <2>2, TypeParts DEF Counts, DataOK
    <3>2. Resetting(m)' \subseteq Resetting(m)
      BY <2>1 DEF Resetting
    <3> QED BY <2>1, <3>1, <3>2, CountQuiet
  <2>3. ASSUME NEW d \in Calls, call'[d].token \in Tokens PROVE bearer'[call'[d].token] # None
    BY <2>1, <2>3, SuperAdminAssumption DEF Counts
  <2> QED BY <2>1, <2>2, <2>3 DEF Counts
<1>2. CASE UNCHANGED vars
  BY <1>2 DEF vars, factors, Counts, CountOK, Resetting, Capped
<1> QED BY <1>1, <1>2, NextSteps, CountToken, CountOther

(***************************************************************************)
(* While an mfa_token can be presented, no more than mfaMaxAttempts codes  *)
(* have been let through, and as many again for each error of Redis.       *)
(***************************************************************************)
THEOREM AttemptsBounded == Spec => []AttemptsAreCounted
<1>1. Init => TypeOK /\ Counts
  <2>1. ASSUME Init PROVE Counts
    <3>1. valid = {} /\ \A c \in Calls : call[c].token = None
      BY <2>1 DEF Init, Idle, Request
    <3> QED BY <2>1, <3>1, SuperAdminAssumption DEF Init, Counts
  <2> QED BY <2>1, TypeInit
<1>2. TypeOK /\ Counts /\ [Next]_vars => TypeOK' /\ Counts'
  BY TypeStep, CountStep
<1>3. TypeOK /\ Counts => AttemptsAreCounted
  <2> SUFFICES ASSUME TypeOK, Counts, NEW m \in valid
               PROVE  passes[m] <= MaxTries + MaxTries * faults
    BY DEF AttemptsAreCounted
  <2>1. m \in Tokens /\ CountOK(m)
    BY DEF TypeOK, Counts
  <2> DEFINE b == MaxTries * Cardinality(Resetting(m))
             x == MaxTries * faults
             k == Capped(tries[m])
  <2>2. passes[m] + b <= k + x
    BY <2>1 DEF CountOK
  <2>3. b \in Nat
    BY ResettingFinite, SuperAdminAssumption, Times
  <2>4. x \in Nat /\ k \in Nat /\ k <= MaxTries /\ MaxTries \in Nat /\ passes[m] \in Nat
    BY <2>1, SuperAdminAssumption, Times DEF TypeOK, Capped
  <2>5. passes[m] <= MaxTries + x
    <3> HIDE DEF b, x, k
    <3> QED BY <2>2, <2>3, <2>4
  <2> QED BY <2>5
<1> QED BY <1>1, <1>2, <1>3, PTL DEF Spec

-------------------------------------------------------------------------------
(* What overlapping requests can undo, and what they cannot *)

\* A request comes to replace recovery codes, or to write a role, in one way only.
LEMMA Arrivals ==
  ASSUME CallsOK, [Next]_vars, NEW d \in Calls
  PROVE  \/ call'[d] = call[d]
         \/ call'[d].at \notin {"insert", "role"}
         \/ DeleteCodes(d)
         \/ \E u \in Users, r \in {"user", "admin"} : RoleRead(d, u, r)
<1>1. ASSUME NEW c \in Calls, NEW r, Becomes(c, r)
      PROVE  call'[d] = call[d] \/ (c = d /\ call'[d] = r)
  BY <1>1 DEF Becomes, CallsOK
<1>2. ASSUME NEW c \in Calls, Ends(c) PROVE call'[d] = call[d] \/ call'[d].at = "idle"
  BY <1>1, <1>2 DEF Ends, Idle, Request
<1>3. ASSUME NEW c \in Calls, NEW at, NEW t, NEW s, Becomes(c, OfWizard(at, t, s)) \/ Becomes(c, OfToken(at, t, s))
      PROVE  call'[d] = call[d] \/ call'[d].at = at
  BY <1>1, <1>3 DEF OfWizard, OfToken, Request
<1>4. ASSUME NEW c \in Calls, NEW at, Becomes(c, [call[c] EXCEPT !.at = at])
      PROVE  call'[d] = call[d] \/ call'[d].at = at
  <2>1. [call[c] EXCEPT !.at = at].at = at
    BY CallFacts DEF Requests
  <2> QED BY <1>1, <1>4, <2>1
<1>5. ASSUME NEW c \in Calls, WizardStep(c), ~ DeleteCodes(c)
      PROVE  call'[d] = call[d] \/ call'[d].at \notin {"insert", "role"}
  <2>1. ASSUME NEW t \in Wizards,
               EidLoad(c, t) \/ SendLoad(c, t) \/ VerifyLoad(c, t) \/ InitLoad(c, t) \/ VerifyCode(c, t)
        PROVE  \E at \in {"eid", "send", "verify", "init", "upsert"} : Becomes(c, OfWizard(at, t, pending[t]))
    BY <2>1 DEF EidLoad, SendLoad, VerifyLoad, InitLoad, LoadPending, VerifyCode, WriteOrder
  <2>2. ASSUME VerifyCheck(c) \/ MarkAccepted(c) \/ Upsert(c)
        PROVE  \E at \in {"approved", "forget", "delete"} : Becomes(c, [call[c] EXCEPT !.at = at])
    BY <2>2 DEF VerifyCheck, MarkAccepted, Upsert, WriteOrder
  <2>3. ASSUME NEW B \in Codes, InsertCodes(c, B) PROVE call'[d] = call[d] \/ call'[d].at = "accept"
    <3>1. [call[c] EXCEPT !.at = "accept", !.codes = {}].at = "accept"
      BY CallFacts DEF Requests
    <3> QED BY <1>1, <2>3, <3>1 DEF InsertCodes, WriteOrder
  <2>4. SendSave(c) \/ VerifyRefused(c) \/ VerifySave(c) \/ Forget(c)
          \/ (\E p \in People : EidSave(c, p)) \/ (\E k \in Secrets : InitSave(c, k)) => Ends(c)
    BY DEF SendSave, VerifyRefused, VerifySave, Forget, EidSave, InitSave
  <2> QED BY <1>2, <1>3, <1>4, <1>5, <2>1, <2>2, <2>3, <2>4 DEF WizardStep
<1>6. ASSUME NEW c \in Calls, TokenStep(c)
      PROVE  call'[d] = call[d] \/ call'[d].at \notin {"insert", "role"}
  <2>1. ASSUME ~ (MfaRefuse(c) \/ MfaReset(c) \/ MfaDrop(c))
        PROVE  \E at \in {"count", "load", "drop", "check", "refuse"} : \E t, s : Becomes(c, OfToken(at, t, s))
    <3>1. ASSUME MfaCount(c)
          PROVE  \E at \in {"load", "drop"} : \E t, s : Becomes(c, OfToken(at, t, s))
      <4>1. PICK n : Counted(c, n)
        BY <3>1 DEF MfaCount
      <4> QED BY <4>1 DEF Counted
    <3> QED BY <1>6, <2>1, <3>1 DEF TokenStep, MfaGet, MfaLoad, MfaCheck
  <2>2. MfaDrop(c) => Becomes(c, [call[c] EXCEPT !.at = "reset"])
    BY DEF MfaDrop
  <2>3. MfaRefuse(c) \/ MfaReset(c) => Ends(c)
    BY DEF MfaRefuse, MfaReset
  <2> QED BY <1>2, <1>3, <1>4, <2>1, <2>2, <2>3
<1>7. ASSUME NEW c \in Calls, RoleWrite(c) \/ GiveUp(c)
      PROVE  call'[d] = call[d] \/ call'[d].at \notin {"insert", "role"}
  BY <1>2, <1>7 DEF RoleWrite, GiveUp
<1>8. ASSUME NEW c \in Calls, DeleteCodes(c) \/ \E u \in Users, r \in {"user", "admin"} : RoleRead(c, u, r)
      PROVE  call'[d] = call[d] \/ c = d
  BY <1>1, <1>8 DEF DeleteCodes, RoleRead
<1>9. ASSUME Other \/ UNCHANGED vars PROVE call'[d] = call[d]
  BY <1>9 DEF Other, CreateInvite, DeleteInvite, Google, MakeToken, vars
<1> QED BY <1>5, <1>6, <1>7, <1>8, <1>9, NextSteps DEF RoleStep

\* Between its DELETE and its INSERT a request is alone with its user.
OneReplaces ==
  \A c, d \in Calls :
    call[c].at = "insert" /\ call[d].at = "insert" /\ call[c].user = call[d].user => c = d

OneSetOfCodes == \A u \in Users : \A B, D \in codes[u] : B = D

Replacements ==
  /\ OneSetOfCodes
  /\ \A c \in Calls : call[c].at = "insert" => codes[call[c].user] \subseteq call[c].codes

\* Recovery codes are written by the replacement and used by the second factor.
LEMMA CodesWritten ==
  ASSUME TypeOK, [Next]_vars
  PROVE  \/ \A u \in Users : codes'[u] \subseteq codes[u]
         \/ \E c \in Calls, B \in Codes : InsertCodes(c, B)
<1>1. ASSUME NEW c \in Calls, MfaCheck(c) PROVE \A u \in Users : codes'[u] \subseteq codes[u]
  BY <1>1, TypeParts DEF MfaCheck, Consume, DataOK
<1>2. CASE UNCHANGED codes
  BY <1>2
<1> QED BY <1>1, <1>2, NextSteps
        DEF vars, rows, Other, WizardStep, TokenStep, RoleStep, CreateInvite, DeleteInvite, Google,
            MakeToken, EidLoad, SendLoad, VerifyLoad, InitLoad, LoadPending, VerifyCode, EidSave,
            InitSave, SendSave, VerifyCheck, VerifyRefused, VerifySave, Upsert, DeleteCodes,
            MarkAccepted, Forget, MfaGet, MfaCount, MfaLoad, MfaRefuse, MfaDrop, MfaReset,
            RoleRead, RoleWrite, GiveUp

LEMMA ReplacementsStep ==
  ASSUME TypeOK, Replacements, OneReplaces, [Next]_vars
  PROVE  Replacements'
<1> USE TypeParts
<1>1. CASE \A u \in Users : codes'[u] \subseteq codes[u]
  <2>1. OneSetOfCodes'
    BY <1>1 DEF Replacements, OneSetOfCodes
  <2>2. ASSUME NEW d \in Calls, call'[d].at = "insert" PROVE codes'[call'[d].user] \subseteq call'[d].codes
    <3>1. CASE call'[d] = call[d]
      <4>1. call[d].user \in Users
        BY <2>2, <3>1, CallFacts DEF RequestOK
      <4> QED BY <1>1, <2>2, <3>1, <4>1 DEF Replacements
    <3>2. CASE DeleteCodes(d)
      <4>1. call[d].user \in Users
        BY <3>2, CallFacts DEF DeleteCodes, RequestOK
      <4>2. call'[d].user = call[d].user /\ call'[d].codes = codes[call[d].user]
        BY <3>2, CallFacts DEF DeleteCodes, Becomes, CallsOK, Requests
      <4> QED BY <1>1, <4>1, <4>2
    <3>3. ASSUME NEW u \in Users, NEW r \in {"user", "admin"}, RoleRead(d, u, r) PROVE FALSE
      BY <2>2, <3>3 DEF RoleRead, Becomes, CallsOK, Request
    <3> QED BY <2>2, <3>1, <3>2, <3>3, Arrivals
  <2> QED BY <2>1, <2>2 DEF Replacements
<1>2. ASSUME NEW c \in Calls, NEW B \in Codes, InsertCodes(c, B) PROVE Replacements'
  <2> DEFINE u == call[c].user
  <2>1. u \in Users /\ call[c].at = "insert"
    BY <1>2, CallFacts DEF InsertCodes, RequestOK
  <2>2. codes' = [codes EXCEPT ![u] = {B}]
    BY <1>2, <2>1 DEF InsertCodes, Replacements
  <2>3. OneSetOfCodes'
    BY <2>1, <2>2 DEF Replacements, OneSetOfCodes, DataOK
  <2>4. call'[c].at = "accept" /\ \A d \in Calls \ {c} : call'[d] = call[d]
    BY <1>2, CallFacts DEF InsertCodes, WriteOrder, Becomes, CallsOK, Requests
  <2>5. ASSUME NEW d \in Calls, call'[d].at = "insert" PROVE codes'[call'[d].user] \subseteq call'[d].codes
    <3>1. d # c /\ call'[d] = call[d] /\ call[d].at = "insert"
      BY <2>4, <2>5
    <3>2. call[d].user \in Users /\ call[d].user # u
      BY <2>1, <3>1, CallFacts DEF RequestOK, OneReplaces
    <3> QED BY <2>2, <3>1, <3>2 DEF Replacements, DataOK
  <2> QED BY <2>3, <2>5 DEF Replacements
<1> QED BY <1>1, <1>2, CodesWritten

(***************************************************************************)
(* Replacing recovery codes invalidates the old ones, so a user has one    *)
(* set of them - unless two requests are between the DELETE and the INSERT *)
(* of replace at once for one user, which nothing in the code prevents.    *)
(***************************************************************************)
THEOREM OneSetUnlessOverlapping == Spec /\ []OneReplaces => []OneSetOfCodes
<1>1. Init => TypeOK /\ Replacements
  BY TypeInit DEF Init, Replacements, OneSetOfCodes, Idle, Request
<1>2. TypeOK /\ Replacements /\ OneReplaces /\ [Next]_vars => TypeOK' /\ Replacements'
  BY TypeStep, ReplacementsStep
<1>3. Replacements => OneSetOfCodes
  BY DEF Replacements
<1> QED BY <1>1, <1>2, <1>3, PTL DEF Spec

\* No wizard makes a super admin of a user whose role is about to be written.
NoUpsertBetween ==
  [][\A c, d \in Calls : Upsert(c) /\ call[d].at = "role" => call[d].user # call[c].user]_vars

SuperStays == [][\A u \in Users : role[u] = "super" => role'[u] = "super"]_vars

\* Who is to have another role is no super admin.
NoneIsSuper == \A d \in Calls : call[d].at = "role" => role[call[d].user] # "super"

LEMMA RoleSteps ==
  ASSUME TypeOK, NoneIsSuper, [Next]_vars,
         \A c, d \in Calls : Upsert(c) /\ call[d].at = "role" => call[d].user # call[c].user
  PROVE  NoneIsSuper' /\ \A u \in Users : role[u] = "super" => role'[u] = "super"
<1> USE TypeParts
<1>1. \A u \in Users : role[u] = "super" => role'[u] = "super"
  <2>1. ASSUME NEW c \in Calls, RoleWrite(c) PROVE \A u \in Users : role[u] = "super" => role'[u] = "super"
    BY <2>1, CallFacts DEF RoleWrite, NoneIsSuper, DataOK, RequestOK
  <2>2. ASSUME NEW c \in Calls, Upsert(c) PROVE \A u \in Users : role[u] = "super" => role'[u] = "super"
    BY <2>2 DEF Upsert, DataOK
  <2>3. CASE UNCHANGED role
    BY <2>3
  <2> QED BY <2>1, <2>2, <2>3, NextSteps
          DEF vars, rows, Other, WizardStep, TokenStep, RoleStep, CreateInvite, DeleteInvite, Google,
              MakeToken, EidLoad, SendLoad, VerifyLoad, InitLoad, LoadPending, VerifyCode, EidSave,
              InitSave, InsertCodes, SendSave, VerifyCheck, VerifyRefused, VerifySave, DeleteCodes,
              MarkAccepted, Forget, MfaGet, MfaCount, MfaLoad, MfaRefuse, MfaCheck, MfaDrop, MfaReset,
              RoleRead, GiveUp
<1>2. ASSUME NEW d \in Calls, call'[d].at = "role" PROVE role'[call'[d].user] # "super"
  <2>1. CASE call'[d] = call[d]
    <3>1. call[d].at = "role" /\ call[d].user \in Users /\ role[call[d].user] # "super"
      BY <1>2, <2>1, CallFacts DEF NoneIsSuper, RequestOK
    <3>2. ASSUME NEW c \in Calls, RoleWrite(c) PROVE role'[call[d].user] # "super"
      BY <3>1, <3>2, CallFacts DEF RoleWrite, DataOK, RequestOK
    <3>3. ASSUME NEW c \in Calls, Upsert(c) PROVE role'[call[d].user] # "super"
      BY <3>1, <3>3 DEF Upsert, DataOK
    <3>4. CASE UNCHANGED role
      BY <2>1, <3>1, <3>4
    <3> QED BY <2>1, <3>2, <3>3, <3>4, NextSteps
            DEF vars, rows, Other, WizardStep, TokenStep, RoleStep, CreateInvite, DeleteInvite, Google,
                MakeToken, EidLoad, SendLoad, VerifyLoad, InitLoad, LoadPending, VerifyCode, EidSave,
                InitSave, InsertCodes, SendSave, VerifyCheck, VerifyRefused, VerifySave, DeleteCodes,
                MarkAccepted, Forget, MfaGet, MfaCount, MfaLoad, MfaRefuse, MfaCheck, MfaDrop, MfaReset,
                RoleRead, GiveUp
  <2>2. CASE DeleteCodes(d)
    BY <1>2, <2>2, CallFacts DEF DeleteCodes, Becomes, CallsOK, Requests
  <2>3. ASSUME NEW u \in Users, NEW r \in {"user", "admin"}, RoleRead(d, u, r)
        PROVE  role'[call'[d].user] # "super"
    <3>1. call'[d].user = u
      BY <2>3 DEF RoleRead, Becomes, CallsOK, Request
    <3> QED BY <2>3, <3>1 DEF RoleRead, rows
  <2> QED BY <1>2, <2>1, <2>2, <2>3, Arrivals
<1> QED BY <1>1, <1>2 DEF NoneIsSuper

(***************************************************************************)
(* A super admin keeps his role: updateRole refuses to touch it, and gets  *)
(* past its own check only when a wizard makes one of the user between the *)
(* check and the write.                                                    *)
(***************************************************************************)
THEOREM SuperStaysUnlessBetween == Spec /\ NoUpsertBetween => SuperStays
<1>1. Init => NoneIsSuper
  BY DEF Init, NoneIsSuper, Idle, Request
<1>2. TypeOK /\ NoneIsSuper /\ [Next]_vars
        /\ [\A c, d \in Calls : Upsert(c) /\ call[d].at = "role" => call[d].user # call[c].user]_vars
      => NoneIsSuper' /\ [\A u \in Users : role[u] = "super" => role'[u] = "super"]_vars
  <2>1. CASE UNCHANGED vars
    BY <2>1 DEF NoneIsSuper, vars, rows
  <2>2. CASE ~ UNCHANGED vars
    BY <2>2, RoleSteps
  <2> QED BY <2>1, <2>2
<1>3. Spec => []TypeOK
  BY TypeCorrect
<1> QED BY <1>1, <1>2, <1>3, PTL DEF Spec, NoUpsertBetween, SuperStays
==============================================================================
