------------------------------ MODULE OidcTokens ------------------------------
(***************************************************************************)
(* The token endpoint of the OIDC provider: an authorization code is       *)
(* exchanged for a pair of tokens, refresh tokens rotate, and what is      *)
(* presented a second time takes everything it paid for with it.           *)
(*                                                                         *)
(* Every repository call is a transaction of its own, so a token request   *)
(* is a process: it consumes the code or the refresh token in one step and *)
(* stores the new pair in a later one.  A pair is an access token and,     *)
(* when the scope asks for it, the refresh token stored with it.           *)
(* A row that has expired is refused and nothing changes, as if nobody had *)
(* presented it, so expiry needs no step of its own.                       *)
(***************************************************************************)
EXTENDS Integers, FiniteSets

CONSTANTS
  Users,      \* subjects
  Clients,    \* registered relying parties, enabled, with the code and refresh grants
  Codes,      \* ids of oauth_auth_codes rows
  Pairs,      \* ids of pairs of oauth_access_tokens and oauth_refresh_tokens rows
  Requests,   \* token requests in flight
  Scopes,     \* the scopes clients may ask for
  Offline,    \* offline_access
  NoPair,     \* no family, no parent
  MaxFaults   \* bound: failed statements, lost answers and crashes

ASSUME TokensAssumption == NoPair \notin Pairs /\ Offline \in Scopes /\ MaxFaults \in Nat

VARIABLES
  codes,      \* oauth_auth_codes: state, subject, client and granted scopes
  pairs,      \* what a pair was issued for: code, parent, scopes, family_id
  access,     \* the access tokens' state
  refresh,    \* the refresh tokens' state
  delivered,  \* pairs whose answer reached the client
  request,    \* what each token request is doing
  faults      \* faults so far

tokenVars == <<pairs, access, refresh, delivered, request>>
tokensVars == <<codes, tokenVars, faults>>

Code == [state : {"fresh", "used"}, user : Users, client : Clients,
         scopes : SUBSET Scopes]
Pair == [code : Codes, parent : Pairs \cup {NoPair}, scopes : SUBSET Scopes,
         family : Pairs \cup {NoPair}]

\* A request holds what it has consumed: a code, and the refresh token's pair, if it was one.
Working == [pc : {"issue", "reply", "revokeAll", "revokeFamily"}, code : Codes,
            pair : Pairs \cup {NoPair}, scopes : SUBSET Scopes]
Idle == [pc |-> "idle"]

Issued == {p \in Pairs : access[p] # "none"}
ClientOf(p) == codes[pairs[p].code].client
UserOf(p) == codes[pairs[p].code].user
FamilyOf(f) == {p \in Issued : pairs[p].family = f /\ f # NoPair}
OfSubjectClient(u, k) == {p \in Issued : UserOf(p) = u /\ ClientOf(p) = k}

\* Mutant: a refresh token is written where there was none.
RevokeUnissued(S) ==
  /\ access' = [p \in Pairs |-> IF p \in S THEN "revoked" ELSE access[p]]
  /\ refresh' = [p \in Pairs |-> IF p \in S THEN "revoked" ELSE refresh[p]]

\* revoked_at is stamped on the rows of these pairs.
Revoke(S) ==
  /\ access' = [p \in Pairs |-> IF p \in S THEN "revoked" ELSE access[p]]
  /\ refresh' = [p \in Pairs |-> IF p \in S /\ refresh[p] # "none" THEN "revoked" ELSE refresh[p]]

TokensInit ==
  /\ codes = [c \in Codes |-> [state |-> "none"]]
  /\ pairs = [p \in Pairs |-> [family |-> NoPair]]
  /\ access = [p \in Pairs |-> "none"]
  /\ refresh = [p \in Pairs |-> "none"]
  /\ delivered = {}
  /\ request = [r \in Requests |-> Idle]
  /\ faults = 0

----------------------------------------------------------------------------
\* Codes

\* createCode, for what the citizen consented to.
CreateCode(c, u, k, s) ==
  /\ codes[c].state = "none"
  /\ codes' = [codes EXCEPT ![c] = [state |-> "fresh", user |-> u, client |-> k, scopes |-> s]]

----------------------------------------------------------------------------
\* Token requests

Start(r, work) == request' = [request EXCEPT ![r] = work]
Finish(r) == request' = [request EXCEPT ![r] = Idle]

\* Mutant: used_at is not stamped.
SpendNoCode(c) == UNCHANGED codes
SpendCode(c) == codes' = [codes EXCEPT ![c].state = "used"]

\* consumeCode stamps used_at under the row lock; the client, the redirect_uri and the
\* code_verifier are compared afterwards, and a mismatch has spent the code.
Exchange(r, k, c, matches) ==
  /\ request[r].pc = "idle"
  /\ codes[c].state = "fresh"
  /\ SpendCode(c)
  /\ IF k = codes[c].client /\ matches
       THEN Start(r, [pc |-> "issue", code |-> c, pair |-> NoPair, scopes |-> codes[c].scopes])
       ELSE UNCHANGED request
  /\ UNCHANGED <<pairs, access, refresh, delivered, faults>>

\* A code that has been used comes again: whatever it is for is revoked next.
ExchangeAgain(r, c) ==
  /\ request[r].pc = "idle"
  /\ codes[c].state = "used"
  /\ Start(r, [pc |-> "revokeAll", code |-> c, pair |-> NoPair, scopes |-> {}])
  /\ UNCHANGED <<codes, pairs, access, refresh, delivered, faults>>

\* revokeForSubjectClient: which tokens the code has paid for is not recorded, so all
\* of the citizen's tokens for the client go.  An error is swallowed (GiveUp).
RevokeAll(r) ==
  LET c == request[r].code IN
  /\ request[r].pc = "revokeAll"
  /\ Revoke(OfSubjectClient(codes[c].user, codes[c].client))
  /\ Finish(r)
  /\ UNCHANGED <<codes, pairs, delivered, faults>>

\* Mutant: no scope in the request narrows nothing, and any scope is taken as asked.
NarrowedUnchecked(granted, asked) == IF asked = {} THEN granted ELSE asked

\* A refresh may narrow the scope, never widen it.
Narrowed(granted, asked) == IF asked = {} THEN granted ELSE granted \cap asked

\* Mutant: consumed_at is not stamped.
SpendNoRefresh(p) == UNCHANGED refresh
SpendRefresh(p) == refresh' = [refresh EXCEPT ![p] = "consumed"]

\* What a request does with the refresh token it has presented.
With(p, pc, scopes) == [pc |-> pc, code |-> pairs[p].code, pair |-> p, scopes |-> scopes]

\* consumeRefreshToken stamps consumed_at under the row lock; the client and the scope are
\* compared afterwards, and an empty scope has spent the token.
Refresh(r, k, p, asked) ==
  LET scopes == Narrowed(pairs[p].scopes, asked) IN
  /\ request[r].pc = "idle"
  /\ p \in delivered
  /\ refresh[p] = "live"
  /\ SpendRefresh(p)
  /\ \/ k # ClientOf(p) /\ Start(r, With(p, "revokeFamily", {}))
     \/ k = ClientOf(p) /\ scopes = {} /\ UNCHANGED request
     \/ k = ClientOf(p) /\ scopes # {} /\ Start(r, With(p, "issue", scopes))
  /\ UNCHANGED <<codes, pairs, access, delivered, faults>>

\* A token that was consumed or revoked comes again: its family is revoked next.
RefreshAgain(r, p) ==
  /\ request[r].pc = "idle"
  /\ p \in delivered
  /\ refresh[p] \in {"consumed", "revoked"}
  /\ Start(r, With(p, "revokeFamily", {}))
  /\ UNCHANGED <<codes, pairs, access, refresh, delivered, faults>>

\* revokeFamily: refresh and access tokens in one transaction.  An error is swallowed (GiveUp).
RevokeFamily(r) ==
  LET p == request[r].pair IN
  /\ request[r].pc = "revokeFamily"
  /\ Revoke(FamilyOf(pairs[p].family))
  /\ Finish(r)
  /\ UNCHANGED <<codes, pairs, delivered, faults>>

\* Mutant: a pair without a refresh token is stored without its family.
FamilyIfOffline(p, parent, scopes) ==
  IF Offline \notin scopes THEN NoPair
  ELSE IF parent = NoPair THEN p ELSE pairs[parent].family

\* The family continues, begins with this pair, or is empty when nothing will rotate.
FamilyFor(p, parent, scopes) ==
  IF parent # NoPair THEN pairs[parent].family
  ELSE IF Offline \in scopes THEN p ELSE NoPair

\* issue: storeTokens writes the access token and, with offline_access, the refresh token.
Issue(r, p) ==
  LET w == request[r] IN
  /\ w.pc = "issue"
  /\ access[p] = "none"
  /\ pairs' = [pairs EXCEPT ![p] = [code |-> w.code, parent |-> w.pair, scopes |-> w.scopes,
                                    family |-> FamilyFor(p, w.pair, w.scopes)]]
  /\ access' = [access EXCEPT ![p] = "live"]
  /\ refresh' = [refresh EXCEPT ![p] = IF Offline \in w.scopes THEN "live" ELSE "none"]
  /\ Start(r, [pc |-> "reply", code |-> w.code, pair |-> p, scopes |-> w.scopes])
  /\ UNCHANGED <<codes, delivered, faults>>

\* The id_token is minted and the answer sent.
Reply(r) ==
  /\ request[r].pc = "reply"
  /\ delivered' = delivered \cup {request[r].pair}
  /\ Finish(r)
  /\ UNCHANGED <<codes, pairs, access, refresh, faults>>

\* storeTokens, a revocation or mintIDToken fails, the answer is lost, or the process
\* stops: what has been consumed and stored stays.
GiveUp(r) ==
  /\ request[r].pc # "idle"
  /\ faults < MaxFaults
  /\ faults' = faults + 1
  /\ Finish(r)
  /\ UNCHANGED <<codes, pairs, access, refresh, delivered>>

----------------------------------------------------------------------------
\* revoke (RFC 7009), by the client the token belongs to

RevokeAccess(p) ==
  /\ p \in delivered
  /\ access[p] = "live"
  /\ access' = [access EXCEPT ![p] = "revoked"]
  /\ UNCHANGED <<codes, pairs, refresh, delivered, request, faults>>

\* A refresh token takes its whole family with it.
RevokeRefresh(p) ==
  /\ p \in delivered
  /\ refresh[p] # "none"
  /\ Revoke(FamilyOf(pairs[p].family))
  /\ UNCHANGED <<codes, pairs, delivered, request, faults>>

----------------------------------------------------------------------------
RequestStep(r) ==
  \/ \E k \in Clients, c \in Codes, matches \in BOOLEAN : Exchange(r, k, c, matches)
  \/ \E c \in Codes : ExchangeAgain(r, c)
  \/ \E k \in Clients, p \in Pairs, asked \in SUBSET Scopes : Refresh(r, k, p, asked)
  \/ \E p \in Pairs : RefreshAgain(r, p) \/ Issue(r, p)
  \/ RevokeAll(r) \/ RevokeFamily(r)
  \/ Reply(r)
  \/ GiveUp(r)

TokenStep ==
  \/ \E r \in Requests : RequestStep(r)
  \/ \E p \in Pairs : RevokeAccess(p) \/ RevokeRefresh(p)

\* The consent flow may create any code at any time.
ConsentStep ==
  /\ \E c \in Codes, u \in Users, k \in Clients, s \in (SUBSET Scopes) \ {{}} : CreateCode(c, u, k, s)
  /\ UNCHANGED <<tokenVars, faults>>

TokensNext == ConsentStep \/ TokenStep

TokensSpec == TokensInit /\ [][TokensNext]_tokensVars

----------------------------------------------------------------------------
\* Properties

TokensTypeOK ==
  /\ codes \in [Codes -> Code \cup {[state |-> "none"]}]
  /\ pairs \in [Pairs -> Pair \cup {[family |-> NoPair]}]
  /\ access \in [Pairs -> {"none", "live", "revoked"}]
  /\ refresh \in [Pairs -> {"none", "live", "consumed", "revoked"}]
  /\ \A p \in Issued : pairs[p] \in Pair
  /\ \A p \in Pairs : refresh[p] # "none" =>
       p \in Issued /\ Offline \in pairs[p].scopes /\ pairs[p].family # NoPair
  /\ delivered \subseteq Issued
  /\ request \in [Requests -> Working \cup {Idle}]
  /\ \A r \in Requests : request[r].pc \in {"reply", "revokeFamily"} => request[r].pair \in Issued
  /\ faults \in Nat

(***************************************************************************)
(* A code, and a refresh token, pays for one pair of tokens at most,       *)
(* however many requests present it at the same time: the pairs of a code  *)
(* are a chain.                                                            *)
(***************************************************************************)
SpentOnce ==
  \A p, q \in Issued :
    p # q => <<pairs[p].code, pairs[p].parent>> # <<pairs[q].code, pairs[q].parent>>

(***************************************************************************)
(* Rotation: of all the refresh tokens that descend from one code at most  *)
(* one can still be used.                                                  *)
(***************************************************************************)
OneLiveRefresh ==
  \A p, q \in Pairs :
    (refresh[p] = "live" /\ refresh[q] = "live" /\ pairs[p].code = pairs[q].code) => p = q

(***************************************************************************)
(* However often a grant is refreshed, and whatever scope each refresh     *)
(* asked for, a token never carries a scope its citizen did not grant, nor *)
(* one that an earlier refresh gave up.                                    *)
(***************************************************************************)
ScopesOnlyNarrow ==
  \A p \in Issued :
    /\ pairs[p].scopes \subseteq codes[pairs[p].code].scopes
    /\ pairs[p].parent # NoPair => pairs[p].scopes \subseteq pairs[pairs[p].parent].scopes

(***************************************************************************)
(* A revocation that reaches one refresh token of a grant reaches every    *)
(* token stored for that grant by then, access tokens that came without a  *)
(* refresh token included: family_id follows the chain all the way down.   *)
(***************************************************************************)
RevokedTogether ==
  [][\A p \in Issued :
       refresh[p] # "revoked" /\ refresh'[p] = "revoked"
         => \A q \in Issued : pairs[q].code = pairs[p].code
              => access'[q] = "revoked" /\ refresh'[q] \in {"none", "revoked"}]_tokensVars
==============================================================================
