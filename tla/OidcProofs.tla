------------------------------ MODULE OidcProofs ------------------------------
(***************************************************************************)
(* Proofs about the OIDC provider: for any number of browsers, codes,      *)
(* requests and tokens, a code and a refresh token pay for one pair of     *)
(* tokens, a grant has one refresh token that can be used, its scopes only *)
(* narrow, and it is revoked as a whole.                                   *)
(***************************************************************************)
EXTENDS Oidc, TLAPS

USE TokensAssumption

----------------------------------------------------------------------------
\* The inductive invariant

(***************************************************************************)
(* The right to the next pair of a code is in one place: in the code       *)
(* itself, in a request that has consumed something and not stored yet, or *)
(* in a refresh token.  Whoever holds it holds what no pair was paid with. *)
(***************************************************************************)
Live(p) == refresh[p] = "live"
Issuing(r) == request[r].pc = "issue"
NoChild(c, p) == \A q \in Issued : ~(pairs[q].code = c /\ pairs[q].parent = p)

\* What has not been consumed has paid for nothing.
Unspent == \A c \in Codes : codes[c].state # "used" =>
             /\ \A p \in Issued : pairs[p].code # c
             /\ \A r \in Requests : Issuing(r) => request[r].code # c
IssuingUnpaid == \A r \in Requests : Issuing(r) => NoChild(request[r].code, request[r].pair)
IssuingFirst == \A r \in Requests : (Issuing(r) /\ request[r].pair = NoPair) =>
                  \A p \in Issued : pairs[p].code # request[r].code
LiveUnpaid == \A p \in Pairs : Live(p) => NoChild(pairs[p].code, p)

\* One holder at a time.
OneIssuing == \A r, v \in Requests :
                (Issuing(r) /\ Issuing(v) /\ request[r].code = request[v].code) => r = v
IssuingOrLive == \A r \in Requests, p \in Pairs :
                   (Issuing(r) /\ Live(p)) => pairs[p].code # request[r].code

\* What a request holds comes from its code and from the pair it has consumed.
IssuingFrom == \A r \in Requests : Issuing(r) =>
                 IF request[r].pair = NoPair
                 THEN request[r].scopes \subseteq codes[request[r].code].scopes
                 ELSE /\ request[r].pair \in Issued /\ refresh[request[r].pair] # "none"
                      /\ pairs[request[r].pair].code = request[r].code
                      /\ request[r].scopes \subseteq pairs[request[r].pair].scopes

\* The pairs of a code are a chain, in one family.
Parents == \A p \in Issued : pairs[p].parent # NoPair =>
             pairs[p].parent \in Issued /\ pairs[pairs[p].parent].code = pairs[p].code
OneFamily == \A p, q \in Issued :
               pairs[p].code = pairs[q].code => pairs[p].family = pairs[q].family

Baton == /\ Unspent /\ IssuingUnpaid /\ IssuingFirst /\ LiveUnpaid
         /\ OneIssuing /\ IssuingOrLive /\ OneLiveRefresh
         /\ IssuingFrom /\ Parents /\ OneFamily /\ SpentOnce /\ ScopesOnlyNarrow

Inv == TokensTypeOK /\ Baton

----------------------------------------------------------------------------
\* Types

LEMMA InitType == TokensInit => TokensTypeOK
  BY DEF TokensInit, TokensTypeOK, Idle, Issued

\* What a revocation does to the types.
LEMMA RevokeType ==
  ASSUME TokensTypeOK, NEW S \in SUBSET Pairs, S \subseteq Issued, Revoke(S)
  PROVE  /\ access' \in [Pairs -> {"none", "live", "revoked"}]
         /\ refresh' \in [Pairs -> {"none", "live", "consumed", "revoked"}]
         /\ Issued' = Issued
         /\ \A p \in Pairs : refresh[p] = "none" <=> refresh'[p] = "none"
         /\ \A p \in Pairs : refresh'[p] = "live" => refresh[p] = "live"
  BY DEF TokensTypeOK, Revoke, Issued

LEMMA ConsentType == ASSUME TokensTypeOK, ConsentStep PROVE TokensTypeOK'
  BY DEF TokensTypeOK, ConsentStep, CreateCode, Code, tokenVars, Issued

LEMMA FinishType ==
  ASSUME TokensTypeOK, NEW r \in Requests, Finish(r)
  PROVE  /\ request' \in [Requests -> Working \cup {Idle}]
         /\ \A v \in Requests : request'[v].pc # "idle" => request'[v] = request[v]
  BY DEF TokensTypeOK, Finish, Idle

LEMMA RequestType ==
  ASSUME TokensTypeOK, NEW r \in Requests, request[r].pc # "idle"
  PROVE  request[r] \in Working
  BY DEF TokensTypeOK, Idle

LEMMA ExchangeType ==
  ASSUME TokensTypeOK, NEW r \in Requests, NEW k \in Clients, NEW c \in Codes,
         NEW matches \in BOOLEAN, Exchange(r, k, c, matches)
  PROVE  TokensTypeOK'
  <1>1. codes[c] \in Code
    BY DEF TokensTypeOK, Exchange
  <1>2. codes' \in [Codes -> Code \cup {[state |-> "none"]}]
    BY <1>1 DEF TokensTypeOK, Exchange, SpendCode, Code
  <1>3. [pc |-> "issue", code |-> c, pair |-> NoPair, scopes |-> codes[c].scopes] \in Working
    BY <1>1 DEF Working, Code
  <1>4. request' \in [Requests -> Working \cup {Idle}]
    BY <1>3 DEF TokensTypeOK, Exchange, Start
  <1>5. \A v \in Requests : request'[v] # request[v] => request'[v].pc = "issue"
    BY DEF TokensTypeOK, Exchange, Start
  <1> QED
    BY <1>2, <1>4, <1>5 DEF TokensTypeOK, Exchange, Issued

LEMMA RefreshType ==
  ASSUME TokensTypeOK, NEW r \in Requests, NEW k \in Clients, NEW p \in Pairs,
         NEW asked \in SUBSET Scopes, Refresh(r, k, p, asked)
  PROVE  TokensTypeOK'
  <1>1. p \in Issued /\ pairs[p] \in Pair
    BY DEF TokensTypeOK, Refresh
  <1> DEFINE scopes == Narrowed(pairs[p].scopes, asked)
  <1>2. scopes \in SUBSET Scopes
    BY <1>1 DEF Narrowed, Pair
  <1>3. With(p, "issue", scopes) \in Working /\ With(p, "revokeFamily", {}) \in Working
    BY <1>1, <1>2 DEF With, Working, Pair
  <1>4. request' \in [Requests -> Working \cup {Idle}]
    <2>1. \/ request' = request
          \/ request' = [request EXCEPT ![r] = With(p, "issue", scopes)]
          \/ request' = [request EXCEPT ![r] = With(p, "revokeFamily", {})]
      BY DEF Refresh, Start
    <2> QED
      BY <2>1, <1>3 DEF TokensTypeOK
  <1>5. refresh' = [refresh EXCEPT ![p] = "consumed"] /\ refresh[p] = "live"
    BY DEF Refresh, SpendRefresh
  <1>6. \A v \in Requests : request'[v] # request[v] => request'[v].pair = p
    BY DEF Refresh, Start, With, TokensTypeOK
  <1>7. UNCHANGED <<codes, pairs, access, delivered, faults>>
    BY DEF Refresh
  <1> QED
    BY <1>1, <1>4, <1>5, <1>7, <1>6 DEF TokensTypeOK, Issued

LEMMA IssueType ==
  ASSUME TokensTypeOK, NEW r \in Requests, NEW p \in Pairs, Issue(r, p),
         request[r].pair # NoPair => request[r].pair \in Issued,
         request[r].pair # NoPair => pairs[request[r].pair].family # NoPair
  PROVE  TokensTypeOK'
  <1> DEFINE w == request[r]
             f == FamilyFor(p, w.pair, w.scopes)
             row == [code |-> w.code, parent |-> w.pair, scopes |-> w.scopes, family |-> f]
  <1>1. w \in Working
    BY RequestType DEF Issue
  <1>2. w.code \in Codes /\ w.pair \in Pairs \cup {NoPair} /\ w.scopes \in SUBSET Scopes
    BY <1>1 DEF Working
  <1>3. f \in Pairs \cup {NoPair} /\ (Offline \in w.scopes => f # NoPair)
    BY <1>2 DEF FamilyFor, TokensTypeOK, Pair
  <1>4. row \in Pair
    BY <1>2, <1>3 DEF Pair
  <1>5. [pc |-> "reply", code |-> w.code, pair |-> p, scopes |-> w.scopes] \in Working
    BY <1>2 DEF Working
  <1> HIDE DEF w
  <1>6. request' \in [Requests -> Working \cup {Idle}]
    BY <1>5 DEF Issue, Start, TokensTypeOK, w
  <1>7. \A v \in Requests : request'[v] # request[v] => request'[v].pair = p
    BY DEF Issue, Start, TokensTypeOK
  <1> HIDE DEF f
  <1>8. pairs' = [pairs EXCEPT ![p] = row] /\ access' = [access EXCEPT ![p] = "live"]
    BY DEF Issue, w, f
  <1>9. refresh' = [refresh EXCEPT ![p] = IF Offline \in w.scopes THEN "live" ELSE "none"]
    BY DEF Issue, w
  <1>10. access[p] = "none" /\ UNCHANGED <<codes, delivered, faults>>
    BY DEF Issue
  <1>11. Issued' = Issued \cup {p}
    BY <1>8 DEF Issued, TokensTypeOK
  <1>12. pairs' \in [Pairs -> Pair \cup {[family |-> NoPair]}] /\ \A q \in Issued' : pairs'[q] \in Pair
    BY <1>4, <1>8, <1>11 DEF TokensTypeOK
  <1>13. \A q \in Pairs : refresh'[q] # "none" =>
           q \in Issued' /\ Offline \in pairs'[q].scopes /\ pairs'[q].family # NoPair
    BY <1>3, <1>8, <1>9, <1>11 DEF TokensTypeOK
  <1> QED
    BY <1>6, <1>8, <1>9, <1>10, <1>11, <1>12, <1>13, <1>7 DEF TokensTypeOK

----------------------------------------------------------------------------
\* The baton

LEMMA InitInv == TokensInit => Inv
  <1> SUFFICES ASSUME TokensInit PROVE Inv
    OBVIOUS
  <1>1. Issued = {} /\ \A p \in Pairs : ~Live(p)
    BY DEF TokensInit, Issued, Live
  <1>2. \A r \in Requests : ~Issuing(r)
    BY DEF TokensInit, Issuing, Idle
  <1> QED
    BY <1>1, <1>2, InitType
    DEF Inv, Baton, Unspent, IssuingUnpaid, IssuingFirst, LiveUnpaid, OneIssuing, IssuingOrLive,
        OneLiveRefresh, IssuingFrom, Parents, OneFamily, SpentOnce, ScopesOnlyNarrow, Live

\* A step that stores nothing, lets no request consume anything and makes no refresh token
\* live again leaves the baton where it is.
LEMMA QuietBaton ==
  ASSUME Inv, TokensTypeOK', pairs' = pairs, Issued' = Issued,
         \A c \in Codes : codes'[c].state # "used" => codes[c].state # "used",
         \A c \in Codes : codes[c].state = "used" => codes'[c].scopes = codes[c].scopes,
         \A p \in Pairs : refresh[p] = "none" <=> refresh'[p] = "none",
         \A p \in Pairs : Live(p)' => Live(p),
         \A r \in Requests : Issuing(r)' => request'[r] = request[r]
  PROVE  Baton'
  <1> USE DEF Inv
  <1>1. \A r \in Requests : Issuing(r)' => Issuing(r) /\ request[r] \in Working
    BY RequestType DEF Issuing
  <1>2. Unspent'
    BY <1>1 DEF Baton, Unspent
  <1>3. (IssuingUnpaid /\ IssuingFirst /\ LiveUnpaid)'
    BY <1>1 DEF Baton, IssuingUnpaid, IssuingFirst, LiveUnpaid, NoChild
  <1>4. (OneIssuing /\ IssuingOrLive)'
    BY <1>1 DEF Baton, OneIssuing, IssuingOrLive
  <1>5. OneLiveRefresh'
    BY DEF Baton, OneLiveRefresh, Live
  <1>6. IssuingFrom'
    <2> SUFFICES ASSUME NEW r \in Requests, Issuing(r)'
                 PROVE  IF request[r].pair = NoPair
                        THEN request[r].scopes \subseteq codes'[request[r].code].scopes
                        ELSE /\ request[r].pair \in Issued /\ refresh'[request[r].pair] # "none"
                             /\ pairs[request[r].pair].code = request[r].code
                             /\ request[r].scopes \subseteq pairs[request[r].pair].scopes
      BY DEF IssuingFrom
    <2>1. Issuing(r) /\ request[r].code \in Codes
      BY <1>1 DEF Working
    <2>2. codes'[request[r].code].scopes = codes[request[r].code].scopes
      BY <2>1 DEF Baton, Unspent
    <2> QED
      BY <2>1, <2>2 DEF Baton, IssuingFrom, Issued
  <1>7. (Parents /\ OneFamily /\ SpentOnce)'
    BY DEF Baton, Parents, OneFamily, SpentOnce
  <1>8. \A p \in Issued : codes'[pairs[p].code].scopes = codes[pairs[p].code].scopes
    BY DEF Baton, Unspent, TokensTypeOK, Pair
  <1>9. ScopesOnlyNarrow'
    BY <1>8 DEF Baton, ScopesOnlyNarrow
  <1> QED
    BY <1>2, <1>3, <1>4, <1>5, <1>6, <1>7, <1>9 DEF Baton

\* An exchange moves the baton from a fresh code into a request.
LEMMA ExchangeBaton ==
  ASSUME Inv, TokensTypeOK', NEW r \in Requests, NEW k \in Clients, NEW c \in Codes,
         NEW matches \in BOOLEAN, Exchange(r, k, c, matches)
  PROVE  Baton'
  <1> USE DEF Inv
  <1>1. /\ codes[c] \in Code /\ codes[c].state = "fresh"
        /\ codes' = [codes EXCEPT ![c].state = "used"]
        /\ UNCHANGED <<pairs, access, refresh>>
    BY DEF TokensTypeOK, Exchange, SpendCode
  <1>2. /\ codes'[c].state = "used" /\ codes'[c].scopes = codes[c].scopes
        /\ \A d \in Codes : d # c => codes'[d] = codes[d]
    BY <1>1 DEF TokensTypeOK, Code
  <1>3. UNCHANGED Issued /\ \A p \in Pairs : Live(p)' <=> Live(p)
    BY <1>1 DEF Issued, Live
  <1>4. CASE UNCHANGED request
    BY <1>1, <1>2, <1>3, <1>4, QuietBaton
  <1>5. CASE Start(r, [pc |-> "issue", code |-> c, pair |-> NoPair, scopes |-> codes[c].scopes])
    <2>1. /\ request'[r].code = c /\ request'[r].pair = NoPair
          /\ request'[r].scopes = codes[c].scopes
          /\ \A v \in Requests : v # r => request'[v] = request[v]
      BY <1>5 DEF Start, TokensTypeOK
    <2>2. /\ \A p \in Issued : pairs[p].code # c
          /\ \A v \in Requests : Issuing(v) => request[v].code # c
      BY <1>1 DEF Baton, Unspent
    <2>3. \A p \in Pairs : Live(p) => p \in Issued
      BY DEF Live, TokensTypeOK
    <2>4. \A v \in Requests : v # r => (Issuing(v)' <=> Issuing(v))
      BY <2>1 DEF Issuing
    <2>5. Unspent'
      BY <1>1, <1>2, <1>3, <2>1, <2>4 DEF Baton, Unspent
    <2>6. (IssuingUnpaid /\ IssuingFirst /\ LiveUnpaid)'
      BY <1>1, <1>3, <2>1, <2>2, <2>4 DEF Baton, IssuingUnpaid, IssuingFirst, LiveUnpaid, NoChild
    <2>7. (OneIssuing /\ IssuingOrLive)'
      BY <1>1, <1>3, <2>1, <2>2, <2>3, <2>4 DEF Baton, OneIssuing, IssuingOrLive
    <2>8. IssuingFrom'
      <3> SUFFICES ASSUME NEW v \in Requests, Issuing(v)', v # r
                   PROVE  IF request[v].pair = NoPair
                          THEN request[v].scopes \subseteq codes'[request[v].code].scopes
                          ELSE /\ request[v].pair \in Issued /\ refresh[request[v].pair] # "none"
                               /\ pairs[request[v].pair].code = request[v].code
                               /\ request[v].scopes \subseteq pairs[request[v].pair].scopes
        BY <1>1, <1>2, <1>3, <2>1 DEF IssuingFrom
      <3>1. Issuing(v) /\ request[v] \in Working
        BY <2>4, RequestType DEF Issuing
      <3>2. codes'[request[v].code] = codes[request[v].code]
        BY <3>1, <1>2, <2>2 DEF Working
      <3> QED
        BY <3>1, <3>2 DEF Baton, IssuingFrom
    <2>9. (OneLiveRefresh /\ Parents /\ OneFamily /\ SpentOnce)'
      BY <1>1, <1>3 DEF Baton, OneLiveRefresh, Parents, OneFamily, SpentOnce
    <2>10. ScopesOnlyNarrow'
      BY <1>1, <1>2, <1>3, <2>2 DEF Baton, ScopesOnlyNarrow, TokensTypeOK, Pair
    <2> QED
      BY <2>5, <2>6, <2>7, <2>8, <2>9, <2>10 DEF Baton
  <1> QED
    BY <1>4, <1>5 DEF Exchange

\* A refresh moves it from a refresh token into a request.
LEMMA RefreshBaton ==
  ASSUME Inv, TokensTypeOK', NEW r \in Requests, NEW k \in Clients, NEW p \in Pairs,
         NEW asked \in SUBSET Scopes, Refresh(r, k, p, asked)
  PROVE  Baton'
  <1> USE DEF Inv
  <1> DEFINE scopes == Narrowed(pairs[p].scopes, asked)
  <1>1. /\ refresh[p] = "live" /\ refresh' = [refresh EXCEPT ![p] = "consumed"]
        /\ UNCHANGED <<codes, pairs, access>>
    BY DEF Refresh, SpendRefresh
  <1>2. p \in Issued /\ pairs[p] \in Pair /\ scopes \subseteq pairs[p].scopes
    BY DEF TokensTypeOK, Refresh, Narrowed
  <1>3. /\ UNCHANGED Issued /\ ~Live(p)'
        /\ \A q \in Pairs : q # p => refresh'[q] = refresh[q]
        /\ \A q \in Pairs : Live(q)' => Live(q)
        /\ \A q \in Pairs : refresh[q] = "none" <=> refresh'[q] = "none"
    BY <1>1 DEF Issued, Live, TokensTypeOK
  <1> HIDE DEF scopes
  <1>4. CASE UNCHANGED request
    BY <1>1, <1>3, <1>4, QuietBaton
  <1>5. CASE Start(r, With(p, "revokeFamily", {}))
    <2>1. \A v \in Requests : Issuing(v)' => request'[v] = request[v]
      BY <1>5 DEF Start, With, TokensTypeOK, Issuing
    <2> QED
      BY <2>1, <1>1, <1>3, QuietBaton
  <1>6. CASE Start(r, With(p, "issue", scopes))
    <2>1. /\ request'[r].code = pairs[p].code /\ request'[r].pair = p
          /\ request'[r].scopes = scopes
          /\ \A v \in Requests : v # r => request'[v] = request[v]
      BY <1>6 DEF Start, With, TokensTypeOK
    <2>2. /\ Live(p) /\ NoChild(pairs[p].code, p)
          /\ \A v \in Requests : Issuing(v) => request[v].code # pairs[p].code
          /\ \A q \in Pairs : Live(q)' => pairs[q].code # pairs[p].code
          /\ codes[pairs[p].code].state = "used" /\ p # NoPair
      BY <1>1, <1>2, <1>3 DEF Baton, LiveUnpaid, IssuingOrLive, OneLiveRefresh, Unspent, Live, Pair
    <2>3. \A v \in Requests : v # r => (Issuing(v)' <=> Issuing(v))
      BY <2>1 DEF Issuing
    <2>4. Unspent'
      BY <1>1, <1>3, <2>1, <2>2, <2>3 DEF Baton, Unspent
    <2>5. (IssuingUnpaid /\ IssuingFirst /\ LiveUnpaid)'
      BY <1>1, <1>3, <2>1, <2>2, <2>3 DEF Baton, IssuingUnpaid, IssuingFirst, LiveUnpaid, NoChild
    <2>6. (OneIssuing /\ IssuingOrLive)'
      BY <1>1, <1>3, <2>1, <2>2, <2>3 DEF Baton, OneIssuing, IssuingOrLive
    <2>7. IssuingFrom'
      BY <1>1, <1>2, <1>3, <2>1, <2>2, <2>3 DEF Baton, IssuingFrom, Issued
    <2>8. OneLiveRefresh'
      BY <1>1, <1>3 DEF Baton, OneLiveRefresh, Live
    <2>9. (Parents /\ OneFamily /\ SpentOnce /\ ScopesOnlyNarrow)'
      BY <1>1, <1>3 DEF Baton, Parents, OneFamily, SpentOnce, ScopesOnlyNarrow
    <2> QED
      BY <2>4, <2>5, <2>6, <2>7, <2>8, <2>9 DEF Baton
  <1> QED
    BY <1>4, <1>5, <1>6 DEF Refresh, scopes

\* Issue moves it from the request into the new refresh token, or ends the chain.
LEMMA IssueBaton ==
  ASSUME Inv, NEW r \in Requests, NEW p \in Pairs, Issue(r, p)
  PROVE  TokensTypeOK' /\ Baton'
  <1> USE DEF Inv
  <1> DEFINE w == request[r]
             row == [code |-> w.code, parent |-> w.pair, scopes |-> w.scopes,
                     family |-> FamilyFor(p, w.pair, w.scopes)]
  <1>1. /\ w \in Working /\ w.code \in Codes /\ Issuing(r) /\ access[p] = "none"
        /\ w.pair \in Pairs \cup {NoPair}
    BY RequestType DEF Issue, Issuing, Working
  <1>2. /\ NoChild(w.code, w.pair) /\ codes[w.code].state = "used"
        /\ w.pair = NoPair => \A q \in Issued : pairs[q].code # w.code
        /\ IF w.pair = NoPair
           THEN w.scopes \subseteq codes[w.code].scopes
           ELSE /\ w.pair \in Issued /\ refresh[w.pair] # "none"
                /\ pairs[w.pair].code = w.code /\ w.scopes \subseteq pairs[w.pair].scopes
        /\ \A q \in Pairs : Live(q) => pairs[q].code # w.code
        /\ \A v \in Requests : Issuing(v) /\ v # r => request[v].code # w.code
    BY <1>1 DEF Baton, IssuingUnpaid, Unspent, IssuingFirst, IssuingFrom, IssuingOrLive, OneIssuing
  <1>3. w.pair # NoPair => pairs[w.pair].family # NoPair
    BY <1>1, <1>2 DEF TokensTypeOK
  <1>4. TokensTypeOK'
    BY <1>2, <1>3, IssueType
  <1>5. /\ pairs' = [pairs EXCEPT ![p] = row] /\ access' = [access EXCEPT ![p] = "live"]
        /\ refresh' = [refresh EXCEPT ![p] = IF Offline \in w.scopes THEN "live" ELSE "none"]
        /\ UNCHANGED codes
    BY DEF Issue
  <1>6. request' = [request EXCEPT ![r] =
          [pc |-> "reply", code |-> w.code, pair |-> p, scopes |-> w.scopes]]
    BY DEF Issue, Start
  <1>7. \A v \in Requests : Issuing(v)' => v # r /\ Issuing(v) /\ request'[v] = request[v]
    BY <1>6 DEF Issuing, TokensTypeOK
  <1>8. /\ Issued' = Issued \cup {p} /\ p \notin Issued /\ p # NoPair
        /\ \A q \in Pairs : Live(q) => q \in Issued
    BY <1>1, <1>5 DEF Issued, TokensTypeOK, Live
  <1>9. /\ pairs'[p].code = w.code /\ pairs'[p].parent = w.pair /\ pairs'[p].scopes = w.scopes
        /\ pairs'[p].family = FamilyFor(p, w.pair, w.scopes)
        /\ \A q \in Pairs : q # p => pairs'[q] = pairs[q] /\ refresh'[q] = refresh[q]
    BY <1>5 DEF TokensTypeOK
  <1>10. w.pair # p
    BY <1>2, <1>8
  <1>11. \A q \in Issued : pairs[q].parent # p
    BY <1>8 DEF Baton, Parents
  <1>12. \A v \in Requests : Issuing(v)' => request[v].code # w.code /\ request[v].pair # p
    BY <1>2, <1>7, <1>8 DEF Baton, IssuingFrom
  <1> HIDE DEF w, row
  <1>13. Unspent'
    BY <1>2, <1>5, <1>7, <1>8, <1>9 DEF Baton, Unspent, Issued
  <1>14. (IssuingUnpaid /\ IssuingFirst)'
    BY <1>7, <1>8, <1>9, <1>12 DEF Baton, IssuingUnpaid, IssuingFirst, NoChild, Issued
  <1>15. LiveUnpaid'
    <2> SUFFICES ASSUME NEW q \in Pairs, Live(q)', NEW x \in Issued',
                        pairs'[x].code = pairs'[q].code, pairs'[x].parent = q
                 PROVE  FALSE
      BY DEF LiveUnpaid, NoChild
    <2>1. CASE q = p
      BY <2>1, <1>8, <1>9, <1>10, <1>11 DEF Issued
    <2>2. CASE q # p
      BY <2>2, <1>2, <1>8, <1>9 DEF Baton, LiveUnpaid, NoChild, Live, Issued
    <2> QED
      BY <2>1, <2>2
  <1>16. OneIssuing'
    BY <1>7 DEF Baton, OneIssuing
  <1>17. IssuingOrLive'
    BY <1>7, <1>9, <1>12 DEF Baton, IssuingOrLive, Live
  <1>18. OneLiveRefresh'
    BY <1>2, <1>9 DEF Baton, OneLiveRefresh, Live
  <1>19. IssuingFrom'
    BY <1>5, <1>7, <1>8, <1>9, <1>12 DEF Baton, IssuingFrom, Issued
  <1>20. Parents'
    BY <1>2, <1>8, <1>9, <1>10, <1>11 DEF Baton, Parents, Issued
  <1>21. OneFamily'
    <2>1. \A q \in Issued : pairs[q].code = w.code => pairs[q].family = FamilyFor(p, w.pair, w.scopes)
      BY <1>2 DEF FamilyFor, Baton, OneFamily
    <2> QED
      BY <2>1, <1>8, <1>9 DEF Baton, OneFamily, Issued
  <1>22. SpentOnce'
    BY <1>2, <1>8, <1>9 DEF Baton, SpentOnce, NoChild, Issued
  <1>23. ScopesOnlyNarrow'
    BY <1>2, <1>5, <1>8, <1>9, <1>10, <1>11 DEF Baton, ScopesOnlyNarrow, Issued
  <1> QED
    BY <1>4, <1>13, <1>14, <1>15, <1>16, <1>17, <1>18, <1>19, <1>20, <1>21, <1>22, <1>23 DEF Baton

----------------------------------------------------------------------------
\* The other steps are quiet

LEMMA ConsentInv == ASSUME Inv, ConsentStep PROVE Inv'
  <1>1. TokensTypeOK'
    BY ConsentType DEF Inv
  <1>2. PICK c \in Codes, u \in Users, k \in Clients, s \in (SUBSET Scopes) \ {{}} : CreateCode(c, u, k, s)
    BY DEF ConsentStep
  <1>3. \A d \in Codes : d # c => codes'[d] = codes[d]
    BY <1>2 DEF CreateCode, Inv, TokensTypeOK
  <1>4. UNCHANGED <<pairs, access, refresh, request>>
    BY DEF ConsentStep, tokenVars
  <1> QED
    BY <1>1, <1>2, <1>3, <1>4, QuietBaton DEF Inv, CreateCode, Issued, Live

\* A revocation stamps rows that exist.
LEMMA RevocationsReach ==
  ASSUME NEW f, NEW u, NEW k
  PROVE  /\ FamilyOf(f) \in SUBSET Pairs /\ FamilyOf(f) \subseteq Issued
         /\ OfSubjectClient(u, k) \in SUBSET Pairs /\ OfSubjectClient(u, k) \subseteq Issued
  BY DEF FamilyOf, OfSubjectClient, Issued

\* A step that consumes and stores nothing: it may revoke, and begin or end a request.
LEMMA RevocationInv ==
  ASSUME Inv, TokensTypeOK', UNCHANGED <<codes, pairs>>,
         NEW S \in SUBSET Pairs, S \subseteq Issued, Revoke(S),
         \A r \in Requests : Issuing(r)' => request'[r] = request[r]
  PROVE  Inv'
  <1>1. /\ Issued' = Issued
        /\ \A p \in Pairs : refresh[p] = "none" <=> refresh'[p] = "none"
        /\ \A p \in Pairs : refresh'[p] = "live" => refresh[p] = "live"
    BY RevokeType DEF Inv
  <1> QED
    BY <1>1, QuietBaton DEF Inv, Live

LEMMA FinishQuiet ==
  ASSUME TokensTypeOK, NEW r \in Requests, Finish(r)
  PROVE  \A v \in Requests : Issuing(v)' => request'[v] = request[v]
  BY DEF TokensTypeOK, Finish, Issuing, Idle

LEMMA ExchangeAgainInv ==
  ASSUME Inv, NEW r \in Requests, NEW c \in Codes, ExchangeAgain(r, c) PROVE Inv'
  <1> DEFINE work == [pc |-> "revokeAll", code |-> c, pair |-> NoPair, scopes |-> {}]
  <1>1. work \in Working
    BY DEF Working
  <1>2. request' = [request EXCEPT ![r] = work] /\ UNCHANGED <<codes, pairs, access, refresh>>
    BY DEF ExchangeAgain, Start
  <1>3. TokensTypeOK'
    BY <1>1, <1>2 DEF ExchangeAgain, Inv, TokensTypeOK, Issued
  <1>4. \A v \in Requests : Issuing(v)' => request'[v] = request[v]
    BY <1>2 DEF Issuing, Inv, TokensTypeOK
  <1> QED
    BY <1>2, <1>3, <1>4, QuietBaton DEF Inv, Issued, Live

LEMMA RefreshAgainInv ==
  ASSUME Inv, NEW r \in Requests, NEW p \in Pairs, RefreshAgain(r, p) PROVE Inv'
  <1>1. With(p, "revokeFamily", {}) \in Working
    BY DEF RefreshAgain, Inv, TokensTypeOK, Working, With, Pair
  <1>2. /\ request' = [request EXCEPT ![r] = With(p, "revokeFamily", {})]
        /\ UNCHANGED <<codes, pairs, access, refresh>>
    BY DEF RefreshAgain, Start
  <1>3. \A v \in Requests : request'[v] # request[v] => request'[v].pair = p
    BY <1>2 DEF With, Inv, TokensTypeOK
  <1>4. TokensTypeOK'
    BY <1>1, <1>2, <1>3 DEF RefreshAgain, Inv, TokensTypeOK, Issued
  <1>5. \A v \in Requests : Issuing(v)' => request'[v] = request[v]
    BY <1>2 DEF Issuing, Inv, TokensTypeOK, With
  <1> QED
    BY <1>2, <1>4, <1>5, QuietBaton DEF Inv, Issued, Live

LEMMA ReplyInv == ASSUME Inv, NEW r \in Requests, Reply(r) PROVE Inv'
  <1>1. TokensTypeOK'
    <2>1. /\ request' \in [Requests -> Working \cup {Idle}]
          /\ \A v \in Requests : request'[v].pc # "idle" => request'[v] = request[v]
      BY FinishType DEF Reply, Inv
    <2> QED
      BY <2>1 DEF Reply, Inv, TokensTypeOK, Issued
  <1> QED
    BY <1>1, FinishQuiet, QuietBaton DEF Inv, Reply, Issued, Live

LEMMA GiveUpInv == ASSUME Inv, NEW r \in Requests, GiveUp(r) PROVE Inv'
  <1>1. TokensTypeOK'
    <2>1. /\ request' \in [Requests -> Working \cup {Idle}]
          /\ \A v \in Requests : request'[v].pc # "idle" => request'[v] = request[v]
      BY FinishType DEF GiveUp, Inv
    <2> QED
      BY <2>1 DEF GiveUp, Inv, TokensTypeOK, Issued
  <1> QED
    BY <1>1, FinishQuiet, QuietBaton DEF Inv, GiveUp, Issued, Live

LEMMA RevokeAllInv == ASSUME Inv, NEW r \in Requests, RevokeAll(r) PROVE Inv'
  <1> DEFINE S == OfSubjectClient(codes[request[r].code].user, codes[request[r].code].client)
  <1>1. S \in SUBSET Pairs /\ S \subseteq Issued
    BY RevocationsReach
  <1> HIDE DEF S
  <1>2. Revoke(S) /\ Finish(r) /\ UNCHANGED <<codes, pairs, delivered, faults>>
    BY DEF RevokeAll, S
  <1>3. request[r].code \in Codes
    BY RequestType DEF RevokeAll, Working, Inv
  <1>4. TokensTypeOK'
    BY <1>1, <1>2, <1>3, RevokeType, FinishType DEF Inv, TokensTypeOK
  <1> QED
    BY <1>1, <1>2, <1>4, FinishQuiet, RevocationInv DEF Inv

LEMMA RevokeFamilyInv == ASSUME Inv, NEW r \in Requests, RevokeFamily(r) PROVE Inv'
  <1> DEFINE p == request[r].pair
             S == FamilyOf(pairs[p].family)
  <1>1. S \in SUBSET Pairs /\ S \subseteq Issued
    BY RevocationsReach
  <1> HIDE DEF S
  <1>2. Revoke(S) /\ Finish(r) /\ UNCHANGED <<codes, pairs, delivered, faults>>
    BY DEF RevokeFamily, S
  <1>3. pairs[p] \in Pair
    BY DEF RevokeFamily, Inv, TokensTypeOK
  <1>4. TokensTypeOK'
    BY <1>1, <1>2, <1>3, RevokeType, FinishType DEF Inv, TokensTypeOK, Pair
  <1> QED
    BY <1>1, <1>2, <1>4, FinishQuiet, RevocationInv DEF Inv

LEMMA RevokeRefreshInv == ASSUME Inv, NEW p \in Pairs, RevokeRefresh(p) PROVE Inv'
  <1> DEFINE S == FamilyOf(pairs[p].family)
  <1>1. S \in SUBSET Pairs /\ S \subseteq Issued
    BY RevocationsReach
  <1> HIDE DEF S
  <1>2. Revoke(S) /\ UNCHANGED <<codes, pairs, delivered, request, faults>>
    BY DEF RevokeRefresh, S
  <1>3. TokensTypeOK'
    BY <1>1, <1>2, RevokeType DEF Inv, TokensTypeOK
  <1> QED
    BY <1>1, <1>2, <1>3, RevocationInv DEF Inv

LEMMA RevokeAccessInv == ASSUME Inv, NEW p \in Pairs, RevokeAccess(p) PROVE Inv'
  <1>1. Issued' = Issued /\ UNCHANGED <<codes, pairs, refresh, delivered, request, faults>>
    BY DEF RevokeAccess, Inv, TokensTypeOK, Issued
  <1>2. TokensTypeOK'
    BY <1>1 DEF RevokeAccess, Inv, TokensTypeOK
  <1> QED
    BY <1>1, <1>2, QuietBaton DEF Inv, Live

LEMMA NextInv == Inv /\ [TokensNext]_tokensVars => Inv'
  <1> SUFFICES ASSUME Inv, [TokensNext]_tokensVars PROVE Inv'
    OBVIOUS
  <1>1. CASE ConsentStep
    BY <1>1, ConsentInv
  <1>2. ASSUME NEW r \in Requests, RequestStep(r) PROVE Inv'
    <2>1. ASSUME NEW k \in Clients, NEW c \in Codes, NEW matches \in BOOLEAN,
                 Exchange(r, k, c, matches)
          PROVE Inv'
      BY <2>1, ExchangeType, ExchangeBaton DEF Inv
    <2>2. ASSUME NEW k \in Clients, NEW p \in Pairs, NEW asked \in SUBSET Scopes,
                 Refresh(r, k, p, asked)
          PROVE Inv'
      BY <2>2, RefreshType, RefreshBaton DEF Inv
    <2>3. ASSUME NEW p \in Pairs, Issue(r, p) PROVE Inv'
      BY <2>3, IssueBaton DEF Inv
    <2> QED
      BY <1>2, <2>1, <2>2, <2>3, ExchangeAgainInv, RefreshAgainInv, RevokeAllInv,
         RevokeFamilyInv, ReplyInv, GiveUpInv DEF RequestStep
  <1>3. ASSUME NEW p \in Pairs, RevokeAccess(p) \/ RevokeRefresh(p) PROVE Inv'
    BY <1>3, RevokeAccessInv, RevokeRefreshInv
  <1>4. CASE UNCHANGED tokensVars
    <2>1. TokensTypeOK'
      BY <1>4 DEF Inv, TokensTypeOK, tokensVars, tokenVars, Issued
    <2> QED
      BY <1>4, <2>1, QuietBaton DEF Inv, tokensVars, tokenVars, Issued, Live
  <1> QED
    BY <1>1, <1>2, <1>3, <1>4 DEF TokensNext, TokenStep

----------------------------------------------------------------------------
\* What holds of the token endpoint whatever the consent flow does

LEMMA TokensInv == TokensSpec => []Inv
  BY InitInv, NextInv, PTL DEF TokensSpec

\* Revoking all the pairs in S reaches the whole grant of each of them.
LEMMA RevokeWhole ==
  ASSUME Inv, NEW S \in SUBSET Pairs, S \subseteq Issued, Revoke(S),
         \A x, y \in Issued : (x \in S /\ pairs[x].code = pairs[y].code) => y \in S
  PROVE  \A p \in Issued : (refresh[p] # "revoked" /\ refresh'[p] = "revoked") =>
           \A q \in Issued : pairs[q].code = pairs[p].code =>
             access'[q] = "revoked" /\ refresh'[q] \in {"none", "revoked"}
  <1> SUFFICES ASSUME NEW p \in Issued, refresh[p] # "revoked", refresh'[p] = "revoked",
                      NEW q \in Issued, pairs[q].code = pairs[p].code
               PROVE  access'[q] = "revoked" /\ refresh'[q] \in {"none", "revoked"}
    OBVIOUS
  <1>1. p \in S
    BY DEF Revoke, Issued
  <1>2. q \in S
    BY <1>1
  <1> QED
    BY <1>2 DEF Revoke

\* What RevokedTogether says of one step.
Reached == \A p \in Issued : (refresh[p] # "revoked" /\ refresh'[p] = "revoked") =>
             \A q \in Issued : pairs[q].code = pairs[p].code =>
               access'[q] = "revoked" /\ refresh'[q] \in {"none", "revoked"}

LEMMA NextReached == Inv /\ [TokensNext]_tokensVars => Reached
  <1> SUFFICES ASSUME Inv, [TokensNext]_tokensVars PROVE Reached
    OBVIOUS
  <1>1. CASE UNCHANGED refresh
    BY <1>1 DEF Reached
  <1>2. ASSUME NEW r \in Requests, RevokeAll(r) PROVE Reached
    <2> DEFINE c == request[r].code
               S == OfSubjectClient(codes[c].user, codes[c].client)
    <2>1. S \in SUBSET Pairs /\ S \subseteq Issued
      BY RevocationsReach
    <2>2. \A x, y \in Issued : (x \in S /\ pairs[x].code = pairs[y].code) => y \in S
      BY DEF OfSubjectClient, UserOf, ClientOf
    <2>3. Revoke(S)
      BY <1>2 DEF RevokeAll
    <2> HIDE DEF S
    <2> QED
      BY <2>1, <2>2, <2>3, RevokeWhole DEF Reached
  <1>3. ASSUME NEW p \in Issued, Revoke(FamilyOf(pairs[p].family)) PROVE Reached
    <2> DEFINE S == FamilyOf(pairs[p].family)
    <2>1. S \in SUBSET Pairs /\ S \subseteq Issued
      BY RevocationsReach
    <2>2. \A x, y \in Issued : (x \in S /\ pairs[x].code = pairs[y].code) => y \in S
      BY DEF FamilyOf, Inv, Baton, OneFamily
    <2> HIDE DEF S
    <2> QED
      BY <1>3, <2>1, <2>2, RevokeWhole DEF Reached, S
  <1>4. ASSUME NEW r \in Requests, RevokeFamily(r) PROVE Reached
    BY <1>3, <1>4 DEF RevokeFamily, Inv, TokensTypeOK
  <1>5. ASSUME NEW p \in Pairs, RevokeRefresh(p) PROVE Reached
    BY <1>3, <1>5 DEF RevokeRefresh, Inv, TokensTypeOK
  <1>6. ASSUME NEW p \in Pairs, SpendRefresh(p), refresh[p] = "live" PROVE Reached
    BY <1>6 DEF SpendRefresh, Reached, Inv, TokensTypeOK, Issued
  <1>7. ASSUME NEW r \in Requests, NEW p \in Pairs, Issue(r, p) PROVE Reached
    BY <1>7 DEF Issue, Reached, Inv, TokensTypeOK, Issued
  <1>8. ASSUME NEW r \in Requests, RequestStep(r) PROVE Reached
    BY <1>1, <1>2, <1>4, <1>6, <1>7, <1>8
    DEF RequestStep, Exchange, ExchangeAgain, Refresh, RefreshAgain, Reply, GiveUp
  <1> QED
    BY <1>1, <1>5, <1>8
    DEF TokensNext, TokenStep, ConsentStep, RevokeAccess, tokensVars, tokenVars

----------------------------------------------------------------------------
\* The consent flow

\* What a click holds fits the challenge it has read.
ClickFits(b) ==
  LET w == browser[b] IN
  w.pc # "idle" =>
    /\ challenges[w.challenge].kind # "none"
    /\ w.pc # "reject" => w.user \in Users
    /\ w.pc \in {"decideLogin", "decideConsent", "save", "code"} =>
         w.scopes \subseteq challenges[w.challenge].requested
    /\ w.pc \in {"decideConsent", "save", "code"} => w.scopes # {}
    /\ w.pc = "reject" => w.scopes = {}

FlowInv == FlowTypeOK /\ \A b \in Browsers : ClickFits(b)

LEMMA InitFlow == Init => FlowInv
  <1> SUFFICES ASSUME Init PROVE FlowInv
    OBVIOUS
  <1>1. remembered \in [Users -> [Clients -> SUBSET Scopes]]
    BY DEF Init
  <1>2. \A b \in Browsers : ClickFits(b)
    BY DEF Init, ClickFits, Waiting
  <1> QED
    BY <1>1, <1>2 DEF Init, FlowInv, FlowTypeOK, NoChallenge, Waiting

\* A click holds what its type says, and so does the challenge it has read.
LEMMA ClickType ==
  ASSUME FlowInv, NEW b \in Browsers, browser[b].pc # "idle"
  PROVE  /\ browser[b] \in Click /\ browser[b].challenge \in Challenges
         /\ browser[b].user \in Users \cup {NoUser} /\ browser[b].scopes \in SUBSET Scopes
         /\ challenges[browser[b].challenge] \in Challenge
         /\ challenges[browser[b].challenge].client \in Clients
         /\ challenges[browser[b].challenge].requested \in SUBSET Scopes
         /\ ClickFits(b)
  <1>1. browser[b] \in Click /\ ClickFits(b)
    BY DEF FlowInv, FlowTypeOK, Waiting
  <1>2. browser[b].challenge \in Challenges /\ challenges[browser[b].challenge].kind # "none"
    BY <1>1 DEF Click, ClickFits
  <1>3. challenges[browser[b].challenge] \in Challenge
    BY <1>2 DEF FlowInv, FlowTypeOK, NoChallenge
  <1> QED
    BY <1>1, <1>2, <1>3 DEF Click, Challenge

\* What has been asked for does not change.
Kept == \A h \in Challenges : challenges[h].kind # "none" =>
          challenges'[h].kind # "none" /\ challenges'[h].requested = challenges[h].requested

\* A step in which one click reads or writes.
LEMMA ClickStep ==
  ASSUME FlowInv, Kept, NEW b \in Browsers, NEW w \in Click, Do(b, w),
         challenges[w.challenge].kind # "none",
         w.pc # "reject" => w.user \in Users,
         w.pc \in {"decideLogin", "decideConsent", "save", "code"} =>
           w.scopes \subseteq challenges[w.challenge].requested,
         w.pc \in {"decideConsent", "save", "code"} => w.scopes # {},
         w.pc = "reject" => w.scopes = {}
  PROVE  /\ browser' \in [Browsers -> Click \cup {Waiting}]
         /\ \A v \in Browsers : ClickFits(v)'
  <1>1. /\ browser' \in [Browsers -> Click \cup {Waiting}] /\ browser'[b] = w
        /\ \A v \in Browsers : v # b => browser'[v] = browser[v]
    BY DEF Do, FlowInv, FlowTypeOK
  <1>2. w.challenge \in Challenges /\ w.pc # "idle"
    BY DEF Click
  <1>3. ClickFits(b)'
    BY <1>1, <1>2 DEF ClickFits, Kept
  <1>4. ASSUME NEW v \in Browsers, v # b PROVE ClickFits(v)'
    BY <1>1, <1>4, ClickType DEF ClickFits, Kept
  <1> QED
    BY <1>1, <1>3, <1>4

LEMMA DoneStep ==
  ASSUME FlowInv, Kept, NEW b \in Browsers, Done(b)
  PROVE  /\ browser' \in [Browsers -> Click \cup {Waiting}]
         /\ \A v \in Browsers : ClickFits(v)'
  <1>1. /\ browser' \in [Browsers -> Click \cup {Waiting}] /\ browser'[b] = Waiting
        /\ \A v \in Browsers : v # b => browser'[v] = browser[v]
    BY DEF Done, Do, FlowInv, FlowTypeOK
  <1>2. ClickFits(b)'
    BY <1>1 DEF ClickFits, Waiting
  <1>3. ASSUME NEW v \in Browsers, v # b PROVE ClickFits(v)'
    BY <1>1, <1>3, ClickType DEF ClickFits, Kept
  <1> QED
    BY <1>1, <1>2, <1>3

LEMMA NoClickStep ==
  ASSUME FlowInv, Kept, UNCHANGED browser
  PROVE  \A v \in Browsers : ClickFits(v)'
  BY ClickType DEF ClickFits, Kept

\* The challenges' part of FlowTypeOK.
ChallengesOK ==
  /\ challenges \in [Challenges -> Challenge \cup {NoChallenge}]
  /\ \A h \in Challenges : challenges[h].kind # "none" =>
       /\ challenges[h].granted \subseteq challenges[h].requested
       /\ challenges[h].kind = "consent" => challenges[h].user \in Users

LEMMA DecideStep ==
  ASSUME ChallengesOK, NEW h \in Challenges, NEW u \in Users \cup {NoUser},
         NEW s \in SUBSET Scopes, challenges[h].kind # "none",
         s \subseteq challenges[h].requested, Decide(h, u, s)
  PROVE  ChallengesOK' /\ Kept
  <1> DEFINE c == challenges[h]
             x == IF u = NoUser THEN c.user ELSE u
             d == [c EXCEPT !.state = "decided", !.granted = s, !.user = x]
  <1>1. c \in Challenge
    BY DEF ChallengesOK, NoChallenge
  <1>2. /\ d \in Challenge /\ d.kind = c.kind /\ d.requested = c.requested
        /\ d.granted = s /\ d.user = x
        /\ c.kind = "consent" => x \in Users
    BY <1>1 DEF Challenge, ChallengesOK
  <1>3. challenges' = [challenges EXCEPT ![h] = d]
    BY DEF Decide, ChallengesOK
  <1> HIDE DEF d, c, x
  <1>4. /\ challenges' \in [Challenges -> Challenge \cup {NoChallenge}] /\ challenges'[h] = d
        /\ \A y \in Challenges : y # h => challenges'[y] = challenges[y]
    BY <1>2, <1>3 DEF ChallengesOK
  <1>5. c = challenges[h]
    BY DEF c
  <1>6. x \in Users \/ d.kind # "consent"
    BY <1>2
  <1>7. ChallengesOK'
    BY <1>2, <1>4, <1>5, <1>6 DEF ChallengesOK
  <1> QED
    BY <1>2, <1>4, <1>5, <1>7 DEF Kept

LEMMA AskStep ==
  ASSUME ChallengesOK, NEW h \in Challenges, NEW d \in Challenge, challenges[h].kind = "none",
         d.granted = {}, d.kind = "consent" => d.user \in Users,
         challenges' = [challenges EXCEPT ![h] = d]
  PROVE  ChallengesOK' /\ Kept
  BY DEF ChallengesOK, Kept, Challenge

LEMMA SplitFlow == FlowInv => ChallengesOK
  BY DEF FlowInv, FlowTypeOK, ChallengesOK

LEMMA SameChallenges == UNCHANGED challenges => Kept
  BY DEF Kept

LEMMA AuthorizeFlow ==
  ASSUME FlowInv, NEW h \in Challenges, NEW k \in Clients, NEW s \in SUBSET Scopes, Authorize(h, k, s)
  PROVE  FlowInv'
  <1> DEFINE d == [kind |-> "login", state |-> "open", client |-> k, user |-> NoUser,
                   requested |-> s, granted |-> {}, skip |-> FALSE, login |-> h]
  <1>1. d \in Challenge /\ d.granted = {} /\ d.kind # "consent"
    BY DEF Challenge
  <1>2. challenges' = [challenges EXCEPT ![h] = d] /\ challenges[h].kind = "none"
    BY DEF Authorize
  <1> HIDE DEF d
  <1>3. ChallengesOK' /\ Kept
    BY <1>1, <1>2, SplitFlow, AskStep
  <1>4. UNCHANGED <<remembered, browser, agreed, origin>>
    BY DEF Authorize
  <1> QED
    BY <1>3, <1>4, NoClickStep DEF FlowInv, FlowTypeOK, ChallengesOK

LEMMA LoginReadFlow ==
  ASSUME FlowInv, NEW b \in Browsers, NEW u \in Users, NEW h \in Challenges, LoginRead(b, u, h)
  PROVE  FlowInv'
  <1> DEFINE w == [pc |-> "decideLogin", challenge |-> h, user |-> u,
                   scopes |-> challenges[h].requested]
  <1>1. challenges[h].kind = "login" /\ challenges[h] \in Challenge
    BY DEF LoginRead, Open, FlowInv, FlowTypeOK, NoChallenge
  <1>2. w \in Click
    BY <1>1 DEF Click, Challenge
  <1>3. Do(b, w) /\ UNCHANGED <<challenges, remembered, agreed, origin>>
    BY DEF LoginRead
  <1>4. browser' \in [Browsers -> Click \cup {Waiting}] /\ \A v \in Browsers : ClickFits(v)'
    BY <1>1, <1>2, <1>3, SameChallenges, ClickStep
  <1> QED
    BY <1>3, <1>4 DEF FlowInv, FlowTypeOK

LEMMA ConsentReadFlow ==
  ASSUME FlowInv, NEW b \in Browsers, NEW u \in Users, NEW h \in Challenges,
         NEW ticked \in SUBSET Scopes, ConsentRead(b, u, h, ticked)
  PROVE  FlowInv'
  <1> DEFINE s == Ticked(challenges[h].requested, ticked)
             w == [pc |-> "decideConsent", challenge |-> h, user |-> u, scopes |-> s]
  <1>1. challenges[h].kind = "consent" /\ challenges[h] \in Challenge
    BY DEF ConsentRead, Open, FlowInv, FlowTypeOK, NoChallenge
  <1>2. s \in SUBSET Scopes /\ s \subseteq challenges[h].requested /\ s # {}
    BY <1>1 DEF Ticked, ConsentRead, Challenge
  <1>3. Do(b, w) /\ UNCHANGED <<challenges, remembered, agreed, origin>>
    BY DEF ConsentRead
  <1> HIDE DEF s
  <1>4. w \in Click
    BY <1>2 DEF Click
  <1>5. browser' \in [Browsers -> Click \cup {Waiting}] /\ \A v \in Browsers : ClickFits(v)'
    BY <1>1, <1>2, <1>3, <1>4, SameChallenges, ClickStep
  <1> QED
    BY <1>3, <1>5 DEF FlowInv, FlowTypeOK

LEMMA RejectReadFlow ==
  ASSUME FlowInv, NEW b \in Browsers, NEW h \in Challenges, RejectRead(b, h)
  PROVE  FlowInv'
  <1> DEFINE w == [pc |-> "reject", challenge |-> h, user |-> challenges[h].user, scopes |-> {}]
  <1>1. challenges[h].kind # "none" /\ challenges[h] \in Challenge
    BY DEF RejectRead, Open, FlowInv, FlowTypeOK, NoChallenge
  <1>2. w \in Click
    BY <1>1 DEF Click, Challenge
  <1>3. Do(b, w) /\ UNCHANGED <<challenges, remembered, agreed, origin>>
    BY DEF RejectRead
  <1>4. browser' \in [Browsers -> Click \cup {Waiting}] /\ \A v \in Browsers : ClickFits(v)'
    BY <1>1, <1>2, <1>3, SameChallenges, ClickStep
  <1> QED
    BY <1>3, <1>4 DEF FlowInv, FlowTypeOK

\* The three decisions: the click goes on to another step, or is done.
LEMMA DecideFlow ==
  ASSUME FlowInv, NEW b \in Browsers, NEW pc \in {"remember", "save"},
         browser[b].pc = IF pc = "save" THEN "decideConsent" ELSE "decideLogin",
         Decide(browser[b].challenge, browser[b].user, browser[b].scopes),
         Do(b, [browser[b] EXCEPT !.pc = pc]), UNCHANGED <<remembered, agreed, origin>>
  PROVE  FlowInv'
  <1> DEFINE w == browser[b]
             x == [w EXCEPT !.pc = pc]
  <1>1. /\ w \in Click /\ w.challenge \in Challenges
        /\ w.user \in Users \cup {NoUser} /\ w.scopes \in SUBSET Scopes /\ ClickFits(b)
    BY ClickType
  <1>2. /\ challenges[w.challenge].kind # "none" /\ w.user \in Users
        /\ w.scopes \subseteq challenges[w.challenge].requested
        /\ pc = "save" => w.scopes # {}
    BY <1>1 DEF ClickFits
  <1>3. ChallengesOK' /\ Kept
    BY <1>1, <1>2, SplitFlow, DecideStep
  <1>4. /\ x \in Click /\ x.challenge = w.challenge /\ x.user = w.user /\ x.scopes = w.scopes
        /\ x.pc = pc
    BY <1>1 DEF Click
  <1> HIDE DEF w, x
  <1>5. Do(b, x)
    BY DEF w, x
  <1>6. browser' \in [Browsers -> Click \cup {Waiting}] /\ \A v \in Browsers : ClickFits(v)'
    BY <1>2, <1>3, <1>4, <1>5, ClickStep
  <1> QED
    BY <1>3, <1>6 DEF FlowInv, FlowTypeOK, ChallengesOK

LEMMA RejectDecideFlow ==
  ASSUME FlowInv, NEW b \in Browsers, RejectDecide(b)
  PROVE  FlowInv'
  <1> DEFINE w == browser[b]
  <1>1. /\ w.challenge \in Challenges /\ w.user \in Users \cup {NoUser} /\ ClickFits(b)
        /\ w.pc = "reject"
    BY ClickType DEF RejectDecide
  <1>2. Decide(w.challenge, w.user, {}) /\ Done(b) /\ UNCHANGED <<remembered, agreed, origin>>
    BY DEF RejectDecide
  <1>3. challenges[w.challenge].kind # "none"
    BY <1>1 DEF ClickFits
  <1>4. ChallengesOK' /\ Kept
    BY <1>1, <1>2, <1>3, SplitFlow, DecideStep
  <1>5. browser' \in [Browsers -> Click \cup {Waiting}] /\ \A v \in Browsers : ClickFits(v)'
    BY <1>2, <1>4, DoneStep
  <1> QED
    BY <1>2, <1>4, <1>5 DEF FlowInv, FlowTypeOK, ChallengesOK

LEMMA LoginRememberFlow ==
  ASSUME FlowInv, NEW b \in Browsers, LoginRemember(b)
  PROVE  FlowInv'
  <1> DEFINE w == browser[b]
             s == remembered[w.user][challenges[w.challenge].client]
             x == [w EXCEPT !.pc = "askConsent", !.scopes = s]
  <1>1. w \in Click /\ w.pc = "remember" /\ ClickFits(b)
        /\ challenges[w.challenge].client \in Clients
    BY ClickType DEF LoginRemember
  <1>2. challenges[w.challenge].kind # "none" /\ w.user \in Users
    BY <1>1 DEF ClickFits
  <1>3. s \in SUBSET Scopes
    BY <1>1, <1>2 DEF FlowInv, FlowTypeOK
  <1>4. Do(b, x) /\ UNCHANGED <<challenges, remembered, agreed, origin>>
    BY DEF LoginRemember
  <1> HIDE DEF w, s
  <1>5. /\ x \in Click /\ x.pc = "askConsent" /\ x.user = w.user
        /\ x.challenge = w.challenge
    BY <1>1, <1>3 DEF Click
  <1> HIDE DEF x
  <1>6. browser' \in [Browsers -> Click \cup {Waiting}] /\ \A v \in Browsers : ClickFits(v)'
    BY <1>2, <1>4, <1>5, SameChallenges, ClickStep
  <1> QED
    BY <1>4, <1>6 DEF FlowInv, FlowTypeOK

LEMMA LoginAskFlow ==
  ASSUME FlowInv, NEW b \in Browsers, NEW h \in Challenges, LoginAsk(b, h)
  PROVE  FlowInv'
  <1> DEFINE w == browser[b]
             l == challenges[w.challenge]
             d == [kind |-> "consent", state |-> "open", client |-> l.client, user |-> w.user,
                   requested |-> l.requested, granted |-> {},
                   skip |-> CoversAll(w.scopes, l.requested), login |-> w.challenge]
  <1>1. /\ w.challenge \in Challenges /\ l.client \in Clients /\ l.requested \in SUBSET Scopes
        /\ ClickFits(b) /\ w.pc = "askConsent"
    BY ClickType DEF LoginAsk
  <1>2. w.user \in Users
    BY <1>1 DEF ClickFits
  <1>3. CoversAll(w.scopes, l.requested) \in BOOLEAN
    BY DEF CoversAll
  <1>4. /\ challenges' = [challenges EXCEPT ![h] = d] /\ challenges[h].kind = "none"
        /\ Done(b) /\ UNCHANGED <<remembered, agreed, origin>>
    BY DEF LoginAsk
  <1> HIDE DEF w, l
  <1>5. d \in Challenge /\ d.granted = {} /\ d.user \in Users
    BY <1>1, <1>2, <1>3 DEF Challenge
  <1> HIDE DEF d
  <1>6. ChallengesOK' /\ Kept
    BY <1>4, <1>5, SplitFlow, AskStep
  <1>7. browser' \in [Browsers -> Click \cup {Waiting}] /\ \A v \in Browsers : ClickFits(v)'
    BY <1>4, <1>6, DoneStep
  <1> QED
    BY <1>4, <1>6, <1>7 DEF FlowInv, FlowTypeOK, ChallengesOK

LEMMA ConsentSaveFlow ==
  ASSUME FlowInv, NEW b \in Browsers, ConsentSave(b)
  PROVE  FlowInv'
  <1> DEFINE w == browser[b]
             k == challenges[w.challenge].client
             x == [w EXCEPT !.pc = "code"]
  <1>1. /\ w \in Click /\ w.pc = "save" /\ k \in Clients /\ w.scopes \in SUBSET Scopes
        /\ ClickFits(b)
    BY ClickType DEF ConsentSave
  <1>2. /\ challenges[w.challenge].kind # "none" /\ w.user \in Users /\ w.scopes # {}
        /\ w.scopes \subseteq challenges[w.challenge].requested
    BY <1>1 DEF ClickFits
  <1>3. /\ remembered' = [remembered EXCEPT ![w.user][k] = w.scopes]
        /\ agreed' = agreed \cup {[user |-> w.user, client |-> k, scopes |-> w.scopes]}
        /\ Do(b, x) /\ UNCHANGED <<challenges, origin>>
    BY DEF ConsentSave
  <1> HIDE DEF w, k
  <1>4. /\ x \in Click /\ x.pc = "code" /\ x.user = w.user /\ x.challenge = w.challenge
        /\ x.scopes = w.scopes
    BY <1>1 DEF Click
  <1> HIDE DEF x
  <1>5. browser' \in [Browsers -> Click \cup {Waiting}] /\ \A v \in Browsers : ClickFits(v)'
    BY <1>2, <1>3, <1>4, SameChallenges, ClickStep
  <1>6. remembered' \in [Users -> [Clients -> SUBSET Scopes]]
    BY <1>1, <1>2, <1>3 DEF FlowInv, FlowTypeOK
  <1>7. agreed' \subseteq [user : Users, client : Clients, scopes : SUBSET Scopes]
    BY <1>1, <1>2, <1>3 DEF FlowInv, FlowTypeOK
  <1> QED
    BY <1>3, <1>5, <1>6, <1>7 DEF FlowInv, FlowTypeOK

LEMMA ConsentCodeFlow ==
  ASSUME FlowInv, NEW b \in Browsers, NEW c \in Codes, ConsentCode(b, c)
  PROVE  FlowInv' /\ ConsentStep
  <1> DEFINE w == browser[b]
             k == challenges[w.challenge].client
             o == [kind |-> "consent", challenge |-> w.challenge]
  <1>1. /\ w.pc = "code" /\ w.challenge \in Challenges /\ k \in Clients
        /\ w.scopes \in SUBSET Scopes /\ ClickFits(b)
    BY ClickType DEF ConsentCode
  <1>2. w.user \in Users /\ w.scopes # {}
    BY <1>1 DEF ClickFits
  <1>3. /\ CreateCode(c, w.user, k, w.scopes) /\ origin' = [origin EXCEPT ![c] = o]
        /\ Done(b) /\ UNCHANGED <<tokenVars, faults, challenges, remembered, agreed>>
    BY DEF ConsentCode
  <1> HIDE DEF w, k
  <1>4. ConsentStep
    BY <1>1, <1>2, <1>3 DEF ConsentStep
  <1>5. o \in [kind : {"consent"}, challenge : Challenges]
    BY <1>1
  <1>6. origin' \in [Codes -> [kind : {"consent"}, challenge : Challenges] \cup {NoChallenge}]
    BY <1>3, <1>5 DEF FlowInv, FlowTypeOK
  <1>7. browser' \in [Browsers -> Click \cup {Waiting}] /\ \A v \in Browsers : ClickFits(v)'
    BY <1>3, SameChallenges, DoneStep
  <1> QED
    BY <1>3, <1>4, <1>6, <1>7 DEF FlowInv, FlowTypeOK

LEMMA AbandonFlow ==
  ASSUME FlowInv, NEW b \in Browsers, Abandon(b)
  PROVE  FlowInv'
  BY SameChallenges, DoneStep DEF Abandon, FlowInv, FlowTypeOK

LEMMA ForgetFlow ==
  ASSUME FlowInv, NEW u \in Users, NEW k \in Clients, Forget(u, k)
  PROVE  FlowInv'
  <1>1. remembered' \in [Users -> [Clients -> SUBSET Scopes]]
    BY DEF Forget, FlowInv, FlowTypeOK
  <1> QED
    BY <1>1, SameChallenges, NoClickStep DEF Forget, FlowInv, FlowTypeOK

LEMMA LoginDecideFlow == ASSUME FlowInv, NEW b \in Browsers, LoginDecide(b) PROVE FlowInv'
  BY DecideFlow DEF LoginDecide

LEMMA ConsentDecideFlow == ASSUME FlowInv, NEW b \in Browsers, ConsentDecide(b) PROVE FlowInv'
  BY DecideFlow DEF ConsentDecide

\* What a step of the consent flow is to the token endpoint: a new code, or nothing.
LEMMA FlowNext == FlowInv /\ [Next]_vars => FlowInv' /\ [TokensNext]_tokensVars
  <1> SUFFICES ASSUME FlowInv, [Next]_vars PROVE FlowInv' /\ [TokensNext]_tokensVars
    OBVIOUS
  <1>1. ASSUME NEW b \in Browsers, NEW c \in Codes, ConsentCode(b, c)
        PROVE  FlowInv' /\ [TokensNext]_tokensVars
    BY <1>1, ConsentCodeFlow DEF TokensNext
  <1>2. CASE UNCHANGED flowVars /\ [TokensNext]_tokensVars
    BY <1>2, SameChallenges, NoClickStep DEF flowVars, FlowInv, FlowTypeOK
  <1>3. CASE FlowStep
    <2>1. ASSUME NEW h \in Challenges, NEW k \in Clients, NEW s \in SUBSET Scopes, Authorize(h, k, s)
          PROVE  FlowInv' /\ UNCHANGED tokensVars
      BY <2>1, AuthorizeFlow DEF Authorize
    <2>2. ASSUME NEW b \in Browsers, NEW u \in Users, NEW h \in Challenges, LoginRead(b, u, h)
          PROVE  FlowInv' /\ UNCHANGED tokensVars
      BY <2>2, LoginReadFlow DEF LoginRead
    <2>3. ASSUME NEW b \in Browsers, NEW h \in Challenges, LoginAsk(b, h)
          PROVE  FlowInv' /\ UNCHANGED tokensVars
      BY <2>3, LoginAskFlow DEF LoginAsk
    <2>4. ASSUME NEW b \in Browsers, NEW u \in Users, NEW h \in Challenges,
                 NEW ticked \in SUBSET Scopes, ConsentRead(b, u, h, ticked)
          PROVE  FlowInv' /\ UNCHANGED tokensVars
      BY <2>4, ConsentReadFlow DEF ConsentRead
    <2>5. ASSUME NEW b \in Browsers, NEW h \in Challenges, RejectRead(b, h)
          PROVE  FlowInv' /\ UNCHANGED tokensVars
      BY <2>5, RejectReadFlow DEF RejectRead
    <2>6. ASSUME NEW b \in Browsers,
                 \/ LoginDecide(b) \/ LoginRemember(b) \/ ConsentDecide(b)
                 \/ ConsentSave(b) \/ RejectDecide(b) \/ Abandon(b)
          PROVE  FlowInv' /\ UNCHANGED tokensVars
      <3>1. FlowInv'
        BY <2>6, LoginDecideFlow, LoginRememberFlow, ConsentDecideFlow, ConsentSaveFlow,
           RejectDecideFlow, AbandonFlow
      <3>2. UNCHANGED tokensVars
        BY <2>6 DEF LoginDecide, LoginRemember, ConsentDecide, ConsentSave, RejectDecide, Abandon
      <3> QED
        BY <3>1, <3>2
    <2>7. ASSUME NEW u \in Users, NEW k \in Clients, Forget(u, k)
          PROVE  FlowInv' /\ UNCHANGED tokensVars
      BY <2>7, ForgetFlow DEF Forget
    <2> QED
      BY <1>1, <1>3, <2>1, <2>2, <2>3, <2>4, <2>5, <2>6, <2>7 DEF FlowStep
  <1> QED
    BY <1>2, <1>3 DEF Next, TokensNext, vars

----------------------------------------------------------------------------
\* Theorems about the tokens

(***************************************************************************)
(* The consent flow, whatever its browsers do, is to the token endpoint a  *)
(* source of codes: the provider implements TokensSpec.                    *)
(***************************************************************************)
THEOREM ImplementsTokens == Spec => TokensSpec
  <1>1. Init => TokensInit
    BY DEF Init
  <1> QED
    BY <1>1, InitFlow, FlowNext, PTL DEF Spec, TokensSpec

(***************************************************************************)
(* Types, and that no token is issued outside a pair, no refresh token     *)
(* outside a family, and nothing granted that was not asked for.           *)
(***************************************************************************)
THEOREM TypeCorrect == Spec => []TypeOK
  <1>1. FlowInv /\ Inv => TypeOK
    BY DEF FlowInv, Inv, TypeOK
  <1> QED
    BY <1>1, InitFlow, FlowNext, ImplementsTokens, TokensInv, PTL DEF Spec

(***************************************************************************)
(* SpentOnce for any number of requests: two that present the same code or *)
(* the same refresh token at the same time do not both get tokens.         *)
(***************************************************************************)
THEOREM PaysOnce == Spec => []SpentOnce
  <1>1. Inv => SpentOnce
    BY DEF Inv, Baton
  <1> QED
    BY <1>1, ImplementsTokens, TokensInv, PTL

(***************************************************************************)
(* OneLiveRefresh for any number of rotations, requests and faults.        *)
(***************************************************************************)
THEOREM OneRefreshToken == Spec => []OneLiveRefresh
  <1>1. Inv => OneLiveRefresh
    BY DEF Inv, Baton
  <1> QED
    BY <1>1, ImplementsTokens, TokensInv, PTL

(***************************************************************************)
(* ScopesOnlyNarrow for chains of refreshes of any length.                 *)
(***************************************************************************)
THEOREM ScopesNarrow == Spec => []ScopesOnlyNarrow
  <1>1. Inv => ScopesOnlyNarrow
    BY DEF Inv, Baton
  <1> QED
    BY <1>1, ImplementsTokens, TokensInv, PTL

(***************************************************************************)
(* RevokedTogether: family_id follows the chain, so a revocation of one    *)
(* refresh token, by whichever of the three ways, takes its whole grant.   *)
(***************************************************************************)
THEOREM GrantRevokedWhole == Spec => RevokedTogether
  <1>1. TokensSpec => [][Reached]_tokensVars
    BY TokensInv, NextReached, PTL DEF TokensSpec
  <1>2. [Reached]_tokensVars => [\A p \in Issued :
       refresh[p] # "revoked" /\ refresh'[p] = "revoked"
         => \A q \in Issued : pairs[q].code = pairs[p].code
              => access'[q] = "revoked" /\ refresh'[q] \in {"none", "revoked"}]_tokensVars
    BY DEF Reached
  <1> QED
    BY <1>1, <1>2, ImplementsTokens, PTL DEF RevokedTogether

----------------------------------------------------------------------------
\* Who has decided what

(***************************************************************************)
(* A challenge is decided once, so what follows a decision is done by one  *)
(* click: the right to the one consent of a login, and to the one code of  *)
(* a consent, is with the click that decided it, until it is used or the   *)
(* click is abandoned.                                                     *)
(***************************************************************************)
LoginDone(b) == browser[b].pc \in {"remember", "askConsent"}
ConsentDone(b) == browser[b].pc \in {"save", "code"}
IsConsent(h) == challenges[h].kind = "consent"
Decided(h) == challenges[h].kind # "none" /\ challenges[h].state = "decided"
Agreement(u, k, s) == [user |-> u, client |-> k, scopes |-> s] \in agreed

\* A consent challenge copies the login it came from, and a login has one.
ConsentFits(g) ==
  LET l == challenges[challenges[g].login] IN
  IsConsent(g) => /\ l.kind = "login" /\ l.state = "decided" /\ l.client = challenges[g].client
                  /\ l.user = challenges[g].user /\ l.requested = challenges[g].requested
OneConsent ==
  \A g, h \in Challenges :
    (IsConsent(g) /\ IsConsent(h) /\ challenges[g].login = challenges[h].login) => g = h

\* What a click holds: what it has read or decided, and what it alone may write next.
Held(b) ==
  LET w == browser[b]
      h == challenges[w.challenge]
  IN
  /\ w.pc = "decideLogin" => h.kind = "login"
  /\ w.pc = "decideConsent" => h.kind = "consent"
  /\ w.pc \in {"decideConsent", "reject"} => (h.kind = "consent" => w.user = h.user)
  /\ LoginDone(b) => /\ h.kind = "login" /\ h.state = "decided" /\ h.user = w.user
                     /\ \A g \in Challenges : IsConsent(g) => challenges[g].login # w.challenge
  /\ w.pc = "askConsent" => w.scopes = {} \/ Agreement(w.user, h.client, w.scopes)
  /\ ConsentDone(b) => /\ h.kind = "consent" /\ h.state = "decided" /\ h.user = w.user
                       /\ h.granted = w.scopes
                       /\ \A c \in Created : origin[c].challenge # w.challenge
Alone ==
  \A b, v \in Browsers :
    (((LoginDone(b) /\ LoginDone(v)) \/ (ConsentDone(b) /\ ConsentDone(v)))
       /\ browser[b].challenge = browser[v].challenge) => b = v

\* A code copies the consent it came from, and a consent has one.
CodeFits(c) ==
  c \in Created =>
    /\ origin[c].kind = "consent" /\ ConsentOf(c).kind = "consent" /\ ConsentOf(c).state = "decided"
    /\ codes[c].user = ConsentOf(c).user /\ codes[c].client = ConsentOf(c).client
    /\ codes[c].scopes = ConsentOf(c).granted /\ codes[c].scopes # {}
OneOrigin == \A c, d \in Created : origin[c].challenge = origin[d].challenge => c = d

\* What is remembered was agreed in one consent.
Remembrance ==
  \A u \in Users, k \in Clients : remembered[u][k] = {} \/ Agreement(u, k, remembered[u][k])

Copies == /\ \A g \in Challenges : ConsentFits(g)
          /\ OneConsent
          /\ \A c \in Codes : CodeFits(c)
          /\ OneOrigin
          /\ SkipWasAgreed
Holds == (\A b \in Browsers : Held(b)) /\ Alone
DecisionInv == Copies /\ Holds /\ Remembrance

----------------------------------------------------------------------------
\* What a step leaves alone

\* A decided challenge does not change, an open one only in what a decision writes.
Frozen ==
  /\ agreed \subseteq agreed'
  /\ \A h \in Challenges :
       /\ Decided(h) => challenges'[h] = challenges[h]
       /\ challenges[h].kind # "none" =>
            /\ challenges'[h].kind = challenges[h].kind /\ challenges'[h].client = challenges[h].client
            /\ challenges'[h].login = challenges[h].login /\ challenges'[h].skip = challenges[h].skip
            /\ challenges'[h].requested = challenges[h].requested
       /\ IsConsent(h) => challenges'[h].user = challenges[h].user

NoNewConsent == \A g \in Challenges : IsConsent(g)' => IsConsent(g)

CodesKept == \A c \in Created :
  /\ c \in Created' /\ codes'[c].user = codes[c].user /\ codes'[c].client = codes[c].client
  /\ codes'[c].scopes = codes[c].scopes /\ origin'[c] = origin[c]
NoNewCode == Created' = Created

LEMMA ChallengeRow ==
  ASSUME FlowInv, NEW h \in Challenges, challenges[h].kind # "none"
  PROVE  /\ challenges[h] \in Challenge /\ challenges[h].login \in Challenges
         /\ challenges[h].client \in Clients /\ challenges[h].requested \in SUBSET Scopes
  BY DEF FlowInv, FlowTypeOK, NoChallenge, Challenge

LEMMA OriginRow ==
  ASSUME FlowInv, NEW c \in Codes, origin[c].kind = "consent"
  PROVE  origin[c].challenge \in Challenges
  BY DEF FlowInv, FlowTypeOK, NoChallenge

LEMMA SameFrozen == UNCHANGED challenges /\ agreed \subseteq agreed' => Frozen /\ NoNewConsent
  BY DEF Frozen, NoNewConsent, IsConsent

LEMMA SameCodes == UNCHANGED <<codes, origin>> => CodesKept /\ NoNewCode
  BY DEF CodesKept, NoNewCode, Created

\* A consent and a code that were there still fit.
LEMMA FitsStay ==
  ASSUME FlowInv, Frozen, NEW g \in Challenges, IsConsent(g), ConsentFits(g)
  PROVE  ConsentFits(g)'
  <1>1. challenges[g].login \in Challenges /\ challenges'[g].login = challenges[g].login
    BY ChallengeRow DEF IsConsent, Frozen
  <1>2. challenges'[challenges[g].login] = challenges[challenges[g].login]
    BY <1>1 DEF ConsentFits, Frozen, Decided
  <1> QED
    BY <1>1, <1>2 DEF ConsentFits, Frozen, IsConsent

LEMMA CodeStays ==
  ASSUME FlowInv, Frozen, CodesKept, NEW c \in Created, CodeFits(c)
  PROVE  CodeFits(c)'
  <1>1. origin'[c] = origin[c] /\ origin[c].challenge \in Challenges
    BY OriginRow DEF CodeFits, CodesKept, Created
  <1>2. challenges'[origin[c].challenge] = challenges[origin[c].challenge]
    BY <1>1 DEF CodeFits, Frozen, Decided, ConsentOf
  <1> QED
    BY <1>1, <1>2 DEF CodeFits, CodesKept, ConsentOf

LEMMA CopiesStay ==
  ASSUME FlowInv, Copies, Frozen, CodesKept, NoNewConsent, NoNewCode
  PROVE  Copies'
  <1>1. ASSUME NEW g \in Challenges PROVE ConsentFits(g)'
    <2>1. CASE IsConsent(g)
      BY <2>1, FitsStay DEF Copies
    <2>2. CASE ~IsConsent(g)
      BY <2>2 DEF NoNewConsent, ConsentFits
    <2> QED
      BY <2>1, <2>2
  <1>2. OneConsent'
    BY DEF Copies, OneConsent, NoNewConsent, Frozen, IsConsent
  <1>3. ASSUME NEW c \in Codes PROVE CodeFits(c)'
    <2>1. CASE c \in Created
      BY <2>1, CodeStays DEF Copies
    <2>2. CASE c \notin Created
      BY <2>2 DEF NoNewCode, CodeFits
    <2> QED
      BY <2>1, <2>2
  <1>4. OneOrigin'
    BY DEF Copies, OneOrigin, NoNewCode, CodesKept
  <1>5. SkipWasAgreed'
    BY DEF Copies, SkipWasAgreed, NoNewConsent, Frozen, IsConsent
  <1> QED
    BY <1>1, <1>2, <1>3, <1>4, <1>5 DEF Copies

\* A click that does not move holds what it held, if nobody uses its right.
LEMMA HeldStays ==
  ASSUME FlowInv, Frozen, CodesKept, NEW v \in Browsers, Held(v), browser'[v] = browser[v],
         \A g \in Challenges : (LoginDone(v) /\ IsConsent(g)' /\ ~IsConsent(g))
                                 => challenges'[g].login # browser[v].challenge,
         \A c \in Created' : (ConsentDone(v) /\ c \notin Created)
                                 => origin'[c].challenge # browser[v].challenge
  PROVE  Held(v)'
  <1> DEFINE w == browser[v]
             h == w.challenge
  <1>1. CASE w.pc = "idle"
    BY <1>1 DEF Held, LoginDone, ConsentDone
  <1>2. CASE w.pc # "idle"
    <2>1. h \in Challenges /\ challenges[h].kind # "none" /\ challenges[h] \in Challenge
      BY <1>2, ClickType DEF ClickFits
    <2>2. /\ challenges'[h].kind = challenges[h].kind /\ challenges'[h].client = challenges[h].client
          /\ challenges[h].kind = "consent" => challenges'[h].user = challenges[h].user
          /\ challenges[h].state = "decided" => challenges'[h] = challenges[h]
      BY <2>1 DEF Frozen, IsConsent, Decided
    <2>3. LoginDone(v) => \A g \in Challenges : IsConsent(g)' => challenges'[g].login # h
      BY DEF Held, Frozen, IsConsent
    <2>4. ConsentDone(v) => \A c \in Created' : origin'[c].challenge # h
      BY DEF Held, CodesKept
    <2>5. (w.pc = "askConsent" => w.scopes = {} \/ Agreement(w.user, challenges[h].client, w.scopes))'
      BY <2>2 DEF Held, Agreement, Frozen
    <2>6. (LoginDone(v) => challenges[h].kind = "login" /\ challenges[h].state = "decided"
                             /\ challenges[h].user = w.user)'
      BY <2>2 DEF Held, LoginDone
    <2>7. (ConsentDone(v) => /\ challenges[h].kind = "consent" /\ challenges[h].state = "decided"
                             /\ challenges[h].user = w.user /\ challenges[h].granted = w.scopes)'
      BY <2>2 DEF Held, ConsentDone
    <2>8. /\ w.pc = "decideLogin" => challenges'[h].kind = "login"
          /\ w.pc = "decideConsent" => challenges'[h].kind = "consent"
          /\ w.pc \in {"decideConsent", "reject"} =>
               (challenges'[h].kind = "consent" => w.user = challenges'[h].user)
      BY <2>2 DEF Held
    <2>9. (LoginDone(v)' <=> LoginDone(v)) /\ (ConsentDone(v)' <=> ConsentDone(v))
      BY DEF LoginDone, ConsentDone
    <2> QED
      BY <2>3, <2>4, <2>5, <2>6, <2>7, <2>8, <2>9 DEF Held
  <1> QED
    BY <1>1, <1>2

\* What a click has done stays, and what it does now it alone can have done.
OnlyNew(b) ==
  /\ LoginDone(b)' => \/ LoginDone(b) /\ browser'[b].challenge = browser[b].challenge
                      \/ ~Decided(browser'[b].challenge)
  /\ ConsentDone(b)' => \/ ConsentDone(b) /\ browser'[b].challenge = browser[b].challenge
                        \/ ~Decided(browser'[b].challenge)

LEMMA AloneStays ==
  ASSUME Holds, NEW b \in Browsers, OnlyNew(b), \A v \in Browsers : v # b => browser'[v] = browser[v]
  PROVE  Alone'
  <1>1. \A v \in Browsers : v # b => (LoginDone(v)' <=> LoginDone(v)) /\ (ConsentDone(v)' <=> ConsentDone(v))
    BY DEF LoginDone, ConsentDone
  <1>2. \A v \in Browsers : LoginDone(v) \/ ConsentDone(v) => Decided(browser[v].challenge)
    BY DEF Holds, Held, Decided
  <1>3. ASSUME NEW v \in Browsers, v # b, browser'[b].challenge = browser[v].challenge,
               (LoginDone(b)' /\ LoginDone(v)) \/ (ConsentDone(b)' /\ ConsentDone(v))
        PROVE  FALSE
    <2>1. Decided(browser[v].challenge)
      BY <1>2, <1>3
    <2> QED
      BY <1>3, <2>1 DEF OnlyNew, Holds, Alone
  <1>4. ASSUME NEW v \in Browsers, NEW x \in Browsers, v # b, x # b,
               (LoginDone(v) /\ LoginDone(x)) \/ (ConsentDone(v) /\ ConsentDone(x)),
               browser[v].challenge = browser[x].challenge
        PROVE  v = x
    BY <1>4 DEF Holds, Alone
  <1> QED
    BY <1>1, <1>3, <1>4 DEF Alone

LEMMA RemembranceStays ==
  ASSUME Remembrance, UNCHANGED remembered, agreed \subseteq agreed'
  PROVE  Remembrance'
  BY DEF Remembrance, Agreement

\* A step of one click that creates no consent and no code.
LEMMA ClickInv ==
  ASSUME FlowInv, DecisionInv, Remembrance', Frozen, CodesKept, NoNewConsent, NoNewCode,
         NEW b \in Browsers, NEW w, Do(b, w), Held(b)', OnlyNew(b)
  PROVE  DecisionInv'
  <1>1. Copies'
    BY CopiesStay DEF DecisionInv
  <1>2. \A v \in Browsers : v # b => browser'[v] = browser[v]
    BY DEF Do, FlowInv, FlowTypeOK
  <1>3. ASSUME NEW v \in Browsers, v # b PROVE Held(v)'
    BY <1>2, <1>3, HeldStays DEF DecisionInv, Holds, NoNewConsent, NoNewCode
  <1>4. Alone'
    BY <1>2, AloneStays DEF DecisionInv
  <1> QED
    BY <1>1, <1>3, <1>4 DEF DecisionInv, Holds

\* One in which no click moves.
LEMMA NoClickInv ==
  ASSUME FlowInv, DecisionInv, Remembrance', Frozen, CodesKept, NoNewConsent, NoNewCode,
         UNCHANGED browser
  PROVE  DecisionInv'
  <1>1. Copies'
    BY CopiesStay DEF DecisionInv
  <1>2. ASSUME NEW v \in Browsers PROVE Held(v)'
    BY HeldStays DEF DecisionInv, Holds, NoNewConsent, NoNewCode
  <1>3. Alone'
    BY DEF DecisionInv, Holds, Alone, LoginDone, ConsentDone
  <1> QED
    BY <1>1, <1>2, <1>3 DEF DecisionInv, Holds

\* A click that is done holds nothing.
LEMMA DoneHeld ==
  ASSUME FlowInv, NEW b \in Browsers, Done(b)
  PROVE  Held(b)' /\ OnlyNew(b) /\ Do(b, Waiting)
  <1>1. browser'[b] = Waiting
    BY DEF Done, Do, FlowInv, FlowTypeOK
  <1> QED
    BY <1>1 DEF Held, OnlyNew, LoginDone, ConsentDone, Waiting, Done

LEMMA DoClick ==
  ASSUME FlowInv, NEW b \in Browsers, NEW w, Do(b, w)
  PROVE  browser'[b] = w
  BY DEF Do, FlowInv, FlowTypeOK

LEMMA InitConsent == Init => DecisionInv
  <1> SUFFICES ASSUME Init PROVE DecisionInv
    OBVIOUS
  <1>1. \A h \in Challenges : challenges[h].kind = "none"
    BY DEF Init, NoChallenge
  <1>2. Created = {}
    BY DEF Init, TokensInit, Created
  <1>3. Copies
    BY <1>1, <1>2 DEF Copies, ConsentFits, OneConsent, CodeFits, OneOrigin, SkipWasAgreed, IsConsent
  <1>4. Holds
    BY DEF Init, Waiting, Holds, Held, Alone, LoginDone, ConsentDone
  <1>5. Remembrance
    BY DEF Init, Remembrance
  <1> QED
    BY <1>3, <1>4, <1>5 DEF DecisionInv

----------------------------------------------------------------------------
\* Reading

LEMMA LoginReadConsent ==
  ASSUME FlowInv, DecisionInv, NEW b \in Browsers, NEW u \in Users, NEW h \in Challenges,
         LoginRead(b, u, h)
  PROVE  DecisionInv'
  <1> DEFINE w == [pc |-> "decideLogin", challenge |-> h, user |-> u,
                   scopes |-> challenges[h].requested]
  <1>1. /\ Do(b, w) /\ UNCHANGED <<codes, challenges, remembered, agreed, origin>>
        /\ challenges[h].kind = "login"
    BY DEF LoginRead, Open, tokensVars
  <1>2. browser'[b] = w
    BY <1>1, DoClick
  <1>3. Held(b)' /\ OnlyNew(b)
    BY <1>1, <1>2 DEF Held, OnlyNew, LoginDone, ConsentDone
  <1>4. Remembrance'
    BY <1>1, RemembranceStays DEF DecisionInv
  <1> QED
    BY <1>1, <1>3, <1>4, SameFrozen, SameCodes, ClickInv

LEMMA ConsentReadConsent ==
  ASSUME FlowInv, DecisionInv, NEW b \in Browsers, NEW u \in Users, NEW h \in Challenges,
         NEW ticked \in SUBSET Scopes, ConsentRead(b, u, h, ticked)
  PROVE  DecisionInv'
  <1> DEFINE w == [pc |-> "decideConsent", challenge |-> h, user |-> u,
                   scopes |-> Ticked(challenges[h].requested, ticked)]
  <1>1. /\ Do(b, w) /\ UNCHANGED <<codes, challenges, remembered, agreed, origin>>
        /\ challenges[h].kind = "consent" /\ challenges[h].user = u
    BY DEF ConsentRead, Open, tokensVars
  <1>2. browser'[b] = w
    BY <1>1, DoClick
  <1>3. Held(b)' /\ OnlyNew(b)
    BY <1>1, <1>2 DEF Held, OnlyNew, LoginDone, ConsentDone
  <1>4. Remembrance'
    BY <1>1, RemembranceStays DEF DecisionInv
  <1> QED
    BY <1>1, <1>3, <1>4, SameFrozen, SameCodes, ClickInv

LEMMA RejectReadConsent ==
  ASSUME FlowInv, DecisionInv, NEW b \in Browsers, NEW h \in Challenges, RejectRead(b, h)
  PROVE  DecisionInv'
  <1> DEFINE w == [pc |-> "reject", challenge |-> h, user |-> challenges[h].user, scopes |-> {}]
  <1>1. Do(b, w) /\ UNCHANGED <<codes, challenges, remembered, agreed, origin>>
    BY DEF RejectRead, tokensVars
  <1>2. browser'[b] = w
    BY <1>1, DoClick
  <1>3. Held(b)' /\ OnlyNew(b)
    BY <1>1, <1>2 DEF Held, OnlyNew, LoginDone, ConsentDone
  <1>4. Remembrance'
    BY <1>1, RemembranceStays DEF DecisionInv
  <1> QED
    BY <1>1, <1>3, <1>4, SameFrozen, SameCodes, ClickInv

LEMMA LoginRememberConsent ==
  ASSUME FlowInv, DecisionInv, NEW b \in Browsers, LoginRemember(b)
  PROVE  DecisionInv'
  <1> DEFINE w == browser[b]
             k == challenges[w.challenge].client
             s == remembered[w.user][k]
             x == [w EXCEPT !.pc = "askConsent", !.scopes = s]
  <1>1. /\ w \in Click /\ w.pc = "remember" /\ ClickFits(b) /\ k \in Clients
    BY ClickType DEF LoginRemember
  <1>2. w.user \in Users /\ Held(b) /\ LoginDone(b)
    BY <1>1 DEF ClickFits, DecisionInv, Holds, LoginDone
  <1>3. s = {} \/ Agreement(w.user, k, s)
    BY <1>1, <1>2 DEF DecisionInv, Remembrance
  <1>4. Do(b, x) /\ UNCHANGED <<codes, challenges, remembered, agreed, origin>>
    BY DEF LoginRemember, tokensVars
  <1>5. /\ x.pc = "askConsent" /\ x.challenge = w.challenge /\ x.user = w.user /\ x.scopes = s
    BY <1>1 DEF Click
  <1>6. browser'[b] = x
    BY <1>4, DoClick
  <1> HIDE DEF x
  <1>7. LoginDone(b)' /\ ~ConsentDone(b)' /\ browser'[b].challenge = w.challenge
    BY <1>5, <1>6 DEF LoginDone, ConsentDone
  <1>8. OnlyNew(b)
    BY <1>2, <1>7 DEF OnlyNew
  <1> HIDE DEF s
  <1>9. x.scopes = {} \/ [user |-> x.user, client |-> k, scopes |-> x.scopes] \in agreed
    BY <1>3, <1>5 DEF Agreement
  <1>10. /\ challenges[w.challenge].kind = "login" /\ challenges[w.challenge].state = "decided"
         /\ challenges[w.challenge].user = w.user
         /\ \A g \in Challenges : IsConsent(g) => challenges[g].login # w.challenge
    BY <1>2 DEF Held
  <1>11. UNCHANGED <<challenges, agreed>>
    BY <1>4
  <1>12. Held(b)'
    BY <1>5, <1>6, <1>7, <1>9, <1>10, <1>11 DEF Held, IsConsent, Agreement
  <1>13. Remembrance'
    BY <1>4, RemembranceStays DEF DecisionInv
  <1> QED
    BY <1>4, <1>8, <1>12, <1>13, SameFrozen, SameCodes, ClickInv

LEMMA AbandonConsent ==
  ASSUME FlowInv, DecisionInv, NEW b \in Browsers, Abandon(b)
  PROVE  DecisionInv'
  <1>1. Done(b) /\ UNCHANGED <<codes, challenges, remembered, agreed, origin>>
    BY DEF Abandon, tokensVars
  <1>2. Remembrance'
    BY <1>1, RemembranceStays DEF DecisionInv
  <1> QED
    BY <1>1, <1>2, DoneHeld, SameFrozen, SameCodes, ClickInv

LEMMA ForgetConsent ==
  ASSUME FlowInv, DecisionInv, NEW u \in Users, NEW k \in Clients, Forget(u, k)
  PROVE  DecisionInv'
  <1>1. /\ UNCHANGED <<codes, challenges, browser, agreed, origin>>
        /\ remembered' = [remembered EXCEPT ![u][k] = {}]
    BY DEF Forget, tokensVars
  <1>2. \A v \in Users, x \in Clients : remembered'[v][x] \in {{}, remembered[v][x]}
    BY <1>1 DEF FlowInv, FlowTypeOK
  <1>3. Remembrance'
    BY <1>1, <1>2 DEF DecisionInv, Remembrance, Agreement
  <1> QED
    BY <1>1, <1>3, SameFrozen, SameCodes, NoClickInv

----------------------------------------------------------------------------
\* Deciding

LEMMA DecideFrozen ==
  ASSUME FlowInv, NEW h \in Challenges, NEW u, NEW s, challenges[h].kind # "none",
         IsConsent(h) => challenges[h].user = u, Decide(h, u, s), UNCHANGED agreed
  PROVE  /\ Frozen /\ NoNewConsent /\ ~Decided(h)
         /\ challenges'[h].kind = challenges[h].kind /\ challenges'[h].state = "decided"
         /\ challenges'[h].granted = s /\ (u # NoUser => challenges'[h].user = u)
         /\ \A g \in Challenges : g # h => challenges'[g] = challenges[g]
  <1> DEFINE c == challenges[h]
             x == IF u = NoUser THEN c.user ELSE u
             d == [c EXCEPT !.state = "decided", !.granted = s, !.user = x]
  <1>1. c \in Challenge
    BY ChallengeRow
  <1>2. /\ d.kind = c.kind /\ d.client = c.client /\ d.login = c.login /\ d.skip = c.skip
        /\ d.requested = c.requested /\ d.state = "decided" /\ d.granted = s /\ d.user = x
    BY <1>1 DEF Challenge
  <1>3. challenges' = [challenges EXCEPT ![h] = d] /\ c.state = "open"
    BY DEF Decide, DecidableNow, FlowInv, FlowTypeOK
  <1>4. c = challenges[h] /\ (u # NoUser => x = u) /\ (c.kind = "consent" => x = c.user)
    BY DEF IsConsent
  <1> HIDE DEF c, x, d
  <1>5. /\ challenges'[h] = d
        /\ \A g \in Challenges : g # h => challenges'[g] = challenges[g]
    BY <1>3 DEF FlowInv, FlowTypeOK
  <1>6. ~Decided(h)
    BY <1>3, <1>4 DEF Decided
  <1>7. NoNewConsent
    BY <1>2, <1>4, <1>5 DEF NoNewConsent, IsConsent
  <1>8. Frozen
    BY <1>2, <1>4, <1>5, <1>6 DEF Frozen, IsConsent
  <1> QED
    BY <1>2, <1>4, <1>5, <1>6, <1>7, <1>8

\* A consent comes from a decided login and a code from a decided consent, so nothing comes
\* from a challenge that is still open.
LEMMA OpenUnused ==
  ASSUME FlowInv, DecisionInv, NEW h \in Challenges, ~Decided(h)
  PROVE  /\ \A g \in Challenges : IsConsent(g) => challenges[g].login # h
         /\ \A c \in Created : origin[c].challenge # h
  <1>1. ASSUME NEW g \in Challenges, IsConsent(g) PROVE challenges[g].login # h
    BY <1>1 DEF DecisionInv, Copies, ConsentFits, Decided
  <1>2. ASSUME NEW c \in Created PROVE origin[c].challenge # h
    BY <1>2 DEF DecisionInv, Copies, CodeFits, ConsentOf, Decided, Created
  <1> QED
    BY <1>1, <1>2

LEMMA LoginDecideConsent ==
  ASSUME FlowInv, DecisionInv, NEW b \in Browsers, LoginDecide(b)
  PROVE  DecisionInv'
  <1> DEFINE w == browser[b]
             h == w.challenge
             x == [w EXCEPT !.pc = "remember"]
  <1>1. /\ w \in Click /\ w.pc = "decideLogin" /\ ClickFits(b) /\ h \in Challenges /\ Held(b)
    BY ClickType DEF LoginDecide, DecisionInv, Holds
  <1>2. /\ challenges[h].kind = "login" /\ w.user \in Users /\ w.user # NoUser
    BY <1>1, OidcAssumption DEF ClickFits, Held
  <1>3. /\ Do(b, x) /\ Decide(h, w.user, w.scopes)
        /\ UNCHANGED <<codes, remembered, agreed, origin>>
    BY DEF LoginDecide, tokensVars
  <1>4. /\ Frozen /\ NoNewConsent /\ ~Decided(h)
        /\ challenges'[h].kind = "login" /\ challenges'[h].state = "decided"
        /\ challenges'[h].user = w.user
    BY <1>1, <1>2, <1>3, DecideFrozen DEF IsConsent
  <1>5. /\ x.pc = "remember" /\ x.challenge = h /\ x.user = w.user
    BY <1>1 DEF Click
  <1>6. browser'[b] = x
    BY <1>3, DoClick
  <1>7. \A g \in Challenges : IsConsent(g)' => challenges'[g].login # h
    BY <1>1, <1>4, OpenUnused DEF NoNewConsent, Frozen, IsConsent
  <1> HIDE DEF x, w
  <1>8. LoginDone(b)' /\ ~ConsentDone(b)' /\ browser'[b].challenge = h
    BY <1>5, <1>6 DEF LoginDone, ConsentDone
  <1>9. OnlyNew(b)
    BY <1>4, <1>8 DEF OnlyNew
  <1>10. Held(b)'
    BY <1>4, <1>5, <1>6, <1>7, <1>8 DEF Held
  <1>11. Remembrance'
    BY <1>3, RemembranceStays DEF DecisionInv
  <1> QED
    BY <1>3, <1>4, <1>9, <1>10, <1>11, SameCodes, ClickInv

LEMMA ConsentDecideConsent ==
  ASSUME FlowInv, DecisionInv, NEW b \in Browsers, ConsentDecide(b)
  PROVE  DecisionInv'
  <1> DEFINE w == browser[b]
             h == w.challenge
             x == [w EXCEPT !.pc = "save"]
  <1>1. /\ w \in Click /\ w.pc = "decideConsent" /\ ClickFits(b) /\ h \in Challenges /\ Held(b)
    BY ClickType DEF ConsentDecide, DecisionInv, Holds
  <1>2. /\ challenges[h].kind = "consent" /\ challenges[h].user = w.user
        /\ w.user \in Users /\ w.user # NoUser
    BY <1>1, OidcAssumption DEF ClickFits, Held
  <1>3. /\ Do(b, x) /\ Decide(h, w.user, w.scopes)
        /\ UNCHANGED <<codes, remembered, agreed, origin>>
    BY DEF ConsentDecide, tokensVars
  <1>4. /\ Frozen /\ NoNewConsent /\ ~Decided(h)
        /\ challenges'[h].kind = "consent" /\ challenges'[h].state = "decided"
        /\ challenges'[h].user = w.user /\ challenges'[h].granted = w.scopes
    BY <1>1, <1>2, <1>3, DecideFrozen DEF IsConsent
  <1>5. /\ x.pc = "save" /\ x.challenge = h /\ x.user = w.user /\ x.scopes = w.scopes
    BY <1>1 DEF Click
  <1>6. browser'[b] = x
    BY <1>3, DoClick
  <1>7. CodesKept /\ NoNewCode /\ \A c \in Created' : origin'[c].challenge # h
    BY <1>1, <1>3, <1>4, OpenUnused, SameCodes DEF NoNewCode
  <1> HIDE DEF x, w
  <1>8. ConsentDone(b)' /\ ~LoginDone(b)' /\ browser'[b].challenge = h
    BY <1>5, <1>6 DEF LoginDone, ConsentDone
  <1>9. OnlyNew(b)
    BY <1>4, <1>8 DEF OnlyNew
  <1>10. Held(b)'
    BY <1>4, <1>5, <1>6, <1>7, <1>8 DEF Held
  <1>11. Remembrance'
    BY <1>3, RemembranceStays DEF DecisionInv
  <1> QED
    BY <1>3, <1>4, <1>7, <1>9, <1>10, <1>11, ClickInv

LEMMA RejectDecideConsent ==
  ASSUME FlowInv, DecisionInv, NEW b \in Browsers, RejectDecide(b)
  PROVE  DecisionInv'
  <1> DEFINE w == browser[b]
             h == w.challenge
  <1>1. /\ w.pc = "reject" /\ ClickFits(b) /\ h \in Challenges /\ Held(b)
    BY ClickType DEF RejectDecide, DecisionInv, Holds
  <1>2. challenges[h].kind # "none" /\ (IsConsent(h) => challenges[h].user = w.user)
    BY <1>1 DEF ClickFits, Held, IsConsent
  <1>3. /\ Done(b) /\ Decide(h, w.user, {})
        /\ UNCHANGED <<codes, remembered, agreed, origin>>
    BY DEF RejectDecide, tokensVars
  <1>4. Frozen /\ NoNewConsent
    BY <1>1, <1>2, <1>3, DecideFrozen
  <1>5. Remembrance'
    BY <1>3, RemembranceStays DEF DecisionInv
  <1> QED
    BY <1>3, <1>4, <1>5, DoneHeld, SameCodes, ClickInv

LEMMA ConsentSaveConsent ==
  ASSUME FlowInv, DecisionInv, NEW b \in Browsers, ConsentSave(b)
  PROVE  DecisionInv'
  <1> DEFINE w == browser[b]
             h == w.challenge
             k == challenges[h].client
             x == [w EXCEPT !.pc = "code"]
  <1>1. /\ w \in Click /\ w.pc = "save" /\ ClickFits(b) /\ h \in Challenges /\ k \in Clients
        /\ ConsentDone(b) /\ Held(b)
    BY ClickType DEF ConsentSave, DecisionInv, Holds, ConsentDone
  <1>2. w.user \in Users
    BY <1>1 DEF ClickFits
  <1>3. /\ Do(b, x) /\ UNCHANGED <<codes, challenges, origin>>
        /\ remembered' = [remembered EXCEPT ![w.user][k] = w.scopes]
        /\ agreed' = agreed \cup {[user |-> w.user, client |-> k, scopes |-> w.scopes]}
    BY DEF ConsentSave, tokensVars
  <1>4. /\ x.pc = "code" /\ x.challenge = h /\ x.user = w.user /\ x.scopes = w.scopes
    BY <1>1 DEF Click
  <1>5. browser'[b] = x
    BY <1>3, DoClick
  <1>6. /\ challenges[h].kind = "consent" /\ challenges[h].state = "decided"
        /\ challenges[h].user = w.user /\ challenges[h].granted = w.scopes
        /\ \A c \in Created : origin[c].challenge # h
    BY <1>1 DEF Held
  <1>7. CodesKept /\ NoNewCode /\ \A c \in Created' : origin'[c].challenge # h
    BY <1>3, <1>6, SameCodes DEF NoNewCode
  <1> HIDE DEF x, w
  <1>8. ConsentDone(b)' /\ ~LoginDone(b)' /\ browser'[b].challenge = h
    BY <1>4, <1>5 DEF LoginDone, ConsentDone
  <1>9. OnlyNew(b)
    BY <1>1, <1>8 DEF OnlyNew, w
  <1>10. Held(b)'
    BY <1>3, <1>4, <1>5, <1>6, <1>7, <1>8 DEF Held
  <1>11. Remembrance'
    <2>1. \A u \in Users, y \in Clients :
            remembered'[u][y] = IF u = w.user /\ y = k THEN w.scopes ELSE remembered[u][y]
      BY <1>1, <1>2, <1>3 DEF FlowInv, FlowTypeOK
    <2> QED
      BY <1>3, <2>1 DEF DecisionInv, Remembrance, Agreement
  <1> QED
    BY <1>3, <1>7, <1>9, <1>10, <1>11, SameFrozen, ClickInv

----------------------------------------------------------------------------
\* New challenges and new codes

LEMMA AuthorizeConsent ==
  ASSUME FlowInv, DecisionInv, NEW h \in Challenges, NEW k \in Clients, NEW s \in SUBSET Scopes,
         Authorize(h, k, s)
  PROVE  DecisionInv'
  <1>1. PICK d : /\ d.kind = "login" /\ challenges[h].kind = "none"
                 /\ challenges' = [challenges EXCEPT ![h] = d]
    BY Zenon DEF Authorize
  <1>2. UNCHANGED <<codes, remembered, browser, agreed, origin>>
    BY DEF Authorize, tokensVars
  <1>3. challenges'[h] = d /\ \A g \in Challenges : g # h => challenges'[g] = challenges[g]
    BY <1>1 DEF FlowInv, FlowTypeOK
  <1>4. Frozen /\ NoNewConsent
    BY <1>1, <1>2, <1>3 DEF Frozen, NoNewConsent, IsConsent, Decided
  <1>5. Remembrance'
    BY <1>2, RemembranceStays DEF DecisionInv
  <1> QED
    BY <1>2, <1>4, <1>5, SameCodes, NoClickInv

\* A login has one consent: the click that asks for it holds the only right to it.
LEMMA LoginAskConsent ==
  ASSUME FlowInv, DecisionInv, NEW b \in Browsers, NEW h \in Challenges, LoginAsk(b, h)
  PROVE  DecisionInv'
  <1> DEFINE w == browser[b]
             l == challenges[w.challenge]
             new == [kind |-> "consent", state |-> "open", client |-> l.client, user |-> w.user,
                     requested |-> l.requested, granted |-> {},
                     skip |-> CoversAll(w.scopes, l.requested), login |-> w.challenge]
  <1>1. /\ w.pc = "askConsent" /\ w.challenge \in Challenges /\ Held(b) /\ LoginDone(b)
    BY ClickType DEF LoginAsk, DecisionInv, Holds, LoginDone
  <1>2. /\ l.kind = "login" /\ l.state = "decided" /\ l.user = w.user
        /\ \A g \in Challenges : IsConsent(g) => challenges[g].login # w.challenge
        /\ w.scopes = {} \/ Agreement(w.user, l.client, w.scopes)
    BY <1>1 DEF Held
  <1>3. /\ challenges[h].kind = "none" /\ challenges' = [challenges EXCEPT ![h] = new] /\ Done(b)
        /\ UNCHANGED <<codes, remembered, agreed, origin>>
    BY DEF LoginAsk, tokensVars
  <1>4. PICK d : d = new
    OBVIOUS
  <1>5. /\ d.kind = "consent" /\ d.client = l.client /\ d.user = w.user
        /\ d.requested = l.requested /\ d.login = w.challenge
        /\ d.skip = CoversAll(w.scopes, l.requested)
    BY <1>4
  <1>6. /\ challenges'[h] = d /\ h # w.challenge
        /\ \A g \in Challenges : g # h => challenges'[g] = challenges[g]
    BY <1>2, <1>3, <1>4 DEF FlowInv, FlowTypeOK
  <1> HIDE DEF new
  <1>7. Frozen
    BY <1>3, <1>6 DEF Frozen, IsConsent, Decided
  <1>8. \A g \in Challenges : g # h => (IsConsent(g)' <=> IsConsent(g))
    BY <1>6 DEF IsConsent
  <1>9. CodesKept /\ NoNewCode
    BY <1>3, SameCodes
  <1>10. ASSUME NEW g \in Challenges PROVE ConsentFits(g)'
    <2>1. CASE g = h
      BY <2>1, <1>1, <1>2, <1>5, <1>6 DEF ConsentFits
    <2>2. CASE g # h /\ IsConsent(g)
      BY <2>2, <1>7, FitsStay DEF DecisionInv, Copies
    <2>3. CASE g # h /\ ~IsConsent(g)
      BY <2>3, <1>8 DEF ConsentFits
    <2> QED
      BY <2>1, <2>2, <2>3
  <1>11. OneConsent'
    <2>1. \A g \in Challenges : g # h /\ IsConsent(g) => challenges'[g].login # challenges'[h].login
      BY <1>2, <1>5, <1>6
    <2>2. \A g, v \in Challenges :
            (g # h /\ v # h /\ IsConsent(g) /\ IsConsent(v) /\ challenges'[g].login = challenges'[v].login)
              => g = v
      BY <1>6 DEF DecisionInv, Copies, OneConsent
    <2> QED
      BY <1>8, <2>1, <2>2 DEF OneConsent
  <1>12. ASSUME NEW c \in Codes PROVE CodeFits(c)'
    BY <1>7, <1>9, CodeStays DEF DecisionInv, Copies, NoNewCode, CodeFits
  <1>13. OneOrigin'
    BY <1>9 DEF DecisionInv, Copies, OneOrigin, NoNewCode, CodesKept
  <1>14. SkipWasAgreed'
    <2> SUFFICES ASSUME NEW g \in Challenges, challenges'[g].kind = "consent", challenges'[g].skip
                 PROVE  \E a \in agreed : /\ a.user = challenges'[g].user
                                          /\ a.client = challenges'[g].client
                                          /\ challenges'[g].requested \subseteq a.scopes
      BY <1>3 DEF SkipWasAgreed
    <2>1. CASE g # h
      BY <2>1, <1>6 DEF DecisionInv, Copies, SkipWasAgreed
    <2>2. CASE g = h
      <3>1. CoversAll(w.scopes, l.requested)
        BY <2>2, <1>5, <1>6
      <3>2. l.requested \subseteq w.scopes /\ w.scopes # {}
        BY <3>1 DEF CoversAll
      <3>3. [user |-> w.user, client |-> l.client, scopes |-> w.scopes] \in agreed
        BY <3>2, <1>2 DEF Agreement
      <3> QED
        BY <2>2, <3>2, <3>3, <1>5, <1>6
    <2> QED
      BY <2>1, <2>2
  <1>15. Copies'
    BY <1>10, <1>11, <1>12, <1>13, <1>14 DEF Copies
  <1>16. Held(b)' /\ OnlyNew(b) /\ \A v \in Browsers : v # b => browser'[v] = browser[v]
    BY <1>3, DoneHeld DEF Done, Do, FlowInv, FlowTypeOK
  <1>17. ASSUME NEW v \in Browsers, v # b PROVE Held(v)'
    <2>1. LoginDone(v) => browser[v].challenge # w.challenge
      BY <1>1, <1>17 DEF DecisionInv, Holds, Alone
    <2>2. \A g \in Challenges : (LoginDone(v) /\ IsConsent(g)' /\ ~IsConsent(g))
            => challenges'[g].login # browser[v].challenge
      BY <1>5, <1>6, <1>8, <2>1
    <2> QED
      BY <2>2, <1>7, <1>9, <1>16, <1>17, HeldStays DEF DecisionInv, Holds, NoNewCode
  <1>18. Alone'
    BY <1>16, AloneStays DEF DecisionInv
  <1>19. Remembrance'
    BY <1>3, RemembranceStays DEF DecisionInv
  <1> QED
    BY <1>15, <1>16, <1>17, <1>18, <1>19 DEF DecisionInv, Holds

\* A consent has one code, likewise.
LEMMA ConsentCodeConsent ==
  ASSUME FlowInv, TokensTypeOK, DecisionInv, NEW b \in Browsers, NEW c \in Codes, ConsentCode(b, c)
  PROVE  DecisionInv'
  <1> DEFINE w == browser[b]
             h == w.challenge
             new == [state |-> "fresh", user |-> w.user, client |-> challenges[h].client,
                     scopes |-> w.scopes]
  <1>1. /\ w.pc = "code" /\ h \in Challenges /\ Held(b) /\ ConsentDone(b) /\ ClickFits(b)
    BY ClickType DEF ConsentCode, DecisionInv, Holds, ConsentDone
  <1>2. /\ challenges[h].kind = "consent" /\ challenges[h].state = "decided"
        /\ challenges[h].user = w.user /\ challenges[h].granted = w.scopes
        /\ \A d \in Created : origin[d].challenge # h
        /\ w.scopes # {}
    BY <1>1 DEF Held, ClickFits
  <1>3. /\ codes[c].state = "none" /\ codes' = [codes EXCEPT ![c] = new]
        /\ origin' = [origin EXCEPT ![c] = [kind |-> "consent", challenge |-> h]]
        /\ Done(b) /\ UNCHANGED <<challenges, remembered, agreed>>
    BY DEF ConsentCode, CreateCode
  <1>4. PICK d : d = new
    OBVIOUS
  <1>5. d.state = "fresh" /\ d.user = w.user /\ d.client = challenges[h].client /\ d.scopes = w.scopes
    BY <1>4
  <1>6. /\ codes'[c] = d /\ origin'[c].kind = "consent" /\ origin'[c].challenge = h
        /\ \A x \in Codes : x # c => codes'[x] = codes[x] /\ origin'[x] = origin[x]
    BY <1>3, <1>4 DEF TokensTypeOK, FlowInv, FlowTypeOK
  <1> HIDE DEF new
  <1>7. c \notin Created /\ Created' = Created \cup {c}
    BY <1>3, <1>5, <1>6 DEF Created
  <1>8. Frozen /\ NoNewConsent
    BY <1>3, SameFrozen
  <1>9. CodesKept
    BY <1>6, <1>7 DEF CodesKept, Created
  <1>10. ASSUME NEW x \in Codes PROVE CodeFits(x)'
    <2>1. CASE x = c
      BY <2>1, <1>2, <1>3, <1>5, <1>6 DEF CodeFits, ConsentOf
    <2>2. CASE x \in Created
      BY <2>2, <1>8, <1>9, CodeStays DEF DecisionInv, Copies
    <2>3. CASE x # c /\ x \notin Created
      BY <2>3, <1>7 DEF CodeFits
    <2> QED
      BY <2>1, <2>2, <2>3
  <1>11. OneOrigin'
    BY <1>2, <1>6, <1>7, <1>9 DEF DecisionInv, Copies, OneOrigin, CodesKept, Created
  <1>12. (\A g \in Challenges : ConsentFits(g)) /\ OneConsent /\ SkipWasAgreed
    BY DEF DecisionInv, Copies
  <1>13. ((\A g \in Challenges : ConsentFits(g)) /\ OneConsent /\ SkipWasAgreed)'
    BY <1>12, <1>3 DEF ConsentFits, OneConsent, SkipWasAgreed, IsConsent
  <1>14. Copies'
    BY <1>10, <1>11, <1>13 DEF Copies
  <1>15. Held(b)' /\ OnlyNew(b) /\ \A v \in Browsers : v # b => browser'[v] = browser[v]
    BY <1>3, DoneHeld DEF Done, Do, FlowInv, FlowTypeOK
  <1>16. ASSUME NEW v \in Browsers, v # b PROVE Held(v)'
    <2>1. ConsentDone(v) => browser[v].challenge # h
      BY <1>1, <1>16 DEF DecisionInv, Holds, Alone
    <2>2. \A x \in Created' : (ConsentDone(v) /\ x \notin Created)
            => origin'[x].challenge # browser[v].challenge
      BY <1>6, <1>7, <2>1
    <2> QED
      BY <2>2, <1>8, <1>9, <1>15, <1>16, HeldStays DEF DecisionInv, Holds, NoNewConsent
  <1>17. Alone'
    BY <1>15, AloneStays DEF DecisionInv
  <1>18. Remembrance'
    BY <1>3, RemembranceStays DEF DecisionInv
  <1> QED
    BY <1>14, <1>15, <1>16, <1>17, <1>18 DEF DecisionInv, Holds

\* The token endpoint stamps a code and changes nothing else of it.
LEMMA TokenStepCodes ==
  ASSUME TokensTypeOK, TokenStep, UNCHANGED origin
  PROVE  CodesKept /\ NoNewCode
  <1>1. ASSUME NEW c \in Codes, codes[c].state = "fresh", SpendCode(c)
        PROVE  CodesKept /\ NoNewCode
    <2>1. codes[c] \in Code
      BY <1>1 DEF TokensTypeOK
    <2>2. PICK d : d = [codes[c] EXCEPT !.state = "used"]
      OBVIOUS
    <2>3. /\ d.state = "used" /\ d.user = codes[c].user /\ d.client = codes[c].client
          /\ d.scopes = codes[c].scopes
      BY <2>1, <2>2 DEF Code
    <2>4. codes'[c] = d /\ \A x \in Codes : x # c => codes'[x] = codes[x]
      BY <1>1, <2>2 DEF SpendCode, TokensTypeOK
    <2>5. NoNewCode
      BY <1>1, <2>3, <2>4 DEF NoNewCode, Created
    <2> QED
      BY <2>3, <2>4, <2>5 DEF CodesKept, NoNewCode, Created
  <1>2. CASE UNCHANGED codes
    BY <1>2, SameCodes
  <1>3. ASSUME NEW r \in Requests, RequestStep(r)
        PROVE  UNCHANGED codes \/ \E c \in Codes : codes[c].state = "fresh" /\ SpendCode(c)
    BY <1>3 DEF RequestStep, Exchange, ExchangeAgain, RevokeAll, Refresh, RefreshAgain,
                RevokeFamily, Issue, Reply, GiveUp
  <1>4. UNCHANGED codes \/ \E c \in Codes : codes[c].state = "fresh" /\ SpendCode(c)
    BY <1>3 DEF TokenStep, RevokeAccess, RevokeRefresh
  <1> QED
    BY <1>1, <1>2, <1>4

LEMMA NextConsent ==
  FlowInv /\ TokensTypeOK /\ DecisionInv /\ [Next]_vars => DecisionInv'
  <1> SUFFICES ASSUME FlowInv, TokensTypeOK, DecisionInv, [Next]_vars PROVE DecisionInv'
    OBVIOUS
  <1>1. ASSUME UNCHANGED flowVars, CodesKept, NoNewCode PROVE DecisionInv'
    <2>1. UNCHANGED <<challenges, remembered, browser, agreed, origin>>
      BY <1>1 DEF flowVars
    <2>2. Remembrance'
      BY <2>1, RemembranceStays DEF DecisionInv
    <2> QED
      BY <1>1, <2>1, <2>2, SameFrozen, NoClickInv
  <1>2. CASE TokenStep /\ UNCHANGED flowVars
    BY <1>1, <1>2, TokenStepCodes DEF flowVars
  <1>3. CASE UNCHANGED vars
    BY <1>1, <1>3, SameCodes DEF vars, tokensVars, flowVars
  <1>4. CASE FlowStep
    BY <1>4, AuthorizeConsent, LoginReadConsent, LoginDecideConsent, LoginRememberConsent,
       LoginAskConsent, ConsentReadConsent, ConsentDecideConsent, ConsentSaveConsent,
       ConsentCodeConsent, RejectReadConsent, RejectDecideConsent, AbandonConsent, ForgetConsent
    DEF FlowStep
  <1> QED
    BY <1>2, <1>3, <1>4 DEF Next

LEMMA ConsentFlow == Spec => [](FlowInv /\ Inv /\ DecisionInv)
  <1>1. Spec => [](FlowInv /\ Inv)
    BY InitFlow, FlowNext, ImplementsTokens, TokensInv, PTL DEF Spec
  <1>2. FlowInv /\ Inv /\ DecisionInv /\ [Next]_vars => DecisionInv'
    BY NextConsent DEF Inv
  <1> QED
    BY <1>1, <1>2, InitConsent, PTL DEF Spec

----------------------------------------------------------------------------
\* Theorems about the consents

(***************************************************************************)
(* OneCodePerLogin for any number of browsers: acceptLogin and             *)
(* acceptConsent decide a challenge in one UPDATE, and only the request    *)
(* that did goes on to the consent challenge, or to the code.              *)
(***************************************************************************)
THEOREM OneCode == Spec => []OneCodePerLogin
  <1>1. FlowInv /\ DecisionInv => OneCodePerLogin
    <2> SUFFICES ASSUME FlowInv, DecisionInv, NEW c \in Created, NEW d \in Created,
                        ConsentOf(c).login = ConsentOf(d).login
                 PROVE  c = d
      BY DEF OneCodePerLogin
    <2>1. \A x \in Created : origin[x].challenge \in Challenges /\ IsConsent(origin[x].challenge)
      BY OriginRow DEF DecisionInv, Copies, CodeFits, IsConsent, ConsentOf, Created
    <2>2. origin[c].challenge = origin[d].challenge
      BY <2>1 DEF DecisionInv, Copies, OneConsent, ConsentOf
    <2> QED
      BY <2>2 DEF DecisionInv, Copies, OneOrigin
  <1> QED
    BY <1>1, ConsentFlow, PTL

\* A code, the consent it came from and the login before that agree.
LEMMA CodeCopies == FlowInv /\ DecisionInv => CodeIsConsented
  <1> SUFFICES ASSUME FlowInv, DecisionInv, NEW c \in Created
               PROVE  /\ ConsentOf(c).kind = "consent" /\ LoginOf(c).kind = "login"
                      /\ codes[c].user = ConsentOf(c).user /\ codes[c].user = LoginOf(c).user
                      /\ codes[c].client = LoginOf(c).client
                      /\ codes[c].scopes = ConsentOf(c).granted
                      /\ codes[c].scopes # {} /\ codes[c].scopes \subseteq LoginOf(c).requested
    BY DEF CodeIsConsented
  <1>1. CodeFits(c)
    BY DEF DecisionInv, Copies, Created
  <1>2. origin[c].challenge \in Challenges
    BY <1>1, OriginRow DEF CodeFits, Created
  <1>3. ConsentFits(origin[c].challenge) /\ IsConsent(origin[c].challenge)
    BY <1>1, <1>2 DEF DecisionInv, Copies, CodeFits, IsConsent, ConsentOf
  <1>4. ConsentOf(c).granted \subseteq ConsentOf(c).requested
    BY <1>2, <1>3 DEF FlowInv, FlowTypeOK, ConsentOf, IsConsent
  <1> QED
    BY <1>1, <1>3, <1>4 DEF CodeFits, ConsentFits, ConsentOf, LoginOf

(***************************************************************************)
(* CodeIsConsented for any number of browsers, whoever accepts, rejects or *)
(* abandons what between the reading of a challenge and its decision.      *)
(***************************************************************************)
THEOREM CodeConsented == Spec => []CodeIsConsented
  BY ConsentFlow, CodeCopies, PTL

(***************************************************************************)
(* SkipWasAgreed, however the remembered consents of a citizen and a       *)
(* client replace each other and expire while a login is on its way.       *)
(***************************************************************************)
THEOREM SkipAgreed == Spec => []SkipWasAgreed
  <1>1. DecisionInv => SkipWasAgreed
    BY DEF DecisionInv, Copies
  <1> QED
    BY <1>1, ConsentFlow, PTL

\* The token endpoint's types on their own, which the run of the tokens checks.
THEOREM TokensTyped == Spec => []TokensTypeOK
  <1>1. Inv => TokensTypeOK
    BY DEF Inv
  <1> QED
    BY <1>1, ConsentFlow, PTL

\* A pair has been paid for by a code that was created, and used.
LEMMA PaidFor ==
  ASSUME Inv, NEW p \in Issued
  PROVE  pairs[p].code \in Created /\ codes[pairs[p].code].state = "used"
  <1>1. pairs[p].code \in Codes
    BY DEF Inv, TokensTypeOK, Pair
  <1>2. codes[pairs[p].code].state = "used"
    BY <1>1 DEF Inv, Baton, Unspent
  <1> QED
    BY <1>1, <1>2 DEF Created

(***************************************************************************)
(* End to end: every token ever stored, after any number of refreshes, is  *)
(* for the citizen and the client of a decided consent, and carries only   *)
(* scopes which that citizen granted in it and that client asked for.      *)
(***************************************************************************)
TokenIsConsented ==
  \A p \in Issued :
    LET c == pairs[p].code IN
    /\ c \in Created /\ ConsentOf(c).state = "decided"
    /\ codes[c].user = LoginOf(c).user /\ ClientOf(p) = LoginOf(c).client
    /\ pairs[p].scopes \subseteq ConsentOf(c).granted
    /\ pairs[p].scopes \subseteq LoginOf(c).requested

THEOREM TokensConsented == Spec => []TokenIsConsented
  <1>1. FlowInv /\ Inv /\ DecisionInv => TokenIsConsented
    <2> SUFFICES ASSUME FlowInv, Inv, DecisionInv, NEW p \in Issued, NEW c, c = pairs[p].code
                 PROVE  /\ c \in Created /\ ConsentOf(c).state = "decided"
                        /\ codes[c].user = LoginOf(c).user /\ codes[c].client = LoginOf(c).client
                        /\ pairs[p].scopes \subseteq ConsentOf(c).granted
                        /\ pairs[p].scopes \subseteq LoginOf(c).requested
      BY DEF TokenIsConsented, ClientOf
    <2>1. c \in Created
      BY PaidFor
    <2>2. ConsentOf(c).state = "decided"
      BY <2>1 DEF DecisionInv, Copies, CodeFits, Created
    <2>3. pairs[p].scopes \subseteq codes[c].scopes
      BY DEF Inv, Baton, ScopesOnlyNarrow
    <2> QED
      BY <2>1, <2>2, <2>3, CodeCopies DEF CodeIsConsented
  <1> QED
    BY <1>1, ConsentFlow, PTL

(***************************************************************************)
(* End to end: of all the refresh tokens that an authorize request has led *)
(* to, over every browser and every rotation, at most one can be used.     *)
(***************************************************************************)
OneLiveRefreshPerLogin ==
  \A p, q \in Pairs :
    (/\ refresh[p] = "live" /\ refresh[q] = "live"
     /\ ConsentOf(pairs[p].code).login = ConsentOf(pairs[q].code).login) => p = q

THEOREM OneRefreshPerLogin == Spec => []OneLiveRefreshPerLogin
  <1>1. Inv /\ OneCodePerLogin => OneLiveRefreshPerLogin
    <2> SUFFICES ASSUME Inv, OneCodePerLogin, NEW p \in Pairs, NEW q \in Pairs,
                        refresh[p] = "live", refresh[q] = "live",
                        ConsentOf(pairs[p].code).login = ConsentOf(pairs[q].code).login
                 PROVE  p = q
      BY DEF OneLiveRefreshPerLogin
    <2>1. p \in Issued /\ q \in Issued
      BY DEF Inv, TokensTypeOK
    <2>2. pairs[p].code = pairs[q].code
      BY <2>1, PaidFor DEF OneCodePerLogin
    <2> QED
      BY <2>2 DEF Inv, Baton, OneLiveRefresh
  <1> QED
    BY <1>1, ConsentFlow, OneCode, PTL

----------------------------------------------------------------------------
\* What a revocation ends

BeingIssued(c) == \E r \in Requests : Issuing(r) /\ request[r].code = c

\* Nothing of the grant of c can be used, and nothing can come of it.
Ended(c) ==
  /\ codes[c].state = "used"
  /\ ~ BeingIssued(c)
  /\ \A p \in Issued : pairs[p].code = c => access[p] = "revoked" /\ refresh[p] \in {"none", "revoked"}

\* A step that revokes the grant of c: a replay of the code, or of one of its
\* refresh tokens, or the client that asks for it.
Revokes(c) ==
  \/ \E r \in Requests : RevokeAll(r) /\ request[r].code = c
  \/ \E r \in Requests : RevokeFamily(r) /\ pairs[request[r].pair].code = c
  \/ \E p \in Issued : RevokeRefresh(p) /\ pairs[p].code = c

\* What a request that is to revoke has seen stays true.
RevokerOK(r) ==
  /\ request[r].pc = "revokeAll" => codes[request[r].code].state = "used"
  /\ request[r].pc = "revokeFamily" => refresh[request[r].pair] # "none"
RevokersOK == \A r \in Requests : RevokerOK(r)

LEMMA RevokersInit == TokensInit => RevokersOK
  BY DEF TokensInit, RevokersOK, RevokerOK, Idle

\* A request that goes on with what it was at.
LEMMA RevokerStays ==
  ASSUME TokensTypeOK, NEW r \in Requests, RevokerOK(r), request'[r] = request[r],
         \A c \in Codes : codes[c].state = "used" => codes'[c].state = "used",
         \A p \in Pairs : refresh[p] # "none" => refresh'[p] # "none"
  PROVE  RevokerOK(r)'
  <1>1. request[r].pc = "revokeAll" => request[r].code \in Codes
    BY RequestType DEF Working
  <1>2. request[r].pc = "revokeFamily" => request[r].pair \in Pairs
    BY DEF TokensTypeOK, Issued
  <1> QED
    BY <1>1, <1>2 DEF RevokerOK

\* What is consumed stays consumed.
Onward ==
  /\ \A c \in Codes : codes[c].state = "used" => codes'[c].state = "used"
  /\ \A p \in Pairs : refresh[p] # "none" => refresh'[p] # "none"

LEMMA SameOnward == UNCHANGED <<codes, refresh>> => Onward
  BY DEF Onward

LEMMA RevokeOnward ==
  ASSUME TokensTypeOK, NEW S, Revoke(S), UNCHANGED codes
  PROVE  Onward
  BY DEF Onward, Revoke

LEMMA RequestOnward ==
  ASSUME TokensTypeOK, NEW r \in Requests, RequestStep(r)
  PROVE  Onward
  <1>1. ASSUME NEW k \in Clients, NEW c \in Codes, NEW m \in BOOLEAN, Exchange(r, k, c, m)
        PROVE  Onward
    <2>1. codes[c] \in Code
      BY <1>1 DEF TokensTypeOK, Exchange
    <2>2. codes'[c].state = "used" /\ \A d \in Codes : d # c => codes'[d] = codes[d]
      BY <1>1, <2>1 DEF TokensTypeOK, Exchange, SpendCode, Code
    <2> QED
      BY <1>1, <2>2 DEF Onward, Exchange
  <1>2. ASSUME NEW k \in Clients, NEW p \in Pairs, NEW asked \in SUBSET Scopes, Refresh(r, k, p, asked)
        PROVE  Onward
    BY <1>2 DEF Onward, Refresh, SpendRefresh, TokensTypeOK
  <1>3. ASSUME NEW p \in Pairs, Issue(r, p) PROVE Onward
    <2>1. refresh[p] = "none"
      BY <1>3 DEF Issue, TokensTypeOK, Issued
    <2> QED
      BY <1>3, <2>1 DEF Onward, Issue, TokensTypeOK
  <1>4. CASE RevokeAll(r) \/ RevokeFamily(r)
    BY <1>4, RevokeOnward DEF RevokeAll, RevokeFamily
  <1>5. ASSUME \/ \E c \in Codes : ExchangeAgain(r, c)
               \/ \E p \in Pairs : RefreshAgain(r, p)
               \/ Reply(r) \/ GiveUp(r)
        PROVE  Onward
    BY <1>5, SameOnward DEF ExchangeAgain, RefreshAgain, Reply, GiveUp
  <1> QED
    BY <1>1, <1>2, <1>3, <1>4, <1>5 DEF RequestStep

\* What a request becomes when it starts to revoke.
LEMMA RequestRevoker ==
  ASSUME TokensTypeOK, NEW r \in Requests, RequestStep(r)
  PROVE  /\ \A v \in Requests : v # r => request'[v] = request[v]
         /\ \/ request'[r] = request[r]
            \/ request'[r].pc \notin {"revokeAll", "revokeFamily"}
            \/ request'[r].pc = "revokeAll" /\ codes'[request'[r].code].state = "used"
            \/ request'[r].pc = "revokeFamily" /\ refresh'[request'[r].pair] # "none"
  <1>1. ASSUME NEW k \in Clients, NEW c \in Codes, NEW m \in BOOLEAN, Exchange(r, k, c, m)
        PROVE  /\ \A v \in Requests : v # r => request'[v] = request[v]
               /\ request'[r] = request[r] \/ request'[r].pc = "issue"
    BY <1>1 DEF Exchange, Start, TokensTypeOK
  <1>2. ASSUME NEW c \in Codes, ExchangeAgain(r, c)
        PROVE  /\ \A v \in Requests : v # r => request'[v] = request[v]
               /\ request'[r].pc = "revokeAll" /\ codes'[request'[r].code].state = "used"
    BY <1>2 DEF ExchangeAgain, Start, TokensTypeOK
  <1>3. ASSUME NEW k \in Clients, NEW p \in Pairs, NEW asked \in SUBSET Scopes, Refresh(r, k, p, asked)
        PROVE  /\ \A v \in Requests : v # r => request'[v] = request[v]
               /\ \/ request'[r] = request[r] \/ request'[r].pc = "issue"
                  \/ request'[r].pc = "revokeFamily" /\ refresh'[request'[r].pair] # "none"
    <2>1. refresh'[p] = "consumed"
      BY <1>3 DEF Refresh, SpendRefresh, TokensTypeOK
    <2>2. \/ request' = request
          \/ \E s \in SUBSET Scopes : request' = [request EXCEPT ![r] = With(p, "issue", s)]
          \/ request' = [request EXCEPT ![r] = With(p, "revokeFamily", {})]
      <3>1. pairs[p] \in Pair
        BY <1>3 DEF Refresh, TokensTypeOK
      <3>2. Narrowed(pairs[p].scopes, asked) \in SUBSET Scopes
        BY <3>1 DEF Narrowed, Pair
      <3> QED
        BY <1>3, <3>2 DEF Refresh, Start
    <2> QED
      BY <2>1, <2>2 DEF With, TokensTypeOK
  <1>4. ASSUME NEW p \in Pairs, RefreshAgain(r, p)
        PROVE  /\ \A v \in Requests : v # r => request'[v] = request[v]
               /\ request'[r].pc = "revokeFamily" /\ refresh'[request'[r].pair] # "none"
    BY <1>4 DEF RefreshAgain, Start, With, TokensTypeOK
  <1>5. ASSUME NEW p \in Pairs, Issue(r, p)
        PROVE  /\ \A v \in Requests : v # r => request'[v] = request[v]
               /\ request'[r].pc = "reply"
    BY <1>5 DEF Issue, Start, TokensTypeOK
  <1>6. ASSUME RevokeAll(r) \/ RevokeFamily(r) \/ Reply(r) \/ GiveUp(r)
        PROVE  /\ \A v \in Requests : v # r => request'[v] = request[v]
               /\ request'[r].pc = "idle"
    BY <1>6 DEF RevokeAll, RevokeFamily, Reply, GiveUp, Finish, Idle, TokensTypeOK
  <1> QED
    BY <1>1, <1>2, <1>3, <1>4, <1>5, <1>6 DEF RequestStep

LEMMA RevokersNext == TokensTypeOK /\ RevokersOK /\ [TokensNext]_tokensVars => RevokersOK'
  <1> SUFFICES ASSUME TokensTypeOK, RevokersOK, [TokensNext]_tokensVars PROVE RevokersOK'
    OBVIOUS
  <1>1. ASSUME NEW r \in Requests, RequestStep(r) PROVE RevokersOK'
    <2>1. Onward
      BY <1>1, RequestOnward
    <2>2. ASSUME NEW v \in Requests, request'[v] = request[v] PROVE RevokerOK(v)'
      BY <2>1, <2>2, RevokerStays DEF Onward, RevokersOK
    <2>3. CASE request'[r] = request[r]
      BY <1>1, <2>2, <2>3, RequestRevoker DEF RevokersOK
    <2>4. CASE request'[r] # request[r]
      <3>1. RevokerOK(r)'
        BY <1>1, <2>4, RequestRevoker DEF RevokerOK
      <3> QED
        BY <1>1, <2>2, <3>1, RequestRevoker DEF RevokersOK
    <2> QED
      BY <2>3, <2>4
  <1>2. ASSUME UNCHANGED request, Onward PROVE RevokersOK'
    BY <1>2, RevokerStays DEF Onward, RevokersOK
  <1>3. ASSUME NEW p \in Pairs, RevokeAccess(p) \/ RevokeRefresh(p) PROVE RevokersOK'
    BY <1>2, <1>3, SameOnward, RevokeOnward DEF RevokeAccess, RevokeRefresh
  <1>4. CASE ConsentStep
    <2>1. Onward
      BY <1>4 DEF ConsentStep, CreateCode, tokenVars, TokensTypeOK, Onward
    <2> QED
      BY <1>2, <1>4, <2>1 DEF ConsentStep, tokenVars
  <1>5. CASE UNCHANGED tokensVars
    BY <1>2, <1>5, SameOnward DEF tokensVars, tokenVars
  <1> QED
    BY <1>1, <1>3, <1>4, <1>5 DEF TokensNext, TokenStep

LEMMA RevokeEnds ==
  ASSUME Inv, NEW c \in Codes, codes[c].state = "used", ~ BeingIssued(c), UNCHANGED <<codes, pairs>>,
         NEW S \in SUBSET Pairs, S \subseteq Issued, Revoke(S),
         \A p \in Issued : pairs[p].code = c => p \in S,
         \A r \in Requests : Issuing(r)' => request'[r] = request[r]
  PROVE  Ended(c)'
  <1>1. Issued' = Issued
    BY RevokeType DEF Inv
  <1>2. ~ BeingIssued(c)'
    BY DEF BeingIssued, Issuing
  <1>3. ASSUME NEW p \in Issued, pairs[p].code = c
        PROVE  access'[p] = "revoked" /\ refresh'[p] \in {"none", "revoked"}
    BY <1>3 DEF Revoke, Issued
  <1> QED
    BY <1>1, <1>2, <1>3 DEF Ended

\* A revocation reaches the whole grant, by the family that follows the chain of refreshes.
LEMMA RevokesEnds ==
  ASSUME Inv, RevokersOK, NEW c \in Codes, Revokes(c), ~ BeingIssued(c)
  PROVE  Ended(c)'
  <1>1. ASSUME NEW r \in Requests, RevokeAll(r), request[r].code = c PROVE Ended(c)'
    <2> DEFINE S == OfSubjectClient(codes[c].user, codes[c].client)
    <2>1. S \in SUBSET Pairs /\ S \subseteq Issued
      BY RevocationsReach
    <2>2. \A p \in Issued : pairs[p].code = c => p \in S
      BY DEF OfSubjectClient, UserOf, ClientOf
    <2>3. Revoke(S) /\ Finish(r) /\ UNCHANGED <<codes, pairs>> /\ codes[c].state = "used"
      BY <1>1 DEF RevokeAll, RevokersOK, RevokerOK
    <2> HIDE DEF S
    <2> QED
      BY <2>1, <2>2, <2>3, FinishQuiet, RevokeEnds DEF Inv
  <1>2. ASSUME NEW p \in Issued, pairs[p].code = c, refresh[p] # "none",
               Revoke(FamilyOf(pairs[p].family)), UNCHANGED <<codes, pairs>>,
               \A r \in Requests : Issuing(r)' => request'[r] = request[r]
        PROVE  Ended(c)'
    <2> DEFINE S == FamilyOf(pairs[p].family)
    <2>1. S \in SUBSET Pairs /\ S \subseteq Issued
      BY RevocationsReach
    <2>2. pairs[p].family # NoPair
      BY <1>2 DEF Inv, TokensTypeOK, Issued
    <2>3. \A q \in Issued : pairs[q].code = c => q \in S
      BY <1>2, <2>2 DEF FamilyOf, Inv, Baton, OneFamily
    <2>4. codes[c].state = "used"
      BY <1>2, PaidFor
    <2> HIDE DEF S
    <2>5. Revoke(S)
      BY <1>2 DEF S
    <2> QED
      BY <1>2, <2>1, <2>3, <2>4, <2>5, RevokeEnds
  <1>3. ASSUME NEW r \in Requests, RevokeFamily(r), pairs[request[r].pair].code = c PROVE Ended(c)'
    <2>1. request[r].pair \in Issued /\ refresh[request[r].pair] # "none"
      BY <1>3 DEF RevokeFamily, RevokersOK, RevokerOK, Inv, TokensTypeOK
    <2> QED
      BY <1>2, <1>3, <2>1, FinishQuiet DEF RevokeFamily, Inv
  <1>4. ASSUME NEW p \in Issued, RevokeRefresh(p), pairs[p].code = c PROVE Ended(c)'
    BY <1>2, <1>4 DEF RevokeRefresh, Issuing
  <1> QED
    BY <1>1, <1>3, <1>4 DEF Revokes

\* What has ended stays so: a step that stores or consumes something needs what is not there.
LEMMA EndedQuiet ==
  ASSUME Inv, NEW c \in Codes, Ended(c), codes'[c] = codes[c], pairs' = pairs, Issued' = Issued,
         \A p \in Issued : access[p] = "revoked" => access'[p] = "revoked",
         \A p \in Issued : refresh[p] \in {"none", "revoked"} => refresh'[p] \in {"none", "revoked"},
         \A r \in Requests : Issuing(r)' => request'[r].code # c \/ request'[r] = request[r]
  PROVE  Ended(c)'
  <1>1. ~ BeingIssued(c)'
    BY DEF Ended, BeingIssued, Issuing
  <1> QED
    BY <1>1 DEF Ended

LEMMA EndedRevoke ==
  ASSUME Inv, NEW c \in Codes, Ended(c), UNCHANGED <<codes, pairs>>,
         NEW S \in SUBSET Pairs, S \subseteq Issued, Revoke(S),
         \A r \in Requests : Issuing(r)' => request'[r] = request[r]
  PROVE  Ended(c)'
  <1>1. Issued' = Issued
    BY RevokeType DEF Inv
  <1>2. \A p \in Issued : /\ access[p] = "revoked" => access'[p] = "revoked"
                          /\ refresh[p] \in {"none", "revoked"} => refresh'[p] \in {"none", "revoked"}
    BY DEF Revoke, Issued
  <1> QED
    BY <1>1, <1>2, EndedQuiet

LEMMA EndedRequest ==
  ASSUME Inv, NEW c \in Codes, Ended(c), NEW r \in Requests, RequestStep(r)
  PROVE  Ended(c)'
  <1>1. ASSUME NEW k \in Clients, NEW d \in Codes, NEW m \in BOOLEAN, Exchange(r, k, d, m)
        PROVE  Ended(c)'
    <2>1. /\ d # c /\ codes'[c] = codes[c] /\ UNCHANGED <<pairs, access, refresh>> /\ Issued' = Issued
      BY <1>1 DEF Exchange, SpendCode, Ended, Issued, Inv, TokensTypeOK
    <2>2. \A v \in Requests : Issuing(v)' => request'[v].code # c \/ request'[v] = request[v]
      BY <1>1, <2>1 DEF Exchange, Start, Inv, TokensTypeOK
    <2> QED
      BY <2>1, <2>2, EndedQuiet
  <1>2. ASSUME NEW k \in Clients, NEW p \in Pairs, NEW asked \in SUBSET Scopes, Refresh(r, k, p, asked)
        PROVE  Ended(c)'
    <2>1. p \in Issued /\ refresh[p] = "live" /\ pairs[p].code # c
      BY <1>2 DEF Refresh, Ended, Inv, TokensTypeOK
    <2>2. /\ UNCHANGED <<codes, pairs, access>> /\ Issued' = Issued
          /\ \A q \in Issued : q # p => refresh'[q] = refresh[q]
      BY <1>2 DEF Refresh, SpendRefresh, Issued, Inv, TokensTypeOK
    <2>3. \A v \in Requests : Issuing(v)' => request'[v].code # c \/ request'[v] = request[v]
      <3>1. \/ request' = request
            \/ \E s \in {{}, Narrowed(pairs[p].scopes, asked)}, pc \in {"issue", "revokeFamily"} :
                 request' = [request EXCEPT ![r] = With(p, pc, s)]
        BY <1>2 DEF Refresh, Start
      <3> QED
        BY <2>1, <3>1 DEF With, Inv, TokensTypeOK
    <2> QED
      BY <2>1, <2>2, <2>3, EndedQuiet
  <1>3. ASSUME NEW p \in Pairs, Issue(r, p) PROVE Ended(c)'
    <2>1. request[r].code # c /\ p \notin Issued
      BY <1>3 DEF Issue, Ended, BeingIssued, Issuing, Issued
    <2>2. PICK row : row.code = request[r].code /\ pairs' = [pairs EXCEPT ![p] = row]
      BY <1>3, Zenon DEF Issue
    <2>3. /\ codes' = codes /\ Issued' = Issued \cup {p}
          /\ \A q \in Issued : /\ q # p /\ pairs'[q] = pairs[q] /\ access'[q] = access[q]
                               /\ refresh'[q] = refresh[q]
          /\ pairs'[p].code # c
      BY <1>3, <2>1, <2>2 DEF Issue, Issued, Inv, TokensTypeOK
    <2>4. ~ BeingIssued(c)'
      BY <1>3 DEF Issue, Start, Ended, BeingIssued, Issuing, Inv, TokensTypeOK
    <2> QED
      BY <2>3, <2>4 DEF Ended
  <1>4. ASSUME RevokeAll(r) \/ RevokeFamily(r) PROVE Ended(c)'
    <2>1. PICK S : S \in SUBSET Pairs /\ S \subseteq Issued /\ Revoke(S)
      BY <1>4, RevocationsReach DEF RevokeAll, RevokeFamily
    <2>2. Finish(r) /\ UNCHANGED <<codes, pairs>>
      BY <1>4 DEF RevokeAll, RevokeFamily
    <2> QED
      BY <2>1, <2>2, FinishQuiet, EndedRevoke DEF Inv
  <1>5. ASSUME Finish(r), UNCHANGED <<codes, pairs, access, refresh>> PROVE Ended(c)'
    BY <1>5, FinishQuiet, EndedQuiet DEF Inv, Issued
  <1>6. ASSUME NEW w, w.pc # "issue", Start(r, w), UNCHANGED <<codes, pairs, access, refresh>>
        PROVE  Ended(c)'
    <2>1. \A v \in Requests : Issuing(v)' => request'[v] = request[v]
      BY <1>6 DEF Start, Issuing, Inv, TokensTypeOK
    <2> QED
      BY <1>6, <2>1, EndedQuiet DEF Issued
  <1>7. ASSUME NEW d \in Codes, ExchangeAgain(r, d) PROVE Ended(c)'
    BY <1>6, <1>7 DEF ExchangeAgain
  <1>8. ASSUME NEW p \in Pairs, RefreshAgain(r, p) PROVE Ended(c)'
    BY <1>6, <1>8 DEF RefreshAgain, With
  <1> QED
    BY <1>1, <1>2, <1>3, <1>4, <1>5, <1>7, <1>8 DEF RequestStep, Reply, GiveUp

LEMMA EndedStays ==
  ASSUME Inv, NEW c \in Codes, Ended(c), [TokensNext]_tokensVars
  PROVE  Ended(c)'
  <1>1. ASSUME NEW p \in Pairs, RevokeRefresh(p) PROVE Ended(c)'
    BY <1>1, RevocationsReach, EndedRevoke DEF RevokeRefresh, Issuing
  <1>2. ASSUME NEW p \in Pairs, RevokeAccess(p) PROVE Ended(c)'
    <2>1. /\ UNCHANGED <<codes, pairs, refresh, request>> /\ Issued' = Issued
          /\ \A q \in Issued : access[q] = "revoked" => access'[q] = "revoked"
      BY <1>2 DEF RevokeAccess, Issued, Inv, TokensTypeOK
    <2> QED
      BY <2>1, EndedQuiet
  <1>3. CASE ConsentStep
    <2>1. codes'[c] = codes[c] /\ UNCHANGED <<pairs, access, refresh, request>>
      BY <1>3 DEF ConsentStep, CreateCode, tokenVars, Ended, Inv, TokensTypeOK
    <2> QED
      BY <2>1, EndedQuiet DEF Issued
  <1>4. CASE UNCHANGED tokensVars
    BY <1>4, EndedQuiet DEF tokensVars, tokenVars, Issued
  <1> QED
    BY <1>1, <1>2, <1>3, <1>4, EndedRequest DEF TokensNext, TokenStep

(***************************************************************************)
(* A replayed code or refresh token ends its grant for good, and so does   *)
(* the client's own revocation: no token of it can be used from then on    *)
(* and none is ever stored - unless a request has consumed the code, or a  *)
(* refresh token of it, and not stored its tokens yet (revokeForSubject-   *)
(* Client and revokeFamily stamp the rows they find).                      *)
(***************************************************************************)
RevocationIsFinal ==
  [][\A c \in Codes : (Revokes(c) /\ ~ BeingIssued(c)) \/ Ended(c) => Ended(c)']_tokensVars

THEOREM RevokedForGood == Spec => RevocationIsFinal
  <1>1. TokensSpec => [](Inv /\ RevokersOK)
    <2>1. Inv /\ RevokersOK /\ [TokensNext]_tokensVars => RevokersOK'
      BY RevokersNext DEF Inv
    <2> QED
      BY <2>1, TokensInv, RevokersInit, PTL DEF TokensSpec
  <1>2. Inv /\ RevokersOK /\ [TokensNext]_tokensVars
          => [\A c \in Codes : (Revokes(c) /\ ~ BeingIssued(c)) \/ Ended(c) => Ended(c)']_tokensVars
    BY RevokesEnds, EndedStays
  <1> QED
    BY <1>1, <1>2, ImplementsTokens, PTL DEF TokensSpec, RevocationIsFinal
==============================================================================
