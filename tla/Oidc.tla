--------------------------------- MODULE Oidc ---------------------------------
(***************************************************************************)
(* The OIDC provider from /oauth2/auth to the tokens: an authorize request *)
(* becomes a login challenge, an accepted login a consent challenge, an    *)
(* accepted consent an authorization code for the token endpoint.          *)
(*                                                                         *)
(* A challenge is read in one transaction and decided in a later one, and  *)
(* what follows the decision is written in transactions of its own, so     *)
(* each click in a browser is a process.                                   *)
(***************************************************************************)
EXTENDS OidcTokens

CONSTANTS
  Challenges,  \* ids of oauth_challenges rows
  Browsers,    \* accept and reject requests in flight
  NoUser       \* nobody has logged in yet

ASSUME OidcAssumption == NoUser \notin Users

VARIABLES
  challenges,  \* oauth_challenges
  remembered,  \* oauth_consents: the scopes by subject and client
  browser,     \* what each request is doing
  agreed,      \* history: consents that citizens have given
  origin       \* history: the consent challenge each code came from

flowVars == <<challenges, remembered, browser, agreed, origin>>
vars == <<tokensVars, flowVars>>

NoChallenge == [kind |-> "none"]

Challenge ==
  [kind : {"login", "consent"}, state : {"open", "decided"}, client : Clients,
   user : Users \cup {NoUser}, requested : SUBSET Scopes, granted : SUBSET Scopes,
   skip : BOOLEAN, login : Challenges]

\* A request holds the challenge it has read, who sent it and the scopes it is about.
Click == [pc : {"decideLogin", "remember", "askConsent", "decideConsent", "save", "code", "reject"},
          challenge : Challenges, user : Users \cup {NoUser}, scopes : SUBSET Scopes]
Waiting == [pc |-> "idle"]

Init ==
  /\ TokensInit
  /\ challenges = [h \in Challenges |-> NoChallenge]
  /\ remembered = [u \in Users |-> [k \in Clients |-> {}]]
  /\ browser = [b \in Browsers |-> Waiting]
  /\ agreed = {}
  /\ origin = [c \in Codes |-> NoChallenge]

Do(b, click) == browser' = [browser EXCEPT ![b] = click]
Done(b) == Do(b, Waiting)
Open(h, kind) == challenges[h].kind = kind /\ challenges[h].state = "open"

----------------------------------------------------------------------------
\* authorize: the scopes are those of the request that the client is registered for
Authorize(h, k, s) ==
  /\ challenges[h].kind = "none"
  /\ s # {}
  /\ challenges' = [challenges EXCEPT ![h] =
       [kind |-> "login", state |-> "open", client |-> k, user |-> NoUser, requested |-> s,
        granted |-> {}, skip |-> FALSE, login |-> h]]
  /\ UNCHANGED <<tokensVars, remembered, browser, agreed, origin>>

----------------------------------------------------------------------------
\* Deciding a challenge

\* Mutant: the guard decided_at IS NULL is left out.
DecidableAgain(h) == challenges[h].state \in {"open", "decided"}
DecidableNow(h) == challenges[h].state = "open"

\* decideChallenge: one UPDATE; the subject stays when none is given.
Decide(h, u, s) ==
  /\ DecidableNow(h)
  /\ challenges' = [challenges EXCEPT ![h].state = "decided", ![h].granted = s,
                      ![h].user = IF u = NoUser THEN @ ELSE u]

----------------------------------------------------------------------------
\* acceptLogin

LoginRead(b, u, h) ==
  /\ browser[b].pc = "idle"
  /\ Open(h, "login")
  /\ Do(b, [pc |-> "decideLogin", challenge |-> h, user |-> u, scopes |-> challenges[h].requested])
  /\ UNCHANGED <<tokensVars, challenges, remembered, agreed, origin>>

LoginDecide(b) ==
  LET w == browser[b] IN
  /\ w.pc = "decideLogin"
  /\ Decide(w.challenge, w.user, w.scopes)
  /\ Do(b, [w EXCEPT !.pc = "remember"])
  /\ UNCHANGED <<tokensVars, remembered, agreed, origin>>

\* consent: the scopes remembered for this subject and client.
LoginRemember(b) ==
  LET w == browser[b] IN
  /\ w.pc = "remember"
  /\ Do(b, [w EXCEPT !.pc = "askConsent",
                     !.scopes = remembered[w.user][challenges[w.challenge].client]])
  /\ UNCHANGED <<tokensVars, challenges, remembered, agreed, origin>>

\* Mutant: one remembered scope is enough.
CoversSome(have, want) == have \cap want # {}
CoversAll(have, want) == want # {} /\ want \subseteq have

\* createChallenge: what is remembered covers the request, or the citizen is asked.
LoginAsk(b, h) ==
  LET w == browser[b]
      l == challenges[w.challenge]
  IN
  /\ w.pc = "askConsent"
  /\ challenges[h].kind = "none"
  /\ challenges' = [challenges EXCEPT ![h] =
       [kind |-> "consent", state |-> "open", client |-> l.client, user |-> w.user,
        requested |-> l.requested, granted |-> {}, skip |-> CoversAll(w.scopes, l.requested),
        login |-> w.challenge]]
  /\ Done(b)
  /\ UNCHANGED <<tokensVars, remembered, agreed, origin>>

----------------------------------------------------------------------------
\* acceptConsent

\* Mutant: what was ticked is granted as it is.
TickedUnchecked(requested, ticked) == IF ticked = {} THEN requested ELSE ticked

\* Nothing ticked grants what was asked, and no more can be ticked than was asked.
Ticked(requested, ticked) == IF ticked = {} THEN requested ELSE requested \cap ticked

\* The challenge is somebody else's (403), or nothing would be granted (400): no action.
ConsentRead(b, u, h, ticked) ==
  /\ browser[b].pc = "idle"
  /\ Open(h, "consent")
  /\ challenges[h].user = u
  /\ Ticked(challenges[h].requested, ticked) # {}
  /\ Do(b, [pc |-> "decideConsent", challenge |-> h, user |-> u,
            scopes |-> Ticked(challenges[h].requested, ticked)])
  /\ UNCHANGED <<tokensVars, challenges, remembered, agreed, origin>>

ConsentDecide(b) ==
  LET w == browser[b] IN
  /\ w.pc = "decideConsent"
  /\ Decide(w.challenge, w.user, w.scopes)
  /\ Do(b, [w EXCEPT !.pc = "save"])
  /\ UNCHANGED <<tokensVars, remembered, agreed, origin>>

\* saveConsent: the latest consent replaces the one before.
ConsentSave(b) ==
  LET w == browser[b]
      k == challenges[w.challenge].client
  IN
  /\ w.pc = "save"
  /\ remembered' = [remembered EXCEPT ![w.user][k] = w.scopes]
  /\ agreed' = agreed \cup {[user |-> w.user, client |-> k, scopes |-> w.scopes]}
  /\ Do(b, [w EXCEPT !.pc = "code"])
  /\ UNCHANGED <<tokensVars, challenges, origin>>

ConsentCode(b, c) ==
  LET w == browser[b] IN
  /\ w.pc = "code"
  /\ CreateCode(c, w.user, challenges[w.challenge].client, w.scopes)
  /\ origin' = [origin EXCEPT ![c] = [kind |-> "consent", challenge |-> w.challenge]]
  /\ Done(b)
  /\ UNCHANGED <<tokenVars, faults, challenges, remembered, agreed>>

\* A remembered consent expires after 30 days.
Forget(u, k) ==
  /\ remembered[u][k] # {}
  /\ remembered' = [remembered EXCEPT ![u][k] = {}]
  /\ UNCHANGED <<tokensVars, challenges, browser, agreed, origin>>

----------------------------------------------------------------------------
\* reject, of a login or a consent: nobody needs to be logged in

RejectRead(b, h) ==
  /\ browser[b].pc = "idle"
  /\ Open(h, "login") \/ Open(h, "consent")
  /\ Do(b, [pc |-> "reject", challenge |-> h, user |-> challenges[h].user, scopes |-> {}])
  /\ UNCHANGED <<tokensVars, challenges, remembered, agreed, origin>>

RejectDecide(b) ==
  LET w == browser[b] IN
  /\ w.pc = "reject"
  /\ Decide(w.challenge, w.user, {})
  /\ Done(b)
  /\ UNCHANGED <<tokensVars, remembered, agreed, origin>>

\* Somebody decided first or the challenge has expired (404), a statement fails, or the
\* process stops: the steps that are left are not taken.
Abandon(b) ==
  /\ browser[b].pc # "idle"
  /\ Done(b)
  /\ UNCHANGED <<tokensVars, challenges, remembered, agreed, origin>>

----------------------------------------------------------------------------
FlowStep ==
  \/ \E h \in Challenges :
       \E k \in Clients, s \in SUBSET Scopes : Authorize(h, k, s)
  \/ \E b \in Browsers :
       \/ \E u \in Users, h \in Challenges : LoginRead(b, u, h)
       \/ LoginDecide(b) \/ LoginRemember(b)
       \/ \E h \in Challenges : LoginAsk(b, h)
       \/ \E u \in Users, h \in Challenges, ticked \in SUBSET Scopes : ConsentRead(b, u, h, ticked)
       \/ ConsentDecide(b) \/ ConsentSave(b)
       \/ \E c \in Codes : ConsentCode(b, c)
       \/ \E h \in Challenges : RejectRead(b, h)
       \/ RejectDecide(b) \/ Abandon(b)
  \/ \E u \in Users, k \in Clients : Forget(u, k)

Next == FlowStep \/ (TokenStep /\ UNCHANGED flowVars)

Spec == Init /\ [][Next]_vars

----------------------------------------------------------------------------
\* Properties

\* Types, and that nothing is granted that was not asked for.
FlowTypeOK ==
  /\ challenges \in [Challenges -> Challenge \cup {NoChallenge}]
  /\ \A h \in Challenges : challenges[h].kind # "none" =>
       /\ challenges[h].granted \subseteq challenges[h].requested
       /\ challenges[h].kind = "consent" => challenges[h].user \in Users
  /\ remembered \in [Users -> [Clients -> SUBSET Scopes]]
  /\ browser \in [Browsers -> Click \cup {Waiting}]
  /\ agreed \subseteq [user : Users, client : Clients, scopes : SUBSET Scopes]
  /\ origin \in [Codes -> [kind : {"consent"}, challenge : Challenges] \cup {NoChallenge}]

TypeOK == TokensTypeOK /\ FlowTypeOK

Created == {c \in Codes : codes[c].state # "none"}
ConsentOf(c) == challenges[origin[c].challenge]
LoginOf(c) == challenges[ConsentOf(c).login]

(***************************************************************************)
(* Challenges are decided once: however many browsers accept or reject the *)
(* same login and the same consent at the same time, an authorize request  *)
(* ends in at most one authorization code.                                 *)
(***************************************************************************)
OneCodePerLogin ==
  \A c, d \in Created : c # d => ConsentOf(c).login # ConsentOf(d).login

(***************************************************************************)
(* A code is for the citizen who accepted the login and then the consent,  *)
(* for the client that asked, and for exactly the scopes that the decided  *)
(* consent records: never for a challenge that was rejected, and never for *)
(* more than the client asked for.                                         *)
(***************************************************************************)
CodeIsConsented ==
  \A c \in Created :
    /\ ConsentOf(c).kind = "consent" /\ LoginOf(c).kind = "login"
    /\ codes[c].user = ConsentOf(c).user /\ codes[c].user = LoginOf(c).user
    /\ codes[c].client = LoginOf(c).client
    /\ codes[c].scopes = ConsentOf(c).granted
    /\ codes[c].scopes # {} /\ codes[c].scopes \subseteq LoginOf(c).requested

(***************************************************************************)
(* The consent page is skipped only for what this citizen has once granted *)
(* this client, in one consent, whatever has been remembered, replaced and *)
(* forgotten since.                                                        *)
(***************************************************************************)
SkipWasAgreed ==
  \A h \in Challenges :
    (challenges[h].kind = "consent" /\ challenges[h].skip) =>
      \E a \in agreed : /\ a.user = challenges[h].user /\ a.client = challenges[h].client
                        /\ challenges[h].requested \subseteq a.scopes
==============================================================================
