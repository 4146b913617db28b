# A verification project for the dgov platform template

TLA+ models of the backend of `template-dgov-mn-nodejs` (Express and TypeScript over
PostgreSQL and Redis), the TLC instances that check them and the theorems TLAPS proves
about them.  Paths below are relative to the repository; `usecases/` and so on stand
for `backend/src/usecases/` and so on.

## The system

The backend is one Node process per instance; any number of instances share one
PostgreSQL database and one Redis.  Within a process every `await` is a point where
other requests run, and between processes nothing but the database and Redis is
shared.  There are almost no explicit locks: correctness rests on the `WHERE` clause of
a single `UPDATE`, on `SELECT ... FOR UPDATE` in a few transactions, on Redis `GETDEL`,
and on the order of the awaits in a handler.  PostgreSQL runs at its default
READ COMMITTED.

### Inventory

Modelled now:

| Component | State | Operations | What is hard | What makes it correct |
|---|---|---|---|---|
| Relay (`usecases/relay`, `relay_postgres.ts`) | requests, assignments, `reminders_sent`, `escalated`, the `breach_notified` latch | ingest, dispatch, respond, SLA sweep, deletion of a platform | every statement is awaited: sweeps of several instances work from rows read earlier, answers commit in parallel, crashes between statements | a fulfilled request was answered by all and stays fulfilled; a breach is told once; nobody is forgotten |
| Gov applications (`usecases/gov`, `gov_postgres.ts`) | application, result, issued references, SLA clock (`due_at`, `suspended_at`), timeline | apply, cancel, claim, request and provide information, decide, complete, SLA sweep | `decide` reads in one transaction and writes in another; the deadline stops and moves; silence grants while officers decide; row-level security | one decision, at most one document, the table of `domain/gov.ts`, lateness is the agency's own |
| OIDC provider (`usecases/oidc`, `oauth_flow_postgres.ts`) | challenges, remembered consents, codes, access and refresh tokens with families | authorize, accept or reject a login and a consent, exchange, refresh, revoke | consume first, check and store later, each in a transaction of its own; reuse detection racing an issue | one code per login, one pair per code or refresh token, scopes only narrow, a grant is revoked whole |
| Login sessions (`usecases/auth`, `usecases/sso`, `http/middlewares/auth.ts`, `caches/redis.ts`) | refresh ids, a deny list and cutoffs in Redis; `password_changed_at` and the account columns of `users` | every login, refresh, logout, the password changes, deactivation, deletion, promotion | refresh consumes, reads the user and mints in three awaits; a Redis call that times out may still run; `iat` is a whole second | sessions form chains; what was logged out or cut off stays ended |
| Super admin onboarding and administration (`usecases/superadmin_onboarding`, `usecases/superadmin`, role changes of `usecases/users`) | wizard session in Redis, attempt counters, invitations, recovery codes, roles | Google account, eID poll, mail code, TOTP set-up and verification, second factor of a login, invitations | the session is read whole and written whole by overlapping requests; four writes in a row may stop anywhere | no way around the proofs of identity; an invitation makes one; attempts stay counted |
| Service registry (`usecases/registry`) and its projection to gov's catalogue | passports, evidence and links, versions, `gov_services` | create, edit, set evidence, publish, archive, delete | a publication is six awaits; two tables change in two transactions | catalogue and registry agree; versions are measured against the first; levels declared honestly |
| RBAC (`usecases/rbac`, `http/middlewares/rbac.ts`) and audit log (`usecases/audit`, `pkg/audit/chain.ts`) | roles, permissions, a cache in every process, the hash chain | ask, create, change, delete a role; append, verify | other processes' caches are not invalidated; two replacements do not see each other's rows; appends of several instances | a revocation ends in time; nothing unasked is granted; the chain does not fork |

Left out (`PROJECT.json` lists each with its reason):

| Component | Why |
|---|---|
| Signing keys (`usecases/oidc/keys.ts`) | nothing calls `rotate`; `ensureKey` runs once at start under a unique index (`42_oauth_provider.up.sql:52`): of two instances that start first together, one fails to start |
| Rate limit (`middlewares/ratelimit.ts`), the users' profile cache (`caches/memory.ts`) | maps of one process, updated without an await |
| Migrations (`datasources/migration`) | sequential under one session's advisory lock, one transaction per file |
| Document signing, SSO tokens of the upstream | one row or one key per user, written whole; the other side decides |
| Organisations, stamps, integrations, gateway, site, settings, assets, applications, directory, security events | one statement per operation |
| External clients, AI, cryptographic helpers | I/O and functions over bytes; a nondeterministic answer where a modelled component calls them |
| HTTP plumbing, OpenAPI generator, frontend, iOS, scripts | no shared state of their own |

The parts meet in the database: the background worker of every instance
(`cmd/api/server/server.ts:151-186`) runs the relay's and gov's sweeps one after the
other and re-arms its timer in a `finally`; HTTP handlers call the use cases under an
identity that `drivers/pg.ts` `withRLS` puts into the transaction for row-level
security; the OIDC endpoints run as role `service`.  Four compositions follow the code:
the consent flow hands codes to the token endpoint (`Oidc` over `OidcTokens`),
publications project passports into gov's catalogue (`Registry` has both tables), a
promotion by the wizard changes what a login session may claim (`Sessions` has the
promotion, `SuperAdmin` its proofs of identity), and the changes of roles are callers of
the audit chain (`Rbac` over `AuditChain`).  Relay, gov's cases and OIDC share no tables.

## Modules

| Module | Models | Proofs |
|---|---|---|
| `RelayContract` | what the relay promises its upstream peers | |
| `Relay` | handlers and sweeps, one step per SQL statement; implements `RelayContract` | `RelayProofs` |
| `GovLifecycle` | the transition table `govTransitions` of `domain/gov.ts` | |
| `Gov` | applications, one step per transaction; implements `GovLifecycle`, but for the claim of a `submitted` row | `GovProofs` |
| `OidcTokens` | the token endpoint, one step per repository call | `OidcProofs` |
| `Oidc` | the consent flow and, through `OidcTokens`, the whole provider | `OidcProofs` |
| `SessionChain` | what sessions promise: each is a login or the one renewal of another | |
| `Sessions` | users, Redis keys and the requests over them, one step per await; implements `SessionChain` | `SessionsProofs` |
| `SuperAdmin` | the wizard, the second factor, invitations, recovery codes, role changes | `SuperAdminProofs` |
| `Registry` | passports, evidence, versions and the catalogue, one step per repository call | `RegistryProofs` |
| `AuditChain` | the audit log's append and verification | `AuditChainProofs` |
| `Rbac` | roles, permissions and their caches; implements `AuditChain` | `RbacProofs` |
| `MCRelay`, `MCGov`, `MCOidc`, `MCSessions`, `MCSuperAdmin`, `MCRegistry`, `MCRbac` | instances for TLC with their symmetry | |

`PROJECT.json` `map` names the source lines of every definition.

### Relay

A request is a row with a status and the `breach_notified` latch; an assignment is a
pair of a request and a platform.  `tx[c]` is what a respond handler is doing:
`respondAssignment` updates the assignment (`RespondUpdate`, which takes the row lock),
counts the open ones (`RespondCount`), updates the request and commits (`RespondCommit`),
or rolls back (`RespondAbort`); then the handler tells the upstream (`RespondNotify`).
`sweep[w]` is one `slaSweep` of one instance: it reads the rows for reminders and for
lateness and then goes through what it has read (`SweepStart`, `SweepRemind`,
`SweepRead`, `SweepMarkAssignment`, `SweepMarkRequest`, `SweepEscalate`, `SweepBreach`,
`SweepNotify`, `SweepEnd`); `SweepCrash` may stop it anywhere.  Ingest creates the
request with its assignments and dispatches them one by one (`Ingest`, `Dispatch`,
`DispatchCrash`).  The clock of an assignment is abstracted to what the code
compares: how many of the 75% and 90% thresholds are passed, late, grace over.

*READ COMMITTED* is modelled statement by statement: the count sees committed
rows and the transaction's own write; an `UPDATE` waits for the lock and evaluates its
`WHERE` on the committed row.  That is why two last answers can each count the other as
open (run `relay_write_skew`).

### Gov

`status`, `result`, `due`, `suspended`, `breached`, `tacit`, `outputs` are the columns of
`gov_applications` and the number of its `gov_references`.  A transaction here touches
one application row under its lock, so it is one step.  `decide` is two:
`DecideRead` takes the case and the service as they are (the read of the service may
fail, which the code swallows) and `DecideWrite` or `DecideRefused` happens later under
`decideApplication`'s `WHERE`.  The sweep marks (`SweepMark`), tells (`SweepTellBreach`),
grants by silence (`SweepGrant`) and tells (`SweepTellTacit`) step by step, on each
instance.  `spent` is a history variable: the ticks the case has been with the agency.
`RlsEnforced` and `Admins` stand for the connection's role and the citizen's role.
`Legacy` are the applications that may be older than migration 44: a row of migration 20 starts
with any status that one allowed, `submitted` among them, and without a result, a deadline or a
service (`44_gov_service_workflow.up.sql:175-186` keeps them valid).

### OidcTokens and Oidc

A *pair* is an access token with the refresh token stored in the same transaction.
`request[r]` is one call of the token endpoint.  `consumeCode` and `consumeRefreshToken`
stamp the row and commit (`Exchange`, `Refresh`) before the client, redirect URI,
PKCE verifier and scope are compared, so a mismatch has spent the credential; a stamped
row starts a revocation (`ExchangeAgain`, `RefreshAgain`) that runs in a later
transaction (`RevokeAll`, `RevokeFamily`); `Issue` is `storeTokens`; `Reply` the answer.
`GiveUp` is any failure in between: `storeTokens`, a swallowed revocation error,
`mintIDToken`, a lost answer, a crash.  `delivered` are the pairs a client holds.

`Oidc` adds the browser: a click reads a challenge (`LoginRead`, `ConsentRead`,
`RejectRead`), decides it under `decided_at IS NULL` (`LoginDecide`, ...), and writes what
follows, one repository call per step.  `agreed` and `origin` are history variables.

### SessionChain and Sessions

A session is an access token with the refresh token minted beside it.  `live`, `denied` and
`cutoff` are the keys in Redis; `active`, `deleted`, `super`, `rotated` columns of `users`;
`claim` the sessions whose token says super admin.  A refresh is `RefreshConsume` (the
`GETDEL`), `RefreshLookup` (the user's row, `MayRenew`) and `Mint`; a logout `LogoutDelete`
and `LogoutDeny`; a change of the password takes its second (`ChangeStart`), writes the row
(`ChangeUpdate`) and then the cutoff (`ChangePublish`).  A Redis command may have run and
still time out (`redis.ts` `withTimeout`): the step has both outcomes, bounded by
`MaxFaults`.  `outdated` and `unserved` are the sessions a change or a logout has ended, each
change those issued up to its own second; `between` are the sessions issued while a change of
their user's password was in flight, in a later second than the change took.

### SuperAdmin

`pending[t]` is the wizard's session in Redis.  Each handler loads it (`EidLoad`,
`SendLoad`, `VerifyLoad`, `InitLoad`), waits, and saves all of it (`EidSave`, `VerifySave`,
...), so that two requests overwrite each other and a session that was deleted may come
back.  `totpVerify` is `VerifyCode`, `Upsert` (role and account), `DeleteCodes` and
`InsertCodes` (one transaction), `MarkAccepted`, `Forget`; `GiveUp` ends it anywhere.  The
second factor of a login is `MfaGet`, `MfaCount`, `MfaLoad`, `MfaCheck` and the deletions
`MfaDrop`, `MfaReset` in the code's order.  `identified`, `approved`, `shown` and `entered`
remember what the eID service, the mail code and the authenticator have proved.

### Registry

A request holds what it has read (`level`, `measure`, `again`, `docs`, `base`).  `publish`
is `PublishRead`, `ReadAgain`, `CheckOnceOnly`, `CountDocuments`, `BaselineVersion`,
`PublishVersion`, `Project`; `archiveService` is `ArchiveStatus`, `Withdraw`; `setEvidences`
is the two statements of its transaction; `updateService` and `deleteService` read and
then write.  `torn` are the passports whose last pair of writes was cut in two or
overlapped another; `clean` the publications that saw a moment without a violation.

### AuditChain and Rbac

`append[c]` is one `append`: it waits for the advisory lock, reads the last hash,
inserts under the next id, commits, or fails anywhere.  A hash is modelled as what it is
computed from, so two rows have one hash only if everything before them is the same.
`Rbac` calls it after `setRolePermissions` (`Invalidate`, `Record`), as
`rbac_handler.ts` does, and waits for its end.  A replacement is `ReplaceStart` (the
DELETE's snapshot), `ReplaceDelete` (it waits for rows another one has locked),
`ReplaceInsert` per key and `ReplaceCommit`; what a waiting DELETE does when the other one
commits (it skips rows that are gone and does not see new ones) is in `Skipping`.  An
answer of `resolve` is `ResolveRole`, `ResolveKeys`, `ResolveStore`; `cache[i]` is the map
of instance `i`, with the time of reading beside the time of storing.  `lost` and `asked`
are history variables.

## Runs

Each `pass` run ends with the whole state space explored.

| Run | Shows | Bounds |
|---|---|---|
| `relay_answers` | answers, sweeps and deletions interleaved by statement implement `RelayContract`; fulfilled means answered and is final; one breach notice | 1 request, 2 platforms, 2 sweeps, 2 handlers, one deletion |
| `relay_watch` | one sweeping instance: reminders once per threshold, escalation in the end in spite of a fault | 1 request, 2 platforms, 2 clock readings, 1 fault; `FairSpec` |
| `gov_decisions` | one decision, at most one document, the lifecycle table but for the claim of an old `submitted` row, lateness without pauses, each notice once | 2 applications (tacit with a document and possibly older than migration 44, automatic), 2 officers, 2 sweeps, 4 instants, 1 fault |
| `gov_deadlines` | a late case is latched; a tacit one does not stay with the agency | 2 timed applications, 1 sweep, 1 fault; `FairSpec` |
| `oidc_consent` | one code per login, a code is what its consent granted, the page is skipped only for what was agreed | 4 challenges, 2 browsers, 2 users, 2 codes |
| `oidc_tokens` | one pair per code or refresh token, one live refresh token, narrowing, whole revocation | 1 code from the real flow, 3 pairs, 2 requests, 2 clients, 1 fault |
| `sessions` | sessions are chains; what a logout or a password change ended stays ended, unless it was issued between two overlapping changes | 1 user, 2 sessions, 2 requests, 3 seconds, 1 fault |
| `superadmin` | nobody becomes super admin around the proofs of identity; an accepted invitation made one; attempts stay counted | 1 Google account, 2 people, 1 wizard, 1 `mfa_token`, 2 secrets, 2 requests, 1 try, 1 fault |
| `registry` | the catalogue follows the registry, versions are measured against the first, levels are declared honestly | 2 successive passports of one code, 1 evidence, 2 levels, 2 requests, 2 versions |
| `rbac` | a revoked permission ends in time; overlapping replacements grant nothing unasked; the audit log verifies | 1 role, 1 permission, 2 instances, 2 requests, `Ttl` 1, 2 instants, 2 log rows |
| `relay_write_skew`, `sessions_mfa` | disagreements, below | the smallest that shows each |

Why the bounds are enough.  The interesting races are of two: two handlers that count
each other, two sweeps over the same rows, two officers, two requests with one code, one
refresh token, one wizard or one role, two browsers with one challenge.  Requests,
applications, grants, users and roles do not interact, so one or two suffice; the second application
exists so that the sweep works on a set, the second passport so that a code is taken over from
a deleted one.  Four challenges are two logins with their consents; three
pairs are a chain of a first issue and two rotations, the shortest in which a family is
inherited twice; two log rows are the shortest chain that can fork.  One permission is
enough for a union to differ from a replacement (one request asks for it, the other for
nothing).  Time stops at a bound that lets a case be late after a pause, a second pass between two
changes of a password, a cache entry expire.  The proofs remove the
bounds from most of these results.

### Fairness

`FairSpec` of `Relay` and of `Gov` assumes weak fairness of the sweep's steps of each
worker only: the timer of `server.ts:151-186` is armed again in a `finally`, whatever a
sweep threw, and a process that dies is restarted.  Nothing is assumed of
officers, citizens, platforms, clients or the clock.  Faults are bounded, as a
system in which every statement fails for ever promises nothing.

### Disagreements the runs show

| Run | Says | Does |
|---|---|---|
| `relay_write_skew` | the last answer fulfils the request | two answers in parallel each count the other as open, and nobody fulfils it |
| `sessions_mfa` | any session of a super admin has passed the second factor (`onboarding_usecase.ts:605-608`) | the SSO login and the refresh of a session from before the promotion do not ask for it |

`PROJECT.json` `findings` quotes the lines.  Seen while modelling, and true of the models,
which contain the steps that do it, but not the subject of a run:

* Relay: the sweep's and dispatch's updates, from rows read earlier, overwrite an answered
  assignment's status, and the guard lets a second answer in (`relay_postgres.ts:429`, `:539`).
  Two instances that have read the same row both send its reminder (`relay_impl.ts:344-350`); one
  does not, which is what `relay_watch` shows.
* Gov: a swallowed read error completes a case without its document
  (`gov_usecase.ts:468`), and a tacit grant does so always (`gov_postgres.ts:979`,
  `SERVICE_WORKFLOW.md:99-100`): `OneOutput` leaves both open, a document there is neither demanded
  nor ruled out; `assignApplication` (`gov_postgres.ts:691-697`) takes a `submitted` row to
  `in_review`, which `domain/gov.ts:49` and `SERVICE_WORKFLOW.md:94-96` do not allow (the named
  exception of `FollowsLifecycle`); a crash after a tacit grant leaves it untold; with
  row-level security enforced the timeline row of an application is refused and everything rolled back
  (`44_gov_service_workflow.up.sql:271`); the cancel guard (`gov_postgres.ts:588`) leaves
  out `registered` and `info_required`, which `domain/gov.ts:39-41` and
  `docs/SERVICE_WORKFLOW.md:86-92` let be cancelled; cancelling, and resuming without a
  note, leave no timeline row (`SERVICE_WORKFLOW.md:158`); the overview counts only
  `submitted` and `in_review` as open (`gov_postgres.ts:1204`).  The output type and
  tacit flag of a service are read at decision time (`gov_usecase.ts:455`); they are
  constant in `Gov`.
* OIDC: a code that comes again revokes the tokens stored by then; those its first
  presentation stores afterwards stay live, against `oidc_service.ts:11-13`.  A client's
  registration is not looked at again at the exchange (constant in the model).  Nothing
  calls `deleteExpired` (`oauth_flow_postgres.ts:516`), which its interface says runs
  regularly.
  A remembered consent is read (`oidc_service.ts:404`) before the challenge that relies on it is
  written, and may be replaced or expire meanwhile: `SkipAgreed` says that the citizen once agreed
  to what is skipped, not that it is still remembered.
* Sessions: of two overlapping changes of one password, A takes second 1 (`auth_impl.ts:548`), a
  session is issued in second 2, B writes second 2 or 3 to the row (`users_postgres.ts:466`, which
  does not ask whether the row holds a later one) and to the cutoff (`auth_impl.ts:569`), and then
  A writes 1 over both: the session that B ended is renewed and served again, although
  `docs/API_CONTRACT.md:101` has every token issued before a change rejected.  TLC finds it in ten steps
  with 1 user, 2 sessions, 2 requests and 3 seconds if `EndedStaysEnded` is checked in the place of
  `EndedUnlessBetween`.  One change does a part of it: a refresh that has looked the user up before
  the UPDATE may mint, in a later second, a successor that survives the change (`auth_impl.ts:700`).
* Onboarding: two overlapping `totpVerify` leave both their sets of recovery codes
  (`recovery_postgres.ts:36`); `updateRole`, `setActive` and `deleteUser` check the role
  before they write (`users_impl.ts:362`, `:415`), so a wizard that ends in between has its
  super admin changed after all.
* Registry: a published passport is edited without the once-only check, and `setEvidences`
  does not project; two first publications at once leave two baselines; a deletion that
  read the status before a publication leaves an active catalogue row of nobody; a
  comment says a foreign key keeps evidence in use, but it is `ON DELETE CASCADE`.
* RBAC: `rbac_postgres.ts:179-181` says a role's permissions are replaced whole; two
  replacements at once leave the union of theirs (`OnlyWhatWasAsked` says that nothing
  else is left).  A role that is dropped between the look and the INSERT is reported as an
  unknown permission key; a `createRole` whose second transaction fails leaves the role
  without permissions and its retry gets a conflict.  Only `setRolePermissions` is
  audited: `createRole` and `updateRole` set permissions without a row in the log.
* Audit: an event is recorded after the commit, best effort; deleting the newest rows is
  not noticed by `verifyChain`.

## Proofs

For every value of the constants, from the assumptions named in the modules
(`RelayAssumption`, `GovAssumption`, `TokensAssumption`, `OidcAssumption`,
`SessionsAssumption`, `SuperAdminAssumption`, `RegistryAssumption`, `AuditAssumption`,
`RbacAssumption`: shapes of the constants, that a null is no member of the set beside it,
that what is counted is finite):

* **Relay** - `TypeCorrect`; `FulfilledOnlyAnswered` from `AnswersInv`: a terminal
  assignment was answered, and what a handler's count saw is still true when it writes
  (`CountStillTrue`), because nothing un-answers a platform (a sweep may overwrite the
  status, never `responded_at`) and no assignment is added to a known request;
  `FulfilledForGood` from the guards of the two updates of a request; `BreachOnce` from
  `BreachInv`: at most one sweep owes the notice of a latched request, and then none has
  been sent.  `ImplementsTheContract` is the refinement of `RelayContract`, step by step,
  from `ContractInv`: what a client is still owed (`Unanswered`) follows the answers.  Two theorems say
  exactly when a hazard cannot happen.  `LastAnswerFulfils`: while the answers to one
  request come one after the other (`OneAnswerAtATime`) and no platform is deleted,
  `AnsweredMeansFulfilled`, for any number of platforms, sweeps and dispatchers, because who has
  counted an open assignment leaves one that is still open (`MoreStillTrue`).
  `RemindersInTurn`: while one sweep at a time sends reminders (`OneReminderAtATime`, true of one
  instance, whose worker waits for its sweep), `RemindedOncePerThreshold`.
* **Gov** - `TypeCorrect`, `AgencyTime`, `AtMostOneOutput`, `DecisionStands`,
  `ImplementsLifecycle` from one invariant, `TypeOK` with `ClockOf` and `CaseOf` of every
  application, with `DocumentInv` beside it for `AtMostOneOutput` (while nothing has failed, who
  decides has read whether the case needs a document): while the agency has the case, `due + spent = now + Sla`, and while it waits
  for the citizen, `due + spent = suspended + Sla` (so `due_at` moves by exactly the paused
  time); and which status, result and document may go together.  `ImplementsLifecycle` is the
  refinement of the table with the claim of a `submitted` row as its one exception;
  `FreshLifecycle` is the refinement without it, if no application is older than migration 44.
  `ToldOnce` needs `NoticeInv`: a notice
  is owed by the one sweep whose update flipped the latch, or has been sent.
* **OIDC** - `ImplementsTokens`: a step of the consent flow is a new code or a stutter of
  `OidcTokens`, which needs the flow's own invariant (`ClickFits`: what a click holds fits
  the challenge it has read).  `PaysOnce`, `OneRefreshToken`, `ScopesNarrow` and
  `GrantRevokedWhole` then follow from `Baton`, an invariant of the token endpoint alone:
  the right to the next pair of a code is in one place, the fresh code, one request that
  has consumed something and not stored yet, or one live refresh token, and its holder
  has paid for nothing.  None of the four is inductive: that two pairs never
  share a parent needs that a live refresh token has no child (`LiveUnpaid`) and that what a
  request has consumed has none either (`IssuingUnpaid`), which needs that it is the only
  holder (`OneIssuing`, `IssuingOrLive`).  The consents are the same argument one level up.
  `OneCode`, `CodeConsented` and `SkipAgreed` follow from `DecisionInv`: a challenge is
  decided once and then frozen (`Frozen`), so the right to the one consent of a login, and
  to the one code of a consent, is with the click that decided (`Held`, `Alone`) until it
  is used or abandoned, and what it writes copies what was decided (`Copies`).  Together the
  two halves give what holds end to end: `TokensConsented`, every token ever stored is
  for the citizen and client of a decided consent and within its scopes, and
  `OneRefreshPerLogin`, an authorize request has led to one usable refresh token at most.
  `RevokedForGood` says what a revocation is worth: a replayed code or refresh token, or the
  client's own call, ends the grant for good, unless a request has consumed something of it
  and not stored its tokens yet.  Without that exception it is false (`RevokeAll` between
  `consumeAuthCode` and `storeTokens`); the theorem shows that there is no other.
* **Sessions** - `TypeCorrect`; `EndedForGood` (what was ended stays ended, unless it is in `between`) from
  the seconds: a session outside `between` is not newer than any change of its user's password that
  is in flight (`Dated`), so whichever second is written last, it is refused (`OutdatedBut`,
  `UnservedBut`), and a change ends only what is not newer than itself (`OwnSecond`).  `EndedInTurn` shows
  that the overlap is the only way back: while the changes of each user's password come one after
  the other (`OneChangeAtATime`), `EndedStaysEnded` holds without an exception.  `RefreshIsAChain` is
  the refinement of `SessionChain`: a jti is consumed once, by the request that renews it.
  `OneLiveSession` is proved of `SessionChain` and carried over by the refinement: of all the sessions that
  descend from one login at most one is live, since a renewed session stops being
  an end of its chain (`EndInv`).  `SuperOnlyRoundMfa` bounds the disagreement of
  `sessions_mfa`: the two ways round the second factor (`NoWayRound`) are the only ones.
* **SuperAdmin** - `TypeCorrect`; `TheOnlyDoor` carries the proofs of identity from the
  session that was read to the row that is written: every pending session, and every copy a request
  holds, claims only what was identified, approved and shown for its wizard, however the copies
  overwrite each other; `InvitationsMakeOne` from the order of the writes; `AttemptsBounded`
  counts attempts, requests in flight and faults against the counter.  Two theorems bound the
  disagreements above: a user has one set of recovery codes unless two of his replacements are
  between DELETE and INSERT at once (`OneSetUnlessOverlapping`, from what a DELETE has seen,
  `Replacements`), and no change of role touches a super admin unless a wizard makes him one
  between its check and its write (`SuperStaysUnlessBetween`).
* **Registry** - `TypeCorrect`, `MeasuredRight`, `Honest`, `CatalogueRight` from one
  invariant: what is in use exists (`InUse`), a baseline that was found is version 1's
  (`BasesOK`), a publication that has passed its check was clean at some moment (`CleanOK`),
  a catalogue row belongs to a passport of its code (`OwnersOK`), and who is between two
  writes knows what the first one wrote (`StatusOK`).
* **AuditChain** - `ChainStaysIntact`: one request at most is between the lock and the commit
  (`OneAppending`), only it knows the last hash (`PrevIsLast`) and draws ids (`IdIsNew`), so a new row
  follows the last one in the order of ids, in which the chain is verified.
* **Rbac** - `TypeCorrect`, `EntitledInTime`, `NothingUnasked`: what is cached, or read and
  not cached yet, was held when it was read, and the last moment a permission was held
  never moves back (`EntriesOK`, `ReadOK`); overlapping replacements know each other's keys
  (`Overlaps`) and a replacement knows of every row that it leaves (`LeavesOK`), also when a waiting
  DELETE skips rows.  `ImplementsAudit` is the refinement of `AuditChain`, and
  `AuditIntact` what follows from it.

Hypotheses of theorems, as opposed to the assumptions the modules name, occur in seven:
`LastAnswerFulfils`, `RemindersInTurn`, `FreshLifecycle`, `EndedInTurn`, `SuperOnlyRoundMfa`,
`OneSetUnlessOverlapping` and `SuperStaysUnlessBetween`.  Each is needed: without it TLC violates the property
(`relay_write_skew`, `sessions_mfa`, two workers that send reminders, a `submitted` row that
an officer claims, two changes of one password that overlap, two `totpVerify` of one user, a wizard that ends during `updateRole`), and with it the system still does everything
else.

Only model-checked: what holds under fairness (`UnansweredIsEscalated`, `LateIsMarked`,
`SilenceGrants`), because the prover does not reason about `ENABLED`.  Every other property of the
passing runs is the subject of a theorem.

## Abstractions

* Relay: one clock per assignment, read in phases; what is in a payload, webhook signatures and
  `forwardUp` are left out; a deleted platform takes its assignments with it
  (`ON DELETE CASCADE`).
* Gov: one clock for the database and the API server; a service's configuration is
  constant; only rows of `Legacy` are ever `submitted`, nothing produces that status;
  an officer's verdict carries `granted` or `refused`.
* OIDC: expiry has no step, an expired row is refused and changes nothing; the
  clients' registration is constant and has both grants; the comparison of redirect
  URI and verifier is one Boolean; randomness is freshness.  The consent run has no token
  requests and the token run a single code, which is sound for the invariants they check:
  `ImplementsTokens` is the proof that the two halves meet in `CreateCode` only.
* Sessions: keys live as long as the token they are about, so expiry has no step; the
  exchanges behind a login (eID, Google, SSO) are one answer; mail codes, registration and
  the limit of failed logins are left out.
* SuperAdmin: expiry has no step, an expired key is one nobody reads; a mail code and a
  TOTP code are right or wrong; the recovery codes of one set are used and replaced together.
* Registry: the numbers versions compare are one measure; life events and the lists are
  left out; a link is one that asks the citizen for the document.
* RBAC and audit: the clock is one for all instances; who has a role is a free choice of
  `CountUsers`; roles `admin` and `superadmin` are not in `Roles`; a permission is
  never withdrawn from the catalogue; an event is its target.
* Not modelled of these components: client credentials, RP-initiated logout,
  introspection and userinfo; platform and route registration, the demo simulator;
  references requested by citizens, payments, appointments, the demo seed.

## What is left

1. `Gov` with a service's configuration that changes between application and decision, by
   way of `Registry`'s publications.
2. The single-row operations beside gov's cases and the relay's registration, which change
   state but meet no other request.
3. Theorems that cross components: an application's case in `Gov` and the passport it was
   filed under in `Registry`.
