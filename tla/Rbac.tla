--------------------------------- MODULE Rbac ---------------------------------
(***************************************************************************)
(* Roles and their permissions: the administration of roles, and the check *)
(* of a permission by each API instance from a cache of its own.           *)
(*                                                                         *)
(* call[c] is one request between two of its awaits.  A replacement of a   *)
(* role's permissions is a READ COMMITTED transaction, modelled statement  *)
(* by statement: old are the rows its DELETE has found, added those it has *)
(* inserted.  A request whose token says isAdmin is let in unasked, and    *)
(* the roles admin and superadmin have the whole catalogue, so neither is  *)
(* here: Roles are the others.                                             *)
(***************************************************************************)
EXTENDS AuditChain

CONSTANTS
  Roles, SystemRoles,  \* ids of roles, never used again; those with is_system
  Keys,                \* the permission catalogue
  Instances,           \* API processes
  None,
  Ttl,                 \* cacheTTLMs
  MaxTime              \* bound of the clock

ASSUME RbacAssumption ==
  /\ SystemRoles \subseteq Roles
  /\ Roles \subseteq Targets
  /\ Ttl \in Nat \ {0} /\ MaxTime \in Nat

VARIABLES
  roles,   \* rows of table roles
  grants,  \* role_permissions, committed
  cache,   \* each instance's Map
  call,
  now,
  \* history: when a role last lost a permission (-1: it never had it), and what
  \* its last replacement and those that overlapped it have asked for
  lost, asked

rbacVars == <<roles, grants, cache, call, now, lost, asked>>
vars == <<rbacVars, auditVars>>

Entries == [keys : SUBSET Keys, read : Nat, stored : Nat]
Replacing == {"deleting", "inserting"}
Failing == {"role", "keys", "get", "delete", "count", "drop"} \cup Replacing
Steps == {"idle", "store", "invalidate", "audit"} \cup Failing

\* keys: the permissions read (at time read), or to be set; touches: permissions are
\* given; audited: the event is recorded; todo: the INSERTs left; others: the keys
\* of the replacements that overlap this one.
Requests ==
  [at : Steps, on : Instances \cup {None}, role : Roles \cup {None}, keys : SUBSET Keys,
   read : Nat, touches : BOOLEAN, audited : BOOLEAN, old : SUBSET Keys, added : SUBSET Keys,
   todo : SUBSET Keys, others : SUBSET Keys]
Request(at, i, r) ==
  [at |-> at, on |-> i, role |-> r, keys |-> {}, read |-> 0, touches |-> FALSE,
   audited |-> FALSE, old |-> {}, added |-> {}, todo |-> {}, others |-> {}]
Idle == Request("idle", None, None)

Live == {r \in Roles : roles[r] = "live"}

TypeOK ==
  /\ roles \in [Roles -> {"new", "live", "dropped"}]
  /\ grants \in [Roles -> SUBSET Keys]
  /\ \A r \in Roles \ Live : grants[r] = {}
  /\ cache \in [Instances -> [Roles -> Entries \cup {None}]]
  /\ call \in [Calls -> Requests]
  /\ \A c \in Calls : call[c].at # "idle" => call[c].on \in Instances /\ call[c].role \in Roles
  /\ now \in Nat
  /\ lost \in [Roles -> [Keys -> Nat \cup {-1}]]
  /\ asked \in [Roles -> SUBSET Keys]

\* The roles of the migrations, and others created before, with any permissions
Init ==
  /\ AuditInit
  /\ roles \in [Roles -> {"new", "live"}]
  /\ \A r \in SystemRoles : roles[r] = "live"
  /\ grants \in [Roles -> SUBSET Keys]
  /\ \A r \in Roles : roles[r] = "new" => grants[r] = {}
  /\ cache = [i \in Instances |-> [r \in Roles |-> None]]
  /\ call = [c \in Calls |-> Idle]
  /\ now = 0
  /\ lost = [r \in Roles |-> [k \in Keys |-> -1]]
  /\ asked = grants

IsIdle(c) == call[c].at = "idle"
Becomes(c, request) == call' = [call EXCEPT ![c] = request]
Moves(c, at) == Becomes(c, [call[c] EXCEPT !.at = at])
Ends(c) == Becomes(c, Idle)

-------------------------------------------------------------------------------
(* Asking for a permission *)

\* Mutant: an entry is used for one instant more.
StillUsed(entry) == entry # None /\ now <= entry.stored + Ttl
Fresh(entry) == entry # None /\ now < entry.stored + Ttl

\* What an instance lets a role do without asking the database
Permitted(i, r) == IF Fresh(cache[i][r]) THEN cache[i][r].keys ELSE {}

\* A request whose role (which may be gone by now) has no fresh entry; an answer
\* from a fresh one changes nothing.
Ask(c, i, r) ==
  /\ IsIdle(c) /\ roles[r] # "new" /\ ~ Fresh(cache[i][r])
  /\ Becomes(c, Request("role", i, r))
  /\ UNCHANGED <<roles, grants, cache, now, lost, asked, auditVars>>

ResolveRole(c) ==
  /\ call[c].at = "role"
  /\ IF call[c].role \in Live THEN Moves(c, "keys") ELSE Ends(c)
  /\ UNCHANGED <<roles, grants, cache, now, lost, asked, auditVars>>

ResolveKeys(c) ==
  /\ call[c].at = "keys"
  /\ Becomes(c, [call[c] EXCEPT !.at = "store", !.keys = grants[call[c].role], !.read = now])
  /\ UNCHANGED <<roles, grants, cache, now, lost, asked, auditVars>>

\* The entry lasts from now, whenever it was read, and decides this request too.
ResolveStore(c) ==
  /\ call[c].at = "store"
  /\ cache' = [cache EXCEPT ![call[c].on][call[c].role] =
                 [keys |-> call[c].keys, read |-> call[c].read, stored |-> now]]
  /\ Ends(c)
  /\ UNCHANGED <<roles, grants, now, lost, asked, auditVars>>

-------------------------------------------------------------------------------
(* Changing a role *)

\* setRolePermissions (audited), updateRole: the role is looked for first.
Change(c, i, r, keys, touches, audited) ==
  /\ IsIdle(c) /\ roles[r] # "new"
  /\ IF touches THEN TRUE ELSE ~ audited /\ keys = {}
  /\ Becomes(c, [Request("get", i, r) EXCEPT !.keys = keys, !.touches = touches,
                                             !.audited = audited])
  /\ UNCHANGED <<roles, grants, cache, now, lost, asked, auditVars>>

AfterRole(touches) == IF touches THEN "delete" ELSE "invalidate"

FindRole(c) ==
  /\ call[c].at = "get"
  /\ IF call[c].role \in Live THEN Moves(c, AfterRole(call[c].touches)) ELSE Ends(c)
  /\ UNCHANGED <<roles, grants, cache, now, lost, asked, auditVars>>

CreateRole(c, i, r, keys, touches) ==
  /\ IsIdle(c) /\ roles[r] = "new"
  /\ touches \/ keys = {}
  /\ roles' = [roles EXCEPT ![r] = "live"]
  /\ Becomes(c, [Request(AfterRole(touches), i, r) EXCEPT !.keys = keys, !.touches = touches])
  /\ UNCHANGED <<grants, cache, now, lost, asked, auditVars>>

-------------------------------------------------------------------------------
(* The transaction that replaces a role's permissions *)

Open(d, r) == call[d].role = r /\ call[d].at \in Replacing
Rivals(c) == {d \in Calls \ {c} : Open(d, call[c].role)}
\* The rows a transaction has locked, in the role's rows
Locked(d) == IF call[d].at = "inserting" THEN call[d].old \cup call[d].added ELSE {}

\* Mutant: what was there is left, and only the new permissions are inserted.
Added(r) == {}
Found(r) == grants[r]

\* The DELETE starts: it is to delete the rows that are committed now.
ReplaceStart(c) ==
  /\ call[c].at = "delete"
  /\ call' = [d \in Calls |->
       IF d = c THEN [call[c] EXCEPT !.at = "deleting", !.old = Found(call[c].role),
                                     !.others = UNION {call[e].keys : e \in Rivals(c)}]
       ELSE IF d \in Rivals(c) THEN [call[d] EXCEPT !.others = @ \cup call[c].keys]
       ELSE call[d]]
  /\ UNCHANGED <<roles, grants, cache, now, lost, asked, auditVars>>

\* It ends when nobody else has locked one of them.
ReplaceDelete(c) ==
  /\ call[c].at = "deleting"
  /\ \A d \in Rivals(c) : Locked(d) \cap call[c].old = {}
  /\ Becomes(c, [call[c] EXCEPT !.at = "inserting", !.todo = call[c].keys])
  /\ UNCHANGED <<roles, grants, cache, now, lost, asked, auditVars>>

\* Mutant: the foreign key to roles is missing.
AnyRole(r) == roles[r] # "new"
References(r) == r \in Live

\* INSERT ... ON CONFLICT DO NOTHING waits for a row another one has locked.
ReplaceInsert(c, k) ==
  /\ call[c].at = "inserting" /\ k \in call[c].todo
  /\ References(call[c].role)
  /\ \A d \in Rivals(c) : k \notin Locked(d)
  /\ Becomes(c, [call[c] EXCEPT !.todo = @ \ {k},
                   !.added = IF k \in grants[call[c].role] \ call[c].old THEN @ ELSE @ \cup {k}])
  /\ UNCHANGED <<roles, grants, cache, now, lost, asked, auditVars>>

\* A role's rows change: the moment each permission is lost is noted.
Regrant(r, keys) ==
  /\ grants' = [grants EXCEPT ![r] = keys]
  /\ lost' = [lost EXCEPT ![r] = [k \in Keys |-> IF k \in grants[r] \ keys THEN now ELSE @[k]]]

\* What becomes of a DELETE that has waited: it skips the rows that are gone.
Skipping(c, d) == [call[d] EXCEPT !.old = @ \ call[c].old]

Following(c) ==
  [Request("invalidate", call[c].on, call[c].role) EXCEPT !.audited = call[c].audited]

\* COMMIT, after which a waiting DELETE goes on; it does not see the new rows.  The
\* answer may be lost, or the process.
ReplaceCommit(c) ==
  /\ call[c].at = "inserting" /\ call[c].todo = {}
  /\ Regrant(call[c].role, (grants[call[c].role] \ call[c].old) \cup call[c].added)
  /\ asked' = [asked EXCEPT ![call[c].role] = call[c].keys \cup call[c].others]
  /\ \E next \in {Idle, Following(c)} :
       call' = [d \in Calls |->
         IF d = c THEN next
         ELSE IF d \in Rivals(c) /\ call[d].at = "deleting" THEN Skipping(c, d)
         ELSE call[d]]
  /\ UNCHANGED <<roles, cache, now, auditVars>>

-------------------------------------------------------------------------------
(* Deleting a role *)

AskDelete(c, i, r) ==
  /\ IsIdle(c) /\ roles[r] # "new"
  /\ Becomes(c, Request("count", i, r))
  /\ UNCHANGED <<roles, grants, cache, now, lost, asked, auditVars>>

\* 409 if anybody has the role
CountUsers(c) ==
  /\ call[c].at = "count"
  /\ Moves(c, "drop") \/ Ends(c)
  /\ UNCHANGED <<roles, grants, cache, now, lost, asked, auditVars>>

\* users.role_id keeps the row of a role that somebody was given meanwhile, or had
\* when deleted (then the request gives up); role_permissions go with the row.  The
\* answer may be lost, or the process.
DropRole(c) ==
  /\ call[c].at = "drop"
  /\ \A d \in Rivals(c) : Locked(d) = {}
  /\ IF call[c].role \in Live \ SystemRoles
     THEN /\ roles' = [roles EXCEPT ![call[c].role] = "dropped"]
          /\ Regrant(call[c].role, {})
          /\ \E next \in {Idle, [call[c] EXCEPT !.at = "invalidate"]} :
               call' = [d \in Calls |->
                 IF d = c THEN next
                 ELSE IF d \in Rivals(c) THEN [call[d] EXCEPT !.old = {}]
                 ELSE call[d]]
     ELSE Ends(c) /\ UNCHANGED <<roles, grants, lost>>
  /\ UNCHANGED <<cache, now, asked, auditVars>>

-------------------------------------------------------------------------------
(* What follows a change *)

Invalidate(c) ==
  /\ call[c].at = "invalidate"
  /\ cache' = [cache EXCEPT ![call[c].on][call[c].role] = None]
  /\ IF call[c].audited
     THEN Becomes(c, Request("audit", call[c].on, call[c].role))
          /\ AppendBegin(c, call[c].role)
     ELSE Ends(c) /\ UNCHANGED auditVars
  /\ UNCHANGED <<roles, grants, now, lost, asked>>

\* recordEventSafely: the answer waits for the row, or for its failure.
Record(c) ==
  /\ call[c].at = "audit"
  /\ AuditStep(c)
  /\ IF append'[c].at = "idle" THEN Ends(c) ELSE UNCHANGED call
  /\ UNCHANGED <<roles, grants, cache, now, lost, asked>>

\* A statement fails: rolled back, nothing invalidated, 403 or an error.
GiveUp(c) ==
  /\ call[c].at \in Failing
  /\ Ends(c)
  /\ UNCHANGED <<roles, grants, cache, now, lost, asked, auditVars>>

-------------------------------------------------------------------------------
(* Around the requests *)

\* A process whose requests have all failed or ended starts anew.
Restart(i) ==
  /\ \A c \in Calls : call[c].on # i
  /\ cache' = [cache EXCEPT ![i] = [r \in Roles |-> None]]
  /\ UNCHANGED <<roles, grants, call, now, lost, asked, auditVars>>

Tick ==
  /\ now < MaxTime
  /\ now' = now + 1
  /\ UNCHANGED <<roles, grants, cache, call, lost, asked, auditVars>>

Begins(c) ==
  \E i \in Instances, r \in Roles :
    \/ Ask(c, i, r)
    \/ \E keys \in SUBSET Keys : \E touches, audited \in BOOLEAN :
         Change(c, i, r, keys, touches, audited) \/ CreateRole(c, i, r, keys, touches)
    \/ AskDelete(c, i, r)

Continues(c) ==
  \/ ResolveRole(c) \/ ResolveKeys(c) \/ ResolveStore(c)
  \/ FindRole(c) \/ ReplaceStart(c) \/ ReplaceDelete(c) \/ ReplaceCommit(c)
  \/ \E k \in Keys : ReplaceInsert(c, k)
  \/ CountUsers(c) \/ DropRole(c) \/ Invalidate(c) \/ Record(c) \/ GiveUp(c)

Next ==
  \/ \E c \in Calls : Begins(c) \/ Continues(c)
  \/ \E i \in Instances : Restart(i)
  \/ Tick

Spec == Init /\ [][Next]_vars

-------------------------------------------------------------------------------
(* What must hold *)

LastHeld(r, k) == IF k \in grants[r] THEN now ELSE lost[r][k]

\* Nobody is let in by a permission that the role has been without for Ttl, prolonged
\* by the time the instance took between reading the permissions and caching them:
\* what rbac_impl.ts:19-26 promises of a revocation that another instance made, or
\* that came between the read and the caching, for no invalidation reaches those.
EntitledWithinTtl ==
  \A i \in Instances, r \in Roles : \A k \in Permitted(i, r) :
    now - LastHeld(r, k) < Ttl + (cache[i][r].stored - cache[i][r].read)

\* A role has no permission but those that its last replacement, or one that
\* overlapped it, has asked for (rbac_postgres.ts:178-182): whatever was there
\* before both is gone, in whatever order their statements came.
OnlyWhatWasAsked == \A r \in Roles : grants[r] \subseteq asked[r]
===============================================================================
