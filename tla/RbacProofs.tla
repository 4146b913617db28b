------------------------------ MODULE RbacProofs ------------------------------
(***************************************************************************)
(* Proofs about Rbac for every number of requests, instances, roles and    *)
(* permissions: that a revoked permission ends in time, that overlapping   *)
(* replacements leave nothing nobody asked for, and that the requests are  *)
(* users of the audit chain.                                               *)
(***************************************************************************)
EXTENDS Rbac, AuditChainProofs

\* A request's record: what it has inserted is of a role that exists.
RequestOK(q) ==
  /\ q.at # "idle" => q.on \in Instances /\ q.role \in Roles
  /\ q.at # "inserting" => q.added = {} /\ q.todo = {}
  /\ q.todo \subseteq q.keys /\ q.added \subseteq q.keys
  /\ q.added # {} => q.role \in Live

\* What a request has read was the role's at that time.
ReadOK(q) ==
  q.at = "store" => q.read <= now /\ \A k \in q.keys : LastHeld(q.role, k) >= q.read

\* A replacement knows of every row that it leaves.
LeavesOK(q) == q.at \in Replacing => grants[q.role] \ q.old \subseteq q.others

CallsOK == \A c \in Calls : RequestOK(call[c]) /\ ReadOK(call[c]) /\ LeavesOK(call[c])
Overlaps ==
  \A c, d \in Calls :
    c # d /\ call[c].at \in Replacing /\ Open(d, call[c].role) => call[d].keys \subseteq call[c].others

EntriesOK ==
  \A i \in Instances, r \in Roles :
    cache[i][r] # None =>
      /\ cache[i][r].read <= cache[i][r].stored /\ cache[i][r].stored <= now
      /\ \A k \in cache[i][r].keys : LastHeld(r, k) >= cache[i][r].read
LostOK == \A r \in Roles, k \in Keys : lost[r][k] <= now

RowsOK ==
  /\ roles \in [Roles -> {"new", "live", "dropped"}]
  /\ grants \in [Roles -> SUBSET Keys]
  /\ \A r \in Roles \ Live : grants[r] = {}
HistoryOK ==
  /\ now \in Nat
  /\ lost \in [Roles -> [Keys -> Nat \cup {-1}]]
  /\ asked \in [Roles -> SUBSET Keys]
CacheOK == cache \in [Instances -> [Roles -> Entries \cup {None}]]

IInv ==
  /\ RowsOK /\ HistoryOK /\ CacheOK
  /\ call \in [Calls -> Requests] /\ CallsOK /\ Overlaps
  /\ EntriesOK /\ LostOK /\ OnlyWhatWasAsked

-------------------------------------------------------------------------------
(* Records of requests *)

LEMMA RequestType ==
  ASSUME NEW at \in Steps, NEW i \in Instances \cup {None}, NEW r \in Roles \cup {None}
  PROVE  Request(at, i, r) \in Requests
BY DEF Request, Requests

\* The fields of a request that has moved on
LEMMA MovedOn ==
  ASSUME NEW q \in Requests, NEW at \in Steps
  PROVE  /\ [q EXCEPT !.at = at] \in Requests
         /\ [q EXCEPT !.at = at].at = at
         /\ [q EXCEPT !.at = at].on = q.on
         /\ [q EXCEPT !.at = at].role = q.role
         /\ [q EXCEPT !.at = at].keys = q.keys
         /\ [q EXCEPT !.at = at].added = q.added
         /\ [q EXCEPT !.at = at].todo = q.todo
BY DEF Requests

LEMMA Typed ==
  ASSUME IInv, NEW c \in Calls
  PROVE  call[c] \in Requests /\ RequestOK(call[c]) /\ ReadOK(call[c]) /\ LeavesOK(call[c])
BY DEF IInv, CallsOK

\* A role's last moment with a permission never moves back.
LEMMA Later ==
  ASSUME IInv, NEW r \in Roles, NEW k \in Keys
  PROVE  LastHeld(r, k) \in Int /\ LastHeld(r, k) <= now
BY DEF IInv, LastHeld, LostOK, HistoryOK

LEMMA RegrantLater ==
  ASSUME IInv, NEW s \in Roles, NEW K \in SUBSET Keys, Regrant(s, K), now' = now
  PROVE  /\ grants' \in [Roles -> SUBSET Keys] /\ grants'[s] = K
         /\ \A r \in Roles \ {s} : grants'[r] = grants[r]
         /\ lost' \in [Roles -> [Keys -> Nat \cup {-1}]]
         /\ LostOK'
         /\ \A r \in Roles, k \in Keys : LastHeld(r, k)' >= LastHeld(r, k)
<1>1. /\ grants \in [Roles -> SUBSET Keys] /\ lost \in [Roles -> [Keys -> Nat \cup {-1}]]
      /\ now \in Nat
  BY DEF IInv, RowsOK, HistoryOK
<1>2. /\ grants' \in [Roles -> SUBSET Keys] /\ grants'[s] = K
      /\ \A r \in Roles \ {s} : grants'[r] = grants[r]
  BY <1>1 DEF Regrant
<1>3. /\ lost' \in [Roles -> [Keys -> Nat \cup {-1}]]
      /\ \A r \in Roles \ {s} : lost'[r] = lost[r]
      /\ \A k \in Keys : lost'[s][k] = IF k \in grants[s] \ K THEN now ELSE lost[s][k]
  BY <1>1 DEF Regrant
<1>4. ASSUME NEW r \in Roles, NEW k \in Keys
      PROVE  lost'[r][k] <= now' /\ LastHeld(r, k)' >= LastHeld(r, k)
  <2>1. lost[r][k] \in Int /\ lost[r][k] <= now
    BY <1>1 DEF IInv, LostOK
  <2>2. CASE r = s
    BY <1>1, <1>2, <1>3, <2>1, <2>2 DEF LastHeld
  <2>3. CASE r # s
    BY <1>1, <1>2, <1>3, <2>1, <2>3 DEF LastHeld
  <2> QED BY <2>2, <2>3
<1> QED BY <1>2, <1>3, <1>4 DEF LostOK

-------------------------------------------------------------------------------
(* Steps of one request that leave the rows alone *)

\* A request that moves outside a replacement, beside the others
LEMMA OneMoves ==
  ASSUME IInv, NEW c \in Calls, NEW q \in Requests, call' = [call EXCEPT ![c] = q],
         UNCHANGED <<grants, now, lost, asked>>, Live \subseteq Live',
         q.at \notin Replacing, RequestOK(q)', ReadOK(q)
  PROVE  call' \in [Calls -> Requests] /\ CallsOK' /\ Overlaps' /\ LostOK' /\ OnlyWhatWasAsked'
<1>1. /\ call' \in [Calls -> Requests] /\ call'[c] = q
      /\ \A d \in Calls \ {c} : call'[d] = call[d]
  BY DEF IInv
<1>2. ASSUME NEW d \in Calls
      PROVE  RequestOK(call[d])' /\ ReadOK(call[d])' /\ LeavesOK(call[d])'
  <2>1. CASE d = c
    <3>1. ReadOK(q)'
      BY DEF ReadOK, LastHeld
    <3> QED BY <1>1, <2>1, <3>1 DEF LeavesOK, RequestOK, ReadOK
  <2>2. CASE d # c
    <3>1. RequestOK(call[d]) /\ ReadOK(call[d]) /\ LeavesOK(call[d])
      BY Typed
    <3> QED BY <1>1, <2>2, <3>1 DEF RequestOK, ReadOK, LeavesOK, LastHeld
  <2> QED BY <2>1, <2>2
<1>3. Overlaps'
  <2> SUFFICES ASSUME NEW d \in Calls, NEW e \in Calls, d # e, call'[d].at \in Replacing,
                      Open(e, call[d].role)'
               PROVE  call'[e].keys \subseteq call'[d].others
    BY DEF Overlaps
  <2>1. d # c /\ e # c
    BY <1>1 DEF Open
  <2> QED BY <1>1, <2>1 DEF IInv, Overlaps, Open
<1>4. LostOK' /\ OnlyWhatWasAsked'
  BY DEF IInv, LostOK, OnlyWhatWasAsked
<1> QED BY <1>1, <1>2, <1>3, <1>4 DEF CallsOK

\* The same, with rows and cache left alone, or one entry dropped or stored
LEMMA QuietMove ==
  ASSUME IInv, NEW c \in Calls, NEW q \in Requests, call' = [call EXCEPT ![c] = q],
         UNCHANGED <<roles, grants, cache, now, lost, asked>>,
         q.at \notin Replacing, RequestOK(q), ReadOK(q)
  PROVE  IInv'
<1>1. RequestOK(q)' /\ Live \subseteq Live'
  BY DEF RequestOK, Live
<1>2. call' \in [Calls -> Requests] /\ CallsOK' /\ Overlaps' /\ LostOK' /\ OnlyWhatWasAsked'
  BY <1>1, OneMoves
<1>3. RowsOK' /\ HistoryOK' /\ CacheOK' /\ EntriesOK'
  BY DEF IInv, RowsOK, HistoryOK, CacheOK, EntriesOK, LastHeld, Live
<1> QED BY <1>2, <1>3 DEF IInv

\* A request that starts, or goes on with nothing but its role
LEMMA FreshOK ==
  ASSUME NEW at \in Steps, NEW i \in Instances, NEW r \in Roles, at # "store"
  PROVE  /\ RequestOK(Request(at, i, r)) /\ ReadOK(Request(at, i, r))
         /\ Request(at, i, r).at = at /\ Request(at, i, r) \in Requests
BY RequestType DEF RequestOK, ReadOK, Request

LEMMA IdleOK == Idle \in Requests /\ RequestOK(Idle) /\ ReadOK(Idle) /\ Idle.at = "idle"
<1>1. "idle" \in Steps
  BY DEF Steps
<1>2. Idle \in Requests
  BY <1>1, RequestType DEF Idle
<1> QED BY <1>2 DEF Idle, Request, RequestOK, ReadOK

LEMMA StepNames ==
  /\ Steps = {"idle", "store", "invalidate", "audit", "role", "keys", "get", "delete", "count", "drop",
              "deleting", "inserting"}
  /\ Replacing = {"deleting", "inserting"}
BY DEF Steps, Failing, Replacing

-------------------------------------------------------------------------------
(* The steps *)

LEMMA Ended ==
  ASSUME IInv, NEW c \in Calls, Ends(c), UNCHANGED <<roles, grants, cache, now, lost, asked>>
  PROVE  IInv'
BY IdleOK, QuietMove, StepNames DEF Ends, Becomes

\* A step to a place of which nothing is known but the request's role
LEMMA Moved ==
  ASSUME IInv, NEW c \in Calls, NEW at \in Steps \ (Replacing \cup {"store"}), Moves(c, at),
         call[c].at \notin {"idle", "inserting"},
         UNCHANGED <<roles, grants, cache, now, lost, asked>>
  PROVE  IInv'
<1> DEFINE q == [call[c] EXCEPT !.at = at]
<1>1. call[c] \in Requests /\ RequestOK(call[c])
  BY Typed
<1>2. /\ q \in Requests /\ q.at = at /\ q.on = call[c].on /\ q.role = call[c].role
      /\ q.keys = call[c].keys /\ q.added = call[c].added /\ q.todo = call[c].todo
  BY <1>1, MovedOn
<1>3. call' = [call EXCEPT ![c] = q]
  BY DEF Moves, Becomes
<1> HIDE DEF q
<1>4. RequestOK(q) /\ ReadOK(q)
  BY <1>1, <1>2 DEF RequestOK, ReadOK
<1> QED BY <1>2, <1>3, <1>4, QuietMove

LEMMA Asking ==
  ASSUME IInv, NEW c \in Calls, NEW i \in Instances, NEW r \in Roles, Ask(c, i, r) \/ AskDelete(c, i, r)
  PROVE  IInv'
<1>1. PICK at \in {"role", "count"} : Becomes(c, Request(at, i, r))
  BY DEF Ask, AskDelete
<1>2. UNCHANGED <<roles, grants, cache, now, lost, asked>>
  BY DEF Ask, AskDelete
<1>3. at \in Steps /\ at # "store" /\ at \notin Replacing
  BY StepNames
<1> QED BY <1>1, <1>2, <1>3, FreshOK, QuietMove DEF Becomes

\* A request to change a role, which has inserted nothing yet
Asked(q, at, i, r) ==
  /\ q \in Requests /\ q.at = at /\ q.on = i /\ q.role = r
  /\ q.added = {} /\ q.todo = {}

LEMMA ChangeType ==
  ASSUME NEW at \in Steps, NEW i \in Instances, NEW r \in Roles, NEW K \in SUBSET Keys,
         NEW t \in BOOLEAN, NEW a \in BOOLEAN
  PROVE  /\ Asked([Request(at, i, r) EXCEPT !.keys = K, !.touches = t, !.audited = a], at, i, r)
         /\ Asked([Request(at, i, r) EXCEPT !.keys = K, !.touches = t], at, i, r)
         /\ Asked([Request(at, i, r) EXCEPT !.audited = a], at, i, r)
BY DEF Request, Requests, Asked

LEMMA AskedOK ==
  ASSUME NEW at \in Steps \ {"store"}, NEW i \in Instances, NEW r \in Roles, NEW q, Asked(q, at, i, r)
  PROVE  RequestOK(q) /\ ReadOK(q)
BY DEF Asked, RequestOK, ReadOK

LEMMA Changing ==
  ASSUME IInv, NEW c \in Calls, NEW i \in Instances, NEW r \in Roles, NEW K \in SUBSET Keys,
         NEW t \in BOOLEAN, NEW a \in BOOLEAN, Change(c, i, r, K, t, a)
  PROVE  IInv'
<1> DEFINE q == [Request("get", i, r) EXCEPT !.keys = K, !.touches = t, !.audited = a]
<1>1. call' = [call EXCEPT ![c] = q] /\ UNCHANGED <<roles, grants, cache, now, lost, asked>>
  BY DEF Change, Becomes
<1>2. "get" \in Steps \ {"store"} /\ "get" \notin Replacing
  BY StepNames
<1>3. Asked(q, "get", i, r)
  BY <1>2, ChangeType
<1> HIDE DEF q
<1> QED BY <1>1, <1>2, <1>3, AskedOK, QuietMove DEF Asked

LEMMA Creating ==
  ASSUME IInv, NEW c \in Calls, NEW i \in Instances, NEW r \in Roles, NEW K \in SUBSET Keys,
         NEW t \in BOOLEAN, CreateRole(c, i, r, K, t)
  PROVE  IInv'
<1> DEFINE at == AfterRole(t)
           q == [Request(at, i, r) EXCEPT !.keys = K, !.touches = t]
<1>1. /\ call' = [call EXCEPT ![c] = q] /\ UNCHANGED <<grants, cache, now, lost, asked>>
      /\ roles[r] = "new" /\ roles' = [roles EXCEPT ![r] = "live"]
  BY DEF CreateRole, Becomes
<1>2. at \in Steps \ {"store"} /\ at \notin Replacing
  BY StepNames DEF AfterRole
<1> HIDE DEF at
<1>3. Asked(q, at, i, r)
  BY <1>2, ChangeType
<1> HIDE DEF q
<1>4. RequestOK(q)' /\ ReadOK(q) /\ q \in Requests /\ q.at \notin Replacing
  BY <1>2, <1>3 DEF Asked, RequestOK, ReadOK
<1>5. Live \subseteq Live' /\ roles' \in [Roles -> {"new", "live", "dropped"}]
  BY <1>1 DEF IInv, RowsOK, Live
<1>6. call' \in [Calls -> Requests] /\ CallsOK' /\ Overlaps' /\ LostOK' /\ OnlyWhatWasAsked'
  BY <1>1, <1>4, <1>5, OneMoves
<1>7. RowsOK' /\ HistoryOK' /\ CacheOK' /\ EntriesOK'
  BY <1>1, <1>5 DEF IInv, RowsOK, HistoryOK, CacheOK, EntriesOK, LastHeld
<1> QED BY <1>6, <1>7 DEF IInv

LEMMA Reading ==
  ASSUME IInv, NEW c \in Calls, ResolveKeys(c)
  PROVE  IInv'
<1> DEFINE q == [call[c] EXCEPT !.at = "store", !.keys = grants[call[c].role], !.read = now]
<1>1. call[c] \in Requests /\ RequestOK(call[c]) /\ call[c].at = "keys"
  BY Typed DEF ResolveKeys
<1>2. call[c].role \in Roles /\ call[c].on \in Instances /\ call[c].added = {} /\ call[c].todo = {}
  BY <1>1 DEF RequestOK
<1>3. grants[call[c].role] \in SUBSET Keys /\ now \in Nat
  BY <1>2 DEF IInv, RowsOK, HistoryOK
<1>4. "store" \in Steps /\ "store" \notin Replacing
  BY StepNames
<1>5. /\ q \in Requests /\ q.at = "store" /\ q.on = call[c].on /\ q.role = call[c].role
      /\ q.keys = grants[call[c].role] /\ q.added = call[c].added /\ q.todo = call[c].todo /\ q.read = now
  BY <1>1, <1>3, <1>4 DEF Requests
<1>6. call' = [call EXCEPT ![c] = q] /\ UNCHANGED <<roles, grants, cache, now, lost, asked>>
  BY DEF ResolveKeys, Becomes
<1> HIDE DEF q
<1>7. ReadOK(q)
  BY <1>3, <1>5 DEF ReadOK, LastHeld
<1>8. RequestOK(q)
  BY <1>2, <1>5 DEF RequestOK
<1> QED BY <1>4, <1>5, <1>6, <1>7, <1>8, QuietMove

\* What an instance has in its cache after a step that touches one entry
EntryOK(entry, r) ==
  entry # None =>
    /\ entry.read <= entry.stored /\ entry.stored <= now
    /\ \A k \in entry.keys : LastHeld(r, k) >= entry.read

LEMMA CachePoint ==
  ASSUME IInv, NEW i \in Instances, NEW r \in Roles, NEW entry \in Entries \cup {None}, EntryOK(entry, r),
         cache' = [cache EXCEPT ![i][r] = entry], UNCHANGED <<grants, now, lost>>
  PROVE  CacheOK' /\ EntriesOK'
<1>1. cache \in [Instances -> [Roles -> Entries \cup {None}]]
  BY DEF IInv, CacheOK
<1>2. CacheOK'
  BY <1>1 DEF CacheOK
<1>3. ASSUME NEW j \in Instances, NEW s \in Roles
      PROVE  EntryOK(cache[j][s], s)'
  <2>1. CASE j = i /\ s = r
    <3>1. cache'[j][s] = entry
      BY <1>1, <2>1
    <3> QED BY <2>1, <3>1 DEF EntryOK, LastHeld
  <2>2. CASE ~ (j = i /\ s = r)
    <3>1. cache'[j][s] = cache[j][s]
      BY <1>1, <2>2
    <3>2. EntryOK(cache[j][s], s)
      BY DEF IInv, EntriesOK, EntryOK
    <3> QED BY <3>1, <3>2 DEF EntryOK, LastHeld
  <2> QED BY <2>1, <2>2
<1> QED BY <1>2, <1>3 DEF EntriesOK, EntryOK

LEMMA Storing ==
  ASSUME IInv, NEW c \in Calls, ResolveStore(c)
  PROVE  IInv'
<1> DEFINE entry == [keys |-> call[c].keys, read |-> call[c].read, stored |-> now]
<1>1. call[c] \in Requests /\ RequestOK(call[c]) /\ ReadOK(call[c]) /\ call[c].at = "store"
  BY Typed DEF ResolveStore
<1>2. call[c].role \in Roles /\ call[c].on \in Instances
  BY <1>1 DEF RequestOK
<1>3. now \in Nat
  BY DEF IInv, HistoryOK
<1>4. call[c].keys \in SUBSET Keys /\ call[c].read \in Nat
  BY <1>1 DEF Requests
<1>5. entry \in Entries /\ entry.keys = call[c].keys /\ entry.read = call[c].read /\ entry.stored = now
  BY <1>3, <1>4 DEF Entries
<1>6. cache' = [cache EXCEPT ![call[c].on][call[c].role] = entry]
  BY DEF ResolveStore
<1>7. call' = [call EXCEPT ![c] = Idle] /\ UNCHANGED <<roles, grants, now, lost, asked>>
  BY DEF ResolveStore, Ends, Becomes
<1> HIDE DEF entry
<1>8. EntryOK(entry, call[c].role)
  BY <1>1, <1>3, <1>5 DEF EntryOK, ReadOK
<1>9. CacheOK' /\ EntriesOK'
  BY <1>2, <1>5, <1>6, <1>7, <1>8, CachePoint
<1>10. RequestOK(Idle)' /\ Live \subseteq Live'
  BY <1>7, IdleOK DEF RequestOK, Live
<1>11. call' \in [Calls -> Requests] /\ CallsOK' /\ Overlaps' /\ LostOK' /\ OnlyWhatWasAsked'
  BY <1>7, <1>10, IdleOK, OneMoves, StepNames
<1>12. RowsOK' /\ HistoryOK'
  BY <1>7 DEF IInv, RowsOK, HistoryOK, Live
<1> QED BY <1>9, <1>11, <1>12 DEF IInv

LEMMA Invalidating ==
  ASSUME IInv, NEW c \in Calls, Invalidate(c)
  PROVE  IInv' /\ (UNCHANGED auditVars \/ AppendBegin(c, call[c].role)) /\ call[c].role \in Roles
<1>1. call[c] \in Requests /\ RequestOK(call[c]) /\ call[c].at = "invalidate"
  BY Typed DEF Invalidate
<1>2. call[c].role \in Roles /\ call[c].on \in Instances
  BY <1>1 DEF RequestOK
<1>3. UNCHANGED <<roles, grants, now, lost, asked>>
      /\ cache' = [cache EXCEPT ![call[c].on][call[c].role] = None]
  BY DEF Invalidate
<1>4. CacheOK' /\ EntriesOK'
  BY <1>2, <1>3, CachePoint DEF EntryOK
<1>5. PICK q : /\ call' = [call EXCEPT ![c] = q]
               /\ q = Idle \/ q = Request("audit", call[c].on, call[c].role)
  BY DEF Invalidate, Ends, Becomes
<1>6. q \in Requests /\ RequestOK(q) /\ ReadOK(q) /\ q.at \notin Replacing
  <2>1. "audit" \in Steps /\ "audit" # "store" /\ "audit" \notin Replacing /\ "idle" \notin Replacing
    BY StepNames
  <2> QED BY <1>2, <1>5, <2>1, IdleOK, FreshOK
<1>7. RequestOK(q)' /\ Live \subseteq Live'
  BY <1>3, <1>6 DEF RequestOK, Live
<1>8. call' \in [Calls -> Requests] /\ CallsOK' /\ Overlaps' /\ LostOK' /\ OnlyWhatWasAsked'
  BY <1>3, <1>5, <1>6, <1>7, OneMoves
<1>9. RowsOK' /\ HistoryOK'
  BY <1>3 DEF IInv, RowsOK, HistoryOK, Live
<1>10. UNCHANGED auditVars \/ AppendBegin(c, call[c].role)
  BY DEF Invalidate
<1> QED BY <1>2, <1>4, <1>8, <1>9, <1>10 DEF IInv

LEMMA Around ==
  ASSUME IInv, Tick \/ \E i \in Instances : Restart(i)
  PROVE  IInv'
<1>1. CASE Tick
  <2>1. now' = now + 1 /\ now \in Nat /\ UNCHANGED <<roles, grants, cache, call, lost, asked>>
    BY <1>1 DEF Tick, IInv, HistoryOK
  <2>2. \A r \in Roles, k \in Keys : lost[r][k] \in Int /\ lost[r][k] <= now'
    BY <2>1 DEF IInv, HistoryOK, LostOK
  <2>3. \A r \in Roles, k \in Keys : LastHeld(r, k)' >= LastHeld(r, k) /\ LastHeld(r, k) \in Int
                                     /\ LastHeld(r, k)' \in Int
    BY <2>1, <2>2 DEF LastHeld
  <2>4. LostOK'
    BY <2>1, <2>2 DEF LostOK
  <2>5. ASSUME NEW c \in Calls
        PROVE  RequestOK(call[c])' /\ ReadOK(call[c])' /\ LeavesOK(call[c])'
    <3>1. call[c] \in Requests /\ RequestOK(call[c]) /\ ReadOK(call[c]) /\ LeavesOK(call[c])
      BY Typed
    <3>2. RequestOK(call[c])' /\ LeavesOK(call[c])'
      BY <2>1, <3>1 DEF RequestOK, LeavesOK, Live
    <3>3. ReadOK(call[c])'
      <4> SUFFICES ASSUME call[c].at = "store"
                   PROVE  call[c].read <= now' /\ \A k \in call[c].keys : LastHeld(call[c].role, k)' >= call[c].read
        BY <2>1 DEF ReadOK, LastHeld
      <4>1. call[c].read \in Nat /\ call[c].keys \subseteq Keys /\ call[c].role \in Roles
        BY <3>1 DEF Requests, RequestOK
      <4>2. call[c].read <= now /\ \A k \in call[c].keys : LastHeld(call[c].role, k) >= call[c].read
        BY <3>1 DEF ReadOK
      <4> HIDE DEF LastHeld
      <4> QED BY <2>1, <2>3, <4>1, <4>2
    <3> QED BY <3>2, <3>3
  <2>6. EntriesOK'
    <3> SUFFICES ASSUME NEW i \in Instances, NEW r \in Roles, cache[i][r] # None
                 PROVE  /\ cache[i][r].read <= cache[i][r].stored /\ cache[i][r].stored <= now'
                        /\ \A k \in cache[i][r].keys : LastHeld(r, k)' >= cache[i][r].read
      BY <2>1 DEF EntriesOK, LastHeld
    <3>1. cache[i][r] \in Entries
      BY DEF IInv, CacheOK
    <3>2. cache[i][r].read \in Nat /\ cache[i][r].stored \in Nat /\ cache[i][r].keys \subseteq Keys
      BY <3>1 DEF Entries
    <3>3. /\ cache[i][r].read <= cache[i][r].stored /\ cache[i][r].stored <= now
          /\ \A k \in cache[i][r].keys : LastHeld(r, k) >= cache[i][r].read
      BY DEF IInv, EntriesOK
    <3> QED BY <2>1, <2>3, <3>2, <3>3
  <2>7. RowsOK' /\ HistoryOK' /\ CacheOK' /\ call' \in [Calls -> Requests] /\ Overlaps' /\ OnlyWhatWasAsked'
    BY <2>1 DEF IInv, RowsOK, HistoryOK, CacheOK, Overlaps, Open, OnlyWhatWasAsked, Live
  <2> QED BY <2>1, <2>4, <2>5, <2>6, <2>7 DEF IInv, CallsOK
<1>2. ASSUME NEW i \in Instances, Restart(i) PROVE IInv'
  <2>1. /\ cache' = [cache EXCEPT ![i] = [r \in Roles |-> None]]
        /\ UNCHANGED <<roles, grants, call, now, lost, asked>>
    BY <1>2 DEF Restart
  <2>2. cache \in [Instances -> [Roles -> Entries \cup {None}]]
    BY DEF IInv, CacheOK
  <2>3. CacheOK'
    BY <2>1, <2>2 DEF CacheOK
  <2>4. \A j \in Instances, r \in Roles : cache'[j][r] = None \/ cache'[j][r] = cache[j][r]
    BY <2>1, <2>2
  <2>5. EntriesOK'
    BY <2>1, <2>4 DEF IInv, EntriesOK, LastHeld
  <2>6. /\ RowsOK' /\ HistoryOK' /\ CallsOK' /\ Overlaps' /\ LostOK' /\ OnlyWhatWasAsked'
        /\ call' \in [Calls -> Requests]
    BY <2>1 DEF IInv, RowsOK, HistoryOK, CallsOK, RequestOK, ReadOK, LeavesOK, Overlaps, Open, LostOK,
                OnlyWhatWasAsked, Live, LastHeld
  <2> QED BY <2>3, <2>5, <2>6 DEF IInv
<1> QED BY <1>1, <1>2

-------------------------------------------------------------------------------
(* The replacement of a role's permissions *)

\* What another request's step leaves alone in a request
Kept(p, q) ==
  /\ q.at = p.at /\ q.on = p.on /\ q.role = p.role /\ q.keys = p.keys /\ q.read = p.read
  /\ q.added = p.added /\ q.todo = p.todo /\ p.others \subseteq q.others

LEMMA KeptByOthers ==
  ASSUME NEW p \in Requests, NEW K \in SUBSET Keys
  PROVE  /\ [p EXCEPT !.others = @ \cup K] \in Requests /\ Kept(p, [p EXCEPT !.others = @ \cup K])
         /\ [p EXCEPT !.others = @ \cup K].others = p.others \cup K
         /\ [p EXCEPT !.others = @ \cup K].old = p.old
BY DEF Requests, Kept

LEMMA KeptByOld ==
  ASSUME NEW p \in Requests, NEW K \in SUBSET Keys
  PROVE  /\ [p EXCEPT !.old = K] \in Requests /\ Kept(p, [p EXCEPT !.old = K])
         /\ [p EXCEPT !.old = K].others = p.others
         /\ [p EXCEPT !.old = K].old = K
BY DEF Requests, Kept

\* Requests that are left alone stay right when no role is lost to one that has
\* inserted something.
LEMMA KeptOK ==
  ASSUME IInv, NEW d \in Calls, Kept(call[d], call'[d]), now' = now,
         call[d].added # {} => call[d].role \in Live',
         \A r \in Roles, k \in Keys : LastHeld(r, k)' >= LastHeld(r, k) /\ LastHeld(r, k)' \in Int
  PROVE  RequestOK(call[d])' /\ ReadOK(call[d])'
<1>1. call[d] \in Requests /\ RequestOK(call[d]) /\ ReadOK(call[d])
  BY Typed
<1>2. RequestOK(call[d])'
  BY <1>1 DEF Kept, RequestOK
<1>3. ASSUME NEW r \in Roles, r = call[d].role, call[d].at = "store"
      PROVE  call[d].read <= now' /\ \A k \in call[d].keys : LastHeld(r, k)' >= call[d].read
  <2>1. call[d].read \in Nat /\ call[d].keys \subseteq Keys
    BY <1>1 DEF Requests
  <2>2. call[d].read <= now /\ \A k \in call[d].keys : LastHeld(r, k) >= call[d].read
    BY <1>1, <1>3 DEF ReadOK
  <2>3. \A k \in Keys : LastHeld(r, k) \in Int
    BY Later
  <2> HIDE DEF LastHeld
  <2> QED BY <2>1, <2>2, <2>3
<1>4. call'[d].at = call[d].at /\ call'[d].keys = call[d].keys /\ call'[d].role = call[d].role
      /\ call'[d].read = call[d].read
  BY DEF Kept
<1>5. call[d].at = "store" => call[d].role \in Roles
  BY <1>1 DEF RequestOK
<1>6. ReadOK(call[d])'
  BY <1>3, <1>4, <1>5 DEF ReadOK, LastHeld
<1> QED BY <1>2, <1>6

\* Entries stay right when no role is held for less long.
LEMMA EntriesKept ==
  ASSUME IInv, UNCHANGED <<cache, now>>,
         \A r \in Roles, k \in Keys : LastHeld(r, k)' >= LastHeld(r, k) /\ LastHeld(r, k)' \in Int
  PROVE  CacheOK' /\ EntriesOK'
<1> SUFFICES ASSUME NEW i \in Instances, NEW r \in Roles, cache[i][r] # None
             PROVE  /\ cache[i][r].read <= cache[i][r].stored /\ cache[i][r].stored <= now
                    /\ \A k \in cache[i][r].keys : LastHeld(r, k)' >= cache[i][r].read
  BY DEF IInv, CacheOK, EntriesOK, LastHeld
<1>1. cache[i][r] \in Entries
  BY DEF IInv, CacheOK
<1>2. cache[i][r].read \in Nat /\ cache[i][r].keys \subseteq Keys
  BY <1>1 DEF Entries
<1>3. /\ cache[i][r].read <= cache[i][r].stored /\ cache[i][r].stored <= now
      /\ \A k \in cache[i][r].keys : LastHeld(r, k) >= cache[i][r].read
  BY DEF IInv, EntriesOK
<1>4. \A k \in Keys : LastHeld(r, k) \in Int
  BY Later
<1> HIDE DEF LastHeld
<1> QED BY <1>2, <1>3, <1>4

\* Nothing about rows, history or cache has changed.
Untouched == UNCHANGED <<roles, grants, cache, now, lost, asked>>

LEMMA RestUntouched ==
  ASSUME IInv, Untouched
  PROVE  /\ RowsOK' /\ HistoryOK' /\ CacheOK' /\ EntriesOK' /\ LostOK' /\ OnlyWhatWasAsked'
         /\ Live' = Live
         /\ \A r \in Roles, k \in Keys : LastHeld(r, k)' >= LastHeld(r, k) /\ LastHeld(r, k)' \in Int
<1>1. \A r \in Roles, k \in Keys : LastHeld(r, k)' = LastHeld(r, k)
  BY DEF Untouched, LastHeld
<1>2. \A r \in Roles, k \in Keys : LastHeld(r, k) \in Int
  BY Later
<1>3. \A r \in Roles, k \in Keys : LastHeld(r, k)' >= LastHeld(r, k) /\ LastHeld(r, k)' \in Int
  BY <1>1, <1>2
<1> QED
  BY <1>3 DEF Untouched, IInv, RowsOK, HistoryOK, CacheOK, EntriesOK, LostOK, OnlyWhatWasAsked, Live, LastHeld

LEMMA Starting ==
  ASSUME IInv, NEW c \in Calls, ReplaceStart(c)
  PROVE  IInv'
<1> DEFINE r == call[c].role
           K == UNION {call[e].keys : e \in Rivals(c)}
           q == [call[c] EXCEPT !.at = "deleting", !.old = Found(call[c].role), !.others = K]
<1>1. call[c] \in Requests /\ RequestOK(call[c]) /\ call[c].at = "delete"
  BY Typed DEF ReplaceStart
<1>2. r \in Roles /\ call[c].added = {} /\ call[c].todo = {} /\ call[c].keys \subseteq Keys
  BY <1>1 DEF RequestOK, Requests
<1>3. \A d \in Calls : call[d] \in Requests /\ call[d].keys \subseteq Keys
  BY Typed DEF Requests
<1>4. K \in SUBSET Keys /\ Found(r) \in SUBSET Keys
  BY <1>2, <1>3 DEF Rivals, Found, IInv, RowsOK
<1>5. Untouched
  BY DEF ReplaceStart, Untouched
<1>6. call' \in [Calls -> Requests]
  <2>1. q \in Requests
    BY <1>1, <1>4, StepNames DEF Requests
  <2>2. \A d \in Calls : [call[d] EXCEPT !.others = @ \cup call[c].keys] \in Requests
    BY <1>2, <1>3, KeptByOthers
  <2> HIDE DEF q
  <2>3. call' = [d \in Calls |-> IF d = c THEN q
                                 ELSE IF d \in Rivals(c) THEN [call[d] EXCEPT !.others = @ \cup call[c].keys]
                                 ELSE call[d]]
    BY DEF ReplaceStart, q
  <2> QED BY <1>3, <2>1, <2>2, <2>3
<1>7. /\ call'[c].at = "deleting" /\ call'[c].on = call[c].on /\ call'[c].role = r
      /\ call'[c].keys = call[c].keys /\ call'[c].added = {} /\ call'[c].todo = {}
      /\ call'[c].old = grants[r] /\ call'[c].others = K
  BY <1>1, <1>2 DEF ReplaceStart, Requests, Found
<1>8. ASSUME NEW d \in Calls, d # c
      PROVE  /\ Kept(call[d], call'[d]) /\ call'[d].old = call[d].old
             /\ d \in Rivals(c) => call[c].keys \subseteq call'[d].others
  <2>1. CASE d \in Rivals(c)
    <3>1. call'[d] = [call[d] EXCEPT !.others = @ \cup call[c].keys]
      BY <1>8, <2>1 DEF ReplaceStart
    <3> QED BY <1>2, <1>3, <3>1, KeptByOthers
  <2>2. CASE d \notin Rivals(c)
    <3>1. call'[d] = call[d]
      BY <1>8, <2>2 DEF ReplaceStart
    <3> QED BY <2>2, <3>1 DEF Kept
  <2> QED BY <2>1, <2>2
<1>9. ASSUME NEW d \in Calls
      PROVE  RequestOK(call[d])' /\ ReadOK(call[d])' /\ LeavesOK(call[d])'
  <2>1. CASE d = c
    <3>1. call'[c].on \in Instances /\ r \in Roles
      BY <1>1, <1>2, <1>7 DEF RequestOK
    <3> HIDE DEF r
    <3> QED BY <1>5, <1>7, <2>1, <3>1 DEF RequestOK, ReadOK, LeavesOK, Untouched
  <2>2. CASE d # c
    <3>1. RequestOK(call[d])' /\ ReadOK(call[d])'
      BY <1>5, <1>8, <2>2, RestUntouched, KeptOK, Typed DEF Untouched, RequestOK
    <3>2. LeavesOK(call[d])
      BY Typed
    <3>3. LeavesOK(call[d])'
      BY <1>5, <1>8, <2>2, <3>2 DEF LeavesOK, Kept, Untouched
    <3> QED BY <3>1, <3>3
  <2> QED BY <2>1, <2>2
<1>10. Overlaps'
  <2> SUFFICES ASSUME NEW d \in Calls, NEW e \in Calls, d # e, call'[d].at \in Replacing,
                      call'[e].role = call'[d].role, call'[e].at \in Replacing
               PROVE  call'[e].keys \subseteq call'[d].others
    BY DEF Overlaps, Open
  <2>1. CASE d = c
    <3>1. Kept(call[e], call'[e])
      BY <1>8, <2>1
    <3>2. e \in Rivals(c)
      BY <1>7, <2>1, <3>1 DEF Rivals, Open, Kept
    <3>3. call[e].keys \subseteq K
      BY <3>2
    <3> QED BY <1>7, <2>1, <3>1, <3>3 DEF Kept
  <2>2. CASE e = c
    <3>1. Kept(call[d], call'[d])
      BY <1>8, <2>2
    <3>2. d \in Rivals(c)
      BY <1>7, <2>2, <3>1 DEF Rivals, Open, Kept
    <3> QED BY <1>7, <1>8, <2>2, <3>2
  <2>3. CASE d # c /\ e # c
    <3>1. Kept(call[d], call'[d]) /\ Kept(call[e], call'[e])
      BY <1>8, <2>3
    <3>2. call[e].keys \subseteq call[d].others
      BY <3>1 DEF Kept, IInv, Overlaps, Open
    <3> QED BY <3>1, <3>2 DEF Kept
  <2> QED BY <2>1, <2>2, <2>3
<1> QED BY <1>5, <1>6, <1>9, <1>10, RestUntouched DEF IInv, CallsOK

\* A replacement that goes on without having changed what it replaces
LEMMA GoesOn ==
  ASSUME IInv, NEW c \in Calls, NEW q \in Requests, call' = [call EXCEPT ![c] = q], Untouched,
         call[c].at \in Replacing, q.at \in Replacing, RequestOK(q), q.role = call[c].role,
         q.keys = call[c].keys, q.old = call[c].old, q.others = call[c].others
  PROVE  IInv'
<1>1. /\ call' \in [Calls -> Requests] /\ call'[c] = q
      /\ \A d \in Calls \ {c} : call'[d] = call[d]
  BY DEF IInv
<1>2. Live' = Live
  BY RestUntouched
<1>3. ASSUME NEW d \in Calls
      PROVE  RequestOK(call[d])' /\ ReadOK(call[d])' /\ LeavesOK(call[d])'
  <2>1. RequestOK(call[d]) /\ ReadOK(call[d]) /\ LeavesOK(call[d])
    BY Typed
  <2>2. CASE d = c
    <3>1. q.at # "store"
      BY StepNames
    <3> QED BY <1>1, <1>2, <2>1, <2>2, <3>1 DEF RequestOK, ReadOK, LeavesOK, Untouched
  <2>3. CASE d # c
    BY <1>1, <1>2, <2>1, <2>3 DEF RequestOK, ReadOK, LeavesOK, LastHeld, Untouched
  <2> QED BY <2>2, <2>3
<1>4. \A d \in Calls : /\ call'[d].at \in Replacing <=> call[d].at \in Replacing
                       /\ call'[d].at \in Replacing => call'[d].role = call[d].role
                       /\ call'[d].at \in Replacing => call'[d].keys = call[d].keys
                       /\ call'[d].at \in Replacing => call'[d].others = call[d].others
  BY <1>1
<1>5. Overlaps'
  BY <1>4 DEF IInv, Overlaps, Open
<1> QED BY <1>1, <1>3, <1>5, RestUntouched DEF IInv, CallsOK

LEMMA Deleting ==
  ASSUME IInv, NEW c \in Calls, ReplaceDelete(c)
  PROVE  IInv'
<1> DEFINE q == [call[c] EXCEPT !.at = "inserting", !.todo = call[c].keys]
<1>1. call[c] \in Requests /\ RequestOK(call[c]) /\ call[c].at = "deleting"
  BY Typed DEF ReplaceDelete
<1>2. /\ q \in Requests /\ q.at = "inserting" /\ q.on = call[c].on /\ q.role = call[c].role
      /\ q.keys = call[c].keys /\ q.added = call[c].added /\ q.todo = call[c].keys
      /\ q.old = call[c].old /\ q.others = call[c].others
  BY <1>1, StepNames DEF Requests
<1>3. call' = [call EXCEPT ![c] = q] /\ Untouched
  BY DEF ReplaceDelete, Becomes, Untouched
<1> HIDE DEF q
<1>4. RequestOK(q)
  BY <1>1, <1>2 DEF RequestOK
<1> QED BY <1>1, <1>2, <1>3, <1>4, GoesOn, StepNames

LEMMA Inserting ==
  ASSUME IInv, NEW c \in Calls, NEW k \in Keys, ReplaceInsert(c, k)
  PROVE  IInv'
<1> DEFINE A == IF k \in grants[call[c].role] \ call[c].old THEN call[c].added ELSE call[c].added \cup {k}
           q == [call[c] EXCEPT !.todo = call[c].todo \ {k}, !.added = A]
<1>1. call[c] \in Requests /\ RequestOK(call[c]) /\ call[c].at = "inserting" /\ k \in call[c].todo
  BY Typed DEF ReplaceInsert
<1>2. A \in SUBSET Keys /\ A \subseteq call[c].keys
  BY <1>1 DEF Requests, RequestOK
<1>3. call' = [call EXCEPT ![c] = q] /\ Untouched /\ call[c].role \in Live
  BY DEF ReplaceInsert, Becomes, Untouched, References
<1> HIDE DEF A
<1>4. /\ q \in Requests /\ q.at = "inserting" /\ q.on = call[c].on /\ q.role = call[c].role
      /\ q.keys = call[c].keys /\ q.added = A /\ q.todo = call[c].todo \ {k}
      /\ q.old = call[c].old /\ q.others = call[c].others
  BY <1>1, <1>2 DEF Requests
<1> HIDE DEF q
<1>5. RequestOK(q)
  BY <1>1, <1>2, <1>3, <1>4 DEF RequestOK
<1> QED BY <1>1, <1>3, <1>4, <1>5, GoesOn, StepNames

\* A step that sets the rows of role s to K, unless the role is dropped: what the
\* others have read and are about to leave stays right.
LEMMA Regranted ==
  ASSUME IInv, NEW c \in Calls, NEW s \in Roles, NEW K \in SUBSET Keys, Regrant(s, K), UNCHANGED <<cache, now>>,
         call' \in [Calls -> Requests], RequestOK(call[c])', call'[c].at \notin Replacing \cup {"store"},
         \A d \in Calls \ {c} : Kept(call[d], call'[d]) /\ call'[d].others = call[d].others,
         \A d \in Calls \ {c} : call[d].added # {} => call[d].role \in Live',
         \A d \in Calls \ {c} : call'[d].at \in Replacing =>
           IF call[d].role = s THEN K \ call'[d].old \subseteq call[d].others
                               ELSE call'[d].old = call[d].old
  PROVE  /\ CacheOK' /\ EntriesOK' /\ LostOK' /\ CallsOK' /\ Overlaps'
         /\ grants' \in [Roles -> SUBSET Keys] /\ grants'[s] = K
         /\ \A r \in Roles \ {s} : grants'[r] = grants[r]
         /\ lost' \in [Roles -> [Keys -> Nat \cup {-1}]]
<1>1. /\ grants' \in [Roles -> SUBSET Keys] /\ grants'[s] = K
      /\ \A r \in Roles \ {s} : grants'[r] = grants[r]
      /\ lost' \in [Roles -> [Keys -> Nat \cup {-1}]] /\ LostOK'
      /\ \A r \in Roles, k \in Keys : LastHeld(r, k)' >= LastHeld(r, k)
  BY RegrantLater
<1>2. \A r \in Roles, k \in Keys : LastHeld(r, k)' \in Int
  BY <1>1 DEF LastHeld, IInv, HistoryOK
<1>3. CacheOK' /\ EntriesOK'
  BY <1>1, <1>2, EntriesKept
<1>4. ASSUME NEW d \in Calls
      PROVE  RequestOK(call[d])' /\ ReadOK(call[d])' /\ LeavesOK(call[d])'
  <2>1. CASE d = c
    BY <2>1 DEF ReadOK, LeavesOK
  <2>2. CASE d # c
    <3>1. Kept(call[d], call'[d]) /\ call'[d].others = call[d].others /\ call[d].added # {} => call[d].role \in Live'
      BY <2>2
    <3>2. RequestOK(call[d])' /\ ReadOK(call[d])'
      BY <1>1, <1>2, <2>2, KeptOK
    <3>3. RequestOK(call[d]) /\ LeavesOK(call[d])
      BY Typed
    <3>4. LeavesOK(call[d])'
      <4> SUFFICES ASSUME call'[d].at \in Replacing
                   PROVE  grants'[call'[d].role] \ call'[d].old \subseteq call'[d].others
        BY DEF LeavesOK
      <4>1. /\ call'[d].role = call[d].role /\ call[d].role \in Roles
            /\ call[d].at \in Replacing /\ call'[d].others = call[d].others
        BY <2>2, <3>3, StepNames DEF Kept, RequestOK
      <4>2. CASE call[d].role = s
        BY <1>1, <2>2, <4>1, <4>2
      <4>3. CASE call[d].role # s
        BY <1>1, <2>2, <3>3, <4>1, <4>3 DEF LeavesOK
      <4> QED BY <4>2, <4>3
    <3> QED BY <3>2, <3>4
  <2> QED BY <2>1, <2>2
<1>5. Overlaps'
  <2> SUFFICES ASSUME NEW d \in Calls, NEW e \in Calls, d # e, call'[d].at \in Replacing,
                      call'[e].role = call'[d].role, call'[e].at \in Replacing
               PROVE  call'[e].keys \subseteq call'[d].others
    BY DEF Overlaps, Open
  <2>1. d # c /\ e # c
    OBVIOUS
  <2>2. Kept(call[d], call'[d]) /\ Kept(call[e], call'[e]) /\ call'[d].others = call[d].others
    BY <2>1
  <2> QED BY <2>2 DEF Kept, IInv, Overlaps, Open
<1> QED BY <1>1, <1>3, <1>4, <1>5 DEF CallsOK

LEMMA Committing ==
  ASSUME IInv, NEW c \in Calls, ReplaceCommit(c)
  PROVE  IInv'
<1> DEFINE r == call[c].role
           K == (grants[call[c].role] \ call[c].old) \cup call[c].added
<1>1. call[c] \in Requests /\ RequestOK(call[c]) /\ LeavesOK(call[c]) /\ call[c].at = "inserting"
  BY Typed DEF ReplaceCommit
<1>2. /\ r \in Roles /\ call[c].on \in Instances
      /\ call[c].keys \in SUBSET Keys /\ call[c].others \in SUBSET Keys /\ call[c].added \subseteq call[c].keys
      /\ grants[r] \in SUBSET Keys
      /\ call[c].added # {} => r \in Live
  BY <1>1 DEF RequestOK, Requests, IInv, RowsOK
<1>3. K \in SUBSET Keys /\ K \subseteq call[c].keys \cup call[c].others
  BY <1>1, <1>2, StepNames DEF LeavesOK
<1>4. /\ Regrant(r, K) /\ UNCHANGED <<roles, cache, now>>
      /\ asked' = [asked EXCEPT ![r] = call[c].keys \cup call[c].others]
  BY DEF ReplaceCommit
<1>5. PICK next \in {Idle, Following(c)} :
        call' = [d \in Calls |-> IF d = c THEN next
                                 ELSE IF d \in Rivals(c) /\ call[d].at = "deleting" THEN Skipping(c, d)
                                 ELSE call[d]]
  BY DEF ReplaceCommit
<1>6. next \in Requests /\ RequestOK(next) /\ next.at \notin Replacing \cup {"store"}
  <2>1. CASE next = Idle
    BY <2>1, IdleOK, StepNames
  <2>2. CASE next = Following(c)
    <3>1. "invalidate" \in Steps \ (Replacing \cup {"store"})
      BY StepNames
    <3>2. call[c].audited \in BOOLEAN
      BY <1>1 DEF Requests
    <3>3. Asked(Following(c), "invalidate", call[c].on, r)
      BY <1>2, <3>1, <3>2, ChangeType DEF Following
    <3> HIDE DEF r
    <3> QED BY <1>2, <2>2, <3>1, <3>3, AskedOK DEF Asked
  <2> QED BY <2>1, <2>2
<1> HIDE DEF K
<1>7. ASSUME NEW d \in Calls, d # c
      PROVE  /\ call'[d] \in Requests /\ Kept(call[d], call'[d]) /\ call'[d].others = call[d].others
             /\ call'[d].old = IF d \in Rivals(c) /\ call[d].at = "deleting" THEN call[d].old \ call[c].old
                                                                             ELSE call[d].old
  <2>1. call[d] \in Requests /\ call[d].old \ call[c].old \in SUBSET Keys
    BY Typed DEF Requests
  <2>2. CASE d \in Rivals(c) /\ call[d].at = "deleting"
    <3>1. call'[d] = [call[d] EXCEPT !.old = call[d].old \ call[c].old]
      BY <1>5, <1>7, <2>2 DEF Skipping
    <3> QED BY <2>1, <2>2, <3>1, KeptByOld
  <2>3. CASE ~ (d \in Rivals(c) /\ call[d].at = "deleting")
    BY <1>5, <1>7, <2>1, <2>3 DEF Kept
  <2> QED BY <2>2, <2>3
<1>8. call'[c] = next
  BY <1>5
<1>9. call' \in [Calls -> Requests]
  <2>1. \A d \in Calls : call'[d] \in Requests
    BY <1>6, <1>7, <1>8
  <2>2. call' = [d \in Calls |-> call'[d]]
    BY <1>5
  <2> QED BY <2>1, <2>2
<1>10. Live' = Live
  BY <1>4 DEF Live
<1>11. ASSUME NEW d \in Calls \ {c}, call'[d].at \in Replacing
       PROVE  IF call[d].role = r THEN K \ call'[d].old \subseteq call[d].others ELSE call'[d].old = call[d].old
  <2>1. call[d].at \in Replacing /\ LeavesOK(call[d])
    BY <1>7, <1>11, Typed DEF Kept
  <2>2. CASE call[d].role = r
    <3>1. d \in Rivals(c) /\ Open(c, call[d].role)
      BY <1>1, <2>1, <2>2, StepNames DEF Rivals, Open
    <3>2. call[c].keys \subseteq call[d].others
      BY <2>1, <3>1 DEF IInv, Overlaps
    <3>3. grants[r] \ call[d].old \subseteq call[d].others
      BY <2>1, <2>2 DEF LeavesOK
    <3>4. call'[d].old = call[d].old \/ call'[d].old = call[d].old \ call[c].old
      BY <1>7
    <3> QED BY <1>2, <2>2, <3>2, <3>3, <3>4 DEF K
  <2>3. CASE call[d].role # r
    BY <1>7, <2>3 DEF Rivals, Open
  <2> QED BY <2>2, <2>3
<1>12. /\ CacheOK' /\ EntriesOK' /\ LostOK' /\ CallsOK' /\ Overlaps'
       /\ grants' \in [Roles -> SUBSET Keys] /\ grants'[r] = K
       /\ \A s \in Roles \ {r} : grants'[s] = grants[s]
       /\ lost' \in [Roles -> [Keys -> Nat \cup {-1}]]
  <2>1. RequestOK(call[c])'
    BY <1>6, <1>8, <1>10 DEF RequestOK
  <2>2. \A d \in Calls \ {c} : call[d].added # {} => call[d].role \in Live'
    BY <1>10, Typed DEF RequestOK
  <2>3. \A d \in Calls \ {c} : Kept(call[d], call'[d]) /\ call'[d].others = call[d].others
    BY <1>7
  <2> HIDE DEF r
  <2> QED BY <1>2, <1>3, <1>4, <1>6, <1>8, <1>9, <1>11, <2>1, <2>2, <2>3, Regranted
<1>13. RowsOK'
  <2>1. ASSUME NEW s \in Roles \ Live PROVE grants'[s] = {}
    <3>1. grants[s] = {}
      BY DEF IInv, RowsOK
    <3> QED BY <1>2, <1>12, <3>1 DEF K
  <2> QED BY <1>4, <1>10, <1>12, <2>1 DEF RowsOK, IInv
<1>14. HistoryOK' /\ OnlyWhatWasAsked'
  <2>1. asked \in [Roles -> SUBSET Keys] /\ now \in Nat /\ OnlyWhatWasAsked
    BY DEF IInv, HistoryOK
  <2> HIDE DEF r
  <2>2. asked' \in [Roles -> SUBSET Keys] /\ asked'[r] = call[c].keys \cup call[c].others
        /\ \A s \in Roles \ {r} : asked'[s] = asked[s]
    BY <1>2, <1>4, <2>1
  <2>3. OnlyWhatWasAsked'
    BY <1>3, <1>12, <2>1, <2>2 DEF OnlyWhatWasAsked
  <2> QED BY <1>4, <1>12, <2>1, <2>2, <2>3 DEF HistoryOK
<1> QED BY <1>9, <1>12, <1>13, <1>14 DEF IInv

LEMMA Dropping ==
  ASSUME IInv, NEW c \in Calls, DropRole(c)
  PROVE  IInv'
<1>1. call[c] \in Requests /\ RequestOK(call[c]) /\ call[c].at = "drop"
  BY Typed DEF DropRole
<1>2. CASE call[c].role \notin Live \ SystemRoles
  BY <1>2, Ended DEF DropRole
<1>3. CASE call[c].role \in Live \ SystemRoles
  <2> DEFINE r == call[c].role
  <2>0. /\ roles' = [roles EXCEPT ![r] = "dropped"] /\ Regrant(r, {}) /\ UNCHANGED <<cache, now, asked>>
        /\ \A d \in Rivals(c) : Locked(d) = {}
    BY <1>3 DEF DropRole
  <2>1. PICK q \in {Idle, [call[c] EXCEPT !.at = "invalidate"]} :
          call' = [d \in Calls |-> IF d = c THEN q
                                  ELSE IF d \in Rivals(c) THEN [call[d] EXCEPT !.old = {}] ELSE call[d]]
    BY <1>3 DEF DropRole
  <2>2. "invalidate" \in Steps /\ "invalidate" \notin Replacing \cup {"store"}
    BY StepNames
  <2>3. /\ q \in Requests /\ q.at \notin Replacing \cup {"store"}
        /\ \/ q = Idle
           \/ /\ q.at = "invalidate" /\ q.on = call[c].on /\ q.role = r
              /\ q.keys = call[c].keys /\ q.added = call[c].added /\ q.todo = call[c].todo
    <3>1. CASE q = Idle
      BY <3>1, IdleOK, StepNames
    <3>2. CASE q = [call[c] EXCEPT !.at = "invalidate"]
      BY <1>1, <2>2, <3>2, MovedOn
    <3> QED BY <3>1, <3>2
  <2>4. ASSUME NEW d \in Calls, d # c
        PROVE  /\ call'[d] \in Requests /\ Kept(call[d], call'[d]) /\ call'[d].others = call[d].others
               /\ IF d \in Rivals(c) THEN call'[d].old = {} ELSE call'[d].old = call[d].old
    <3>1. call[d] \in Requests /\ {} \in SUBSET Keys
      BY Typed
    <3>2. CASE d \in Rivals(c)
      <4>1. call'[d] = [call[d] EXCEPT !.old = {}]
        BY <2>1, <2>4, <3>2
      <4> QED BY <3>1, <3>2, <4>1, KeptByOld
    <3>3. CASE d \notin Rivals(c)
      BY <2>1, <2>4, <3>1, <3>3 DEF Kept
    <3> QED BY <3>2, <3>3
  <2>5. call' \in [Calls -> Requests] /\ call'[c] = q
    <3>1. call'[c] = q
      BY <2>1
    <3>2. call' = [d \in Calls |-> call'[d]]
      BY <2>1
    <3>3. \A d \in Calls : call'[d] \in Requests
      BY <2>3, <2>4, <3>1
    <3> QED BY <3>1, <3>2, <3>3
  <2>6. r \in Roles /\ roles \in [Roles -> {"new", "live", "dropped"}]
    BY <1>3 DEF Live, IInv, RowsOK
  <2>7. Live' = Live \ {r} /\ roles' \in [Roles -> {"new", "live", "dropped"}]
    BY <2>0, <2>6 DEF Live
  <2>8. RequestOK(call[c])'
    <3>1. CASE q = Idle
      BY <2>5, <3>1 DEF RequestOK, Idle, Request
    <3>2. CASE q # Idle
      BY <1>1, <2>3, <2>5, <3>2 DEF RequestOK
    <3> QED BY <3>1, <3>2
  <2>9. ASSUME NEW d \in Calls \ {c}, call[d].added # {}
        PROVE  call[d].role \in Live'
    <3>1. call[d].at = "inserting" /\ call[d].role \in Live
      BY <2>9, Typed DEF RequestOK
    <3>2. d \notin Rivals(c)
      BY <2>0, <2>9, <3>1 DEF Locked
    <3> QED BY <2>7, <3>1, <3>2, StepNames DEF Rivals, Open
  <2>10. ASSUME NEW d \in Calls \ {c}, call'[d].at \in Replacing
         PROVE  IF call[d].role = r THEN {} \ call'[d].old \subseteq call[d].others ELSE call'[d].old = call[d].old
    BY <2>4 DEF Rivals, Open
  <2>11. /\ CacheOK' /\ EntriesOK' /\ LostOK' /\ CallsOK' /\ Overlaps'
         /\ grants' \in [Roles -> SUBSET Keys] /\ grants'[r] = {}
         /\ \A s \in Roles \ {r} : grants'[s] = grants[s]
         /\ lost' \in [Roles -> [Keys -> Nat \cup {-1}]]
    <3>1. \A d \in Calls \ {c} : Kept(call[d], call'[d]) /\ call'[d].others = call[d].others
      BY <2>4
    <3>2. {} \in SUBSET Keys
      OBVIOUS
    <3> HIDE DEF r
    <3> QED BY <2>0, <2>1, <2>2, <2>3, <2>5, <2>6, <2>8, <2>9, <2>10, <3>1, <3>2, Regranted
  <2>12. RowsOK' /\ HistoryOK' /\ OnlyWhatWasAsked'
    <3> HIDE DEF r
    <3> QED BY <2>0, <2>6, <2>7, <2>11 DEF IInv, RowsOK, HistoryOK, OnlyWhatWasAsked
  <2> QED BY <2>5, <2>11, <2>12 DEF IInv
<1> QED BY <1>2, <1>3

-------------------------------------------------------------------------------
(* The invariant and what follows *)

LEMMA Moving ==
  ASSUME IInv, NEW c \in Calls,
         ResolveRole(c) \/ FindRole(c) \/ CountUsers(c) \/ GiveUp(c) \/ Record(c)
  PROVE  IInv'
<1>1. UNCHANGED <<roles, grants, cache, now, lost, asked>>
  BY DEF ResolveRole, FindRole, CountUsers, GiveUp, Record
<1>2. CASE Ends(c)
  BY <1>1, <1>2, Ended
<1>3. CASE Record(c) /\ ~ Ends(c)
  <2>1. UNCHANGED <<roles, grants, cache, call, now, lost, asked>>
    BY <1>1, <1>3 DEF Record
  <2> QED BY <2>1 DEF IInv, RowsOK, HistoryOK, CacheOK, CallsOK, RequestOK, ReadOK, LeavesOK, Overlaps, Open,
                      EntriesOK, LostOK, OnlyWhatWasAsked, Live, LastHeld
<1>4. CASE ~ Record(c) /\ ~ Ends(c)
  <2>1. PICK at \in {"keys", "delete", "invalidate", "drop"} : Moves(c, at)
    BY <1>4 DEF ResolveRole, FindRole, CountUsers, GiveUp, AfterRole
  <2>2. call[c].at \in {"role", "get", "count"}
    BY <1>4 DEF ResolveRole, FindRole, CountUsers, GiveUp
  <2> QED BY <1>1, <2>1, <2>2, Moved, StepNames
<1> QED BY <1>2, <1>3, <1>4

LEMMA StepInv ==
  ASSUME IInv, [Next]_vars
  PROVE  IInv'
<1>1. CASE UNCHANGED vars
  BY <1>1 DEF vars, rbacVars, IInv, RowsOK, HistoryOK, CacheOK, CallsOK, RequestOK, ReadOK, LeavesOK, Overlaps,
              Open, EntriesOK, LostOK, OnlyWhatWasAsked, Live, LastHeld
<1>2. ASSUME NEW c \in Calls, Begins(c) PROVE IInv'
  BY <1>2, Asking, Changing, Creating DEF Begins
<1>3. ASSUME NEW c \in Calls, Continues(c) PROVE IInv'
  BY <1>3, Moving, Reading, Storing, Starting, Deleting, Committing, Inserting, Dropping, Invalidating DEF Continues
<1> QED BY <1>1, <1>2, <1>3, Around DEF Next

LEMMA InitInv == Init => IInv
<1> SUFFICES ASSUME Init PROVE IInv
  OBVIOUS
<1>1. /\ roles \in [Roles -> {"new", "live"}] /\ grants \in [Roles -> SUBSET Keys]
      /\ \A r \in Roles : roles[r] = "new" => grants[r] = {}
      /\ now = 0 /\ asked = grants
  BY DEF Init
<1>2. lost = [r \in Roles |-> [k \in Keys |-> -1]] /\ call = [c \in Calls |-> Idle]
      /\ cache = [i \in Instances |-> [r \in Roles |-> None]]
  BY DEF Init
<1>3. \A c \in Calls : call[c] = Idle
  BY <1>2
<1>4. RowsOK /\ HistoryOK
  BY <1>1, <1>2 DEF RowsOK, HistoryOK, Live
<1>5. CacheOK /\ EntriesOK /\ LostOK /\ OnlyWhatWasAsked
  BY <1>1, <1>2 DEF CacheOK, EntriesOK, LostOK, OnlyWhatWasAsked
<1>6. call \in [Calls -> Requests]
  BY <1>2, IdleOK
<1>7. CallsOK /\ Overlaps
  BY <1>3, IdleOK, StepNames DEF CallsOK, Overlaps, LeavesOK
<1> QED BY <1>4, <1>5, <1>6, <1>7 DEF IInv

\* A use of a permission is within Ttl of the role having it: what was cached was
\* held when it was read, and the entry lasts Ttl from being stored.
LEMMA EntitledByInv == IInv => EntitledWithinTtl
<1> SUFFICES ASSUME IInv, NEW i \in Instances, NEW r \in Roles, NEW k \in Permitted(i, r)
             PROVE  now - LastHeld(r, k) < Ttl + (cache[i][r].stored - cache[i][r].read)
  BY DEF EntitledWithinTtl
<1>1. Fresh(cache[i][r]) /\ k \in cache[i][r].keys
  BY DEF Permitted
<1>2. cache[i][r] \in Entries
  BY <1>1 DEF IInv, CacheOK, Fresh
<1>3. cache[i][r].read \in Nat /\ cache[i][r].stored \in Nat /\ k \in Keys
  BY <1>1, <1>2 DEF Entries
<1>4. LastHeld(r, k) \in Int /\ LastHeld(r, k) >= cache[i][r].read
  BY <1>1, <1>3, Later DEF IInv, EntriesOK, Fresh
<1>5. now < cache[i][r].stored + Ttl /\ now \in Nat
  BY <1>1 DEF Fresh, IInv, HistoryOK
<1> HIDE DEF LastHeld
<1> QED BY <1>3, <1>4, <1>5, RbacAssumption

LEMMA TypeByInv == IInv => TypeOK
BY DEF IInv, TypeOK, RowsOK, HistoryOK, CacheOK, CallsOK, RequestOK

\* The tables, caches and requests of rbac_impl.ts and rbac_postgres.ts have their
\* types, and only a role that exists has permissions.
THEOREM TypeCorrect == Spec => []TypeOK
<1>1. IInv /\ [Next]_vars => IInv'
  BY StepInv
<1> QED BY <1>1, InitInv, TypeByInv, PTL DEF Spec

\* No instance lets a role in by a permission that it has been without for the
\* cache's Ttl and the time the instance's two reads took, for any number of
\* instances, overlapping requests and replacements (rbac_impl.ts, resolve).
THEOREM EntitledInTime == Spec => []EntitledWithinTtl
<1>1. IInv /\ [Next]_vars => IInv'
  BY StepInv
<1> QED BY <1>1, InitInv, EntitledByInv, PTL DEF Spec

\* Replacements that overlap leave a role no permission that none of them asked
\* for (rbac_postgres.ts, setRolePermissions).
THEOREM NothingUnasked == Spec => []OnlyWhatWasAsked
<1>1. IInv /\ [Next]_vars => IInv'
  BY StepInv
<1>2. IInv => OnlyWhatWasAsked
  BY DEF IInv
<1> QED BY <1>1, <1>2, InitInv, PTL DEF Spec

\* What the requests do to the log are steps of the audit chain.
LEMMA StepAppends ==
  ASSUME IInv, [Next]_vars
  PROVE  [AuditNext]_auditVars
<1>1. CASE UNCHANGED vars
  BY <1>1 DEF vars
<1>2. ASSUME NEW c \in Calls, Begins(c) PROVE UNCHANGED auditVars
  BY <1>2 DEF Begins, Ask, Change, CreateRole, AskDelete
<1>3. ASSUME NEW c \in Calls, Invalidate(c) PROVE [AuditNext]_auditVars
  <2>1. call[c].role \in Targets
    BY <1>3, Invalidating, RbacAssumption
  <2> QED BY <1>3, <2>1, Invalidating DEF AuditNext
<1>4. ASSUME NEW c \in Calls, Record(c) PROVE [AuditNext]_auditVars
  BY <1>4 DEF Record, AuditNext
<1>5. ASSUME NEW c \in Calls, Continues(c) PROVE [AuditNext]_auditVars
  <2>1. CASE Invalidate(c) \/ Record(c)
    BY <1>3, <1>4, <2>1
  <2>2. CASE ~ (Invalidate(c) \/ Record(c))
    BY <1>5, <2>2 DEF Continues, ResolveRole, ResolveKeys, ResolveStore, FindRole, ReplaceStart, ReplaceDelete,
       ReplaceCommit, ReplaceInsert, CountUsers, DropRole, GiveUp
  <2> QED BY <2>1, <2>2
<1>6. CASE Tick \/ \E i \in Instances : Restart(i)
  BY <1>6 DEF Tick, Restart
<1> QED BY <1>1, <1>2, <1>5, <1>6 DEF Next

\* The administration of roles uses the audit log as its specification says
\* (rbac_handler.ts, recordEventSafely; audit_postgres.ts, append).
THEOREM ImplementsAudit == Spec => AuditSpec
<1>1. IInv /\ [Next]_vars => IInv'
  BY StepInv
<1>2. IInv /\ [Next]_vars => [AuditNext]_auditVars
  BY StepAppends
<1>3. Init => AuditInit
  BY DEF Init
<1> QED BY <1>1, <1>2, <1>3, InitInv, PTL DEF Spec, AuditSpec

\* So verifyChain finds the log intact whatever the requests do.
THEOREM AuditIntact == Spec => []ChainIntact
BY ImplementsAudit, ChainStaysIntact
===============================================================================
