------------------------------- MODULE Registry -------------------------------
(***************************************************************************)
(* The service registry: passports (registry_services), the evidence they  *)
(* ask of the citizen, the versions a publication leaves behind, and the   *)
(* citizens' catalogue (gov_services) each publication projects to.        *)
(*                                                                         *)
(* No use case holds a transaction over more than one repository call, so  *)
(* call[c] is the request c between two of them: what it has read, and     *)
(* which write is still to come.  The numbers of a passport that versions  *)
(* compare (steps, days, fee) are one `measure`; a link is one whose       *)
(* from_citizen is set; the n-th element of versions[s] is version n.      *)
(***************************************************************************)
EXTENDS Integers, Sequences, FiniteSets

CONSTANTS
  Services,     \* ids of registry_services; an id is never used again
  Codes, CodeOf,
  Evidences,
  Levels,       \* proactivity levels in use
  Measures,
  Calls,
  None, Gone,   \* no row yet, and the row of a deleted passport
  MaxVersions   \* bound: publications of one passport

High == {"once_only", "proactive"}
Rows == [status : {"draft", "published", "archived"}, level : Levels, measure : Measures]
Baselines == [measure : Measures, docs : Nat]
CatalogueRows == [of : Services \cup {None}, on : BOOLEAN]

ASSUME RegistryAssumption ==
  /\ CodeOf \in [Services -> Codes]
  /\ Levels \subseteq {"information", "online"} \cup High
  /\ "online" \in Levels
  /\ Measures \subseteq Int /\ Measures # {}
  /\ IsFiniteSet(Evidences)
  /\ None \notin Rows \cup Services \cup Baselines \cup CatalogueRows /\ Gone \notin Rows
  /\ None # Gone
  /\ MaxVersions \in Nat

VARIABLES
  row,        \* registry_services
  links,      \* registry_service_evidences with from_citizen
  evidence,   \* registry_evidences: absent, or whether KHUR has it (in_khur)
  versions,   \* registry_service_versions
  gov,        \* gov_services by code: the passport it belongs to, and whether it is on
  call,
  \* history: passports whose last publication or archiving was cut in two by
  \* an error, a crash or another one; and publications in flight during which
  \* their passport was free of once-only violations at some moment
  torn, clean

tables == <<row, links, evidence, versions, gov>>
vars == <<tables, call, torn, clean>>

Versions ==
  [baseline : BOOLEAN, measure : Measures, docs : Nat, deltaMeasure : Int, deltaDocs : Int,
   honest : BOOLEAN]

Steps ==
  {"idle", "again", "check", "count", "baseline", "version", "project", "withdraw",
   "update", "delete", "insert"}
Publishing == {"again", "check", "count", "baseline", "version"}

\* A request: its passport as first read (level, measure), the level read again,
\* the documents counted, the baseline found, the links it deletes and inserts.
Request(at, s, level, measure) ==
  [at |-> at, service |-> s, level |-> level, measure |-> measure, again |-> "online",
   docs |-> 0, base |-> None, mixed |-> FALSE, old |-> {}, new |-> {}]
AnyMeasure == CHOOSE k \in Measures : TRUE
Plain(at, s) == Request(at, s, "online", AnyMeasure)
Idle == Plain("idle", None)
Requests ==
  [at : Steps, service : Services \cup {None}, level : Levels, measure : Measures,
   again : Levels, docs : Nat, base : Baselines \cup {None}, mixed : BOOLEAN,
   old : SUBSET Evidences, new : SUBSET Evidences]

TypeOK ==
  /\ row \in [Services -> Rows \cup {None, Gone}]
  /\ links \in [Services -> SUBSET Evidences]
  /\ evidence \in [Evidences -> {"absent", "plain", "khur"}]
  /\ versions \in [Services -> Seq(Versions)]
  /\ gov \in [Codes -> CatalogueRows \cup {None}]
  /\ call \in [Calls -> Requests]
  /\ \A c \in Calls : call[c].at # "idle" => call[c].service \in Services
  /\ torn \in SUBSET Services
  /\ clean \in SUBSET Calls

Exists(s) == row[s] \in Rows
InKhur == {e \in Evidences : evidence[e] = "khur"}
Compliant(s) == links[s] \cap InKhur = {}

\* A new passport, or one that migration 47 took over from the catalogue.
Init ==
  /\ \E old \in SUBSET Services :
       /\ \A s, z \in old : CodeOf[s] = CodeOf[z] => s = z
       /\ row \in [Services -> Rows \cup {None}]
       /\ \A s \in Services : IF s \in old THEN row[s] \in Rows /\ row[s].status = "published"
                                          ELSE row[s] = None
       /\ gov = [k \in Codes |->
                   IF \E s \in old : CodeOf[s] = k
                   THEN [of |-> CHOOSE s \in old : CodeOf[s] = k, on |-> TRUE]
                   ELSE None]
  /\ links = [s \in Services |-> {}]
  /\ evidence \in [Evidences -> {"plain", "khur"}]
  /\ versions = [s \in Services |-> <<>>]
  /\ call = [c \in Calls |-> Idle]
  /\ torn = {}
  /\ clean = {}

IsIdle(c) == call[c].at = "idle"
Becomes(c, request) == call' = [call EXCEPT ![c] = request]
Ends(c) == Becomes(c, Idle)

-------------------------------------------------------------------------------
(* A change of a passport's status is followed by a change of the catalogue. *)

Writing(c, s) == call[c].service = s /\ call[c].at \in {"project", "withdraw"}
Overlapped(c, s) == \E d \in Calls \ {c} : Writing(d, s)

\* The first of the two writes: with another one between its own, both are mixed.
FirstWrite(c, s, request) ==
  call' = [d \in Calls |->
             IF d = c THEN [request EXCEPT !.mixed = Overlapped(c, s)]
             ELSE IF Writing(d, s) THEN [call[d] EXCEPT !.mixed = TRUE] ELSE call[d]]

\* The second one: done, or lost.
LastWrite(c, done) ==
  /\ torn' = IF done /\ ~ call[c].mixed THEN torn \ {call[c].service}
             ELSE torn \cup {call[c].service}
  /\ Ends(c)

-------------------------------------------------------------------------------
(* Passports *)

CreateService(s, level, measure) ==
  /\ row[s] = None
  /\ \A z \in Services : CodeOf[z] = CodeOf[s] => ~ Exists(z)
  /\ row' = [row EXCEPT ![s] = [status |-> "draft", level |-> level, measure |-> measure]]
  /\ UNCHANGED <<links, evidence, versions, gov, call, torn>>

\* updateService: the row it has read was not archived ...
UpdateRead(c, s, level, measure) ==
  /\ IsIdle(c)
  /\ Exists(s) /\ row[s].status # "archived"
  /\ Becomes(c, Request("update", s, level, measure))
  /\ UNCHANGED <<tables, torn>>

\* ... and the statement leaves the status alone.
UpdateWrite(c) ==
  LET s == call[c].service
  IN  /\ call[c].at = "update"
      /\ Exists(s)
      /\ row' = [row EXCEPT ![s] = [status |-> row[s].status, level |-> call[c].level,
                                    measure |-> call[c].measure]]
      /\ Ends(c)
      /\ UNCHANGED <<links, evidence, versions, gov, torn>>

DeleteRead(c, s) ==
  /\ IsIdle(c)
  /\ Exists(s) /\ row[s].status # "published"
  /\ Becomes(c, Plain("delete", s))
  /\ UNCHANGED <<tables, torn>>

\* The row goes with its links and versions; the catalogue's row stays, of nobody.
DeleteWrite(c) ==
  LET s == call[c].service
  IN  /\ call[c].at = "delete"
      /\ Exists(s)
      /\ row' = [row EXCEPT ![s] = Gone]
      /\ links' = [links EXCEPT ![s] = {}]
      /\ versions' = [versions EXCEPT ![s] = <<>>]
      /\ gov' = [k \in Codes |-> IF gov[k] # None /\ gov[k].of = s
                                 THEN [of |-> None, on |-> gov[k].on] ELSE gov[k]]
      /\ Ends(c)
      /\ torn' = torn \ {s}
      /\ UNCHANGED evidence

\* Mutant: the status takes the word the catalogue has for it.
WithLifecycle(s, status) ==
  [status |-> IF status = "archived" THEN "withdrawn" ELSE status,
   level |-> row[s].level, measure |-> row[s].measure]

\* The row of s after an UPDATE of its status.
WithStatus(s, status) ==
  [status |-> status, level |-> row[s].level, measure |-> row[s].measure]

\* archiveService, whatever the status is.
ArchiveStatus(c, s) ==
  /\ IsIdle(c)
  /\ Exists(s)
  /\ row' = [row EXCEPT ![s] = WithStatus(s, "archived")]
  /\ FirstWrite(c, s, Plain("withdraw", s))
  /\ UNCHANGED <<links, evidence, versions, gov, torn>>

\* withdrawFromGov
Withdraw(c) ==
  LET s == call[c].service
  IN  /\ call[c].at = "withdraw"
      /\ gov' = [k \in Codes |-> IF gov[k] # None /\ gov[k].of = s
                                 THEN [of |-> s, on |-> FALSE] ELSE gov[k]]
      /\ LastWrite(c, TRUE)
      /\ UNCHANGED <<row, links, evidence, versions>>

-------------------------------------------------------------------------------
(* Evidence *)

\* Links that an open transaction of another request has deleted.
LockedLinks(c, s) == UNION {call[d].old : d \in {d \in Calls \ {c} : call[d].service = s}}

\* The request that has deleted the links of s and is to insert E.
Replacing(s, E) == [Plain("insert", s) EXCEPT !.old = links[s], !.new = E]

\* setServiceEvidences: the passport exists; DELETE, which waits for such links.
LinksDelete(c, s, E) ==
  /\ IsIdle(c)
  /\ Exists(s)
  /\ links[s] \cap LockedLinks(c, s) = {}
  /\ Becomes(c, Replacing(s, E))
  /\ UNCHANGED <<tables, torn>>

\* INSERT one by one, and COMMIT: the foreign keys and the primary key allow it.
LinksInsert(c) ==
  LET s == call[c].service
  IN  /\ call[c].at = "insert"
      /\ Exists(s)
      /\ \A e \in call[c].new : evidence[e] # "absent"
      /\ (links[s] \ call[c].old) \cap call[c].new = {}
      /\ links' = [links EXCEPT ![s] = (links[s] \ call[c].old) \cup call[c].new]
      /\ Ends(c)
      /\ UNCHANGED <<row, evidence, versions, gov, torn>>

\* createEvidence and updateEvidence
PutEvidence(e, state) ==
  /\ state \in {"plain", "khur"} \ {evidence[e]}
  /\ evidence' = [evidence EXCEPT ![e] = state]
  /\ UNCHANGED <<row, links, versions, gov, call, torn>>

\* deleteEvidence: ON DELETE CASCADE takes the links with it.
DeleteEvidence(e) ==
  /\ evidence[e] # "absent"
  /\ evidence' = [evidence EXCEPT ![e] = "absent"]
  /\ links' = [s \in Services |-> links[s] \ {e}]
  /\ UNCHANGED <<row, versions, gov, call, torn>>

-------------------------------------------------------------------------------
(* Publication *)

PublishRead(c, s) ==
  /\ IsIdle(c)
  /\ Exists(s) /\ row[s].status # "archived"
  /\ Len(versions[s]) < MaxVersions
  /\ Becomes(c, Request("again", s, row[s].level, row[s].measure))
  /\ UNCHANGED <<tables, torn>>

\* checkOnceOnly reads the row once more ...
ReadAgain(c) ==
  LET s == call[c].service
  IN  /\ call[c].at = "again"
      /\ Exists(s)
      /\ Becomes(c, [call[c] EXCEPT !.at = "check", !.again = row[s].level])
      /\ UNCHANGED <<tables, torn>>

Eligible(level, violated) ==
  IF violated /\ level \in High THEN "online" ELSE level

\* Mutant: the level just read is the one that is checked.
DeclaredAgain(c) == call[c].again

\* The level that must be eligible is the one that will be published.
Declared(c) == call[c].level

\* ... and the evidence; the passport goes on only if it declares what it may.
CheckOnceOnly(c) ==
  LET s == call[c].service
  IN  /\ call[c].at = "check"
      /\ Eligible(call[c].again, ~ Compliant(s)) = Declared(c)
      /\ Becomes(c, Request("count", s, call[c].level, call[c].measure))
      /\ UNCHANGED <<tables, torn>>

CountDocuments(c) ==
  /\ call[c].at = "count"
  /\ Becomes(c, [call[c] EXCEPT !.at = "baseline", !.docs = Cardinality(links[call[c].service])])
  /\ UNCHANGED <<tables, torn>>

BaselinesOf(s) == {i \in 1 .. Len(versions[s]) : versions[s][i].baseline}

\* Mutant: ORDER BY version DESC.
LatestBaseline(s) == CHOOSE i \in BaselinesOf(s) : \A j \in BaselinesOf(s) : j <= i

\* ORDER BY version LIMIT 1
FirstBaseline(s) == CHOOSE i \in BaselinesOf(s) : \A j \in BaselinesOf(s) : i <= j

BaselineVersion(c) ==
  LET s == call[c].service
      v == versions[s][FirstBaseline(s)]
  IN  /\ call[c].at = "baseline"
      /\ Becomes(c, [call[c] EXCEPT !.at = "version",
                       !.base = IF BaselinesOf(s) = {} THEN None
                                ELSE [measure |-> v.measure, docs |-> v.docs]])
      /\ UNCHANGED <<tables, torn>>

\* The version a request records.
NewVersion(c) ==
  LET r == call[c]
      first == r.base = None
  IN  [baseline |-> first, measure |-> r.measure, docs |-> r.docs,
       deltaMeasure |-> IF first THEN 0 ELSE r.measure - r.base.measure,
       deltaDocs |-> IF first THEN 0 ELSE r.docs - r.base.docs,
       honest |-> r.level \in High => c \in clean]

\* publishVersion, under the lock of the passport's row.
PublishVersion(c) ==
  LET s == call[c].service
  IN  /\ call[c].at = "version"
      /\ Exists(s)
      /\ versions' = [versions EXCEPT ![s] = Append(versions[s], NewVersion(c))]
      /\ row' = [row EXCEPT ![s] = WithStatus(s, "published")]
      /\ FirstWrite(c, s, Plain("project", s))
      /\ UNCHANGED <<links, evidence, gov, torn>>

\* Mutant: ON CONFLICT leaves lifecycle and enabled alone.
ProjectedAsItWas(s, old) == [of |-> s, on |-> IF old = None THEN TRUE ELSE old.on]

\* The catalogue's row after ON CONFLICT (registry_service_id) DO UPDATE.
Projected(s, old) == [of |-> s, on |-> TRUE]

\* projectToGov: nothing is left to project, or the code belongs to another row.
Project(c) ==
  LET s == call[c].service
      k == CodeOf[s]
      mine == gov[k] # None => gov[k].of = s
  IN  /\ call[c].at = "project"
      /\ \/ ~ Exists(s) /\ UNCHANGED gov /\ LastWrite(c, TRUE)
         \/ Exists(s) /\ mine /\ gov' = [gov EXCEPT ![k] = Projected(s, gov[k])] /\ LastWrite(c, TRUE)
         \/ Exists(s) /\ ~ mine /\ UNCHANGED gov /\ LastWrite(c, FALSE)
      /\ UNCHANGED <<row, links, evidence, versions>>

\* A refusal, an error or a crash ends a request anywhere.
GiveUp(c) ==
  /\ ~ IsIdle(c)
  /\ IF call[c].at \in {"project", "withdraw"} THEN LastWrite(c, FALSE)
     ELSE Ends(c) /\ UNCHANGED torn
  /\ UNCHANGED tables

-------------------------------------------------------------------------------
\* The publications during which there was a moment without a violation.
Watch ==
  clean' = {c \in Calls :
              /\ call'[c].at \in Publishing
              /\ \/ c \in clean
                 \/ \E s \in Services : call'[c].service = s /\ Compliant(s)'}

Step ==
  \/ \E s \in Services, level \in Levels, measure \in Measures : CreateService(s, level, measure)
  \/ \E e \in Evidences : DeleteEvidence(e) \/ \E state \in {"plain", "khur"} : PutEvidence(e, state)
  \/ \E c \in Calls :
       \/ \E s \in Services :
            \/ \E level \in Levels, measure \in Measures : UpdateRead(c, s, level, measure)
            \/ \E E \in SUBSET Evidences : LinksDelete(c, s, E)
            \/ DeleteRead(c, s) \/ ArchiveStatus(c, s) \/ PublishRead(c, s)
       \/ UpdateWrite(c) \/ DeleteWrite(c) \/ Withdraw(c) \/ LinksInsert(c)
       \/ ReadAgain(c) \/ CheckOnceOnly(c) \/ CountDocuments(c) \/ BaselineVersion(c)
       \/ PublishVersion(c) \/ Project(c) \/ GiveUp(c)

Next == Step /\ Watch

Spec == Init /\ [][Next]_vars

-------------------------------------------------------------------------------
Shown(s) == gov[CodeOf[s]] # None /\ gov[CodeOf[s]].of = s /\ gov[CodeOf[s]].on

(***************************************************************************)
(* A passport that is published is one citizens can apply for, and no      *)
(* other is: unless its last publication or archiving was cut in two, and  *)
(* then the next one that is not repairs it (publish calls projectToGov    *)
(* again, archiveService withdrawFromGov).                                 *)
(***************************************************************************)
CatalogueFollows ==
  \A s \in Services \ torn :
    Exists(s) /\ (\A c \in Calls : ~ Writing(c, s)) => (row[s].status = "published" <=> Shown(s))

(***************************************************************************)
(* Every version is measured against the first one: version 1 is a         *)
(* baseline, and the deltas of a version that is none are the differences  *)
(* to it, whatever other publications of the passport were in flight.      *)
(***************************************************************************)
MeasuredAgainstFirst ==
  \A s \in Services : \A i \in 1 .. Len(versions[s]) :
    LET v == versions[s][i]
        first == versions[s][1]
    IN  /\ first.baseline
        /\ v.baseline => v.deltaMeasure = 0 /\ v.deltaDocs = 0
        /\ ~ v.baseline => /\ v.deltaMeasure = v.measure - first.measure
                           /\ v.deltaDocs = v.docs - first.docs

(***************************************************************************)
(* No version declares once-only or proactive (is not honest) if its       *)
(* passport asked the citizen for what KHUR has throughout the reads of    *)
(* the publication, which take the level and the evidence one by one.      *)
(***************************************************************************)
DeclaredHonestly ==
  \A s \in Services : \A i \in 1 .. Len(versions[s]) :
    versions[s][i].honest

===============================================================================
