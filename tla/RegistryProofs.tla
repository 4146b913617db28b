---------------------------- MODULE RegistryProofs ----------------------------
(***************************************************************************)
(* Proofs about Registry for every number of passports, evidences and      *)
(* requests in flight: type correctness, that every version is measured    *)
(* against the first and declared honestly, and that the citizens'         *)
(* catalogue follows the registry.                                         *)
(***************************************************************************)
EXTENDS Registry, FiniteSetTheorems, TLAPS

\* The steps of no request, and those of request c.
Other ==
  \/ \E s \in Services, level \in Levels, measure \in Measures : CreateService(s, level, measure)
  \/ \E e \in Evidences : DeleteEvidence(e) \/ \E state \in {"plain", "khur"} : PutEvidence(e, state)

Starts(c) ==
  \E s \in Services :
    \/ \E level \in Levels, measure \in Measures : UpdateRead(c, s, level, measure)
    \/ \E E \in SUBSET Evidences : LinksDelete(c, s, E)
    \/ DeleteRead(c, s) \/ PublishRead(c, s)

Reads(c) == ReadAgain(c) \/ CheckOnceOnly(c) \/ CountDocuments(c) \/ BaselineVersion(c)

Writes(c) ==
  \/ \E s \in Services : ArchiveStatus(c, s)
  \/ UpdateWrite(c) \/ DeleteWrite(c) \/ Withdraw(c) \/ LinksInsert(c)
  \/ PublishVersion(c) \/ Project(c) \/ GiveUp(c)

LEMMA StepCases ==
  ASSUME Step
  PROVE  Other \/ \E c \in Calls : Starts(c) \/ Reads(c) \/ Writes(c)
BY DEF Step, Other, Starts, Reads, Writes

-------------------------------------------------------------------------------
(* Type correctness *)

DataOK ==
  /\ row \in [Services -> Rows \cup {None, Gone}]
  /\ links \in [Services -> SUBSET Evidences]
  /\ evidence \in [Evidences -> {"absent", "plain", "khur"}]
  /\ versions \in [Services -> Seq(Versions)]
  /\ gov \in [Codes -> CatalogueRows \cup {None}]
  /\ torn \in SUBSET Services

RequestOK(r) == r \in Requests /\ (r.at # "idle" => r.service \in Services)
CallsOK == call \in [Calls -> Requests] /\ \A c \in Calls : RequestOK(call[c])

LEMMA TypeParts == TypeOK <=> DataOK /\ CallsOK /\ clean \in SUBSET Calls
BY DEF TypeOK, DataOK, CallsOK, RequestOK

LEMMA WatchType == ASSUME Watch PROVE (clean \in SUBSET Calls)'
BY DEF Watch

LEMMA RequestType ==
  ASSUME NEW at \in Steps, NEW s \in Services \cup {None}, NEW level \in Levels,
         NEW measure \in Measures
  PROVE  Request(at, s, level, measure) \in Requests
BY RegistryAssumption DEF Request, Requests

LEMMA PlainType ==
  ASSUME NEW at \in Steps, NEW s \in Services \cup {None}
  PROVE  Plain(at, s) \in Requests /\ Plain(at, s).at = at /\ Plain(at, s).service = s
<1>1. AnyMeasure \in Measures
  BY RegistryAssumption DEF AnyMeasure
<1> QED BY <1>1, RequestType, RegistryAssumption DEF Plain, Request

\* A request with one field changed is a request, and the others stay.
LEMMA AtType ==
  ASSUME NEW r \in Requests, NEW x \in Steps
  PROVE  LET q == [r EXCEPT !.at = x]
         IN  /\ q \in Requests /\ q.at = x /\ q.service = r.service /\ q.level = r.level
             /\ q.measure = r.measure /\ q.base = r.base /\ q.docs = r.docs /\ q.mixed = r.mixed
BY DEF Requests

LEMMA AgainType ==
  ASSUME NEW r \in Requests, NEW x \in Levels
  PROVE  LET q == [r EXCEPT !.again = x]
         IN  /\ q \in Requests /\ q.at = r.at /\ q.service = r.service /\ q.level = r.level
             /\ q.measure = r.measure /\ q.base = r.base /\ q.docs = r.docs /\ q.mixed = r.mixed
BY DEF Requests

LEMMA DocsType ==
  ASSUME NEW r \in Requests, NEW x \in Nat
  PROVE  LET q == [r EXCEPT !.docs = x]
         IN  /\ q \in Requests /\ q.at = r.at /\ q.service = r.service /\ q.level = r.level
             /\ q.measure = r.measure /\ q.base = r.base /\ q.docs = x /\ q.mixed = r.mixed
BY DEF Requests

LEMMA BaseType ==
  ASSUME NEW r \in Requests, NEW x \in Baselines \cup {None}
  PROVE  LET q == [r EXCEPT !.base = x]
         IN  /\ q \in Requests /\ q.at = r.at /\ q.service = r.service /\ q.level = r.level
             /\ q.measure = r.measure /\ q.base = x /\ q.docs = r.docs /\ q.mixed = r.mixed
BY DEF Requests

LEMMA MixedType ==
  ASSUME NEW r \in Requests, NEW x \in BOOLEAN
  PROVE  LET q == [r EXCEPT !.mixed = x]
         IN  /\ q \in Requests /\ q.at = r.at /\ q.service = r.service /\ q.level = r.level
             /\ q.measure = r.measure /\ q.base = r.base /\ q.docs = r.docs /\ q.mixed = x
BY DEF Requests

LEMMA ReplacingType ==
  ASSUME NEW s \in Services, NEW E \in SUBSET Evidences, links[s] \in SUBSET Evidences
  PROVE  /\ Replacing(s, E) \in Requests
         /\ Replacing(s, E).at = "insert" /\ Replacing(s, E).service = s
<1> DEFINE p == Plain("insert", s)
<1>1. p \in Requests /\ p.at = "insert" /\ p.service = s
  BY PlainType DEF Steps
<1>2. Replacing(s, E) = [p EXCEPT !.old = links[s], !.new = E]
  BY DEF Replacing
<1> HIDE DEF p
<1>3. Replacing(s, E) \in Requests /\ Replacing(s, E).at = p.at /\ Replacing(s, E).service = p.service
  BY <1>1, <1>2 DEF Requests
<1> QED BY <1>1, <1>3

LEMMA IdleType == RequestOK(Idle) /\ Idle.at = "idle"
BY PlainType DEF Idle, Steps, RequestOK

LEMMA BecomesType ==
  ASSUME CallsOK, NEW c \in Calls, NEW r, RequestOK(r), Becomes(c, r)
  PROVE  CallsOK'
BY DEF CallsOK, Becomes, RequestOK

LEMMA EndsType == ASSUME CallsOK, NEW c \in Calls, Ends(c) PROVE CallsOK'
BY IdleType, BecomesType DEF Ends

LEMMA FirstWriteType ==
  ASSUME CallsOK, NEW c \in Calls, NEW s \in Services, NEW r, RequestOK(r), FirstWrite(c, s, r)
  PROVE  CallsOK'
<1>1. Overlapped(c, s) \in BOOLEAN
  BY DEF Overlapped
<1>2. RequestOK([r EXCEPT !.mixed = Overlapped(c, s)])
  BY <1>1, MixedType DEF RequestOK
<1>3. ASSUME NEW d \in Calls PROVE RequestOK([call[d] EXCEPT !.mixed = TRUE])
  BY <1>3, MixedType DEF CallsOK, RequestOK
<1> QED BY <1>2, <1>3 DEF FirstWrite, CallsOK, RequestOK

LEMMA OtherType == ASSUME TypeOK, Other PROVE DataOK' /\ CallsOK'
<1> USE TypeParts
<1>1. ASSUME NEW s \in Services, NEW level \in Levels, NEW measure \in Measures,
             CreateService(s, level, measure)
      PROVE  DataOK' /\ CallsOK'
  <2>1. [status |-> "draft", level |-> level, measure |-> measure] \in Rows
    BY DEF Rows
  <2> QED BY <1>1, <2>1 DEF DataOK, CallsOK, CreateService
<1>2. ASSUME NEW e \in Evidences, DeleteEvidence(e) PROVE DataOK' /\ CallsOK'
  BY <1>2 DEF DataOK, CallsOK, DeleteEvidence
<1>3. ASSUME NEW e \in Evidences, NEW state \in {"plain", "khur"}, PutEvidence(e, state)
      PROVE  DataOK' /\ CallsOK'
  BY <1>3 DEF DataOK, CallsOK, PutEvidence
<1> QED BY <1>1, <1>2, <1>3 DEF Other

LEMMA StartsType == ASSUME TypeOK, NEW c \in Calls, Starts(c) PROVE DataOK' /\ CallsOK'
<1> USE TypeParts
<1>0. UNCHANGED <<tables, torn>>
  BY DEF Starts, UpdateRead, LinksDelete, DeleteRead, PublishRead
<1>1. DataOK'
  BY <1>0 DEF DataOK, tables
<1> PICK s \in Services :
      \/ \E level \in Levels, measure \in Measures : UpdateRead(c, s, level, measure)
      \/ \E E \in SUBSET Evidences : LinksDelete(c, s, E)
      \/ DeleteRead(c, s) \/ PublishRead(c, s)
  BY DEF Starts
<1>2. ASSUME NEW level \in Levels, NEW measure \in Measures, UpdateRead(c, s, level, measure)
      PROVE  CallsOK'
  <2>1. RequestOK(Request("update", s, level, measure))
    BY RequestType DEF Steps, Request, RequestOK
  <2> QED BY <1>2, <2>1, BecomesType DEF UpdateRead
<1>3. ASSUME NEW E \in SUBSET Evidences, LinksDelete(c, s, E) PROVE CallsOK'
  <2>0. links[s] \in SUBSET Evidences
    BY DEF DataOK
  <2>1. RequestOK(Replacing(s, E))
    BY <2>0, ReplacingType DEF RequestOK
  <2> QED BY <1>3, <2>1, BecomesType DEF LinksDelete
<1>4. ASSUME DeleteRead(c, s) PROVE CallsOK'
  <2>1. RequestOK(Plain("delete", s))
    BY PlainType DEF Steps, RequestOK
  <2> QED BY <1>4, <2>1, BecomesType DEF DeleteRead
<1>5. ASSUME PublishRead(c, s) PROVE CallsOK'
  <2>1. row[s].level \in Levels /\ row[s].measure \in Measures
    BY <1>5 DEF PublishRead, Exists, Rows
  <2>2. RequestOK(Request("again", s, row[s].level, row[s].measure))
    BY <2>1, RequestType DEF Steps, Request, RequestOK
  <2> QED BY <1>5, <2>2, BecomesType DEF PublishRead
<1> QED BY <1>1, <1>2, <1>3, <1>4, <1>5

\* A CHOOSE among the numbers of baselines finds one of them, and it is the first.
LEMMA FirstIsFirst ==
  ASSUME DataOK, NEW s \in Services, BaselinesOf(s) # {},
         1 \in 1 .. Len(versions[s]) => versions[s][1].baseline
  PROVE  FirstBaseline(s) = 1 /\ 1 \in 1 .. Len(versions[s])
<1>1. Len(versions[s]) \in Nat
  BY DEF DataOK
<1>2. PICK b \in BaselinesOf(s) : TRUE
  OBVIOUS
<1>3. 1 \in BaselinesOf(s)
  BY <1>1, <1>2 DEF BaselinesOf
<1>4. \A j \in BaselinesOf(s) : 1 <= j
  BY <1>1 DEF BaselinesOf
<1>5. \A i \in BaselinesOf(s) : (\A j \in BaselinesOf(s) : i <= j) => i = 1
  <2> SUFFICES ASSUME NEW i \in BaselinesOf(s), \A j \in BaselinesOf(s) : i <= j
               PROVE  i = 1
    OBVIOUS
  <2>1. i <= 1 /\ i \in 1 .. Len(versions[s])
    BY <1>3 DEF BaselinesOf
  <2> QED BY <1>1, <2>1
<1>6. FirstBaseline(s) = 1
  BY <1>3, <1>4, <1>5 DEF FirstBaseline
<1> QED BY <1>3, <1>6 DEF BaselinesOf
\* A step of one request leaves the others as they are, or marks them mixed.
Same(q, r) ==
  /\ q.at = r.at /\ q.service = r.service /\ q.level = r.level
  /\ q.measure = r.measure /\ q.base = r.base /\ q.docs = r.docs
  /\ r.mixed => q.mixed

LEMMA OthersStay ==
  ASSUME CallsOK, NEW c \in Calls, Starts(c) \/ Reads(c) \/ Writes(c), NEW d \in Calls \ {c}
  PROVE  Same(call'[d], call[d])
<1>1. ASSUME NEW s \in Services, NEW r, FirstWrite(c, s, r) PROVE Same(call'[d], call[d])
  <2>1. call'[d] = IF Writing(d, s) THEN [call[d] EXCEPT !.mixed = TRUE] ELSE call[d]
    BY <1>1 DEF FirstWrite
  <2>2. call[d] \in Requests
    BY DEF CallsOK
  <2>3. Same([call[d] EXCEPT !.mixed = TRUE], call[d])
    BY <2>2, MixedType, Zenon DEF Same
  <2> QED BY <2>1, <2>3, Zenon DEF Same
<1>2. ASSUME NEW r, Becomes(c, r) PROVE Same(call'[d], call[d])
  BY <1>2 DEF CallsOK, Becomes, Same
<1>3. CASE Starts(c)
  BY <1>2, <1>3, Zenon DEF Starts, UpdateRead, LinksDelete, DeleteRead, PublishRead
<1>4. CASE Reads(c)
  BY <1>2, <1>4, Zenon DEF Reads, ReadAgain, CheckOnceOnly, CountDocuments, BaselineVersion
<1>5. CASE Writes(c)
  <2>1. CASE \E s \in Services : ArchiveStatus(c, s)
    BY <1>1, <2>1, Zenon DEF ArchiveStatus
  <2>2. CASE PublishVersion(c)
    <3>1. call[c].service \in Services
      BY <2>2 DEF CallsOK, RequestOK, PublishVersion
    <3> QED BY <1>1, <2>2, <3>1, Zenon DEF PublishVersion
  <2>3. CASE UpdateWrite(c) \/ DeleteWrite(c) \/ LinksInsert(c) \/ Withdraw(c) \/ Project(c) \/ GiveUp(c)
    <3>1. Becomes(c, Idle)
      BY <2>3, Zenon DEF UpdateWrite, DeleteWrite, LinksInsert, Withdraw, Project, GiveUp,
                         LastWrite, Ends
    <3> QED BY <1>2, <3>1
  <2> QED BY <1>5, <2>1, <2>2, <2>3 DEF Writes
<1> QED BY <1>3, <1>4, <1>5

-------------------------------------------------------------------------------
(* Versions *)

\* A request that has a baseline has the numbers of the first version.
BasesOK ==
  \A c \in Calls :
    LET s == call[c].service
    IN  call[c].at = "version" /\ Exists(s) /\ call[c].base # None =>
          /\ 1 \in 1 .. Len(versions[s])
          /\ call[c].base.measure = versions[s][1].measure
          /\ call[c].base.docs = versions[s][1].docs

LEMMA BaselineFound ==
  ASSUME TypeOK, MeasuredAgainstFirst, NEW c \in Calls, BaselineVersion(c)
  PROVE  LET s == call[c].service
             base == call'[c].base
         IN  /\ CallsOK'
             /\ call'[c].service = s /\ call'[c].level = call[c].level
             /\ base # None => /\ 1 \in 1 .. Len(versions[s])
                               /\ base.measure = versions[s][1].measure
                               /\ base.docs = versions[s][1].docs
<1> DEFINE s == call[c].service
           v == versions[s][FirstBaseline(s)]
           base == IF BaselinesOf(s) = {} THEN None ELSE [measure |-> v.measure, docs |-> v.docs]
<1>1. s \in Services /\ call[c] \in Requests /\ versions[s] \in Seq(Versions) /\ DataOK /\ CallsOK
  BY TypeParts DEF TypeOK, BaselineVersion
<1>2. ASSUME BaselinesOf(s) # {}
      PROVE  /\ FirstBaseline(s) = 1 /\ 1 \in 1 .. Len(versions[s]) /\ v \in Versions
  <2>1. 1 \in 1 .. Len(versions[s]) => versions[s][1].baseline
    BY <1>1 DEF MeasuredAgainstFirst
  <2>2. FirstBaseline(s) = 1 /\ 1 \in 1 .. Len(versions[s])
    BY <1>1, <1>2, <2>1, FirstIsFirst
  <2> QED BY <1>1, <2>2
<1>3. base \in Baselines \cup {None}
  BY <1>2 DEF Baselines, Versions
<1>4. base # None => /\ 1 \in 1 .. Len(versions[s])
                     /\ base.measure = versions[s][1].measure
                     /\ base.docs = versions[s][1].docs
  BY <1>2
<1> DEFINE q == [call[c] EXCEPT !.at = "version"]
           r == [q EXCEPT !.base = base]
<1>5. Becomes(c, r)
  BY DEF BaselineVersion
<1> HIDE DEF base, v
<1>6. q \in Requests /\ q.service = s /\ q.level = call[c].level
  BY <1>1, AtType, Zenon DEF Steps
<1>7. r \in Requests /\ r.service = s /\ r.base = base /\ r.level = call[c].level
  <2> HIDE DEF q
  <2> QED BY <1>3, <1>6, BaseType, Zenon
<1> HIDE DEF r, q
<1>8. RequestOK(r)
  BY <1>1, <1>7 DEF RequestOK
<1>9. CallsOK' /\ call'[c] = r
  BY <1>1, <1>5, <1>8, BecomesType DEF Becomes, CallsOK
<1> QED BY <1>4, <1>7, <1>9

LEMMA ReadsType ==
  ASSUME TypeOK, MeasuredAgainstFirst, NEW c \in Calls, Reads(c)
  PROVE  DataOK' /\ CallsOK'
<1> USE TypeParts
<1> DEFINE s == call[c].service
<1>0. UNCHANGED <<tables, torn>>
  BY DEF Reads, ReadAgain, CheckOnceOnly, CountDocuments, BaselineVersion
<1>1. DataOK'
  BY <1>0 DEF DataOK, tables
<1>2. s \in Services /\ call[c] \in Requests
  BY DEF Reads, ReadAgain, CheckOnceOnly, CountDocuments, BaselineVersion, CallsOK, RequestOK
<1>3. CASE ReadAgain(c)
  <2> DEFINE q == [call[c] EXCEPT !.at = "check"]
  <2>1. row[s].level \in Levels
    BY <1>2, <1>3 DEF ReadAgain, Exists, Rows
  <2>2. Becomes(c, [q EXCEPT !.again = row[s].level])
    BY <1>3 DEF ReadAgain
  <2>3. q \in Requests /\ q.service = s
    BY <1>2, AtType, Zenon DEF Steps
  <2> HIDE DEF q
  <2>4. [q EXCEPT !.again = row[s].level] \in Requests /\ [q EXCEPT !.again = row[s].level].service = s
    BY <2>1, <2>3, AgainType, Zenon
  <2>5. RequestOK([q EXCEPT !.again = row[s].level])
    BY <1>2, <2>4, Zenon DEF RequestOK
  <2> QED BY <1>1, <2>2, <2>5, BecomesType, Zenon
<1>4. CASE CheckOnceOnly(c)
  <2>1. call[c].level \in Levels /\ call[c].measure \in Measures
    BY <1>2 DEF Requests
  <2>2. RequestOK(Request("count", s, call[c].level, call[c].measure))
    BY <1>2, <2>1, RequestType DEF Steps, Request, RequestOK
  <2> QED BY <1>1, <1>4, <2>2, BecomesType DEF CheckOnceOnly
<1>5. CASE CountDocuments(c)
  <2> DEFINE q == [call[c] EXCEPT !.at = "baseline"]
  <2>1. Cardinality(links[s]) \in Nat
    BY <1>2, FS_Subset, FS_CardinalityType, RegistryAssumption DEF DataOK
  <2>2. Becomes(c, [q EXCEPT !.docs = Cardinality(links[s])])
    BY <1>5 DEF CountDocuments
  <2>3. q \in Requests /\ q.service = s
    BY <1>2, AtType, Zenon DEF Steps
  <2> HIDE DEF q
  <2>4. /\ [q EXCEPT !.docs = Cardinality(links[s])] \in Requests
        /\ [q EXCEPT !.docs = Cardinality(links[s])].service = s
    BY <2>1, <2>3, DocsType, Zenon
  <2>5. RequestOK([q EXCEPT !.docs = Cardinality(links[s])])
    BY <1>2, <2>4, Zenon DEF RequestOK
  <2> QED BY <1>1, <2>2, <2>5, BecomesType, Zenon
<1>6. CASE BaselineVersion(c)
  BY <1>1, <1>6, BaselineFound
<1> QED BY <1>3, <1>4, <1>5, <1>6 DEF Reads

\* What a publication records, and that it is measured against the first version.
LEMMA NewVersionMeasured ==
  ASSUME TypeOK, BasesOK, NEW c \in Calls, call[c].at = "version", Exists(call[c].service)
  PROVE  LET s == call[c].service
             v == NewVersion(c)
         IN  /\ v \in Versions
             /\ v.baseline => v.deltaMeasure = 0 /\ v.deltaDocs = 0
             /\ ~ v.baseline => /\ 1 \in 1 .. Len(versions[s])
                                /\ v.deltaMeasure = v.measure - versions[s][1].measure
                                /\ v.deltaDocs = v.docs - versions[s][1].docs
<1> DEFINE s == call[c].service
           r == call[c]
           first == r.base = None
<1>1. /\ r \in Requests /\ s \in Services /\ r.measure \in Int /\ r.docs \in Nat
      /\ r.base \in Baselines \cup {None}
  BY RegistryAssumption DEF TypeOK, Requests
<1>2. ~ first => r.base.measure \in Int /\ r.base.docs \in Nat
  BY <1>1, RegistryAssumption DEF Baselines
<1>3. (r.level \in High => c \in clean) \in BOOLEAN
  OBVIOUS
<1>4. NewVersion(c) \in Versions
  BY <1>1, <1>2, <1>3 DEF NewVersion, Versions, Requests
<1>5. ~ first => /\ 1 \in 1 .. Len(versions[s])
                 /\ r.base.measure = versions[s][1].measure
                 /\ r.base.docs = versions[s][1].docs
  BY DEF BasesOK
<1> QED BY <1>4, <1>5 DEF NewVersion

LEMMA WritesType ==
  ASSUME TypeOK, BasesOK, NEW c \in Calls, Writes(c)
  PROVE  DataOK' /\ CallsOK'
<1> USE TypeParts
<1> DEFINE s == call[c].service
<1>1. ASSUME NEW z \in Services, NEW status \in {"draft", "published", "archived"}, Exists(z)
      PROVE  WithStatus(z, status) \in Rows
  BY <1>1 DEF WithStatus, Exists, Rows
<1>2. LastWrite(c, TRUE) \/ LastWrite(c, FALSE) => CallsOK' /\ (s \in Services => torn' \in SUBSET Services)
  BY EndsType DEF LastWrite, DataOK
<1>3. call[c].at # "idle" => s \in Services
  BY DEF CallsOK, RequestOK
<1>4. ASSUME NEW z \in Services, ArchiveStatus(c, z) PROVE DataOK' /\ CallsOK'
  <2>1. RequestOK(Plain("withdraw", z))
    BY PlainType DEF Steps, RequestOK
  <2>2. CallsOK'
    BY <1>4, <2>1, FirstWriteType DEF ArchiveStatus
  <2> QED BY <1>1, <1>4, <2>2 DEF ArchiveStatus, DataOK
<1>5. CASE UpdateWrite(c)
  <2>1. call[c].level \in Levels /\ call[c].measure \in Measures
    BY DEF CallsOK, Requests
  <2>2. [status |-> row[s].status, level |-> call[c].level, measure |-> call[c].measure] \in Rows
    BY <1>5, <2>1 DEF UpdateWrite, Exists, Rows
  <2> QED BY <1>3, <1>5, <2>2, EndsType DEF UpdateWrite, DataOK
<1>6. CASE DeleteWrite(c)
  <2>1. gov' \in [Codes -> CatalogueRows \cup {None}]
    BY <1>6 DEF DeleteWrite, DataOK, CatalogueRows
  <2>2. <<>> \in Seq(Versions)
    OBVIOUS
  <2> QED BY <1>3, <1>6, <2>1, <2>2, EndsType DEF DeleteWrite, DataOK
<1>7. CASE Withdraw(c)
  <2>1. gov' \in [Codes -> CatalogueRows \cup {None}]
    BY <1>3, <1>7 DEF Withdraw, DataOK, CatalogueRows
  <2> QED BY <1>2, <1>3, <1>7, <2>1 DEF Withdraw, DataOK
<1>8. CASE LinksInsert(c)
  <2>1. call[c].new \in SUBSET Evidences /\ call[c].old \in SUBSET Evidences
    BY DEF CallsOK, Requests
  <2> QED BY <1>3, <1>8, <2>1, EndsType DEF LinksInsert, DataOK
<1>9. CASE PublishVersion(c)
  <2>1. NewVersion(c) \in Versions /\ s \in Services
    BY <1>3, <1>9, NewVersionMeasured DEF PublishVersion
  <2>2. RequestOK(Plain("project", s))
    BY <2>1, PlainType DEF Steps, RequestOK
  <2>3. CallsOK'
    BY <1>9, <2>1, <2>2, FirstWriteType DEF PublishVersion
  <2>4. Append(versions[s], NewVersion(c)) \in Seq(Versions)
    BY <2>1 DEF DataOK
  <2>5. row' \in [Services -> Rows \cup {None, Gone}]
    BY <1>1, <1>9, <2>1 DEF PublishVersion, DataOK
  <2> QED BY <1>9, <2>1, <2>3, <2>4, <2>5 DEF PublishVersion, DataOK
<1>10. CASE Project(c)
  <2>1. s \in Services /\ CodeOf[s] \in Codes
    BY <1>3, <1>10, RegistryAssumption DEF Project
  <2>2. Projected(s, gov[CodeOf[s]]) \in CatalogueRows
    BY <2>1 DEF Projected, CatalogueRows
  <2>3. gov' \in [Codes -> CatalogueRows \cup {None}]
    BY <1>10, <2>1, <2>2 DEF Project, DataOK
  <2>4. LastWrite(c, TRUE) \/ LastWrite(c, FALSE)
    BY <1>10 DEF Project
  <2> QED BY <1>2, <1>10, <2>1, <2>3, <2>4 DEF Project, DataOK
<1>11. CASE GiveUp(c)
  <2>1. CallsOK' /\ torn' \in SUBSET Services
    BY <1>2, <1>3, <1>11, EndsType DEF GiveUp, DataOK
  <2> QED BY <1>11, <2>1 DEF GiveUp, DataOK, tables
<1> QED BY <1>4, <1>5, <1>6, <1>7, <1>8, <1>9, <1>10, <1>11 DEF Writes

\* The passport of a request in flight has been created.
InUse == \A c \in Calls : call[c].at # "idle" => row[call[c].service] # None

\* A step of a request creates no passport.
LEMMA NoneCreated ==
  ASSUME TypeOK, NEW c \in Calls, Starts(c) \/ Reads(c) \/ Writes(c), NEW s \in Services
  PROVE  /\ Exists(s)' => Exists(s)
         /\ row[s] # None => row'[s] # None
<1>2. CASE Starts(c) \/ Reads(c)
  <2>1. UNCHANGED row
    BY <1>2 DEF Starts, UpdateRead, LinksDelete, DeleteRead, PublishRead, Reads, ReadAgain,
                CheckOnceOnly, CountDocuments, BaselineVersion, tables
  <2> QED BY <2>1 DEF Exists
<1>3. CASE UNCHANGED row
  BY <1>3 DEF Exists
<1>4. ASSUME NEW z \in Services, NEW st \in {"archived", "published"}, Exists(z),
             row' = [row EXCEPT ![z] = WithStatus(z, st)]
      PROVE  (Exists(s)' => Exists(s)) /\ (row[s] # None => row'[s] # None)
  <2>1. WithStatus(z, st) \in Rows
    BY <1>4 DEF WithStatus, Exists, Rows
  <2> QED BY <1>4, <2>1, RegistryAssumption DEF Exists, TypeOK
<1>5. CASE UpdateWrite(c)
  <2>1. call[c].service \in Services /\ call[c].level \in Levels /\ call[c].measure \in Measures
    BY <1>5 DEF UpdateWrite, TypeOK, Requests
  <2>2. [status |-> row[call[c].service].status, level |-> call[c].level,
         measure |-> call[c].measure] \in Rows
    BY <1>5, <2>1 DEF UpdateWrite, Exists, Rows
  <2> QED BY <1>5, <2>1, <2>2, RegistryAssumption DEF UpdateWrite, Exists, TypeOK
<1>6. CASE DeleteWrite(c)
  BY <1>6, RegistryAssumption DEF DeleteWrite, Exists, TypeOK
<1>7. CASE Withdraw(c) \/ LinksInsert(c) \/ Project(c) \/ GiveUp(c)
  BY <1>3, <1>7 DEF Withdraw, LinksInsert, Project, GiveUp, tables
<1>8. CASE PublishVersion(c)
  <2>1. call[c].service \in Services
    BY <1>8 DEF PublishVersion, TypeOK
  <2> QED BY <1>4, <1>8, <2>1 DEF PublishVersion
<1>9. CASE \E z \in Services : ArchiveStatus(c, z)
  BY <1>4, <1>9 DEF ArchiveStatus
<1> QED BY <1>2, <1>5, <1>6, <1>7, <1>8, <1>9 DEF Writes

\* What the step leaves the request at.
LEMMA Where ==
  ASSUME TypeOK, InUse, NEW c \in Calls, Starts(c) \/ Reads(c) \/ Writes(c)
  PROVE  /\ call'[c].at = "count" => CheckOnceOnly(c)
         /\ call'[c].at = "baseline" => CountDocuments(c)
         /\ call'[c].at = "version" => BaselineVersion(c)
         /\ call'[c].at = "project" => PublishVersion(c)
         /\ call'[c].at = "withdraw" => \E s \in Services : ArchiveStatus(c, s)
         /\ call'[c].at # "idle" => row[call'[c].service] # None
<1> DEFINE s == call[c].service
<1>0. call[c] \in Requests /\ CallsOK
  BY TypeParts DEF TypeOK
<1>13. (\A z \in Services : Exists(z) => row[z] # None) /\ (call[c].at # "idle" => row[s] # None)
  BY RegistryAssumption DEF Exists, InUse
<1>1. ASSUME NEW z \in Services, NEW at \in Steps, Becomes(c, Plain(at, z)) PROVE call'[c].at = at /\ call'[c].service = z
  BY <1>1, PlainType DEF Becomes, TypeOK
<1>2. ASSUME Ends(c) PROVE call'[c].at = "idle"
  BY <1>2, IdleType DEF Ends, Becomes, TypeOK
<1>3. ASSUME NEW z \in Services, NEW at \in Steps, FirstWrite(c, z, Plain(at, z))
      PROVE  call'[c].at = at /\ call'[c].service = z
  <2> DEFINE r == Plain(at, z)
  <2>1. r \in Requests /\ r.at = at /\ r.service = z /\ Overlapped(c, z) \in BOOLEAN
    BY PlainType DEF Overlapped
  <2>2. call'[c] = [r EXCEPT !.mixed = Overlapped(c, z)]
    BY <1>3 DEF FirstWrite
  <2> HIDE DEF r
  <2>3. [r EXCEPT !.mixed = Overlapped(c, z)].at = at
    BY <2>1, MixedType, Zenon
  <2>4. [r EXCEPT !.mixed = Overlapped(c, z)].service = z
    BY <2>1, MixedType, Zenon
  <2> QED BY <2>2, <2>3, <2>4, Zenon
<1>4. ASSUME NEW r, Becomes(c, r) PROVE call'[c] = r
  BY <1>4 DEF Becomes, TypeOK
<1>5. CASE Starts(c)
  <2> PICK z \in Services :
        \/ \E level \in Levels, measure \in Measures : UpdateRead(c, z, level, measure)
        \/ \E E \in SUBSET Evidences : LinksDelete(c, z, E)
        \/ DeleteRead(c, z) \/ PublishRead(c, z)
    BY <1>5 DEF Starts
  <2>1. ASSUME NEW level \in Levels, NEW measure \in Measures, UpdateRead(c, z, level, measure)
        PROVE  call'[c].at = "update" /\ call'[c].service = z /\ Exists(z)
    <3>1. call'[c] = Request("update", z, level, measure) /\ Exists(z)
      BY <1>4, <2>1 DEF UpdateRead
    <3> QED BY <3>1 DEF Request
  <2>2. ASSUME NEW E \in SUBSET Evidences, LinksDelete(c, z, E)
        PROVE  call'[c].at = "insert" /\ call'[c].service = z /\ Exists(z)
    <3>1. links[z] \in SUBSET Evidences
      BY DEF TypeOK
    <3>2. call'[c] = Replacing(z, E) /\ Exists(z)
      BY <1>4, <2>2, Zenon DEF LinksDelete
    <3> QED BY <3>1, <3>2, ReplacingType
  <2>3. ASSUME DeleteRead(c, z) PROVE call'[c].at = "delete" /\ call'[c].service = z /\ Exists(z)
    BY <1>1, <2>3 DEF DeleteRead, Steps
  <2>4. ASSUME PublishRead(c, z) PROVE call'[c].at = "again" /\ call'[c].service = z /\ Exists(z)
    <3>1. call'[c] = Request("again", z, row[z].level, row[z].measure) /\ Exists(z)
      BY <1>4, <2>4 DEF PublishRead
    <3> QED BY <3>1 DEF Request
  <2> QED BY <1>13, <2>1, <2>2, <2>3, <2>4
<1>6. CASE ReadAgain(c)
  <2> DEFINE q == [call[c] EXCEPT !.at = "check"]
  <2>1. q \in Requests /\ q.at = "check" /\ q.service = s
    BY <1>0, AtType, Zenon DEF Steps
  <2>2. call'[c] = [q EXCEPT !.again = row[s].level] /\ call[c].at # "idle"
    BY <1>4, <1>6, Zenon DEF ReadAgain
  <2>3. row[s].level \in Levels
    BY <1>0, <1>6 DEF ReadAgain, TypeOK, Exists, Rows
  <2> HIDE DEF q
  <2>4. [q EXCEPT !.again = row[s].level].at = "check"
    BY <2>1, <2>3, AgainType, Zenon
  <2>5. [q EXCEPT !.again = row[s].level].service = s
    BY <2>1, <2>3, AgainType, Zenon
  <2>6. call'[c].at = "check" /\ call'[c].service = s
    BY <2>2, <2>4, <2>5, Zenon
  <2> QED BY <1>13, <2>2, <2>6
<1>7. CASE CheckOnceOnly(c)
  <2>1. call'[c] = Request("count", s, call[c].level, call[c].measure) /\ call[c].at = "check"
    BY <1>4, <1>7 DEF CheckOnceOnly
  <2> QED BY <1>7, <1>13, <2>1 DEF Request
<1>8. CASE CountDocuments(c)
  <2> DEFINE q == [call[c] EXCEPT !.at = "baseline"]
  <2>1. q \in Requests /\ q.at = "baseline" /\ q.service = s
    BY <1>0, AtType, Zenon DEF Steps
  <2>2. call'[c] = [q EXCEPT !.docs = Cardinality(links[s])] /\ call[c].at = "count"
    BY <1>4, <1>8, Zenon DEF CountDocuments
  <2>3. Cardinality(links[s]) \in Nat
    BY <1>0, <2>2, FS_Subset, FS_CardinalityType, RegistryAssumption DEF TypeOK
  <2> HIDE DEF q
  <2>4. [q EXCEPT !.docs = Cardinality(links[s])].at = "baseline"
    BY <2>1, <2>3, DocsType, Zenon
  <2>5. [q EXCEPT !.docs = Cardinality(links[s])].service = s
    BY <2>1, <2>3, DocsType, Zenon
  <2>6. call'[c].at = "baseline" /\ call'[c].service = s
    BY <2>2, <2>4, <2>5, Zenon
  <2> QED BY <1>8, <1>13, <2>2, <2>6
<1>9. CASE BaselineVersion(c)
  <2> DEFINE q == [call[c] EXCEPT !.at = "version"]
             base == call'[c].base
  <2>1. call[c].at = "baseline"
    BY <1>9 DEF BaselineVersion
  <2>2. q \in Requests /\ q.service = s /\ q.at = "version"
    BY <1>0, AtType, Zenon DEF Steps
  <2>3. \E x : call'[c] = [q EXCEPT !.base = x]
    BY <1>4, <1>9, Zenon DEF BaselineVersion
  <2> HIDE DEF q
  <2>4. call'[c].at = q.at /\ call'[c].service = q.service
    BY <2>2, <2>3 DEF Requests
  <2> QED BY <1>9, <1>13, <2>1, <2>2, <2>4
<1>10. ASSUME NEW z \in Services, ArchiveStatus(c, z)
       PROVE  call'[c].at = "withdraw" /\ call'[c].service = z /\ Exists(z)
  BY <1>3, <1>10 DEF ArchiveStatus, Steps
<1>11. CASE PublishVersion(c)
  <2>1. s \in Services /\ call[c].at = "version"
    BY <1>11 DEF PublishVersion, TypeOK
  <2>2. call'[c].at = "project" /\ call'[c].service = s
    BY <1>3, <1>11, <2>1 DEF PublishVersion, Steps
  <2> QED BY <1>11, <1>13, <2>1, <2>2
<1>12. CASE UpdateWrite(c) \/ DeleteWrite(c) \/ LinksInsert(c) \/ Withdraw(c) \/ Project(c) \/ GiveUp(c)
  <2>1. Ends(c)
    BY <1>12, Zenon DEF UpdateWrite, DeleteWrite, LinksInsert, Withdraw, Project, GiveUp, LastWrite
  <2> QED BY <1>2, <2>1
<1> QED BY <1>5, <1>6, <1>7, <1>8, <1>9, <1>10, <1>11, <1>12, <1>13 DEF Reads, Writes

\* A step of no request leaves every passport in use, and every version, as it is.
LEMMA OtherStays ==
  ASSUME TypeOK, Other
  PROVE  /\ UNCHANGED <<versions, gov, call, torn>>
         /\ \A s \in Services : row[s] # None => row'[s] = row[s]
         /\ \A s \in Services : row[s] = None /\ row'[s] # None => row'[s].status = "draft"
         /\ \A s \in Services : Exists(s) => Exists(s)'
<1>1. ASSUME NEW z \in Services, NEW level \in Levels, NEW measure \in Measures,
             CreateService(z, level, measure)
      PROVE  /\ UNCHANGED <<versions, gov, call, torn>>
             /\ row[z] = None /\ None \notin Rows
             /\ row' = [row EXCEPT ![z] = [status |-> "draft", level |-> level, measure |-> measure]]
  BY <1>1, RegistryAssumption DEF CreateService
<1>2. CASE UNCHANGED <<row, versions, gov, call, torn>>
  BY <1>2 DEF Exists
<1>3. CASE \E z \in Services, level \in Levels, measure \in Measures : CreateService(z, level, measure)
  <2> PICK z \in Services, level \in Levels, measure \in Measures : CreateService(z, level, measure)
    BY <1>3
  <2> DEFINE r == [status |-> "draft", level |-> level, measure |-> measure]
  <2>1. r \in Rows /\ r.status = "draft"
    BY DEF Rows
  <2> HIDE DEF r
  <2>2. /\ UNCHANGED <<versions, gov, call, torn>>
        /\ row[z] = None /\ None \notin Rows /\ row' = [row EXCEPT ![z] = r]
    BY <1>1, Zenon DEF r
  <2>3. row \in [Services -> Rows \cup {None, Gone}]
    BY DEF TypeOK
  <2> QED BY <2>1, <2>2, <2>3 DEF Exists
<1> QED BY <1>2, <1>3 DEF Other, DeleteEvidence, PutEvidence

LEMMA InUseNext == ASSUME TypeOK, CallsOK', InUse, Step PROVE InUse'
<1>1. CASE Other
  <2>1. \A c \in Calls : call[c].at # "idle" => call[c].service \in Services
    BY DEF TypeOK
  <2> QED BY <1>1, <2>1, OtherStays DEF InUse
<1>2. ASSUME NEW c \in Calls, Starts(c) \/ Reads(c) \/ Writes(c) PROVE InUse'
  <2>1. \A d \in Calls : call'[d].at # "idle" => call'[d].service \in Services
    BY DEF CallsOK, RequestOK
  <2> SUFFICES ASSUME NEW d \in Calls, call'[d].at # "idle" PROVE row'[call'[d].service] # None
    BY DEF InUse
  <2>2. CASE d = c
    BY <1>2, <2>1, <2>2, Where, NoneCreated
  <2>3. CASE d # c
    <3>1. call[d].at # "idle" /\ call'[d].service = call[d].service /\ call[d].service \in Services
      BY <1>2, <2>3, OthersStay, TypeParts DEF Same, CallsOK, RequestOK
    <3> QED BY <1>2, <3>1, NoneCreated DEF InUse
  <2> QED BY <2>2, <2>3
<1> QED BY <1>1, <1>2, StepCases

\* What a step of a request does to the versions of a passport.
LEMMA VersionsStep ==
  ASSUME TypeOK, NEW c \in Calls, Starts(c) \/ Reads(c) \/ Writes(c), NEW s \in Services
  PROVE  \/ versions'[s] = versions[s]
         \/ versions'[s] = <<>> /\ ~ Exists(s)'
         \/ /\ PublishVersion(c) /\ call[c].at = "version" /\ s = call[c].service /\ Exists(s)
            /\ versions'[s] = Append(versions[s], NewVersion(c))
<1>1. CASE PublishVersion(c)
  <2>1. call[c].service \in Services
    BY <1>1 DEF PublishVersion, TypeOK
  <2> QED BY <1>1, <2>1 DEF PublishVersion, TypeOK
<1>2. CASE DeleteWrite(c)
  <2>1. call[c].service \in Services /\ Gone \notin Rows
    BY <1>2, RegistryAssumption DEF DeleteWrite, TypeOK
  <2> QED BY <1>2, <2>1 DEF DeleteWrite, TypeOK, Exists
<1>3. CASE Starts(c) \/ Reads(c)
  BY <1>3 DEF Starts, UpdateRead, LinksDelete, DeleteRead, PublishRead, Reads, ReadAgain,
              CheckOnceOnly, CountDocuments, BaselineVersion, tables
<1>4. CASE UpdateWrite(c) \/ LinksInsert(c) \/ Withdraw(c) \/ Project(c) \/ GiveUp(c)
           \/ \E z \in Services : ArchiveStatus(c, z)
  BY <1>4 DEF UpdateWrite, LinksInsert, Withdraw, Project, GiveUp, ArchiveStatus, tables
<1> QED BY <1>1, <1>2, <1>3, <1>4 DEF Writes

MeasuredWell(v, first) ==
  /\ first.baseline
  /\ v.baseline => v.deltaMeasure = 0 /\ v.deltaDocs = 0
  /\ ~ v.baseline => /\ v.deltaMeasure = v.measure - first.measure
                     /\ v.deltaDocs = v.docs - first.docs

LEMMA MeasuredAll ==
  MeasuredAgainstFirst <=>
    \A s \in Services : \A i \in 1 .. Len(versions[s]) : MeasuredWell(versions[s][i], versions[s][1])
BY DEF MeasuredAgainstFirst, MeasuredWell

LEMMA MeasuredNext ==
  ASSUME TypeOK, BasesOK, MeasuredAgainstFirst, Step PROVE MeasuredAgainstFirst'
<1>1. CASE Other
  BY <1>1, OtherStays DEF MeasuredAgainstFirst
<1>2. ASSUME NEW c \in Calls, Starts(c) \/ Reads(c) \/ Writes(c) PROVE MeasuredAgainstFirst'
  <2> SUFFICES ASSUME NEW s \in Services, NEW i \in 1 .. Len(versions'[s])
               PROVE  MeasuredWell(versions'[s][i], versions'[s][1])
    BY DEF MeasuredAgainstFirst, MeasuredWell
  <2>1. versions[s] \in Seq(Versions)
    BY DEF TypeOK
  <2>2. CASE versions'[s] = versions[s]
    BY <2>2, MeasuredAll
  <2>3. CASE versions'[s] = <<>>
    BY <2>3
  <2>4. CASE /\ call[c].at = "version" /\ s = call[c].service /\ Exists(s)
             /\ versions'[s] = Append(versions[s], NewVersion(c))
    <3> DEFINE v == NewVersion(c)
               n == Len(versions[s])
    <3>1. n \in Nat /\ v \in Versions
      BY <2>1, <2>4, NewVersionMeasured
    <3>2. /\ v.baseline => v.deltaMeasure = 0 /\ v.deltaDocs = 0
          /\ ~ v.baseline => /\ 1 \in 1 .. n
                             /\ v.deltaMeasure = v.measure - versions[s][1].measure
                             /\ v.deltaDocs = v.docs - versions[s][1].docs
      BY <2>4, NewVersionMeasured
    <3> HIDE DEF v
    <3>3. CASE n = 0
      <4>1. i = 1 /\ versions'[s][1] = v
        BY <2>1, <2>4, <3>1, <3>3 DEF v
      <4> QED BY <3>1, <3>2, <3>3, <4>1 DEF MeasuredWell
    <3>4. CASE n # 0
      <4>1. versions'[s][1] = versions[s][1] /\ MeasuredWell(versions[s][1], versions[s][1])
        BY <2>1, <2>4, <3>1, <3>4, MeasuredAll
      <4>2. CASE i = n + 1
        <5>1. versions'[s][i] = v
          BY <2>1, <2>4, <3>1, <4>2 DEF v
        <5> QED BY <3>2, <4>1, <5>1 DEF MeasuredWell
      <4>3. CASE i # n + 1
        <5>1. i \in 1 .. n /\ versions'[s][i] = versions[s][i]
          BY <2>1, <2>4, <3>1, <4>3
        <5> QED BY <4>1, <5>1, MeasuredAll
      <4> QED BY <4>2, <4>3
    <3> QED BY <3>3, <3>4
  <2> QED BY <1>2, <2>2, <2>3, <2>4, VersionsStep
<1> QED BY <1>1, <1>2, StepCases

LEMMA BasesNext ==
  ASSUME TypeOK, InUse, BasesOK, MeasuredAgainstFirst, Step PROVE BasesOK'
<1>1. CASE Other
  <2>1. \A c \in Calls : call[c].at = "version" => call[c].service \in Services /\ row[call[c].service] # None
    BY DEF TypeOK, InUse
  <2>2. \A s \in Services : row[s] # None => (Exists(s)' => Exists(s))
    BY <1>1, OtherStays DEF Exists
  <2> QED BY <1>1, <2>1, <2>2, OtherStays DEF BasesOK
<1>2. ASSUME NEW c \in Calls, Starts(c) \/ Reads(c) \/ Writes(c) PROVE BasesOK'
  <2> SUFFICES ASSUME NEW d \in Calls, call'[d].at = "version", row'[call'[d].service] \in Rows,
                      call'[d].base # None
               PROVE  /\ 1 \in 1 .. Len(versions'[call'[d].service])
                      /\ call'[d].base.measure = versions'[call'[d].service][1].measure
                      /\ call'[d].base.docs = versions'[call'[d].service][1].docs
    BY DEF BasesOK, Exists
  <2>1. CASE d = c
    <3>1. BaselineVersion(c)
      BY <1>2, <2>1, Where
    <3>2. versions' = versions
      BY <3>1 DEF BaselineVersion, tables
    <3> QED BY <2>1, <3>1, <3>2, BaselineFound
  <2>2. CASE d # c
    <3> DEFINE s == call[d].service
    <3>1. Same(call'[d], call[d])
      BY <1>2, <2>2, OthersStay, TypeParts
    <3>2. call[d].at = "version" /\ s \in Services /\ call'[d].service = s /\ call'[d].base = call[d].base
      BY <3>1 DEF Same, TypeOK
    <3>3. Exists(s)' /\ Exists(s) /\ versions[s] \in Seq(Versions)
      <4>1. Exists(s)'
        BY <3>2 DEF Exists
      <4>2. versions[s] \in Seq(Versions)
        BY <3>2 DEF TypeOK
      <4> QED BY <1>2, <3>2, <4>1, <4>2, NoneCreated
    <3>4. /\ 1 \in 1 .. Len(versions[s])
          /\ call[d].base.measure = versions[s][1].measure
          /\ call[d].base.docs = versions[s][1].docs
      BY <3>2, <3>3 DEF BasesOK
    <3>5. CASE versions'[s] = versions[s]
      BY <3>2, <3>4, <3>5
    <3>6. CASE call[c].at = "version" /\ s = call[c].service /\ Exists(s)
               /\ versions'[s] = Append(versions[s], NewVersion(c))
      <4>1. NewVersion(c) \in Versions
        BY <3>6, NewVersionMeasured
      <4>2. 1 \in 1 .. Len(versions'[s]) /\ versions'[s][1] = versions[s][1]
        BY <3>3, <3>4, <3>6, <4>1
      <4> QED BY <3>2, <3>4, <4>2
    <3> QED BY <1>2, <3>2, <3>3, <3>5, <3>6, VersionsStep
  <2> QED BY <2>1, <2>2
<1> QED BY <1>1, <1>2, StepCases

-------------------------------------------------------------------------------
(* Honesty *)

\* A publication past its check that declares once-only has seen a clean moment.
CleanOK ==
  \A c \in Calls :
    call[c].at \in {"count", "baseline", "version"} /\ call[c].level \in High => c \in clean

LEMMA LevelStays ==
  ASSUME TypeOK, MeasuredAgainstFirst, NEW c \in Calls,
         CheckOnceOnly(c) \/ CountDocuments(c) \/ BaselineVersion(c)
  PROVE  call'[c].level = call[c].level /\ call'[c].service = call[c].service
<1>0. call[c] \in Requests
  BY DEF TypeOK
<1>1. CASE CheckOnceOnly(c)
  BY <1>1 DEF CheckOnceOnly, Becomes, Request, TypeOK
<1>2. CASE CountDocuments(c)
  <2> DEFINE s == call[c].service
             q == [call[c] EXCEPT !.at = "baseline"]
  <2>1. q \in Requests /\ q.service = s /\ q.level = call[c].level
    BY <1>0, AtType, Zenon DEF Steps
  <2>2. call'[c] = [q EXCEPT !.docs = Cardinality(links[s])] /\ s \in Services
    BY <1>2 DEF CountDocuments, Becomes, TypeOK
  <2>3. Cardinality(links[s]) \in Nat
    BY <2>2, FS_Subset, FS_CardinalityType, RegistryAssumption DEF TypeOK
  <2> HIDE DEF q
  <2>4. [q EXCEPT !.docs = Cardinality(links[s])].level = call[c].level
    BY <2>1, <2>3, DocsType, Zenon
  <2>5. [q EXCEPT !.docs = Cardinality(links[s])].service = s
    BY <2>1, <2>3, DocsType, Zenon
  <2> QED BY <2>2, <2>4, <2>5, Zenon
<1> QED BY <1>1, <1>2, BaselineFound

LEMMA CleanNext ==
  ASSUME TypeOK, InUse, MeasuredAgainstFirst, CleanOK, Step, Watch PROVE CleanOK'
<1>0. \A d \in Calls : call'[d].at \in Publishing /\ d \in clean => d \in clean'
  BY DEF Watch
<1>1. CASE Other
  BY <1>0, <1>1, OtherStays DEF CleanOK, Publishing
<1>2. ASSUME NEW c \in Calls, Starts(c) \/ Reads(c) \/ Writes(c) PROVE CleanOK'
  <2> SUFFICES ASSUME NEW d \in Calls, call'[d].at \in {"count", "baseline", "version"},
                      call'[d].level \in High
               PROVE  d \in clean'
    BY DEF CleanOK
  <2>1. CASE d # c
    BY <1>0, <1>2, <2>1, OthersStay, TypeParts DEF Same, CleanOK, Publishing
  <2>2. CASE d = c /\ call'[c].at = "count"
    <3> DEFINE s == call[c].service
    <3>1. CheckOnceOnly(c)
      BY <1>2, <2>2, Where
    <3>2. call'[c].service = s /\ call[c].level \in High /\ s \in Services
      BY <2>2, <3>1, LevelStays DEF CheckOnceOnly, TypeOK
    <3>3. Eligible(call[c].again, ~ Compliant(s)) = call[c].level
      BY <3>1 DEF CheckOnceOnly, Declared
    <3>4. Compliant(s)
      BY <3>2, <3>3 DEF Eligible, High
    <3>5. Compliant(s)'
      BY <3>1, <3>2, <3>4 DEF CheckOnceOnly, Compliant, InKhur, tables
    <3> QED BY <2>2, <3>2, <3>5 DEF Watch, Publishing
  <2>3. CASE d = c /\ call'[c].at # "count"
    <3>1. CountDocuments(c) \/ BaselineVersion(c)
      BY <1>2, <2>3, Where
    <3>2. call'[c].level = call[c].level /\ call[c].at \in {"count", "baseline"}
      BY <3>1, LevelStays DEF CountDocuments, BaselineVersion
    <3> QED BY <1>0, <2>3, <3>2 DEF CleanOK, Publishing
  <2> QED BY <2>1, <2>2, <2>3
<1> QED BY <1>1, <1>2, StepCases

LEMMA HonestNext ==
  ASSUME TypeOK, BasesOK, CleanOK, DeclaredHonestly, Step PROVE DeclaredHonestly'
<1>1. CASE Other
  BY <1>1, OtherStays DEF DeclaredHonestly
<1>2. ASSUME NEW c \in Calls, Starts(c) \/ Reads(c) \/ Writes(c) PROVE DeclaredHonestly'
  <2> SUFFICES ASSUME NEW s \in Services, NEW i \in 1 .. Len(versions'[s])
               PROVE  versions'[s][i].honest
    BY DEF DeclaredHonestly
  <2>1. versions[s] \in Seq(Versions)
    BY DEF TypeOK
  <2>2. CASE versions'[s] = versions[s]
    BY <2>2 DEF DeclaredHonestly
  <2>3. CASE versions'[s] = <<>>
    BY <2>3
  <2>4. CASE /\ call[c].at = "version" /\ s = call[c].service /\ Exists(s)
             /\ versions'[s] = Append(versions[s], NewVersion(c))
    <3> DEFINE v == NewVersion(c)
    <3>1. v \in Versions
      BY <2>4, NewVersionMeasured
    <3>2. v.honest
      BY <2>4 DEF NewVersion, CleanOK
    <3> HIDE DEF v
    <3>3. CASE i = Len(versions[s]) + 1
      <4>1. versions'[s][i] = v
        BY <2>1, <2>4, <3>1, <3>3 DEF v
      <4> QED BY <3>2, <4>1
    <3>4. CASE i # Len(versions[s]) + 1
      <4>1. i \in 1 .. Len(versions[s]) /\ versions'[s][i] = versions[s][i]
        BY <2>1, <2>4, <3>1, <3>4 DEF v
      <4> QED BY <4>1 DEF DeclaredHonestly
    <3> QED BY <3>3, <3>4
  <2> QED BY <1>2, <2>2, <2>3, <2>4, VersionsStep
<1> QED BY <1>1, <1>2, StepCases

-------------------------------------------------------------------------------
(* The catalogue *)

\* The catalogue's rows belong to passports that exist.
OwnersOK == \A k \in Codes : gov[k] # None /\ gov[k].of # None => Exists(gov[k].of)

\* A request that is alone between its two writes finds the status it has written.
StatusOK ==
  \A c \in Calls :
    LET s == call[c].service
    IN  ~ call[c].mixed /\ Exists(s) =>
          /\ call[c].at = "project" => row[s].status = "published"
          /\ call[c].at = "withdraw" => row[s].status = "archived"

\* What a step of a request does to a passport's row.
LEMMA RowStep ==
  ASSUME TypeOK, NEW c \in Calls, Starts(c) \/ Reads(c) \/ Writes(c), NEW s \in Services
  PROVE  \/ row'[s] = row[s]
         \/ Exists(s) /\ Exists(s)' /\ row'[s].status = row[s].status
         \/ DeleteWrite(c) /\ s = call[c].service /\ ~ Exists(s)'
         \/ ArchiveStatus(c, s) /\ Exists(s) /\ Exists(s)' /\ row'[s].status = "archived"
         \/ /\ PublishVersion(c) /\ s = call[c].service /\ Exists(s) /\ Exists(s)'
            /\ row'[s].status = "published"
<1>1. CASE UNCHANGED row
  BY <1>1
<1>2. ASSUME NEW z \in Services, NEW st \in {"archived", "published"}, Exists(z),
             row' = [row EXCEPT ![z] = WithStatus(z, st)]
      PROVE  IF s = z THEN Exists(s) /\ Exists(s)' /\ row'[s].status = st ELSE row'[s] = row[s]
  <2>1. WithStatus(z, st) \in Rows /\ WithStatus(z, st).status = st
    BY <1>2 DEF WithStatus, Exists, Rows
  <2>2. row' = [row EXCEPT ![z] = WithStatus(z, st)] /\ row \in [Services -> Rows \cup {None, Gone}]
    BY <1>2 DEF TypeOK
  <2> QED BY <1>2, <2>1, <2>2 DEF Exists
<1>3. CASE \E z \in Services : ArchiveStatus(c, z)
  <2> PICK z \in Services : ArchiveStatus(c, z)
    BY <1>3
  <2> QED BY <1>2 DEF ArchiveStatus
<1>4. CASE PublishVersion(c)
  <2>1. call[c].service \in Services
    BY <1>4 DEF PublishVersion, TypeOK
  <2>2. IF s = call[c].service THEN Exists(s) /\ Exists(s)' /\ row'[s].status = "published"
        ELSE row'[s] = row[s]
    BY <1>2, <1>4, <2>1 DEF PublishVersion
  <2> QED BY <1>4, <2>2
<1>5. CASE DeleteWrite(c)
  <2>1. call[c].service \in Services /\ row' = [row EXCEPT ![call[c].service] = Gone] /\ Gone \notin Rows
    BY <1>5, RegistryAssumption DEF DeleteWrite, TypeOK
  <2> QED BY <1>5, <2>1 DEF TypeOK, Exists
<1>6. CASE UpdateWrite(c)
  <2> DEFINE z == call[c].service
             r == [status |-> row[z].status, level |-> call[c].level, measure |-> call[c].measure]
  <2>1. z \in Services /\ call[c].level \in Levels /\ call[c].measure \in Measures
    BY <1>6 DEF UpdateWrite, TypeOK, Requests
  <2>2. Exists(z) /\ row' = [row EXCEPT ![z] = r]
    BY <1>6 DEF UpdateWrite
  <2>3. r \in Rows /\ r.status = row[z].status
    BY <2>1, <2>2 DEF Exists, Rows
  <2> HIDE DEF r
  <2>4. IF s = z THEN row'[s] = r ELSE row'[s] = row[s]
    BY <2>1, <2>2 DEF TypeOK
  <2> QED BY <2>2, <2>3, <2>4 DEF Exists
<1>7. CASE Starts(c) \/ Reads(c) \/ Withdraw(c) \/ LinksInsert(c) \/ Project(c) \/ GiveUp(c)
  BY <1>1, <1>7 DEF Starts, UpdateRead, LinksDelete, DeleteRead, PublishRead, Reads, ReadAgain,
              CheckOnceOnly, CountDocuments, BaselineVersion, Withdraw, LinksInsert, Project,
              GiveUp, tables
<1> QED BY <1>3, <1>4, <1>5, <1>6, <1>7 DEF Writes

\* The first of two writes marks the requests between their own on the same passport.
LEMMA FirstWriteMarks ==
  ASSUME TypeOK, NEW c \in Calls, NEW s \in Services, NEW at \in Steps,
         FirstWrite(c, s, Plain(at, s))
  PROVE  /\ call'[c].at = at /\ call'[c].service = s
         /\ \A d \in Calls \ {c} : Writing(d, s) => call'[d].mixed = TRUE
<1> DEFINE r == Plain(at, s)
<1>1. r \in Requests /\ r.at = at /\ r.service = s /\ Overlapped(c, s) \in BOOLEAN
  BY PlainType DEF Overlapped
<1>2. call'[c] = [r EXCEPT !.mixed = Overlapped(c, s)]
  BY DEF FirstWrite
<1>3. ASSUME NEW d \in Calls \ {c}, Writing(d, s) PROVE call'[d].mixed = TRUE
  <2>1. call'[d] = [call[d] EXCEPT !.mixed = TRUE]
    BY <1>3 DEF FirstWrite
  <2> QED BY <2>1 DEF TypeOK, Requests
<1> HIDE DEF r
<1>4. [r EXCEPT !.mixed = Overlapped(c, s)].at = at
  BY <1>1, MixedType, Zenon
<1>5. [r EXCEPT !.mixed = Overlapped(c, s)].service = s
  BY <1>1, MixedType, Zenon
<1>6. call'[c].at = at /\ call'[c].service = s
  BY <1>2, <1>4, <1>5, Zenon
<1> QED BY <1>3, <1>6

LEMMA StatusNext == ASSUME TypeOK, InUse, StatusOK, Step PROVE StatusOK'
<1>1. CASE Other
  <2>1. \A c \in Calls : call[c].at # "idle" => call[c].service \in Services /\ row[call[c].service] # None
    BY DEF TypeOK, InUse
  <2>2. \A s \in Services : row[s] # None => (Exists(s)' => Exists(s))
    BY <1>1, OtherStays DEF Exists
  <2> QED BY <1>1, <2>1, <2>2, OtherStays DEF StatusOK
<1>2. ASSUME NEW c \in Calls, Starts(c) \/ Reads(c) \/ Writes(c) PROVE StatusOK'
  <2> SUFFICES ASSUME NEW d \in Calls, ~ call'[d].mixed, row'[call'[d].service] \in Rows
               PROVE  /\ call'[d].at = "project" => row'[call'[d].service].status = "published"
                      /\ call'[d].at = "withdraw" => row'[call'[d].service].status = "archived"
    BY DEF StatusOK, Exists
  <2>1. CASE d = c
    <3>1. CASE call'[c].at = "project"
      <4>1. PublishVersion(c)
        BY <1>2, <3>1, Where
      <4>2. call[c].service \in Services
        BY <4>1 DEF PublishVersion, TypeOK
      <4>3. call'[c].service = call[c].service
        BY <4>1, <4>2, FirstWriteMarks DEF PublishVersion, Steps
      <4>4. row' = [row EXCEPT ![call[c].service] = WithStatus(call[c].service, "published")]
        BY <4>1 DEF PublishVersion
      <4>5. row'[call[c].service].status = "published"
        BY <4>2, <4>4 DEF TypeOK, WithStatus
      <4> QED BY <2>1, <3>1, <4>3, <4>5
    <3>2. CASE call'[c].at = "withdraw"
      <4>1. PICK z \in Services : ArchiveStatus(c, z)
        BY <1>2, <3>2, Where
      <4>2. call'[c].service = z
        BY <4>1, FirstWriteMarks DEF ArchiveStatus, Steps
      <4>3. row'[z].status = "archived"
        BY <4>1 DEF ArchiveStatus, TypeOK, WithStatus
      <4> QED BY <2>1, <3>2, <4>2, <4>3
    <3> QED BY <2>1, <3>1, <3>2
  <2>2. CASE d # c /\ call'[d].at \in {"project", "withdraw"}
    <3> DEFINE s == call[d].service
    <3>1. Same(call'[d], call[d])
      BY <1>2, <2>2, OthersStay, TypeParts
    <3>2. call[d].at = call'[d].at /\ s \in Services /\ call'[d].service = s /\ ~ call[d].mixed
      BY <2>2, <3>1 DEF Same, TypeOK
    <3>3. Writing(d, s) /\ Exists(s)'
      BY <2>2, <3>2 DEF Writing, Exists
    <3>4. Exists(s)
      BY <1>2, <3>2, <3>3, NoneCreated
    <3>5. ~ ArchiveStatus(c, s)
      BY <2>2, <3>2, <3>3, FirstWriteMarks DEF ArchiveStatus, Steps
    <3>6. ~ (PublishVersion(c) /\ s = call[c].service)
      BY <2>2, <3>2, <3>3, FirstWriteMarks DEF PublishVersion, Steps
    <3>7. row'[s].status = row[s].status
      BY <1>2, <3>2, <3>3, <3>5, <3>6, RowStep
    <3> QED BY <3>2, <3>4, <3>7 DEF StatusOK
  <2> QED BY <2>1, <2>2
<1> QED BY <1>1, <1>2, StepCases

\* What a step of a request does to a row of the catalogue.
LEMMA GovStep ==
  ASSUME TypeOK, NEW c \in Calls, Starts(c) \/ Reads(c) \/ Writes(c), NEW k \in Codes
  PROVE  LET s == call[c].service
         IN  \/ gov'[k] = gov[k] /\ ~ (DeleteWrite(c) /\ gov[k] # None /\ gov[k].of = s)
             \/ DeleteWrite(c) /\ gov[k] # None /\ gov[k].of = s /\ gov'[k].of = None
             \/ /\ Withdraw(c) /\ gov[k] # None /\ gov[k].of = s /\ UNCHANGED row
                /\ gov'[k] # None /\ gov'[k].of = s /\ ~ gov'[k].on
             \/ /\ Project(c) /\ k = CodeOf[s] /\ Exists(s) /\ UNCHANGED row
                /\ (gov[k] # None => gov[k].of = s)
                /\ gov'[k] # None /\ gov'[k].of = s /\ gov'[k].on
<1> DEFINE s == call[c].service
<1>0. gov \in [Codes -> CatalogueRows \cup {None}] /\ None \notin CatalogueRows /\ CodeOf \in [Services -> Codes]
  BY RegistryAssumption DEF TypeOK
<1>1. CASE DeleteWrite(c)
  BY <1>0, <1>1 DEF DeleteWrite
<1>2. CASE Withdraw(c)
  <2>1. s \in Services /\ call[c].at # "delete"
    BY <1>2 DEF Withdraw, TypeOK
  <2>2. [of |-> s, on |-> FALSE] \in CatalogueRows
    BY <2>1 DEF CatalogueRows
  <2> QED BY <1>0, <1>2, <2>1, <2>2 DEF Withdraw, DeleteWrite
<1>3. CASE Project(c)
  <2>1. s \in Services /\ call[c].at # "delete" /\ UNCHANGED row
    BY <1>3 DEF Project, TypeOK
  <2>2. [of |-> s, on |-> TRUE] \in CatalogueRows
    BY <2>1 DEF CatalogueRows
  <2>3. CASE UNCHANGED gov
    BY <2>1, <2>3 DEF DeleteWrite
  <2>4. CASE /\ Exists(s) /\ (gov[CodeOf[s]] # None => gov[CodeOf[s]].of = s)
             /\ gov' = [gov EXCEPT ![CodeOf[s]] = [of |-> s, on |-> TRUE]]
    BY <1>0, <1>3, <2>1, <2>2, <2>4 DEF DeleteWrite
  <2> QED BY <1>3, <2>3, <2>4 DEF Project, Projected
<1>4. CASE call[c].at # "delete" /\ UNCHANGED gov
  BY <1>4 DEF DeleteWrite
<1>5. CASE GiveUp(c)
  BY <1>5, <1>1, <1>4 DEF GiveUp, tables
<1>6. CASE Starts(c) \/ Reads(c) \/ UpdateWrite(c) \/ LinksInsert(c) \/ PublishVersion(c)
           \/ \E z \in Services : ArchiveStatus(c, z)
  BY <1>4, <1>6 DEF Starts, UpdateRead, LinksDelete, DeleteRead, PublishRead, Reads, ReadAgain,
              CheckOnceOnly, CountDocuments, BaselineVersion, UpdateWrite, LinksInsert,
              PublishVersion, ArchiveStatus, IsIdle, tables
<1> QED BY <1>1, <1>2, <1>3, <1>5, <1>6 DEF Writes

LEMMA OwnersNext == ASSUME TypeOK, OwnersOK, Step PROVE OwnersOK'
<1>0. \A k \in Codes : gov[k] # None => gov[k].of \in Services \cup {None}
  BY DEF TypeOK, CatalogueRows
<1>1. CASE Other
  BY <1>0, <1>1, OtherStays DEF OwnersOK
<1>2. ASSUME NEW c \in Calls, Starts(c) \/ Reads(c) \/ Writes(c) PROVE OwnersOK'
  <2> DEFINE s == call[c].service
  <2> SUFFICES ASSUME NEW k \in Codes, gov'[k] # None, gov'[k].of # None
               PROVE  row'[gov'[k].of] \in Rows
    BY DEF OwnersOK, Exists
  <2>1. CASE gov'[k] = gov[k] /\ ~ (DeleteWrite(c) /\ gov[k] # None /\ gov[k].of = s)
    <3> DEFINE z == gov[k].of
    <3>1. z \in Services /\ Exists(z) /\ ~ (DeleteWrite(c) /\ z = s) /\ gov'[k].of = z
      BY <1>0, <2>1 DEF OwnersOK
    <3>2. row'[z] = row[z] \/ row'[z] \in Rows
      BY <1>2, <3>1, RowStep DEF Exists
    <3> QED BY <3>1, <3>2 DEF Exists
  <2>2. CASE gov[k] # None /\ gov[k].of = s /\ UNCHANGED row /\ gov'[k].of = s
    BY <2>2 DEF OwnersOK, Exists
  <2>3. CASE Exists(s) /\ UNCHANGED row /\ gov'[k].of = s
    BY <2>3 DEF Exists
  <2> QED BY <1>2, <2>1, <2>2, <2>3, GovStep
<1> QED BY <1>1, <1>2, StepCases

\* What the catalogue promises of one passport.
Follows(s) == row[s].status = "published" <=> Shown(s)

LEMMA CatalogueNext ==
  ASSUME TypeOK, OwnersOK, StatusOK, CatalogueFollows, Step PROVE CatalogueFollows'
<1>0. /\ \A s \in Services : CodeOf[s] \in Codes
      /\ None \notin Services /\ None \notin Rows
  BY RegistryAssumption
<1>1. CASE Other
  <2> SUFFICES ASSUME NEW s \in Services \ torn', row'[s] \in Rows, \A d \in Calls : ~ Writing(d, s)'
               PROVE  Follows(s)'
    BY DEF CatalogueFollows, Exists, Follows
  <2>1. UNCHANGED <<gov, call, torn>>
    BY <1>1, OtherStays
  <2>2. Shown(s)' <=> Shown(s)
    BY <2>1 DEF Shown
  <2>3. CASE row[s] # None
    <3>1. row'[s] = row[s] /\ Exists(s) /\ \A d \in Calls : ~ Writing(d, s)
      BY <1>1, <2>1, <2>3, OtherStays DEF Exists, Writing
    <3> QED BY <2>1, <2>2, <3>1 DEF CatalogueFollows, Follows
  <2>4. CASE row[s] = None
    <3>1. row'[s].status = "draft"
      BY <1>0, <1>1, <2>4, OtherStays
    <3>2. ~ Shown(s)
      BY <1>0, <2>4 DEF Shown, OwnersOK, Exists
    <3> QED BY <2>2, <3>1, <3>2 DEF Follows
  <2> QED BY <2>3, <2>4
<1>2. ASSUME NEW c \in Calls, Starts(c) \/ Reads(c) \/ Writes(c) PROVE CatalogueFollows'
  <2> SUFFICES ASSUME NEW s \in Services \ torn', row'[s] \in Rows, \A d \in Calls : ~ Writing(d, s)'
               PROVE  Follows(s)'
    BY DEF CatalogueFollows, Exists, Follows
  <2> DEFINE z == call[c].service
             k == CodeOf[s]
             last == Withdraw(c) \/ Project(c) \/ GiveUp(c)
  <2>1. \A d \in Calls \ {c} : ~ Writing(d, s)
    <3> SUFFICES ASSUME NEW d \in Calls \ {c}, Writing(d, s) PROVE FALSE
      OBVIOUS
    <3>1. Same(call'[d], call[d])
      BY <1>2, OthersStay, TypeParts
    <3> QED BY <3>1 DEF Same, Writing
  <2>2. Exists(s) /\ Exists(s)'
    BY <1>2, NoneCreated DEF Exists
  <2>3. ~ (DeleteWrite(c) /\ s = z)
    BY <2>2, <1>0, RegistryAssumption DEF DeleteWrite, TypeOK, Exists
  <2>4. ~ ArchiveStatus(c, s)
    <3> SUFFICES ASSUME ArchiveStatus(c, s) PROVE FALSE
      OBVIOUS
    <3>1. call'[c].at = "withdraw" /\ call'[c].service = s
      BY FirstWriteMarks DEF ArchiveStatus, Steps
    <3> QED BY <3>1 DEF Writing
  <2>5. ~ (PublishVersion(c) /\ s = z)
    <3> SUFFICES ASSUME PublishVersion(c), s = z PROVE FALSE
      OBVIOUS
    <3>1. call'[c].at = "project" /\ call'[c].service = s
      BY FirstWriteMarks DEF PublishVersion, Steps
    <3> QED BY <3>1 DEF Writing
  <2>6. row'[s].status = row[s].status
    BY <1>2, <2>2, <2>3, <2>4, <2>5, RowStep
  <2>7. CASE Writing(c, s)
    <3>1. z = s /\ call[c].at \in {"project", "withdraw"}
      BY <2>7 DEF Writing
    <3>2. ~ LastWrite(c, FALSE)
      BY <3>1 DEF LastWrite
    <3>3. CASE LastWrite(c, TRUE)
      <4>1. ~ call[c].mixed
        BY <3>1, <3>3 DEF LastWrite
      <4>2. CASE Project(c)
        <5>1. call[c].at = "project" /\ row[s].status = "published"
          BY <2>2, <3>1, <4>1, <4>2 DEF Project, StatusOK
        <5>2. gov'[k] = [of |-> s, on |-> TRUE] /\ None \notin CatalogueRows
          BY <1>0, <2>2, <3>1, <3>2, <4>2, RegistryAssumption DEF Project, Projected, TypeOK
        <5>3. [of |-> s, on |-> TRUE] \in CatalogueRows
          BY DEF CatalogueRows
        <5>4. gov'[k] # None
          BY <5>2, <5>3
        <5> QED BY <2>6, <5>1, <5>2, <5>4 DEF Follows, Shown
      <4>3. CASE Withdraw(c)
        <5>1. call[c].at = "withdraw" /\ row[s].status = "archived"
          BY <2>2, <3>1, <4>1, <4>3 DEF Withdraw, StatusOK
        <5>2. gov'[k] = IF gov[k] # None /\ gov[k].of = s THEN [of |-> s, on |-> FALSE] ELSE gov[k]
          BY <1>0, <3>1, <4>3 DEF Withdraw
        <5>3. ~ (gov'[k] # None /\ gov'[k].of = s /\ gov'[k].on)
          BY <5>2
        <5> QED BY <2>6, <5>1, <5>3 DEF Follows, Shown
      <4> QED BY <1>2, <3>1, <3>2, <4>2, <4>3 DEF Starts, UpdateRead, LinksDelete, DeleteRead,
              PublishRead, Reads, ReadAgain, CheckOnceOnly, CountDocuments, BaselineVersion,
              Writes, UpdateWrite, DeleteWrite, LinksInsert, PublishVersion, ArchiveStatus, GiveUp,
              IsIdle
    <3>4. CASE ~ LastWrite(c, TRUE)
      BY <1>2, <3>1, <3>2, <3>4 DEF Starts, UpdateRead, LinksDelete, DeleteRead,
              PublishRead, Reads, ReadAgain, CheckOnceOnly, CountDocuments, BaselineVersion,
              Writes, UpdateWrite, DeleteWrite, LinksInsert, PublishVersion, ArchiveStatus, GiveUp,
              Withdraw, Project, IsIdle
    <3> QED BY <3>3, <3>4
  <2>8. CASE ~ Writing(c, s)
    <3>1. \A d \in Calls : ~ Writing(d, s)
      BY <2>1, <2>8
    <3>2. s \notin torn
      <4>1. CASE UNCHANGED torn
        BY <4>1
      <4>2. CASE LastWrite(c, TRUE) \/ LastWrite(c, FALSE)
        <5>1. CASE z = s
          <6>1. Withdraw(c) \/ Project(c) \/ GiveUp(c) => call[c].at \notin {"project", "withdraw"}
            BY <2>8, <5>1 DEF Writing
          <6> QED BY <1>2, <2>3, <4>1, <5>1, <6>1 DEF Starts, UpdateRead, LinksDelete, DeleteRead,
              PublishRead, Reads, ReadAgain, CheckOnceOnly, CountDocuments, BaselineVersion,
              Writes, UpdateWrite, DeleteWrite, LinksInsert, PublishVersion, ArchiveStatus, GiveUp,
              Withdraw, Project
        <5>2. CASE z # s
          BY <4>2, <5>2 DEF LastWrite
        <5> QED BY <5>1, <5>2
      <4>3. CASE DeleteWrite(c)
        BY <2>3, <4>3 DEF DeleteWrite
      <4> QED BY <1>2, <4>1, <4>2, <4>3 DEF Starts, UpdateRead, LinksDelete, DeleteRead,
              PublishRead, Reads, ReadAgain, CheckOnceOnly, CountDocuments, BaselineVersion,
              Writes, UpdateWrite, LinksInsert, PublishVersion, ArchiveStatus, GiveUp,
              Withdraw, Project
    <3>3. row[s].status = "published" <=> Shown(s)
      BY <2>2, <3>1, <3>2 DEF CatalogueFollows
    <3>4. Shown(s)' <=> Shown(s)
      <4>1. ~ (Withdraw(c) /\ z = s) /\ ~ (Project(c) /\ z = s) /\ k \in Codes
        BY <1>0, <2>8 DEF Withdraw, Project, Writing
      <4>2. CASE gov'[k] = gov[k]
        BY <4>2 DEF Shown
      <4>3. CASE gov[k] # None /\ gov[k].of = z /\ z # s /\ gov'[k].of # s
        BY <4>3 DEF Shown
      <4>4. CASE (gov[k] # None => gov[k].of = z) /\ z # s /\ gov'[k].of = z
        BY <4>4 DEF Shown
      <4> QED BY <1>0, <1>2, <2>3, <4>1, <4>2, <4>3, <4>4, GovStep
    <3> QED BY <2>6, <3>3, <3>4 DEF Follows
  <2> QED BY <2>7, <2>8
<1> QED BY <1>1, <1>2, StepCases

-------------------------------------------------------------------------------
(* The theorems *)

LEMMA InitTypes ==
  ASSUME Init PROVE TypeOK /\ CatalogueFollows /\ OwnersOK /\ call = [c \in Calls |-> Idle]
<1>1. PICK old \in SUBSET Services :
        /\ \A s, z \in old : CodeOf[s] = CodeOf[z] => s = z
        /\ row \in [Services -> Rows \cup {None}]
        /\ \A s \in Services : IF s \in old THEN row[s] \in Rows /\ row[s].status = "published"
                                           ELSE row[s] = None
        /\ gov = [k \in Codes |->
                    IF \E s \in old : CodeOf[s] = k
                    THEN [of |-> CHOOSE s \in old : CodeOf[s] = k, on |-> TRUE]
                    ELSE None]
  BY Zenon DEF Init
<1> DEFINE owner(k) == CHOOSE s \in old : CodeOf[s] = k
<1>2. ASSUME NEW k \in Codes, \E s \in old : CodeOf[s] = k PROVE owner(k) \in old /\ CodeOf[owner(k)] = k
  BY <1>2
<1>3. \A k \in Codes : gov[k] = IF \E s \in old : CodeOf[s] = k THEN [of |-> owner(k), on |-> TRUE] ELSE None
  BY <1>1, Zenon
<1>4. DOMAIN gov = Codes /\ gov = [k \in Codes |-> gov[k]]
  BY <1>1
<1> HIDE DEF owner
<1>5. gov \in [Codes -> CatalogueRows \cup {None}]
  <2>1. \A k \in Codes : gov[k] \in CatalogueRows \cup {None}
    BY <1>1, <1>2, <1>3 DEF CatalogueRows
  <2> QED BY <1>4, <2>1
<1>6. TypeOK
  BY <1>1, <1>5, IdleType DEF Init, TypeOK, RequestOK
<1>7. OwnersOK
  BY <1>1, <1>2, <1>3 DEF OwnersOK, Exists
<1>8. CatalogueFollows
  <2> SUFFICES ASSUME NEW s \in Services, Exists(s) PROVE row[s].status = "published" <=> Shown(s)
    BY DEF CatalogueFollows
  <2>1. s \in old /\ row[s].status = "published" /\ CodeOf[s] \in Codes
    BY <1>1, RegistryAssumption DEF Exists
  <2>2. owner(CodeOf[s]) = s
    BY <1>1, <1>2, <2>1
  <2>3. gov[CodeOf[s]] = [of |-> s, on |-> TRUE]
    BY <1>3, <2>1, <2>2
  <2>4. [of |-> s, on |-> TRUE] \in CatalogueRows
    BY DEF CatalogueRows
  <2>5. [of |-> s, on |-> TRUE] # None
    BY <2>4, RegistryAssumption
  <2> QED BY <2>1, <2>3, <2>5 DEF Shown
<1> QED BY <1>6, <1>7, <1>8 DEF Init

IInv ==
  /\ TypeOK /\ InUse
  /\ BasesOK /\ MeasuredAgainstFirst
  /\ CleanOK /\ DeclaredHonestly
  /\ OwnersOK /\ StatusOK /\ CatalogueFollows

LEMMA Initially == ASSUME Init PROVE IInv
<1>1. TypeOK /\ CatalogueFollows /\ OwnersOK /\ \A c \in Calls : call[c].at = "idle"
  BY InitTypes, IdleType
<1>2. \A s \in Services : versions[s] = <<>>
  BY DEF Init
<1> QED BY <1>1, <1>2 DEF IInv, InUse, BasesOK, MeasuredAgainstFirst, CleanOK, DeclaredHonestly, StatusOK

LEMMA TypeNext ==
  ASSUME TypeOK, BasesOK, MeasuredAgainstFirst, Step, Watch PROVE TypeOK' /\ CallsOK'
<1>1. DataOK' /\ CallsOK'
  BY StepCases, OtherType, StartsType, ReadsType, WritesType
<1> QED BY <1>1, WatchType DEF TypeOK, DataOK, CallsOK, RequestOK

LEMMA Inductive == ASSUME IInv, [Next]_vars PROVE IInv'
<1>1. CASE Next
  <2>1. TypeOK' /\ CallsOK'
    BY <1>1, TypeNext DEF IInv, Next
  <2>2. InUse'
    BY <1>1, <2>1, InUseNext DEF IInv, Next
  <2>3. BasesOK' /\ MeasuredAgainstFirst'
    BY <1>1, BasesNext, MeasuredNext DEF IInv, Next
  <2>4. CleanOK' /\ DeclaredHonestly'
    BY <1>1, CleanNext, HonestNext DEF IInv, Next
  <2>5. OwnersOK' /\ StatusOK' /\ CatalogueFollows'
    BY <1>1, OwnersNext, StatusNext, CatalogueNext DEF IInv, Next
  <2> QED BY <2>1, <2>2, <2>3, <2>4, <2>5 DEF IInv
<1>2. CASE UNCHANGED vars
  BY <1>2 DEF IInv, TypeOK, InUse, BasesOK, MeasuredAgainstFirst, CleanOK, DeclaredHonestly, OwnersOK,
              StatusOK, CatalogueFollows, Shown, Writing, Exists, vars, tables
<1> QED BY <1>1, <1>2

LEMMA Always == Spec => []IInv
BY Initially, Inductive, PTL DEF Spec

\* Every value the registry and its requests hold is of its type.
THEOREM TypeCorrect == Spec => []TypeOK
<1>1. IInv => TypeOK
  BY DEF IInv
<1> QED BY <1>1, Always, PTL

\* However publications of a passport interleave, the deltas of every version are
\* the differences to version 1 (baselineVersion, publish).
THEOREM MeasuredRight == Spec => []MeasuredAgainstFirst
<1>1. IInv => MeasuredAgainstFirst
  BY DEF IInv
<1> QED BY <1>1, Always, PTL

\* The level and the evidence are read one after the other, and still no version
\* declares a high level without a moment at which it was true (checkOnceOnly).
THEOREM Honest == Spec => []DeclaredHonestly
<1>1. IInv => DeclaredHonestly
  BY DEF IInv
<1> QED BY <1>1, Always, PTL

\* The catalogue shows the published passports and no other, but for those whose
\* two writes were cut in two (publish, archiveService, deleteService).
THEOREM CatalogueRight == Spec => []CatalogueFollows
<1>1. IInv => CatalogueFollows
  BY DEF IInv
<1> QED BY <1>1, Always, PTL
===============================================================================
