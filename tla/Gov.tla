--------------------------------- MODULE Gov ---------------------------------
(***************************************************************************)
(* Applications for government services: citizens apply, cancel and        *)
(* provide information, officers claim and decide, and a background sweep  *)
(* marks what is late and grants tacitly what the law says is granted.     *)
(*                                                                         *)
(* A transaction on one application row is one step: its guard is the      *)
(* WHERE clause the row lock re-evaluates, and now() is the moment the     *)
(* transaction starts.  What the code awaits between transactions (decide  *)
(* reads first and writes later, the sweep tells citizens one by one) is   *)
(* split into steps.                                                       *)
(***************************************************************************)
EXTENDS Integers, FiniteSets

CONSTANTS
  Applications,  \* ids of gov_applications rows, one citizen each
  Legacy,        \* ... those that may be older than migration 44
  Officers,      \* decide requests in flight, one officer's click each
  Workers,       \* API instances, each running one SLA sweep at a time
  AutoCases,     \* applications to services with fulfilment "auto"
  Discretion,    \* ... with has_discretion or has_assessment
  Documents,     \* ... whose output is a document (output_ref_type)
  Timed,         \* ... with sla_hours > 0
  Tacit,         \* ... with tacit_approval
  Sla,           \* sla_hours of the timed services, in clock ticks
  Admins,        \* applications whose citizen is an administrator
  RlsEnforced,   \* the connection's role obeys row-level security (production)
  MaxTime,       \* bound: clock ticks
  MaxFaults      \* bound: failed statements and crashes

ASSUME GovAssumption ==
  /\ \A S \in {Legacy, AutoCases, Discretion, Documents, Timed, Tacit, Admins} :
       S \subseteq Applications
  /\ Sla \in Nat \ {0} /\ MaxTime \in Nat /\ MaxFaults \in Nat
  /\ RlsEnforced \in BOOLEAN

VARIABLES
  status,     \* gov_applications.status ("none": no such row)
  result,     \* gov_applications.result ("": not decided)
  assignee,   \* assigned_to is set
  due,        \* due_at, or NoTime
  suspended,  \* suspended_at, or NoTime
  breached,   \* applications with sla_breached set
  tacit,      \* applications with tacit set
  outputs,    \* gov_references rows issued for the application
  now,        \* the clock
  spent,      \* history: ticks the application has waited for the agency
  applied,    \* history: applications a citizen has sent
  told,       \* history: notices of the sweep delivered to the citizen
  deciding,   \* decisions taken and not written yet
  sweep,      \* what each SLA sweep is doing
  faults      \* faults so far

clock == <<now, spent>>
row == <<status, result, assignee, due, suspended, breached, tacit, outputs>>
vars == <<row, clock, applied, told, deciding, sweep, faults>>

NoTime == -1
NoOfficer == "nobody"

Lifecycle == INSTANCE GovLifecycle

\* Mutants of the status sets: assign takes a case that awaits delivery, decide one that is settled.
ClaimableUndelivered == {"submitted", "registered", "in_review", "approved"}
DecidableDelivered == {"registered", "in_review", "info_required", "approved"}
DecidableCompleted == {"registered", "in_review", "info_required", "completed"}

\* The status sets of the repository's WHERE clauses.
Claimable == {"submitted", "registered", "in_review"}       \* assign, and the sweep's marking
Decidable == {"registered", "in_review", "info_required"}   \* decide
WithAgency == {"registered", "in_review"}                   \* request info, tacit approval
Cancellable == {"submitted", "in_review"}                   \* cancel

Results == {"", "granted", "refused", "processed"}
Decisions == [by : Officers, app : Applications,
              target : {"approved", "completed", "rejected"}, result : Results \ {""}]

Sweeps == [pc : {"idle", "breach", "tacit"}, todo : SUBSET Applications]
NoSweep == [pc |-> "idle", todo |-> {}]

\* A statement that may fail: it takes effect or a fault is used up.
Outcome(ok) == IF ok THEN UNCHANGED faults
                     ELSE faults < MaxFaults /\ faults' = faults + 1

\* The citizen's transaction may insert timeline rows: the policy for role "user" is WITH CHECK (false).
MayRecord(a) == ~RlsEnforced \/ a \in Admins

\* What a row of migration 20 may say; migration 44 leaves its status as it is.
LegacyStatuses == {"submitted", "in_review", "approved", "rejected", "completed", "cancelled"}

Init ==
  /\ \E old \in [Legacy -> LegacyStatuses \cup {"none"}] :
       /\ status = [a \in Applications |-> IF a \in Legacy THEN old[a] ELSE "none"]
       /\ applied = {a \in Legacy : old[a] # "none"}
  /\ result = [a \in Applications |-> ""]
  /\ assignee = [a \in Applications |-> NoOfficer]
  /\ due = [a \in Applications |-> NoTime]
  /\ suspended = [a \in Applications |-> NoTime]
  /\ breached = {}
  /\ tacit = {}
  /\ outputs = [a \in Applications |-> 0]
  /\ now = 0
  /\ spent = [a \in Applications |-> 0]
  /\ told = [a \in Applications |-> [breach |-> 0, tacit |-> 0]]
  /\ deciding = {}
  /\ sweep = [w \in Workers |-> NoSweep]
  /\ faults = 0

----------------------------------------------------------------------------
\* The citizen

\* createApplicationWithOutput: the row, the reference, the notice and the timeline in one transaction.
ApplyAuto(a) ==
  /\ a \notin applied
  /\ a \in AutoCases \ Discretion
  /\ MayRecord(a)
  /\ applied' = applied \cup {a}
  /\ status' = [status EXCEPT ![a] = "completed"]
  /\ result' = [result EXCEPT ![a] = "processed"]
  /\ outputs' = [outputs EXCEPT ![a] = IF a \in Documents THEN 1 ELSE 0]
  /\ UNCHANGED <<assignee, due, suspended, breached, tacit, clock, told, deciding,
                 sweep, faults>>

\* createApplication: due_at is stamped once, here.  A flagged auto service comes here too.
ApplyManual(a) ==
  /\ a \notin applied
  /\ a \notin AutoCases \ Discretion
  /\ MayRecord(a)
  /\ applied' = applied \cup {a}
  /\ status' = [status EXCEPT ![a] = "registered"]
  /\ due' = [due EXCEPT ![a] = IF a \in Timed THEN now + Sla ELSE NoTime]
  /\ UNCHANGED <<result, assignee, suspended, breached, tacit, outputs, clock, told,
                 deciding, sweep, faults>>

\* The transaction is rolled back: a statement failed, or the timeline row was refused by its policy.
ApplyRolledBack(a) ==
  /\ a \notin applied
  /\ Outcome(~MayRecord(a))
  /\ applied' = applied \cup {a}
  /\ UNCHANGED <<row, clock, told, deciding, sweep>>

\* setApplicationStatus writes the status and nothing else; from any other status it answers
\* 404 and changes nothing.
Cancel(a) ==
  /\ status[a] \in Cancellable
  /\ status' = [status EXCEPT ![a] = "cancelled"]
  /\ UNCHANGED <<result, assignee, due, suspended, breached, tacit, outputs, clock,
                 applied, told, deciding, sweep, faults>>

\* The deadline after a pause: later by the time spent waiting for the citizen.
ResumedUnmoved(a) == due[a]   \* mutant: the pause counts against the agency
Resumed(a) ==
  IF due[a] # NoTime /\ suspended[a] # NoTime THEN due[a] + (now - suspended[a]) ELSE due[a]

\* The clock runs again.  Mutant: the moment it was stopped is kept.
AfterPauseKept(a) == suspended[a]
AfterPause(a) == NoTime

\* provideInfo: the case is back with the agency.
\* (The citizen's note goes to the timeline afterwards, best effort.)
ProvideInfo(a) ==
  /\ status[a] = "info_required"
  /\ status' = [status EXCEPT ![a] = "in_review"]
  /\ due' = [due EXCEPT ![a] = Resumed(a)]
  /\ suspended' = [suspended EXCEPT ![a] = AfterPause(a)]
  /\ UNCHANGED <<result, assignee, breached, tacit, outputs, clock, applied, told,
                 deciding, sweep, faults>>

----------------------------------------------------------------------------
\* The officers

\* assignApplication: free, or already this officer's.
Assign(o, a) ==
  /\ status[a] \in Claimable
  /\ assignee[a] \in {NoOfficer, o}
  /\ assignee' = [assignee EXCEPT ![a] = o]
  /\ status' = [status EXCEPT ![a] = "in_review"]
  /\ UNCHANGED <<result, due, suspended, breached, tacit, outputs, clock, applied, told, deciding, sweep, faults>>

\* requestMoreInfo stops the clock.
RequestInfo(a) ==
  /\ status[a] \in WithAgency
  /\ status' = [status EXCEPT ![a] = "info_required"]
  /\ suspended' = [suspended EXCEPT ![a] = now]
  /\ UNCHANGED <<result, assignee, due, breached, tacit, outputs, clock, applied, told, deciding, sweep, faults>>

\* Mutant: a refusal is written as a cancellation.
TargetCancelled(a, approve, serviceRead) ==
  IF ~approve THEN "cancelled"
  ELSE IF serviceRead /\ a \in Documents THEN "completed" ELSE "approved"

\* An approval completes the case when the service, if it could be read, issues a document.
Target(a, approve, serviceRead) ==
  IF ~approve THEN "rejected"
  ELSE IF serviceRead /\ a \in Documents THEN "completed" ELSE "approved"

\* decide up to the transition check: the application and its service are read here,
\* and any error of the service's read is swallowed.
DecideRead(o, a, approve, res, serviceRead) ==
  LET target == Target(a, approve, serviceRead) IN
  /\ \A d \in deciding : d.by # o
  /\ approve \/ (res = "refused" /\ serviceRead)
  /\ Lifecycle!CanTransition(status[a], target)
  /\ status[a] # "none"
  /\ Outcome(serviceRead)
  /\ deciding' = deciding \cup {[by |-> o, app |-> a, target |-> target, result |-> res]}
  /\ UNCHANGED <<row, clock, applied, told, sweep>>

\* decideApplication: the status is checked again under the row lock; the decision, the
\* reference, the notice and the timeline are one transaction.
DecideWrite(d) ==
  /\ d \in deciding
  /\ status[d.app] \in Decidable
  /\ deciding' = deciding \ {d}
  /\ status' = [status EXCEPT ![d.app] = d.target]
  /\ result' = [result EXCEPT ![d.app] = d.result]
  /\ outputs' = [outputs EXCEPT ![d.app] = IF d.target = "completed" THEN outputs[d.app] + 1
                                                                     ELSE outputs[d.app]]
  /\ UNCHANGED <<assignee, due, suspended, breached, tacit, clock, applied, told,
                 sweep, faults>>

\* The case was settled meanwhile (409), or the transaction failed and was rolled back.
DecideRefused(d) ==
  /\ d \in deciding
  /\ Outcome(status[d.app] \notin Decidable)
  /\ deciding' = deciding \ {d}
  /\ UNCHANGED <<row, clock, applied, told, sweep>>

\* completeApplication: the physical output has been delivered.
Complete(a) ==
  /\ status[a] = "approved"
  /\ status' = [status EXCEPT ![a] = "completed"]
  /\ UNCHANGED <<result, assignee, due, suspended, breached, tacit, outputs, clock, applied,
                 told, deciding, sweep, faults>>

----------------------------------------------------------------------------
\* The sweep

RunningLate(a) == suspended[a] = NoTime /\ due[a] # NoTime /\ due[a] < now

\* Mutant: the latch is not looked at.
LateAgain == {a \in Applications : status[a] \in Claimable /\ RunningLate(a)}

\* markSLABreached: one statement latches every late application; its rows are told next.
Late == {a \in Applications \ breached : status[a] \in Claimable /\ RunningLate(a)}

SweepMark(w, ok) ==
  LET marked == IF ok THEN Late ELSE {} IN
  /\ sweep[w].pc = "idle"
  /\ Outcome(ok)
  /\ breached' = breached \cup marked
  /\ sweep' = [sweep EXCEPT ![w] = [pc |-> "breach", todo |-> marked]]
  /\ UNCHANGED <<status, result, assignee, due, suspended, tacit, outputs, clock,
                 applied, told, deciding>>

\* notify, best effort (as is the timeline row that follows it).
SweepTellBreach(w, a, ok) ==
  /\ sweep[w].pc = "breach"
  /\ a \in sweep[w].todo
  /\ Outcome(ok)
  /\ told' = [told EXCEPT ![a].breach = IF ok THEN @ + 1 ELSE @]
  /\ sweep' = [sweep EXCEPT ![w].todo = @ \ {a}]
  /\ UNCHANGED <<row, clock, applied, deciding>>

\* Mutant: claiming a case stops its tacit grant.
GrantableUnclaimed == {a \in Tacit : status[a] = "registered" /\ RunningLate(a)}

\* tacitApprovals: one statement grants every late application of a tacit service.
Grantable == {a \in Tacit : status[a] \in WithAgency /\ RunningLate(a)}

SweepGrant(w, ok) ==
  LET granted == IF ok THEN Grantable ELSE {} IN
  /\ sweep[w].pc = "breach"
  /\ sweep[w].todo = {}
  /\ Outcome(ok)
  /\ status' = [a \in Applications |-> IF a \in granted THEN "completed" ELSE status[a]]
  /\ result' = [a \in Applications |-> IF a \in granted THEN "granted" ELSE result[a]]
  /\ tacit' = tacit \cup granted
  /\ sweep' = [sweep EXCEPT ![w] = [pc |-> "tacit", todo |-> granted]]
  /\ UNCHANGED <<assignee, due, suspended, breached, outputs, clock, applied, told, deciding>>

\* The citizen is told of the tacit grant, best effort.
SweepTellTacit(w, a, ok) ==
  /\ sweep[w].pc = "tacit"
  /\ a \in sweep[w].todo
  /\ Outcome(ok)
  /\ told' = [told EXCEPT ![a].tacit = IF ok THEN @ + 1 ELSE @]
  /\ sweep' = [sweep EXCEPT ![w].todo = @ \ {a}]
  /\ UNCHANGED <<status, result, assignee, due, suspended, breached, tacit, outputs, clock,
                 applied, deciding>>

SweepEnd(w) ==
  /\ sweep[w].pc = "tacit"
  /\ sweep[w].todo = {}
  /\ sweep' = [sweep EXCEPT ![w] = NoSweep]
  /\ UNCHANGED <<row, clock, applied, told, deciding, faults>>

\* The instance stops in the middle; what it still had to tell is nowhere but in its memory.
SweepCrash(w) ==
  /\ sweep[w].pc # "idle"
  /\ Outcome(FALSE)
  /\ sweep' = [sweep EXCEPT ![w] = NoSweep]
  /\ UNCHANGED <<row, clock, applied, told, deciding>>

Tick ==
  /\ now < MaxTime
  /\ now' = now + 1
  /\ spent' = [a \in Applications |-> IF status[a] \in WithAgency THEN spent[a] + 1 ELSE spent[a]]
  /\ UNCHANGED <<row, applied, told, deciding, sweep, faults>>

----------------------------------------------------------------------------
CitizenStep(a) ==
  \/ ApplyAuto(a) \/ ApplyManual(a) \/ ApplyRolledBack(a)
  \/ Cancel(a)
  \/ ProvideInfo(a)

OfficerStep(a) ==
  \/ \E o \in Officers : Assign(o, a)
  \/ RequestInfo(a)
  \/ Complete(a)
  \/ \E o \in Officers, approve, serviceRead \in BOOLEAN, res \in {"granted", "refused"} :
       DecideRead(o, a, approve, res, serviceRead)

DecisionStep == \E d \in deciding : DecideWrite(d) \/ DecideRefused(d)

SweepStep(w) ==
  \/ \E ok \in BOOLEAN : SweepMark(w, ok) \/ SweepGrant(w, ok)
  \/ \E a \in Applications, ok \in BOOLEAN : SweepTellBreach(w, a, ok) \/ SweepTellTacit(w, a, ok)
  \/ SweepEnd(w)

Next ==
  \/ \E a \in Applications : CitizenStep(a) \/ OfficerStep(a)
  \/ DecisionStep
  \/ \E w \in Workers : SweepStep(w) \/ SweepCrash(w)
  \/ Tick

Spec == Init /\ [][Next]_vars

\* The worker re-arms its timer whatever a step did, so a sweep always runs on and comes again.
Fairness == \A w \in Workers : WF_vars(SweepStep(w))

FairSpec == Spec /\ Fairness

----------------------------------------------------------------------------
\* Properties

TypeOK ==
  /\ status \in [Applications -> Lifecycle!Statuses]
  /\ result \in [Applications -> Results]
  /\ assignee \in [Applications -> Officers \cup {NoOfficer}]
  /\ due \in [Applications -> Int] /\ suspended \in [Applications -> Int]
  /\ breached \subseteq Applications /\ tacit \subseteq Applications
  /\ outputs \in [Applications -> Nat]
  /\ now \in Nat /\ spent \in [Applications -> Nat]
  /\ applied \subseteq Applications
  /\ told \in [Applications -> [breach : Nat, tacit : Nat]]
  /\ deciding \subseteq Decisions
  /\ sweep \in [Workers -> Sweeps]
  /\ faults \in Nat

\* assignApplication takes up a row that says "submitted", which the table does not allow.
ClaimsSubmitted(a) ==
  status[a] = "submitted" /\ status' = [status EXCEPT ![a] = "in_review"]

(***************************************************************************)
(* Whatever the officers, citizens and sweeps interleave, every change of  *)
(* a status is one the table of domain/gov.ts allows, with one exception:  *)
(* an officer may claim a row that is still "submitted".  The other SQL    *)
(* guards never let a write out of the table, however stale the read it    *)
(* was decided on.                                                         *)
(***************************************************************************)
FollowsLifecycle ==
  Lifecycle!LInit
    /\ [][Lifecycle!LNext \/ \E a \in Applications : ClaimsSubmitted(a)]_status

(***************************************************************************)
(* SERVICE_WORKFLOW.md 5: a slow citizen never registers as an agency      *)
(* breach.  What the sweep marked late or granted tacitly had waited for   *)
(* the agency alone longer than the SLA, however often information was     *)
(* requested and provided in between.                                      *)
(***************************************************************************)
BreachIsAgencyTime == \A a \in breached \cup tacit : spent[a] > Sla

(***************************************************************************)
(* The result of a case is written once: of two officers, or an officer    *)
(* and the sweep, deciding from what they read earlier, the second gets    *)
(* a conflict.                                                             *)
(***************************************************************************)
DecidedOnce == [][\A a \in Applications : result[a] # "" => result'[a] = result[a]]_vars

(***************************************************************************)
(* A reference is issued at most once, and only with the completion of the *)
(* case: gov_references never holds the document of a case that was        *)
(* cancelled or rejected.  And if nothing failed, a document case that     *)
(* somebody decided is not completed without it.  (A failed read of the    *)
(* service and the grant by silence do complete one without a document,    *)
(* against SERVICE_WORKFLOW.md 4; the formula does not say they should.)   *)
(***************************************************************************)
OneOutput ==
  \A a \in Applications :
    /\ outputs[a] # 0 => outputs[a] = 1 /\ status[a] = "completed"
    /\ (a \in Documents \ tacit /\ status[a] = "completed" /\ result[a] # "" /\ faults = 0)
         => outputs[a] = 1

(***************************************************************************)
(* The sla_breached latch and the statuses tacitApprovals selects on make  *)
(* each notice go out at most once, however many instances sweep.          *)
(***************************************************************************)
ToldAtMostOnce ==
  \A a \in Applications : told[a].breach <= 1 /\ told[a].tacit <= 1

\* The agency has the case past its deadline, whatever suspended_at says.
Overdue(a) == status[a] \in WithAgency /\ due[a] # NoTime /\ due[a] < now

(***************************************************************************)
(* A case left with the agency past its deadline is latched as breached,   *)
(* unless it moves on first, whatever failed or crashed on the way and     *)
(* however often it was paused before: the pause must not hide it from     *)
(* the sweep, which skips rows with a suspended_at.                        *)
(***************************************************************************)
LateIsMarked ==
  \A a \in Applications : Overdue(a) ~> (a \in breached \/ status[a] \notin WithAgency)

(***************************************************************************)
(* A case of a tacit service past its deadline does not stay with the      *)
(* agency: it is granted by silence, decided, cancelled or suspended.      *)
(***************************************************************************)
SilenceGrants ==
  \A a \in Tacit : Overdue(a) ~> status[a] \notin WithAgency
==============================================================================
