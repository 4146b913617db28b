------------------------------ MODULE GovProofs ------------------------------
(***************************************************************************)
(* Theorems about Gov, for any applications, services, officers, instances *)
(* and bounds.                                                             *)
(***************************************************************************)
EXTENDS Gov, TLAPS

----------------------------------------------------------------------------
\* Types

LEMMA OutcomeType ==
  ASSUME faults \in Nat, NEW ok \in BOOLEAN, Outcome(ok)
  PROVE  faults' \in Nat
  BY DEF Outcome

LEMMA StatusSets ==
  /\ {"registered", "completed", "cancelled", "in_review", "info_required", "approved",
      "rejected"} \subseteq Lifecycle!Statuses
  /\ Claimable \subseteq Lifecycle!Statuses
  /\ LegacyStatuses \cup {"none"} \subseteq Lifecycle!Statuses
  BY DEF Lifecycle!Statuses, Claimable, LegacyStatuses

LEMMA CitizenType ==
  ASSUME TypeOK, NEW a \in Applications, CitizenStep(a)
  PROVE  TypeOK'
  <1> USE DEF TypeOK
  <1>1. CASE ApplyAuto(a)
    BY <1>1, StatusSets DEF ApplyAuto, Results, clock
  <1>2. CASE ApplyManual(a)
    BY <1>2, StatusSets, GovAssumption DEF ApplyManual, clock, NoTime
  <1>3. CASE ApplyRolledBack(a)
    BY <1>3, OutcomeType DEF ApplyRolledBack, row, clock, MayRecord
  <1>4. CASE Cancel(a)
    BY <1>4, StatusSets DEF Cancel, clock
  <1>5. CASE ProvideInfo(a)
    BY <1>5, StatusSets DEF ProvideInfo, Resumed, AfterPause, clock, NoTime
  <1> QED
    BY <1>1, <1>2, <1>3, <1>4, <1>5 DEF CitizenStep

LEMMA OfficerType ==
  ASSUME TypeOK, NEW a \in Applications, OfficerStep(a)
  PROVE  TypeOK'
  <1> USE DEF TypeOK
  <1>1. ASSUME NEW o \in Officers, Assign(o, a) PROVE TypeOK'
    BY <1>1, StatusSets DEF Assign, clock
  <1>2. CASE RequestInfo(a)
    BY <1>2, StatusSets DEF RequestInfo, clock
  <1>3. CASE Complete(a)
    BY <1>3, StatusSets DEF Complete, clock
  <1>4. ASSUME NEW o \in Officers, NEW approve \in BOOLEAN, NEW serviceRead \in BOOLEAN,
               NEW res \in {"granted", "refused"}, DecideRead(o, a, approve, res, serviceRead)
        PROVE  TypeOK'
    <2>1. [by |-> o, app |-> a, target |-> Target(a, approve, serviceRead), result |-> res]
            \in Decisions
      BY DEF Decisions, Target, Results
    <2>2. deciding' \subseteq Decisions
      BY <1>4, <2>1 DEF DecideRead
    <2> QED
      BY <1>4, <2>2, OutcomeType DEF DecideRead, row, clock
  <1> QED
    BY <1>1, <1>2, <1>3, <1>4 DEF OfficerStep

LEMMA DecisionType ==
  ASSUME TypeOK, NEW d \in deciding, DecideWrite(d) \/ DecideRefused(d)
  PROVE  TypeOK'
  <1> USE DEF TypeOK
  <1>0. d.app \in Applications /\ d.target \in {"approved", "completed", "rejected"}
        /\ d.result \in Results
    BY DEF Decisions
  <1>1. CASE DecideWrite(d)
    BY <1>0, <1>1, StatusSets DEF DecideWrite, clock
  <1>2. CASE DecideRefused(d)
    BY <1>2, OutcomeType DEF DecideRefused, row, clock, Decidable
  <1> QED
    BY <1>1, <1>2

LEMMA SweepType ==
  ASSUME TypeOK, NEW w \in Workers, SweepStep(w) \/ SweepCrash(w)
  PROVE  TypeOK'
  <1> USE DEF TypeOK
  <1>1. ASSUME NEW ok \in BOOLEAN, SweepMark(w, ok) PROVE TypeOK'
    <2>1. (IF ok THEN Late ELSE {}) \subseteq Applications
      BY DEF Late
    <2> QED
      BY <1>1, <2>1, OutcomeType DEF SweepMark, Sweeps, clock
  <1>2. ASSUME NEW ok \in BOOLEAN, SweepGrant(w, ok) PROVE TypeOK'
    <2>1. (IF ok THEN Grantable ELSE {}) \subseteq Applications
      BY GovAssumption DEF Grantable
    <2> QED
      BY <1>2, <2>1, StatusSets, OutcomeType DEF SweepGrant, Sweeps, Results, clock
  <1>3. ASSUME NEW ok \in BOOLEAN, NEW a \in Applications, SweepTellBreach(w, a, ok) PROVE TypeOK'
    <2>1. told' \in [Applications -> [breach : Nat, tacit : Nat]]
      BY <1>3 DEF SweepTellBreach
    <2>2. sweep' \in [Workers -> Sweeps]
      BY <1>3 DEF SweepTellBreach, Sweeps
    <2> QED
      BY <1>3, <2>1, <2>2, OutcomeType DEF SweepTellBreach, row, clock
  <1>4. ASSUME NEW ok \in BOOLEAN, NEW a \in Applications, SweepTellTacit(w, a, ok) PROVE TypeOK'
    <2>1. told' \in [Applications -> [breach : Nat, tacit : Nat]]
      BY <1>4 DEF SweepTellTacit
    <2>2. sweep' \in [Workers -> Sweeps]
      BY <1>4 DEF SweepTellTacit, Sweeps
    <2> QED
      BY <1>4, <2>1, <2>2, OutcomeType DEF SweepTellTacit, row, clock
  <1>5. CASE SweepEnd(w)
    BY <1>5 DEF SweepEnd, Sweeps, NoSweep, row, clock
  <1>6. CASE SweepCrash(w)
    BY <1>6, OutcomeType DEF SweepCrash, Sweeps, NoSweep, row, clock
  <1> QED
    BY <1>1, <1>2, <1>3, <1>4, <1>5, <1>6 DEF SweepStep

LEMMA TickType == TypeOK /\ Tick => TypeOK'
  BY DEF TypeOK, Tick, row

LEMMA InitType == Init => TypeOK
  <1> SUFFICES ASSUME Init PROVE TypeOK
    OBVIOUS
  <1>1. status \in [Applications -> Lifecycle!Statuses] /\ result \in [Applications -> Results]
    <2>1. PICK old \in [Legacy -> LegacyStatuses \cup {"none"}] :
            status = [a \in Applications |-> IF a \in Legacy THEN old[a] ELSE "none"]
      BY DEF Init
    <2>2. \A a \in Applications : (IF a \in Legacy THEN old[a] ELSE "none") \in Lifecycle!Statuses
      BY StatusSets
    <2>3. status \in [Applications -> Lifecycle!Statuses]
      BY <2>1, <2>2
    <2> QED
      BY <2>3 DEF Init, Results
  <1>2. sweep \in [Workers -> Sweeps]
    BY DEF Init, Sweeps, NoSweep
  <1>3. told \in [Applications -> [breach : Nat, tacit : Nat]]
    BY DEF Init
  <1>4. NoTime \in Int
    BY DEF NoTime
  <1>5. outputs \in [Applications -> Nat] /\ spent \in [Applications -> Nat] /\ now \in Nat
        /\ faults \in Nat
    BY DEF Init
  <1>6. assignee \in [Applications -> Officers \cup {NoOfficer}]
    BY DEF Init
  <1>7. applied \subseteq Applications
    BY GovAssumption DEF Init
  <1> QED
    BY <1>1, <1>2, <1>3, <1>4, <1>5, <1>6, <1>7 DEF Init, TypeOK

LEMMA NextType == TypeOK /\ [Next]_vars => TypeOK'
  <1> SUFFICES ASSUME TypeOK, [Next]_vars PROVE TypeOK'
    OBVIOUS
  <1>1. CASE UNCHANGED vars
    BY <1>1 DEF TypeOK, vars, row, clock
  <1> QED
    BY <1>1, CitizenType, OfficerType, DecisionType, SweepType, TickType DEF Next, DecisionStep

(***************************************************************************)
(* Every column of gov_applications and every local of decide and of the   *)
(* sweep keeps its type.                                                   *)
(***************************************************************************)
THEOREM TypeCorrect == Spec => []TypeOK
  BY InitType, NextType, PTL DEF Spec

----------------------------------------------------------------------------
\* The clock and the case

(***************************************************************************)
(* The SLA clock.  While the agency has the case, the deadline and the     *)
(* time spent add up to now plus the SLA; while it waits for the citizen,  *)
(* to the moment it was suspended plus the SLA.  A late case has therefore *)
(* been with the agency longer than the SLA.                               *)
(***************************************************************************)
ClockOf(a) ==
  /\ status[a] \in WithAgency =>
       suspended[a] = NoTime /\ (due[a] # NoTime => due[a] + spent[a] = now + Sla)
  /\ status[a] = "info_required" =>
       suspended[a] # NoTime /\ (due[a] # NoTime => due[a] + spent[a] = suspended[a] + Sla)
  /\ a \in breached \cup tacit => spent[a] > Sla

\* A case nobody has sent, or that nobody has taken up since migration 44, has no history;
\* one that is undecided has no result and no output.
CaseOf(a) ==
  /\ a \notin applied => status[a] = "none"
  /\ status[a] \in {"none", "submitted"} =>
       spent[a] = 0 /\ suspended[a] = NoTime /\ due[a] = NoTime
  /\ status[a] \in Decidable \cup {"none", "submitted"} => result[a] = "" /\ a \notin tacit
  /\ status[a] # "completed" => outputs[a] = 0 /\ a \notin tacit
  /\ outputs[a] # 0 => outputs[a] = 1

Inv == TypeOK /\ \A a \in Applications : ClockOf(a) /\ CaseOf(a)

\* A step that does not touch the application, nor the clock.
Same(a) ==
  /\ status'[a] = status[a] /\ result'[a] = result[a] /\ outputs'[a] = outputs[a]
  /\ due'[a] = due[a] /\ suspended'[a] = suspended[a] /\ spent'[a] = spent[a]
  /\ now' = now
  /\ (a \in breached') = (a \in breached) /\ (a \in tacit') = (a \in tacit)
  /\ a \in applied => a \in applied'

LEMMA SameKeeps ==
  ASSUME NEW a \in Applications, ClockOf(a), CaseOf(a), Same(a)
  PROVE  ClockOf(a)' /\ CaseOf(a)'
  BY DEF ClockOf, CaseOf, Same

LEMMA LateSpent ==
  ASSUME Inv, NEW a \in Applications, status[a] \in Claimable, RunningLate(a)
  PROVE  spent[a] > Sla /\ status[a] \in WithAgency
  <1>1. status[a] \in WithAgency
    BY DEF Inv, CaseOf, Claimable, WithAgency, RunningLate
  <1>2. due[a] + spent[a] = now + Sla /\ due[a] < now
    BY <1>1 DEF Inv, ClockOf, RunningLate
  <1> QED
    BY <1>1, <1>2, GovAssumption DEF Inv, TypeOK

LEMMA CitizenCase ==
  ASSUME Inv, TypeOK', NEW a \in Applications, CitizenStep(a), NEW b \in Applications
  PROVE  ClockOf(b)' /\ CaseOf(b)'
  <1>0. ClockOf(b) /\ CaseOf(b) /\ ClockOf(a) /\ CaseOf(a)
    BY DEF Inv
  <1>1. CASE ApplyAuto(a)
    <2>1. CASE b # a
      BY <1>0, <1>1, <2>1, SameKeeps DEF Same, ApplyAuto, clock, Inv, TypeOK
    <2>2. CASE b = a
      <3>1. /\ status'[a] = "completed" /\ outputs'[a] \in {0, 1}
            /\ tacit' = tacit /\ breached' = breached /\ spent' = spent /\ a \in applied'
        BY <1>0, <1>1 DEF ApplyAuto, CaseOf, Inv, TypeOK, clock
      <3>2. ClockOf(a)'
        BY <1>0, <3>1 DEF ClockOf, WithAgency
      <3>3. CaseOf(a)'
        BY <3>1 DEF CaseOf, Decidable
      <3> QED
        BY <2>2, <3>2, <3>3
    <2> QED
      BY <2>1, <2>2
  <1>2. CASE ApplyManual(a)
    <2>1. CASE b # a
      BY <1>0, <1>2, <2>1, SameKeeps DEF Same, ApplyManual, clock, Inv, TypeOK
    <2>2. CASE b = a
      <3>1. status[a] = "none" /\ spent[a] = 0 /\ suspended[a] = NoTime /\ result[a] = ""
            /\ a \notin tacit /\ outputs[a] = 0
        BY <1>0, <1>2 DEF ApplyManual, CaseOf
      <3>2. /\ status'[a] = "registered" /\ (due'[a] = now + Sla \/ due'[a] = NoTime) /\ a \in applied'
            /\ result' = result /\ suspended' = suspended /\ breached' = breached /\ tacit' = tacit
            /\ outputs' = outputs /\ now' = now /\ spent' = spent
        BY <1>2 DEF ApplyManual, clock, Inv, TypeOK
      <3>3. now \in Nat /\ Sla \in Nat
        BY GovAssumption DEF Inv, TypeOK
      <3>4. ClockOf(a)'
        <4>0. spent'[a] = 0
          BY <3>1, <3>2
        <4>1. due'[a] # NoTime => due'[a] + spent'[a] = now' + Sla
          BY <3>2, <3>3, <4>0
        <4> QED
          BY <1>0, <3>1, <3>2, <4>1 DEF ClockOf, WithAgency
      <3>5. CaseOf(a)'
        <4>1. status'[a] = "registered" /\ a \in applied'
          BY <3>2
        <4>2. result'[a] = "" /\ a \notin tacit'
          BY <3>1, <3>2
        <4>3. outputs'[a] = 0
          BY <3>1, <3>2
        <4> QED
          BY <4>1, <4>2, <4>3 DEF CaseOf, Decidable
      <3> QED
        BY <2>2, <3>4, <3>5
    <2> QED
      BY <2>1, <2>2
  <1>3. CASE ApplyRolledBack(a)
    BY <1>0, <1>3, SameKeeps DEF Same, ApplyRolledBack, row, clock
  <1>4. CASE Cancel(a)
    <2>1. CASE b # a
      BY <1>0, <1>4, <2>1, SameKeeps DEF Same, Cancel, clock, Inv, TypeOK
    <2>2. CASE b = a
      <3>1. status[a] \in {"submitted", "in_review"} /\ status'[a] = "cancelled"
            /\ UNCHANGED <<result, suspended, breached, tacit, outputs, now, spent, applied>>
        BY <1>0, <1>4 DEF Cancel, Cancellable, clock, Inv, TypeOK
      <3> QED
        BY <1>0, <2>2, <3>1 DEF ClockOf, CaseOf, WithAgency, Decidable
    <2> QED
      BY <2>1, <2>2
  <1>5. CASE ProvideInfo(a)
    <2>1. CASE b # a
      BY <1>0, <1>5, <2>1, SameKeeps DEF Same, ProvideInfo, clock, Inv, TypeOK
    <2>2. CASE b = a
      <3>1. /\ status[a] = "info_required" /\ status'[a] = "in_review"
            /\ suspended'[a] = NoTime /\ due'[a] = Resumed(a)
            /\ UNCHANGED <<result, breached, tacit, outputs, now, spent, applied>>
        BY <1>5 DEF ProvideInfo, AfterPause, clock, Inv, TypeOK
      <3>2. due[a] # NoTime => due[a] + spent[a] = suspended[a] + Sla /\ suspended[a] # NoTime
        BY <1>0, <3>1 DEF ClockOf
      <3>3. due[a] \in Int /\ suspended[a] \in Int /\ spent[a] \in Nat /\ now \in Nat /\ Sla \in Nat
        BY GovAssumption DEF Inv, TypeOK
      <3>4. due'[a] # NoTime => due'[a] + spent'[a] = now' + Sla
        BY <3>1, <3>2, <3>3 DEF Resumed
      <3> QED
        BY <1>0, <2>2, <3>1, <3>4 DEF ClockOf, CaseOf, WithAgency, Decidable
    <2> QED
      BY <2>1, <2>2
  <1> QED
    BY <1>1, <1>2, <1>3, <1>4, <1>5 DEF CitizenStep

LEMMA OfficerCase ==
  ASSUME Inv, TypeOK', NEW a \in Applications, OfficerStep(a), NEW b \in Applications
  PROVE  ClockOf(b)' /\ CaseOf(b)'
  <1>0. ClockOf(b) /\ CaseOf(b) /\ ClockOf(a) /\ CaseOf(a)
    BY DEF Inv
  <1>1. ASSUME NEW o \in Officers, Assign(o, a) PROVE ClockOf(b)' /\ CaseOf(b)'
    <2>1. CASE b # a
      BY <1>0, <1>1, <2>1, SameKeeps DEF Same, Assign, clock, Inv, TypeOK
    <2>2. CASE b = a
      <3>1. /\ status[a] \in WithAgency \cup {"submitted"} /\ status'[a] = "in_review"
            /\ UNCHANGED <<result, due, suspended, breached, tacit, outputs, now, spent, applied>>
        BY <1>0, <1>1 DEF Assign, Claimable, WithAgency, clock, Inv, TypeOK
      <3> QED
        BY <1>0, <2>2, <3>1 DEF ClockOf, CaseOf, WithAgency, Decidable
    <2> QED
      BY <2>1, <2>2
  <1>2. CASE RequestInfo(a)
    <2>1. CASE b # a
      BY <1>0, <1>2, <2>1, SameKeeps DEF Same, RequestInfo, clock, Inv, TypeOK
    <2>2. CASE b = a
      <3>1. /\ status[a] \in WithAgency /\ status'[a] = "info_required" /\ suspended'[a] = now
            /\ UNCHANGED <<result, due, breached, tacit, outputs, now, spent, applied>>
        BY <1>2 DEF RequestInfo, clock, Inv, TypeOK
      <3>2. now # NoTime
        BY DEF Inv, TypeOK, NoTime
      <3> QED
        BY <1>0, <2>2, <3>1, <3>2 DEF ClockOf, CaseOf, WithAgency, Decidable
    <2> QED
      BY <2>1, <2>2
  <1>3. CASE Complete(a)
    <2>1. CASE b # a
      BY <1>0, <1>3, <2>1, SameKeeps DEF Same, Complete, clock, Inv, TypeOK
    <2>2. CASE b = a
      <3>1. /\ status[a] = "approved" /\ status'[a] = "completed"
            /\ UNCHANGED <<result, due, suspended, breached, tacit, outputs, now, spent, applied>>
        BY <1>3 DEF Complete, clock, Inv, TypeOK
      <3> QED
        BY <1>0, <2>2, <3>1 DEF ClockOf, CaseOf, WithAgency, Decidable
    <2> QED
      BY <2>1, <2>2
  <1>4. ASSUME NEW o \in Officers, NEW approve \in BOOLEAN, NEW serviceRead \in BOOLEAN,
               NEW res \in {"granted", "refused"}, DecideRead(o, a, approve, res, serviceRead)
        PROVE  ClockOf(b)' /\ CaseOf(b)'
    BY <1>0, <1>4, SameKeeps DEF Same, DecideRead, row, clock
  <1> QED
    BY <1>1, <1>2, <1>3, <1>4 DEF OfficerStep

LEMMA DecisionCase ==
  ASSUME Inv, TypeOK', NEW d \in deciding, DecideWrite(d) \/ DecideRefused(d),
         NEW b \in Applications
  PROVE  ClockOf(b)' /\ CaseOf(b)'
  <1>0. d.app \in Applications /\ d.target \in {"approved", "completed", "rejected"}
    BY DEF Decisions, Inv, TypeOK
  <1>1. ClockOf(b) /\ CaseOf(b)
    BY DEF Inv
  <1>2. CASE DecideWrite(d)
    <2>1. CASE b # d.app
      BY <1>0, <1>1, <1>2, <2>1, SameKeeps DEF Same, DecideWrite, clock, Inv, TypeOK
    <2>2. CASE b = d.app
      <3>1. status[b] \in Decidable /\ status'[b] = d.target
            /\ UNCHANGED <<due, suspended, breached, tacit, now, spent, applied>>
        BY <1>0, <1>2, <2>2 DEF DecideWrite, clock, Inv, TypeOK
      <3>2. outputs[b] = 0 /\ b \notin tacit
        BY <1>1, <3>1 DEF CaseOf, Decidable
      <3>3. outputs'[b] = IF d.target = "completed" THEN 1 ELSE 0
        BY <1>0, <1>2, <2>2, <3>2 DEF DecideWrite, Inv, TypeOK
      <3> QED
        BY <1>0, <1>1, <3>1, <3>2, <3>3 DEF ClockOf, CaseOf, WithAgency, Decidable
    <2> QED
      BY <2>1, <2>2
  <1>3. CASE DecideRefused(d)
    BY <1>1, <1>3, SameKeeps DEF Same, DecideRefused, row, clock
  <1> QED
    BY <1>2, <1>3

LEMMA SweepCase ==
  ASSUME Inv, TypeOK', NEW w \in Workers, SweepStep(w) \/ SweepCrash(w), NEW b \in Applications
  PROVE  ClockOf(b)' /\ CaseOf(b)'
  <1>0. ClockOf(b) /\ CaseOf(b)
    BY DEF Inv
  <1>1. ASSUME NEW ok \in BOOLEAN, SweepMark(w, ok) PROVE ClockOf(b)' /\ CaseOf(b)'
    <2>1. b \in breached' => b \in breached \/ spent[b] > Sla
      BY <1>1, LateSpent DEF SweepMark, Late
    <2>2. UNCHANGED <<status, result, due, suspended, tacit, outputs, now, spent, applied>>
      BY <1>1 DEF SweepMark, clock
    <2> QED
      BY <1>0, <2>1, <2>2 DEF ClockOf, CaseOf
  <1>2. ASSUME NEW ok \in BOOLEAN, SweepGrant(w, ok) PROVE ClockOf(b)' /\ CaseOf(b)'
    <2>1. CASE ok /\ b \in Grantable
      <3>1. status[b] \in WithAgency /\ spent[b] > Sla
        BY <2>1, LateSpent DEF Grantable, WithAgency, Claimable
      <3>2. /\ status'[b] = "completed"
            /\ UNCHANGED <<due, suspended, breached, outputs, now, spent, applied>>
        BY <1>2, <2>1 DEF SweepGrant, clock
      <3>3. outputs[b] = 0
        BY <1>0, <3>1 DEF CaseOf, WithAgency
      <3> QED
        BY <1>0, <3>1, <3>2, <3>3 DEF ClockOf, CaseOf, WithAgency, Decidable
    <2>2. CASE ~(ok /\ b \in Grantable)
      <3>1. Same(b)
        BY <1>2, <2>2 DEF SweepGrant, Same, clock
      <3> QED
        BY <1>0, <3>1, SameKeeps
    <2> QED
      BY <2>1, <2>2
  <1>3. ASSUME NEW ok \in BOOLEAN, NEW a \in Applications,
               SweepTellBreach(w, a, ok) \/ SweepTellTacit(w, a, ok)
        PROVE  ClockOf(b)' /\ CaseOf(b)'
    BY <1>0, <1>3, SameKeeps DEF Same, SweepTellBreach, SweepTellTacit, row, clock
  <1>4. CASE SweepEnd(w) \/ SweepCrash(w)
    BY <1>0, <1>4, SameKeeps DEF Same, SweepEnd, SweepCrash, row, clock
  <1> QED
    BY <1>1, <1>2, <1>3, <1>4 DEF SweepStep

LEMMA TickCase ==
  ASSUME Inv, TypeOK', Tick, NEW b \in Applications
  PROVE  ClockOf(b)' /\ CaseOf(b)'
  <1>0. ClockOf(b) /\ CaseOf(b)
    BY DEF Inv
  <1>1. /\ now' = now + 1
        /\ spent'[b] = IF status[b] \in WithAgency THEN spent[b] + 1 ELSE spent[b]
        /\ UNCHANGED <<status, result, due, suspended, breached, tacit, outputs, applied>>
    BY DEF Tick, row, Inv, TypeOK
  <1>2. now \in Nat /\ Sla \in Nat /\ spent[b] \in Nat /\ due[b] \in Int
    BY GovAssumption DEF Inv, TypeOK
  <1>3. CASE status[b] \in WithAgency
    <2>1. spent'[b] = spent[b] + 1
      BY <1>1, <1>3
    <2>2. due[b] + spent[b] = now + Sla => due[b] + spent'[b] = now' + Sla
      BY <1>1, <1>2, <2>1
    <2>3. spent[b] > Sla => spent'[b] > Sla
      BY <1>2, <2>1
    <2>4. ClockOf(b)'
      BY <1>0, <1>1, <1>3, <2>2, <2>3 DEF ClockOf, WithAgency
    <2>5. CaseOf(b)'
      BY <1>0, <1>1, <1>3 DEF CaseOf, WithAgency
    <2> QED
      BY <2>4, <2>5
  <1>4. CASE status[b] \notin WithAgency
    <2>1. spent'[b] = spent[b]
      BY <1>1, <1>4
    <2> QED
      BY <1>0, <1>1, <1>4, <2>1 DEF ClockOf, CaseOf
  <1> QED
    BY <1>3, <1>4

LEMMA InitCase == Init => Inv
  <1> SUFFICES ASSUME Init, NEW a \in Applications PROVE ClockOf(a) /\ CaseOf(a)
    BY InitType DEF Inv
  <1>1. a \notin applied => status[a] = "none"
    BY DEF Init
  <1>2. status[a] \in LegacyStatuses \cup {"none"}
    BY DEF Init
  <1>3. /\ result[a] = "" /\ due[a] = NoTime /\ suspended[a] = NoTime /\ outputs[a] = 0
        /\ spent[a] = 0 /\ a \notin tacit /\ a \notin breached
    BY DEF Init
  <1> QED
    BY <1>1, <1>2, <1>3 DEF ClockOf, CaseOf, WithAgency, LegacyStatuses

LEMMA NextCase == Inv /\ [Next]_vars => Inv'
  <1> SUFFICES ASSUME Inv, [Next]_vars PROVE Inv'
    OBVIOUS
  <1>1. TypeOK'
    BY NextType DEF Inv
  <1> SUFFICES ASSUME NEW b \in Applications PROVE ClockOf(b)' /\ CaseOf(b)'
    BY <1>1 DEF Inv
  <1>2. CASE UNCHANGED vars
    <2>1. ClockOf(b) /\ CaseOf(b)
      BY DEF Inv
    <2> QED
      BY <1>2, <2>1, SameKeeps DEF Same, vars, row, clock
  <1> QED
    BY <1>1, <1>2, CitizenCase, OfficerCase, DecisionCase, SweepCase, TickCase
       DEF Next, DecisionStep

(***************************************************************************)
(* What the sweep marks as late, or grants by silence, has waited for the  *)
(* agency itself longer than the SLA: pauses never count.                  *)
(***************************************************************************)
THEOREM AgencyTime == Spec => []BreachIsAgencyTime
  <1>1. Inv => BreachIsAgencyTime
    BY DEF Inv, ClockOf, BreachIsAgencyTime, TypeOK
  <1> QED
    BY <1>1, InitCase, NextCase, PTL DEF Spec

----------------------------------------------------------------------------
\* The document

(***************************************************************************)
(* As long as nothing has failed, the decision that settles a document     *)
(* case is a completion: "approved" only comes of a failed read.           *)
(***************************************************************************)
DocumentOf(a) ==
  (a \in Documents \ tacit /\ result[a] # "" /\ faults = 0)
    => /\ status[a] # "approved"
       /\ status[a] = "completed" => outputs[a] = 1

WellRead(d) == d.app \in Documents /\ faults = 0 => d.target # "approved"

DocumentInv == (\A a \in Applications : DocumentOf(a)) /\ \A d \in deciding : WellRead(d)

\* A step that leaves the decision and the document of the application alone.
Untouched(a) ==
  /\ status'[a] = status[a] /\ result'[a] = result[a] /\ outputs'[a] = outputs[a]
  /\ a \in tacit => a \in tacit'
  /\ faults' = 0 => faults = 0

LEMMA UntouchedKeeps ==
  ASSUME NEW a \in Applications, DocumentOf(a), Untouched(a)
  PROVE  DocumentOf(a)'
  BY DEF DocumentOf, Untouched

LEMMA FaultsStay ==
  ASSUME TypeOK, NEW ok \in BOOLEAN, Outcome(ok)
  PROVE  faults' = 0 => ok /\ faults = 0
  BY DEF Outcome, TypeOK

LEMMA CitizenDocument ==
  ASSUME Inv, DocumentInv, NEW a \in Applications, CitizenStep(a)
  PROVE  DocumentInv'
  <1>0. (faults' = 0 => faults = 0) /\ deciding' = deciding
    BY FaultsStay DEF CitizenStep, ApplyAuto, ApplyManual, ApplyRolledBack, Cancel, ProvideInfo,
                      MayRecord, Inv
  <1>1. \A d \in deciding' : WellRead(d)'
    BY <1>0 DEF DocumentInv, WellRead
  <1> SUFFICES ASSUME NEW b \in Applications PROVE DocumentOf(b)'
    BY <1>1 DEF DocumentInv
  <1>2. DocumentOf(b)
    BY DEF DocumentInv
  <1>3. tacit' = tacit
    BY DEF CitizenStep, ApplyAuto, ApplyManual, ApplyRolledBack, Cancel, ProvideInfo, row
  <1>4. CASE ApplyRolledBack(a) \/ b # a
    <2>1. Untouched(b)
      BY <1>0, <1>3, <1>4 DEF Untouched, CitizenStep, ApplyAuto, ApplyManual, ApplyRolledBack, Cancel,
                        ProvideInfo, row, Inv, TypeOK
    <2> QED
      BY <1>2, <2>1, UntouchedKeeps
  <1>5. CASE ApplyAuto(a) /\ b = a
    BY <1>5 DEF ApplyAuto, DocumentOf, Inv, TypeOK
  <1>6. CASE (ApplyManual(a) \/ Cancel(a) \/ ProvideInfo(a)) /\ b = a
    <2>1. status'[a] \in {"registered", "cancelled", "in_review"}
      BY <1>6 DEF ApplyManual, Cancel, ProvideInfo, Inv, TypeOK
    <2> QED
      BY <1>6, <2>1 DEF DocumentOf
  <1> QED
    BY <1>4, <1>5, <1>6 DEF CitizenStep

LEMMA OfficerDocument ==
  ASSUME Inv, DocumentInv, NEW a \in Applications, OfficerStep(a)
  PROVE  DocumentInv'
  <1>1. ASSUME NEW b \in Applications, Untouched(b) PROVE DocumentOf(b)'
    BY <1>1, UntouchedKeeps DEF DocumentInv
  <1>2. CASE \/ RequestInfo(a) \/ Complete(a) \/ \E o \in Officers : Assign(o, a)
    <2>0. UNCHANGED <<result, outputs, tacit, faults, deciding>>
      BY <1>2 DEF RequestInfo, Complete, Assign
    <2>1. \A d \in deciding' : WellRead(d)'
      BY <2>0 DEF DocumentInv, WellRead
    <2>2. ASSUME NEW b \in Applications \ {a} PROVE DocumentOf(b)'
      <3>1. Untouched(b)
        BY <1>2, <2>0 DEF Untouched, RequestInfo, Complete, Assign, Inv, TypeOK
      <3> QED
        BY <1>1, <3>1
    <2>3. DocumentOf(a)'
      <3>1. DocumentOf(a)
        BY DEF DocumentInv
      <3>2. \/ status'[a] \in {"info_required", "in_review"}
            \/ status[a] = "approved" /\ status'[a] = "completed"
        BY <1>2 DEF RequestInfo, Complete, Assign, Inv, TypeOK
      <3> QED
        BY <2>0, <3>1, <3>2 DEF DocumentOf
    <2> QED
      BY <2>1, <2>2, <2>3 DEF DocumentInv
  <1>3. ASSUME NEW o \in Officers, NEW approve \in BOOLEAN, NEW serviceRead \in BOOLEAN,
               NEW res \in {"granted", "refused"}, DecideRead(o, a, approve, res, serviceRead)
        PROVE  DocumentInv'
    <2>1. faults' = 0 => serviceRead /\ faults = 0
      BY <1>3, FaultsStay DEF DecideRead, Inv
    <2>2. ASSUME NEW b \in Applications PROVE DocumentOf(b)'
      BY <1>1, <1>3, <2>1 DEF Untouched, DecideRead, row
    <2>3. ASSUME NEW d \in deciding' PROVE WellRead(d)'
      <3> DEFINE new == [by |-> o, app |-> a, target |-> Target(a, approve, serviceRead),
                         result |-> res]
      <3>1. d \in deciding \/ d = new
        BY <1>3 DEF DecideRead
      <3>2. CASE d \in deciding
        BY <2>1, <3>2 DEF DocumentInv, WellRead
      <3>3. CASE d = new
        <4>1. d.app = a /\ d.target = Target(a, approve, serviceRead)
          BY <3>3
        <4> QED
          BY <2>1, <4>1 DEF WellRead, Target
      <3> QED
        BY <3>1, <3>2, <3>3
    <2> QED
      BY <2>2, <2>3 DEF DocumentInv
  <1> QED
    BY <1>2, <1>3 DEF OfficerStep

LEMMA DecisionDocument ==
  ASSUME Inv, DocumentInv, NEW d \in deciding, DecideWrite(d) \/ DecideRefused(d)
  PROVE  DocumentInv'
  <1>0. d.app \in Applications /\ d.target \in {"approved", "completed", "rejected"}
    BY DEF Decisions, Inv, TypeOK
  <1>1. (faults' = 0 => faults = 0) /\ deciding' \subseteq deciding /\ tacit' = tacit
    <2>1. (status[d.app] \notin Decidable) \in BOOLEAN
      OBVIOUS
    <2> QED
      BY <2>1, FaultsStay DEF DecideWrite, DecideRefused, row, Inv
  <1>2. \A e \in deciding' : WellRead(e)'
    BY <1>1 DEF DocumentInv, WellRead
  <1> SUFFICES ASSUME NEW b \in Applications PROVE DocumentOf(b)'
    BY <1>2 DEF DocumentInv
  <1>3. DocumentOf(b)
    BY DEF DocumentInv
  <1>4. CASE DecideRefused(d) \/ b # d.app
    <2>1. Untouched(b)
      BY <1>0, <1>1, <1>4 DEF Untouched, DecideWrite, DecideRefused, row, Inv, TypeOK
    <2> QED
      BY <1>3, <2>1, UntouchedKeeps
  <1>5. CASE DecideWrite(d) /\ b = d.app
    <2>1. status[b] \in Decidable /\ status'[b] = d.target
      BY <1>0, <1>5 DEF DecideWrite, Inv, TypeOK
    <2>2. outputs[b] = 0
      BY <2>1 DEF Inv, CaseOf, Decidable
    <2>3. d.target = "completed" => outputs'[b] = 1
      BY <1>0, <1>5, <2>2 DEF DecideWrite, Inv, TypeOK
    <2>4. WellRead(d)
      BY DEF DocumentInv
    <2> QED
      BY <1>1, <1>5, <2>1, <2>3, <2>4 DEF DocumentOf, WellRead
  <1> QED
    BY <1>4, <1>5

LEMMA SweepDocument ==
  ASSUME Inv, DocumentInv, NEW w \in Workers, SweepStep(w) \/ SweepCrash(w)
  PROVE  DocumentInv'
  <1>1. (faults' = 0 => faults = 0) /\ deciding' = deciding
    <2>1. Outcome(FALSE) => (faults' = 0 => faults = 0)
      BY FaultsStay DEF Inv
    <2> QED
      BY <2>1, FaultsStay DEF SweepStep, SweepMark, SweepGrant, SweepTellBreach, SweepTellTacit,
                              SweepEnd, SweepCrash, Inv
  <1>2. \A d \in deciding' : WellRead(d)'
    BY <1>1 DEF DocumentInv, WellRead
  <1> SUFFICES ASSUME NEW b \in Applications PROVE DocumentOf(b)'
    BY <1>2 DEF DocumentInv
  <1>3. DocumentOf(b)
    BY DEF DocumentInv
  <1>4. ASSUME NEW ok \in BOOLEAN, SweepGrant(w, ok) PROVE DocumentOf(b)'
    <2>1. CASE ok /\ b \in Grantable
      <3>1. b \in tacit'
        BY <1>4, <2>1 DEF SweepGrant
      <3> QED
        BY <3>1 DEF DocumentOf
    <2>2. CASE ~(ok /\ b \in Grantable)
      <3>1. Untouched(b)
        BY <1>1, <1>4, <2>2 DEF Untouched, SweepGrant
      <3> QED
        BY <1>3, <3>1, UntouchedKeeps
    <2> QED
      BY <2>1, <2>2
  <1>5. CASE ~ \E ok \in BOOLEAN : SweepGrant(w, ok)
    <2>1. UNCHANGED <<status, result, outputs, tacit>>
      BY <1>5 DEF SweepStep, SweepMark, SweepTellBreach, SweepTellTacit, SweepEnd, SweepCrash, row
    <2> QED
      BY <1>1, <1>3, <2>1, UntouchedKeeps DEF Untouched
  <1> QED
    BY <1>4, <1>5

LEMMA NextDocument ==
  ASSUME Inv, DocumentInv, [Next]_vars
  PROVE  DocumentInv'
  <1>1. CASE UNCHANGED vars \/ Tick
    <2>1. UNCHANGED <<status, result, outputs, tacit, faults, deciding>>
      BY <1>1 DEF vars, row, Tick
    <2>2. \A d \in deciding' : WellRead(d)'
      BY <2>1 DEF DocumentInv, WellRead
    <2>3. ASSUME NEW b \in Applications PROVE DocumentOf(b)'
      BY <2>1, UntouchedKeeps DEF Untouched, DocumentInv
    <2> QED
      BY <2>2, <2>3 DEF DocumentInv
  <1> QED
    BY <1>1, CitizenDocument, OfficerDocument, DecisionDocument, SweepDocument
       DEF Next, DecisionStep

(***************************************************************************)
(* No case gets a second document, none gets one without being completed,  *)
(* and unless something failed none that somebody decided is completed     *)
(* without one.                                                            *)
(***************************************************************************)
THEOREM AtMostOneOutput == Spec => []OneOutput
  <1>1. Inv /\ DocumentInv => OneOutput
    BY DEF Inv, CaseOf, DocumentInv, DocumentOf, OneOutput
  <1>2. Init => DocumentInv
    BY DEF Init, DocumentInv, DocumentOf
  <1> QED
    BY <1>1, <1>2, InitCase, NextCase, NextDocument, PTL DEF Spec

----------------------------------------------------------------------------
\* The table

(***************************************************************************)
(* The result of a case is written once, whoever decides at the same time. *)
(***************************************************************************)
LEMMA ResultKept ==
  ASSUME Inv, [Next]_vars, NEW a \in Applications, result[a] # ""
  PROVE  result'[a] = result[a]
  <1>0. a \in applied /\ status[a] \notin Decidable
    BY DEF Inv, CaseOf
  <1>1. CASE UNCHANGED vars
    BY <1>1 DEF vars, row
  <1>2. ASSUME NEW b \in Applications, CitizenStep(b) PROVE result'[a] = result[a]
    BY <1>0, <1>2 DEF CitizenStep, ApplyAuto, ApplyManual, ApplyRolledBack, Cancel, ProvideInfo, row,
                      Inv, TypeOK
  <1>3. ASSUME NEW b \in Applications, OfficerStep(b) PROVE result'[a] = result[a]
    BY <1>3 DEF OfficerStep, Assign, RequestInfo, Complete, DecideRead, row
  <1>4. CASE DecisionStep
    BY <1>0, <1>4 DEF DecisionStep, DecideWrite, DecideRefused, row, Inv, TypeOK
  <1>5. ASSUME NEW w \in Workers, SweepStep(w) \/ SweepCrash(w) PROVE result'[a] = result[a]
    <2>1. ASSUME NEW ok \in BOOLEAN, SweepGrant(w, ok) PROVE result'[a] = result[a]
      BY <1>0, <2>1 DEF SweepGrant, Grantable, WithAgency, Decidable
    <2> QED
      BY <1>5, <2>1 DEF SweepStep, SweepMark, SweepTellBreach, SweepTellTacit, SweepEnd, SweepCrash,
                        row
  <1>6. CASE Tick
    BY <1>6 DEF Tick, row
  <1> QED
    BY <1>1, <1>2, <1>3, <1>4, <1>5, <1>6 DEF Next

(***************************************************************************)
(* A decision stands: of two officers, or an officer and the sweep, only   *)
(* the first writes a result.                                              *)
(***************************************************************************)
THEOREM DecisionStands == Spec => DecidedOnce
  <1>1. Inv /\ [Next]_vars => [\A a \in Applications : result[a] # "" => result'[a] = result[a]]_vars
    BY ResultKept
  <1> QED
    BY <1>1, InitCase, NextCase, PTL DEF Spec, DecidedOnce

\* A step that moves one application along the table.
LEMMA OneAdvances ==
  ASSUME NEW a \in Applications, NEW s, Lifecycle!CanTransition(status[a], s),
         status' = [status EXCEPT ![a] = s]
  PROVE  Lifecycle!LNext
  BY DEF Lifecycle!LNext, Lifecycle!Advance, Lifecycle!CanTransition

LEMMA Table ==
  /\ Lifecycle!CanTransition("none", "completed") /\ Lifecycle!CanTransition("none", "registered")
  /\ \A s \in Cancellable : Lifecycle!CanTransition(s, "cancelled")
  /\ Lifecycle!CanTransition("info_required", "in_review")
  /\ Lifecycle!CanTransition("registered", "in_review")
  /\ Lifecycle!CanTransition("approved", "completed")
  /\ \A s \in WithAgency : Lifecycle!CanTransition(s, "info_required")
  /\ \A s \in Decidable : \A t \in {"approved", "completed", "rejected"} :
       Lifecycle!CanTransition(s, t)
  BY DEF Lifecycle!CanTransition, Lifecycle!Successors, Lifecycle!Statuses, Lifecycle!Verdicts,
         WithAgency, Decidable, Cancellable

\* A step of the table, or the one step beside it.
Follows == Lifecycle!LNext \/ \E a \in Applications : ClaimsSubmitted(a)

LEMMA InitFollows == Init => Lifecycle!LInit
  <1> SUFFICES ASSUME Init PROVE Lifecycle!LInit
    OBVIOUS
  <1>1. PICK old \in [Legacy -> LegacyStatuses \cup {"none"}] :
          status = [a \in Applications |-> IF a \in Legacy THEN old[a] ELSE "none"]
    BY DEF Init
  <1>2. \A a \in Applications :
          (IF a \in Legacy THEN old[a] ELSE "none") \in LegacyStatuses \cup {"none"}
    OBVIOUS
  <1> QED
    BY <1>1, <1>2 DEF Lifecycle!LInit, LegacyStatuses

LEMMA StepFollows ==
  ASSUME Inv, [Next]_vars
  PROVE  [Follows]_status
  <1>1. CASE UNCHANGED vars
    BY <1>1 DEF vars, row
  <1>2. ASSUME NEW a \in Applications, CitizenStep(a) PROVE [Follows]_status
    <2>0. a \notin applied => status[a] = "none"
      BY DEF Inv, CaseOf
    <2>1. CASE ApplyAuto(a)
      BY <2>0, <2>1, OneAdvances, Table DEF Follows, ApplyAuto
    <2>2. CASE ApplyManual(a)
      BY <2>0, <2>2, OneAdvances, Table DEF Follows, ApplyManual
    <2>3. CASE ApplyRolledBack(a)
      BY <2>3 DEF ApplyRolledBack, row
    <2>4. CASE Cancel(a)
      BY <2>4, OneAdvances, Table DEF Follows, Cancel
    <2>5. CASE ProvideInfo(a)
      BY <2>5, OneAdvances, Table DEF Follows, ProvideInfo
    <2> QED
      BY <1>2, <2>1, <2>2, <2>3, <2>4, <2>5 DEF CitizenStep
  <1>3. ASSUME NEW a \in Applications, OfficerStep(a) PROVE [Follows]_status
    <2>1. ASSUME NEW o \in Officers, Assign(o, a) PROVE [Follows]_status
      <3>1. status[a] \in {"submitted", "registered", "in_review"}
        BY <2>1 DEF Assign, Claimable
      <3>2. CASE status[a] = "registered"
        BY <2>1, <3>2, OneAdvances, Table DEF Follows, Assign
      <3>3. CASE status[a] = "in_review"
        BY <2>1, <3>3 DEF Assign, Inv, TypeOK
      <3>4. CASE status[a] = "submitted"
        BY <2>1, <3>4 DEF Assign, ClaimsSubmitted, Follows
      <3> QED
        BY <3>1, <3>2, <3>3, <3>4
    <2>2. CASE RequestInfo(a)
      BY <2>2, OneAdvances, Table DEF Follows, RequestInfo
    <2>3. CASE Complete(a)
      BY <2>3, OneAdvances, Table DEF Follows, Complete
    <2> QED
      BY <1>3, <2>1, <2>2, <2>3 DEF OfficerStep, DecideRead, row
  <1>4. CASE DecisionStep
    <2>1. PICK d \in deciding : DecideWrite(d) \/ DecideRefused(d)
      BY <1>4 DEF DecisionStep
    <2>2. d.app \in Applications /\ d.target \in {"approved", "completed", "rejected"}
      BY DEF Decisions, Inv, TypeOK
    <2>3. CASE DecideWrite(d)
      BY <2>2, <2>3, OneAdvances, Table DEF Follows, DecideWrite
    <2> QED
      BY <2>1, <2>3 DEF DecideRefused, row
  <1>5. ASSUME NEW w \in Workers, SweepStep(w) \/ SweepCrash(w) PROVE [Follows]_status
    <2>1. ASSUME NEW ok \in BOOLEAN, SweepGrant(w, ok) PROVE Lifecycle!LNext
      <3> DEFINE granted == IF ok THEN Grantable ELSE {}
      <3>1. granted \in SUBSET Applications
        BY GovAssumption DEF Grantable
      <3>2. \A a \in granted : Lifecycle!CanTransition(status[a], "completed")
        BY Table DEF Grantable, WithAgency, Decidable
      <3>3. status' = [a \in Applications |-> IF a \in granted THEN "completed" ELSE status[a]]
        BY <2>1 DEF SweepGrant
      <3> QED
        BY <3>1, <3>2, <3>3 DEF Lifecycle!LNext, Lifecycle!CloseTogether
    <2> QED
      BY <1>5, <2>1 DEF Follows, SweepStep, SweepMark, SweepTellBreach, SweepTellTacit, SweepEnd, SweepCrash,
                        row
  <1>6. CASE Tick
    BY <1>6 DEF Tick, row
  <1> QED
    BY <1>1, <1>2, <1>3, <1>4, <1>5, <1>6 DEF Next

(***************************************************************************)
(* Every change of a status follows the transition table of domain/gov.ts, *)
(* but for the claim of a row that is still "submitted".                   *)
(***************************************************************************)
THEOREM ImplementsLifecycle == Spec => FollowsLifecycle
  <1>1. Init => Lifecycle!LInit
    BY InitFollows
  <1>2. Inv /\ [Next]_vars => [Lifecycle!LNext \/ \E a \in Applications : ClaimsSubmitted(a)]_status
    BY StepFollows DEF Follows
  <1> QED
    BY <1>1, <1>2, InitCase, NextCase, PTL DEF Spec, FollowsLifecycle

\* Without rows from before migration 44 nothing ever says "submitted".
NoneSubmitted == \A a \in Applications : status[a] # "submitted"

LEMMA NextSubmitted ==
  ASSUME Inv, NoneSubmitted, [Next]_vars
  PROVE  NoneSubmitted'
  <1>1. CASE UNCHANGED vars
    BY <1>1 DEF vars, row, NoneSubmitted
  <1>2. ASSUME NEW a \in Applications, CitizenStep(a) PROVE NoneSubmitted'
    BY <1>2 DEF NoneSubmitted, Inv, TypeOK, CitizenStep, ApplyAuto, ApplyManual, ApplyRolledBack,
                Cancel, ProvideInfo, row
  <1>3. ASSUME NEW a \in Applications, OfficerStep(a) PROVE NoneSubmitted'
    BY <1>3 DEF NoneSubmitted, Inv, TypeOK, OfficerStep, Assign, RequestInfo, Complete, DecideRead,
                row
  <1>4. CASE DecisionStep
    <2>1. \A d \in deciding : d.target # "submitted"
      BY DEF Decisions, Inv, TypeOK
    <2> QED
      BY <1>4, <2>1 DEF NoneSubmitted, Inv, TypeOK, DecisionStep, DecideWrite, DecideRefused, row
  <1>5. ASSUME NEW w \in Workers, SweepStep(w) \/ SweepCrash(w) PROVE NoneSubmitted'
    BY <1>5 DEF NoneSubmitted, SweepStep, SweepMark, SweepGrant, SweepTellBreach, SweepTellTacit,
                SweepEnd, SweepCrash, row
  <1>6. CASE Tick
    BY <1>6 DEF NoneSubmitted, Tick, row
  <1> QED
    BY <1>1, <1>2, <1>3, <1>4, <1>5, <1>6 DEF Next

(***************************************************************************)
(* In a database that has no row from before migration 44 the program      *)
(* implements the table of domain/gov.ts as it stands, without exception.  *)
(***************************************************************************)
THEOREM FreshLifecycle ==
  ASSUME Legacy = {}
  PROVE  Spec => Lifecycle!LSpec
  <1>1. Init => Lifecycle!LInit
    BY InitFollows
  <1>2. Init => NoneSubmitted
    BY Legacy = {} DEF Init, NoneSubmitted
  <1>3. Inv /\ NoneSubmitted /\ [Next]_vars => [Lifecycle!LNext]_status
    BY StepFollows DEF Follows, NoneSubmitted, ClaimsSubmitted
  <1> QED
    BY <1>1, <1>2, <1>3, InitCase, NextCase, NextSubmitted, PTL DEF Spec, Lifecycle!LSpec

----------------------------------------------------------------------------
\* The notices

(***************************************************************************)
(* A notice is owed by the one sweep whose UPDATE flipped the latch, or    *)
(* has been sent; a latch that is not set has neither.                     *)
(***************************************************************************)
OwesBreach(w, a) == sweep[w].pc = "breach" /\ a \in sweep[w].todo
OwesTacit(w, a) == sweep[w].pc = "tacit" /\ a \in sweep[w].todo

BreachNotices(a) ==
  /\ told[a].breach \in {0, 1}
  /\ a \notin breached => told[a].breach = 0
  /\ \A w \in Workers : OwesBreach(w, a) =>
       a \in breached /\ told[a].breach = 0 /\ \A v \in Workers \ {w} : ~OwesBreach(v, a)

TacitNotices(a) ==
  /\ told[a].tacit \in {0, 1}
  /\ a \notin tacit => told[a].tacit = 0
  /\ \A w \in Workers : OwesTacit(w, a) =>
       a \in tacit /\ told[a].tacit = 0 /\ \A v \in Workers \ {w} : ~OwesTacit(v, a)

NoticeInv == \A a \in Applications : BreachNotices(a) /\ TacitNotices(a)

\* A step after which nobody owes what they did not owe, and nothing has been told.
NoNews(a) ==
  /\ told'[a] = told[a]
  /\ a \in breached => a \in breached'
  /\ a \in tacit => a \in tacit'
  /\ \A w \in Workers :
       (OwesBreach(w, a)' => OwesBreach(w, a)) /\ (OwesTacit(w, a)' => OwesTacit(w, a))

LEMMA NoNewsKeeps ==
  ASSUME NEW a \in Applications, BreachNotices(a), TacitNotices(a), NoNews(a)
  PROVE  BreachNotices(a)' /\ TacitNotices(a)'
  BY DEF BreachNotices, TacitNotices, NoNews

LEMMA SweepNotices ==
  ASSUME Inv, NoticeInv, TypeOK', NEW w \in Workers, SweepStep(w) \/ SweepCrash(w),
         NEW b \in Applications
  PROVE  BreachNotices(b)' /\ TacitNotices(b)'
  <1>0. BreachNotices(b) /\ TacitNotices(b)
    BY DEF NoticeInv
  <1>1. ASSUME NEW ok \in BOOLEAN, SweepMark(w, ok) PROVE BreachNotices(b)' /\ TacitNotices(b)'
    <2>1. CASE ok /\ b \in Late
      <3>1. b \notin breached /\ b \in breached' /\ tacit' = tacit /\ told' = told
        BY <1>1, <2>1 DEF SweepMark, Late
      <3>2. \A v \in Workers \ {w} : sweep'[v] = sweep[v]
        BY <1>1 DEF SweepMark, Inv, TypeOK
      <3>3. sweep'[w].pc = "breach"
        BY <1>1 DEF SweepMark, Inv, TypeOK
      <3>4. \A v \in Workers \ {w} : ~OwesBreach(v, b)'
        BY <1>0, <3>1, <3>2 DEF BreachNotices, OwesBreach
      <3>5. \A v \in Workers : OwesTacit(v, b)' => OwesTacit(v, b)
        BY <3>2, <3>3 DEF OwesTacit
      <3>6. BreachNotices(b)'
        BY <1>0, <3>1, <3>4 DEF BreachNotices
      <3>7. TacitNotices(b)'
        BY <1>0, <3>1, <3>5 DEF TacitNotices
      <3> QED
        BY <3>6, <3>7
    <2>2. CASE ~(ok /\ b \in Late)
      <3>1. NoNews(b)
        BY <1>1, <2>2 DEF NoNews, OwesBreach, OwesTacit, SweepMark, Inv, TypeOK
      <3> QED
        BY <1>0, <3>1, NoNewsKeeps
    <2> QED
      BY <2>1, <2>2
  <1>2. ASSUME NEW ok \in BOOLEAN, SweepGrant(w, ok) PROVE BreachNotices(b)' /\ TacitNotices(b)'
    <2>1. CASE ok /\ b \in Grantable
      <3>1. b \notin tacit
        BY <2>1 DEF Grantable, WithAgency, Decidable, Inv, CaseOf
      <3>2. b \in tacit' /\ breached' = breached /\ told' = told
        BY <1>2, <2>1 DEF SweepGrant
      <3>3. \A v \in Workers \ {w} : sweep'[v] = sweep[v]
        BY <1>2 DEF SweepGrant, Inv, TypeOK
      <3>4. sweep'[w].pc = "tacit"
        BY <1>2 DEF SweepGrant, Inv, TypeOK
      <3>5. \A v \in Workers \ {w} : ~OwesTacit(v, b)'
        BY <1>0, <3>1, <3>3 DEF TacitNotices, OwesTacit
      <3>6. \A v \in Workers : OwesBreach(v, b)' => OwesBreach(v, b)
        BY <3>3, <3>4 DEF OwesBreach
      <3>7. TacitNotices(b)'
        BY <1>0, <3>1, <3>2, <3>5 DEF TacitNotices
      <3>8. BreachNotices(b)'
        BY <1>0, <3>2, <3>6 DEF BreachNotices
      <3> QED
        BY <3>7, <3>8
    <2>2. CASE ~(ok /\ b \in Grantable)
      <3>1. NoNews(b)
        BY <1>2, <2>2 DEF NoNews, OwesBreach, OwesTacit, SweepGrant, Inv, TypeOK
      <3> QED
        BY <1>0, <3>1, NoNewsKeeps
    <2> QED
      BY <2>1, <2>2
  <1>3. ASSUME NEW ok \in BOOLEAN, NEW a \in Applications, SweepTellBreach(w, a, ok)
        PROVE  BreachNotices(b)' /\ TacitNotices(b)'
    <2>1. \A v \in Workers : (OwesBreach(v, b)' => OwesBreach(v, b))
                             /\ (OwesTacit(v, b)' => OwesTacit(v, b))
      BY <1>3 DEF OwesBreach, OwesTacit, SweepTellBreach, Inv, TypeOK
    <2>2. CASE b # a
      <3>1. NoNews(b)
        BY <1>3, <2>1, <2>2 DEF NoNews, SweepTellBreach, row, Inv, TypeOK
      <3> QED
        BY <1>0, <3>1, NoNewsKeeps
    <2>3. CASE b = a
      <3>1. OwesBreach(w, b)
        BY <1>3, <2>3 DEF SweepTellBreach, OwesBreach
      <3>2. \A v \in Workers : ~OwesBreach(v, b)'
        BY <1>0, <1>3, <2>1, <2>3, <3>1 DEF BreachNotices, OwesBreach, SweepTellBreach, Inv, TypeOK
      <3>3. told[b].breach = 0 /\ b \in breached
        BY <1>0, <3>1 DEF BreachNotices
      <3>4. told'[b].breach \in {0, 1} /\ told'[b].tacit = told[b].tacit
        <4>1. told[b] \in [breach : Nat, tacit : Nat]
          BY DEF Inv, TypeOK
        <4>2. told'[b] = [told[b] EXCEPT !.breach = IF ok THEN told[b].breach + 1 ELSE told[b].breach]
          BY <1>3, <2>3 DEF SweepTellBreach, Inv, TypeOK
        <4> QED
          BY <3>3, <4>1, <4>2
      <3>5. breached' = breached /\ tacit' = tacit
        BY <1>3 DEF SweepTellBreach, row
      <3> QED
        BY <1>0, <2>1, <3>2, <3>3, <3>4, <3>5 DEF BreachNotices, TacitNotices
    <2> QED
      BY <2>2, <2>3
  <1>4. ASSUME NEW ok \in BOOLEAN, NEW a \in Applications, SweepTellTacit(w, a, ok)
        PROVE  BreachNotices(b)' /\ TacitNotices(b)'
    <2>1. \A v \in Workers : (OwesBreach(v, b)' => OwesBreach(v, b))
                             /\ (OwesTacit(v, b)' => OwesTacit(v, b))
      BY <1>4 DEF OwesBreach, OwesTacit, SweepTellTacit, Inv, TypeOK
    <2>2. CASE b # a
      <3>1. NoNews(b)
        BY <1>4, <2>1, <2>2 DEF NoNews, SweepTellTacit, row, Inv, TypeOK
      <3> QED
        BY <1>0, <3>1, NoNewsKeeps
    <2>3. CASE b = a
      <3>1. OwesTacit(w, b)
        BY <1>4, <2>3 DEF SweepTellTacit, OwesTacit
      <3>2. \A v \in Workers : ~OwesTacit(v, b)'
        BY <1>0, <1>4, <2>1, <2>3, <3>1 DEF TacitNotices, OwesTacit, SweepTellTacit, Inv, TypeOK
      <3>3. told[b].tacit = 0 /\ b \in tacit
        BY <1>0, <3>1 DEF TacitNotices
      <3>4. told'[b].tacit \in {0, 1} /\ told'[b].breach = told[b].breach
        <4>1. told[b] \in [breach : Nat, tacit : Nat]
          BY DEF Inv, TypeOK
        <4>2. told'[b] = [told[b] EXCEPT !.tacit = IF ok THEN told[b].tacit + 1 ELSE told[b].tacit]
          BY <1>4, <2>3 DEF SweepTellTacit, Inv, TypeOK
        <4> QED
          BY <3>3, <4>1, <4>2
      <3>5. breached' = breached /\ tacit' = tacit
        BY <1>4 DEF SweepTellTacit, row
      <3> QED
        BY <1>0, <2>1, <3>2, <3>3, <3>4, <3>5 DEF BreachNotices, TacitNotices
    <2> QED
      BY <2>2, <2>3
  <1>5. CASE SweepEnd(w) \/ SweepCrash(w)
    <2>1. told' = told /\ breached' = breached /\ tacit' = tacit
      BY <1>5 DEF SweepEnd, SweepCrash, row
    <2>2. sweep' = [sweep EXCEPT ![w] = NoSweep] /\ sweep \in [Workers -> Sweeps]
      BY <1>5 DEF SweepEnd, SweepCrash, Inv, TypeOK
    <2>3. sweep'[w].pc = "idle"
      BY <2>2 DEF NoSweep
    <2>4. \A v \in Workers \ {w} : sweep'[v] = sweep[v]
      BY <2>2
    <2>5. \A v \in Workers : (OwesBreach(v, b)' => OwesBreach(v, b))
                             /\ (OwesTacit(v, b)' => OwesTacit(v, b))
      BY <2>3, <2>4 DEF OwesBreach, OwesTacit
    <2>6. NoNews(b)
      BY <2>1, <2>5 DEF NoNews
    <2> QED
      BY <1>0, <2>6, NoNewsKeeps
  <1> QED
    BY <1>1, <1>2, <1>3, <1>4, <1>5 DEF SweepStep

LEMMA NextNotices ==
  ASSUME Inv, NoticeInv, [Next]_vars
  PROVE  NoticeInv'
  <1>1. TypeOK'
    BY NextType DEF Inv
  <1>2. ASSUME NEW b \in Applications, told' = told, sweep' = sweep, breached' = breached, tacit' = tacit
        PROVE  BreachNotices(b)' /\ TacitNotices(b)'
    BY <1>2, NoNewsKeeps DEF NoNews, NoticeInv, OwesBreach, OwesTacit
  <1>3. \/ told' = told /\ sweep' = sweep /\ breached' = breached /\ tacit' = tacit
        \/ \E w \in Workers : SweepStep(w) \/ SweepCrash(w)
    <2>1. CASE UNCHANGED vars
      BY <2>1 DEF vars, row
    <2>2. ASSUME NEW a \in Applications, CitizenStep(a)
          PROVE  told' = told /\ sweep' = sweep /\ breached' = breached /\ tacit' = tacit
      BY <2>2 DEF CitizenStep, ApplyAuto, ApplyManual, ApplyRolledBack, Cancel, ProvideInfo, row
    <2>3. ASSUME NEW a \in Applications, OfficerStep(a)
          PROVE  told' = told /\ sweep' = sweep /\ breached' = breached /\ tacit' = tacit
      BY <2>3 DEF OfficerStep, Assign, RequestInfo, Complete, DecideRead, row
    <2>4. CASE DecisionStep
      BY <2>4 DEF DecisionStep, DecideWrite, DecideRefused, row
    <2>5. CASE Tick
      BY <2>5 DEF Tick, row
    <2> QED
      BY <2>1, <2>2, <2>3, <2>4, <2>5 DEF Next
  <1> QED
    BY <1>1, <1>2, <1>3, SweepNotices DEF NoticeInv

(***************************************************************************)
(* However many instances sweep, no notice of a case goes out twice.       *)
(***************************************************************************)
THEOREM ToldOnce == Spec => []ToldAtMostOnce
  <1>1. ASSUME Init PROVE NoticeInv
    <2> SUFFICES ASSUME NEW a \in Applications PROVE BreachNotices(a) /\ TacitNotices(a)
      BY DEF NoticeInv
    <2>1. told[a] = [breach |-> 0, tacit |-> 0]
      BY <1>1 DEF Init
    <2>2. told[a].breach = 0 /\ told[a].tacit = 0
      BY <2>1
    <2>3. \A w \in Workers : sweep[w].pc = "idle"
      BY <1>1 DEF Init, NoSweep
    <2>4. \A w \in Workers : ~OwesBreach(w, a) /\ ~OwesTacit(w, a)
      BY <2>3 DEF OwesBreach, OwesTacit
    <2> QED
      BY <2>2, <2>4 DEF BreachNotices, TacitNotices
  <1>2. NoticeInv => ToldAtMostOnce
    BY DEF NoticeInv, BreachNotices, TacitNotices, ToldAtMostOnce
  <1> QED
    BY <1>1, <1>2, InitCase, NextCase, NextNotices, PTL DEF Spec
==============================================================================
