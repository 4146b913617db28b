-------------------------------- MODULE Relay --------------------------------
(***************************************************************************)
(* The inter-agency relay: a request with a deadline is split into one     *)
(* assignment per downstream platform; platforms answer, a background      *)
(* sweep reminds, marks what is late, escalates and reports the breach     *)
(* upstream.                                                               *)
(*                                                                         *)
(* Every SQL statement the code awaits is a step of its own: the handlers  *)
(* and the sweep of every API instance interleave between statements.      *)
(* Transactions run at PostgreSQL's default READ COMMITTED: a statement    *)
(* sees what is committed when it starts plus its own writes, and an       *)
(* UPDATE waits for the row lock of an open transaction and then evaluates *)
(* its WHERE clause on the committed row.                                  *)
(***************************************************************************)
EXTENDS Integers, FiniteSets

CONSTANTS
  Requests,     \* ids of relay_requests rows
  Platforms,    \* ids of the downstream relay_platforms the routes name
  Workers,      \* API instances, each running one SLA sweep at a time
  Clients,      \* HTTP requests being served on /assignments/:id/respond
  Verdicts,     \* answers the clients give, some of "done" and "rejected"
  Readings,     \* readings of an assignment's clock the instance tells apart
  MaxAnswers,   \* bound: accepted answers of one assignment
  MaxFaults,    \* bound: failed statements, rollbacks and crashes
  MaxDeletes    \* bound: platforms deleted by an administrator

ASSUME RelayAssumption ==
  /\ Verdicts \subseteq {"done", "rejected"}
  /\ Readings \subseteq 0 .. 4
  /\ MaxAnswers \in Nat /\ MaxFaults \in Nat /\ MaxDeletes \in Nat

VARIABLES
  platforms,       \* relay_platforms that exist and are enabled
  reqStatus,       \* relay_requests.status ("none": no such row)
  breachNotified,  \* requests whose breach_notified latch is set
  asgStatus,       \* relay_assignments.status ("none": no such row)
  phase,           \* how far the clock is in the assignment's SLA window
  dispatched,      \* assignments with dispatched_at set
  responded,       \* assignments with responded_at set
  reminders,       \* relay_assignments.reminders_sent
  escalated,       \* relay_assignments.escalated
  answers,         \* history: answers accepted for the assignment
  told,            \* notices appended to the timeline and sent upstream
  dispatching,     \* platforms the ingest handler has still to dispatch to
  tx,              \* what each respond handler is doing
  sweep,           \* what each SLA sweep is doing
  faults           \* faults so far

reqVars == <<reqStatus, breachNotified, told>>
asgVars == <<asgStatus, phase, dispatched, responded, reminders, escalated, answers>>
vars == <<platforms, reqVars, asgVars, dispatching, tx, sweep, faults>>

Assignments == Requests \X Platforms
RequestOf(a) == a[1]
AssignmentsOf(r) == {r} \X Platforms

Terminal == {"done", "rejected"}
DueSoon == {"pending", "acknowledged", "in_progress"}
AsgStatus == DueSoon \cup Terminal \cup {"none", "overdue"}
ReqStatus == {"none", "received", "dispatched", "in_progress", "fulfilled", "overdue", "rejected"}

(***************************************************************************)
(* The clock of an assignment: 0 before the first reminder threshold, 1    *)
(* and 2 after 75% and 90% of the window since dispatch, Late from due_at  *)
(* on, GraceOver once the escalation grace has passed too.                 *)
(***************************************************************************)
Thresholds == 2   \* RelayReminderFractions: 75% and 90%
Late == 3
GraceOver == 4

NoAsg == <<>>

\* A respond handler: its transaction has run the update of the assignment, then
\* the count, which found it the last answer or not; then it has committed.
Txs == [pc : {"idle", "updated", "last", "more", "committed"},
        asg : Assignments \cup {NoAsg}, answer : Terminal \cup {"none"}]
NoTx == [pc |-> "idle", asg |-> NoAsg, answer |-> "none"]

InTx(c) == tx[c].pc \in {"updated", "last", "more"}
Locked(a) == \E c \in Clients : InTx(c) /\ tx[c].asg = a

\* A row as overdueAssignments returned it, and the locals of one sweep.
Rows == [asg : Assignments, overdue : BOOLEAN, escalated : BOOLEAN]
NoRow == [asg |-> NoAsg, overdue |-> FALSE, escalated |-> FALSE]
Sweeps == [pc : {"idle", "remind", "row", "request", "escalate", "breach", "notify"},
           late : SUBSET Assignments,            \* past their grace when "now" was read
           due : SUBSET (Assignments \X Nat),     \* reminders still to send
           rows : SUBSET Rows,                   \* rows still to do
           row : Rows \cup {NoRow},              \* the row being done
           seen : SUBSET Requests]               \* breachSeen
InRow == {"request", "escalate", "breach", "notify"}
NoSweep == [pc |-> "idle", late |-> {}, due |-> {}, rows |-> {}, row |-> NoRow, seen |-> {}]

\* A statement that may fail: either it takes effect or a fault is used up.
Outcome(ok) == IF ok THEN UNCHANGED faults
                     ELSE faults < MaxFaults /\ faults' = faults + 1

Init ==
  /\ platforms = Platforms
  /\ reqStatus = [r \in Requests |-> "none"]
  /\ breachNotified = {}
  /\ asgStatus = [a \in Assignments |-> "none"]
  /\ phase = [a \in Assignments |-> 0]
  /\ dispatched = {}
  /\ responded = {}
  /\ reminders = [a \in Assignments |-> 0]
  /\ escalated = {}
  /\ answers = [a \in Assignments |-> 0]
  /\ told = [r \in Requests |-> [breach |-> 0, fulfilled |-> 0]]
  /\ dispatching = [r \in Requests |-> {}]
  /\ tx = [c \in Clients |-> NoTx]
  /\ sweep = [w \in Workers |-> NoSweep]
  /\ faults = 0

----------------------------------------------------------------------------
\* Ingest and dispatch

\* createRequestWithAssignments: one transaction inserts the request and its assignments.
CreateRequest(r, ps, ph) ==
  LET new == {r} \X ps IN
  /\ reqStatus' = [reqStatus EXCEPT ![r] = "dispatched"]
  /\ asgStatus' = [a \in Assignments |-> IF a \in new THEN "pending" ELSE asgStatus[a]]
  /\ phase' = [a \in Assignments |-> IF a \in new THEN ph ELSE phase[a]]

(***************************************************************************)
(* ingest: an assignment for every routed platform, then the dispatch loop *)
(* starts.  due_at is capped by the request's own deadline, which may      *)
(* already have passed (ph).                                               *)
(***************************************************************************)
Ingest(r, ps, ph) ==
  /\ reqStatus[r] = "none"
  /\ ps # {}
  /\ CreateRequest(r, ps, ph)
  /\ dispatching' = [dispatching EXCEPT ![r] = ps]
  /\ UNCHANGED <<platforms, breachNotified, told, dispatched, responded, reminders,
                 escalated, answers, tx, sweep, faults>>

(***************************************************************************)
(* One turn of dispatch's loop: markDispatched is guarded by               *)
(* dispatched_at IS NULL alone and writes status whatever it was.  A       *)
(* failed statement skips the platform.                                    *)
(***************************************************************************)
Dispatch(r, p) ==
  LET a == <<r, p>> IN
  /\ p \in dispatching[r]
  /\ ~Locked(a)
  /\ dispatching' = [dispatching EXCEPT ![r] = @ \ {p}]
  /\ \E ok \in BOOLEAN :
       /\ Outcome(ok)
       /\ IF ok /\ asgStatus[a] # "none" /\ a \notin dispatched
            THEN /\ asgStatus' = [asgStatus EXCEPT ![a] = "acknowledged"]
                 /\ dispatched' = dispatched \cup {a}
            ELSE UNCHANGED <<asgStatus, dispatched>>
  /\ UNCHANGED <<platforms, reqVars, phase, responded, reminders, escalated, answers, tx, sweep>>

\* The process serving the ingest request dies between two turns of the loop.
DispatchCrash(r) ==
  /\ dispatching[r] # {}
  /\ Outcome(FALSE)
  /\ dispatching' = [dispatching EXCEPT ![r] = {}]
  /\ UNCHANGED <<platforms, reqVars, asgVars, tx, sweep>>

----------------------------------------------------------------------------
\* respond: a transaction of three statements, then the notice upstream

\* UPDATE relay_assignments ... WHERE status NOT IN ('done','rejected')
RespondUpdate(c, a, answer) ==
  /\ tx[c].pc = "idle"
  /\ asgStatus[a] \notin Terminal \cup {"none"}
  /\ ~Locked(a)
  /\ answers[a] < MaxAnswers
  /\ tx' = [tx EXCEPT ![c] = [NoTx EXCEPT !.pc = "updated", !.asg = a, !.answer = answer]]
  /\ UNCHANGED <<platforms, reqVars, asgVars, dispatching, sweep, faults>>

\* What the count statement of the transaction on a finds open: its own row is answered.
OpenStatus == AsgStatus \ (Terminal \cup {"none"})
OpenButOverdue(a) == {b \in AssignmentsOf(RequestOf(a)) \ {a} : asgStatus[b] \in DueSoon}
OpenWithOwn(a) == {b \in AssignmentsOf(RequestOf(a)) : asgStatus[b] \in OpenStatus}
OpenBut(a) == {b \in AssignmentsOf(RequestOf(a)) \ {a} : asgStatus[b] \in OpenStatus}

\* SELECT count(*) ... WHERE status NOT IN ('done','rejected')
RespondCount(c) ==
  /\ tx[c].pc = "updated"
  /\ tx' = [tx EXCEPT ![c] = [@ EXCEPT !.pc = IF OpenBut(tx[c].asg) = {} THEN "last" ELSE "more"]]
  /\ UNCHANGED <<platforms, reqVars, asgVars, dispatching, sweep, faults>>

\* The request's status while answers are still missing.
AfterAnswerAlways(s) == "in_progress"
AfterAnswerAsgStatus(s) == IF s \in {"received", "dispatched"} THEN "acknowledged" ELSE s
AfterAnswer(s) == IF s \in {"received", "dispatched"} THEN "in_progress" ELSE s

(***************************************************************************)
(* The UPDATE of the request, and COMMIT.  The two are one step: the row   *)
(* lock on the request keeps everyone else off it in between.              *)
(***************************************************************************)
RespondCommit(c) ==
  LET a == tx[c].asg
      r == RequestOf(a)
  IN
  /\ tx[c].pc \in {"last", "more"}
  /\ asgStatus' = [asgStatus EXCEPT ![a] = tx[c].answer]
  /\ responded' = responded \cup {a}
  /\ answers' = [answers EXCEPT ![a] = @ + 1]
  /\ IF tx[c].pc = "last"
       THEN /\ reqStatus' = [reqStatus EXCEPT ![r] = "fulfilled"]
            /\ tx' = [tx EXCEPT ![c] = [NoTx EXCEPT !.pc = "committed", !.asg = a]]
       ELSE /\ reqStatus' = [reqStatus EXCEPT ![r] = AfterAnswer(@)]
            /\ tx' = [tx EXCEPT ![c] = NoTx]
  /\ UNCHANGED <<platforms, breachNotified, told, phase, dispatched, reminders, escalated,
                 dispatching, sweep, faults>>

\* A statement of the transaction fails or the process dies: ROLLBACK.
RespondAbort(c) ==
  /\ InTx(c)
  /\ Outcome(FALSE)
  /\ tx' = [tx EXCEPT ![c] = NoTx]
  /\ UNCHANGED <<platforms, reqVars, asgVars, dispatching, sweep>>

\* After COMMIT: the fulfilled event and the webhook; lost if the process dies first.
RespondNotify(c) ==
  /\ tx[c].pc = "committed"
  /\ tx' = [tx EXCEPT ![c] = NoTx]
  /\ \E ok \in BOOLEAN :
       /\ Outcome(ok)
       /\ told' = IF ok THEN [told EXCEPT ![RequestOf(tx[c].asg)].fulfilled = @ + 1] ELSE told
  /\ UNCHANGED <<platforms, reqStatus, breachNotified, asgVars, dispatching, sweep>>

----------------------------------------------------------------------------
\* slaSweep: one statement at a time, on rows read before

\* relayRemindersDue, for an assignment that dueSoonAssignments returns
RemindersDue(a) == IF a \in dispatched THEN phase[a] ELSE 0

\* What is still to be sent, by the reminders_sent of the row read.
RemindersOwedAgain(a) == RemindersDue(a)
RemindersOwed(a) == RemindersDue(a) - reminders[a]

\* "now" is read once, then dueSoonAssignments.
SweepStart(w) ==
  LET soon == {a \in Assignments : asgStatus[a] \in DueSoon /\ phase[a] < Late} IN
  /\ sweep[w].pc = "idle"
  /\ sweep' = [sweep EXCEPT ![w] =
       [NoSweep EXCEPT !.pc = "remind",
                       !.late = {a \in Assignments : phase[a] = GraceOver},
                       !.due = {<<a, RemindersOwed(a)>> : a \in {b \in soon : RemindersOwed(b) > 0}}]]
  /\ UNCHANGED <<platforms, reqVars, asgVars, dispatching, tx, faults>>

\* incReminders as often as the row read before asked for; a failure ends the row.
SweepRemind(w) ==
  /\ sweep[w].pc = "remind"
  /\ \E d \in sweep[w].due : \E n \in 0 .. d[2] :
       /\ Outcome(n = d[2])
       /\ ~Locked(d[1])
       /\ reminders' = [reminders EXCEPT ![d[1]] = IF asgStatus[d[1]] = "none" THEN @ ELSE @ + n]
       /\ sweep' = [sweep EXCEPT ![w].due = @ \ {d}]
  /\ UNCHANGED <<platforms, reqVars, asgStatus, phase, dispatched, responded, escalated, answers,
                 dispatching, tx>>

\* overdueAssignments: the rows the rest of this sweep works from.
OverdueFirstTime == {a \in Assignments : asgStatus[a] \in DueSoon /\ phase[a] >= Late}
OverdueAssignments ==
  {a \in Assignments : asgStatus[a] \in DueSoon \cup {"overdue"} /\ phase[a] >= Late}

SweepRead(w) ==
  /\ sweep[w].pc = "remind"
  /\ sweep[w].due = {}
  /\ sweep' = [sweep EXCEPT ![w] =
       [@ EXCEPT !.pc = "row",
                 !.rows = {[asg |-> a, overdue |-> asgStatus[a] = "overdue", escalated |-> a \in escalated] :
                             a \in OverdueAssignments}]]
  /\ UNCHANGED <<platforms, reqVars, asgVars, dispatching, tx, faults>>

\* markAssignmentOverdue, guarded by status <> 'overdue' alone.
SweepMarkAssignment(w) ==
  /\ sweep[w].pc = "row"
  /\ \E row \in sweep[w].rows, ok \in BOOLEAN :
       /\ Outcome(ok)
       /\ IF row.overdue
            THEN ok /\ UNCHANGED asgStatus
            ELSE /\ ~Locked(row.asg)
                 /\ asgStatus' = [asgStatus EXCEPT ![row.asg] =
                                    IF ok /\ @ # "none" THEN "overdue" ELSE @]
       /\ sweep' = [sweep EXCEPT ![w].pc = "request", ![w].row = row, ![w].rows = @ \ {row}]
  /\ UNCHANGED <<platforms, reqVars, phase, dispatched, responded, reminders, escalated, answers,
                 dispatching, tx>>

\* markRequestOverdue, guarded by NOT IN ('fulfilled','rejected','overdue').
MarkableAlways(s) == s # "overdue"
MarkableOverdue(s) == s \notin {"fulfilled", "rejected", "overdue"}

SweepMarkRequest(w) ==
  /\ sweep[w].pc = "request"
  /\ \E ok \in BOOLEAN :
       /\ Outcome(ok)
       /\ reqStatus' = [reqStatus EXCEPT ![RequestOf(sweep[w].row.asg)] =
                          IF ok /\ MarkableOverdue(@) THEN "overdue" ELSE @]
  /\ sweep' = [sweep EXCEPT ![w].pc = "escalate"]
  /\ UNCHANGED <<platforms, breachNotified, told, asgVars, dispatching, tx>>

\* markEscalated, unless the row read before was escalated or is within grace.
SweepEscalate(w) ==
  LET row == sweep[w].row IN
  /\ sweep[w].pc = "escalate"
  /\ IF ~row.escalated /\ row.asg \in sweep[w].late
       THEN \E ok \in BOOLEAN :
              /\ Outcome(ok)
              /\ ~Locked(row.asg)
              /\ escalated' = IF ok /\ asgStatus[row.asg] # "none"
                                THEN escalated \cup {row.asg} ELSE escalated
       ELSE UNCHANGED <<escalated, faults>>
  /\ sweep' = [sweep EXCEPT ![w].pc = IF RequestOf(row.asg) \in sweep[w].seen THEN "row" ELSE "breach"]
  /\ UNCHANGED <<platforms, reqVars, asgStatus, phase, dispatched, responded, reminders, answers,
                 dispatching, tx>>

\* markBreachNotified: the latch, set only while it is still false.
LatchAlways(r) == TRUE
LatchFlips(r) == r \notin breachNotified

SweepBreach(w) ==
  LET r == RequestOf(sweep[w].row.asg) IN
  /\ sweep[w].pc = "breach"
  /\ \E ok \in BOOLEAN :
       /\ Outcome(ok)
       /\ breachNotified' = IF ok THEN breachNotified \cup {r} ELSE breachNotified
       /\ sweep' = [sweep EXCEPT ![w].seen = @ \cup {r},
                                 ![w].pc = IF ok /\ LatchFlips(r) THEN "notify" ELSE "row"]
  /\ UNCHANGED <<platforms, reqStatus, told, asgVars, dispatching, tx>>

\* The breach event and the webhook of the sweep that flipped the latch.
SweepNotify(w) ==
  /\ sweep[w].pc = "notify"
  /\ \E ok \in BOOLEAN :
       /\ Outcome(ok)
       /\ told' = IF ok THEN [told EXCEPT ![RequestOf(sweep[w].row.asg)].breach = @ + 1] ELSE told
  /\ sweep' = [sweep EXCEPT ![w].pc = "row"]
  /\ UNCHANGED <<platforms, reqStatus, breachNotified, asgVars, dispatching, tx>>

SweepEnd(w) ==
  /\ sweep[w].pc = "row"
  /\ sweep[w].rows = {}
  /\ sweep' = [sweep EXCEPT ![w] = NoSweep]
  /\ UNCHANGED <<platforms, reqVars, asgVars, dispatching, tx, faults>>

\* The instance dies in the middle of its sweep and is restarted.
SweepCrash(w) ==
  /\ sweep[w].pc # "idle"
  /\ Outcome(FALSE)
  /\ sweep' = [sweep EXCEPT ![w] = NoSweep]
  /\ UNCHANGED <<platforms, reqVars, asgVars, dispatching, tx>>

SweepStep(w) ==
  \/ SweepStart(w) \/ SweepRemind(w) \/ SweepRead(w) \/ SweepMarkAssignment(w)
  \/ SweepMarkRequest(w) \/ SweepEscalate(w) \/ SweepBreach(w) \/ SweepNotify(w) \/ SweepEnd(w)

----------------------------------------------------------------------------
\* The environment

\* Time passes.  The reminder thresholds count from dispatched_at.
Tick(a) ==
  /\ asgStatus[a] # "none"
  /\ \E ph \in Readings :
       /\ ph > phase[a]
       /\ ph < Late => a \in dispatched
       /\ phase' = [phase EXCEPT ![a] = ph]
  /\ UNCHANGED <<platforms, reqVars, asgStatus, dispatched, responded, reminders, escalated,
                 answers, dispatching, tx, sweep, faults>>

(***************************************************************************)
(* deletePlatform: ON DELETE CASCADE removes the platform's assignments,   *)
(* waiting for the transactions that hold their rows.                      *)
(***************************************************************************)
DeletePlatform(p) ==
  /\ p \in platforms
  /\ Cardinality(Platforms \ platforms) < MaxDeletes
  /\ \A r \in Requests : ~Locked(<<r, p>>)
  /\ platforms' = platforms \ {p}
  /\ asgStatus' = [a \in Assignments |-> IF a[2] = p THEN "none" ELSE asgStatus[a]]
  /\ UNCHANGED <<reqVars, phase, dispatched, responded, reminders, escalated, answers,
                 dispatching, tx, sweep, faults>>

Respond(c) ==
  \/ \E a \in Assignments, answer \in Verdicts : RespondUpdate(c, a, answer)
  \/ RespondCount(c) \/ RespondCommit(c) \/ RespondAbort(c) \/ RespondNotify(c)

Next ==
  \/ \E r \in Requests :
       \/ \E ps \in SUBSET platforms, ph \in ({0} \cup Readings) \ {1, 2} : Ingest(r, ps, ph)
       \/ \E p \in Platforms : Dispatch(r, p)
       \/ DispatchCrash(r)
  \/ \E c \in Clients : Respond(c)
  \/ \E w \in Workers : SweepStep(w) \/ SweepCrash(w)
  \/ \E a \in Assignments : Tick(a)
  \/ \E p \in Platforms : DeletePlatform(p)

Spec == Init /\ [][Next]_vars

(***************************************************************************)
(* The worker's timer re-arms itself after every sweep, so a sweep always  *)
(* takes its next step and the next sweep always comes; a transaction that *)
(* was begun is committed or rolled back.                                  *)
(***************************************************************************)
Fairness ==
  /\ \A w \in Workers : WF_vars(SweepStep(w))
  /\ \A c \in Clients : WF_vars(RespondCount(c) \/ RespondCommit(c) \/ RespondNotify(c))

FairSpec == Spec /\ Fairness

----------------------------------------------------------------------------
\* Properties

RequestsOK ==
  /\ reqStatus \in [Requests -> ReqStatus]
  /\ breachNotified \subseteq Requests
  /\ told \in [Requests -> [breach : Nat, fulfilled : Nat]]
  /\ dispatching \in [Requests -> SUBSET Platforms]

AssignmentsOK ==
  /\ asgStatus \in [Assignments -> AsgStatus]
  /\ phase \in [Assignments -> 0 .. GraceOver]
  /\ dispatched \subseteq Assignments
  /\ responded \subseteq Assignments
  /\ reminders \in [Assignments -> Nat]
  /\ escalated \subseteq Assignments
  /\ answers \in [Assignments -> Nat]

TxsOK ==
  /\ tx \in [Clients -> Txs]
  /\ \A c \in Clients : /\ tx[c].pc # "idle" => tx[c].asg \in Assignments
                        /\ InTx(c) => tx[c].answer \in Terminal

SweepsOK ==
  /\ sweep \in [Workers -> Sweeps]
  /\ \A w \in Workers : sweep[w].pc \in InRow => sweep[w].row \in Rows

\* The variables have the types of the columns and of the handlers' locals they stand for.
TypeOK ==
  /\ platforms \subseteq Platforms
  /\ RequestsOK
  /\ AssignmentsOK
  /\ TxsOK
  /\ SweepsOK
  /\ faults \in 0 .. MaxFaults

(***************************************************************************)
(* A fulfilled request was answered by every platform it was sent to.      *)
(* respondAssignment decides on a count taken in one statement and writes  *)
(* the request in the next, while other answers, sweeps and deletions      *)
(* commit in between.                                                      *)
(***************************************************************************)
FulfilledWasAnswered ==
  \A r \in Requests : reqStatus[r] = "fulfilled" =>
    \A a \in AssignmentsOf(r) : asgStatus[a] = "none" \/ a \in responded

(***************************************************************************)
(* No step takes a request out of fulfilled: neither a sweep working from  *)
(* rows it read before the last answer nor a late answer that counted      *)
(* before it.                                                              *)
(***************************************************************************)
FulfilledIsFinal ==
  [][\A r \in Requests : reqStatus[r] = "fulfilled" => reqStatus'[r] = "fulfilled"]_vars

(***************************************************************************)
(* The upstream peer hears of a breach at most once per request, however   *)
(* many sweeps run at the same time and whenever they crash: the promise   *)
(* of the breach_notified latch.                                           *)
(***************************************************************************)
BreachToldOnce == \A r \in Requests : told[r].breach <= 1

(***************************************************************************)
(* A platform gets at most one reminder per threshold of its SLA window,   *)
(* across sweeps, late dispatch and crashes in the middle of a sweep, as   *)
(* long as one sweep runs at a time.                                       *)
(***************************************************************************)
RemindedOncePerThreshold == \A a \in Assignments : reminders[a] <= Thresholds

(***************************************************************************)
(* The transaction's promise: once every assignment of a request is        *)
(* terminal and no answer is in flight, the request is fulfilled.          *)
(***************************************************************************)
AnsweredMeansFulfilled ==
  \A r \in Requests :
    LET mine == {a \in AssignmentsOf(r) : asgStatus[a] # "none"} IN
    (mine # {} /\ \A a \in mine : asgStatus[a] \in Terminal /\ ~Locked(a))
      => reqStatus[r] = "fulfilled"

(***************************************************************************)
(* Whatever happened to the dispatch, an assignment whose grace has run    *)
(* out is answered, deleted with its platform, or escalated in the end:    *)
(* a crashed sweep or a failed statement only delays it.                   *)
(***************************************************************************)
UnansweredIsEscalated ==
  \A a \in Assignments :
    (asgStatus[a] # "none" /\ phase[a] = GraceOver)
      ~> (a \in escalated \/ a \in responded \/ asgStatus[a] = "none")

\* What the upstream peer is told of a status, and the platforms that have not answered.
Shown(s) == IF s \in {"none", "fulfilled"} THEN s ELSE IF s = "overdue" THEN "late" ELSE "open"
Unanswered(r) == {p \in Platforms : asgStatus[<<r, p>>] # "none" /\ <<r, p>> \notin responded}

Contract == INSTANCE RelayContract WITH
  state <- [r \in Requests |-> Shown(reqStatus[r])],
  owed <- [r \in Requests |-> Unanswered(r)],
  breached <- breachNotified

(***************************************************************************)
(* The handlers and sweeps, interleaved statement by statement, implement  *)
(* the contract with the upstream peers.                                   *)
(***************************************************************************)
ImplementsContract == Contract!CSpec
==============================================================================
