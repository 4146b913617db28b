----------------------------- MODULE RelayProofs -----------------------------
(***************************************************************************)
(* Theorems about Relay, for any set of requests, platforms, instances and *)
(* clients and any bounds.                                                 *)
(***************************************************************************)
EXTENDS Relay, TLAPS

LEMMA OutcomeType ==
  ASSUME faults \in 0 .. MaxFaults, NEW ok \in BOOLEAN, Outcome(ok)
  PROVE  faults' \in 0 .. MaxFaults
  BY RelayAssumption DEF Outcome

LEMMA TxsFrame == TxsOK /\ UNCHANGED tx => TxsOK'
  BY DEF TxsOK, InTx

LEMMA SweepsFrame == SweepsOK /\ UNCHANGED sweep => SweepsOK'
  BY DEF SweepsOK

LEMMA RequestsFrame == RequestsOK /\ UNCHANGED <<reqVars, dispatching>> => RequestsOK'
  BY DEF RequestsOK, reqVars

LEMMA AssignmentsFrame == AssignmentsOK /\ UNCHANGED asgVars => AssignmentsOK'
  BY DEF AssignmentsOK, asgVars

LEMMA IngestType ==
  ASSUME TypeOK, NEW r \in Requests, NEW ps \in SUBSET platforms,
         NEW ph \in ({0} \cup Readings) \ {1, 2}, Ingest(r, ps, ph)
  PROVE  TypeOK'
  <1>1. ph \in 0 .. GraceOver
    BY RelayAssumption DEF GraceOver
  <1>2. RequestsOK'
    BY DEF TypeOK, RequestsOK, Ingest, CreateRequest, ReqStatus
  <1>3. AssignmentsOK'
    BY <1>1 DEF TypeOK, AssignmentsOK, Ingest, CreateRequest, AsgStatus, DueSoon
  <1> QED
    BY <1>2, <1>3, TxsFrame, SweepsFrame DEF TypeOK, Ingest

LEMMA DispatchType ==
  ASSUME TypeOK, NEW r \in Requests, NEW p \in Platforms, Dispatch(r, p)
  PROVE  TypeOK'
  <1>1. <<r, p>> \in Assignments
    BY DEF Assignments
  <1>2. faults' \in 0 .. MaxFaults
    BY OutcomeType DEF TypeOK, Dispatch
  <1>3. AssignmentsOK'
    BY <1>1 DEF TypeOK, AssignmentsOK, Dispatch, AsgStatus, DueSoon
  <1>4. RequestsOK'
    BY DEF TypeOK, RequestsOK, Dispatch, reqVars
  <1> QED
    BY <1>2, <1>3, <1>4, TxsFrame, SweepsFrame DEF TypeOK, Dispatch

LEMMA DispatchCrashType ==
  ASSUME TypeOK, NEW r \in Requests, DispatchCrash(r)
  PROVE  TypeOK'
  <1>1. faults' \in 0 .. MaxFaults
    BY OutcomeType DEF TypeOK, DispatchCrash
  <1>2. RequestsOK'
    BY DEF TypeOK, RequestsOK, DispatchCrash, reqVars
  <1> QED
    BY <1>1, <1>2, AssignmentsFrame, TxsFrame, SweepsFrame DEF TypeOK, DispatchCrash

LEMMA RespondType ==
  ASSUME TypeOK, NEW c \in Clients, Respond(c)
  PROVE  TypeOK'
  <1>1. ASSUME NEW a \in Assignments, NEW answer \in Verdicts, RespondUpdate(c, a, answer)
        PROVE  TypeOK'
    <2>1. TxsOK'
      BY <1>1, RelayAssumption DEF TypeOK, TxsOK, RespondUpdate, Txs, NoTx, Terminal, InTx
    <2> QED
      BY <1>1, <2>1, RequestsFrame, AssignmentsFrame, SweepsFrame DEF TypeOK, RespondUpdate
  <1>2. CASE RespondCount(c)
    <2>1. TxsOK'
      BY <1>2 DEF TypeOK, TxsOK, RespondCount, Txs, InTx
    <2> QED
      BY <1>2, <2>1, RequestsFrame, AssignmentsFrame, SweepsFrame DEF TypeOK, RespondCount
  <1>3. CASE RespondCommit(c)
    <2>1. tx[c].asg \in Assignments /\ tx[c].answer \in Terminal /\ RequestOf(tx[c].asg) \in Requests
      BY <1>3 DEF TypeOK, TxsOK, RespondCommit, InTx, Assignments, RequestOf
    <2>2. TxsOK'
      <3>1. tx' = [tx EXCEPT ![c] = IF tx[c].pc = "last"
                                      THEN [pc |-> "committed", asg |-> tx[c].asg, answer |-> "none"]
                                      ELSE NoTx]
        BY <1>3 DEF RespondCommit, NoTx
      <3> QED
        BY <2>1, <3>1 DEF TypeOK, TxsOK, Txs, NoTx, InTx
    <2>3. AssignmentsOK'
      BY <1>3, <2>1 DEF TypeOK, AssignmentsOK, RespondCommit, AsgStatus
    <2>4. RequestsOK'
      BY <1>3, <2>1 DEF TypeOK, RequestsOK, RespondCommit, ReqStatus, AfterAnswer
    <2> QED
      BY <1>3, <2>2, <2>3, <2>4, SweepsFrame DEF TypeOK, RespondCommit
  <1>4. CASE RespondAbort(c)
    <2>1. TxsOK'
      BY <1>4 DEF TypeOK, TxsOK, RespondAbort, Txs, NoTx, Terminal, InTx
    <2>2. faults' \in 0 .. MaxFaults
      BY <1>4, OutcomeType DEF TypeOK, RespondAbort
    <2> QED
      BY <1>4, <2>1, <2>2, RequestsFrame, AssignmentsFrame, SweepsFrame DEF TypeOK, RespondAbort
  <1>5. CASE RespondNotify(c)
    <2>1. TxsOK'
      BY <1>5 DEF TypeOK, TxsOK, RespondNotify, Txs, NoTx, Terminal, InTx
    <2>2. faults' \in 0 .. MaxFaults
      BY <1>5, OutcomeType DEF TypeOK, RespondNotify
    <2>3. RequestsOK'
      <3>1. told' \in [Requests -> [breach : Nat, fulfilled : Nat]]
        <4> DEFINE r == RequestOf(tx[c].asg)
        <4>1. \/ told' = told
              \/ told' = [told EXCEPT ![r] = [told[r] EXCEPT !.fulfilled = told[r].fulfilled + 1]]
          BY <1>5 DEF RespondNotify
        <4> QED
          BY <4>1 DEF TypeOK, RequestsOK
      <3> QED
        BY <1>5, <3>1 DEF TypeOK, RequestsOK, RespondNotify
    <2> QED
      BY <1>5, <2>1, <2>2, <2>3, AssignmentsFrame, SweepsFrame DEF TypeOK, RespondNotify
  <1> QED
    BY <1>1, <1>2, <1>3, <1>4, <1>5 DEF Respond

LEMMA SweepStepType ==
  ASSUME TypeOK, NEW w \in Workers, SweepStep(w)
  PROVE  TypeOK'
  <1>1. CASE SweepStart(w)
    <2>1. SweepsOK'
      <3> DEFINE late == {a \in Assignments : phase[a] = GraceOver}
                 soon == {a \in Assignments : asgStatus[a] \in DueSoon /\ phase[a] < Late}
                 owing == {b \in soon : RemindersOwed(b) > 0}
                 due == {<<a, RemindersOwed(a)>> : a \in owing}
      <3>1. \A a \in Assignments : RemindersOwed(a) \in Int
        BY DEF RemindersOwed, RemindersDue, TypeOK, AssignmentsOK, GraceOver
      <3>2. due \in SUBSET (Assignments \X Nat)
        BY <3>1
      <3> DEFINE s == [NoSweep EXCEPT !.pc = "remind", !.late = late, !.due = due]
      <3>3. sweep' = [sweep EXCEPT ![w] = s]
        BY <1>1 DEF SweepStart
      <3>4. late \in SUBSET Assignments
        OBVIOUS
      <3>5. s \in Sweeps /\ s.pc = "remind"
        <4> HIDE DEF due, late
        <4> QED
          BY <3>2, <3>4 DEF Sweeps, NoSweep
      <3> HIDE DEF s
      <3> QED
        BY <3>3, <3>5 DEF TypeOK, SweepsOK, InRow
    <2> QED
      BY <1>1, <2>1, RequestsFrame, AssignmentsFrame, TxsFrame DEF TypeOK, SweepStart
  <1>2. CASE SweepRemind(w)
    <2> DEFINE Sent(d, n) ==
                 /\ Outcome(n = d[2])
                 /\ reminders' = [reminders EXCEPT ![d[1]] =
                                    IF asgStatus[d[1]] = "none" THEN @ ELSE @ + n]
                 /\ sweep' = [sweep EXCEPT ![w].due = @ \ {d}]
    <2>0. PICK d \in sweep[w].due : \E n \in 0 .. d[2] : Sent(d, n)
      BY <1>2 DEF SweepRemind
    <2>1. PICK n \in 0 .. d[2] : Sent(d, n)
      BY <2>0
    <2>2. d \in Assignments \X Nat
      BY DEF TypeOK, SweepsOK, Sweeps
    <2>3. AssignmentsOK'
      <3>1. d[1] \in Assignments /\ n \in Nat
        BY <2>2
      <3>2. reminders' \in [Assignments -> Nat]
        BY <2>1, <3>1 DEF TypeOK, AssignmentsOK
      <3> QED
        BY <1>2, <3>2 DEF TypeOK, AssignmentsOK, SweepRemind
    <2>4. SweepsOK'
      BY <2>1 DEF TypeOK, SweepsOK, Sweeps
    <2>5. faults' \in 0 .. MaxFaults
      BY <2>1, OutcomeType DEF TypeOK
    <2> QED
      BY <1>2, <2>3, <2>4, <2>5, RequestsFrame, TxsFrame DEF TypeOK, SweepRemind
  <1>3. CASE SweepRead(w)
    <2>1. SweepsOK'
      <3> DEFINE rows == {[asg |-> a, overdue |-> asgStatus[a] = "overdue",
                           escalated |-> a \in escalated] : a \in OverdueAssignments}
      <3>1. ASSUME NEW a \in Assignments
            PROVE  [asg |-> a, overdue |-> asgStatus[a] = "overdue",
                    escalated |-> a \in escalated] \in Rows
        <4>1. (asgStatus[a] = "overdue") \in BOOLEAN /\ (a \in escalated) \in BOOLEAN
          OBVIOUS
        <4> QED
          BY <4>1, Zenon DEF Rows
      <3>0. rows \in SUBSET Rows
        BY <3>1 DEF OverdueAssignments
      <3>2. sweep' = [sweep EXCEPT ![w] = [@ EXCEPT !.pc = "row", !.rows = rows]]
        BY <1>3 DEF SweepRead
      <3> HIDE DEF rows
      <3> QED
        BY <3>0, <3>2 DEF TypeOK, SweepsOK, Sweeps, InRow
    <2> QED
      BY <1>3, <2>1, RequestsFrame, AssignmentsFrame, TxsFrame DEF TypeOK, SweepRead
  <1>4. CASE SweepMarkAssignment(w)
    <2>1. PICK row \in sweep[w].rows, ok \in BOOLEAN :
            /\ Outcome(ok)
            /\ IF row.overdue
                 THEN ok /\ UNCHANGED asgStatus
                 ELSE /\ ~Locked(row.asg)
                      /\ asgStatus' = [asgStatus EXCEPT ![row.asg] =
                                         IF ok /\ @ # "none" THEN "overdue" ELSE @]
            /\ sweep' = [sweep EXCEPT ![w].pc = "request", ![w].row = row, ![w].rows = @ \ {row}]
      BY <1>4 DEF SweepMarkAssignment
    <2>2. row \in Rows
      BY <2>1 DEF TypeOK, SweepsOK, Sweeps
    <2>3. AssignmentsOK'
      BY <1>4, <2>1, <2>2 DEF TypeOK, AssignmentsOK, SweepMarkAssignment, AsgStatus, Rows
    <2>4. SweepsOK'
      BY <2>1, <2>2 DEF TypeOK, SweepsOK, Sweeps, InRow
    <2>5. faults' \in 0 .. MaxFaults
      BY <2>1, OutcomeType DEF TypeOK
    <2> QED
      BY <1>4, <2>3, <2>4, <2>5, RequestsFrame, TxsFrame DEF TypeOK, SweepMarkAssignment
  <1>5. CASE SweepMarkRequest(w)
    <2>1. RequestsOK'
      BY <1>5 DEF TypeOK, RequestsOK, SweepMarkRequest, ReqStatus
    <2>2. SweepsOK'
      BY <1>5 DEF TypeOK, SweepsOK, Sweeps, InRow, SweepMarkRequest
    <2>3. faults' \in 0 .. MaxFaults
      BY <1>5, OutcomeType DEF TypeOK, SweepMarkRequest
    <2> QED
      BY <1>5, <2>1, <2>2, <2>3, AssignmentsFrame, TxsFrame DEF TypeOK, SweepMarkRequest
  <1>6. CASE SweepEscalate(w)
    <2>1. sweep[w].row \in Rows
      BY <1>6 DEF TypeOK, SweepsOK, InRow, SweepEscalate
    <2>2. AssignmentsOK'
      BY <1>6, <2>1 DEF TypeOK, AssignmentsOK, SweepEscalate, Rows
    <2>3. SweepsOK'
      BY <1>6, <2>1 DEF TypeOK, SweepsOK, Sweeps, InRow, SweepEscalate
    <2>4. faults' \in 0 .. MaxFaults
      BY <1>6, OutcomeType DEF TypeOK, SweepEscalate
    <2> QED
      BY <1>6, <2>2, <2>3, <2>4, RequestsFrame, TxsFrame DEF TypeOK, SweepEscalate
  <1>7. CASE SweepBreach(w)
    <2>1. sweep[w].row \in Rows /\ RequestOf(sweep[w].row.asg) \in Requests
      BY <1>7 DEF TypeOK, SweepsOK, InRow, SweepBreach, Rows, RequestOf, Assignments
    <2>2. RequestsOK'
      BY <1>7, <2>1 DEF TypeOK, RequestsOK, SweepBreach
    <2>3. SweepsOK'
      BY <1>7, <2>1 DEF TypeOK, SweepsOK, Sweeps, InRow, SweepBreach
    <2>4. faults' \in 0 .. MaxFaults
      BY <1>7, OutcomeType DEF TypeOK, SweepBreach
    <2> QED
      BY <1>7, <2>2, <2>3, <2>4, AssignmentsFrame, TxsFrame DEF TypeOK, SweepBreach
  <1>8. CASE SweepNotify(w)
    <2>1. RequestsOK'
      <3> DEFINE r == RequestOf(sweep[w].row.asg)
      <3>0. r \in Requests
        BY <1>8 DEF TypeOK, SweepsOK, InRow, SweepNotify, Rows, RequestOf, Assignments
      <3>1. \/ told' = told
            \/ told' = [told EXCEPT ![r] = [told[r] EXCEPT !.breach = told[r].breach + 1]]
        BY <1>8 DEF SweepNotify
      <3> QED
        BY <1>8, <3>0, <3>1 DEF TypeOK, RequestsOK, SweepNotify
    <2>2. SweepsOK'
      BY <1>8 DEF TypeOK, SweepsOK, Sweeps, InRow, SweepNotify
    <2>3. faults' \in 0 .. MaxFaults
      BY <1>8, OutcomeType DEF TypeOK, SweepNotify
    <2> QED
      BY <1>8, <2>1, <2>2, <2>3, AssignmentsFrame, TxsFrame DEF TypeOK, SweepNotify
  <1>9. CASE SweepEnd(w)
    <2>1. SweepsOK'
      BY <1>9 DEF TypeOK, SweepsOK, Sweeps, InRow, SweepEnd, NoSweep
    <2> QED
      BY <1>9, <2>1, RequestsFrame, AssignmentsFrame, TxsFrame DEF TypeOK, SweepEnd
  <1> QED
    BY <1>1, <1>2, <1>3, <1>4, <1>5, <1>6, <1>7, <1>8, <1>9 DEF SweepStep

LEMMA SweepCrashType ==
  ASSUME TypeOK, NEW w \in Workers, SweepCrash(w)
  PROVE  TypeOK'
  <1>1. SweepsOK'
    BY DEF TypeOK, SweepsOK, Sweeps, InRow, SweepCrash, NoSweep
  <1>2. faults' \in 0 .. MaxFaults
    BY OutcomeType DEF TypeOK, SweepCrash
  <1> QED
    BY <1>1, <1>2, RequestsFrame, AssignmentsFrame, TxsFrame DEF TypeOK, SweepCrash

LEMMA TickType ==
  ASSUME TypeOK, NEW a \in Assignments, Tick(a)
  PROVE  TypeOK'
  <1>1. AssignmentsOK'
    BY RelayAssumption DEF TypeOK, AssignmentsOK, Tick, GraceOver
  <1> QED
    BY <1>1, RequestsFrame, TxsFrame, SweepsFrame DEF TypeOK, Tick

LEMMA DeletePlatformType ==
  ASSUME TypeOK, NEW p \in Platforms, DeletePlatform(p)
  PROVE  TypeOK'
  <1>1. AssignmentsOK'
    BY DEF TypeOK, AssignmentsOK, DeletePlatform, AsgStatus
  <1> QED
    BY <1>1, RequestsFrame, TxsFrame, SweepsFrame DEF TypeOK, DeletePlatform

LEMMA InitType == Init => TypeOK
  <1> SUFFICES ASSUME Init PROVE TypeOK
    OBVIOUS
  <1>1. RequestsOK
    BY DEF Init, RequestsOK, ReqStatus
  <1>2. AssignmentsOK
    BY DEF Init, AssignmentsOK, AsgStatus, GraceOver
  <1>3. TxsOK
    BY DEF Init, TxsOK, Txs, NoTx, InTx
  <1>4. SweepsOK
    BY DEF Init, SweepsOK, Sweeps, NoSweep, InRow
  <1> QED
    BY <1>1, <1>2, <1>3, <1>4, RelayAssumption DEF Init, TypeOK

LEMMA NextType == TypeOK /\ [Next]_vars => TypeOK'
  <1> SUFFICES ASSUME TypeOK, [Next]_vars PROVE TypeOK'
    OBVIOUS
  <1>1. CASE UNCHANGED vars
    BY <1>1, RequestsFrame, AssignmentsFrame, TxsFrame, SweepsFrame DEF vars, TypeOK
  <1> QED
    BY <1>1, IngestType, DispatchType, DispatchCrashType, RespondType, SweepStepType,
       SweepCrashType, TickType, DeletePlatformType DEF Next

(***************************************************************************)
(* Every row and every local of a handler keeps its type, whatever the     *)
(* interleaving of the statements of relay_postgres.ts.                    *)
(***************************************************************************)
THEOREM TypeCorrect == Spec => []TypeOK
  BY InitType, NextType, PTL DEF Spec

----------------------------------------------------------------------------
(***************************************************************************)
(* A fulfilled request was answered by everyone.  The count of             *)
(* respondAssignment is taken before the request is written, so the        *)
(* inductive invariant carries what the count saw until COMMIT: nothing    *)
(* un-answers a platform, and no assignment is added to a known request.   *)
(***************************************************************************)
Answered(a) == asgStatus[a] = "none" \/ a \in responded

TerminalWasAnswered ==
  \A a \in Assignments : asgStatus[a] \in Terminal => a \in responded

KnownRequest ==
  /\ \A a \in Assignments : asgStatus[a] # "none" => reqStatus[RequestOf(a)] # "none"
  /\ \A c \in Clients : InTx(c) => reqStatus[RequestOf(tx[c].asg)] # "none"

CountStillTrue ==
  \A c \in Clients : tx[c].pc = "last" =>
    \A b \in AssignmentsOf(RequestOf(tx[c].asg)) \ {tx[c].asg} : Answered(b)

AnswersInv ==
  TypeOK /\ TerminalWasAnswered /\ KnownRequest /\ CountStillTrue /\ FulfilledWasAnswered

\* A step that answers nothing, opens nothing and decides no transaction.
Quiet ==
  /\ responded' = responded
  /\ \A a \in Assignments :
       \/ asgStatus'[a] = asgStatus[a]
       \/ asgStatus'[a] = "none"
       \/ asgStatus[a] # "none" /\ asgStatus'[a] \notin Terminal
  /\ \A r \in Requests :
       reqStatus'[r] = reqStatus[r] \/ reqStatus'[r] \notin {"none", "fulfilled"}
  /\ \A c \in Clients : tx'[c] = tx[c] \/ tx'[c].pc \in {"idle", "committed"}

LEMMA RequestOfType == \A a \in Assignments : RequestOf(a) \in Requests /\ a \in AssignmentsOf(RequestOf(a))
  BY DEF Assignments, AssignmentsOf, RequestOf

LEMMA AssignmentsOfType ==
  \A r \in Requests : \A a \in AssignmentsOf(r) : a \in Assignments /\ RequestOf(a) = r
  BY DEF Assignments, AssignmentsOf, RequestOf

LEMMA QuietKeepsAnswers ==
  ASSUME AnswersInv, TypeOK', Quiet
  PROVE  AnswersInv'
  <1>1. \A a \in Assignments : Answered(a) => Answered(a)'
    BY DEF Quiet, Answered
  <1>2. TerminalWasAnswered'
    BY DEF AnswersInv, TerminalWasAnswered, Quiet, Terminal
  <1>3. \A r \in Requests : reqStatus[r] # "none" => reqStatus'[r] # "none"
    BY DEF Quiet
  <1>4. \A c \in Clients : InTx(c)' => InTx(c) /\ tx'[c] = tx[c]
    BY DEF Quiet, InTx
  <1>5. KnownRequest'
    <2>1. ASSUME NEW a \in Assignments, asgStatus'[a] # "none"
          PROVE  reqStatus'[RequestOf(a)] # "none"
      BY <1>3, <2>1, RequestOfType DEF AnswersInv, KnownRequest, Quiet
    <2>2. ASSUME NEW c \in Clients, InTx(c)'
          PROVE  reqStatus'[RequestOf(tx'[c].asg)] # "none"
      BY <1>3, <1>4, <2>2, RequestOfType DEF AnswersInv, KnownRequest, TypeOK, TxsOK, InTx
    <2> QED
      BY <2>1, <2>2 DEF KnownRequest
  <1>6. CountStillTrue'
    <2> SUFFICES ASSUME NEW c \in Clients, tx'[c].pc = "last",
                        NEW b \in AssignmentsOf(RequestOf(tx'[c].asg)) \ {tx'[c].asg}
                 PROVE  Answered(b)'
      BY DEF CountStillTrue
    <2>1. tx'[c] = tx[c] /\ tx[c].pc = "last"
      BY DEF Quiet
    <2>2. b \in Assignments
      BY <2>1, RequestOfType, AssignmentsOfType DEF AnswersInv, TypeOK, TxsOK
    <2> QED
      BY <1>1, <2>1, <2>2 DEF AnswersInv, CountStillTrue
  <1>7. FulfilledWasAnswered'
    <2> SUFFICES ASSUME NEW r \in Requests, reqStatus'[r] = "fulfilled", NEW a \in AssignmentsOf(r)
                 PROVE  Answered(a)'
      BY DEF FulfilledWasAnswered, Answered
    <2>1. a \in Assignments /\ reqStatus[r] = "fulfilled"
      BY AssignmentsOfType DEF Quiet
    <2> QED
      BY <1>1, <2>1 DEF AnswersInv, FulfilledWasAnswered, Answered
  <1> QED
    BY <1>2, <1>5, <1>6, <1>7 DEF AnswersInv

LEMMA IngestAnswers ==
  ASSUME AnswersInv, TypeOK', NEW r \in Requests, NEW ps \in SUBSET platforms,
         NEW ph \in ({0} \cup Readings) \ {1, 2}, Ingest(r, ps, ph)
  PROVE  AnswersInv'
  <1>1. /\ \A a \in Assignments : RequestOf(a) # r => asgStatus'[a] = asgStatus[a]
        /\ \A a \in Assignments : asgStatus'[a] # asgStatus[a] => asgStatus'[a] = "pending"
        /\ responded' = responded /\ tx' = tx
    BY DEF Ingest, CreateRequest, RequestOf, Assignments
  <1>2. /\ reqStatus[r] = "none" /\ reqStatus'[r] = "dispatched"
        /\ \A q \in Requests \ {r} : reqStatus'[q] = reqStatus[q]
    BY DEF Ingest, CreateRequest, AnswersInv, TypeOK, RequestsOK
  <1>3. \A c \in Clients : InTx(c) => RequestOf(tx[c].asg) # r
    BY <1>2 DEF AnswersInv, KnownRequest
  <1>4. TerminalWasAnswered'
    BY <1>1 DEF AnswersInv, TerminalWasAnswered, Terminal
  <1>5. KnownRequest'
    <2>1. \A q \in Requests : reqStatus[q] # "none" => reqStatus'[q] # "none"
      BY <1>2
    <2>2. ASSUME NEW a \in Assignments, asgStatus'[a] # "none"
          PROVE  reqStatus'[RequestOf(a)] # "none"
      BY <1>1, <1>2, <2>2, RequestOfType DEF AnswersInv, KnownRequest
    <2>3. ASSUME NEW c \in Clients, InTx(c)'
          PROVE  reqStatus'[RequestOf(tx'[c].asg)] # "none"
      BY <1>1, <2>1, <2>3, RequestOfType DEF AnswersInv, KnownRequest, TypeOK, TxsOK, InTx
    <2> QED
      BY <2>2, <2>3 DEF KnownRequest
  <1>6. CountStillTrue'
    <2> SUFFICES ASSUME NEW c \in Clients, tx[c].pc = "last",
                        NEW b \in AssignmentsOf(RequestOf(tx[c].asg)) \ {tx[c].asg}
                 PROVE  asgStatus'[b] = "none" \/ b \in responded
      BY <1>1 DEF CountStillTrue, Answered
    <2>1. b \in Assignments /\ RequestOf(b) = RequestOf(tx[c].asg)
      BY RequestOfType, AssignmentsOfType DEF AnswersInv, TypeOK, TxsOK
    <2> QED
      BY <1>1, <1>3, <2>1 DEF AnswersInv, CountStillTrue, Answered, InTx
  <1>7. FulfilledWasAnswered'
    <2> SUFFICES ASSUME NEW q \in Requests, reqStatus'[q] = "fulfilled", NEW a \in AssignmentsOf(q)
                 PROVE  asgStatus'[a] = "none" \/ a \in responded
      BY <1>1 DEF FulfilledWasAnswered
    <2>1. q # r /\ a \in Assignments /\ RequestOf(a) = q /\ reqStatus[q] = "fulfilled"
      BY <1>2, AssignmentsOfType
    <2> QED
      BY <1>1, <2>1 DEF AnswersInv, FulfilledWasAnswered
  <1> QED
    BY <1>4, <1>5, <1>6, <1>7 DEF AnswersInv

LEMMA CommitAnswers ==
  ASSUME AnswersInv, TypeOK', NEW c \in Clients, RespondCommit(c)
  PROVE  AnswersInv'
  <1> DEFINE a == tx[c].asg
             r == RequestOf(a)
  <1>1. /\ a \in Assignments /\ r \in Requests /\ a \in AssignmentsOf(r)
        /\ tx[c].answer \in Terminal /\ InTx(c) /\ reqStatus[r] # "none"
    BY RequestOfType DEF RespondCommit, AnswersInv, TypeOK, TxsOK, KnownRequest, InTx
  <1>2. /\ asgStatus' = [asgStatus EXCEPT ![a] = tx[c].answer]
        /\ responded' = responded \cup {a}
    BY DEF RespondCommit
  <1>3. \A b \in Assignments : b = a \/ Answered(b) => Answered(b)'
    BY <1>1, <1>2 DEF Answered, AnswersInv, TypeOK, AssignmentsOK
  <1>4. /\ \A q \in Requests \ {r} : reqStatus'[q] = reqStatus[q]
        /\ reqStatus'[r] = "fulfilled" => tx[c].pc = "last" \/ reqStatus[r] = "fulfilled"
        /\ reqStatus'[r] # "none"
    BY <1>1 DEF RespondCommit, AnswersInv, TypeOK, RequestsOK, AfterAnswer
  <1>5. \A d \in Clients : tx'[d].pc \in {"updated", "last", "more"} => d # c /\ tx'[d] = tx[d]
    <2>1. tx'[c].pc \in {"idle", "committed"} /\ \A d \in Clients \ {c} : tx'[d] = tx[d]
      <3>1. CASE tx[c].pc = "last"
        BY <3>1 DEF RespondCommit, NoTx, AnswersInv, TypeOK, TxsOK
      <3>2. CASE tx[c].pc # "last"
        BY <3>2 DEF RespondCommit, NoTx, AnswersInv, TypeOK, TxsOK
      <3> QED
        BY <3>1, <3>2
    <2> QED
      BY <2>1
  <1>6. TerminalWasAnswered'
    BY <1>1, <1>2 DEF AnswersInv, TypeOK, AssignmentsOK, TerminalWasAnswered
  <1>7. KnownRequest'
    <2>1. ASSUME NEW b \in Assignments, asgStatus'[b] # "none"
          PROVE  reqStatus'[RequestOf(b)] # "none"
      BY <1>1, <1>2, <1>4, <2>1, RequestOfType DEF AnswersInv, KnownRequest, TypeOK, AssignmentsOK
    <2>2. ASSUME NEW d \in Clients, InTx(d)'
          PROVE  reqStatus'[RequestOf(tx'[d].asg)] # "none"
      BY <1>4, <1>5, <2>2, RequestOfType DEF AnswersInv, KnownRequest, TypeOK, TxsOK, InTx
    <2> QED
      BY <2>1, <2>2 DEF KnownRequest
  <1>8. CountStillTrue'
    <2> SUFFICES ASSUME NEW d \in Clients, tx'[d].pc = "last",
                        NEW b \in AssignmentsOf(RequestOf(tx'[d].asg)) \ {tx'[d].asg}
                 PROVE  Answered(b)'
      BY DEF CountStillTrue
    <2>1. tx'[d] = tx[d]
      BY <1>5
    <2>2. b \in Assignments
      BY <2>1, RequestOfType, AssignmentsOfType DEF AnswersInv, TypeOK, TxsOK
    <2> QED
      BY <1>3, <2>1, <2>2 DEF AnswersInv, CountStillTrue
  <1>9. FulfilledWasAnswered'
    <2> SUFFICES ASSUME NEW q \in Requests, reqStatus'[q] = "fulfilled", NEW b \in AssignmentsOf(q)
                 PROVE  Answered(b)'
      BY DEF FulfilledWasAnswered, Answered
    <2>1. b \in Assignments
      BY AssignmentsOfType
    <2>2. CASE reqStatus[q] = "fulfilled"
      BY <1>3, <2>1, <2>2 DEF AnswersInv, FulfilledWasAnswered, Answered
    <2>3. CASE q = r /\ tx[c].pc = "last"
      BY <1>3, <2>1, <2>3 DEF AnswersInv, CountStillTrue
    <2> QED
      BY <1>4, <2>2, <2>3
  <1> QED
    BY <1>6, <1>7, <1>8, <1>9 DEF AnswersInv

LEMMA RespondAnswers ==
  ASSUME AnswersInv, TypeOK', NEW c \in Clients, Respond(c)
  PROVE  AnswersInv'
  <1>1. ASSUME NEW a \in Assignments, NEW answer \in Verdicts, RespondUpdate(c, a, answer)
        PROVE  AnswersInv'
    <2>1. /\ UNCHANGED <<responded, asgStatus, reqStatus>>
          /\ reqStatus[RequestOf(a)] # "none"
          /\ tx'[c].pc = "updated" /\ tx'[c].asg = a
          /\ \A d \in Clients \ {c} : tx'[d] = tx[d]
      BY <1>1 DEF RespondUpdate, reqVars, asgVars, NoTx, AnswersInv, KnownRequest, TypeOK, TxsOK
    <2>2. KnownRequest'
      BY <2>1 DEF AnswersInv, KnownRequest, InTx
    <2>3. CountStillTrue'
      BY <2>1 DEF AnswersInv, CountStillTrue, Answered
    <2>4. TerminalWasAnswered' /\ FulfilledWasAnswered'
      BY <2>1 DEF AnswersInv, TerminalWasAnswered, FulfilledWasAnswered
    <2> QED
      BY <2>2, <2>3, <2>4 DEF AnswersInv
  <1>2. CASE RespondCount(c)
    <2>1. /\ UNCHANGED <<responded, asgStatus, reqStatus>>
          /\ tx[c].pc = "updated" /\ tx'[c].asg = tx[c].asg
          /\ tx'[c].pc = "last" => OpenBut(tx[c].asg) = {}
          /\ \A d \in Clients \ {c} : tx'[d] = tx[d]
      BY <1>2 DEF RespondCount, reqVars, asgVars, AnswersInv, TypeOK, TxsOK, Txs
    <2>2. KnownRequest'
      BY <2>1 DEF AnswersInv, KnownRequest, InTx
    <2>3. CountStillTrue'
      <3> SUFFICES ASSUME tx'[c].pc = "last", NEW b \in AssignmentsOf(RequestOf(tx[c].asg)) \ {tx[c].asg}
                   PROVE  Answered(b)
        BY <2>1 DEF AnswersInv, CountStillTrue, Answered
      <3>1. b \in Assignments
        BY <2>1, RequestOfType, AssignmentsOfType DEF AnswersInv, TypeOK, TxsOK
      <3>2. asgStatus[b] \in Terminal \cup {"none"}
        BY <2>1, <3>1 DEF OpenBut, OpenStatus, AnswersInv, TypeOK, AssignmentsOK
      <3> QED
        BY <3>1, <3>2 DEF AnswersInv, TerminalWasAnswered, Answered
    <2>4. TerminalWasAnswered' /\ FulfilledWasAnswered'
      BY <2>1 DEF AnswersInv, TerminalWasAnswered, FulfilledWasAnswered
    <2> QED
      BY <2>2, <2>3, <2>4 DEF AnswersInv
  <1>3. CASE RespondCommit(c)
    BY <1>3, CommitAnswers
  <1>4. CASE RespondAbort(c) \/ RespondNotify(c)
    <2>1. tx' = [tx EXCEPT ![c] = NoTx]
      BY <1>4 DEF RespondAbort, RespondNotify
    <2>2. \A d \in Clients : tx'[d] = tx[d] \/ tx'[d].pc = "idle"
      BY <2>1 DEF NoTx, AnswersInv, TypeOK, TxsOK
    <2>3. Quiet
      BY <1>4, <2>2 DEF Quiet, RespondAbort, RespondNotify, reqVars, asgVars
    <2> QED
      BY <2>3, QuietKeepsAnswers
  <1> QED
    BY <1>1, <1>2, <1>3, <1>4 DEF Respond

LEMMA SweepIsQuiet ==
  ASSUME TypeOK, NEW w \in Workers, SweepStep(w)
  PROVE  Quiet
  <1>1. UNCHANGED <<responded, tx>>
    BY DEF SweepStep, SweepStart, SweepRemind, SweepRead, SweepMarkAssignment, SweepMarkRequest,
           SweepEscalate, SweepBreach, SweepNotify, SweepEnd, asgVars
  <1>2. CASE SweepMarkAssignment(w)
    <2>1. \A a \in Assignments :
            asgStatus'[a] = asgStatus[a] \/ (asgStatus[a] # "none" /\ asgStatus'[a] = "overdue")
      <3>1. PICK row \in sweep[w].rows, ok \in BOOLEAN :
              \/ UNCHANGED asgStatus
              \/ asgStatus' = [asgStatus EXCEPT ![row.asg] =
                                 IF ok /\ asgStatus[row.asg] # "none" THEN "overdue" ELSE asgStatus[row.asg]]
        BY <1>2 DEF SweepMarkAssignment
      <3> QED
        BY <3>1 DEF TypeOK, AssignmentsOK
    <2> QED
      BY <1>1, <1>2, <2>1 DEF Quiet, SweepMarkAssignment, reqVars, Terminal
  <1>3. CASE SweepMarkRequest(w)
    <2>1. \A r \in Requests : reqStatus'[r] = reqStatus[r] \/ reqStatus'[r] = "overdue"
      BY <1>3 DEF SweepMarkRequest, TypeOK, RequestsOK
    <2> QED
      BY <1>1, <1>3, <2>1 DEF Quiet, SweepMarkRequest, asgVars
  <1>4. CASE UNCHANGED <<asgStatus, reqStatus>>
    BY <1>1, <1>4 DEF Quiet
  <1> QED
    BY <1>2, <1>3, <1>4 DEF SweepStep, SweepStart, SweepRemind, SweepRead,
           SweepEscalate, SweepBreach, SweepNotify, SweepEnd, asgVars, reqVars

LEMMA NextAnswers == AnswersInv /\ [Next]_vars => AnswersInv'
  <1> SUFFICES ASSUME AnswersInv, [Next]_vars PROVE AnswersInv'
    OBVIOUS
  <1>0. TypeOK /\ TypeOK'
    BY NextType DEF AnswersInv
  <1>1. CASE UNCHANGED vars
    <2>1. Quiet
      BY <1>1 DEF Quiet, vars, reqVars, asgVars
    <2> QED
      BY <1>0, <2>1, QuietKeepsAnswers
  <1>2. CASE \E r \in Requests : DispatchCrash(r)
    <2>1. Quiet
      BY <1>2 DEF Quiet, DispatchCrash, reqVars, asgVars
    <2> QED
      BY <1>0, <2>1, QuietKeepsAnswers
  <1>3. ASSUME NEW r \in Requests, NEW p \in Platforms, Dispatch(r, p)
        PROVE  AnswersInv'
    <2>1. \A a \in Assignments :
            asgStatus'[a] = asgStatus[a] \/ (asgStatus[a] # "none" /\ asgStatus'[a] = "acknowledged")
      <3>1. \/ UNCHANGED asgStatus
            \/ asgStatus[<<r, p>>] # "none" /\ asgStatus' = [asgStatus EXCEPT ![<<r, p>>] = "acknowledged"]
        BY <1>3 DEF Dispatch
      <3> QED
        BY <1>0, <3>1 DEF TypeOK, AssignmentsOK
    <2>2. Quiet
      BY <1>3, <2>1 DEF Quiet, Dispatch, reqVars, Terminal
    <2> QED
      BY <1>0, <2>2, QuietKeepsAnswers
  <1>4. CASE \E w \in Workers : SweepStep(w) \/ SweepCrash(w)
    <2>1. ASSUME NEW w \in Workers, SweepCrash(w) PROVE Quiet
      BY <2>1 DEF Quiet, SweepCrash, reqVars, asgVars
    <2> QED
      BY <1>0, <1>4, <2>1, SweepIsQuiet, QuietKeepsAnswers
  <1>5. CASE \E a \in Assignments : Tick(a)
    <2>1. Quiet
      BY <1>5 DEF Quiet, Tick, reqVars
    <2> QED
      BY <1>0, <2>1, QuietKeepsAnswers
  <1>6. CASE \E p \in Platforms : DeletePlatform(p)
    <2>1. Quiet
      BY <1>6 DEF Quiet, DeletePlatform, reqVars
    <2> QED
      BY <1>0, <2>1, QuietKeepsAnswers
  <1> QED
    BY <1>0, <1>1, <1>2, <1>3, <1>4, <1>5, <1>6, IngestAnswers, RespondAnswers DEF Next

LEMMA InitAnswers == Init => AnswersInv
  <1> SUFFICES ASSUME Init PROVE AnswersInv
    OBVIOUS
  <1>1. \A a \in Assignments : asgStatus[a] = "none"
    BY DEF Init
  <1>2. TerminalWasAnswered
    BY <1>1 DEF TerminalWasAnswered, Terminal
  <1>3. KnownRequest /\ CountStillTrue
    BY <1>1 DEF Init, KnownRequest, CountStillTrue, InTx, NoTx
  <1>4. FulfilledWasAnswered
    BY DEF Init, FulfilledWasAnswered
  <1> QED
    BY <1>2, <1>3, <1>4, InitType DEF AnswersInv

(***************************************************************************)
(* FulfilledWasAnswered holds for any number of platforms, handlers and    *)
(* API instances: respondAssignment's count and update, taken in separate  *)
(* statements, never fulfil a request a platform has not answered.         *)
(***************************************************************************)
THEOREM FulfilledOnlyAnswered == Spec => []FulfilledWasAnswered
  <1>1. AnswersInv => FulfilledWasAnswered
    BY DEF AnswersInv
  <1> QED
    BY <1>1, InitAnswers, NextAnswers, PTL DEF Spec

----------------------------------------------------------------------------
LEMMA FulfilledStays ==
  ASSUME TypeOK, Next, NEW q \in Requests, reqStatus[q] = "fulfilled"
  PROVE  reqStatus'[q] = "fulfilled"
  <1>1. CASE \E r \in Requests, ps \in SUBSET platforms, ph \in ({0} \cup Readings) \ {1, 2} : Ingest(r, ps, ph)
    BY <1>1 DEF Ingest, CreateRequest, TypeOK, RequestsOK
  <1>2. ASSUME NEW c \in Clients, RespondCommit(c)
        PROVE  reqStatus'[q] = "fulfilled"
    BY <1>2 DEF RespondCommit, AfterAnswer, TypeOK, RequestsOK
  <1>3. ASSUME NEW w \in Workers, SweepMarkRequest(w)
        PROVE  reqStatus'[q] = "fulfilled"
    BY <1>3 DEF SweepMarkRequest, MarkableOverdue, TypeOK, RequestsOK
  <1>4. CASE UNCHANGED reqStatus
    BY <1>4
  <1> QED
    BY <1>1, <1>2, <1>3, <1>4
    DEF Next, Dispatch, DispatchCrash, Respond, RespondUpdate, RespondCount, RespondAbort,
        RespondNotify, SweepStep, SweepStart, SweepRemind, SweepRead, SweepMarkAssignment,
        SweepEscalate, SweepBreach, SweepNotify, SweepEnd, SweepCrash, Tick, DeletePlatform, reqVars

(***************************************************************************)
(* No statement of any handler or sweep takes a request out of fulfilled,  *)
(* whatever it read before: the guards of the two UPDATEs of               *)
(* relay_requests are on the committed row.                                *)
(***************************************************************************)
THEOREM FulfilledForGood == Spec => FulfilledIsFinal
  <1>1. TypeOK /\ [Next]_vars
          => [\A r \in Requests : reqStatus[r] = "fulfilled" => reqStatus'[r] = "fulfilled"]_vars
    BY FulfilledStays
  <1> QED
    BY <1>1, TypeCorrect, PTL DEF Spec, FulfilledIsFinal

----------------------------------------------------------------------------
(***************************************************************************)
(* The breach of a request is told once: between the UPDATE that flips the *)
(* latch and the notice, exactly one sweep is committed to telling it, and *)
(* nobody flips the latch again.                                           *)
(***************************************************************************)
Telling(w, r) == sweep[w].pc = "notify" /\ RequestOf(sweep[w].row.asg) = r

BreachInv ==
  /\ TypeOK
  /\ \A r \in Requests :
       /\ told[r].breach <= 1
       /\ r \notin breachNotified => told[r].breach = 0
       /\ \A w \in Workers : Telling(w, r) =>
            /\ r \in breachNotified
            /\ told[r].breach = 0
            /\ \A v \in Workers : Telling(v, r) => v = w

\* A step that leaves the latches alone, tells no breach and starts no telling.
Silent ==
  /\ breachNotified' = breachNotified
  /\ \A r \in Requests : told'[r].breach = told[r].breach
  /\ \A w \in Workers, r \in Requests : Telling(w, r)' => Telling(w, r)

LEMMA SilentKeepsBreach ==
  ASSUME BreachInv, TypeOK', Silent
  PROVE  BreachInv'
  BY DEF BreachInv, Silent

LEMMA BreachStep ==
  ASSUME BreachInv, TypeOK', NEW w \in Workers, SweepBreach(w)
  PROVE  BreachInv'
  <1> DEFINE r == RequestOf(sweep[w].row.asg)
  <1>1. r \in Requests /\ sweep[w].pc = "breach" /\ told' = told
    BY DEF BreachInv, TypeOK, SweepsOK, InRow, SweepBreach, Rows, RequestOf, Assignments
  <1>2. PICK ok \in BOOLEAN :
          /\ breachNotified' = IF ok THEN breachNotified \cup {r} ELSE breachNotified
          /\ sweep' = [sweep EXCEPT ![w].seen = @ \cup {r},
                                    ![w].pc = IF ok /\ LatchFlips(r) THEN "notify" ELSE "row"]
    BY DEF SweepBreach
  <1>3. \A v \in Workers \ {w} : sweep'[v] = sweep[v]
    BY <1>2 DEF BreachInv, TypeOK, SweepsOK
  <1>4. /\ sweep'[w].row = sweep[w].row
        /\ sweep'[w].pc = "notify" => ok /\ r \notin breachNotified
    BY <1>2 DEF BreachInv, TypeOK, SweepsOK, Sweeps, LatchFlips
  <1>5. \A v \in Workers \ {w}, q \in Requests : Telling(v, q)' => Telling(v, q)
    BY <1>3 DEF Telling
  <1>6. \A q \in Requests : Telling(w, q)' => q = r /\ ok /\ r \notin breachNotified
    BY <1>4 DEF Telling
  <1> QED
    BY <1>1, <1>2, <1>5, <1>6 DEF BreachInv

LEMMA NotifyStep ==
  ASSUME BreachInv, TypeOK', NEW w \in Workers, SweepNotify(w)
  PROVE  BreachInv'
  <1> DEFINE r == RequestOf(sweep[w].row.asg)
  <1>1. /\ r \in Requests /\ Telling(w, r) /\ breachNotified' = breachNotified
        /\ r \in breachNotified /\ told[r].breach = 0
        /\ \A v \in Workers : Telling(v, r) => v = w
    BY DEF BreachInv, TypeOK, SweepsOK, InRow, SweepNotify, Rows, RequestOf, Assignments, Telling
  <1>2. \A v \in Workers, q \in Requests : Telling(v, q)' => v # w /\ Telling(v, q)
    <2>1. sweep'[w].pc = "row" /\ \A v \in Workers \ {w} : sweep'[v] = sweep[v]
      BY DEF SweepNotify, BreachInv, TypeOK, SweepsOK, Sweeps
    <2> QED
      BY <2>1 DEF Telling
  <1>3. /\ \A q \in Requests \ {r} : told'[q].breach = told[q].breach
        /\ told'[r].breach \in {0, 1}
    <2>1. \/ told' = told
          \/ told' = [told EXCEPT ![r] = [told[r] EXCEPT !.breach = told[r].breach + 1]]
      BY DEF SweepNotify
    <2> QED
      BY <1>1, <2>1 DEF BreachInv, TypeOK, RequestsOK
  <1> QED
    BY <1>1, <1>2, <1>3 DEF BreachInv

LEMMA OtherStepsSilent ==
  ASSUME TypeOK, Next,
         ~ \E w \in Workers : SweepBreach(w) \/ SweepNotify(w)
  PROVE  Silent
  <1>1. breachNotified' = breachNotified
    BY DEF Next, Ingest, Dispatch, DispatchCrash, Respond, RespondUpdate, RespondCount, RespondCommit,
           RespondAbort, RespondNotify, SweepStep, SweepStart, SweepRemind, SweepRead, SweepMarkAssignment,
           SweepMarkRequest, SweepEscalate, SweepEnd, SweepCrash, Tick, DeletePlatform, reqVars
  <1>2. \A r \in Requests : told'[r].breach = told[r].breach
    <2>1. ASSUME NEW c \in Clients, RespondNotify(c), NEW r \in Requests
          PROVE  told'[r].breach = told[r].breach
      BY <2>1 DEF RespondNotify, TypeOK, RequestsOK
    <2>2. CASE UNCHANGED told
      BY <2>2
    <2> QED
      BY <2>1, <2>2
      DEF Next, Ingest, Dispatch, DispatchCrash, Respond, RespondUpdate, RespondCount, RespondCommit,
          RespondAbort, SweepStep, SweepStart, SweepRemind, SweepRead, SweepMarkAssignment,
          SweepMarkRequest, SweepEscalate, SweepEnd, SweepCrash, Tick, DeletePlatform, reqVars
  <1>3. \A w \in Workers : sweep'[w] = sweep[w] \/ sweep'[w].pc # "notify"
    <2>1. CASE UNCHANGED sweep
      BY <2>1
    <2>2. ASSUME NEW v \in Workers, SweepStep(v) \/ SweepCrash(v), NEW w \in Workers
          PROVE  sweep'[w] = sweep[w] \/ sweep'[w].pc # "notify"
      <3>0. sweep \in [Workers -> Sweeps]
        BY DEF TypeOK, SweepsOK
      <3>1. CASE SweepStart(v) \/ SweepEnd(v) \/ SweepCrash(v)
        <4>1. PICK s : s.pc # "notify" /\ sweep' = [sweep EXCEPT ![v] = s]
          BY <3>1, Zenon DEF SweepStart, SweepEnd, SweepCrash, NoSweep
        <4> QED
          BY <3>0, <4>1
      <3>2. CASE SweepRemind(v)
        <4>1. sweep[v].pc = "remind" /\ \E due : sweep' = [sweep EXCEPT ![v].due = due]
          BY <3>2 DEF SweepRemind
        <4> QED
          BY <3>0, <4>1 DEF Sweeps
      <3>3. CASE SweepRead(v) \/ SweepMarkAssignment(v)
        BY <3>0, <3>3 DEF SweepRead, SweepMarkAssignment, Sweeps
      <3>4. CASE SweepMarkRequest(v) \/ SweepEscalate(v)
        BY <3>0, <3>4 DEF SweepMarkRequest, SweepEscalate, Sweeps
      <3> QED
        BY <2>2, <3>1, <3>2, <3>3, <3>4 DEF SweepStep
    <2> QED
      BY <2>1, <2>2
      DEF Next, Ingest, Dispatch, DispatchCrash, Respond, RespondUpdate, RespondCount, RespondCommit,
          RespondAbort, RespondNotify, Tick, DeletePlatform
  <1> QED
    BY <1>1, <1>2, <1>3 DEF Silent, Telling

(***************************************************************************)
(* BreachToldOnce holds for any number of concurrent sweeps and crashes:   *)
(* the guard of markBreachNotified lets one sweep through.                 *)
(***************************************************************************)
THEOREM BreachOnce == Spec => []BreachToldOnce
  <1>1. Init => BreachInv
    BY InitType DEF Init, BreachInv, Telling, NoSweep
  <1>2. BreachInv /\ [Next]_vars => BreachInv'
    <2> SUFFICES ASSUME BreachInv, [Next]_vars PROVE BreachInv'
      OBVIOUS
    <2>1. TypeOK /\ TypeOK'
      BY NextType DEF BreachInv
    <2>2. CASE UNCHANGED vars
      BY <2>1, <2>2, SilentKeepsBreach DEF Silent, vars, reqVars, Telling
    <2>3. CASE \E w \in Workers : SweepBreach(w) \/ SweepNotify(w)
      BY <2>1, <2>3, BreachStep, NotifyStep
    <2>4. CASE Next /\ ~ \E w \in Workers : SweepBreach(w) \/ SweepNotify(w)
      BY <2>1, <2>4, OtherStepsSilent, SilentKeepsBreach
    <2> QED
      BY <2>2, <2>3, <2>4
  <1>3. BreachInv => BreachToldOnce
    BY DEF BreachInv, BreachToldOnce
  <1> QED
    BY <1>1, <1>2, <1>3, PTL DEF Spec

----------------------------------------------------------------------------
(***************************************************************************)
(* The refinement.  What a sweep has read and what has been answered are   *)
(* of requests that are known, and a request once known stays known: so    *)
(* no statement moves a request that the contract has not opened, and a    *)
(* new request has answers of nobody.                                      *)
(***************************************************************************)
Known(r) == reqStatus[r] # "none"

AnsweredKnown == \A a \in responded : Known(RequestOf(a))

\* The rows that a sweep has read and has still to do.
InHand(w) == sweep[w].rows \cup (IF sweep[w].pc \in InRow THEN {sweep[w].row} ELSE {})
RowsKnown == \A w \in Workers : \A row \in InHand(w) : Known(RequestOf(row.asg))

ContractInv == AnswersInv /\ AnsweredKnown /\ RowsKnown

LEMMA KnownStays ==
  ASSUME TypeOK, Next, NEW q \in Requests, Known(q)
  PROVE  Known(q)'
  <1>1. CASE \E r \in Requests, ps \in SUBSET platforms, ph \in ({0} \cup Readings) \ {1, 2} : Ingest(r, ps, ph)
    BY <1>1 DEF Ingest, CreateRequest, TypeOK, RequestsOK, Known
  <1>2. ASSUME NEW c \in Clients, RespondCommit(c)
        PROVE  Known(q)'
    BY <1>2 DEF RespondCommit, AfterAnswer, TypeOK, RequestsOK, Known
  <1>3. ASSUME NEW w \in Workers, SweepMarkRequest(w)
        PROVE  Known(q)'
    BY <1>3 DEF SweepMarkRequest, TypeOK, RequestsOK, Known
  <1>4. CASE UNCHANGED reqStatus
    BY <1>4 DEF Known
  <1> QED
    BY <1>1, <1>2, <1>3, <1>4
    DEF Next, Dispatch, DispatchCrash, Respond, RespondUpdate, RespondCount, RespondAbort,
        RespondNotify, SweepStep, SweepStart, SweepRemind, SweepRead, SweepMarkAssignment,
        SweepEscalate, SweepBreach, SweepNotify, SweepEnd, SweepCrash, Tick, DeletePlatform, reqVars

\* Only a committed answer adds to responded.
LEMMA AnsweredGrows ==
  ASSUME AnswersInv, Next, NEW a \in responded', a \notin responded
  PROVE  a \in Assignments /\ Known(RequestOf(a))
  <1>1. ASSUME NEW c \in Clients, RespondCommit(c)
        PROVE  a \in Assignments /\ Known(RequestOf(a))
    <2>1. a = tx[c].asg /\ InTx(c)
      BY <1>1 DEF RespondCommit, InTx
    <2> QED
      BY <2>1 DEF AnswersInv, KnownRequest, Known, TypeOK, TxsOK, InTx
  <1> QED
    BY <1>1
    DEF Next, Ingest, CreateRequest, Dispatch, DispatchCrash, Respond, RespondUpdate, RespondCount,
        RespondAbort, RespondNotify, SweepStep, SweepStart, SweepRemind, SweepRead,
        SweepMarkAssignment, SweepMarkRequest, SweepEscalate, SweepBreach, SweepNotify, SweepEnd,
        SweepCrash, Tick, DeletePlatform, asgVars

\* A row comes into a sweep's hands by SweepRead only, which finds existing assignments.
LEMMA RowsComeFromRead ==
  ASSUME TypeOK, Next, NEW w \in Workers, NEW row \in InHand(w)', row \notin InHand(w)
  PROVE  row.asg \in Assignments /\ asgStatus[row.asg] # "none"
  <1>0. sweep \in [Workers -> Sweeps]
    BY DEF TypeOK, SweepsOK
  <1>1. CASE UNCHANGED sweep
    BY <1>1 DEF InHand
  <1>2. ASSUME NEW v \in Workers, SweepStep(v) \/ SweepCrash(v)
        PROVE  row.asg \in Assignments /\ asgStatus[row.asg] # "none"
    <2>1. CASE SweepStart(v) \/ SweepEnd(v) \/ SweepCrash(v)
      <3>1. PICK s : s.rows = {} /\ s.pc \notin InRow /\ sweep' = [sweep EXCEPT ![v] = s]
        BY <2>1, Zenon DEF SweepStart, SweepEnd, SweepCrash, NoSweep, InRow
      <3> QED
        BY <1>0, <3>1 DEF InHand
    <2>2. CASE SweepRemind(v)
      <3>1. \E due : sweep' = [sweep EXCEPT ![v].due = due]
        BY <2>2 DEF SweepRemind
      <3>2. /\ \A u \in Workers : u # v => sweep'[u] = sweep[u]
            /\ sweep'[v].pc = sweep[v].pc /\ sweep'[v].rows = sweep[v].rows
            /\ sweep'[v].row = sweep[v].row
        BY <1>0, <3>1 DEF Sweeps
      <3> QED
        BY <3>2 DEF InHand
    <2>3. CASE SweepRead(v)
      <3> DEFINE rows == {[asg |-> a, overdue |-> asgStatus[a] = "overdue",
                           escalated |-> a \in escalated] : a \in OverdueAssignments}
      <3>1. sweep' = [sweep EXCEPT ![v] = [@ EXCEPT !.pc = "row", !.rows = rows]]
        BY <2>3 DEF SweepRead
      <3>2. \A x \in rows : x.asg \in Assignments /\ asgStatus[x.asg] # "none"
        BY DEF OverdueAssignments, DueSoon
      <3> HIDE DEF rows
      <3>3. /\ \A u \in Workers : u # v => sweep'[u] = sweep[u]
            /\ sweep'[v].pc = "row" /\ sweep'[v].rows = rows
        BY <1>0, <3>1 DEF Sweeps
      <3> QED
        BY <3>2, <3>3 DEF InHand, InRow
    <2>4. CASE SweepMarkAssignment(v)
      <3>1. PICK x \in sweep[v].rows :
              sweep' = [sweep EXCEPT ![v].pc = "request", ![v].row = x, ![v].rows = @ \ {x}]
        BY <2>4 DEF SweepMarkAssignment
      <3>2. /\ \A u \in Workers : u # v => sweep'[u] = sweep[u]
            /\ sweep'[v].row = x /\ sweep'[v].rows = sweep[v].rows \ {x}
        BY <1>0, <3>1 DEF Sweeps
      <3> QED
        BY <3>1, <3>2 DEF InHand
    <2>5. CASE SweepMarkRequest(v) \/ SweepEscalate(v) \/ SweepBreach(v) \/ SweepNotify(v)
      <3>1. /\ \A u \in Workers : u # v => sweep'[u] = sweep[u]
            /\ sweep'[v].rows = sweep[v].rows /\ sweep'[v].row = sweep[v].row
            /\ sweep[v].pc \in InRow
        BY <1>0, <2>5 DEF SweepMarkRequest, SweepEscalate, SweepBreach, SweepNotify, Sweeps, InRow
      <3> QED
        BY <3>1 DEF InHand
    <2> QED
      BY <1>2, <2>1, <2>2, <2>3, <2>4, <2>5 DEF SweepStep
  <1> QED
    BY <1>1, <1>2 DEF Next, Ingest, Dispatch, DispatchCrash, Respond, RespondUpdate, RespondCount,
                      RespondCommit, RespondAbort, RespondNotify, Tick, DeletePlatform

\* What a sweep has in hand are rows.
LEMMA InHandType ==
  ASSUME TypeOK, NEW w \in Workers, NEW row \in InHand(w)
  PROVE  row \in Rows /\ row.asg \in Assignments /\ RequestOf(row.asg) \in Requests
  <1>1. row \in Rows
    BY DEF InHand, TypeOK, SweepsOK, Sweeps
  <1> QED
    BY <1>1, RequestOfType DEF Rows

LEMMA NextContractInv == ContractInv /\ [Next]_vars => ContractInv'
  <1> SUFFICES ASSUME ContractInv, [Next]_vars PROVE ContractInv'
    OBVIOUS
  <1>0. TypeOK /\ AnswersInv'
    BY NextAnswers DEF ContractInv, AnswersInv
  <1>1. CASE UNCHANGED vars
    BY <1>0, <1>1 DEF vars, reqVars, asgVars, ContractInv, AnsweredKnown, RowsKnown, InHand, Known
  <1>2. CASE Next
    <2>1. AnsweredKnown'
      <3> SUFFICES ASSUME NEW a \in responded' PROVE Known(RequestOf(a))'
        BY DEF AnsweredKnown
      <3>1. a \in Assignments /\ Known(RequestOf(a))
        BY <1>0, <1>2, AnsweredGrows DEF ContractInv, AnsweredKnown, TypeOK, AssignmentsOK
      <3> QED
        BY <1>0, <1>2, <3>1, KnownStays, RequestOfType
    <2>2. RowsKnown'
      <3> SUFFICES ASSUME NEW w \in Workers, NEW row \in InHand(w)' PROVE Known(RequestOf(row.asg))'
        BY DEF RowsKnown
      <3>1. RequestOf(row.asg) \in Requests /\ Known(RequestOf(row.asg))
        <4>1. CASE row \in InHand(w)
          BY <1>0, <4>1, InHandType DEF ContractInv, RowsKnown
        <4>2. CASE row \notin InHand(w)
          BY <1>0, <1>2, <4>2, RowsComeFromRead, RequestOfType
          DEF ContractInv, AnswersInv, KnownRequest, Known
        <4> QED
          BY <4>1, <4>2
      <3> QED
        BY <1>0, <1>2, <3>1, KnownStays
    <2> QED
      BY <1>0, <2>1, <2>2 DEF ContractInv
  <1> QED
    BY <1>1, <1>2

LEMMA InitContractInv == Init => ContractInv
  <1> SUFFICES ASSUME Init PROVE ContractInv
    OBVIOUS
  <1>1. AnsweredKnown /\ RowsKnown
    BY DEF Init, AnsweredKnown, RowsKnown, InHand, NoSweep, InRow
  <1> QED
    BY <1>1, InitAnswers DEF ContractInv

\* A step that leaves what the contract speaks of as it is.
LEMMA ContractStutter ==
  ASSUME \A r \in Requests : Shown(reqStatus'[r]) = Shown(reqStatus[r]),
         \A a \in Assignments : asgStatus'[a] = "none" <=> asgStatus[a] = "none",
         UNCHANGED <<responded, breachNotified>>
  PROVE  UNCHANGED Contract!cvars
  <1>1. \A r \in Requests : Unanswered(r)' = Unanswered(r)
    BY DEF Unanswered, Assignments
  <1> QED
    BY <1>1 DEF Contract!cvars

LEMMA IngestOpens ==
  ASSUME ContractInv, NEW r \in Requests, NEW ps \in SUBSET platforms,
         NEW ph \in ({0} \cup Readings) \ {1, 2}, Ingest(r, ps, ph)
  PROVE  Contract!Open(r, ps)
  <1>0. TypeOK /\ ps \subseteq Platforms
    BY DEF ContractInv, AnswersInv, TypeOK
  <1>1. \A p \in Platforms : asgStatus[<<r, p>>] = "none" /\ <<r, p>> \notin responded
    <2> SUFFICES ASSUME NEW p \in Platforms
                 PROVE  asgStatus[<<r, p>>] = "none" /\ <<r, p>> \notin responded
      OBVIOUS
    <2>1. <<r, p>> \in Assignments /\ RequestOf(<<r, p>>) = r
      BY DEF Assignments, RequestOf
    <2>2. reqStatus[r] = "none"
      BY DEF Ingest
    <2> QED
      BY <2>1, <2>2 DEF ContractInv, AnswersInv, KnownRequest, AnsweredKnown, Known
  <1>2. /\ \A q \in Requests, p \in Platforms :
             asgStatus'[<<q, p>>] = IF q = r /\ p \in ps THEN "pending" ELSE asgStatus[<<q, p>>]
        /\ UNCHANGED <<responded, breachNotified>>
    BY DEF Ingest, CreateRequest, Assignments
  <1>3. /\ reqStatus[r] = "none" /\ reqStatus'[r] = "dispatched" /\ ps # {}
        /\ \A q \in Requests : q # r => reqStatus'[q] = reqStatus[q]
    BY <1>0 DEF Ingest, CreateRequest, TypeOK, RequestsOK
  <1>4. \A q \in Requests : Unanswered(q)' = IF q = r THEN ps ELSE Unanswered(q)
    BY <1>0, <1>1, <1>2 DEF Unanswered
  <1>5. \A q \in Requests : Shown(reqStatus'[q]) = IF q = r THEN "open" ELSE Shown(reqStatus[q])
    BY <1>3 DEF Shown
  <1>6. Shown(reqStatus[r]) = "none"
    BY <1>3 DEF Shown
  <1> QED
    BY <1>2, <1>3, <1>4, <1>5, <1>6 DEF Contract!Open

LEMMA CommitIsAnswer ==
  ASSUME ContractInv, ContractInv', NEW c \in Clients, RespondCommit(c),
         NEW a \in Assignments, a = tx[c].asg
  PROVE  Contract!Answer(RequestOf(a), a[2])
  <1> DEFINE r == RequestOf(a)
             p == a[2]
  <1>0. TypeOK
    BY DEF ContractInv, AnswersInv
  <1>1. Known(r)
    <2>1. InTx(c)
      BY DEF RespondCommit, InTx
    <2> QED
      BY <2>1 DEF ContractInv, AnswersInv, KnownRequest, Known
  <1>2. a = <<r, p>> /\ r \in Requests /\ p \in Platforms
    BY <1>1 DEF Assignments, RequestOf
  <1>3. /\ \A b \in Assignments : b # a => asgStatus'[b] = asgStatus[b]
        /\ responded' = responded \cup {a} /\ UNCHANGED breachNotified
    BY <1>0, <1>1 DEF RespondCommit, TypeOK, AssignmentsOK
  <1>4. \A q \in Requests : Unanswered(q)' = IF q = r THEN Unanswered(r) \ {p} ELSE Unanswered(q)
    <2> HIDE DEF r, p
    <2>1. \A q \in Requests, o \in Platforms :
            <<q, o>> \in Assignments /\ (<<q, o>> = a <=> q = r /\ o = p)
      BY <1>2 DEF Assignments
    <2> QED
      BY <1>2, <1>3, <2>1 DEF Unanswered
  <1>5. /\ \A q \in Requests : q # r => reqStatus'[q] = reqStatus[q]
        /\ reqStatus'[r] \in {"fulfilled", AfterAnswer(reqStatus[r])}
    BY <1>0, <1>2 DEF RespondCommit, TypeOK, RequestsOK
  <1>6. Shown(AfterAnswer(reqStatus[r])) = Shown(reqStatus[r]) /\ Shown(reqStatus[r]) # "none"
    BY <1>1 DEF Shown, AfterAnswer, Known
  <1>7. reqStatus'[r] = "fulfilled" => Unanswered(r)' = {}
    <2>1. ASSUME reqStatus'[r] = "fulfilled", NEW o \in Platforms
          PROVE  asgStatus'[<<r, o>>] = "none" \/ <<r, o>> \in responded'
      <3>1. <<r, o>> \in AssignmentsOf(r)
        BY DEF AssignmentsOf
      <3> QED
        BY <1>2, <2>1, <3>1 DEF ContractInv, AnswersInv, FulfilledWasAnswered
    <2> QED
      BY <2>1 DEF Unanswered
  <1>8. (Shown(reqStatus[r]) = "fulfilled" \/ Shown(reqStatus'[r]) = "fulfilled")
          => reqStatus'[r] = "fulfilled"
    BY <1>5 DEF Shown, AfterAnswer
  <1> HIDE DEF r, p
  <1> DEFINE st == [q \in Requests |-> Shown(reqStatus[q])]
             st2 == [q \in Requests |-> Shown(reqStatus'[q])]
  <1>9. st2 \in {st, [st EXCEPT ![r] = "fulfilled"]}
    <2>1. CASE reqStatus'[r] = "fulfilled"
      <3>1. st2 = [st EXCEPT ![r] = "fulfilled"]
        BY <1>2, <1>5, <2>1 DEF Shown
      <3> QED
        BY <3>1
    <2>2. CASE reqStatus'[r] = AfterAnswer(reqStatus[r])
      <3>1. st2 = st
        BY <1>2, <1>5, <1>6, <2>2
      <3> QED
        BY <3>1
    <2> QED
      BY <1>5, <2>1, <2>2
  <1>10. st2[r] = "fulfilled" => Unanswered(r)' = {}
    BY <1>2, <1>7, <1>8
  <1>11. [q \in Requests |-> Unanswered(q)'] = [[q \in Requests |-> Unanswered(q)] EXCEPT ![r] = @ \ {p}]
    BY <1>2, <1>4
  <1>12. Contract!Answer(r, p)
    BY <1>2, <1>3, <1>6, <1>9, <1>10, <1>11 DEF Contract!Answer
  <1> QED
    BY <1>12 DEF r, p

LEMMA MarkRequestIsLate ==
  ASSUME ContractInv, NEW w \in Workers, SweepMarkRequest(w)
  PROVE  [Contract!CNext]_(Contract!cvars)
  <1> DEFINE r == RequestOf(sweep[w].row.asg)
  <1>0. TypeOK
    BY DEF ContractInv, AnswersInv
  <1>1. sweep[w].row \in InHand(w)
    BY DEF InHand, SweepMarkRequest, InRow
  <1>2. r \in Requests /\ Known(r)
    BY <1>0, <1>1, InHandType DEF ContractInv, RowsKnown
  <1>3. UNCHANGED <<responded, breachNotified, asgStatus>>
    BY DEF SweepMarkRequest, asgVars
  <1>4. /\ \A q \in Requests : q # r => reqStatus'[q] = reqStatus[q]
        /\ \/ reqStatus'[r] = reqStatus[r]
           \/ MarkableOverdue(reqStatus[r]) /\ reqStatus'[r] = "overdue"
    BY <1>0, <1>2 DEF SweepMarkRequest, TypeOK, RequestsOK
  <1> HIDE DEF r
  <1>5. CASE reqStatus'[r] = reqStatus[r]
    BY <1>3, <1>4, <1>5, ContractStutter
  <1>6. CASE MarkableOverdue(reqStatus[r]) /\ reqStatus'[r] = "overdue"
    <2>1. Shown(reqStatus[r]) = "open" /\ Shown(reqStatus'[r]) = "late"
      BY <1>2, <1>6 DEF MarkableOverdue, Shown, Known
    <2>2. \A q \in Requests : Unanswered(q)' = Unanswered(q)
      BY <1>3 DEF Unanswered
    <2>3. Contract!MarkLate(r)
      BY <1>2, <1>3, <1>4, <2>1, <2>2 DEF Contract!MarkLate
    <2> QED
      BY <1>2, <2>3 DEF Contract!CNext
  <1> QED
    BY <1>4, <1>5, <1>6

LEMMA BreachIsBreach ==
  ASSUME ContractInv, NEW w \in Workers, SweepBreach(w)
  PROVE  [Contract!CNext]_(Contract!cvars)
  <1> DEFINE r == RequestOf(sweep[w].row.asg)
  <1>0. TypeOK
    BY DEF ContractInv, AnswersInv
  <1>1. sweep[w].row \in InHand(w)
    BY DEF InHand, SweepBreach, InRow
  <1>2. r \in Requests /\ Known(r)
    BY <1>0, <1>1, InHandType DEF ContractInv, RowsKnown
  <1>3. /\ UNCHANGED <<responded, reqStatus, asgStatus>>
        /\ breachNotified' \in {breachNotified, breachNotified \cup {r}}
    BY DEF SweepBreach, asgVars
  <1> HIDE DEF r
  <1>4. CASE breachNotified' = breachNotified
    BY <1>3, <1>4, ContractStutter
  <1>5. CASE r \notin breachNotified /\ breachNotified' = breachNotified \cup {r}
    <2>1. \A q \in Requests : Unanswered(q)' = Unanswered(q)
      BY <1>3 DEF Unanswered
    <2>2. Shown(reqStatus[r]) # "none"
      BY <1>2 DEF Shown, Known
    <2>3. Contract!Breach(r)
      BY <1>2, <1>3, <1>5, <2>1, <2>2 DEF Contract!Breach
    <2> QED
      BY <1>2, <2>3 DEF Contract!CNext
  <1> QED
    BY <1>3, <1>4, <1>5

LEMMA DeletionWithdraws ==
  ASSUME ContractInv, NEW p \in Platforms, DeletePlatform(p)
  PROVE  Contract!Withdraw(p)
  <1>1. /\ \A q \in Requests, o \in Platforms :
             asgStatus'[<<q, o>>] = IF o = p THEN "none" ELSE asgStatus[<<q, o>>]
        /\ UNCHANGED <<responded, reqStatus, breachNotified>>
    BY DEF DeletePlatform, Assignments, reqVars
  <1>2. \A q \in Requests : Unanswered(q)' = Unanswered(q) \ {p}
    BY <1>1 DEF Unanswered
  <1> QED
    BY <1>1, <1>2 DEF Contract!Withdraw

LEMMA NextContract == ContractInv /\ ContractInv' /\ [Next]_vars => [Contract!CNext]_(Contract!cvars)
  <1> SUFFICES ASSUME ContractInv, ContractInv', [Next]_vars PROVE [Contract!CNext]_(Contract!cvars)
    OBVIOUS
  <1>0. TypeOK
    BY DEF ContractInv, AnswersInv
  <1>1. CASE UNCHANGED <<reqStatus, asgStatus, responded, breachNotified>>
    BY <1>1, ContractStutter
  <1>2. ASSUME NEW r \in Requests, NEW ps \in SUBSET platforms,
               NEW ph \in ({0} \cup Readings) \ {1, 2}, Ingest(r, ps, ph)
        PROVE  [Contract!CNext]_(Contract!cvars)
    <2>1. ps \in SUBSET Platforms
      BY <1>0 DEF TypeOK
    <2> QED
      BY <1>2, <2>1, IngestOpens DEF Contract!CNext
  <1>3. ASSUME NEW r \in Requests, NEW p \in Platforms, Dispatch(r, p)
        PROVE  [Contract!CNext]_(Contract!cvars)
    <2>1. \A a \in Assignments : asgStatus'[a] = "none" <=> asgStatus[a] = "none"
      BY <1>0, <1>3 DEF Dispatch, TypeOK, AssignmentsOK
    <2> QED
      BY <1>3, <2>1, ContractStutter DEF Dispatch, reqVars
  <1>4. ASSUME NEW c \in Clients, RespondCommit(c)
        PROVE  [Contract!CNext]_(Contract!cvars)
    <2>1. tx[c].asg \in Assignments
      BY <1>0, <1>4 DEF RespondCommit, TypeOK, TxsOK
    <2>2. PICK a \in Assignments : a = tx[c].asg
      BY <2>1
    <2>3. RequestOf(a) \in Requests /\ a[2] \in Platforms
      BY DEF Assignments, RequestOf
    <2> QED
      BY <1>4, <2>2, <2>3, CommitIsAnswer DEF Contract!CNext
  <1>5. ASSUME NEW w \in Workers, SweepMarkAssignment(w)
        PROVE  [Contract!CNext]_(Contract!cvars)
    <2>1. \A a \in Assignments : asgStatus'[a] = "none" <=> asgStatus[a] = "none"
      BY <1>0, <1>5 DEF SweepMarkAssignment, TypeOK, AssignmentsOK
    <2> QED
      BY <1>5, <2>1, ContractStutter DEF SweepMarkAssignment, reqVars
  <1>6. ASSUME NEW p \in Platforms, DeletePlatform(p)
        PROVE  [Contract!CNext]_(Contract!cvars)
    BY <1>6, DeletionWithdraws DEF Contract!CNext
  <1>7. ASSUME NEW c \in Clients, Respond(c)
        PROVE  [Contract!CNext]_(Contract!cvars)
    BY <1>1, <1>4, <1>7 DEF Respond, RespondUpdate, RespondCount, RespondAbort, RespondNotify,
                            reqVars, asgVars
  <1>8. ASSUME NEW w \in Workers, SweepStep(w) \/ SweepCrash(w)
        PROVE  [Contract!CNext]_(Contract!cvars)
    BY <1>1, <1>5, <1>8, MarkRequestIsLate, BreachIsBreach
    DEF SweepStep, SweepStart, SweepRemind, SweepRead, SweepEscalate, SweepNotify, SweepEnd,
        SweepCrash, reqVars, asgVars
  <1>9. CASE UNCHANGED vars
    BY <1>1, <1>9 DEF vars, reqVars, asgVars
  <1> QED
    BY <1>1, <1>2, <1>3, <1>6, <1>7, <1>8, <1>9 DEF Next, DispatchCrash, Tick, reqVars, asgVars

(***************************************************************************)
(* Relay implements RelayContract: for any number of platforms, concurrent *)
(* answers, sweeps, deletions and crashes, the statements of               *)
(* relay_postgres.ts in any order amount to opening a request, answers,    *)
(* one breach, lateness and withdrawals, and a request is fulfilled only   *)
(* when nobody owes it an answer.                                          *)
(***************************************************************************)
THEOREM ImplementsTheContract == Spec => ImplementsContract
  <1>1. Init => Contract!CInit
    BY DEF Init, Contract!CInit, Shown, Unanswered, Assignments
  <1>2. Spec => []ContractInv
    BY InitContractInv, NextContractInv, PTL DEF Spec
  <1>3. ContractInv /\ ContractInv' /\ [Next]_vars => [Contract!CNext]_(Contract!cvars)
    BY NextContract
  <1> QED
    BY <1>1, <1>2, <1>3, PTL DEF Spec, ImplementsContract, Contract!CSpec

----------------------------------------------------------------------------
(***************************************************************************)
(* What the last answer does, as long as the answers of one request come   *)
(* one after the other and no platform is deleted.  Both are needed: two   *)
(* overlapping answers count each other as open, and the deletion of the   *)
(* last open platform is nobody's answer.                                  *)
(***************************************************************************)
OneAnswerAtATime ==
  \A c, d \in Clients :
    (InTx(c) /\ InTx(d) /\ RequestOf(tx[c].asg) = RequestOf(tx[d].asg)) => c = d

NothingDeleted == platforms = Platforms

IsOpen(a) == asgStatus[a] \in OpenStatus
StillOpen(r) == \E a \in AssignmentsOf(r) : IsOpen(a)

\* Who has counted an open assignment still has one to leave the request to.
MoreStillTrue ==
  \A c \in Clients : tx[c].pc = "more" =>
    \E b \in AssignmentsOf(RequestOf(tx[c].asg)) \ {tx[c].asg} : IsOpen(b)

LastAnswerInv ==
  /\ ContractInv
  /\ \A r \in Requests : Known(r) => reqStatus[r] = "fulfilled" \/ StillOpen(r)
  /\ MoreStillTrue

\* Everything but an answer or a deletion leaves open what is open.
LEMMA OpenStaysOpen ==
  ASSUME TypeOK, Next, ~ \E c \in Clients : RespondCommit(c),
         ~ \E p \in Platforms : DeletePlatform(p), NEW a \in Assignments, IsOpen(a)
  PROVE  IsOpen(a)'
  <1>1. ASSUME NEW r \in Requests, NEW ps \in SUBSET platforms,
               NEW ph \in ({0} \cup Readings) \ {1, 2}, Ingest(r, ps, ph)
        PROVE  IsOpen(a)'
    BY <1>1 DEF Ingest, CreateRequest, IsOpen, OpenStatus, AsgStatus, DueSoon, Terminal
  <1>2. ASSUME NEW r \in Requests, NEW p \in Platforms, Dispatch(r, p) PROVE IsOpen(a)'
    BY <1>2 DEF Dispatch, TypeOK, AssignmentsOK, IsOpen, OpenStatus, AsgStatus, DueSoon, Terminal
  <1>3. ASSUME NEW w \in Workers, SweepMarkAssignment(w) PROVE IsOpen(a)'
    BY <1>3 DEF SweepMarkAssignment, TypeOK, AssignmentsOK, IsOpen, OpenStatus, AsgStatus, DueSoon,
                Terminal
  <1>4. CASE UNCHANGED asgStatus
    BY <1>4 DEF IsOpen
  <1> QED
    BY <1>1, <1>2, <1>3, <1>4
    DEF Next, DispatchCrash, Respond, RespondUpdate, RespondCount, RespondAbort, RespondNotify,
        SweepStep, SweepStart, SweepRemind, SweepRead, SweepMarkRequest, SweepEscalate, SweepBreach,
        SweepNotify, SweepEnd, SweepCrash, Tick, asgVars

\* A request becomes known with an open assignment.
LEMMA KnownSince ==
  ASSUME ContractInv, Next, NEW r \in Requests, Known(r)', ~ Known(r),
         ~ \E c \in Clients : RespondCommit(c)
  PROVE  StillOpen(r)'
  <1>0. TypeOK
    BY DEF ContractInv, AnswersInv
  <1>1. ASSUME NEW q \in Requests, NEW ps \in SUBSET platforms,
               NEW ph \in ({0} \cup Readings) \ {1, 2}, Ingest(q, ps, ph)
        PROVE  StillOpen(r)'
    <2>1. q = r
      BY <1>0, <1>1 DEF Ingest, CreateRequest, TypeOK, RequestsOK, Known
    <2>2. PICK p \in ps : p \in Platforms
      BY <1>0, <1>1 DEF Ingest, TypeOK
    <2>3. <<r, p>> \in AssignmentsOf(r) /\ <<r, p>> \in Assignments /\ asgStatus'[<<r, p>>] = "pending"
      BY <1>1, <2>1, <2>2 DEF Ingest, CreateRequest, Assignments, AssignmentsOf
    <2> QED
      BY <2>3 DEF StillOpen, IsOpen, OpenStatus, AsgStatus, DueSoon, Terminal
  <1>2. ASSUME NEW w \in Workers, SweepMarkRequest(w)
        PROVE  FALSE
    <2>1. sweep[w].row \in InHand(w)
      BY <1>2 DEF InHand, SweepMarkRequest, InRow
    <2>2. Known(RequestOf(sweep[w].row.asg))
      BY <2>1 DEF ContractInv, RowsKnown
    <2> QED
      BY <1>0, <1>2, <2>2 DEF SweepMarkRequest, TypeOK, RequestsOK, Known
  <1> QED
    BY <1>1, <1>2
    DEF Known, Next, Dispatch, DispatchCrash, Respond, RespondUpdate, RespondCount, RespondAbort,
        RespondNotify, SweepStep, SweepStart, SweepRemind, SweepRead, SweepMarkAssignment,
        SweepEscalate, SweepBreach, SweepNotify, SweepEnd, SweepCrash, Tick, DeletePlatform, reqVars

\* A transaction has counted more by RespondCount only.
LEMMA MoreIsCounted ==
  ASSUME TypeOK, Next, NEW c \in Clients, tx'[c].pc = "more"
  PROVE  /\ tx'[c].asg = tx[c].asg /\ InTx(c)
         /\ tx[c].pc = "more" \/ OpenBut(tx[c].asg) # {}
  <1>0. tx \in [Clients -> Txs]
    BY DEF TypeOK, TxsOK
  <1>1. CASE UNCHANGED tx
    BY <1>1 DEF InTx
  <1>2. ASSUME NEW d \in Clients, Respond(d)
        PROVE  /\ tx'[c].asg = tx[c].asg /\ InTx(c)
               /\ tx[c].pc = "more" \/ OpenBut(tx[c].asg) # {}
    <2>1. CASE RespondCount(d)
      BY <1>0, <2>1 DEF RespondCount, InTx, Txs
    <2>2. CASE ~ RespondCount(d)
      <3>1. PICK t : t.pc # "more" /\ tx' = [tx EXCEPT ![d] = t]
        <4>1. CASE \E a \in Assignments, answer \in Verdicts : RespondUpdate(d, a, answer)
          <5>1. PICK a \in Assignments, answer \in Verdicts : RespondUpdate(d, a, answer)
            BY <4>1
          <5>2. tx' = [tx EXCEPT ![d] = [NoTx EXCEPT !.pc = "updated", !.asg = a, !.answer = answer]]
            BY <5>1 DEF RespondUpdate
          <5> QED
            BY <5>2 DEF NoTx
        <4>2. CASE RespondCommit(d) /\ tx[d].pc = "last"
          <5>1. tx' = [tx EXCEPT ![d] = [NoTx EXCEPT !.pc = "committed", !.asg = tx[d].asg]]
            BY <4>2 DEF RespondCommit
          <5> QED
            BY <5>1 DEF NoTx
        <4>3. CASE (RespondCommit(d) /\ tx[d].pc # "last") \/ RespondAbort(d) \/ RespondNotify(d)
          <5>1. tx' = [tx EXCEPT ![d] = NoTx]
            BY <4>3 DEF RespondCommit, RespondAbort, RespondNotify
          <5> QED
            BY <5>1 DEF NoTx
        <4> QED
          BY <1>2, <2>2, <4>1, <4>2, <4>3 DEF Respond
      <3> QED
        BY <1>0, <3>1 DEF InTx
    <2> QED
      BY <2>1, <2>2
  <1> QED
    BY <1>1, <1>2
    DEF Next, Ingest, Dispatch, DispatchCrash, SweepStep, SweepStart, SweepRemind, SweepRead,
        SweepMarkAssignment, SweepMarkRequest, SweepEscalate, SweepBreach, SweepNotify, SweepEnd,
        SweepCrash, Tick, DeletePlatform

\* The rows an answer leaves alone stay open, the others of its request among them.
LEMMA CommitLeavesOpen ==
  ASSUME TypeOK, NEW c \in Clients, RespondCommit(c),
         NEW b \in Assignments, b # tx[c].asg, IsOpen(b)
  PROVE  IsOpen(b)'
  BY DEF RespondCommit, IsOpen, TypeOK, AssignmentsOK

LEMMA CommitLastAnswer ==
  ASSUME LastAnswerInv, OneAnswerAtATime, NEW c \in Clients, RespondCommit(c),
         NEW r \in Requests, Known(r)'
  PROVE  reqStatus'[r] = "fulfilled" \/ StillOpen(r)'
  <1>0. TypeOK
    BY DEF LastAnswerInv, ContractInv, AnswersInv
  <1>1. PICK a \in Assignments : a = tx[c].asg
    BY <1>0 DEF RespondCommit, TypeOK, TxsOK
  <1>2. RequestOf(a) \in Requests
    BY RequestOfType
  <1>3. CASE r # RequestOf(a)
    <2>1. reqStatus'[r] = reqStatus[r] /\ Known(r)
      BY <1>0, <1>1, <1>2, <1>3 DEF RespondCommit, TypeOK, RequestsOK, Known
    <2>2. \A b \in AssignmentsOf(r) : b \in Assignments /\ b # tx[c].asg
      BY <1>1, <1>3, AssignmentsOfType
    <2> QED
      BY <1>0, <2>1, <2>2, CommitLeavesOpen DEF LastAnswerInv, StillOpen
  <1>4. CASE r = RequestOf(a) /\ tx[c].pc = "last"
    BY <1>0, <1>1, <1>2, <1>4 DEF RespondCommit, TypeOK, RequestsOK
  <1>5. CASE r = RequestOf(a) /\ tx[c].pc = "more"
    <2>1. PICK b \in AssignmentsOf(r) \ {a} : IsOpen(b)
      BY <1>1, <1>5 DEF LastAnswerInv, MoreStillTrue
    <2> QED
      BY <1>0, <1>1, <2>1, AssignmentsOfType, CommitLeavesOpen DEF StillOpen
  <1> QED
    BY <1>3, <1>4, <1>5 DEF RespondCommit

LEMMA NextLastAnswer ==
  ASSUME LastAnswerInv, OneAnswerAtATime, NothingDeleted, NothingDeleted', [Next]_vars
  PROVE  LastAnswerInv'
  <1>0. TypeOK /\ ContractInv' /\ ContractInv
    BY NextContractInv DEF LastAnswerInv, ContractInv, AnswersInv
  <1>1. CASE UNCHANGED vars
    BY <1>0, <1>1 DEF vars, reqVars, asgVars, LastAnswerInv, MoreStillTrue, StillOpen, IsOpen, Known
  <1>2. CASE Next
    <2>1. ~ \E p \in Platforms : DeletePlatform(p)
      BY DEF NothingDeleted, DeletePlatform
    <2>2. ASSUME NEW r \in Requests, Known(r)'
          PROVE  reqStatus'[r] = "fulfilled" \/ StillOpen(r)'
      <3>1. CASE \E c \in Clients : RespondCommit(c)
        BY <2>2, <3>1, CommitLastAnswer
      <3>2. CASE Known(r) /\ ~ \E c \in Clients : RespondCommit(c)
        <4>1. CASE reqStatus[r] = "fulfilled"
          BY <1>0, <1>2, <4>1, FulfilledStays
        <4>2. CASE StillOpen(r)
          BY <1>0, <1>2, <2>1, <3>2, <4>2, OpenStaysOpen, AssignmentsOfType DEF StillOpen
        <4> QED
          BY <3>2, <4>1, <4>2 DEF LastAnswerInv
      <3>3. CASE ~ Known(r) /\ ~ \E c \in Clients : RespondCommit(c)
        BY <1>0, <1>2, <2>2, <3>3, KnownSince
      <3> QED
        BY <3>1, <3>2, <3>3
    <2>3. MoreStillTrue'
      <3> SUFFICES ASSUME NEW c \in Clients, tx'[c].pc = "more"
                   PROVE  \E b \in AssignmentsOf(RequestOf(tx'[c].asg)) \ {tx'[c].asg} : IsOpen(b)'
        BY DEF MoreStillTrue
      <3>1. PICK a \in Assignments : a = tx[c].asg /\ tx'[c].asg = a /\ InTx(c)
        BY <1>0, <1>2, MoreIsCounted DEF TypeOK, TxsOK, InTx
      <3>2. PICK b \in AssignmentsOf(RequestOf(a)) \ {a} : IsOpen(b)
        <4>1. CASE tx[c].pc = "more"
          BY <3>1, <4>1 DEF LastAnswerInv, MoreStillTrue
        <4>2. CASE OpenBut(a) # {}
          BY <4>2 DEF OpenBut, IsOpen
        <4> QED
          BY <1>0, <1>2, <3>1, <4>1, <4>2, MoreIsCounted
      <3>3. b \in Assignments /\ RequestOf(b) = RequestOf(a)
        BY <3>2, RequestOfType, AssignmentsOfType
      <3>4. IsOpen(b)'
        <4>1. ASSUME NEW d \in Clients, RespondCommit(d)
              PROVE  b # tx[d].asg
          BY <3>1, <3>3, <4>1, <1>2 DEF OneAnswerAtATime, InTx, RespondCommit
        <4> QED
          BY <1>0, <1>2, <2>1, <3>2, <3>3, <4>1, OpenStaysOpen, CommitLeavesOpen
      <3> QED
        BY <3>1, <3>2, <3>4
    <2> QED
      BY <1>0, <2>2, <2>3 DEF LastAnswerInv
  <1> QED
    BY <1>1, <1>2

(***************************************************************************)
(* The promise of respondAssignment's transaction, for any number of       *)
(* handlers, platforms and instances: as long as two answers of one        *)
(* request do not overlap and nothing is deleted, a request whose          *)
(* assignments are all terminal is fulfilled, whatever sweeps and late     *)
(* dispatches have overwritten.                                            *)
(***************************************************************************)
THEOREM LastAnswerFulfils ==
  Spec /\ []OneAnswerAtATime /\ []NothingDeleted => []AnsweredMeansFulfilled
  <1>1. Init => LastAnswerInv
    BY InitContractInv DEF Init, LastAnswerInv, MoreStillTrue, Known, NoTx
  <1>2. LastAnswerInv /\ OneAnswerAtATime /\ NothingDeleted /\ NothingDeleted' /\ [Next]_vars
          => LastAnswerInv'
    BY NextLastAnswer
  <1>3. LastAnswerInv => AnsweredMeansFulfilled
    <2> SUFFICES ASSUME LastAnswerInv, NEW r \in Requests,
                        NEW m \in AssignmentsOf(r), asgStatus[m] # "none",
                        \A a \in AssignmentsOf(r) : asgStatus[a] # "none" => asgStatus[a] \in Terminal
                 PROVE  reqStatus[r] = "fulfilled"
      BY DEF AnsweredMeansFulfilled
    <2>1. Known(r)
      BY AssignmentsOfType DEF LastAnswerInv, ContractInv, AnswersInv, KnownRequest, Known
    <2>2. ~ StillOpen(r)
      BY DEF StillOpen, IsOpen, OpenStatus
    <2> QED
      BY <2>1, <2>2 DEF LastAnswerInv
  <1> QED
    BY <1>1, <1>2, <1>3, PTL DEF Spec

----------------------------------------------------------------------------
(***************************************************************************)
(* Reminders, as long as one sweep at a time is sending them.  incReminders*)
(* adds to the counter without looking at it, so two sweeps that read the  *)
(* same row both send what it was owed.                                    *)
(***************************************************************************)
Reminding(w) == sweep[w].pc = "remind"
OneReminderAtATime == \A v, w \in Workers : (Reminding(v) /\ Reminding(w)) => v = w

\* What a sweep has still to send is what the counter is short of a threshold, once per row.
ReminderInv ==
  /\ TypeOK
  /\ RemindedOncePerThreshold
  /\ \A w \in Workers : Reminding(w) =>
       \A d \in sweep[w].due :
         /\ reminders[d[1]] + d[2] <= Thresholds
         /\ \A e \in sweep[w].due : d[1] = e[1] => d = e

LEMMA StartReminding ==
  ASSUME ReminderInv, TypeOK', NEW w \in Workers, SweepStart(w)
  PROVE  ReminderInv'
  <1> DEFINE soon == {a \in Assignments : asgStatus[a] \in DueSoon /\ phase[a] < Late}
             owing == {b \in soon : RemindersOwed(b) > 0}
             due == {<<a, RemindersOwed(a)>> : a \in owing}
  <1>0. TypeOK /\ reminders' = reminders
    BY DEF ReminderInv, SweepStart, asgVars
  <1>1. sweep'[w].due = due /\ \A v \in Workers : v # w => sweep'[v] = sweep[v]
    BY <1>0 DEF SweepStart, TypeOK, SweepsOK, NoSweep
  <1>2. \A d \in due : d[1] \in Assignments /\ d = <<d[1], RemindersOwed(d[1])>> /\ phase[d[1]] < Late
    OBVIOUS
  <1> HIDE DEF due
  <1>3. \A d \in due : reminders[d[1]] + d[2] <= Thresholds
    <2> SUFFICES ASSUME NEW d \in due PROVE reminders[d[1]] + d[2] <= Thresholds
      OBVIOUS
    <2>1. d[1] \in Assignments /\ d[2] = RemindersOwed(d[1]) /\ phase[d[1]] < Late
      BY <1>2
    <2>2. RemindersDue(d[1]) <= Thresholds /\ RemindersDue(d[1]) \in Nat
      BY <1>0, <2>1 DEF RemindersDue, TypeOK, AssignmentsOK, Late, Thresholds
    <2> QED
      BY <1>0, <2>1, <2>2 DEF RemindersOwed, TypeOK, AssignmentsOK, Thresholds
  <1>4. \A d, e \in due : d[1] = e[1] => d = e
    BY <1>2
  <1> QED
    BY <1>0, <1>1, <1>3, <1>4 DEF ReminderInv, RemindedOncePerThreshold, Reminding

LEMMA SendReminder ==
  ASSUME ReminderInv, TypeOK', OneReminderAtATime, NEW w \in Workers, SweepRemind(w)
  PROVE  ReminderInv'
  <1>0. TypeOK /\ Reminding(w)
    BY DEF ReminderInv, SweepRemind, Reminding
  <1> DEFINE Sent(d, n) ==
               /\ reminders' = [reminders EXCEPT ![d[1]] =
                                  IF asgStatus[d[1]] = "none" THEN @ ELSE @ + n]
               /\ sweep' = [sweep EXCEPT ![w].due = @ \ {d}]
  <1>a. PICK d \in sweep[w].due : \E n \in 0 .. d[2] : Sent(d, n)
    BY DEF SweepRemind
  <1>1. PICK n \in 0 .. d[2] : Sent(d, n)
    BY <1>a
  <1>2. d[1] \in Assignments /\ d[2] \in Nat
    BY <1>0 DEF TypeOK, SweepsOK, Sweeps
  <1>3. /\ \A a \in Assignments : a # d[1] => reminders'[a] = reminders[a]
        /\ reminders'[d[1]] <= Thresholds
    BY <1>0, <1>1, <1>2 DEF ReminderInv, TypeOK, AssignmentsOK, Thresholds
  <1>4. /\ sweep'[w].due = sweep[w].due \ {d}
        /\ \A v \in Workers : v # w => sweep'[v] = sweep[v] /\ ~ Reminding(v)
    BY <1>0, <1>1 DEF TypeOK, SweepsOK, Sweeps, OneReminderAtATime
  <1>5. RemindedOncePerThreshold'
    BY <1>3 DEF ReminderInv, RemindedOncePerThreshold
  <1>6. ASSUME NEW e \in sweep[w].due \ {d}
        PROVE  reminders'[e[1]] + e[2] <= Thresholds
    <2>1. e[1] # d[1] /\ e[1] \in Assignments
      BY <1>0 DEF ReminderInv, TypeOK, SweepsOK, Sweeps
    <2> QED
      BY <1>0, <1>3, <2>1 DEF ReminderInv
  <1> QED
    BY <1>0, <1>4, <1>5, <1>6 DEF ReminderInv, Reminding

\* Every other step leaves the counters alone, and sends or ends.
LEMMA NotReminding ==
  ASSUME ReminderInv, TypeOK', [Next]_vars,
         ~ \E w \in Workers : SweepStart(w) \/ SweepRemind(w)
  PROVE  ReminderInv'
  <1>0. TypeOK /\ sweep \in [Workers -> Sweeps]
    BY DEF ReminderInv, TypeOK, SweepsOK
  <1>1. reminders' = reminders
    BY DEF Next, vars, Ingest, Dispatch, DispatchCrash, Respond, RespondUpdate, RespondCount,
           RespondCommit, RespondAbort, RespondNotify, SweepStep, SweepRead, SweepMarkAssignment,
           SweepMarkRequest, SweepEscalate, SweepBreach, SweepNotify, SweepEnd, SweepCrash, Tick,
           DeletePlatform, asgVars
  <1>2. \A w \in Workers : Reminding(w)' => sweep'[w] = sweep[w]
    <2>1. CASE UNCHANGED sweep
      BY <2>1
    <2>2. ASSUME NEW v \in Workers, SweepStep(v) \/ SweepCrash(v)
          PROVE  \A w \in Workers : Reminding(w)' => sweep'[w] = sweep[w]
      <3>1. CASE SweepEnd(v) \/ SweepCrash(v)
        <4>1. sweep' = [sweep EXCEPT ![v] = NoSweep]
          BY <3>1 DEF SweepEnd, SweepCrash
        <4>2. sweep'[v].pc = "idle" /\ \A w \in Workers : w # v => sweep'[w] = sweep[w]
          BY <1>0, <4>1 DEF NoSweep
        <4> QED
          BY <4>2 DEF Reminding
      <3>2. CASE SweepRead(v) \/ SweepMarkAssignment(v)
        <4>1. CASE SweepRead(v)
          <5>1. PICK rows : sweep' = [sweep EXCEPT ![v] = [@ EXCEPT !.pc = "row", !.rows = rows]]
            BY <4>1, Zenon DEF SweepRead
          <5> QED
            BY <1>0, <5>1 DEF Sweeps, Reminding
        <4>2. CASE SweepMarkAssignment(v)
          BY <1>0, <4>2 DEF SweepMarkAssignment, Sweeps, Reminding
        <4> QED
          BY <3>2, <4>1, <4>2
      <3>3. CASE SweepMarkRequest(v) \/ SweepEscalate(v)
        BY <1>0, <3>3 DEF SweepMarkRequest, SweepEscalate, Reminding, Sweeps
      <3>4. CASE SweepBreach(v)
        <4> DEFINE r == RequestOf(sweep[v].row.asg)
        <4>1. PICK ok \in BOOLEAN :
                sweep' = [sweep EXCEPT ![v].seen = @ \cup {r},
                                       ![v].pc = IF ok /\ LatchFlips(r) THEN "notify" ELSE "row"]
          BY <3>4 DEF SweepBreach
        <4>2. sweep'[v].pc \in {"notify", "row"} /\ \A w \in Workers : w # v => sweep'[w] = sweep[w]
          BY <1>0, <4>1 DEF Sweeps
        <4> QED
          BY <4>2 DEF Reminding
      <3>5. CASE SweepNotify(v)
        BY <1>0, <3>5 DEF SweepNotify, Reminding, Sweeps
      <3> QED
        BY <2>2, <3>1, <3>2, <3>3, <3>4, <3>5 DEF SweepStep
    <2> QED
      BY <2>1, <2>2 DEF Next, vars, Ingest, Dispatch, DispatchCrash, Respond, RespondUpdate,
                        RespondCount, RespondCommit, RespondAbort, RespondNotify, Tick, DeletePlatform
  <1> QED
    BY <1>0, <1>1, <1>2 DEF ReminderInv, RemindedOncePerThreshold, Reminding

(***************************************************************************)
(* A platform gets at most one reminder per threshold as long as no two    *)
(* sweeps are sending reminders at the same time, however many instances   *)
(* sweep in turn, crash half-way or fail between two increments: what has  *)
(* been sent is in the counter before the next sweep reads it.             *)
(***************************************************************************)
THEOREM RemindersInTurn == Spec /\ []OneReminderAtATime => []RemindedOncePerThreshold
  <1>1. Init => ReminderInv
    BY InitType DEF Init, ReminderInv, RemindedOncePerThreshold, Reminding, NoSweep, Thresholds
  <1>2. ReminderInv /\ OneReminderAtATime /\ [Next]_vars => ReminderInv'
    <2> SUFFICES ASSUME ReminderInv, OneReminderAtATime, [Next]_vars PROVE ReminderInv'
      OBVIOUS
    <2>1. TypeOK'
      BY NextType DEF ReminderInv
    <2> QED
      BY <2>1, StartReminding, SendReminder, NotReminding
  <1>3. ReminderInv => RemindedOncePerThreshold
    BY DEF ReminderInv
  <1> QED
    BY <1>1, <1>2, <1>3, PTL DEF Spec
==============================================================================
