---------------------------- MODULE GovLifecycle ----------------------------
(***************************************************************************)
(* What the life of a government service application promises: the table   *)
(* of transitions of domain/gov.ts, which its comment calls the only       *)
(* source of the rule.  An application is created already completed (the   *)
(* output is issued at once) or registered for an officer.                 *)
(***************************************************************************)
CONSTANT Applications
VARIABLE status

\* "none": there is no row yet.  "submitted" is only met in rows older than
\* migration 44, and nothing produces "expired".
Statuses == {"none", "submitted", "registered", "in_review", "info_required",
             "approved", "rejected", "completed", "cancelled", "expired"}

\* What may follow while the decision is open.
Verdicts == {"approved", "completed", "rejected", "cancelled", "expired"}

Successors ==
  [s \in Statuses |->
     CASE s = "none" -> {"registered", "completed"}
       [] s = "submitted" -> {"registered", "cancelled"}
       [] s = "registered" -> {"in_review", "info_required"} \cup Verdicts
       [] s = "in_review" -> {"info_required"} \cup Verdicts
       [] s = "info_required" -> {"in_review"} \cup Verdicts
       [] s = "approved" -> {"completed"}
       [] OTHER -> {}]

CanTransition(from, to) == to \in Successors[from]

\* An application not sent yet, or a row of migration 20 that a later release took over.
LInit ==
  status \in [Applications -> {"none", "submitted", "in_review", "approved", "rejected",
                               "completed", "cancelled"}]

Advance(a) ==
  \E s \in Successors[status[a]] : status' = [status EXCEPT ![a] = s]

\* A sweep closes any number of applications in one statement.
CloseTogether ==
  \E late \in SUBSET Applications :
    /\ \A a \in late : CanTransition(status[a], "completed")
    /\ status' = [a \in Applications |-> IF a \in late THEN "completed" ELSE status[a]]

LNext == CloseTogether \/ \E a \in Applications : Advance(a)

LSpec == LInit /\ [][LNext]_status
==============================================================================
