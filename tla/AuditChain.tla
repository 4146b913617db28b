------------------------------ MODULE AuditChain ------------------------------
(***************************************************************************)
(* The audit log: rows of audit_log, each with the hash of the one before  *)
(* it.  append is one transaction: it takes an advisory lock that ends     *)
(* with it, reads the last row's hash, and inserts under the next id.      *)
(* An event is reduced to its target, and the hash of a row, which no      *)
(* other row is assumed to share, to what it is computed from.             *)
(***************************************************************************)
EXTENDS Integers, FiniteSets

CONSTANTS
  Calls,    \* requests in flight
  Targets,  \* what an event is about
  MaxRows   \* bound: ids drawn from the log's sequence

ASSUME AuditAssumption == MaxRows \in Nat

VARIABLES
  log,       \* audit_log, the committed rows
  sequence,  \* the last id drawn; a rollback does not give it back
  append     \* what each append has done

auditVars == <<log, sequence, append>>

Genesis == <<>>
ChainHash(prev, target) == <<prev, target>>

NoAppend == [at |-> "idle"]
Appending(c) == append[c].at \in {"read", "insert", "commit"}

Before(x, rows) == {y \in rows : y.id < x.id}
LastHash(rows) ==
  IF rows = {} THEN Genesis ELSE (CHOOSE x \in rows : \A y \in rows : y.id <= x.id).hash

\* verifyChain, on the rows its one SELECT sees
Verified(rows) ==
  \A x \in rows :
    /\ x.prev = LastHash(Before(x, rows))
    /\ x.hash = ChainHash(x.prev, x.target)

AuditInit ==
  /\ log = {}
  /\ sequence = 0
  /\ append = [c \in Calls |-> NoAppend]

AppendDoes(c, a) == append' = [append EXCEPT ![c] = a]

AppendBegin(c, t) ==
  /\ append[c].at = "idle"
  /\ AppendDoes(c, [at |-> "lock", target |-> t])
  /\ UNCHANGED <<log, sequence>>

\* Mutant: the lock is not waited for.
TakenOrNot(c) == append[c].at = "lock"
LockIsFree(c) == append[c].at = "lock" /\ \A d \in Calls : ~ Appending(d)

AppendLock(c) ==
  /\ LockIsFree(c)
  /\ AppendDoes(c, [at |-> "read", target |-> append[c].target])
  /\ UNCHANGED <<log, sequence>>

AppendRead(c) ==
  /\ append[c].at = "read"
  /\ AppendDoes(c, [at |-> "insert", target |-> append[c].target, prev |-> LastHash(log)])
  /\ UNCHANGED <<log, sequence>>

AppendInsert(c) ==
  /\ append[c].at = "insert"
  /\ sequence < MaxRows
  /\ sequence' = sequence + 1
  /\ AppendDoes(c, [at |-> "commit", id |-> sequence + 1, target |-> append[c].target,
                    prev |-> append[c].prev])
  /\ UNCHANGED log

AppendCommit(c) ==
  /\ append[c].at = "commit"
  /\ log' = log \cup
       {[id |-> append[c].id, target |-> append[c].target, prev |-> append[c].prev,
         hash |-> ChainHash(append[c].prev, append[c].target)]}
  /\ AppendDoes(c, NoAppend)
  /\ UNCHANGED sequence

\* A failed statement or a lost connection: rolled back, the caller only logs it.
AppendFail(c) ==
  /\ append[c].at # "idle"
  /\ AppendDoes(c, NoAppend)
  /\ UNCHANGED <<log, sequence>>

AuditStep(c) ==
  \/ AppendLock(c) \/ AppendRead(c) \/ AppendInsert(c) \/ AppendCommit(c) \/ AppendFail(c)

AuditNext == \E c \in Calls : AuditStep(c) \/ \E t \in Targets : AppendBegin(c, t)

AuditSpec == AuditInit /\ [][AuditNext]_auditVars

\* verifyChain finds no broken row, whenever it looks: appends of any number of
\* requests and instances, rolled back or not, never fork the chain.
ChainIntact == Verified(log)
===============================================================================
