--------------------------- MODULE AuditChainProofs ---------------------------
(***************************************************************************)
(* Proof that the audit chain is intact for any number of appends, on any  *)
(* number of instances, and any rollbacks among them.                      *)
(***************************************************************************)
EXTENDS AuditChain, TLAPS

\* Only the holder of the lock knows the last hash, and only it draws ids.
OneAppending == \A c, d \in Calls : Appending(c) /\ Appending(d) => c = d
PrevIsLast == \A c \in Calls : append[c].at \in {"insert", "commit"} => append[c].prev = LastHash(log)
IdIsNew ==
  \A c \in Calls : append[c].at = "commit" =>
    append[c].id \in 1 .. sequence /\ \A x \in log : x.id < append[c].id
IdsDrawn == \A x \in log : x.id \in 1 .. sequence

AuditInv ==
  /\ append = [c \in Calls |-> append[c]]
  /\ sequence \in Nat
  /\ IdsDrawn /\ OneAppending /\ PrevIsLast /\ IdIsNew
  /\ ChainIntact

\* What an append does to itself leaves the others as they are.
LEMMA Does ==
  ASSUME AuditInv, NEW c \in Calls, NEW a, AppendDoes(c, a)
  PROVE  /\ append' = [d \in Calls |-> append'[d]]
         /\ append'[c] = a
         /\ \A d \in Calls \ {c} : append'[d] = append[d]
BY DEF AuditInv, AppendDoes

\* A row with an id above all others follows the last one, and no old row's
\* predecessors change.
LEMMA NewRow ==
  ASSUME NEW rows, NEW x, Verified(rows), x \notin rows,
         \A y \in rows : y.id \in Int /\ y.id < x.id, x.id \in Int,
         x.prev = LastHash(rows), x.hash = ChainHash(x.prev, x.target)
  PROVE  Verified(rows \cup {x})
<1>1. \A y \in rows : Before(y, rows \cup {x}) = Before(y, rows)
  BY DEF Before
<1>2. Before(x, rows \cup {x}) = rows
  BY DEF Before
<1> QED BY <1>1, <1>2 DEF Verified

LEMMA InitAudit == AuditInit => AuditInv
BY SMTT(30) DEF AuditInit, AuditInv, IdsDrawn, OneAppending, PrevIsLast, IdIsNew, ChainIntact, Verified,
       Appending, NoAppend

LEMMA AuditStepInv ==
  ASSUME AuditInv, [AuditNext]_auditVars
  PROVE  AuditInv'
<1>1. CASE UNCHANGED auditVars
  BY <1>1 DEF auditVars, AuditInv, IdsDrawn, OneAppending, PrevIsLast, IdIsNew, ChainIntact, Appending
<1>2. ASSUME NEW c \in Calls, UNCHANGED <<log, sequence>>, NEW a, AppendDoes(c, a),
             a.at \in {"idle", "lock", "read", "insert"},
             a.at \in {"read", "insert"} => \A d \in Calls \ {c} : ~ Appending(d),
             a.at = "insert" => a.prev = LastHash(log)
      PROVE  AuditInv'
  <2>1. /\ append' = [d \in Calls |-> append'[d]]
        /\ append'[c] = a
        /\ \A d \in Calls \ {c} : append'[d] = append[d]
    BY <1>2, Does
  <2>2. OneAppending'
    BY <1>2, <2>1 DEF AuditInv, OneAppending, Appending
  <2>3. PrevIsLast'
    BY <1>2, <2>1 DEF AuditInv, PrevIsLast
  <2>4. IdIsNew'
    BY <1>2, <2>1 DEF AuditInv, IdIsNew
  <2>5. IdsDrawn' /\ ChainIntact'
    BY <1>2 DEF AuditInv, IdsDrawn, ChainIntact
  <2> QED BY <1>2, <2>1, <2>2, <2>3, <2>4, <2>5 DEF AuditInv
<1>3. ASSUME NEW c \in Calls, Appending(c)
      PROVE  \A d \in Calls \ {c} : ~ Appending(d)
  BY <1>3 DEF AuditInv, OneAppending
<1>4. ASSUME NEW c \in Calls, NEW t \in Targets, AppendBegin(c, t)
      PROVE  AuditInv'
  BY <1>2, <1>4 DEF AppendBegin
<1>5. ASSUME NEW c \in Calls, AppendLock(c)
      PROVE  AuditInv'
  BY <1>2, <1>5 DEF AppendLock, LockIsFree
<1>6. ASSUME NEW c \in Calls, AppendRead(c)
      PROVE  AuditInv'
  <2>1. \A d \in Calls \ {c} : ~ Appending(d)
    BY <1>3, <1>6 DEF AppendRead, Appending
  <2> QED BY <1>2, <1>6, <2>1 DEF AppendRead
<1>7. ASSUME NEW c \in Calls, AppendFail(c)
      PROVE  AuditInv'
  BY <1>2, <1>7 DEF AppendFail, NoAppend
<1>8. ASSUME NEW c \in Calls, AppendInsert(c)
      PROVE  AuditInv'
  <2> DEFINE a == [at |-> "commit", id |-> sequence + 1, target |-> append[c].target,
                   prev |-> append[c].prev]
  <2>1. /\ append' = [d \in Calls |-> append'[d]]
        /\ append'[c] = a
        /\ \A d \in Calls \ {c} : append'[d] = append[d]
    BY <1>8, Does DEF AppendInsert
  <2>2. sequence \in Nat /\ sequence' = sequence + 1 /\ log' = log
    BY <1>8 DEF AppendInsert, AuditInv
  <2>3. \A d \in Calls \ {c} : ~ Appending(d)
    BY <1>3, <1>8 DEF AppendInsert, Appending
  <2>4. append[c].prev = LastHash(log)
    BY <1>8 DEF AppendInsert, AuditInv, PrevIsLast
  <2>5. OneAppending'
    BY <2>1, <2>3 DEF OneAppending, Appending
  <2>6. PrevIsLast'
    BY <2>1, <2>2, <2>3, <2>4 DEF PrevIsLast, Appending
  <2>7. IdsDrawn'
    BY <2>2 DEF AuditInv, IdsDrawn
  <2>8. IdIsNew'
    BY <2>1, <2>2, <2>3 DEF AuditInv, IdIsNew, IdsDrawn, Appending
  <2> QED BY <2>1, <2>2, <2>5, <2>6, <2>7, <2>8 DEF AuditInv, ChainIntact
<1>9. ASSUME NEW c \in Calls, AppendCommit(c)
      PROVE  AuditInv'
  <2> DEFINE x == [id |-> append[c].id, target |-> append[c].target, prev |-> append[c].prev,
                   hash |-> ChainHash(append[c].prev, append[c].target)]
  <2>1. /\ append' = [d \in Calls |-> append'[d]]
        /\ append'[c] = NoAppend
        /\ \A d \in Calls \ {c} : append'[d] = append[d]
    BY <1>9, Does DEF AppendCommit
  <2>2. log' = log \cup {x} /\ sequence' = sequence /\ sequence \in Nat
    BY <1>9 DEF AppendCommit, AuditInv
  <2>3. \A d \in Calls \ {c} : ~ Appending(d)
    BY <1>3, <1>9 DEF AppendCommit, Appending
  <2>4. x.id \in 1 .. sequence /\ \A y \in log : y.id < x.id /\ y.id \in 1 .. sequence
    BY <1>9 DEF AppendCommit, AuditInv, IdIsNew, IdsDrawn
  <2>5. x.prev = LastHash(log) /\ x.hash = ChainHash(x.prev, x.target)
    BY <1>9 DEF AppendCommit, AuditInv, PrevIsLast
  <2>6. ChainIntact'
    <3>1. x \notin log
      BY <2>2, <2>4
    <3>2. Verified(log)
      BY DEF AuditInv, ChainIntact
    <3> HIDE DEF x
    <3> QED BY <2>2, <2>4, <2>5, <3>1, <3>2, NewRow DEF ChainIntact
  <2>7. IdsDrawn'
    BY <2>2, <2>4 DEF IdsDrawn
  <2>8. \A d \in Calls : ~ Appending(d)'
    BY <2>1, <2>3 DEF Appending, NoAppend
  <2>9. OneAppending' /\ PrevIsLast' /\ IdIsNew'
    BY <2>8 DEF OneAppending, PrevIsLast, IdIsNew, Appending
  <2> QED BY <2>1, <2>2, <2>6, <2>7, <2>9 DEF AuditInv
<1> QED BY <1>1, <1>4, <1>5, <1>6, <1>7, <1>8, <1>9 DEF AuditNext, AuditStep

\* The chain of audit_postgres.ts is always found intact by verifyChain: the
\* advisory lock keeps two appends from reading the same last hash, and ids are
\* drawn under it, so that the order by id is the order of the chain.
THEOREM ChainStaysIntact == AuditSpec => []ChainIntact
<1>1. AuditInv /\ [AuditNext]_auditVars => AuditInv'
  BY AuditStepInv
<1>2. AuditInv => ChainIntact
  BY DEF AuditInv
<1> QED BY <1>1, <1>2, InitAudit, PTL DEF AuditSpec
===============================================================================
