---------------------------- MODULE FinanceProofs ----------------------------
(***************************************************************************)
(* The budgets' theorems over the ledger of BudgetLedgerProofs.            *)
(*   LedgerTransactions, for every number of requests, projects and        *)
(* retries: what a transaction holds is current, what it inserts is new,   *)
(* and each commit is one step of the atomic ledger.                       *)
(*   FinanceProjects, for every set of projects and every number of        *)
(* transfers and handlers in flight: the ledger of its projects, what      *)
(* their budgets add up to, and what a transfer may do to them.            *)
(***************************************************************************)
EXTENDS LedgerTransactions, FinanceProjects, BudgetLedgerProofs, SequenceTheorems

-----------------------------------------------------------------------------
(* The invariant.                                                          *)

TableSet ==
  [ project : [Projects -> Money],
    deductMaterial : [Orders -> Row \cup {NoRow}],
    refundMaterial : [Orders -> Row \cup {NoRow}],
    deductJasa : [CashOps -> Row \cup {NoRow}],
    refundJasa : [CashOps -> [Tags -> Row \cup {NoRow}]] ]

TxShape ==
  /\ state \in [Requests -> {"idle", "running", "backoff"} \cup Ended]
  /\ attempt \in [Requests -> 0..MaxRetries]
  /\ stale \in [Requests -> SUBSET Projects]
  /\ locks \in [Requests -> Seq(Projects)]
  /\ snapshot \in [Requests -> TableSet \cup {NoSnapshot}]
  /\ \A r \in Requests :
       IF Running(r) THEN snapshot[r] \in TableSet
       ELSE snapshot[r] = NoSnapshot /\ stale[r] = {} /\ locks[r] = <<>>

(* The locks a transaction holds are the first of its list.                *)
FollowsList(l, list) ==
  Len(l) <= Len(list) /\ \A i \in DOMAIN l : l[i] = list[i]

(* No row is locked twice.                                                 *)
Exclusive ==
  \A r, s \in Requests : \A i \in DOMAIN locks[r], k \in DOMAIN locks[s] :
    locks[r][i] = locks[s][k] => r = s /\ i = k

(* A row that was there stays; one that was not may have been inserted for *)
(* one of the given projects.                                              *)
RowFollows(old, new, projects) ==
  new = old \/ (old = NoRow /\ new # NoRow /\ new.project \in projects)

(* What others changed since db was read, they changed of these projects.  *)
Follows(db, tables, projects) ==
  /\ \A p \in Projects \ projects : tables.project[p] = db.project[p]
  /\ \A o \in Orders :
       /\ RowFollows(db.deductMaterial[o], tables.deductMaterial[o], projects)
       /\ RowFollows(db.refundMaterial[o], tables.refundMaterial[o], projects)
  /\ \A c \in CashOps :
       /\ RowFollows(db.deductJasa[c], tables.deductJasa[c], projects)
       /\ \A t \in Tags : RowFollows(db.refundJasa[c][t], tables.refundJasa[c][t], projects)

SnapshotInv(r) ==
  /\ FollowsList(locks[r], LockList(job[r], Seen(r)))
  /\ IsSerializable(r) =>
       /\ Follows(snapshot[r], Tables, stale[r])
       /\ \A i \in DOMAIN locks[r] : locks[r][i] \notin stale[r]

(* Deductions are those of the jobs.                                       *)
RowsOfJobs ==
  /\ \A o \in Orders, r \in Requests :
       /\ job[r].kind = "APPROVE_ORDER" /\ job[r].order = o
       /\ deductMaterial[o] # NoRow
       => deductMaterial[o].project = job[r].project
  /\ \A c \in CashOps, r \in Requests :
       /\ job[r].kind = "APPROVE_CASH_OP" /\ job[r].cashOp = c
       /\ deductJasa[c] # NoRow
       => deductJasa[c].project = job[r].project

TxInv ==
  /\ LedgerInv
  /\ TxShape
  /\ Exclusive
  /\ \A r \in Requests : Running(r) => SnapshotInv(r)
  /\ RowsOfJobs

-----------------------------------------------------------------------------
(* Jobs and the rows they lock.                                            *)

(* What a request asks, by its kind.                                       *)
LEMMA JobFacts ==
  ASSUME NEW r \in Requests
  PROVE  LET j == job[r] IN
         /\ j.kind \in {"APPROVE_ORDER", "CANCEL_ORDER", "APPROVE_CASH_OP",
                        "SETTLE_CASH_OP", "TRANSFER", "UPDATE_BUDGET"}
         /\ j.kind = "APPROVE_ORDER" =>
              j.order \in Orders /\ j.project \in Projects /\ j.amount \in Amounts
         /\ j.kind = "CANCEL_ORDER" => j.order \in Orders
         /\ j.kind = "APPROVE_CASH_OP" =>
              j.cashOp \in CashOps /\ j.project \in Projects /\ j.amount \in Amounts
         /\ j.kind = "SETTLE_CASH_OP" => j.cashOp \in CashOps /\ j.amount \in Amounts
         /\ j.kind = "TRANSFER" =>
              /\ j.src \in Projects /\ j.tgt \in Projects /\ j.src # j.tgt
              /\ j.srcCat \in Categories /\ j.tgtCat \in Categories
              /\ j.amount \in Amounts
         /\ j.kind = "UPDATE_BUDGET" => j.project \in Projects /\ j.budget \in Budgets
<1>1. job[r] \in Jobs /\ (job[r].kind = "TRANSFER" => job[r].src # job[r].tgt)
  BY TransactionAssumption
<1> DEFINE j == job[r]
<1>2. j \in Jobs /\ (j.kind = "TRANSFER" => j.src # j.tgt)
  BY <1>1
<1> HIDE DEF j
<1>3. /\ j.kind \in {"APPROVE_ORDER", "CANCEL_ORDER", "APPROVE_CASH_OP",
                     "SETTLE_CASH_OP", "TRANSFER", "UPDATE_BUDGET"}
      /\ j.kind = "APPROVE_ORDER" =>
           j.order \in Orders /\ j.project \in Projects /\ j.amount \in Amounts
      /\ j.kind = "CANCEL_ORDER" => j.order \in Orders
      /\ j.kind = "APPROVE_CASH_OP" =>
           j.cashOp \in CashOps /\ j.project \in Projects /\ j.amount \in Amounts
      /\ j.kind = "SETTLE_CASH_OP" => j.cashOp \in CashOps /\ j.amount \in Amounts
      /\ j.kind = "TRANSFER" =>
           /\ j.src \in Projects /\ j.tgt \in Projects
           /\ j.srcCat \in Categories /\ j.tgtCat \in Categories
           /\ j.amount \in Amounts
      /\ j.kind = "UPDATE_BUDGET" => j.project \in Projects /\ j.budget \in Budgets
  BY <1>2 DEF Jobs
<1>4. QED
  BY <1>2, <1>3 DEF j

(* The list of rows to lock, by kind.                                      *)
LEMMA LockLists ==
  ASSUME NEW j, NEW db
  PROVE  /\ j.kind \in {"APPROVE_ORDER", "APPROVE_CASH_OP", "UPDATE_BUDGET"} =>
              LockList(j, db) = <<j.project>>
         /\ j.kind = "CANCEL_ORDER" =>
              LockList(j, db) = IF db.deductMaterial[j.order] = NoRow
                                THEN <<>> ELSE <<db.deductMaterial[j.order].project>>
         /\ j.kind = "SETTLE_CASH_OP" =>
              LockList(j, db) = IF db.deductJasa[j.cashOp] = NoRow
                                THEN <<>> ELSE <<db.deductJasa[j.cashOp].project>>
         /\ j.kind = "TRANSFER" =>
              LockList(j, db) = IF LockOrder[j.src] < LockOrder[j.tgt]
                                THEN <<j.src, j.tgt>> ELSE <<j.tgt, j.src>>
  BY DEF LockList

(* It is a list of projects.                                               *)
LEMMA LockListType ==
  ASSUME NEW r \in Requests, NEW db \in TableSet
  PROVE  LockList(job[r], db) \in Seq(Projects)
<1> DEFINE j == job[r]
           list == LockList(j, db)
<1>1. /\ db.deductMaterial \in [Orders -> Row \cup {NoRow}]
      /\ db.deductJasa \in [CashOps -> Row \cup {NoRow}]
  BY DEF TableSet
<1>2. \A p \in Projects : <<p>> \in Seq(Projects)
  OBVIOUS
<1>3. <<>> \in Seq(Projects) /\ \A p, q \in Projects : <<p, q>> \in Seq(Projects)
  OBVIOUS
<1>4. CASE j.kind \in {"APPROVE_ORDER", "APPROVE_CASH_OP", "UPDATE_BUDGET"}
  BY <1>2, <1>4, LockLists, JobFacts
<1>5. CASE j.kind = "CANCEL_ORDER"
  <2>1. db.deductMaterial[j.order] # NoRow => db.deductMaterial[j.order].project \in Projects
    BY <1>1, <1>5, JobFacts DEF Row
  <2>2. QED
    BY <1>2, <1>3, <1>5, <2>1, LockLists
<1>6. CASE j.kind = "SETTLE_CASH_OP"
  <2>1. db.deductJasa[j.cashOp] # NoRow => db.deductJasa[j.cashOp].project \in Projects
    BY <1>1, <1>6, JobFacts DEF Row
  <2>2. QED
    BY <1>2, <1>3, <1>6, <2>1, LockLists
<1>7. CASE j.kind = "TRANSFER"
  BY <1>3, <1>7, LockLists, JobFacts
<1>8. QED
  BY <1>4, <1>5, <1>6, <1>7, JobFacts

(* The tables a transaction sees are tables.                               *)
LEMMA SeenType ==
  ASSUME TypeOK, TxShape, NEW r \in Requests, Running(r)
  PROVE  /\ Tables \in TableSet /\ Seen(r) \in TableSet
         /\ Seen(r) = IF IsSerializable(r) THEN snapshot[r] ELSE Tables
         /\ LockList(job[r], Seen(r)) \in Seq(Projects)
<1>1. Tables \in TableSet
  BY DEF Tables, TableSet, TypeOK
<1>2. Seen(r) \in TableSet
  BY <1>1 DEF Seen, TxShape
<1>3. QED
  BY <1>1, <1>2, LockListType DEF Seen

-----------------------------------------------------------------------------
(* Steps that leave the tables alone.                                      *)

(* One request changes, the ledger does not.                               *)
LEMMA OneRequestChanges ==
  ASSUME TxInv, NEW r \in Requests, UNCHANGED ledgerVars, TxShape', Exclusive',
         \A s \in Requests \ {r} :
           /\ state'[s] = state[s] /\ snapshot'[s] = snapshot[s]
           /\ stale'[s] = stale[s] /\ locks'[s] = locks[s],
         Running(r)' => SnapshotInv(r)'
  PROVE  TxInv'
<1>1. LedgerInv'
  BY LedgerStutter DEF TxInv
<1>2. UNCHANGED <<project, deductMaterial, refundMaterial, deductJasa, refundJasa>>
  BY DEF ledgerVars, ledgerRows
<1>3. Tables' = Tables
  BY <1>2 DEF Tables
<1>4. RowsOfJobs'
  BY <1>2 DEF TxInv, RowsOfJobs
<1>5. ASSUME NEW s \in Requests \ {r}, Running(s)' PROVE SnapshotInv(s)'
  <2>1. SnapshotInv(s)
    BY <1>5 DEF TxInv, Running
  <2>2. Seen(s)' = Seen(s)
    BY <1>3 DEF Seen, IsSerializable
  <2>3. QED
    BY <1>3, <2>1, <2>2 DEF SnapshotInv, IsSerializable
<1>6. QED
  BY <1>1, <1>4, <1>5 DEF TxInv

(* Begin: a new snapshot, no lock, nothing stale.                          *)
LEMMA BeginKeeps ==
  ASSUME TxInv, NEW r \in Requests, Begin(r)
  PROVE  TxInv'
<1>1. /\ state[r] \in {"idle", "backoff"} /\ state' = [state EXCEPT ![r] = "running"]
      /\ snapshot' = [snapshot EXCEPT ![r] = Tables]
      /\ UNCHANGED <<ledgerVars, attempt, stale, locks>>
  BY DEF Begin
<1>2. TxShape /\ TypeOK /\ Exclusive
  BY DEF TxInv, LedgerInv
<1>3. Tables \in TableSet
  BY <1>2 DEF Tables, TableSet, TypeOK
<1>4. stale[r] = {} /\ locks[r] = <<>>
  BY <1>1, <1>2 DEF TxShape, Running
<1>5. state'[r] = "running" /\ snapshot'[r] = Tables
      /\ \A s \in Requests \ {r} : state'[s] = state[s] /\ snapshot'[s] = snapshot[s]
  BY <1>1, <1>2 DEF TxShape
<1>6. TxShape'
  <2>1. /\ state' \in [Requests -> {"idle", "running", "backoff"} \cup Ended]
        /\ snapshot' \in [Requests -> TableSet \cup {NoSnapshot}]
    BY <1>1, <1>2, <1>3 DEF TxShape
  <2>2. \A s \in Requests :
          IF Running(s)' THEN snapshot'[s] \in TableSet
          ELSE snapshot'[s] = NoSnapshot /\ stale'[s] = {} /\ locks'[s] = <<>>
    BY <1>1, <1>2, <1>3, <1>5 DEF TxShape, Running
  <2>3. QED
    BY <1>1, <1>2, <2>1, <2>2 DEF TxShape
<1>7. Exclusive'
  BY <1>1, <1>2 DEF Exclusive
<1>8. SnapshotInv(r)'
  <2>1. Tables' = Tables
    BY <1>1 DEF ledgerVars, ledgerRows, Tables
  <2>2. Seen(r)' = Tables
    BY <1>5, <2>1 DEF Seen
  <2>3. LockList(job[r], Tables) \in Seq(Projects)
    BY <1>3, LockListType
  <2>4. FollowsList(<<>>, LockList(job[r], Tables))
    BY <2>3 DEF FollowsList
  <2>5. Follows(Tables, Tables, {})
    BY DEF Follows, RowFollows
  <2>6. locks'[r] = <<>> /\ stale'[r] = {}
    BY <1>1, <1>4
  <2>7. QED
    BY <1>5, <2>1, <2>2, <2>4, <2>5, <2>6 DEF SnapshotInv
<1>9. QED
  BY <1>1, <1>5, <1>6, <1>7, <1>8, OneRequestChanges

(* lockProjectRow: the next row of the list, held by nobody.               *)
LEMMA LockRowKeeps ==
  ASSUME TxInv, NEW r \in Requests, LockRow(r)
  PROVE  TxInv'
<1> DEFINE n == NextLock(r)
           l == locks[r]
           list == LockList(job[r], Seen(r))
<1>1. /\ Running(r) /\ Len(l) # Len(list) /\ Free(n) /\ ~Conflict(r)
      /\ locks' = [locks EXCEPT ![r] = Append(l, n)]
      /\ UNCHANGED <<ledgerVars, state, attempt, snapshot, stale>>
  BY DEF LockRow, HasAllLocks
<1>2. TxShape /\ TypeOK /\ Exclusive /\ SnapshotInv(r)
  BY <1>1 DEF TxInv, LedgerInv
<1>3. list \in Seq(Projects) /\ l \in Seq(Projects)
  BY <1>1, <1>2, SeenType DEF TxShape
<1>4. FollowsList(l, list)
  BY <1>2 DEF SnapshotInv
<1>5. n = list[Len(l) + 1]
  BY DEF NextLock
<1> HIDE DEF n, l, list
<1>6. Len(l) \in Nat /\ Len(list) \in Nat /\ DOMAIN l = 1..Len(l) /\ DOMAIN list = 1..Len(list)
  BY <1>3
<1>7. Len(l) + 1 \in DOMAIN list
  <2>1. Len(l) <= Len(list)
    BY <1>4 DEF FollowsList
  <2>2. Len(l) # Len(list)
    BY <1>1
  <2>3. \A a, b \in Nat : a <= b /\ a # b => a + 1 \in 1..b
    OBVIOUS
  <2>4. Len(l) + 1 \in 1..Len(list)
    BY <1>6, <2>1, <2>2, <2>3
  <2>5. QED
    BY <1>6, <2>4
<1>8. n \in Projects
  BY <1>3, <1>5, <1>7
<1>9. /\ Append(l, n) \in Seq(Projects) /\ Len(Append(l, n)) = Len(l) + 1
      /\ DOMAIN Append(l, n) = 1..(Len(l) + 1)
      /\ \A i \in 1..(Len(l) + 1) :
           Append(l, n)[i] = IF i = Len(l) + 1 THEN n ELSE l[i]
  BY <1>3, <1>6, <1>8, AppendProperties
<1>10. /\ locks' \in [Requests -> Seq(Projects)] /\ locks'[r] = Append(l, n)
       /\ \A s \in Requests \ {r} : locks'[s] = locks[s]
  BY <1>1, <1>2, <1>9 DEF TxShape
<1>11. TxShape'
  BY <1>1, <1>2, <1>10 DEF TxShape, Running
<1>12. Exclusive'
  <2>1. \A s \in Requests : \A i \in DOMAIN locks[s] : locks[s][i] # n
    BY <1>1 DEF Free
  <2>2. SUFFICES ASSUME NEW s \in Requests, NEW u \in Requests,
                        NEW i \in DOMAIN locks'[s], NEW k \in DOMAIN locks'[u],
                        locks'[s][i] = locks'[u][k]
                 PROVE  s = u /\ i = k
    BY DEF Exclusive
  <2>3. \A v \in Requests : \A m \in DOMAIN locks'[v] :
          \/ m \in DOMAIN locks[v] /\ locks'[v][m] = locks[v][m]
          \/ v = r /\ m = Len(l) + 1 /\ locks'[v][m] = n
    <3>1. \A m \in DOMAIN locks'[r] :
            \/ m \in DOMAIN l /\ locks'[r][m] = l[m]
            \/ m = Len(l) + 1 /\ locks'[r][m] = n
      BY <1>6, <1>9, <1>10
    <3>2. QED
      BY <1>10, <3>1 DEF l
  <2>4. QED
    BY <1>2, <2>1, <2>2, <2>3 DEF Exclusive
<1>13. SnapshotInv(r)'
  <2>1. Tables' = Tables
    BY <1>1 DEF ledgerVars, ledgerRows, Tables
  <2>2. Seen(r)' = Seen(r)
    BY <1>1, <2>1 DEF Seen, IsSerializable
  <2>3. FollowsList(Append(l, n), list)
    BY <1>4, <1>5, <1>6, <1>7, <1>9 DEF FollowsList
  <2>4. IsSerializable(r) =>
          /\ Follows(snapshot[r], Tables, stale[r])
          /\ \A i \in DOMAIN Append(l, n) : Append(l, n)[i] \notin stale[r]
    <3>1. IsSerializable(r) => n \notin stale[r]
      BY <1>1 DEF Conflict, n
    <3>2. IsSerializable(r) => \A i \in DOMAIN l : l[i] \notin stale[r]
      BY <1>2 DEF SnapshotInv, l
    <3>3. QED
      BY <1>2, <1>6, <1>9, <3>1, <3>2 DEF SnapshotInv
  <2>5. QED
    BY <1>1, <1>10, <2>1, <2>2, <2>3, <2>4 DEF SnapshotInv, list, IsSerializable
<1>14. QED
  BY <1>1, <1>10, <1>11, <1>12, <1>13, OneRequestChanges

(* An abort or a throw: nothing is kept.                                   *)
LEMMA RollbackKeeps ==
  ASSUME TxInv, NEW r \in Requests, NEW next \in {"backoff", "thrown"},
         Rollback(r, next), attempt' \in [Requests -> 0..MaxRetries]
  PROVE  TxInv'
<1>1. /\ state' = [state EXCEPT ![r] = next]
      /\ locks' = [locks EXCEPT ![r] = <<>>]
      /\ snapshot' = [snapshot EXCEPT ![r] = NoSnapshot]
      /\ stale' = [stale EXCEPT ![r] = {}]
      /\ UNCHANGED ledgerVars
  BY DEF Rollback
<1>2. TxShape /\ Exclusive
  BY DEF TxInv
<1>3. /\ state'[r] = next /\ locks'[r] = <<>> /\ snapshot'[r] = NoSnapshot /\ stale'[r] = {}
      /\ \A s \in Requests \ {r} :
           /\ state'[s] = state[s] /\ snapshot'[s] = snapshot[s]
           /\ stale'[s] = stale[s] /\ locks'[s] = locks[s]
  BY <1>1, <1>2 DEF TxShape
<1>4. ~Running(r)'
  BY <1>3 DEF Running
<1>5. TxShape'
  <2>1. next \in {"idle", "running", "backoff"} \cup Ended
        /\ <<>> \in Seq(Projects) /\ {} \in SUBSET Projects
    BY DEF Ended
  <2>2. /\ state' \in [Requests -> {"idle", "running", "backoff"} \cup Ended]
        /\ stale' \in [Requests -> SUBSET Projects]
        /\ locks' \in [Requests -> Seq(Projects)]
        /\ snapshot' \in [Requests -> TableSet \cup {NoSnapshot}]
    BY <1>1, <1>2, <2>1 DEF TxShape
  <2>3. \A s \in Requests :
          IF Running(s)' THEN snapshot'[s] \in TableSet
          ELSE snapshot'[s] = NoSnapshot /\ stale'[s] = {} /\ locks'[s] = <<>>
    BY <1>2, <1>3, <1>4 DEF TxShape, Running
  <2>4. QED
    BY <2>2, <2>3 DEF TxShape
<1>6. Exclusive'
  BY <1>2, <1>3 DEF Exclusive
<1>7. QED
  BY <1>1, <1>3, <1>4, <1>5, <1>6, OneRequestChanges

(* ... after which it may be tried again, while there are delays left.     *)
LEMMA FailureKeeps ==
  ASSUME TxInv, NEW r \in Requests, Retry(r) \/ Throw(r)
  PROVE  TxInv'
<1>1. attempt \in [Requests -> 0..MaxRetries] /\ MaxRetries \in Nat
  BY TransactionAssumption DEF TxInv, TxShape
<1>2. CASE Retry(r)
  <2>1. attempt[r] < MaxRetries /\ attempt' = [attempt EXCEPT ![r] = attempt[r] + 1]
        /\ Rollback(r, "backoff")
    BY <1>2 DEF Retry
  <2>2. attempt' \in [Requests -> 0..MaxRetries]
    BY <1>1, <2>1
  <2>3. QED
    BY <2>1, <2>2, RollbackKeeps
<1>3. CASE Throw(r)
  BY <1>1, <1>3, RollbackKeeps DEF Throw
<1>4. QED
  BY <1>2, <1>3

-----------------------------------------------------------------------------
(* A commit is one call of the ledger.                                     *)

(* The rows of a table after a commit: the transaction's where it wrote.   *)
Merged(table, before, after) ==
  [k \in DOMAIN table |-> IF after[k] = before[k] THEN table[k] ELSE after[k]]

(* Where nothing was written, the table stays.                             *)
LEMMA MergeNothing ==
  ASSUME NEW S, NEW T, NEW table \in [S -> T], NEW before
  PROVE  Merged(table, before, before) = table
BY DEF Merged

(* The projects that changed under a transaction's feet.                   *)
Behind(r) == IF IsSerializable(r) THEN stale[r] ELSE {}

(* What Commit does, conjunct by conjunct.                                 *)
LEMMA CommitParts ==
  ASSUME NEW r \in Requests, Commit(r)
  PROVE  LET db == Seen(r)
             new == Written(job[r], db)
             rows == RowsWritten(r, db)
         IN
         /\ Running(r) /\ HasAllLocks(r) /\ ~Refused(job[r], db)
         /\ project' = [p \in Projects |->
              IF p \in rows THEN new.project[p] ELSE project[p]]
         /\ deductMaterial' = Merged(deductMaterial, db.deductMaterial, new.deductMaterial)
         /\ refundMaterial' = Merged(refundMaterial, db.refundMaterial, new.refundMaterial)
         /\ deductJasa' = Merged(deductJasa, db.deductJasa, new.deductJasa)
         /\ refundJasa' = Merged(refundJasa, db.refundJasa, new.refundJasa)
         /\ state' = [state EXCEPT ![r] = "committed"]
         /\ locks' = [locks EXCEPT ![r] = <<>>]
         /\ snapshot' = [snapshot EXCEPT ![r] = NoSnapshot]
         /\ stale' = [s \in Requests |->
              IF s = r THEN {} ELSE IF Running(s) THEN stale[s] \cup rows ELSE {}]
         /\ UNCHANGED attempt
BY DEF Commit, Merged

(* What a transaction with all its locks knows: its rows are those of its  *)
(* list, they are not behind, and all it saw holds but what is behind.     *)
LEMMA HolderKnows ==
  ASSUME TxInv, NEW r \in Requests, Running(r), HasAllLocks(r)
  PROVE  LET list == LockList(job[r], Seen(r)) IN
         /\ {locks[r][i] : i \in DOMAIN locks[r]} = {list[i] : i \in DOMAIN list}
         /\ \A i \in DOMAIN list : list[i] \notin Behind(r)
         /\ Follows(Seen(r), Tables, Behind(r))
<1> DEFINE l == locks[r]
           list == LockList(job[r], Seen(r))
<1>1. TxShape /\ TypeOK /\ SnapshotInv(r)
  BY DEF TxInv, LedgerInv
<1>2. list \in Seq(Projects) /\ l \in Seq(Projects)
  BY <1>1, SeenType DEF TxShape
<1>3. FollowsList(l, list)
  BY <1>1 DEF SnapshotInv
<1>4. Len(l) = Len(list)
  BY DEF HasAllLocks
<1>5. \A i \in DOMAIN l : l[i] \notin Behind(r)
  BY <1>1 DEF SnapshotInv, Behind
<1>6. Follows(Seen(r), Tables, Behind(r))
  <2>1. Follows(Tables, Tables, {})
    BY DEF Follows, RowFollows
  <2>2. QED
    BY <1>1, <2>1 DEF SnapshotInv, Behind, Seen
<1> HIDE DEF l, list
<1>7. DOMAIN l = DOMAIN list
  BY <1>2, <1>4
<1>8. \A i \in DOMAIN l : l[i] = list[i]
  BY <1>3 DEF FollowsList
<1>9. /\ {l[i] : i \in DOMAIN l} = {list[i] : i \in DOMAIN list}
      /\ \A i \in DOMAIN list : list[i] \notin Behind(r)
  BY <1>5, <1>7, <1>8
<1>10. QED
  BY <1>6, <1>9 DEF l, list

(* A transaction with nothing to do commits nothing.                       *)
LEMMA CommitNothing ==
  ASSUME TxInv, NEW r \in Requests, Commit(r), NothingToDo(job[r], Seen(r))
  PROVE  UNCHANGED ledgerVars /\ RowsWritten(r, Seen(r)) = {}
<1>1. RowsWritten(r, Seen(r)) = {}
  BY DEF RowsWritten
<1>2. Written(job[r], Seen(r)) = Seen(r)
  BY DEF Written
<1>3. TypeOK
  BY DEF TxInv, LedgerInv
<1>4. project' = project
  <2>1. project' = [p \in Projects |-> project[p]]
    BY <1>1, CommitParts
  <2>2. QED
    BY <1>3, <2>1 DEF TypeOK
<1>5. /\ deductMaterial' = Merged(deductMaterial, Seen(r).deductMaterial, Seen(r).deductMaterial)
      /\ refundMaterial' = Merged(refundMaterial, Seen(r).refundMaterial, Seen(r).refundMaterial)
      /\ deductJasa' = Merged(deductJasa, Seen(r).deductJasa, Seen(r).deductJasa)
      /\ refundJasa' = Merged(refundJasa, Seen(r).refundJasa, Seen(r).refundJasa)
  BY <1>2, CommitParts
<1>6. UNCHANGED ledgerRows
  BY <1>3, <1>5, MergeNothing DEF TypeOK, ledgerRows
<1>7. QED
  BY <1>1, <1>4, <1>6 DEF ledgerVars

(* A call about one project locks its row, which nobody rewrote since, and *)
(* writes no other.                                                        *)
LEMMA CommitOneProject ==
  ASSUME TxInv, NEW r \in Requests, Commit(r), ~NothingToDo(job[r], Seen(r)),
         NEW p \in Projects, LockList(job[r], Seen(r)) = <<p>>
  PROVE  /\ RowsWritten(r, Seen(r)) = {p} /\ p \notin Behind(r)
         /\ Follows(Seen(r), Tables, Behind(r))
         /\ Seen(r).project[p] = project[p]
         /\ project' = [project EXCEPT ![p] = Written(job[r], Seen(r)).project[p]]
<1> DEFINE new == Written(job[r], Seen(r))
<1>1. Running(r) /\ HasAllLocks(r)
      /\ project' = [q \in Projects |->
           IF q \in RowsWritten(r, Seen(r)) THEN new.project[q] ELSE project[q]]
  BY CommitParts
<1> HIDE DEF new
<1>2. TypeOK
  BY DEF TxInv, LedgerInv
<1>3. \A s : s = <<p>> => {s[i] : i \in DOMAIN s} = {p} /\ 1 \in DOMAIN s /\ s[1] = p
  OBVIOUS
<1>4. RowsWritten(r, Seen(r)) = {p} /\ p \notin Behind(r)
  BY <1>1, <1>3, HolderKnows DEF RowsWritten
<1>5. Follows(Seen(r), Tables, Behind(r))
  BY <1>1, HolderKnows
<1>6. Tables.project = project
  BY DEF Tables
<1>7. Seen(r).project[p] = project[p]
  BY <1>4, <1>5, <1>6 DEF Follows
<1>8. project' = [q \in Projects |-> IF q = p THEN new.project[p] ELSE project[q]]
  BY <1>1, <1>4
<1>9. project' = [project EXCEPT ![p] = new.project[p]]
  BY <1>2, <1>8 DEF TypeOK
<1>10. QED
  BY <1>4, <1>5, <1>7, <1>9 DEF new

(* What a call leaves behind for those who read before it: the rows it     *)
(* inserted and the projects it rewrote, and those it held.                *)
CallLeaves(rows) ==
  /\ LedgerInv'
  /\ RowsOfJobs'
  /\ Follows(Tables, Tables', rows)

(* approveByWarehouse's deduction.                                         *)
LEMMA CommitApproveOrder ==
  ASSUME TxInv, NEW r \in Requests, Commit(r), ~NothingToDo(job[r], Seen(r)),
         job[r].kind = "APPROVE_ORDER"
  PROVE  /\ DeductForOrder(job[r].order, job[r].project, job[r].amount)
         /\ CallLeaves(RowsWritten(r, Seen(r)))
<1> DEFINE j == job[r]
           o == j.order
           p == j.project
           row == [project |-> p, amount |-> j.amount]
           db == Seen(r)
<1>1. j.kind = "APPROVE_ORDER" /\ o \in Orders /\ p \in Projects /\ j.amount \in Nat \ {0}
  BY JobFacts, LedgerAssumption
<1>2. TypeOK /\ RefundShape /\ TxShape /\ LedgerInv /\ RowsOfJobs
  BY DEF TxInv, LedgerInv
<1>3. LockList(j, db) = <<p>>
  BY <1>1, LockLists
<1>4. db \in TableSet
  BY <1>2, CommitParts, SeenType
<1>5. /\ RowsWritten(r, db) = {p} /\ p \notin Behind(r)
      /\ Follows(db, Tables, Behind(r))
      /\ db.project[p] = project[p]
      /\ project' = [project EXCEPT ![p] = Written(j, db).project[p]]
  BY <1>1, <1>3, CommitOneProject
<1>6. /\ deductMaterial' = Merged(deductMaterial, db.deductMaterial, Written(j, db).deductMaterial)
      /\ refundMaterial' = Merged(refundMaterial, db.refundMaterial, Written(j, db).refundMaterial)
      /\ deductJasa' = Merged(deductJasa, db.deductJasa, Written(j, db).deductJasa)
      /\ refundJasa' = Merged(refundJasa, db.refundJasa, Written(j, db).refundJasa)
  BY CommitParts
<1>7. ~NothingToDo(j, db)
  OBVIOUS
<1>8. \A s \in Requests : s = r => job[s] = j
  OBVIOUS
<1> HIDE DEF j, db
<1>9. Written(j, db) =
        [db EXCEPT !.deductMaterial = [db.deductMaterial EXCEPT ![o] = row],
                   !.project = [db.project EXCEPT ![p] = Charge(db.project[p], "MATERIAL", j.amount)]]
  BY <1>1, <1>7 DEF Written
<1>10. db.deductMaterial[o] = NoRow
  BY <1>1, <1>7 DEF NothingToDo
<1>11. /\ Written(j, db).deductMaterial = [db.deductMaterial EXCEPT ![o] = row]
       /\ Written(j, db).refundMaterial = db.refundMaterial
       /\ Written(j, db).deductJasa = db.deductJasa
       /\ Written(j, db).refundJasa = db.refundJasa
       /\ Written(j, db).project[p] = Charge(project[p], "MATERIAL", j.amount)
  BY <1>1, <1>4, <1>5, <1>9 DEF TableSet
<1>12. deductMaterial[o] = NoRow
  <2>1. Tables.deductMaterial = deductMaterial
    BY DEF Tables
  <2>2. deductMaterial[o] # NoRow => deductMaterial[o].project \in Behind(r)
    BY <1>1, <1>5, <1>10, <2>1 DEF Follows, RowFollows
  <2>3. deductMaterial[o] # NoRow => deductMaterial[o].project = p
    BY <1>1, <1>2, <1>8 DEF RowsOfJobs
  <2>4. QED
    BY <1>5, <2>2, <2>3
<1>13. row \in Row /\ row # NoRow
  BY <1>1, LedgerAssumption DEF Row
<1> HIDE DEF o, p, row
<1>14. deductMaterial' = [deductMaterial EXCEPT ![o] = row]
  <2>1. /\ deductMaterial \in [Orders -> Row \cup {NoRow}]
        /\ db.deductMaterial \in [Orders -> Row \cup {NoRow}]
    BY <1>2, <1>4 DEF TypeOK, TableSet
  <2>2. row # db.deductMaterial[o] /\ o \in Orders
    BY <1>1, <1>10, <1>13 DEF o
  <2> DEFINE after == Written(j, db).deductMaterial
             now == deductMaterial
             was == db.deductMaterial
  <2>3. DOMAIN now = Orders /\ after[o] = row /\ \A i \in Orders \ {o} : after[i] = was[i]
    BY <1>11, <2>1, <2>2
  <2>4. deductMaterial' = Merged(now, was, after)
    BY <1>6
  <2> HIDE DEF after, now, was
  <2>5. after[o] # was[o] /\ o \in Orders
    BY <2>2, <2>3 DEF was
  <2>6. deductMaterial' =
          [i \in Orders |-> IF after[i] = was[i] THEN now[i] ELSE after[i]]
    BY <2>3, <2>4 DEF Merged
  <2>7. deductMaterial' = [i \in Orders |-> IF i = o THEN row ELSE now[i]]
    BY <2>3, <2>5, <2>6
  <2>8. QED
    BY <2>3, <2>7 DEF now
<1>15. UNCHANGED <<refundMaterial, deductJasa, refundJasa>>
  BY <1>2, <1>6, <1>11, MergeNothing DEF TypeOK
<1>16. project' = [project EXCEPT ![p] = Charge(project[p], "MATERIAL", j.amount)]
  BY <1>5, <1>11
<1>17. DeductForOrder(o, p, j.amount)
  BY <1>12, <1>14, <1>15, <1>16 DEF DeductForOrder, row
<1>18. LedgerInv'
  BY <1>1, <1>2, <1>17, DeductForOrderKeeps DEF o, p
<1>19. \A i \in Orders : deductMaterial'[i] = IF i = o THEN row ELSE deductMaterial[i]
  BY <1>2, <1>14 DEF TypeOK
<1>20. RowsOfJobs'
  <2>1. ASSUME NEW s \in Requests, job[s].kind = "APPROVE_ORDER", job[s].order = o
        PROVE  p = job[s].project
    BY <1>1, <1>8, <2>1, TransactionAssumption DEF o, p, j
  <2>2. row.project = p
    BY DEF row
  <2>3. QED
    BY <1>2, <1>15, <1>19, <2>1, <2>2 DEF RowsOfJobs
<1>21. Follows(Tables, Tables', {p})
  <2>1. row.project = p
    BY DEF row
  <2>2. \A q \in Projects \ {p} : project'[q] = project[q]
    BY <1>2, <1>16 DEF TypeOK
  <2>3. QED
    BY <1>12, <1>13, <1>15, <1>19, <2>1, <2>2 DEF Follows, RowFollows, Tables
<1>22. QED
  BY <1>5, <1>17, <1>18, <1>20, <1>21 DEF CallLeaves, j, o, p, db

(* cancel's refund.                                                        *)
LEMMA CommitCancelOrder ==
  ASSUME TxInv, NEW r \in Requests, Commit(r), ~NothingToDo(job[r], Seen(r)),
         job[r].kind = "CANCEL_ORDER"
  PROVE  /\ RefundForOrder(job[r].order)
         /\ CallLeaves(RowsWritten(r, Seen(r)))
<1> DEFINE j == job[r]
           o == j.order
           db == Seen(r)
           row == db.deductMaterial[o]
           p == row.project
<1>1. j.kind = "CANCEL_ORDER" /\ o \in Orders
  BY JobFacts
<1>2. TypeOK /\ RefundShape /\ TxShape /\ LedgerInv /\ RowsOfJobs
  BY DEF TxInv, LedgerInv
<1>3. row # NoRow /\ db.refundMaterial[o] = NoRow
  BY <1>1 DEF NothingToDo
<1>4. db \in TableSet
  BY <1>2, CommitParts, SeenType
<1>5. row \in Row /\ p \in Projects
  BY <1>1, <1>3, <1>4 DEF TableSet, Row
<1>6. /\ deductMaterial' = Merged(deductMaterial, db.deductMaterial, Written(j, db).deductMaterial)
      /\ refundMaterial' = Merged(refundMaterial, db.refundMaterial, Written(j, db).refundMaterial)
      /\ deductJasa' = Merged(deductJasa, db.deductJasa, Written(j, db).deductJasa)
      /\ refundJasa' = Merged(refundJasa, db.refundJasa, Written(j, db).refundJasa)
  BY CommitParts
<1>7. ~NothingToDo(j, db)
  OBVIOUS
<1>8. \A s \in Requests : s = r => job[s] = j
  OBVIOUS
<1>9. LockList(j, db) = <<p>>
  BY <1>1, <1>3, LockLists
<1>10. /\ RowsWritten(r, db) = {p} /\ p \notin Behind(r)
       /\ Follows(db, Tables, Behind(r))
       /\ db.project[p] = project[p]
       /\ project' = [project EXCEPT ![p] = Written(j, db).project[p]]
  BY <1>5, <1>9, CommitOneProject
<1>11. row = db.deductMaterial[o] /\ p = row.project
  OBVIOUS
<1> HIDE DEF j, db, row, p
<1>12. Written(j, db) =
        [db EXCEPT !.refundMaterial = [db.refundMaterial EXCEPT ![o] = row],
                   !.project = [db.project EXCEPT ![p] = GiveBack(db.project[p], "MATERIAL", row.amount)]]
  BY <1>1, <1>7, <1>11 DEF Written
<1>13. /\ Written(j, db).refundMaterial = [db.refundMaterial EXCEPT ![o] = row]
       /\ Written(j, db).deductMaterial = db.deductMaterial
       /\ Written(j, db).deductJasa = db.deductJasa
       /\ Written(j, db).refundJasa = db.refundJasa
       /\ Written(j, db).project[p] = GiveBack(project[p], "MATERIAL", row.amount)
  BY <1>1, <1>4, <1>5, <1>10, <1>12 DEF TableSet
<1>14. deductMaterial[o] = row /\ refundMaterial[o] = NoRow
  <2>1. Tables.deductMaterial = deductMaterial /\ Tables.refundMaterial = refundMaterial
    BY DEF Tables
  <2>2. deductMaterial[o] = row
    BY <1>1, <1>3, <1>10, <1>11, <2>1 DEF Follows, RowFollows
  <2>3. refundMaterial[o] # NoRow => refundMaterial[o].project \in Behind(r)
    BY <1>1, <1>3, <1>10, <2>1 DEF Follows, RowFollows
  <2>4. refundMaterial[o] # NoRow => refundMaterial[o] = row
    BY <1>1, <1>2, <2>2 DEF RefundShape
  <2>5. QED
    BY <1>10, <1>11, <2>2, <2>3, <2>4
<1> HIDE DEF o
<1>15. refundMaterial' = [refundMaterial EXCEPT ![o] = row]
  <2> DEFINE after == Written(j, db).refundMaterial
             now == refundMaterial
             was == db.refundMaterial
  <2>1. DOMAIN now = Orders /\ DOMAIN was = Orders /\ o \in Orders
    BY <1>1, <1>2, <1>4 DEF TypeOK, TableSet, o
  <2>2. after[o] = row /\ \A i \in Orders \ {o} : after[i] = was[i]
    BY <1>13, <2>1
  <2>3. after[o] # was[o]
    BY <1>3, <2>2
  <2>4. refundMaterial' = Merged(now, was, after)
    BY <1>6
  <2> HIDE DEF after, now, was
  <2>5. refundMaterial' =
          [i \in Orders |-> IF after[i] = was[i] THEN now[i] ELSE after[i]]
    BY <2>1, <2>4 DEF Merged
  <2>6. refundMaterial' = [i \in Orders |-> IF i = o THEN row ELSE now[i]]
    BY <2>2, <2>3, <2>5
  <2>7. QED
    BY <2>1, <2>6 DEF now
<1>16. UNCHANGED <<deductMaterial, deductJasa, refundJasa>>
  BY <1>2, <1>6, <1>13, MergeNothing DEF TypeOK
<1>17. project' = [project EXCEPT ![p] = GiveBack(project[p], "MATERIAL", row.amount)]
  BY <1>10, <1>13
<1>18. RefundForOrder(o)
  BY <1>3, <1>11, <1>14, <1>15, <1>16, <1>17 DEF RefundForOrder
<1>19. LedgerInv'
  BY <1>1, <1>2, <1>18, RefundForOrderKeeps DEF o
<1>20. \A i \in Orders : refundMaterial'[i] = IF i = o THEN row ELSE refundMaterial[i]
  BY <1>2, <1>15 DEF TypeOK
<1>21. RowsOfJobs'
  BY <1>2, <1>16 DEF RowsOfJobs
<1>22. Follows(Tables, Tables', {p})
  <2>1. \A q \in Projects \ {p} : project'[q] = project[q]
    BY <1>2, <1>17 DEF TypeOK
  <2>2. QED
    BY <1>3, <1>11, <1>14, <1>16, <1>20, <2>1 DEF Follows, RowFollows, Tables
<1>23. QED
  BY <1>10, <1>18, <1>19, <1>21, <1>22 DEF CallLeaves, j, o, db

(* A cash operation's deduction; nothing to do for one of an FTTT project. *)
LEMMA CommitApproveCashOp ==
  ASSUME TxInv, NEW r \in Requests, Commit(r), ~NothingToDo(job[r], Seen(r)),
         job[r].kind = "APPROVE_CASH_OP"
  PROVE  /\ DeductForCashOp(job[r].cashOp, job[r].project, job[r].amount)
         /\ CallLeaves(RowsWritten(r, Seen(r)))
<1> DEFINE j == job[r]
           c == j.cashOp
           p == j.project
           row == [project |-> p, amount |-> j.amount]
           db == Seen(r)
<1>1. j.kind = "APPROVE_CASH_OP" /\ c \in CashOps /\ p \in Projects /\ j.amount \in Nat \ {0}
  BY JobFacts, LedgerAssumption
<1>2. TypeOK /\ RefundShape /\ TxShape /\ LedgerInv /\ RowsOfJobs
  BY DEF TxInv, LedgerInv
<1>3. LockList(j, db) = <<p>>
  BY <1>1, LockLists
<1>4. db \in TableSet
  BY <1>2, CommitParts, SeenType
<1>5. /\ RowsWritten(r, db) = {p} /\ p \notin Behind(r)
      /\ Follows(db, Tables, Behind(r))
      /\ db.project[p] = project[p]
      /\ project' = [project EXCEPT ![p] = Written(j, db).project[p]]
  BY <1>1, <1>3, CommitOneProject
<1>6. /\ deductMaterial' = Merged(deductMaterial, db.deductMaterial, Written(j, db).deductMaterial)
      /\ refundMaterial' = Merged(refundMaterial, db.refundMaterial, Written(j, db).refundMaterial)
      /\ deductJasa' = Merged(deductJasa, db.deductJasa, Written(j, db).deductJasa)
      /\ refundJasa' = Merged(refundJasa, db.refundJasa, Written(j, db).refundJasa)
  BY CommitParts
<1>7. ~NothingToDo(j, db)
  OBVIOUS
<1>8. \A s \in Requests : s = r => job[s] = j
  OBVIOUS
<1> HIDE DEF j, db
<1>9. Written(j, db) =
        [db EXCEPT !.deductJasa = [db.deductJasa EXCEPT ![c] = row],
                   !.project = [db.project EXCEPT ![p] = Charge(db.project[p], "JASA", j.amount)]]
  BY <1>1, <1>7 DEF Written
<1>10. db.deductJasa[c] = NoRow /\ p \notin FtttProjects
  BY <1>1, <1>7 DEF NothingToDo
<1>11. /\ Written(j, db).deductJasa = [db.deductJasa EXCEPT ![c] = row]
       /\ Written(j, db).deductMaterial = db.deductMaterial
       /\ Written(j, db).refundMaterial = db.refundMaterial
       /\ Written(j, db).refundJasa = db.refundJasa
       /\ Written(j, db).project[p] = Charge(project[p], "JASA", j.amount)
  BY <1>1, <1>4, <1>5, <1>9 DEF TableSet
<1>12. deductJasa[c] = NoRow
  <2>1. Tables.deductJasa = deductJasa
    BY DEF Tables
  <2>2. deductJasa[c] # NoRow => deductJasa[c].project \in Behind(r)
    BY <1>1, <1>5, <1>10, <2>1 DEF Follows, RowFollows
  <2>3. deductJasa[c] # NoRow => deductJasa[c].project = p
    BY <1>1, <1>2, <1>8 DEF RowsOfJobs
  <2>4. QED
    BY <1>5, <2>2, <2>3
<1>13. row \in Row /\ row # NoRow /\ row.project = p /\ row.amount = j.amount
  BY <1>1, LedgerAssumption DEF Row
<1> HIDE DEF c, p, row
<1>14. deductJasa' = [deductJasa EXCEPT ![c] = row]
  <2> DEFINE after == Written(j, db).deductJasa
             now == deductJasa
             was == db.deductJasa
  <2>1. DOMAIN now = CashOps /\ DOMAIN was = CashOps /\ c \in CashOps
    BY <1>1, <1>2, <1>4 DEF TypeOK, TableSet, c
  <2>2. after[c] = row /\ \A i \in CashOps \ {c} : after[i] = was[i]
    BY <1>11, <2>1
  <2>3. after[c] # was[c]
    BY <1>10, <1>13, <2>2
  <2>4. deductJasa' = Merged(now, was, after)
    BY <1>6
  <2> HIDE DEF after, now, was
  <2>5. deductJasa' =
          [i \in CashOps |-> IF after[i] = was[i] THEN now[i] ELSE after[i]]
    BY <2>1, <2>4 DEF Merged
  <2>6. deductJasa' = [i \in CashOps |-> IF i = c THEN row ELSE now[i]]
    BY <2>2, <2>3, <2>5
  <2>7. QED
    BY <2>1, <2>6 DEF now
<1>15. UNCHANGED <<deductMaterial, refundMaterial, refundJasa>>
  BY <1>2, <1>6, <1>11, MergeNothing DEF TypeOK
<1>16. project' = [project EXCEPT ![p] = Charge(project[p], "JASA", j.amount)]
  BY <1>5, <1>11
<1>17. DeductForCashOp(c, p, j.amount)
  BY <1>10, <1>12, <1>14, <1>15, <1>16 DEF DeductForCashOp, row
<1>18. LedgerInv'
  BY <1>1, <1>2, <1>17, DeductForCashOpKeeps DEF c, p
<1>19. \A i \in CashOps : deductJasa'[i] = IF i = c THEN row ELSE deductJasa[i]
  BY <1>2, <1>14 DEF TypeOK
<1>20. RowsOfJobs'
  <2>1. ASSUME NEW s \in Requests, job[s].kind = "APPROVE_CASH_OP", job[s].cashOp = c
        PROVE  p = job[s].project
    BY <1>1, <1>8, <2>1, TransactionAssumption DEF c, p, j
  <2>2. QED
    BY <1>2, <1>13, <1>15, <1>19, <2>1 DEF RowsOfJobs
<1>21. Follows(Tables, Tables', {p})
  <2>1. \A q \in Projects \ {p} : project'[q] = project[q]
    BY <1>2, <1>16 DEF TypeOK
  <2>2. QED
    BY <1>12, <1>13, <1>15, <1>19, <2>1 DEF Follows, RowFollows, Tables
<1>22. QED
  BY <1>5, <1>17, <1>18, <1>20, <1>21 DEF CallLeaves, j, c, p, db

(* The settlement of an advance or a reimbursement.  The tables hold no    *)
(* refund of this deduction that the transaction did not see: it would be  *)
(* of the project whose row is locked.                                     *)
LEMMA CommitSettleCashOp ==
  ASSUME TxInv, NEW r \in Requests, Commit(r), ~NothingToDo(job[r], Seen(r)),
         job[r].kind = "SETTLE_CASH_OP"
  PROVE  /\ PartialRefundForCashOp(job[r].cashOp, VarianceTag(job[r].cashOp), job[r].amount)
         /\ CallLeaves(RowsWritten(r, Seen(r)))
<1> DEFINE j == job[r]
           c == j.cashOp
           tag == VarianceTag(c)
           db == Seen(r)
           p == db.deductJasa[c].project
           row == [project |-> p, amount |-> j.amount]
<1>1. j.kind = "SETTLE_CASH_OP" /\ c \in CashOps /\ j.amount \in Nat \ {0}
  BY JobFacts, LedgerAssumption
<1>2. TypeOK /\ RefundShape /\ TxShape /\ LedgerInv /\ RowsOfJobs
  BY DEF TxInv, LedgerInv
<1>3. tag \in Tags /\ tag # "FULL"
  BY DEF VarianceTag, Tags, PartialTags
<1>4. db \in TableSet
  BY <1>2, CommitParts, SeenType
<1>6. /\ deductMaterial' = Merged(deductMaterial, db.deductMaterial, Written(j, db).deductMaterial)
      /\ refundMaterial' = Merged(refundMaterial, db.refundMaterial, Written(j, db).refundMaterial)
      /\ deductJasa' = Merged(deductJasa, db.deductJasa, Written(j, db).deductJasa)
      /\ refundJasa' = Merged(refundJasa, db.refundJasa, Written(j, db).refundJasa)
  BY CommitParts
<1>7. ~NothingToDo(j, db) /\ ~Refused(j, db)
  BY CommitParts
<1>8. \A s \in Requests : s = r => job[s] = j
  OBVIOUS
<1>9. db.deductJasa[c] # NoRow /\ db.refundJasa[c][tag] = NoRow
  BY <1>1, <1>7 DEF Refused, NothingToDo
<1>10. db.deductJasa[c] \in Row /\ p \in Projects
  BY <1>1, <1>4, <1>9 DEF TableSet, Row
<1>11. LockList(j, db) = <<p>>
  BY <1>1, <1>9, LockLists
<1>12. /\ RowsWritten(r, db) = {p} /\ p \notin Behind(r)
       /\ Follows(db, Tables, Behind(r))
       /\ db.project[p] = project[p]
       /\ project' = [project EXCEPT ![p] = Written(j, db).project[p]]
  BY <1>7, <1>10, <1>11, CommitOneProject
<1>13. row \in Row /\ row # NoRow /\ row.project = p /\ row.amount = j.amount
  BY <1>1, <1>10, LedgerAssumption DEF Row
<1>14. p = db.deductJasa[c].project /\ row = [project |-> p, amount |-> j.amount]
       /\ tag = VarianceTag(c)
  OBVIOUS
<1> HIDE DEF j, db, row, p, tag
<1> DEFINE refunds == [db.refundJasa[c] EXCEPT ![tag] = row]
<1>15. Written(j, db) =
        [db EXCEPT !.refundJasa = [db.refundJasa EXCEPT ![c] = refunds],
                   !.project = [db.project EXCEPT ![p] = GiveBack(db.project[p], "JASA", j.amount)]]
  BY <1>1, <1>7, <1>14 DEF Written
<1>16. refunds[tag] = row /\ db.refundJasa[c] \in [Tags -> Row \cup {NoRow}]
  BY <1>1, <1>3, <1>4 DEF TableSet
<1> HIDE DEF refunds
<1>17. /\ Written(j, db).refundJasa = [db.refundJasa EXCEPT ![c] = refunds]
       /\ Written(j, db).deductMaterial = db.deductMaterial
       /\ Written(j, db).refundMaterial = db.refundMaterial
       /\ Written(j, db).deductJasa = db.deductJasa
       /\ Written(j, db).project[p] = GiveBack(project[p], "JASA", j.amount)
  BY <1>1, <1>4, <1>10, <1>12, <1>15 DEF TableSet
<1>18. deductJasa[c] = db.deductJasa[c] /\ refundJasa[c] = db.refundJasa[c]
  <2>1. Tables.deductJasa = deductJasa /\ Tables.refundJasa = refundJasa
    BY DEF Tables
  <2>2. deductJasa[c] = db.deductJasa[c]
    BY <1>1, <1>9, <1>12, <2>1 DEF Follows, RowFollows
  <2>3. ASSUME NEW t \in Tags PROVE refundJasa[c][t] = db.refundJasa[c][t]
    <3>1. \/ refundJasa[c][t] = db.refundJasa[c][t]
          \/ refundJasa[c][t] # NoRow /\ refundJasa[c][t].project \in Behind(r)
      BY <1>1, <1>12, <2>1 DEF Follows, RowFollows
    <3>2. refundJasa[c][t] # NoRow => refundJasa[c][t].project = p
      BY <1>1, <1>2, <1>14, <2>2 DEF RefundShape
    <3>3. QED
      BY <1>12, <3>1, <3>2
  <2>4. refundJasa[c] \in [Tags -> Row \cup {NoRow}]
    BY <1>1, <1>2 DEF TypeOK
  <2>5. QED
    BY <1>16, <2>2, <2>3, <2>4
<1> HIDE DEF c
<1>19. refundJasa' = [refundJasa EXCEPT ![c] = refunds]
  <2> DEFINE after == Written(j, db).refundJasa
             now == refundJasa
             was == db.refundJasa
  <2>1. DOMAIN now = CashOps /\ DOMAIN was = CashOps /\ c \in CashOps
    BY <1>1, <1>2, <1>4 DEF TypeOK, TableSet, c
  <2>2. after[c] = refunds /\ \A i \in CashOps \ {c} : after[i] = was[i]
    BY <1>17, <2>1
  <2>3. after[c] # was[c]
    BY <1>9, <1>13, <1>16, <2>2
  <2>4. refundJasa' = Merged(now, was, after)
    BY <1>6
  <2> HIDE DEF after, now, was
  <2>5. refundJasa' =
          [i \in CashOps |-> IF after[i] = was[i] THEN now[i] ELSE after[i]]
    BY <2>1, <2>4 DEF Merged
  <2>6. refundJasa' = [i \in CashOps |-> IF i = c THEN refunds ELSE now[i]]
    BY <2>2, <2>3, <2>5
  <2>7. QED
    BY <2>1, <2>6 DEF now
<1>20. UNCHANGED <<deductMaterial, refundMaterial, deductJasa>>
  BY <1>2, <1>6, <1>17, MergeNothing DEF TypeOK
<1>21. project' = [project EXCEPT ![p] = GiveBack(project[p], "JASA", j.amount)]
  BY <1>12, <1>17
<1>22. PartialRefundForCashOp(c, tag, j.amount)
  <2>1. refunds = [refundJasa[c] EXCEPT ![tag] = row]
    BY <1>18 DEF refunds
  <2>2. refundJasa' = [refundJasa EXCEPT ![c][tag] = row]
    BY <1>19, <2>1
  <2>3. p = deductJasa[c].project
    BY <1>14, <1>18
  <2>4. PostJasaRefund(c, tag, j.amount)
    BY <1>14, <1>20, <1>21, <2>2, <2>3 DEF PostJasaRefund
  <2>5. QED
    BY <1>1, <1>9, <1>18, <2>4 DEF PartialRefundForCashOp
<1>23. LedgerInv'
  <2>1. c \in CashOps
    BY <1>1 DEF c
  <2>2. QED
    BY <1>1, <1>2, <1>3, <1>22, <2>1, PartialRefundForCashOpKeeps
<1>24. \A i \in CashOps, t \in Tags :
         refundJasa'[i][t] = IF i = c /\ t = tag THEN row ELSE refundJasa[i][t]
  <2>1. \A t \in Tags : refunds[t] = IF t = tag THEN row ELSE refundJasa[c][t]
    BY <1>3, <1>16, <1>18 DEF refunds
  <2>2. \A i \in CashOps : refundJasa'[i] = IF i = c THEN refunds ELSE refundJasa[i]
    BY <1>2, <1>19 DEF TypeOK
  <2>3. QED
    BY <2>1, <2>2
<1>25. RowsOfJobs'
  BY <1>2, <1>20 DEF RowsOfJobs
<1>26. Follows(Tables, Tables', {p})
  <2>1. \A q \in Projects \ {p} : project'[q] = project[q]
    BY <1>2, <1>21 DEF TypeOK
  <2>2. refundJasa[c][tag] = NoRow
    BY <1>9, <1>18
  <2>3. QED
    BY <1>13, <1>20, <1>24, <2>1, <2>2 DEF Follows, RowFollows, Tables
<1>27. QED
  BY <1>12, <1>14, <1>22, <1>23, <1>25, <1>26 DEF CallLeaves, j, c, db

(* updateBudget: READ COMMITTED, so the row is read as it is now.          *)
LEMMA CommitUpdateBudget ==
  ASSUME TxInv, NEW r \in Requests, Commit(r), ~NothingToDo(job[r], Seen(r)),
         job[r].kind = "UPDATE_BUDGET"
  PROVE  /\ UpdateBudget(job[r].project, job[r].budget)
         /\ CallLeaves(RowsWritten(r, Seen(r)))
<1> DEFINE j == job[r]
           p == j.project
           b == j.budget
           db == Seen(r)
           new(q) == SyncOverbudgetFlag(
             [q EXCEPT !.total = b.total, !.material = b.material, !.jasa = b.jasa])
<1>1. j.kind = "UPDATE_BUDGET" /\ p \in Projects /\ b \in Budgets
  BY JobFacts
<1>2. TypeOK /\ TxShape /\ LedgerInv /\ RowsOfJobs
  BY DEF TxInv, LedgerInv
<1>3. LockList(j, db) = <<p>>
  BY <1>1, LockLists
<1>4. db \in TableSet
  BY <1>2, CommitParts, SeenType
<1>5. /\ RowsWritten(r, db) = {p}
      /\ db.project[p] = project[p]
      /\ project' = [project EXCEPT ![p] = Written(j, db).project[p]]
  BY <1>1, <1>3, CommitOneProject
<1>6. /\ deductMaterial' = Merged(deductMaterial, db.deductMaterial, Written(j, db).deductMaterial)
      /\ refundMaterial' = Merged(refundMaterial, db.refundMaterial, Written(j, db).refundMaterial)
      /\ deductJasa' = Merged(deductJasa, db.deductJasa, Written(j, db).deductJasa)
      /\ refundJasa' = Merged(refundJasa, db.refundJasa, Written(j, db).refundJasa)
  BY CommitParts
<1>7. ~NothingToDo(j, db) /\ ~Refused(j, db)
  BY CommitParts
<1>8. \A s \in Requests : s = r => job[s] = j
  OBVIOUS
<1> HIDE DEF j, db
<1>9. Written(j, db) = [db EXCEPT !.project = [db.project EXCEPT ![p] = new(db.project[p])]]
  BY <1>1, <1>7 DEF Written
<1> HIDE DEF new
<1>10. /\ Written(j, db).deductMaterial = db.deductMaterial
       /\ Written(j, db).refundMaterial = db.refundMaterial
       /\ Written(j, db).deductJasa = db.deductJasa
       /\ Written(j, db).refundJasa = db.refundJasa
       /\ Written(j, db).project[p] = new(project[p])
  BY <1>1, <1>4, <1>5, <1>9 DEF TableSet
<1>11. UNCHANGED <<deductMaterial, refundMaterial, deductJasa, refundJasa>>
  BY <1>2, <1>6, <1>10, MergeNothing DEF TypeOK
<1>12. project' = [project EXCEPT ![p] = new(project[p])]
  BY <1>5, <1>10
<1>13. UpdateBudget(p, b)
  BY <1>11, <1>12 DEF UpdateBudget, new, ledgerRows
<1>14. LedgerInv'
  BY <1>1, <1>2, <1>13, BudgetsAreBudgets, UpdateBudgetKeeps
<1>15. RowsOfJobs'
  BY <1>2, <1>11 DEF RowsOfJobs
<1>16. Follows(Tables, Tables', {p})
  <2>1. \A q \in Projects \ {p} : project'[q] = project[q]
    BY <1>2, <1>12 DEF TypeOK
  <2>2. QED
    BY <1>11, <2>1 DEF Follows, RowFollows, Tables
<1>17. QED
  BY <1>5, <1>13, <1>14, <1>15, <1>16 DEF CallLeaves, j, db

(* approveByGm of a transfer: both rows are locked, whichever came first.  *)
LEMMA CommitTransfer ==
  ASSUME TxInv, NEW r \in Requests, Commit(r), ~NothingToDo(job[r], Seen(r)),
         job[r].kind = "TRANSFER"
  PROVE  /\ TransferBudget(job[r].src, job[r].tgt, job[r].srcCat, job[r].tgtCat, job[r].amount)
         /\ CallLeaves(RowsWritten(r, Seen(r)))
<1> DEFINE j == job[r]
           src == j.src
           tgt == j.tgt
           db == Seen(r)
           out(q) == TransferOut(q, j.srcCat, j.amount)
           in(q) == TransferIn(q, j.tgtCat, j.amount)
<1>1. /\ j.kind = "TRANSFER" /\ src \in Projects /\ tgt \in Projects /\ src # tgt
      /\ j.srcCat \in Categories /\ j.tgtCat \in Categories /\ j.amount \in Nat \ {0}
  BY JobFacts, LedgerAssumption
<1>2. TypeOK /\ TxShape /\ LedgerInv /\ RowsOfJobs
  BY DEF TxInv, LedgerInv
<1>3. LockList(j, db) = <<src, tgt>> \/ LockList(j, db) = <<tgt, src>>
  BY <1>1, LockLists
<1>4. db \in TableSet
  BY <1>2, CommitParts, SeenType
<1>5. /\ Running(r) /\ HasAllLocks(r)
      /\ project' = [q \in Projects |->
           IF q \in RowsWritten(r, db) THEN Written(j, db).project[q] ELSE project[q]]
  BY CommitParts
<1>6. /\ deductMaterial' = Merged(deductMaterial, db.deductMaterial, Written(j, db).deductMaterial)
      /\ refundMaterial' = Merged(refundMaterial, db.refundMaterial, Written(j, db).refundMaterial)
      /\ deductJasa' = Merged(deductJasa, db.deductJasa, Written(j, db).deductJasa)
      /\ refundJasa' = Merged(refundJasa, db.refundJasa, Written(j, db).refundJasa)
  BY CommitParts
<1>7. ~NothingToDo(j, db) /\ ~Refused(j, db)
  BY CommitParts
<1>8. \A s \in Requests : s = r => job[s] = j
  OBVIOUS
<1>9. /\ RowsWritten(r, db) = {src, tgt} /\ src \notin Behind(r) /\ tgt \notin Behind(r)
      /\ Follows(db, Tables, Behind(r))
  <2>1. \A s, a, b : s = <<a, b>> =>
          {s[i] : i \in DOMAIN s} = {a, b} /\ 1 \in DOMAIN s /\ 2 \in DOMAIN s
          /\ s[1] = a /\ s[2] = b
    OBVIOUS
  <2>2. /\ {locks[r][i] : i \in DOMAIN locks[r]}
             = {LockList(j, db)[i] : i \in DOMAIN LockList(j, db)}
        /\ \A i \in DOMAIN LockList(j, db) : LockList(j, db)[i] \notin Behind(r)
        /\ Follows(db, Tables, Behind(r))
    BY <1>5, HolderKnows
  <2>3. RowsWritten(r, db) = {locks[r][i] : i \in DOMAIN locks[r]}
    BY <1>7 DEF RowsWritten
  <2>4. CASE LockList(j, db) = <<src, tgt>>
    BY <2>1, <2>2, <2>3, <2>4
  <2>5. CASE LockList(j, db) = <<tgt, src>>
    BY <2>1, <2>2, <2>3, <2>5
  <2>6. QED
    BY <1>3, <2>4, <2>5
<1>10. db.project[src] = project[src] /\ db.project[tgt] = project[tgt]
  <2>1. Tables.project = project
    BY DEF Tables
  <2>2. QED
    BY <1>1, <1>9, <2>1 DEF Follows
<1> HIDE DEF j, db, src, tgt
<1>11. Written(j, db) =
         [db EXCEPT !.project = [db.project EXCEPT ![src] = out(db.project[src]),
                                                   ![tgt] = in(db.project[tgt])]]
  <2>1. src = j.src /\ tgt = j.tgt
    BY DEF src, tgt
  <2>2. [db EXCEPT !.project[src] = out(db.project[src]), !.project[tgt] = in(db.project[tgt])]
          = [db EXCEPT !.project = [db.project EXCEPT ![src] = out(db.project[src]),
                                                      ![tgt] = in(db.project[tgt])]]
    BY <1>1, <1>4 DEF TableSet
  <2>3. QED
    BY <1>1, <1>4, <1>7, <2>1, <2>2 DEF Written, TableSet
<1> HIDE DEF out, in
<1>12. /\ Written(j, db).deductMaterial = db.deductMaterial
       /\ Written(j, db).refundMaterial = db.refundMaterial
       /\ Written(j, db).deductJasa = db.deductJasa
       /\ Written(j, db).refundJasa = db.refundJasa
       /\ Written(j, db).project[src] = out(project[src])
       /\ Written(j, db).project[tgt] = in(project[tgt])
  BY <1>1, <1>4, <1>10, <1>11 DEF TableSet
<1>13. UNCHANGED <<deductMaterial, refundMaterial, deductJasa, refundJasa>>
  BY <1>2, <1>6, <1>12, MergeNothing DEF TypeOK
<1>14. project' = [project EXCEPT ![src] = out(project[src]), ![tgt] = in(project[tgt])]
  <2>1. project' = [q \in Projects |-> IF q = tgt THEN in(project[tgt])
                      ELSE IF q = src THEN out(project[src]) ELSE project[q]]
    BY <1>1, <1>5, <1>9, <1>12
  <2>2. QED
    BY <1>1, <1>2, <2>1 DEF TypeOK
<1>15. TransferBudget(src, tgt, j.srcCat, j.tgtCat, j.amount)
  <2>1. /\ CanTransferOut(project[src], j.srcCat, j.amount)
        /\ CanTransferIn(project[tgt], j.tgtCat, j.amount)
    BY <1>1, <1>7, <1>10 DEF Refused, src, tgt
  <2>2. QED
    BY <1>1, <1>13, <1>14, <2>1 DEF TransferBudget, out, in, ledgerRows
<1>16. LedgerInv'
  BY <1>1, <1>2, <1>15, TransferBudgetKeeps
<1>17. RowsOfJobs'
  BY <1>2, <1>13 DEF RowsOfJobs
<1>18. Follows(Tables, Tables', {src, tgt})
  <2>1. \A q \in Projects \ {src, tgt} : project'[q] = project[q]
    BY <1>2, <1>14 DEF TypeOK
  <2>2. QED
    BY <1>13, <2>1 DEF Follows, RowFollows, Tables
<1>19. QED
  BY <1>9, <1>15, <1>16, <1>17, <1>18 DEF CallLeaves, j, src, tgt, db

(* A commit is one call of the ledger, or none.                            *)
LEMMA CommitCalls ==
  ASSUME TxInv, NEW r \in Requests, Commit(r)
  PROVE  /\ CallLeaves(RowsWritten(r, Seen(r)))
         /\ \/ UNCHANGED ledgerVars
            \/ /\ job[r].kind = "APPROVE_ORDER"
               /\ DeductForOrder(job[r].order, job[r].project, job[r].amount)
            \/ job[r].kind = "CANCEL_ORDER" /\ RefundForOrder(job[r].order)
            \/ /\ job[r].kind = "APPROVE_CASH_OP"
               /\ DeductForCashOp(job[r].cashOp, job[r].project, job[r].amount)
            \/ /\ job[r].kind = "SETTLE_CASH_OP"
               /\ PartialRefundForCashOp(job[r].cashOp, VarianceTag(job[r].cashOp), job[r].amount)
            \/ /\ job[r].kind = "TRANSFER"
               /\ TransferBudget(job[r].src, job[r].tgt, job[r].srcCat, job[r].tgtCat, job[r].amount)
            \/ /\ job[r].kind = "UPDATE_BUDGET"
               /\ UpdateBudget(job[r].project, job[r].budget)
<1>1. CASE NothingToDo(job[r], Seen(r))
  <2>1. UNCHANGED ledgerVars /\ RowsWritten(r, Seen(r)) = {}
    BY <1>1, CommitNothing
  <2>2. LedgerInv' /\ RowsOfJobs'
    BY <2>1, LedgerStutter DEF TxInv, RowsOfJobs, ledgerVars, ledgerRows
  <2>3. Follows(Tables, Tables', {})
    BY <2>1 DEF Follows, RowFollows, Tables, ledgerVars, ledgerRows
  <2>4. QED
    BY <2>1, <2>2, <2>3 DEF CallLeaves
<1>2. CASE ~NothingToDo(job[r], Seen(r))
  <2>1. CASE job[r].kind = "APPROVE_ORDER"
    BY <1>2, <2>1, CommitApproveOrder
  <2>2. CASE job[r].kind = "CANCEL_ORDER"
    BY <1>2, <2>2, CommitCancelOrder
  <2>3. CASE job[r].kind = "APPROVE_CASH_OP"
    BY <1>2, <2>3, CommitApproveCashOp
  <2>4. CASE job[r].kind = "SETTLE_CASH_OP"
    BY <1>2, <2>4, CommitSettleCashOp
  <2>5. CASE job[r].kind = "TRANSFER"
    BY <1>2, <2>5, CommitTransfer
  <2>6. CASE job[r].kind = "UPDATE_BUDGET"
    BY <1>2, <2>6, CommitUpdateBudget
  <2>7. QED
    BY <2>1, <2>2, <2>3, <2>4, <2>5, <2>6, JobFacts
<1>3. QED
  BY <1>1, <1>2

(* What was behind, and then more, is behind.                              *)
LEMMA FollowsOn ==
  ASSUME NEW a, NEW b, NEW c, NEW P, NEW Q, Follows(a, b, P), Follows(b, c, Q)
  PROVE  Follows(a, c, P \cup Q)
<1>1. ASSUME NEW x, NEW y, NEW z, RowFollows(x, y, P), RowFollows(y, z, Q)
      PROVE  RowFollows(x, z, P \cup Q)
  BY <1>1 DEF RowFollows
<1>2. \A p \in Projects \ (P \cup Q) : c.project[p] = a.project[p]
  BY DEF Follows
<1>3. ASSUME NEW o \in Orders
      PROVE  /\ RowFollows(a.deductMaterial[o], c.deductMaterial[o], P \cup Q)
             /\ RowFollows(a.refundMaterial[o], c.refundMaterial[o], P \cup Q)
  <2>1. /\ RowFollows(a.deductMaterial[o], b.deductMaterial[o], P)
        /\ RowFollows(a.refundMaterial[o], b.refundMaterial[o], P)
        /\ RowFollows(b.deductMaterial[o], c.deductMaterial[o], Q)
        /\ RowFollows(b.refundMaterial[o], c.refundMaterial[o], Q)
    BY DEF Follows
  <2>2. QED
    BY <1>1, <2>1
<1>4. ASSUME NEW i \in CashOps
      PROVE  /\ RowFollows(a.deductJasa[i], c.deductJasa[i], P \cup Q)
             /\ \A t \in Tags : RowFollows(a.refundJasa[i][t], c.refundJasa[i][t], P \cup Q)
  <2>1. /\ RowFollows(a.deductJasa[i], b.deductJasa[i], P)
        /\ RowFollows(b.deductJasa[i], c.deductJasa[i], Q)
        /\ \A t \in Tags : /\ RowFollows(a.refundJasa[i][t], b.refundJasa[i][t], P)
                           /\ RowFollows(b.refundJasa[i][t], c.refundJasa[i][t], Q)
    BY DEF Follows
  <2>2. QED
    BY <1>1, <2>1
<1>5. QED
  BY <1>2, <1>3, <1>4 DEF Follows

(* Of the rows a commit rewrites, the transaction held every one.          *)
LEMMA RowsWereLocked ==
  ASSUME TxShape, NEW r \in Requests
  PROVE  /\ RowsWritten(r, Seen(r)) \subseteq Projects
         /\ \A p \in RowsWritten(r, Seen(r)) : \E i \in DOMAIN locks[r] : locks[r][i] = p
<1>1. locks[r] \in Seq(Projects)
  BY DEF TxShape
<1>2. \A i \in DOMAIN locks[r] : locks[r][i] \in Projects
  BY <1>1
<1>3. QED
  BY <1>2 DEF RowsWritten

(* The commit of one transaction leaves the others their knowledge.        *)
LEMMA CommitKeeps ==
  ASSUME TxInv, NEW r \in Requests, Commit(r)
  PROVE  TxInv'
<1> DEFINE rows == RowsWritten(r, Seen(r))
<1>1. /\ Running(r)
      /\ state' = [state EXCEPT ![r] = "committed"]
      /\ locks' = [locks EXCEPT ![r] = <<>>]
      /\ snapshot' = [snapshot EXCEPT ![r] = NoSnapshot]
      /\ stale' = [s \in Requests |->
           IF s = r THEN {} ELSE IF Running(s) THEN stale[s] \cup rows ELSE {}]
      /\ UNCHANGED attempt
  BY CommitParts
<1>2. TxShape /\ Exclusive
  BY DEF TxInv
<1>3. LedgerInv' /\ RowsOfJobs' /\ Follows(Tables, Tables', rows)
  BY CommitCalls DEF CallLeaves
<1>4. rows \subseteq Projects /\ \A p \in rows : \E i \in DOMAIN locks[r] : locks[r][i] = p
  BY <1>2, RowsWereLocked
<1> HIDE DEF rows
<1>5. /\ state'[r] = "committed" /\ locks'[r] = <<>>
      /\ snapshot'[r] = NoSnapshot /\ stale'[r] = {}
      /\ \A s \in Requests \ {r} :
           /\ state'[s] = state[s] /\ snapshot'[s] = snapshot[s] /\ locks'[s] = locks[s]
           /\ stale'[s] = IF Running(s) THEN stale[s] \cup rows ELSE {}
  BY <1>1, <1>2 DEF TxShape
<1>6. TxShape'
  <2>1. "committed" \in {"idle", "running", "backoff"} \cup Ended /\ <<>> \in Seq(Projects)
    BY DEF Ended
  <2>2. /\ state' \in [Requests -> {"idle", "running", "backoff"} \cup Ended]
        /\ locks' \in [Requests -> Seq(Projects)]
        /\ snapshot' \in [Requests -> TableSet \cup {NoSnapshot}]
        /\ attempt' \in [Requests -> 0..MaxRetries]
    BY <1>1, <1>2, <2>1 DEF TxShape
  <2>3. stale' \in [Requests -> SUBSET Projects]
    BY <1>1, <1>2, <1>4 DEF TxShape
  <2>4. \A s \in Requests :
          IF Running(s)' THEN snapshot'[s] \in TableSet
          ELSE snapshot'[s] = NoSnapshot /\ stale'[s] = {} /\ locks'[s] = <<>>
    BY <1>2, <1>5 DEF TxShape, Running
  <2>5. QED
    BY <2>2, <2>3, <2>4 DEF TxShape
<1>7. Exclusive'
  <2>1. ASSUME NEW s \in Requests, NEW i \in DOMAIN locks'[s]
        PROVE  i \in DOMAIN locks[s] /\ locks'[s][i] = locks[s][i]
    <3>1. DOMAIN <<>> = {}
      OBVIOUS
    <3>2. s # r
      BY <1>5, <2>1, <3>1
    <3>3. QED
      BY <1>5, <2>1, <3>2
  <2>2. QED
    BY <1>2, <2>1 DEF Exclusive
<1>8. ASSUME NEW s \in Requests, Running(s)' PROVE SnapshotInv(s)'
  <2>1. s # r /\ Running(s)
    BY <1>5, <1>8 DEF Running
  <2>2. /\ snapshot'[s] = snapshot[s] /\ locks'[s] = locks[s]
        /\ stale'[s] = stale[s] \cup rows
    BY <1>5, <2>1
  <2>3. SnapshotInv(s)
    BY <2>1 DEF TxInv
  <2>4. IsSerializable(s)' = IsSerializable(s)
    BY DEF IsSerializable
  <2>5. LockList(job[s], Seen(s)') = LockList(job[s], Seen(s))
    <3>1. CASE IsSerializable(s)
      BY <2>2, <3>1 DEF Seen, IsSerializable
    <3>2. CASE ~IsSerializable(s)
      BY <3>2, LockLists DEF IsSerializable
    <3>3. QED
      BY <3>1, <3>2
  <2>6. \A i \in DOMAIN locks[s] : locks[s][i] \notin rows
    BY <1>2, <1>4, <2>1 DEF Exclusive
  <2>7. ASSUME IsSerializable(s)
        PROVE  /\ Follows(snapshot'[s], Tables', stale'[s])
               /\ \A i \in DOMAIN locks'[s] : locks'[s][i] \notin stale'[s]
    <3>1. /\ Follows(snapshot[s], Tables, stale[s])
          /\ \A i \in DOMAIN locks[s] : locks[s][i] \notin stale[s]
      BY <2>3, <2>7 DEF SnapshotInv
    <3>2. Follows(snapshot[s], Tables', stale[s] \cup rows)
      BY <1>3, <3>1, FollowsOn
    <3>3. QED
      BY <2>2, <2>6, <3>1, <3>2
  <2>8. FollowsList(locks'[s], LockList(job[s], Seen(s)'))
    BY <2>2, <2>3, <2>5 DEF SnapshotInv
  <2>9. QED
    BY <2>4, <2>7, <2>8 DEF SnapshotInv
<1>9. QED
  BY <1>3, <1>6, <1>7, <1>8 DEF TxInv

-----------------------------------------------------------------------------
(* The theorems.                                                           *)

(* Nothing is posted and nobody runs.                                      *)
LEMMA TxInitInv == TxInit => TxInv
<1> SUFFICES ASSUME TxInit PROVE TxInv
  OBVIOUS
<1>1. LedgerInv
  BY LedgerInitInv DEF TxInit
<1>2. TxShape
  <2>1. PICK batch \in Batches :
          state = [r \in Requests |-> IF r \in batch THEN "idle" ELSE "thrown"]
    BY DEF TxInit
  <2>2. /\ state \in [Requests -> {"idle", "running", "backoff"} \cup Ended]
        /\ \A r \in Requests : ~Running(r)
    BY <2>1 DEF Ended, Running
  <2>3. <<>> \in Seq(Projects) /\ 0 \in 0..MaxRetries
    BY TransactionAssumption
  <2>4. QED
    BY <2>2, <2>3 DEF TxInit, TxShape
<1>3. Exclusive
  BY DEF TxInit, Exclusive
<1>4. \A r \in Requests : ~Running(r)
  BY DEF TxInit, Running
<1>5. RowsOfJobs
  BY DEF TxInit, LedgerInit, RowsOfJobs
<1>6. QED
  BY <1>1, <1>2, <1>3, <1>4, <1>5 DEF TxInv

(* Every step of every transaction keeps the invariant.                    *)
LEMMA TxNextInv == TxInv /\ [TxNext]_vars => TxInv'
<1> SUFFICES ASSUME TxInv, [TxNext]_vars PROVE TxInv'
  OBVIOUS
<1>1. CASE UNCHANGED vars
  <2>1. UNCHANGED ledgerVars /\ UNCHANGED txVars
    BY <1>1 DEF vars
  <2>2. LedgerInv'
    BY <2>1, LedgerStutter DEF TxInv
  <2>3. UNCHANGED <<project, deductMaterial, refundMaterial, deductJasa, refundJasa>>
        /\ UNCHANGED <<state, attempt, snapshot, stale, locks>>
    BY <2>1 DEF ledgerVars, ledgerRows, txVars
  <2>4. TxShape' /\ Exclusive' /\ RowsOfJobs'
    BY <2>3 DEF TxInv, TxShape, Exclusive, RowsOfJobs, Running
  <2>5. Tables' = Tables
    BY <2>3 DEF Tables
  <2>6. \A r \in Requests : Running(r)' => SnapshotInv(r)'
    BY <2>3, <2>5 DEF TxInv, SnapshotInv, Seen, IsSerializable, Running
  <2>7. QED
    BY <2>2, <2>4, <2>6 DEF TxInv
<1>2. ASSUME NEW r \in Requests, Step(r) PROVE TxInv'
  <2>1. CASE Begin(r)
    BY <2>1, BeginKeeps
  <2>2. CASE LockRow(r)
    BY <2>2, LockRowKeeps
  <2>3. CASE FailOnConflict(r)
    BY <2>3, FailureKeeps DEF FailOnConflict
  <2>4. CASE Refuse(r)
    BY <2>4, FailureKeeps DEF Refuse
  <2>5. CASE Commit(r)
    BY <2>5, CommitKeeps
  <2>6. QED
    BY <1>2, <2>1, <2>2, <2>3, <2>4, <2>5 DEF Step
<1>3. ASSUME NEW r \in Requests, SerializationFailure(r) \/ Die(r) PROVE TxInv'
  BY <1>3, FailureKeeps DEF SerializationFailure, Die
<1>4. QED
  BY <1>1, <1>2, <1>3 DEF TxNext

(* The transactions of runSerializableTransaction keep the invariant,      *)
(* however they interleave, conflict, are retried or die.                  *)
THEOREM TransactionInvariant == TxSafety => []TxInv
<1> QED
  BY TxInitInv, TxNextInv, PTL DEF TxSafety

(* Every variable of the transactions has its type.                        *)
THEOREM TransactionsKeepTheirType == TxSafety => []TxTypeOK
<1>1. TxInv => TxTypeOK
  <2> SUFFICES ASSUME TxInv PROVE TxTypeOK
    OBVIOUS
  <2>1. TxShape
    BY DEF TxInv
  <2>2. ASSUME NEW r \in Requests
        PROVE  /\ IF Running(r) THEN snapshot[r].project \in [Projects -> Money]
                                ELSE snapshot[r] = NoSnapshot /\ stale[r] = {}
               /\ locks[r] # <<>> => Running(r)
    BY <2>1 DEF TxShape, TableSet
  <2>3. QED
    BY <2>1, <2>2 DEF TxShape, TxTypeOK
<1> QED
  BY <1>1, TransactionInvariant, PTL

(* lockProjectRow: who holds a project row holds it alone and, in a        *)
(* serializable transaction, has read it as it is.                         *)
THEOREM HoldersAreCurrent == TxSafety => []LockedRowIsCurrent
<1>1. TxInv => LockedRowIsCurrent
  <2> SUFFICES ASSUME TxInv, NEW r \in Requests, NEW i \in DOMAIN locks[r]
               PROVE  LET p == locks[r][i] IN
                      /\ \A s \in Requests \ {r} : \A k \in DOMAIN locks[s] : locks[s][k] # p
                      /\ IsSerializable(r) => snapshot[r].project[p] = project[p]
    BY DEF LockedRowIsCurrent
  <2> DEFINE p == locks[r][i]
  <2>1. TxShape /\ Exclusive
    BY DEF TxInv
  <2>2. \A s \in Requests \ {r} : \A k \in DOMAIN locks[s] : locks[s][k] # p
    BY <2>1 DEF Exclusive
  <2>3. p \in Projects
    BY <2>1 DEF TxShape
  <2>4. Running(r)
    <3>1. locks[r] # <<>>
      OBVIOUS
    <3>2. QED
      BY <2>1, <3>1 DEF TxShape
  <2>5. IsSerializable(r) => Follows(snapshot[r], Tables, stale[r]) /\ p \notin stale[r]
    BY <2>4 DEF TxInv, SnapshotInv
  <2>6. IsSerializable(r) => snapshot[r].project[p] = project[p]
    BY <2>3, <2>5 DEF Follows, Tables
  <2>7. QED
    BY <2>2, <2>6
<1> QED
  BY <1>1, TransactionInvariant, PTL

(* The rows a transaction is about to insert are not in the committed      *)
(* tables: they would name a project whose row it holds.                   *)
LEMMA HolderInsertsNewRows ==
  ASSUME TxInv, NEW r \in Requests, Running(r), HasAllLocks(r),
         ~Refused(job[r], Seen(r)), ~NothingToDo(job[r], Seen(r))
  PROVE  ~NothingToDo(job[r], Tables)
<1> DEFINE j == job[r]
           db == Seen(r)
           list == LockList(j, db)
<1>1. TypeOK /\ RefundShape /\ RowsOfJobs
  BY DEF TxInv, LedgerInv
<1>2. (\A i \in DOMAIN list : list[i] \notin Behind(r)) /\ Follows(db, Tables, Behind(r))
  BY HolderKnows
<1>3. \A p : list = <<p>> => p \notin Behind(r)
  <2>1. \A p : 1 \in DOMAIN <<p>> /\ <<p>>[1] = p
    OBVIOUS
  <2>2. QED
    BY <1>2, <2>1
<1>4. /\ j.kind \in {"APPROVE_ORDER", "CANCEL_ORDER", "APPROVE_CASH_OP",
                     "SETTLE_CASH_OP", "TRANSFER", "UPDATE_BUDGET"}
      /\ j.kind \in {"APPROVE_ORDER", "CANCEL_ORDER"} => j.order \in Orders
      /\ j.kind \in {"APPROVE_CASH_OP", "SETTLE_CASH_OP"} => j.cashOp \in CashOps
  BY JobFacts
<1>5. /\ j.kind \in {"APPROVE_ORDER", "APPROVE_CASH_OP"} => list = <<j.project>>
      /\ j.kind = "CANCEL_ORDER" /\ db.deductMaterial[j.order] # NoRow =>
           list = <<db.deductMaterial[j.order].project>>
      /\ j.kind = "SETTLE_CASH_OP" /\ db.deductJasa[j.cashOp] # NoRow =>
           list = <<db.deductJasa[j.cashOp].project>>
  BY LockLists
<1>6. /\ j.kind = "APPROVE_ORDER" =>
           \A o \in Orders : o = j.order /\ deductMaterial[o] # NoRow =>
             deductMaterial[o].project = j.project
      /\ j.kind = "APPROVE_CASH_OP" =>
           \A c \in CashOps : c = j.cashOp /\ deductJasa[c] # NoRow =>
             deductJasa[c].project = j.project
  BY <1>1 DEF RowsOfJobs
<1>7. ~NothingToDo(j, db) /\ ~Refused(j, db)
  OBVIOUS
<1>8. /\ Tables.deductMaterial = deductMaterial /\ Tables.refundMaterial = refundMaterial
      /\ Tables.deductJasa = deductJasa /\ Tables.refundJasa = refundJasa
  BY DEF Tables
<1> HIDE DEF j, db, list
<1>9. CASE j.kind = "APPROVE_ORDER"
  <2>1. db.deductMaterial[j.order] = NoRow
    BY <1>7, <1>9 DEF NothingToDo
  <2>2. deductMaterial[j.order] = NoRow
    BY <1>2, <1>3, <1>4, <1>5, <1>6, <1>8, <1>9, <2>1 DEF Follows, RowFollows
  <2>3. ~NothingToDo(j, Tables)
    BY <1>8, <1>9, <2>2 DEF NothingToDo
  <2>4. QED
    BY <2>3 DEF j
<1>10. CASE j.kind = "CANCEL_ORDER"
  <2>1. db.deductMaterial[j.order] # NoRow /\ db.refundMaterial[j.order] = NoRow
    BY <1>7, <1>10 DEF NothingToDo
  <2>2. deductMaterial[j.order] = db.deductMaterial[j.order]
    BY <1>2, <1>4, <1>8, <1>10, <2>1 DEF Follows, RowFollows
  <2>3. refundMaterial[j.order] # NoRow => refundMaterial[j.order].project \in Behind(r)
    BY <1>2, <1>4, <1>8, <1>10, <2>1 DEF Follows, RowFollows
  <2>4. refundMaterial[j.order] # NoRow => refundMaterial[j.order] = deductMaterial[j.order]
    BY <1>1, <1>4, <1>10 DEF RefundShape
  <2>5. refundMaterial[j.order] = NoRow
    BY <1>3, <1>5, <1>10, <2>1, <2>2, <2>3, <2>4
  <2>6. ~NothingToDo(j, Tables)
    BY <1>8, <1>10, <2>1, <2>2, <2>5 DEF NothingToDo
  <2>7. QED
    BY <2>6 DEF j
<1>11. CASE j.kind = "APPROVE_CASH_OP"
  <2>1. db.deductJasa[j.cashOp] = NoRow /\ j.project \notin FtttProjects
    BY <1>7, <1>11 DEF NothingToDo
  <2>2. deductJasa[j.cashOp] = NoRow
    BY <1>2, <1>3, <1>4, <1>5, <1>6, <1>8, <1>11, <2>1 DEF Follows, RowFollows
  <2>3. ~NothingToDo(j, Tables)
    BY <1>8, <1>11, <2>1, <2>2 DEF NothingToDo
  <2>4. QED
    BY <2>3 DEF j
<1>12. CASE j.kind = "SETTLE_CASH_OP"
  <2> DEFINE c == j.cashOp
             tag == VarianceTag(c)
  <2>1. c \in CashOps /\ tag \in Tags
    BY <1>4, <1>12 DEF VarianceTag, Tags, PartialTags
  <2>2. db.deductJasa[c] # NoRow /\ db.refundJasa[c][tag] = NoRow
    BY <1>7, <1>12 DEF NothingToDo, Refused
  <2> HIDE DEF tag
  <2>3. deductJasa[c] = db.deductJasa[c]
    BY <1>2, <1>8, <2>1, <2>2 DEF Follows, RowFollows
  <2>4. refundJasa[c][tag] # NoRow => refundJasa[c][tag].project \in Behind(r)
    BY <1>2, <1>8, <2>1, <2>2 DEF Follows, RowFollows
  <2>5. refundJasa[c][tag] # NoRow => refundJasa[c][tag].project = deductJasa[c].project
    BY <1>1, <2>1 DEF RefundShape
  <2>6. db.deductJasa[c].project \notin Behind(r)
    BY <1>3, <1>5, <1>12, <2>2
  <2>7. refundJasa[c][tag] = NoRow
    BY <2>3, <2>4, <2>5, <2>6
  <2>8. ~NothingToDo(j, Tables)
    BY <1>8, <1>12, <2>7 DEF NothingToDo, tag
  <2>9. QED
    BY <2>8 DEF j
<1>13. CASE j.kind \in {"TRANSFER", "UPDATE_BUDGET"}
  <2>1. ~NothingToDo(j, Tables)
    BY <1>13 DEF NothingToDo
  <2>2. QED
    BY <2>1 DEF j
<1>14. QED
  BY <1>4, <1>9, <1>10, <1>11, <1>12, <1>13

(* The unique indexes never refuse an insert, so the P2002 branches of     *)
(* BudgetLedgerService are not entered.                                    *)
THEOREM IndexesNeverRefuse == TxSafety => []NoUniqueConflict
<1>1. TxInv => NoUniqueConflict
  BY HolderInsertsNewRows DEF NoUniqueConflict
<1> QED
  BY <1>1, TransactionInvariant, PTL

(* The ledger's own invariants hold of the committed tables, under every   *)
(* interleaving of the transactions that write them.                       *)
THEOREM TransactionsKeepTheLedger ==
  TxSafety => [](SpentMatchesLedger /\ OverbudgetInSync /\ LinesWithinTotal)
<1>1. TxInv => SpentMatchesLedger /\ OverbudgetInSync /\ LinesWithinTotal
  BY DEF TxInv, LedgerInv
<1> QED
  BY <1>1, TransactionInvariant, PTL

-----------------------------------------------------------------------------
(* Refinement.                                                             *)

(* The ledger's bound on its state space; the code has none.               *)
TotalsBounded == \A p \in Projects : project[p].total <= MaxTotal

(* A step of a transaction is a step of the atomic ledger, or changes      *)
(* nothing of it.                                                          *)
LEMMA TxStepRefines ==
  ASSUME TxInv, TotalsBounded', [TxNext]_vars
  PROVE  [LedgerNext]_ledgerVars
<1>1. CASE UNCHANGED vars
  BY <1>1 DEF vars
<1>2. ASSUME NEW r \in Requests, Step(r) \/ SerializationFailure(r) \/ Die(r), ~Commit(r)
      PROVE  UNCHANGED ledgerVars
  BY <1>2 DEF Step, Begin, LockRow, FailOnConflict, Refuse, SerializationFailure, Die,
              Retry, Throw, Rollback
<1>3. ASSUME NEW r \in Requests, Commit(r)
      PROVE  [LedgerNext]_ledgerVars
  <2> DEFINE j == job[r]
  <2>1. CASE j.kind = "APPROVE_ORDER" /\ DeductForOrder(j.order, j.project, j.amount)
    BY <2>1, JobFacts DEF LedgerNext, ApproveOrder
  <2>2. CASE j.kind = "CANCEL_ORDER" /\ RefundForOrder(j.order)
    BY <2>2, JobFacts DEF LedgerNext, CancelOrder
  <2>3. CASE j.kind = "APPROVE_CASH_OP" /\ DeductForCashOp(j.cashOp, j.project, j.amount)
    BY <2>3, JobFacts DEF LedgerNext, ApproveCashOp
  <2>4. CASE /\ j.kind = "SETTLE_CASH_OP"
             /\ PartialRefundForCashOp(j.cashOp, VarianceTag(j.cashOp), j.amount)
    <3>1. j.cashOp \in CashOps /\ j.amount \in Amounts
      BY <2>4, JobFacts
    <3>2. QED
      BY <2>4, <3>1 DEF LedgerNext, SettleCashOp
  <2>5. CASE /\ j.kind = "TRANSFER"
             /\ TransferBudget(j.src, j.tgt, j.srcCat, j.tgtCat, j.amount)
    <3>1. /\ j.src \in Projects /\ j.tgt \in Projects /\ j.amount \in Amounts
          /\ j.srcCat \in Categories /\ j.tgtCat \in Categories /\ j.amount \in Nat
      BY <2>5, JobFacts, LedgerAssumption
    <3>2. project \in [Projects -> Money]
      BY DEF TxInv, LedgerInv, TypeOK
    <3>3. project'[j.tgt] = TransferIn(project[j.tgt], j.tgtCat, j.amount)
      BY <2>5, <3>1, <3>2 DEF TransferBudget
    <3>4. project'[j.tgt].total = project[j.tgt].total + j.amount
      BY <3>1, <3>2, <3>3 DEF TransferIn, MoveBudget, SyncOverbudgetFlag, Money
    <3>5. project[j.tgt].total + j.amount <= MaxTotal
      BY <3>1, <3>4 DEF TotalsBounded
    <3>6. QED
      BY <2>5, <3>1, <3>5 DEF LedgerNext, ApproveTransfer
  <2>6. CASE j.kind = "UPDATE_BUDGET" /\ UpdateBudget(j.project, j.budget)
    BY <2>6, JobFacts DEF LedgerNext, ChangeBudget
  <2>7. QED
    BY <1>3, <2>1, <2>2, <2>3, <2>4, <2>5, <2>6, CommitCalls
<1>4. QED
  BY <1>1, <1>2, <1>3 DEF TxNext

(* The transactions implement the ledger that their callers rely on: every *)
(* call happens at once or not at all.                                     *)
THEOREM TransactionsImplementTheLedger ==
  TxSafety /\ []TotalsBounded => LedgerSpec
<1>1. TxInit => LedgerInit
  BY DEF TxInit
<1>2. TxInv /\ TotalsBounded' /\ [TxNext]_vars => [LedgerNext]_ledgerVars
  BY TxStepRefines
<1> QED
  BY <1>1, <1>2, TransactionInvariant, PTL DEF TxSafety, LedgerSpec

-----------------------------------------------------------------------------
(* The invariant.                                                          *)

FinanceShape ==
  /\ status \in [Projects -> {"ACTIVE", "CLOSED", "ARCHIVED"}]
  /\ extra \in [Projects -> [perizinan : Lines, lainLain : Lines]]
  /\ transfer \in [Transfers -> TransferRow \cup {NoRow}]
  /\ transferRows \in [Transfers -> Nat]
  /\ manual \in [Projects -> [amount : Nat, rows : [Transfers -> Nat]]]

(* What a handler is about to write fits the columns it writes.            *)
WrittenBudget(b) ==
  IsBudget(b) /\ b.perizinan \in Lines /\ b.lainLain \in Lines

HandlerFits(h) ==
  /\ h.op = "updateBudget" => h.project \in Projects /\ WrittenBudget(h.budget)
  /\ h.op = "update" =>
       h.project \in Projects /\ h.to \in {"ACTIVE", "CLOSED", "ARCHIVED"}
  /\ h.op = "submit" => h.request \in TransferRequests
  /\ h.op = "decide" =>
       /\ h.transfer \in Transfers /\ transfer[h.transfer] # NoRow
       /\ h.verdict \in {"REJECTED", "CANCELLED"}

HandlersFit == \A h \in inFlight : HandlerFits(h)

(* Money moved at most once, and an undecided or unknown transfer moved    *)
(* none; a manual entry never knows of rows that are not there.            *)
RowsFollowDecisions ==
  \A t \in Transfers :
    /\ transferRows[t] <= 1
    /\ transferRows[t] > 0 =>
         transfer[t] # NoRow /\ transfer[t].status # "PENDING_GM_APPROVAL"
    /\ transfer[t] # NoRow /\ transfer[t].status = "APPROVED" => transferRows[t] > 0
    /\ \A p \in Projects : manual[p].rows[t] <= transferRows[t]

FinanceInv ==
  /\ LedgerInv
  /\ FinanceShape
  /\ HandlersFit
  /\ RowsFollowDecisions
  /\ BudgetExplained

-----------------------------------------------------------------------------
(* What the transfers booked since the last manual entry did to a project. *)

NetMoves(p) ==
  [t \in Transfers |-> (transferRows[t] - manual[p].rows[t]) * Moved(t, p)]

(* What the approved transfers moved is an integer for each of them, so    *)
(* that their sum can be taken one transfer at a time.                     *)
LEMMA NetMovesType ==
  ASSUME FinanceShape, NEW p \in Projects
  PROVE  /\ NetMoves(p) \in [1..NumTransfers -> Int]
         /\ \A t \in Transfers : Moved(t, p) \in Int
<1>1. ASSUME NEW t \in Transfers PROVE Moved(t, p) \in Int
  BY DEF Moved, FinanceShape, TransferRow
<1>2. ASSUME NEW t \in Transfers
      PROVE  (transferRows[t] - manual[p].rows[t]) * Moved(t, p) \in Int
  <2>1. transferRows[t] - manual[p].rows[t] \in Int
    BY DEF FinanceShape
  <2>2. QED
    BY <1>1, <2>1
<1>3. QED
  BY <1>1, <1>2 DEF NetMoves, Transfers

(* BudgetExplained in the form the proofs use: the sum of NetMoves.        *)
LEMMA BudgetExplainedByMoves ==
  BudgetExplained <=>
    \A p \in Projects :
      project[p].total = manual[p].amount + Total(NetMoves(p), NumTransfers)
  BY DEF BudgetExplained, NetMoves

(* A step that changes neither a total nor what the rows say about it.     *)
LEMMA TotalsUntouched ==
  ASSUME BudgetExplained, UNCHANGED <<transferRows, manual>>,
         \A p \in Projects : project'[p].total = project[p].total,
         \A p \in Projects, t \in Transfers :
           transferRows[t] = manual[p].rows[t] \/ Moved(t, p)' = Moved(t, p)
             \/ (transferRows[t] = 0 /\ manual[p].rows[t] = 0),
         FinanceShape, FinanceShape'
  PROVE  BudgetExplained'
<1>1. ASSUME NEW p \in Projects PROVE NetMoves(p)' = NetMoves(p)
  <2>1. ASSUME NEW t \in Transfers
        PROVE  (transferRows[t] - manual[p].rows[t]) * Moved(t, p)' =
               (transferRows[t] - manual[p].rows[t]) * Moved(t, p)
    <3>1. Moved(t, p) \in Int /\ Moved(t, p)' \in Int
      BY NetMovesType DEF Moved, FinanceShape, TransferRow
    <3>2. CASE Moved(t, p)' = Moved(t, p)
      BY <3>2
    <3>3. CASE transferRows[t] - manual[p].rows[t] = 0
      BY <3>1, <3>3
    <3>4. transferRows[t] \in Int /\ manual[p].rows[t] \in Int
      BY DEF FinanceShape
    <3>5. QED
      BY <3>2, <3>3, <3>4
  <2>2. QED
    BY <2>1 DEF NetMoves
<1>2. QED
  BY <1>1 DEF BudgetExplained, NetMoves

-----------------------------------------------------------------------------
(* Handlers check.                                                         *)

(* A step that only takes up or lays down a handler.                       *)
LEMMA RowsUntouched ==
  ASSUME FinanceInv, UNCHANGED <<ledgerVars, projectVars, transferVars>>,
         \A h \in inFlight' : HandlerFits(h)
  PROVE  FinanceInv'
<1>1. UNCHANGED <<status, extra, manual, transfer, transferRows, project>>
  BY DEF projectVars, transferVars, ledgerVars
<1>2. LedgerInv'
  BY LedgerStutter DEF FinanceInv
<1>3. FinanceShape /\ FinanceShape'
  BY <1>1 DEF FinanceInv, FinanceShape
<1>4. HandlersFit'
  BY <1>1 DEF HandlersFit, HandlerFits
<1>5. RowsFollowDecisions'
  BY <1>1 DEF FinanceInv, RowsFollowDecisions
<1>6. \A p \in Projects, t \in Transfers : Moved(t, p)' = Moved(t, p)
  BY <1>1 DEF Moved
<1>7. BudgetExplained'
  BY <1>1, <1>3, <1>6, TotalsUntouched DEF FinanceInv
<1>8. QED
  BY <1>2, <1>3, <1>4, <1>5, <1>7 DEF FinanceInv

(* The columns updateBudget is about to write are a budget: for a site its *)
(* computed total is at least what was spent.                              *)
LEMMA NewBudgetIsBudget ==
  ASSUME FinanceInv, NEW p \in Projects, NEW dto \in BudgetRequests,
         StartUpdateBudget(p, dto), NEW b, b = NewBudget(p, dto)
  PROVE  WrittenBudget(b)
<1> DEFINE material == Sent(dto.material, project[p].material)
           jasa == Sent(dto.jasa, project[p].jasa)
           perizinan == Sent(dto.perizinan, extra[p].perizinan)
<1>1. dto \in BudgetRequest /\ project[p] \in Money
      /\ extra[p] \in [perizinan : Lines, lainLain : Lines]
  BY FinanceAssumption DEF FinanceInv, LedgerInv, TypeOK, FinanceShape
<1>2. /\ dto.total \in Nat /\ material \in Lines /\ jasa \in Lines
      /\ perizinan \in Lines
      /\ Sent(dto.lainLain, extra[p].lainLain) \in Lines
      /\ dto.lainLain \notin {Keep, Null} => dto.lainLain \in Nat
  BY <1>1 DEF BudgetRequest, SentLines, Sent, Lines, Money
<1>3. SpentSum(p) \in Nat
  BY <1>1 DEF SpentSum, Money
<1>4. \A l \in Lines : OrZero(l) \in Int
  BY DEF OrZero, Lines
<1>5. /\ b.total \in Int /\ b.material \in Lines /\ b.jasa \in Lines
      /\ b.perizinan \in Lines /\ b.lainLain \in Lines
      /\ Level[p] # "SITE" => b.total \in Nat
  <2> HIDE DEF material, jasa, perizinan
  <2>1. CASE Level[p] = "SEGMENT"
    <3>1. b = [ total |-> IF dto.lainLain \in {Keep, Null} THEN dto.total
                          ELSE dto.lainLain,
                material |-> Null, jasa |-> Null, perizinan |-> Null,
                lainLain |-> IF dto.lainLain \in {Keep, Null} THEN dto.total
                             ELSE dto.lainLain ]
      BY <2>1 DEF NewBudget
    <3>2. QED
      BY <1>2, <2>1, <3>1 DEF Lines
  <2>2. CASE Level[p] = "SITE"
    <3>1. b = [ total |-> OrZero(perizinan) + OrZero(material) + OrZero(jasa),
                material |-> material, jasa |-> jasa,
                perizinan |-> perizinan, lainLain |-> 0 ]
      BY <2>2 DEF NewBudget, material, jasa, perizinan
    <3>2. QED
      BY <1>2, <1>4, <2>2, <3>1 DEF Lines
  <2>3. CASE Level[p] \notin {"SEGMENT", "SITE"}
    <3>1. b = [ total |-> dto.total, material |-> material, jasa |-> jasa,
                perizinan |-> perizinan,
                lainLain |-> Sent(dto.lainLain, extra[p].lainLain) ]
      BY <2>3 DEF NewBudget, material, jasa, perizinan
    <3>2. QED
      BY <1>2, <2>3, <3>1
  <2>4. QED
    BY <2>1, <2>2, <2>3
<1>6. b.total \in Nat
  <2>1. Level[p] = "SITE" => b.total >= SpentSum(p)
    BY DEF StartUpdateBudget
  <2>2. QED
    BY <1>3, <1>5, <2>1
<1>7. b.material # Null /\ b.jasa # Null => b.material + b.jasa <= b.total
  BY DEF StartUpdateBudget, BothLinesFit
<1>8. QED
  BY <1>5, <1>6, <1>7 DEF WrittenBudget, IsBudget

(* Every handler starts with something that fits.                          *)
LEMMA StartsKeep ==
  ASSUME FinanceInv, NEW h, HandlerFits(h), Start(h),
         UNCHANGED <<ledgerVars, projectVars, transferVars>>
  PROVE  FinanceInv'
<1>1. \A k \in inFlight' : HandlerFits(k)
  BY DEF FinanceInv, HandlersFit, Start
<1>2. QED
  BY <1>1, RowsUntouched

(* The handlers' checks only add themselves to what is in flight: no row   *)
(* changes.                                                                *)
LEMMA ChecksKeep ==
  ASSUME FinanceInv,
         \/ \E p \in Projects, dto \in BudgetRequests : StartUpdateBudget(p, dto)
         \/ \E p \in Projects, to \in {"ACTIVE", "CLOSED", "ARCHIVED"} :
              StartUpdate(p, to)
         \/ \E r \in TransferRequests : StartSubmit(r)
         \/ \E t \in Transfers, v \in {"REJECTED", "CANCELLED"} : StartDecide(t, v)
  PROVE  FinanceInv'
<1>1. ASSUME NEW p \in Projects, NEW dto \in BudgetRequests,
             StartUpdateBudget(p, dto)
      PROVE  FinanceInv'
  <2> DEFINE h == [op |-> "updateBudget", project |-> p, budget |-> NewBudget(p, dto)]
  <2>1. WrittenBudget(NewBudget(p, dto))
    BY <1>1, NewBudgetIsBudget
  <2>2. HandlerFits(h)
    BY <2>1 DEF HandlerFits
  <2>3. Start(h) /\ UNCHANGED <<ledgerVars, projectVars, transferVars>>
    BY <1>1 DEF StartUpdateBudget
  <2> HIDE DEF h
  <2>4. QED
    BY <2>2, <2>3, StartsKeep
<1>2. ASSUME NEW p \in Projects, NEW to \in {"ACTIVE", "CLOSED", "ARCHIVED"},
             StartUpdate(p, to)
      PROVE  FinanceInv'
  <2> DEFINE h == [op |-> "update", project |-> p, to |-> to]
  <2>1. HandlerFits(h)
    BY DEF HandlerFits
  <2>2. Start(h) /\ UNCHANGED <<ledgerVars, projectVars, transferVars>>
    BY <1>2 DEF StartUpdate
  <2> HIDE DEF h
  <2>3. QED
    BY <2>1, <2>2, StartsKeep
<1>3. ASSUME NEW r \in TransferRequests, StartSubmit(r)
      PROVE  FinanceInv'
  <2> DEFINE h == [op |-> "submit", request |-> r]
  <2>1. HandlerFits(h)
    BY DEF HandlerFits
  <2>2. Start(h) /\ UNCHANGED <<ledgerVars, projectVars, transferVars>>
    BY <1>3 DEF StartSubmit
  <2> HIDE DEF h
  <2>3. QED
    BY <2>1, <2>2, StartsKeep
<1>4. ASSUME NEW t \in Transfers, NEW v \in {"REJECTED", "CANCELLED"},
             StartDecide(t, v)
      PROVE  FinanceInv'
  <2> DEFINE h == [op |-> "decide", transfer |-> t, verdict |-> v]
  <2>1. HandlerFits(h)
    BY <1>4 DEF HandlerFits, StartDecide
  <2>2. Start(h) /\ UNCHANGED <<ledgerVars, projectVars, transferVars>>
    BY <1>4 DEF StartDecide
  <2> HIDE DEF h
  <2>3. QED
    BY <2>1, <2>2, StartsKeep
<1>5. QED
  BY <1>1, <1>2, <1>3, <1>4

-----------------------------------------------------------------------------
(* Handlers write.                                                         *)

(* A manual entry settles the accounts: it knows of all rows so far.       *)
LEMMA FinishUpdateBudgetKeeps ==
  ASSUME FinanceInv, NEW h \in inFlight, FinishUpdateBudget(h)
  PROVE  FinanceInv'
<1> DEFINE p == h.project
           b == h.budget
           entry == [amount |-> b.total, rows |-> transferRows]
<1>1. /\ p \in Projects /\ WrittenBudget(b) /\ IsBudget(b)
      /\ UpdateBudget(p, b) /\ extra' = [extra EXCEPT ![p] = Extra(b)]
      /\ manual' = [manual EXCEPT ![p] = entry]
      /\ inFlight' = inFlight \ {h}
      /\ UNCHANGED <<status, transfer, transferRows>>
  BY DEF FinishUpdateBudget, FinanceInv, HandlersFit, HandlerFits, WrittenBudget,
         Finish, transferVars
<1>2. LedgerInv'
  BY <1>1, UpdateBudgetKeeps DEF FinanceInv
<1>3. /\ FinanceShape /\ project \in [Projects -> Money]
      /\ b.total \in Nat
  BY <1>1 DEF FinanceInv, LedgerInv, TypeOK, IsBudget
<1>4. entry \in [amount : Nat, rows : [Transfers -> Nat]]
  BY <1>3 DEF FinanceShape
<1>5. Extra(b) \in [perizinan : Lines, lainLain : Lines]
  BY <1>1 DEF WrittenBudget, Extra
<1> HIDE DEF p, b
<1>6. FinanceShape'
  BY <1>1, <1>3, <1>4, <1>5 DEF FinanceShape
<1>7. HandlersFit'
  BY <1>1 DEF FinanceInv, HandlersFit, HandlerFits
<1>8. \A q \in Projects : manual'[q] = IF q = p THEN entry ELSE manual[q]
  BY <1>1, <1>3 DEF FinanceShape
<1>9. RowsFollowDecisions'
  <2>1. \A t \in Transfers : transferRows[t] <= transferRows[t]
    BY <1>3 DEF FinanceShape
  <2>2. QED
    BY <1>1, <1>8, <2>1 DEF FinanceInv, RowsFollowDecisions
<1>10. \A q \in Projects :
         project'[q].total = IF q = p THEN b.total ELSE project[q].total
  <2> DEFINE was == project[p]
             row == SyncOverbudgetFlag([was EXCEPT
               !.total = b.total, !.material = b.material, !.jasa = b.jasa])
  <2>1. project' = [project EXCEPT ![p] = row]
    BY <1>1 DEF UpdateBudget
  <2>2. b.material \in Lines /\ b.jasa \in Lines /\ b.total \in Nat
    BY <1>1 DEF IsBudget
  <2>3. was \in Money
    BY <1>1, <1>3
  <2> HIDE DEF was
  <2>4. /\ row \in Money
        /\ row.total = b.total /\ row.material = b.material /\ row.jasa = b.jasa
        /\ row.materialSpent = was.materialSpent /\ row.jasaSpent = was.jasaSpent
        /\ row.isOverbudget <=> IsOver(row)
    BY <2>2, <2>3, NewLinesFacts
  <2> HIDE DEF row
  <2>5. QED
    BY <1>1, <1>3, <2>1, <2>4
<1>11. \A q \in Projects, t \in Transfers : Moved(t, q)' = Moved(t, q)
  BY <1>1 DEF Moved
<1>12. ASSUME NEW q \in Projects
       PROVE  project'[q].total = manual'[q].amount + Total(NetMoves(q)', NumTransfers)
  <2>1. CASE q = p
    <3>1. ASSUME NEW t \in Transfers
          PROVE  (transferRows'[t] - manual'[p].rows[t]) * Moved(t, p)' = 0
      <4>1. transferRows[t] \in Int /\ Moved(t, p) \in Int
        BY <1>1, <1>3, NetMovesType DEF FinanceShape
      <4>2. manual'[p].rows[t] = transferRows[t] /\ transferRows'[t] = transferRows[t]
        BY <1>1, <1>8
      <4>3. QED
        BY <1>1, <1>11, <4>1, <4>2
    <3>2. NetMoves(p)' = [t \in 1..NumTransfers |-> 0]
      BY <3>1 DEF NetMoves, Transfers
    <3>3. Total(NetMoves(p)', NumTransfers) = 0
      BY <3>2, FinanceAssumption, TotalOfZeroes
    <3>4. QED
      BY <1>1, <1>3, <1>8, <1>10, <2>1, <3>3
  <2>2. CASE q # p
    <3>1. NetMoves(q)' = NetMoves(q)
      BY <1>1, <1>8, <1>11, <2>2 DEF NetMoves
    <3>2. QED
      BY <1>8, <1>10, <2>2, <3>1, BudgetExplainedByMoves DEF FinanceInv
  <2>3. QED
    BY <2>1, <2>2
<1>13. BudgetExplained'
  BY <1>12 DEF BudgetExplained, NetMoves
<1>14. QED
  BY <1>2, <1>6, <1>7, <1>9, <1>13 DEF FinanceInv

(* Closing and archiving touch no money.                                   *)
LEMMA FinishUpdateKeeps ==
  ASSUME FinanceInv, NEW h \in inFlight, FinishUpdate(h)
  PROVE  FinanceInv'
<1>1. /\ status' = [p \in Projects |->
           IF p = h.project \/ ClosesWith(p, h) THEN h.to ELSE status[p]]
      /\ h.to \in {"ACTIVE", "CLOSED", "ARCHIVED"}
      /\ inFlight' = inFlight \ {h}
      /\ UNCHANGED <<ledgerVars, extra, manual, transfer, transferRows>>
  BY DEF FinishUpdate, FinanceInv, HandlersFit, HandlerFits, Finish, transferVars
<1>2. LedgerInv' /\ project' = project
  BY <1>1, LedgerStutter DEF FinanceInv, ledgerVars
<1>3. FinanceShape /\ FinanceShape'
  BY <1>1 DEF FinanceInv, FinanceShape
<1>4. HandlersFit' /\ RowsFollowDecisions'
  BY <1>1 DEF FinanceInv, HandlersFit, HandlerFits, RowsFollowDecisions
<1>5. \A p \in Projects, t \in Transfers : Moved(t, p)' = Moved(t, p)
  BY <1>1 DEF Moved
<1>6. BudgetExplained'
  BY <1>1, <1>2, <1>3, <1>5, TotalsUntouched DEF FinanceInv
<1>7. QED
  BY <1>2, <1>3, <1>4, <1>6 DEF FinanceInv

(* A submitted transfer has booked nothing yet.                            *)
LEMMA FinishSubmitKeeps ==
  ASSUME FinanceInv, NEW h \in inFlight, FinishSubmit(h)
  PROVE  FinanceInv'
<1> DEFINE row == PendingTransfer(h.request)
<1>1. PICK t \in Transfers :
        /\ transfer[t] = NoRow /\ transfer' = [transfer EXCEPT ![t] = row]
        /\ inFlight' = inFlight \ {h}
        /\ UNCHANGED <<ledgerVars, status, extra, manual, transferRows>>
  BY DEF FinishSubmit, FirstFree, Finish, projectVars
<1>2. h.request \in TransferRequest
  BY FinanceAssumption DEF FinishSubmit, FinanceInv, HandlersFit, HandlerFits
<1>3. row \in TransferRow /\ row # NoRow /\ row.status = "PENDING_GM_APPROVAL"
  <2>1. row \in TransferRow /\ row.status = "PENDING_GM_APPROVAL"
    BY <1>2 DEF PendingTransfer, TransferRow, TransferStatuses, TransferRequest
  <2>2. QED
    BY <2>1, FinanceAssumption
<1> HIDE DEF row
<1>4. LedgerInv' /\ project' = project
  BY <1>1, LedgerStutter DEF FinanceInv, ledgerVars
<1>5. FinanceShape /\ FinanceShape'
  BY <1>1, <1>3 DEF FinanceInv, FinanceShape
<1>6. \A u \in Transfers : transfer'[u] = IF u = t THEN row ELSE transfer[u]
  BY <1>1, <1>5 DEF FinanceShape
<1>7. HandlersFit'
  BY <1>1, <1>3, <1>6 DEF FinanceInv, HandlersFit, HandlerFits
<1>8. transferRows[t] = 0
  BY <1>1, <1>5 DEF FinanceInv, RowsFollowDecisions, FinanceShape
<1>9. RowsFollowDecisions'
  BY <1>1, <1>3, <1>6, <1>8 DEF FinanceInv, RowsFollowDecisions
<1>10. ASSUME NEW p \in Projects, NEW u \in Transfers
       PROVE  \/ Moved(u, p)' = Moved(u, p)
              \/ transferRows[u] = 0 /\ manual[p].rows[u] = 0
  <2>1. CASE u = t
    BY <1>5, <1>8, <2>1 DEF FinanceInv, RowsFollowDecisions, FinanceShape
  <2>2. CASE u # t
    BY <1>6, <2>2 DEF Moved
  <2>3. QED
    BY <2>1, <2>2
<1>11. BudgetExplained'
  BY <1>1, <1>4, <1>5, <1>10, TotalsUntouched DEF FinanceInv
<1>12. QED
  BY <1>4, <1>5, <1>7, <1>9, <1>11 DEF FinanceInv

(* A late rejection overwrites the status and nothing else.                *)
LEMMA FinishDecideKeeps ==
  ASSUME FinanceInv, NEW h \in inFlight, FinishDecide(h)
  PROVE  FinanceInv'
<1> DEFINE t == h.transfer
           row == [transfer[t] EXCEPT !.status = h.verdict]
<1>1. /\ t \in Transfers /\ transfer[t] # NoRow
      /\ h.verdict \in {"REJECTED", "CANCELLED"}
      /\ transfer' = [transfer EXCEPT ![t] = row]
      /\ inFlight' = inFlight \ {h}
      /\ UNCHANGED <<ledgerVars, status, extra, manual, transferRows>>
  BY DEF FinishDecide, FinanceInv, HandlersFit, HandlerFits, Finish, projectVars
<1>2. FinanceShape /\ transfer[t] \in TransferRow
  BY <1>1 DEF FinanceInv, FinanceShape
<1>3. /\ row \in TransferRow /\ row.status \in {"REJECTED", "CANCELLED"}
      /\ row.src = transfer[t].src /\ row.tgt = transfer[t].tgt
      /\ row.amount = transfer[t].amount
  BY <1>1, <1>2 DEF TransferRow, TransferStatuses
<1>4. row # NoRow
  BY <1>3, FinanceAssumption
<1> HIDE DEF row, t
<1>5. LedgerInv' /\ project' = project
  BY <1>1, LedgerStutter DEF FinanceInv, ledgerVars
<1>6. FinanceShape'
  BY <1>1, <1>2, <1>3 DEF FinanceShape
<1>7. \A u \in Transfers : transfer'[u] = IF u = t THEN row ELSE transfer[u]
  BY <1>1, <1>2 DEF FinanceShape
<1>8. HandlersFit'
  BY <1>1, <1>4, <1>7 DEF FinanceInv, HandlersFit, HandlerFits
<1>9. RowsFollowDecisions'
  BY <1>1, <1>3, <1>4, <1>7 DEF FinanceInv, RowsFollowDecisions
<1>10. \A p \in Projects, u \in Transfers : Moved(u, p)' = Moved(u, p)
  BY <1>1, <1>3, <1>4, <1>7 DEF Moved
<1>11. BudgetExplained'
  BY <1>1, <1>2, <1>5, <1>6, <1>10, TotalsUntouched DEF FinanceInv
<1>12. QED
  BY <1>5, <1>6, <1>8, <1>9, <1>11 DEF FinanceInv
-----------------------------------------------------------------------------
(* approveByGm moves money; orders spend it.                               *)

(* Moving a line moves the total with it.                                  *)
LEMMA MovedTotals ==
  ASSUME NEW q \in Money, NEW cat \in Categories, NEW d \in Int
  PROVE  SyncOverbudgetFlag(MoveBudget(q, cat, d)).total = q.total + d
<1> DEFINE s == MoveBudget(q, cat, d)
<1>1. s.total = q.total + d
  BY DEF MoveBudget, Money
<1>2. s = [s EXCEPT !.isOverbudget = s.isOverbudget]
  BY DEF MoveBudget, Money
<1> HIDE DEF s
<1>3. SyncOverbudgetFlag(s).total = s.total
  BY <1>2 DEF SyncOverbudgetFlag
<1>4. QED
  BY <1>1, <1>3 DEF s

(* An approval books the only pair of rows its transfer will ever have,    *)
(* and moves both totals by what the pair says.                            *)
LEMMA ApproveByGmKeeps ==
  ASSUME FinanceInv, NEW t \in Transfers, ApproveByGm(t)
  PROVE  FinanceInv'
<1> DEFINE src == transfer[t].src
           tgt == transfer[t].tgt
           amount == transfer[t].amount
           out == TransferOut(project[src], transfer[t].srcCat, amount)
           in == TransferIn(project[tgt], transfer[t].tgtCat, amount)
           row == [transfer[t] EXCEPT !.status = "APPROVED"]
<1>1. /\ transfer[t] # NoRow /\ transfer[t].status = "PENDING_GM_APPROVAL"
      /\ TransferBudget(src, tgt, transfer[t].srcCat, transfer[t].tgtCat, amount)
      /\ transferRows' = [transferRows EXCEPT ![t] = transferRows[t] + 1]
      /\ transfer' = [transfer EXCEPT ![t] = row]
      /\ UNCHANGED <<status, extra, manual, inFlight>>
  BY DEF ApproveByGm, IsPending, projectVars
<1>2. /\ FinanceShape /\ transfer[t] \in TransferRow
      /\ project \in [Projects -> Money]
  BY <1>1 DEF FinanceInv, FinanceShape, LedgerInv, TypeOK
<1>3. /\ src \in Projects /\ tgt \in Projects /\ amount \in Nat \ {0}
      /\ transfer[t].srcCat \in Categories /\ transfer[t].tgtCat \in Categories
  BY <1>2 DEF TransferRow
<1>4. LedgerInv'
  BY <1>1, <1>3, TransferBudgetKeeps DEF FinanceInv
<1>5. /\ row \in TransferRow /\ row.status = "APPROVED"
      /\ row.src = src /\ row.tgt = tgt /\ row.amount = amount
  BY <1>2 DEF TransferRow, TransferStatuses
<1>6. row # NoRow
  BY <1>5, FinanceAssumption
<1>7. src # tgt /\ project' = [project EXCEPT ![src] = out, ![tgt] = in]
  BY <1>1 DEF TransferBudget
<1>8. out.total = project[src].total - amount
  <2>1. project[src] \in Money /\ -amount \in Int /\ project[src].total \in Nat
    BY <1>2, <1>3 DEF Money
  <2>2. out.total = project[src].total + (-amount)
    BY <1>3, <2>1, MovedTotals DEF TransferOut
  <2>3. QED
    BY <1>3, <2>1, <2>2
<1>9. in.total = project[tgt].total + amount
  <2>1. project[tgt] \in Money /\ amount \in Int
    BY <1>2, <1>3
  <2>2. QED
    BY <1>3, <2>1, MovedTotals DEF TransferIn
<1> HIDE DEF src, tgt, amount, out, in, row
<1>10. FinanceShape'
  BY <1>1, <1>2, <1>5 DEF FinanceShape
<1>11. \A u \in Transfers :
         /\ transfer'[u] = IF u = t THEN row ELSE transfer[u]
         /\ transferRows'[u] = IF u = t THEN transferRows[t] + 1 ELSE transferRows[u]
  BY <1>1, <1>2 DEF FinanceShape
<1>12. transferRows[t] = 0 /\ \A p \in Projects : manual[p].rows[t] = 0
  BY <1>1, <1>2 DEF FinanceInv, RowsFollowDecisions, FinanceShape
<1>13. HandlersFit'
  BY <1>1, <1>6, <1>11 DEF FinanceInv, HandlersFit, HandlerFits
<1>14. RowsFollowDecisions'
  BY <1>1, <1>2, <1>5, <1>6, <1>11, <1>12
  DEF FinanceInv, RowsFollowDecisions, FinanceShape
<1>15. ASSUME NEW p \in Projects, NEW u \in Transfers
       PROVE  Moved(u, p)' = Moved(u, p)
  BY <1>1, <1>5, <1>6, <1>11 DEF Moved, src, tgt, amount
<1>16. ASSUME NEW p \in Projects
       PROVE  project'[p].total = project[p].total + Moved(t, p)
  <2>1. project[p].total \in Nat
    BY <1>2 DEF Money
  <2>2. CASE p = src
    <3>1. Moved(t, p) = -amount
      BY <1>1, <2>2 DEF Moved, src, amount
    <3>2. project'[p] = out
      BY <1>2, <1>3, <1>7, <2>2
    <3>3. QED
      BY <1>3, <1>8, <2>1, <2>2, <3>1, <3>2
  <2>3. CASE p = tgt /\ p # src
    <3>1. Moved(t, p) = amount
      BY <1>1, <2>3 DEF Moved, src, tgt, amount
    <3>2. project'[p] = in
      BY <1>2, <1>3, <1>7, <2>3
    <3>3. QED
      BY <1>9, <2>3, <3>1, <3>2
  <2>4. CASE p # tgt /\ p # src
    <3>1. Moved(t, p) = 0
      BY <2>4 DEF Moved, src, tgt
    <3>2. project'[p] = project[p]
      BY <1>2, <1>3, <1>7, <2>4
    <3>3. QED
      BY <2>1, <3>1, <3>2
  <2>5. QED
    BY <2>2, <2>3, <2>4
<1>17. ASSUME NEW p \in Projects
       PROVE  project'[p].total = manual'[p].amount + Total(NetMoves(p)', NumTransfers)
  <2>1. /\ NetMoves(p) \in [1..NumTransfers -> Int] /\ Moved(t, p) \in Int
        /\ NumTransfers \in Nat /\ t \in 1..NumTransfers
    BY <1>2, NetMovesType, FinanceAssumption DEF Transfers
  <2>2. NetMoves(p)' \in [1..NumTransfers -> Int]
    <3>1. \A u \in Transfers :
            transferRows'[u] - manual'[p].rows[u] \in Int /\ Moved(u, p)' \in Int
      BY <1>2, <1>10, <1>15, NetMovesType DEF FinanceShape
    <3>2. \A u \in Transfers :
            (transferRows'[u] - manual'[p].rows[u]) * Moved(u, p)' \in Int
      BY <3>1
    <3>3. QED
      BY <3>2 DEF NetMoves, Transfers
  <2>3. NetMoves(p)[t] = 0 /\ NetMoves(p)'[t] = Moved(t, p)
    <3>1. transferRows'[t] - manual'[p].rows[t] = 1
      BY <1>1, <1>11, <1>12
    <3>2. transferRows[t] - manual[p].rows[t] = 0
      BY <1>12
    <3>3. NetMoves(p)[t] = 0 * Moved(t, p) /\ NetMoves(p)'[t] = 1 * Moved(t, p)'
      BY <3>1, <3>2 DEF NetMoves
    <3>4. QED
      BY <1>15, <2>1, <3>3
  <2>4. \A u \in 1..NumTransfers : u # t => NetMoves(p)'[u] = NetMoves(p)[u]
    BY <1>1, <1>11, <1>15 DEF NetMoves, Transfers
  <2>5. Total(NetMoves(p)', NumTransfers) =
        Total(NetMoves(p), NumTransfers) + Moved(t, p)
    <3>1. NetMoves(p)'[t] = NetMoves(p)[t] + Moved(t, p)
      BY <2>1, <2>3
    <3>2. QED
      BY <2>1, <2>2, <2>4, <3>1, TotalUpdate
  <2>6. Total(NetMoves(p), NumTransfers) \in Int /\ manual[p].amount \in Nat
    BY <1>2, <2>1, TotalType DEF FinanceShape
  <2>7. project[p].total = manual[p].amount + Total(NetMoves(p), NumTransfers)
    BY BudgetExplainedByMoves DEF FinanceInv
  <2>8. QED
    BY <1>1, <1>16, <2>1, <2>5, <2>6, <2>7
<1>18. BudgetExplained'
  BY <1>17 DEF BudgetExplained, NetMoves
<1>19. QED
  BY <1>4, <1>10, <1>13, <1>14, <1>18 DEF FinanceInv

(* Spending touches no total.                                              *)
LEMMA SpendTotals ==
  ASSUME FinanceInv, Spend
  PROVE  \A q \in Projects : project'[q].total = project[q].total
<1>1. PICK o \in Orders, p \in Projects, a \in Amounts : DeductForOrder(o, p, a)
  BY DEF Spend, ApproveOrder
<1>2. a \in Nat /\ project \in [Projects -> Money]
  BY LedgerAssumption DEF FinanceInv, LedgerInv, TypeOK
<1>3. CASE UNCHANGED ledgerVars
  BY <1>3 DEF ledgerVars
<1>4. CASE project' = [project EXCEPT ![p] = Charge(project[p], "MATERIAL", a)]
  <2>1. Charge(project[p], "MATERIAL", a).total = project[p].total
    BY <1>2, ChargeFacts DEF Categories
  <2>2. QED
    BY <1>2, <1>4, <2>1
<1>5. QED
  BY <1>1, <1>3, <1>4 DEF DeductForOrder

(* Orders that spend keep the accounts of the projects.                    *)
LEMMA SpendKeeps ==
  ASSUME FinanceInv, Spend
  PROVE  FinanceInv'
<1>1. LedgerInv'
  <2>1. PICK o \in Orders, p \in Projects, a \in Amounts : DeductForOrder(o, p, a)
    BY DEF Spend, ApproveOrder
  <2>2. a \in Nat \ {0}
    BY LedgerAssumption
  <2>3. QED
    BY <2>1, <2>2, DeductForOrderKeeps DEF FinanceInv
<1>2. UNCHANGED <<status, extra, manual, transfer, transferRows, inFlight>>
  BY DEF Spend, projectVars, transferVars
<1>3. FinanceShape /\ FinanceShape'
  BY <1>2 DEF FinanceInv, FinanceShape
<1>4. \A q \in Projects, t \in Transfers : Moved(t, q)' = Moved(t, q)
  BY <1>2 DEF Moved
<1>5. BudgetExplained'
  BY <1>2, <1>3, <1>4, SpendTotals, TotalsUntouched DEF FinanceInv
<1>6. HandlersFit' /\ RowsFollowDecisions'
  BY <1>2 DEF FinanceInv, HandlersFit, HandlerFits, RowsFollowDecisions
<1>7. QED
  BY <1>1, <1>3, <1>5, <1>6 DEF FinanceInv

-----------------------------------------------------------------------------
(* The invariant of FinanceSpec.                                           *)

(* Every project is created with a budget its level allows.                *)
LEMMA FinanceInitInv ==
  FinanceInit => FinanceInv
<1> SUFFICES ASSUME FinanceInit PROVE FinanceInv
  OBVIOUS
<1>1. PICK b \in [Projects -> UNION {Openings[p] : p \in Projects}] :
        /\ \A p \in Projects : b[p] \in Openings[p]
        /\ project = [p \in Projects |-> NewProject(b[p])]
        /\ EmptyLedger
        /\ status = [p \in Projects |-> "ACTIVE"]
        /\ extra = [p \in Projects |-> Extra(b[p])]
        /\ transfer = [t \in Transfers |-> NoRow]
        /\ transferRows = [t \in Transfers |-> 0]
        /\ manual = [p \in Projects |->
             [amount |-> b[p].total, rows |-> [t \in Transfers |-> 0]]]
        /\ inFlight = {}
  BY DEF FinanceInit, EmptyLedger
<1>2. \A p \in Projects : b[p] \in Budget /\ OpeningFitsLevel(b[p], Level[p])
  BY <1>1, FinanceAssumption
<1>3. \A p \in Projects :
        /\ IsBudget(b[p])
        /\ b[p].perizinan \in Lines /\ b[p].lainLain \in Lines
  BY <1>2 DEF Budget, OpeningFitsLevel, BothLinesFit, IsBudget
<1>4. LedgerInv
  <2>1. project = [p \in Projects |-> project[p]]
    BY <1>1
  <2>2. \A p \in Projects : \E c : IsBudget(c) /\ project[p] = NewProject(c)
    BY <1>1, <1>3
  <2>3. QED
    BY <1>1, <2>1, <2>2, FreshLedgerInv
<1>5. FinanceShape
  <2>1. \A p \in Projects :
          /\ Extra(b[p]) \in [perizinan : Lines, lainLain : Lines]
          /\ b[p].total \in Nat
    BY <1>3 DEF Extra, IsBudget
  <2>2. QED
    BY <1>1, <2>1 DEF FinanceShape
<1>6. HandlersFit /\ RowsFollowDecisions
  BY <1>1 DEF HandlersFit, RowsFollowDecisions
<1>7. ASSUME NEW p \in Projects
      PROVE  project[p].total = manual[p].amount + Total(NetMoves(p), NumTransfers)
  <2>1. \A t \in Transfers : (transferRows[t] - manual[p].rows[t]) * Moved(t, p) = 0
    BY <1>1, <1>5, NetMovesType
  <2>2. NetMoves(p) = [t \in 1..NumTransfers |-> 0]
    BY <2>1 DEF NetMoves, Transfers
  <2>3. Total(NetMoves(p), NumTransfers) = 0
    BY <2>2, FinanceAssumption, TotalOfZeroes
  <2>4. /\ project[p].total = b[p].total /\ manual[p].amount = b[p].total
        /\ b[p].total \in Nat
    BY <1>1, <1>3 DEF NewProject, IsBudget
  <2>5. QED
    BY <2>3, <2>4
<1>8. BudgetExplained
  BY <1>7, BudgetExplainedByMoves
<1>9. QED
  BY <1>4, <1>5, <1>6, <1>8 DEF FinanceInv

(* Every action keeps the invariant.                                       *)
LEMMA FinanceNextInv ==
  FinanceInv /\ [FinanceNext]_financeVars => FinanceInv'
<1> SUFFICES ASSUME FinanceInv, [FinanceNext]_financeVars PROVE FinanceInv'
  OBVIOUS
<1>1. CASE \/ \E p \in Projects, dto \in BudgetRequests : StartUpdateBudget(p, dto)
           \/ \E p \in Projects, to \in {"ACTIVE", "CLOSED", "ARCHIVED"} :
                StartUpdate(p, to)
           \/ \E r \in TransferRequests : StartSubmit(r)
           \/ \E t \in Transfers, v \in {"REJECTED", "CANCELLED"} : StartDecide(t, v)
  BY <1>1, ChecksKeep
<1>2. CASE \E t \in Transfers : ApproveByGm(t)
  BY <1>2, ApproveByGmKeeps
<1>3. CASE \E h \in inFlight : FinishUpdateBudget(h)
  BY <1>3, FinishUpdateBudgetKeeps
<1>4. CASE \E h \in inFlight : FinishUpdate(h)
  BY <1>4, FinishUpdateKeeps
<1>5. CASE \E h \in inFlight : FinishSubmit(h)
  BY <1>5, FinishSubmitKeeps
<1>6. CASE \E h \in inFlight : FinishDecide(h)
  BY <1>6, FinishDecideKeeps
<1>7. CASE \E h \in inFlight : Abandon(h)
  <2>1. UNCHANGED <<ledgerVars, projectVars, transferVars>>
    BY <1>7 DEF Abandon
  <2>2. \A h \in inFlight' : HandlerFits(h)
    BY <1>7 DEF Abandon, Finish, FinanceInv, HandlersFit
  <2>3. QED
    BY <2>1, <2>2, RowsUntouched
<1>8. CASE Spend
  BY <1>8, SpendKeeps
<1>9. CASE UNCHANGED financeVars
  <2>1. UNCHANGED <<ledgerVars, projectVars, transferVars, inFlight>>
    BY <1>9 DEF financeVars
  <2>2. \A h \in inFlight' : HandlerFits(h)
    BY <2>1 DEF FinanceInv, HandlersFit
  <2>3. QED
    BY <2>1, <2>2, RowsUntouched
<1>10. QED
  BY <1>1, <1>2, <1>3, <1>4, <1>5, <1>6, <1>7, <1>8, <1>9 DEF FinanceNext
-----------------------------------------------------------------------------
(* What follows from it.                                                   *)

(* The inductive invariant holds in every reachable state.                 *)
THEOREM FinanceInvariant == FinanceSpec => []FinanceInv
<1>1. QED
  BY FinanceInitInv, FinanceNextInv, PTL DEF FinanceSpec

(* The tables hold rows of their shape.                                    *)
THEOREM FinanceKeepsItsType == FinanceSpec => []FinanceTypeOK
<1>1. FinanceInv => FinanceTypeOK
  BY DEF FinanceInv, LedgerInv, FinanceShape, FinanceTypeOK
<1>2. QED
  BY <1>1, FinanceInvariant, PTL

(* Every total is its last manual entry plus the transfers since, for any  *)
(* number of projects, transfers and racing handlers.                      *)
THEOREM BudgetsAreExplained == FinanceSpec => []BudgetExplained
<1>1. FinanceInv => BudgetExplained
  BY DEF FinanceInv
<1>2. QED
  BY <1>1, FinanceInvariant, PTL

(* While projects are closed, archived, given new budgets and drained by   *)
(* transfers, spending stays what the rows add up to, the flag stays right *)
(* and two explicit lines fit in the total.                                *)
THEOREM ProjectsKeepTheirLedger ==
  FinanceSpec => [](SpentMatchesLedger /\ OverbudgetInSync /\ LinesWithinTotal)
<1>1. FinanceInv => SpentMatchesLedger /\ OverbudgetInSync /\ LinesWithinTotal
  BY DEF FinanceInv, LedgerInv
<1>2. QED
  BY <1>1, FinanceInvariant, PTL

(* An archived project's total changes only when an updateBudget that      *)
(* looked at it before finishes.                                           *)
LEMMA ArchivedStep ==
  ASSUME FinanceInv, FinanceNext, NEW p \in Projects, status[p] = "ARCHIVED",
         project'[p].total # project[p].total
  PROVE  \E h \in inFlight \ inFlight' : h.op = "updateBudget" /\ h.project = p
<1>1. project \in [Projects -> Money] /\ FinanceShape
  BY DEF FinanceInv, LedgerInv, TypeOK
<1>2. ~UNCHANGED ledgerVars
  BY DEF ledgerVars
<1>3. CASE \E h \in inFlight : FinishUpdateBudget(h)
  <2>1. PICK h \in inFlight : FinishUpdateBudget(h)
    BY <1>3
  <2>2. h.op = "updateBudget" /\ h \in inFlight \ inFlight'
    BY <2>1 DEF FinishUpdateBudget, Finish
  <2>3. h.project = p
    BY <1>1, <2>1 DEF FinishUpdateBudget, UpdateBudget
  <2>4. QED
    BY <2>2, <2>3
<1>4. CASE \E t \in Transfers : ApproveByGm(t)
  <2>1. PICK t \in Transfers : ApproveByGm(t)
    BY <1>4
  <2>2. transfer[t].src # p /\ transfer[t].tgt # p
    BY <2>1 DEF ApproveByGm, OpenForTransfer
  <2>3. project'[p] = project[p]
    BY <1>1, <2>1, <2>2 DEF ApproveByGm, TransferBudget
  <2>4. QED
    BY <2>3
<1>5. CASE Spend
  BY <1>5, SpendTotals
<1>6. ASSUME NEW q \in Projects, NEW dto \in BudgetRequests, StartUpdateBudget(q, dto)
      PROVE  FALSE
  BY <1>2, <1>6 DEF StartUpdateBudget
<1>7. ASSUME NEW q \in Projects, NEW to, StartUpdate(q, to)
      PROVE  FALSE
  BY <1>2, <1>7 DEF StartUpdate
<1>8. ASSUME NEW r \in TransferRequests, StartSubmit(r)
      PROVE  FALSE
  BY <1>2, <1>8 DEF StartSubmit
<1>9. ASSUME NEW t \in Transfers, NEW v, StartDecide(t, v)
      PROVE  FALSE
  BY <1>2, <1>9 DEF StartDecide
<1>10. ASSUME NEW h \in inFlight,
              FinishUpdate(h) \/ FinishSubmit(h) \/ FinishDecide(h) \/ Abandon(h)
       PROVE  FALSE
  BY <1>2, <1>10 DEF FinishUpdate, FinishSubmit, FinishDecide, Abandon
<1>11. QED
  BY <1>3, <1>4, <1>5, <1>6, <1>7, <1>8, <1>9, <1>10 DEF FinanceNext

(* No transfer approval touches a project once it is archived, however the *)
(* archiving raced the submission.                                         *)
THEOREM ArchivedBudgetsAreKept == FinanceSpec => ArchivedBudgetKept
<1>1. FinanceInv /\ [FinanceNext]_financeVars =>
        [\A p \in Projects :
           status[p] = "ARCHIVED" /\ project'[p].total # project[p].total =>
             \E h \in inFlight \ inFlight' : h.op = "updateBudget" /\ h.project = p
        ]_financeVars
  BY ArchivedStep
<1>2. QED
  BY <1>1, FinanceInvariant, PTL DEF FinanceSpec, ArchivedBudgetKept

-----------------------------------------------------------------------------
(* Transfers implement Approval.                                           *)

(* How far a transfer is, of one row and its count of ledger rows.         *)
LEMMA OutcomeOf ==
  ASSUME NEW t \in Transfers
  PROVE  TransferOutcome[t] =
           IF transfer[t] = NoRow THEN "none"
           ELSE IF transferRows[t] > 0 THEN "granted"
           ELSE IF transfer[t].status = "PENDING_GM_APPROVAL" THEN "open"
           ELSE "withdrawn"
  BY DEF TransferOutcome

(* A step that leaves transfers alone changes no outcome.                  *)
LEMMA OutcomesUntouched ==
  ASSUME UNCHANGED transferVars
  PROVE  UNCHANGED <<TransferOutcome, transferRows>>
  BY DEF transferVars, TransferOutcome

(* A submitted transfer is opened.                                         *)
LEMMA SubmitOpens ==
  ASSUME FinanceInv, NEW h \in inFlight, FinishSubmit(h)
  PROVE  TransferApproval!ApprovalNext
<1> DEFINE row == PendingTransfer(h.request)
<1>1. PICK t \in Transfers :
        /\ transfer[t] = NoRow /\ transfer' = [transfer EXCEPT ![t] = row]
        /\ transferRows' = transferRows
  BY DEF FinishSubmit, FirstFree
<1>2. row # NoRow /\ row.status = "PENDING_GM_APPROVAL"
  <2>1. h.request \in TransferRequest
    BY FinanceAssumption DEF FinishSubmit, FinanceInv, HandlersFit, HandlerFits
  <2>2. row \in TransferRow /\ row.status = "PENDING_GM_APPROVAL"
    BY <2>1 DEF PendingTransfer, TransferRow, TransferStatuses, TransferRequest
  <2>3. QED
    BY <2>2, FinanceAssumption
<1> HIDE DEF row
<1>3. FinanceShape /\ transferRows[t] = 0
  BY <1>1 DEF FinanceInv, RowsFollowDecisions, FinanceShape
<1>4. TransferOutcome' = [TransferOutcome EXCEPT ![t] = "open"]
  <2>1. ~(transferRows'[t] > 0) /\ ~(transferRows[t] > 0)
    BY <1>1, <1>3
  <2>2. transfer'[t] = row /\ \A u \in Transfers : u # t => transfer'[u] = transfer[u]
    BY <1>1, <1>3 DEF FinanceShape
  <2>3. QED
    BY <1>1, <1>2, <2>1, <2>2 DEF TransferOutcome
<1>5. TransferOutcome[t] = "none"
  BY <1>1, OutcomeOf
<1>6. TransferApproval!Open(t)
  BY <1>1, <1>4, <1>5 DEF TransferApproval!Open
<1>7. QED
  BY <1>6 DEF TransferApproval!ApprovalNext

(* An approval grants, and books its rows in the same step.                *)
LEMMA ApproveGrants ==
  ASSUME FinanceInv, NEW t \in Transfers, ApproveByGm(t)
  PROVE  TransferApproval!ApprovalNext
<1> DEFINE row == [transfer[t] EXCEPT !.status = "APPROVED"]
<1>1. /\ transfer[t] # NoRow /\ transfer[t].status = "PENDING_GM_APPROVAL"
      /\ transfer' = [transfer EXCEPT ![t] = row]
      /\ transferRows' = [transferRows EXCEPT ![t] = @ + 1]
  BY DEF ApproveByGm, IsPending
<1>2. FinanceShape /\ transferRows[t] = 0 /\ transfer[t] \in TransferRow
  BY <1>1 DEF FinanceInv, RowsFollowDecisions, FinanceShape
<1>3. row # NoRow
  <2>1. row \in TransferRow
    BY <1>2 DEF TransferRow, TransferStatuses
  <2>2. QED
    BY <2>1, FinanceAssumption
<1> HIDE DEF row
<1>4. TransferOutcome' = [TransferOutcome EXCEPT ![t] = "granted"]
  <2>1. transferRows'[t] > 0
    BY <1>1, <1>2 DEF FinanceShape
  <2>2. QED
    BY <1>1, <1>2, <1>3, <2>1 DEF TransferOutcome, FinanceShape
<1>5. TransferOutcome[t] = "open"
  BY <1>1, <1>2, OutcomeOf
<1>6. TransferApproval!Grant(t)
  BY <1>1, <1>4, <1>5 DEF TransferApproval!Grant
<1>7. QED
  BY <1>6 DEF TransferApproval!ApprovalNext

(* A rejection or cancellation withdraws an open transfer.  Written over a *)
(* transfer whose money moved meanwhile it changes no outcome.             *)
LEMMA DecideWithdraws ==
  ASSUME FinanceInv, NEW h \in inFlight, FinishDecide(h)
  PROVE  \/ TransferApproval!ApprovalNext
         \/ UNCHANGED <<TransferOutcome, transferRows>>
<1> DEFINE t == h.transfer
           row == [transfer[t] EXCEPT !.status = h.verdict]
<1>1. /\ t \in Transfers /\ transfer[t] # NoRow
      /\ h.verdict \in {"REJECTED", "CANCELLED"}
      /\ transfer' = [transfer EXCEPT ![t] = row]
      /\ transferRows' = transferRows
  BY DEF FinishDecide, FinanceInv, HandlersFit, HandlerFits
<1>2. FinanceShape /\ transfer[t] \in TransferRow
  BY <1>1 DEF FinanceInv, FinanceShape
<1>3. row # NoRow /\ row.status \in {"REJECTED", "CANCELLED"}
  <2>1. row \in TransferRow /\ row.status \in {"REJECTED", "CANCELLED"}
    BY <1>1, <1>2 DEF TransferRow, TransferStatuses
  <2>2. QED
    BY <2>1, FinanceAssumption
<1> HIDE DEF row, t
<1>4. TransferOutcome' = [TransferOutcome EXCEPT ![t] =
        IF transferRows[t] > 0 THEN "granted" ELSE "withdrawn"]
  BY <1>1, <1>2, <1>3 DEF TransferOutcome, FinanceShape
<1>5. TransferOutcome \in [Transfers -> {"none", "open", "granted", "withdrawn"}]
  BY DEF TransferOutcome
<1>6. CASE transferRows[t] > 0
  <2>1. TransferOutcome[t] = "granted"
    BY <1>1, <1>6, OutcomeOf
  <2>2. TransferOutcome' = TransferOutcome
    BY <1>4, <1>5, <1>6, <2>1
  <2>3. QED
    BY <1>1, <2>2
<1>7. CASE ~(transferRows[t] > 0) /\ transfer[t].status = "PENDING_GM_APPROVAL"
  <2>1. TransferOutcome[t] = "open"
    BY <1>1, <1>7, OutcomeOf
  <2>2. TransferApproval!Withdraw(t)
    BY <1>1, <1>4, <1>7, <2>1 DEF TransferApproval!Withdraw
  <2>3. QED
    BY <1>1, <2>2 DEF TransferApproval!ApprovalNext
<1>8. CASE ~(transferRows[t] > 0) /\ transfer[t].status # "PENDING_GM_APPROVAL"
  <2>1. TransferOutcome[t] = "withdrawn"
    BY <1>1, <1>8, OutcomeOf
  <2>2. TransferOutcome' = TransferOutcome
    BY <1>4, <1>5, <1>8, <2>1
  <2>3. QED
    BY <1>1, <2>2
<1>9. QED
  BY <1>6, <1>7, <1>8

(* Every step of the projects and their transfers is a step of Approval,   *)
(* or leaves every outcome alone.                                          *)
LEMMA ApprovalStep ==
  FinanceInv /\ [FinanceNext]_financeVars =>
    [TransferApproval!ApprovalNext]_<<TransferOutcome, transferRows>>
<1> SUFFICES ASSUME FinanceInv, [FinanceNext]_financeVars
             PROVE  \/ TransferApproval!ApprovalNext
                    \/ UNCHANGED <<TransferOutcome, transferRows>>
  OBVIOUS
<1>1. CASE \E h \in inFlight : FinishSubmit(h)
  BY <1>1, SubmitOpens
<1>2. CASE \E t \in Transfers : ApproveByGm(t)
  BY <1>2, ApproveGrants
<1>3. CASE \E h \in inFlight : FinishDecide(h)
  BY <1>3, DecideWithdraws
<1>4. ASSUME NEW p \in Projects, NEW dto \in BudgetRequests, StartUpdateBudget(p, dto)
      PROVE  UNCHANGED transferVars
  BY <1>4 DEF StartUpdateBudget
<1>5. ASSUME NEW p \in Projects, NEW to, StartUpdate(p, to)
      PROVE  UNCHANGED transferVars
  BY <1>5 DEF StartUpdate
<1>6. ASSUME NEW r \in TransferRequests, StartSubmit(r)
      PROVE  UNCHANGED transferVars
  BY <1>6 DEF StartSubmit
<1>7. ASSUME NEW t \in Transfers, NEW v, StartDecide(t, v)
      PROVE  UNCHANGED transferVars
  BY <1>7 DEF StartDecide
<1>8. ASSUME NEW h \in inFlight,
             FinishUpdateBudget(h) \/ FinishUpdate(h) \/ Abandon(h)
      PROVE  UNCHANGED transferVars
  BY <1>8 DEF FinishUpdateBudget, FinishUpdate, Abandon
<1>9. CASE Spend
  BY <1>9, OutcomesUntouched DEF Spend
<1>10. CASE UNCHANGED financeVars
  BY <1>10, OutcomesUntouched DEF financeVars
<1>11. QED
  BY <1>1, <1>2, <1>3, <1>4, <1>5, <1>6, <1>7, <1>8, <1>9, <1>10, OutcomesUntouched
  DEF FinanceNext

(* Budget transfers implement Approval: each is opened once and ends once, *)
(* its money moves exactly when it is granted and never twice, through     *)
(* every race of approvals, rejections and cancellations.                  *)
THEOREM TransfersImplementApproval == FinanceSpec => TransfersAreApprovals
<1>1. FinanceInit => TransferApproval!ApprovalInit
  <2> SUFFICES ASSUME FinanceInit PROVE TransferApproval!ApprovalInit
    OBVIOUS
  <2>1. /\ transfer = [t \in Transfers |-> NoRow]
        /\ transferRows = [t \in Transfers |-> 0]
    BY DEF FinanceInit
  <2>2. TransferOutcome = [t \in Transfers |-> "none"]
    BY <2>1 DEF TransferOutcome
  <2>3. QED
    BY <2>1, <2>2 DEF TransferApproval!ApprovalInit
<1>2. QED
  BY <1>1, ApprovalStep, FinanceInvariant, PTL
  DEF FinanceSpec, TransfersAreApprovals, TransferApproval!ApprovalSpec,
      TransferApproval!approvalVars
=============================================================================
