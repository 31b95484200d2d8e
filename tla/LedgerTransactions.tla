------------------------- MODULE LedgerTransactions -------------------------
(***************************************************************************)
(* The database transactions under BudgetLedger: what                      *)
(* runSerializableTransaction, SELECT ... FOR UPDATE on the project row    *)
(* and the retries after a conflict really do, one statement at a time.    *)
(*                                                                         *)
(* A serializable transaction reads a snapshot taken by its first          *)
(* statement.  Locking a row waits for the transaction that holds it, and  *)
(* fails when the row was rewritten since the snapshot.  Rows become       *)
(* visible to others at commit.  PostgreSQL and Prisma are modelled from   *)
(* how the services use them; the database may also abort a serializable   *)
(* transaction for no reason this model tracks.                            *)
(*                                                                         *)
(* The committed tables are the variables of BudgetLedger, whose           *)
(* specification this one implements.                                      *)
(***************************************************************************)
EXTENDS BudgetLedger, Sequences

CONSTANTS
  Requests,      \* service calls, each one transaction
  Batches,       \* bound: requests that may be in flight in one behaviour
  job,           \* what each request does, see Jobs
  LockOrder,     \* the position of a project's id among the sorted ids
  MaxRetries,    \* length of the backoff table, 3 in the code
  NoSnapshot     \* no transaction is open

Jobs ==
       [kind : {"APPROVE_ORDER"}, order : Orders, project : Projects,
        amount : Amounts]
  \cup [kind : {"CANCEL_ORDER"}, order : Orders]
  \cup [kind : {"APPROVE_CASH_OP"}, cashOp : CashOps, project : Projects,
        amount : Amounts]
  \cup [kind : {"SETTLE_CASH_OP"}, cashOp : CashOps, amount : Amounts]
  \cup [kind : {"TRANSFER"}, src : Projects, srcCat : Categories,
        tgt : Projects, tgtCat : Categories, amount : Amounts]
  \cup [kind : {"UPDATE_BUDGET"}, project : Projects, budget : Budgets]

(* An order and a cash operation name one finance project, a transfer two. *)
ASSUME TransactionAssumption ==
  /\ job \in [Requests -> Jobs] /\ Batches \subseteq SUBSET Requests
  /\ LockOrder \in [Projects -> Nat]
  /\ \A p, q \in Projects : LockOrder[p] = LockOrder[q] => p = q
  /\ MaxRetries \in Nat
  /\ \A r, s \in Requests :
       /\ /\ job[r].kind = "APPROVE_ORDER" /\ job[s].kind = "APPROVE_ORDER"
          /\ job[r].order = job[s].order
          => job[r].project = job[s].project
       /\ /\ job[r].kind = "APPROVE_CASH_OP" /\ job[s].kind = "APPROVE_CASH_OP"
          /\ job[r].cashOp = job[s].cashOp
          => job[r].project = job[s].project
  /\ \A r \in Requests : job[r].kind = "TRANSFER" => job[r].src # job[r].tgt

VARIABLES
  state,      \* idle, running, backoff, or how the request ended
  attempt,    \* retries made so far
  snapshot,   \* the committed tables as of the transaction's first statement
  stale,      \* projects rewritten by others since that snapshot
  locks       \* project rows the transaction has locked, in order

txVars == <<state, attempt, snapshot, stale, locks>>
vars == <<ledgerVars, txVars>>

Ended == {"committed", "thrown"}

Tables == [project |-> project,
           deductMaterial |-> deductMaterial, refundMaterial |-> refundMaterial,
           deductJasa |-> deductJasa, refundJasa |-> refundJasa]

IsSerializable(r) == job[r].kind # "UPDATE_BUDGET"

TxInit ==
  /\ LedgerInit
  /\ \E batch \in Batches :
       state = [r \in Requests |-> IF r \in batch THEN "idle" ELSE "thrown"]
  /\ attempt = [r \in Requests |-> 0]
  /\ snapshot = [r \in Requests |-> NoSnapshot]
  /\ stale = [r \in Requests |-> {}]
  /\ locks = [r \in Requests |-> <<>>]

-----------------------------------------------------------------------------
(* What a request locks and writes, given the tables it sees.              *)

(* Mutant: a transfer locks its source first.                              *)
LockListUnsorted(j, db) ==
  CASE j.kind = "TRANSFER" -> <<j.src, j.tgt>>
    [] j.kind = "CANCEL_ORDER" /\ db.deductMaterial[j.order] # NoRow ->
         <<db.deductMaterial[j.order].project>>
    [] j.kind = "SETTLE_CASH_OP" /\ db.deductJasa[j.cashOp] # NoRow ->
         <<db.deductJasa[j.cashOp].project>>
    [] j.kind \in {"APPROVE_ORDER", "APPROVE_CASH_OP", "UPDATE_BUDGET"} ->
         <<j.project>>
    [] OTHER -> <<>>

(* refundForOrder and partialRefundForCashOp find the deduction first and  *)
(* lock the project it names; approveByGm sorts the two ids.               *)
LockList(j, db) ==
  CASE j.kind \in {"APPROVE_ORDER", "APPROVE_CASH_OP", "UPDATE_BUDGET"} ->
         <<j.project>>
    [] j.kind = "CANCEL_ORDER" ->
         IF db.deductMaterial[j.order] = NoRow
         THEN <<>> ELSE <<db.deductMaterial[j.order].project>>
    [] j.kind = "SETTLE_CASH_OP" ->
         IF db.deductJasa[j.cashOp] = NoRow
         THEN <<>> ELSE <<db.deductJasa[j.cashOp].project>>
    [] j.kind = "TRANSFER" ->
         IF LockOrder[j.src] < LockOrder[j.tgt]
         THEN <<j.src, j.tgt>> ELSE <<j.tgt, j.src>>

(* The service throws inside the transaction.                              *)
Refused(j, db) ==
  \/ j.kind = "SETTLE_CASH_OP" /\ db.deductJasa[j.cashOp] = NoRow
  \/ /\ j.kind = "TRANSFER"
     /\ \/ ~CanTransferOut(db.project[j.src], j.srcCat, j.amount)
        \/ ~CanTransferIn(db.project[j.tgt], j.tgtCat, j.amount)

(* Mutant: an order's approval does not look for its row.                  *)
NothingToDoButApprove(j, db) ==
  \/ /\ j.kind = "CANCEL_ORDER"
     /\ db.deductMaterial[j.order] = NoRow \/ db.refundMaterial[j.order] # NoRow
  \/ j.kind = "APPROVE_CASH_OP" /\ db.deductJasa[j.cashOp] # NoRow
  \/ /\ j.kind = "SETTLE_CASH_OP"
     /\ db.refundJasa[j.cashOp][VarianceTag(j.cashOp)] # NoRow

(* The row is already there, or there is nothing to give back.             *)
NothingToDo(j, db) ==
  CASE j.kind = "APPROVE_ORDER" -> db.deductMaterial[j.order] # NoRow
    [] j.kind = "CANCEL_ORDER" ->
         db.deductMaterial[j.order] = NoRow \/ db.refundMaterial[j.order] # NoRow
    [] j.kind = "APPROVE_CASH_OP" ->
         db.deductJasa[j.cashOp] # NoRow \/ j.project \in FtttProjects
    [] j.kind = "SETTLE_CASH_OP" ->
         db.refundJasa[j.cashOp][VarianceTag(j.cashOp)] # NoRow
    [] OTHER -> FALSE

(* The statements of the method, run on the tables the transaction sees.   *)
Written(j, db) ==
  IF NothingToDo(j, db) THEN db ELSE
  CASE j.kind = "APPROVE_ORDER" ->
         [db EXCEPT
           !.deductMaterial[j.order] = [project |-> j.project, amount |-> j.amount],
           !.project[j.project] = Charge(@, "MATERIAL", j.amount)]
    [] j.kind = "CANCEL_ORDER" ->
         LET deduct == db.deductMaterial[j.order] IN
         [db EXCEPT
           !.refundMaterial[j.order] = deduct,
           !.project[deduct.project] = GiveBack(@, "MATERIAL", deduct.amount)]
    [] j.kind = "APPROVE_CASH_OP" ->
         [db EXCEPT
           !.deductJasa[j.cashOp] = [project |-> j.project, amount |-> j.amount],
           !.project[j.project] = Charge(@, "JASA", j.amount)]
    [] j.kind = "SETTLE_CASH_OP" ->
         LET p == db.deductJasa[j.cashOp].project IN
         [db EXCEPT
           !.refundJasa[j.cashOp][VarianceTag(j.cashOp)] =
              [project |-> p, amount |-> j.amount],
           !.project[p] = GiveBack(@, "JASA", j.amount)]
    [] j.kind = "TRANSFER" ->
         [db EXCEPT
           !.project[j.src] = TransferOut(@, j.srcCat, j.amount),
           !.project[j.tgt] = TransferIn(@, j.tgtCat, j.amount)]
    [] j.kind = "UPDATE_BUDGET" ->
         [db EXCEPT !.project[j.project] = SyncOverbudgetFlag([@ EXCEPT
            !.total = j.budget.total, !.material = j.budget.material,
            !.jasa = j.budget.jasa])]

(* The project rows the transaction rewrites: those it locked, unless it   *)
(* returned early.                                                         *)
RowsWritten(r, db) ==
  IF NothingToDo(job[r], db) THEN {}
  ELSE {locks[r][i] : i \in DOMAIN locks[r]}

-----------------------------------------------------------------------------
(* A transaction's life.                                                   *)

Running(r) == state[r] = "running"

(* First attempt, or the next one after the backoff.                       *)
Begin(r) ==
  /\ state[r] \in {"idle", "backoff"}
  /\ state' = [state EXCEPT ![r] = "running"]
  /\ snapshot' = [snapshot EXCEPT ![r] = Tables]
  /\ UNCHANGED <<ledgerVars, attempt, stale, locks>>

(* What the transaction sees: its snapshot, or, under READ COMMITTED, the  *)
(* tables as they are now.                                                 *)
Seen(r) == IF IsSerializable(r) THEN snapshot[r] ELSE Tables

HasAllLocks(r) == Len(locks[r]) = Len(LockList(job[r], Seen(r)))

NextLock(r) == LockList(job[r], Seen(r))[Len(locks[r]) + 1]

(* Mutant: SELECT without FOR UPDATE waits for nobody.                     *)
AlwaysFree(p) == p \in Projects

Free(p) ==
  \A s \in Requests : \A i \in DOMAIN locks[s] : locks[s][i] # p

(* Mutant: no conflict is ever reported, as for a transaction whose        *)
(* isolation level was left at the default.                                *)
NoConflict(r) == FALSE

Conflict(r) == IsSerializable(r) /\ NextLock(r) \in stale[r]

(* lockProjectRow, or the UPDATE itself in updateBudget; not enabled while *)
(* another transaction holds the row.                                      *)
LockRow(r) ==
  /\ Running(r) /\ ~HasAllLocks(r)
  /\ Free(NextLock(r)) /\ ~Conflict(r)
  /\ locks' = [locks EXCEPT ![r] = Append(@, NextLock(r))]
  /\ UNCHANGED <<ledgerVars, state, attempt, snapshot, stale>>

Rollback(r, next) ==
  /\ state' = [state EXCEPT ![r] = next]
  /\ locks' = [locks EXCEPT ![r] = <<>>]
  /\ snapshot' = [snapshot EXCEPT ![r] = NoSnapshot]
  /\ stale' = [stale EXCEPT ![r] = {}]
  /\ UNCHANGED ledgerVars

(* P2034 is retried after a backoff until the table of delays is used up.  *)
Retry(r) ==
  /\ attempt[r] < MaxRetries
  /\ attempt' = [attempt EXCEPT ![r] = @ + 1]
  /\ Rollback(r, "backoff")

Throw(r) == Rollback(r, "thrown") /\ UNCHANGED attempt

(* The row was rewritten since the snapshot.  Prisma may report a conflict *)
(* met by $queryRaw under another code than P2034: then it is not retried. *)
FailOnConflict(r) ==
  /\ Running(r) /\ ~HasAllLocks(r)
  /\ Free(NextLock(r)) /\ Conflict(r)
  /\ Retry(r) \/ Throw(r)

(* The database aborts a serializable transaction it cannot order.         *)
SerializationFailure(r) ==
  /\ Running(r) /\ IsSerializable(r)
  /\ Retry(r) \/ (attempt[r] = MaxRetries /\ Throw(r))

(* The method throws, the transaction's 30 s are over, or the process or   *)
(* its connection dies: nothing is kept.                                   *)
Die(r) == Running(r) /\ Throw(r)

Refuse(r) ==
  /\ Running(r) /\ HasAllLocks(r)
  /\ Refused(job[r], Seen(r))
  /\ Throw(r)

Commit(r) ==
  LET db == Seen(r)
      new == Written(job[r], db)
      rows == RowsWritten(r, db)
      Keep(table, before, after) ==
        [k \in DOMAIN table |->
           IF after[k] = before[k] THEN table[k] ELSE after[k]]
  IN
  /\ Running(r) /\ HasAllLocks(r)
  /\ ~Refused(job[r], db)
  /\ project' = [p \in Projects |->
       IF p \in rows THEN new.project[p] ELSE project[p]]
  /\ deductMaterial' = Keep(deductMaterial, db.deductMaterial, new.deductMaterial)
  /\ refundMaterial' = Keep(refundMaterial, db.refundMaterial, new.refundMaterial)
  /\ deductJasa' = Keep(deductJasa, db.deductJasa, new.deductJasa)
  /\ refundJasa' = Keep(refundJasa, db.refundJasa, new.refundJasa)
  /\ state' = [state EXCEPT ![r] = "committed"]
  /\ locks' = [locks EXCEPT ![r] = <<>>]
  /\ snapshot' = [snapshot EXCEPT ![r] = NoSnapshot]
  /\ stale' = [s \in Requests |->
       IF s = r THEN {} ELSE IF Running(s) THEN stale[s] \cup rows ELSE {}]
  /\ UNCHANGED attempt

Step(r) == Begin(r) \/ LockRow(r) \/ FailOnConflict(r) \/ Refuse(r) \/ Commit(r)

TxNext == \E r \in Requests : Step(r) \/ SerializationFailure(r) \/ Die(r)

TxSafety == TxInit /\ [][TxNext]_vars

(* The database and the event loop serve every request.  Aborts and deaths *)
(* may happen, nothing relies on them.                                     *)
TxSpec == TxSafety /\ \A r \in Requests : WF_vars(Step(r))

-----------------------------------------------------------------------------
(* Every variable has its type, and only a running transaction holds rows. *)
TxTypeOK ==
  /\ state \in [Requests -> {"idle", "running", "backoff"} \cup Ended]
  /\ attempt \in [Requests -> 0..MaxRetries]
  /\ stale \in [Requests -> SUBSET Projects]
  /\ \A r \in Requests :
       /\ IF Running(r) THEN snapshot[r].project \in [Projects -> Money]
                        ELSE snapshot[r] = NoSnapshot /\ stale[r] = {}
       /\ locks[r] # <<>> => Running(r)

(* Two transactions never hold the same project row, and what a holder     *)
(* knows of its row is current: no deduction, refund or transfer is        *)
(* computed from a balance that somebody else changed.                     *)
LockedRowIsCurrent ==
  \A r \in Requests : \A i \in DOMAIN locks[r] :
    LET p == locks[r][i] IN
    /\ \A s \in Requests \ {r} : \A k \in DOMAIN locks[s] : locks[s][k] # p
    /\ IsSerializable(r) => snapshot[r].project[p] = project[p]

(* The unique indexes are a second line of defence that is never reached:  *)
(* a row about to be inserted is absent from the committed tables too, so  *)
(* the P2002 branch, whose queries PostgreSQL would refuse in an aborted   *)
(* transaction, is not entered.                                            *)
NoUniqueConflict ==
  \A r \in Requests :
    Running(r) /\ IsSerializable(r) /\ HasAllLocks(r)
      /\ ~Refused(job[r], Seen(r)) /\ ~NothingToDo(job[r], Seen(r))
    => ~NothingToDo(job[r], Tables)

(* Every request ends: no transaction waits forever for a row, two         *)
(* transfers in opposite directions included, and retries run out.         *)
EveryRequestEnds == <>(\A r \in Requests : state[r] \in Ended)
=============================================================================
