---------------------------- MODULE BudgetLedger ----------------------------
(***************************************************************************)
(* BudgetLedgerService: every rupiah an order or a cash operation takes    *)
(* from a finance project is a ledger row, and the project row carries the *)
(* running totals materialSpent and jasaSpent.                             *)
(*                                                                         *)
(* Each action is one database transaction, committed: the callers run     *)
(* these methods inside runSerializableTransaction (LedgerTransactions     *)
(* shows that its lock, snapshot and retries implement this atomicity).    *)
(*                                                                         *)
(* Two partial unique indexes allow one DEDUCT_MATERIAL, REFUND_MATERIAL   *)
(* and DEDUCT_JASA row per source and one REFUND_JASA row per source and   *)
(* tag, so the rows are functions of those keys.  Ids are numbers.  Rows   *)
(* of the types BUDGET_INIT, BUDGET_ADJUSTMENT and TRANSFER_* are the      *)
(* subject of BudgetTransfer.                                              *)
(***************************************************************************)
EXTENDS LedgerAccounting

CONSTANTS
  Projects,       \* ids of the finance projects
  FtttProjects,   \* those of projectType FTTT
  NumOrders,      \* orders are 1..NumOrders
  NumCashOps,     \* cash operations are 1..NumCashOps
  Advances,       \* the cash operations of type CASH_ADVANCE
  Amounts,        \* amounts an order, a cash operation or a transfer may have
  Budgets,        \* budgets a project may be created with or changed to; a line
                  \* kept by a change may be one that transfers drove below 0
  MaxTotal,       \* bound: no transfer lifts a total above it
  NoRow           \* no ledger row for this key

Orders == 1..NumOrders
CashOps == 1..NumCashOps

Row == [project : Projects, amount : Nat \ {0}]

ASSUME LedgerAssumption ==
  /\ FtttProjects \subseteq Projects
  /\ NumOrders \in Nat /\ NumCashOps \in Nat
  /\ Advances \subseteq 1..NumCashOps
  /\ Amounts \subseteq Nat \ {0}
  /\ MaxTotal \in Nat
  /\ Budgets \subseteq [total : Nat, material : Lines, jasa : Lines]
  /\ \A b \in Budgets :
       b.material # Null /\ b.jasa # Null => b.material + b.jasa <= b.total
  /\ NoRow \notin [project : Projects, amount : Nat \ {0}]

VARIABLES
  project,          \* the FinanceProject rows
  deductMaterial,   \* the DEDUCT_MATERIAL row of each order
  refundMaterial,   \* the REFUND_MATERIAL row of each order
  deductJasa,       \* the DEDUCT_JASA row of each cash operation
  refundJasa        \* its REFUND_JASA rows, by metadata.partialRefundType

ledgerRows == <<deductMaterial, refundMaterial, deductJasa, refundJasa>>
ledgerVars == <<project, ledgerRows>>

(* metadata.partialRefundType of a REFUND_JASA row; FULL when untagged.    *)
PartialTags == {"REALISASI_VARIANCE", "REIMBURSEMENT_VARIANCE"}
Tags == PartialTags \cup {"FULL"}

(* An advance is settled by its realisasi, a reimbursement when its final  *)
(* approver pays less than was asked: a cash operation meets one tag only. *)
VarianceTag(c) ==
  IF c \in Advances THEN "REALISASI_VARIANCE" ELSE "REIMBURSEMENT_VARIANCE"

-----------------------------------------------------------------------------
(* A project as FinanceProjectService.create leaves it.                    *)
NewProject(b) ==
  [ total |-> b.total, material |-> b.material, jasa |-> b.jasa,
    materialSpent |-> 0, jasaSpent |-> 0, isOverbudget |-> FALSE ]

LedgerInit ==
  /\ project \in [Projects -> {NewProject(b) : b \in Budgets}]
  /\ deductMaterial = [o \in Orders |-> NoRow]
  /\ refundMaterial = [o \in Orders |-> NoRow]
  /\ deductJasa = [c \in CashOps |-> NoRow]
  /\ refundJasa = [c \in CashOps |-> [t \in Tags |-> NoRow]]

-----------------------------------------------------------------------------
(* The service's methods.  They return without effect when their row is    *)
(* already there: callers may repeat them.                                 *)

DeductForOrder(o, p, amount) ==
  IF deductMaterial[o] # NoRow
  THEN UNCHANGED ledgerVars
  ELSE /\ deductMaterial' =
            [deductMaterial EXCEPT ![o] = [project |-> p, amount |-> amount]]
       /\ project' =
            [project EXCEPT ![p] = Charge(@, "MATERIAL", amount)]
       /\ UNCHANGED <<refundMaterial, deductJasa, refundJasa>>

RefundForOrder(o) ==
  IF deductMaterial[o] = NoRow \/ refundMaterial[o] # NoRow
  THEN UNCHANGED ledgerVars
  ELSE LET deduct == deductMaterial[o] IN
       /\ refundMaterial' = [refundMaterial EXCEPT ![o] = deduct]
       /\ project' = [project EXCEPT
            ![deduct.project] = GiveBack(@, "MATERIAL", deduct.amount)]
       /\ UNCHANGED <<deductMaterial, deductJasa, refundJasa>>

(* FTTT cash operations are Overhead: they take no row and spend no jasa.  *)
DeductForCashOp(c, p, amount) ==
  IF deductJasa[c] # NoRow \/ p \in FtttProjects
  THEN UNCHANGED ledgerVars
  ELSE /\ deductJasa' =
            [deductJasa EXCEPT ![c] = [project |-> p, amount |-> amount]]
       /\ project' = [project EXCEPT ![p] = Charge(@, "JASA", amount)]
       /\ UNCHANGED <<deductMaterial, refundMaterial, refundJasa>>

PostJasaRefund(c, tag, amount) ==
  LET p == deductJasa[c].project IN
  /\ refundJasa' =
       [refundJasa EXCEPT ![c][tag] = [project |-> p, amount |-> amount]]
  /\ project' = [project EXCEPT ![p] = GiveBack(@, "JASA", amount)]
  /\ UNCHANGED <<deductMaterial, refundMaterial, deductJasa>>

(* Mutant: a second full refund is posted over the first.                  *)
RefundForCashOpAgain(c) ==
  IF deductJasa[c] = NoRow THEN UNCHANGED ledgerVars
  ELSE PostJasaRefund(c, "FULL", deductJasa[c].amount)

RefundForCashOp(c) ==
  IF deductJasa[c] = NoRow \/ refundJasa[c]["FULL"] # NoRow
  THEN UNCHANGED ledgerVars
  ELSE PostJasaRefund(c, "FULL", deductJasa[c].amount)

(* Throws NotFound, rolling the caller's transaction back, when there is   *)
(* no deduction; a throw is no step.                                       *)
PartialRefundForCashOp(c, tag, amount) ==
  /\ amount > 0
  /\ deductJasa[c] # NoRow
  /\ IF refundJasa[c][tag] # NoRow
     THEN UNCHANGED ledgerVars
     ELSE PostJasaRefund(c, tag, amount)

-----------------------------------------------------------------------------
(* The transactions that call them.  Nothing the ledger does keeps a cash  *)
(* operation from both a full and a partial refund, or from a refund above *)
(* its deduction: the comments leave that to the callers.  Of these, none  *)
(* uses refundForCashOp today.                                             *)

ApproveOrder == \E o \in Orders, p \in Projects, a \in Amounts :
  DeductForOrder(o, p, a)

CancelOrder == \E o \in Orders : RefundForOrder(o)

ApproveCashOp == \E c \in CashOps, p \in Projects, a \in Amounts :
  DeductForCashOp(c, p, a)

ReverseCashOp == \E c \in CashOps : RefundForCashOp(c)

SettleCashOp == \E c \in CashOps, a \in Amounts :
  PartialRefundForCashOp(c, VarianceTag(c), a)

(* FinanceProjectService.updateBudget of a STANDALONE project.  Its check  *)
(* of the new total reads the project before the transaction, so here any  *)
(* total may be written.                                                   *)
UpdateBudget(p, b) ==
  /\ project' = [project EXCEPT ![p] = SyncOverbudgetFlag(
       [@ EXCEPT !.total = b.total, !.material = b.material, !.jasa = b.jasa])]
  /\ UNCHANGED ledgerRows

ChangeBudget == \E p \in Projects, b \in Budgets : UpdateBudget(p, b)

(* What BudgetTransferService.approveByGm does to the two project rows.    *)
TransferBudget(src, tgt, srcCat, tgtCat, amount) ==
  /\ src # tgt
  /\ CanTransferOut(project[src], srcCat, amount)
  /\ CanTransferIn(project[tgt], tgtCat, amount)
  /\ project' = [project EXCEPT ![src] = TransferOut(@, srcCat, amount),
                                ![tgt] = TransferIn(@, tgtCat, amount)]
  /\ UNCHANGED ledgerRows

ApproveTransfer ==
  \E src, tgt \in Projects, srcCat, tgtCat \in Categories, a \in Amounts :
    /\ project[tgt].total + a <= MaxTotal
    /\ TransferBudget(src, tgt, srcCat, tgtCat, a)

LedgerNext ==
  \/ ApproveOrder
  \/ CancelOrder
  \/ ApproveCashOp
  \/ ReverseCashOp
  \/ SettleCashOp
  \/ ChangeBudget
  \/ ApproveTransfer

(* The ledger as its callers may rely on it: each call happens at once or  *)
(* not at all.  LedgerTransactions shows that the database calls of        *)
(* BudgetLedgerService keep this promise under concurrency and retries.    *)
LedgerSpec == LedgerInit /\ [][LedgerNext]_ledgerVars

-----------------------------------------------------------------------------
(* What is outstanding: deducted and not given back, in a given project.   *)

In(row, p) == row # NoRow /\ row.project = p

AmountIn(row, p) == IF In(row, p) THEN row.amount ELSE 0

OutstandingMaterial(o, p) ==
  AmountIn(deductMaterial[o], p) - AmountIn(refundMaterial[o], p)

OutstandingJasa(c, p) ==
  AmountIn(deductJasa[c], p) - AmountIn(refundJasa[c]["FULL"], p)
    - AmountIn(refundJasa[c]["REALISASI_VARIANCE"], p)
    - AmountIn(refundJasa[c]["REIMBURSEMENT_VARIANCE"], p)

-----------------------------------------------------------------------------
(* Every variable holds rows of its table's shape.                         *)
TypeOK ==
  /\ project \in [Projects -> Money]
  /\ deductMaterial \in [Orders -> Row \cup {NoRow}]
  /\ refundMaterial \in [Orders -> Row \cup {NoRow}]
  /\ deductJasa \in [CashOps -> Row \cup {NoRow}]
  /\ refundJasa \in [CashOps -> [Tags -> Row \cup {NoRow}]]

(* The running totals on the project row are what the ledger rows add up   *)
(* to, in both categories: no interleaving of deductions, refunds, budget  *)
(* changes and transfers loses or repeats an amount.  A cash operation may *)
(* be given back more than it was charged; jasaSpent, clamped at 0, is     *)
(* then at least the sum of the rows, and the sum itself whenever no cash  *)
(* operation of the project is in that state.                              *)
SpentMatchesLedger ==
  \A p \in Projects :
    LET material == [o \in Orders |-> OutstandingMaterial(o, p)]
        jasa == [c \in CashOps |-> OutstandingJasa(c, p)]
    IN
    /\ project[p].materialSpent = Total(material, NumOrders)
    /\ project[p].jasaSpent >= Total(jasa, NumCashOps)
    /\ (\A c \in CashOps : jasa[c] >= 0) =>
         project[p].jasaSpent = Total(jasa, NumCashOps)

(* isOverbudget is the flag of the current lines and totals: every writer  *)
(* of either recomputes it, including those that lower spending or budget. *)
OverbudgetInSync ==
  \A p \in Projects : project[p].isOverbudget <=> IsOver(project[p])

(* Two explicit lines never exceed the total they were split from, over    *)
(* any sequence of adjustments and of transfers that make lines explicit.  *)
LinesWithinTotal ==
  \A p \in Projects :
    project[p].material # Null /\ project[p].jasa # Null =>
      project[p].material + project[p].jasa <= project[p].total
=============================================================================
