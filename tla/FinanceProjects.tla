--------------------------- MODULE FinanceProjects ---------------------------
(***************************************************************************)
(* FinanceProjectService and BudgetTransferService: the life of a finance  *)
(* project (active, closed, archived) and the changes of its budget, by    *)
(* hand and by transfers between projects.                                 *)
(*                                                                         *)
(* approveByGm reads and writes in one serializable transaction and is one *)
(* action.  All the other handlers read the rows, decide, and write later  *)
(* by id: they are split into Start, which puts what they are about to     *)
(* write into inFlight, and Finish.  Between the two anything may happen.  *)
(***************************************************************************)
EXTENDS BudgetLedger, FiniteSets

CONSTANTS
  Level,           \* SEGMENT, SITE or STANDALONE, per project
  Parent,          \* the segment a site belongs to, NoRow for the others
  General,         \* the default project(s): never closed, never adjusted
  Openings,        \* the budgets each project may be created with
  BudgetRequests,  \* bodies of updateBudget
  Keep,            \* a column such a body leaves out
  NumTransfers,    \* bound: transfers ever submitted
  TransferRequests,\* bodies of submit
  MaxInFlight      \* bound: handlers between their check and their write

Transfers == 1..NumTransfers

Budget == [total : Int, material : Lines, jasa : Lines,
           perizinan : Lines, lainLain : Lines]

(* UpdateBudgetDto: no negative amounts; a line may be cleared or left out. *)
SentLines == Nat \cup {Null, Keep}

BudgetRequest == [total : Nat, material : SentLines, jasa : SentLines,
                  perizinan : SentLines, lainLain : SentLines]

TransferRequest == [src : Projects, tgt : Projects, srcCat : Categories,
                    tgtCat : Categories, amount : Nat \ {0}]

TransferStatuses == {"PENDING_GM_APPROVAL", "APPROVED", "REJECTED", "CANCELLED"}

TransferRow ==
  [ status : TransferStatuses, src : Projects, tgt : Projects,
    srcCat : Categories, tgtCat : Categories, amount : Nat \ {0} ]

BothLinesFit(b) ==
  b.material # Null /\ b.jasa # Null => b.material + b.jasa <= b.total

(* The budgets FinanceProjectService.create derives from its input: a      *)
(* segment holds lain-lain only, a site the sum of its three lines.        *)
OpeningFitsLevel(b, level) ==
  /\ b.total >= 0
  /\ BothLinesFit(b)
  /\ level = "SEGMENT" =>
       /\ b.material = Null /\ b.jasa = Null /\ b.perizinan = Null
       /\ b.lainLain = b.total
  /\ level = "SITE" =>
       /\ b.material # Null /\ b.jasa # Null /\ b.perizinan # Null
       /\ b.total = b.perizinan + b.material + b.jasa
       /\ b.lainLain = 0

ASSUME FinanceAssumption ==
  /\ Level \in [Projects -> {"SEGMENT", "SITE", "STANDALONE"}]
  /\ \A p \in Projects :
       Level[p] = "SITE" => Parent[p] \in Projects /\ Level[Parent[p]] = "SEGMENT"
  /\ General \subseteq Projects
  /\ \A p \in Projects : \A b \in Openings[p] :
       b \in Budget /\ OpeningFitsLevel(b, Level[p])
  /\ BudgetRequests \subseteq BudgetRequest
  /\ TransferRequests \subseteq {r \in TransferRequest : r.src # r.tgt}
  /\ NumTransfers \in Nat /\ MaxInFlight \in Nat
  /\ NoRow \notin TransferRow

VARIABLES
  status,        \* FinanceProject.status
  extra,         \* budgetPerizinan and budgetLainLain of each project
  transfer,      \* the BudgetTransfer rows
  transferRows,  \* how many TRANSFER_OUT / TRANSFER_IN pairs each has
  manual,        \* the last BUDGET_INIT or BUDGET_ADJUSTMENT row of a project:
                 \* its amount, and the transfer rows older than it
  inFlight       \* handlers that passed their checks and have not written yet

projectVars == <<status, extra, manual>>
transferVars == <<transfer, transferRows>>
financeVars == <<ledgerVars, projectVars, transferVars, inFlight>>

Extra(b) == [perizinan |-> b.perizinan, lainLain |-> b.lainLain]

FinanceInit ==
  \E b \in [Projects -> UNION {Openings[p] : p \in Projects}] :
    /\ \A p \in Projects : b[p] \in Openings[p]
    /\ project = [p \in Projects |-> NewProject(b[p])]
    /\ deductMaterial = [o \in Orders |-> NoRow]
    /\ refundMaterial = [o \in Orders |-> NoRow]
    /\ deductJasa = [c \in CashOps |-> NoRow]
    /\ refundJasa = [c \in CashOps |-> [t \in Tags |-> NoRow]]
    /\ status = [p \in Projects |-> "ACTIVE"]
    /\ extra = [p \in Projects |-> Extra(b[p])]
    /\ transfer = [t \in Transfers |-> NoRow]
    /\ transferRows = [t \in Transfers |-> 0]
    /\ manual = [p \in Projects |->
         [amount |-> b[p].total, rows |-> [t \in Transfers |-> 0]]]
    /\ inFlight = {}

Start(h) ==
  /\ Cardinality(inFlight) < MaxInFlight
  /\ inFlight' = inFlight \cup {h}

Finish(h) == inFlight' = inFlight \ {h}

-----------------------------------------------------------------------------
(* Changing a budget by hand.                                              *)

Sent(value, kept) == IF value = Keep THEN kept ELSE value

OrZero(line) == IF line = Null THEN 0 ELSE line

(* The columns updateBudget will write, from the row it read.  A segment   *)
(* has one line, lain-lain; the total of a site is the sum of its lines.   *)
NewBudget(p, dto) ==
  LET material == Sent(dto.material, project[p].material)
      jasa == Sent(dto.jasa, project[p].jasa)
      perizinan == Sent(dto.perizinan, extra[p].perizinan)
      lainLain == IF dto.lainLain \in {Keep, Null} THEN dto.total ELSE dto.lainLain
  IN CASE Level[p] = "SEGMENT" ->
            [ total |-> lainLain, material |-> Null, jasa |-> Null,
              perizinan |-> Null, lainLain |-> lainLain ]
       [] Level[p] = "SITE" ->
            [ total |-> OrZero(perizinan) + OrZero(material) + OrZero(jasa),
              material |-> material, jasa |-> jasa,
              perizinan |-> perizinan, lainLain |-> 0 ]
       [] OTHER ->
            [ total |-> dto.total, material |-> material, jasa |-> jasa,
              perizinan |-> perizinan,
              lainLain |-> Sent(dto.lainLain, extra[p].lainLain) ]

SpentSum(p) == project[p].materialSpent + project[p].jasaSpent

(* assertProjectMutable, then the checks of updateBudget.  Only a site may *)
(* send a total below its spending: its total is computed, then checked.   *)
StartUpdateBudget(p, dto) ==
  LET b == NewBudget(p, dto) IN
  /\ status[p] = "ACTIVE" /\ p \notin General
  /\ Level[p] # "SITE" => dto.total >= SpentSum(p)
  /\ Level[p] = "SITE" => b.total >= SpentSum(p)
  /\ BothLinesFit(b)
  /\ Start([op |-> "updateBudget", project |-> p, budget |-> b])
  /\ UNCHANGED <<ledgerVars, projectVars, transferVars>>

FinishUpdateBudget(h) ==
  LET p == h.project IN
  /\ h.op = "updateBudget"
  /\ UpdateBudget(p, h.budget)
  /\ extra' = [extra EXCEPT ![p] = Extra(h.budget)]
  /\ manual' = [manual EXCEPT ![p] =
       [amount |-> h.budget.total, rows |-> transferRows]]
  /\ Finish(h)
  /\ UNCHANGED <<status, transferVars>>

-----------------------------------------------------------------------------
(* Closing, archiving, unarchiving.                                        *)

Involves(t, p) == transfer[t] # NoRow /\ p \in {transfer[t].src, transfer[t].tgt}

PendingFor(p) ==
  {t \in Transfers : Involves(t, p) /\ transfer[t].status = "PENDING_GM_APPROVAL"}

StatusTransitions ==
  { <<"ACTIVE", "ACTIVE">>, <<"CLOSED", "CLOSED">>, <<"ACTIVE", "CLOSED">>,
    <<"CLOSED", "ARCHIVED">>, <<"ARCHIVED", "ACTIVE">> }

StartUpdate(p, to) ==
  /\ <<status[p], to>> \in StatusTransitions
  /\ p \in General => to = "ACTIVE"
  /\ to = "ARCHIVED" => PendingFor(p) = {}
  /\ Start([op |-> "update", project |-> p, to |-> to])
  /\ UNCHANGED <<ledgerVars, projectVars, transferVars>>

(* Closing a segment closes its active sites in the same transaction.      *)
ClosesWith(p, h) ==
  /\ h.to = "CLOSED" /\ Level[h.project] = "SEGMENT"
  /\ Level[p] = "SITE" /\ Parent[p] = h.project /\ status[p] = "ACTIVE"

FinishUpdate(h) ==
  /\ h.op = "update"
  /\ status' = [p \in Projects |->
       IF p = h.project \/ ClosesWith(p, h) THEN h.to ELSE status[p]]
  /\ Finish(h)
  /\ UNCHANGED <<ledgerVars, extra, manual, transferVars>>

-----------------------------------------------------------------------------
(* Transfers.                                                              *)

(* submit looks at the money but reserves none of it.                      *)
StartSubmit(r) ==
  /\ status[r.src] # "ARCHIVED" /\ status[r.tgt] # "ARCHIVED"
  /\ Remaining(project[r.src], r.srcCat) >= r.amount
  /\ Start([op |-> "submit", request |-> r])
  /\ UNCHANGED <<ledgerVars, projectVars, transferVars>>

FirstFree(t, rows) == rows[t] = NoRow /\ \A u \in 1..(t - 1) : rows[u] # NoRow

PendingTransfer(r) ==
  [ status |-> "PENDING_GM_APPROVAL", src |-> r.src, tgt |-> r.tgt,
    srcCat |-> r.srcCat, tgtCat |-> r.tgtCat, amount |-> r.amount ]

FinishSubmit(h) ==
  /\ h.op = "submit"
  /\ \E t \in Transfers :
       /\ FirstFree(t, transfer)
       /\ transfer' = [transfer EXCEPT ![t] = PendingTransfer(h.request)]
  /\ Finish(h)
  /\ UNCHANGED <<ledgerVars, projectVars, transferRows>>

(* Mutant: the status is the one read before the transaction, so a second  *)
(* approval that was waiting for the locks moves the money again.          *)
IsPendingOrMoved(t) ==
  transfer[t] # NoRow /\ transfer[t].status \in {"PENDING_GM_APPROVAL", "APPROVED"}

IsPending(t) == transfer[t] # NoRow /\ transfer[t].status = "PENDING_GM_APPROVAL"

(* Mutant: the project was looked at when the transfer was submitted.      *)
OpenWhenSubmitted(p) == p \in Projects

OpenForTransfer(p) == status[p] # "ARCHIVED"

(* approveByGm: the money moves, both ledger rows and the decision are     *)
(* written in one serializable transaction.                                *)
ApproveByGm(t) ==
  /\ IsPending(t)
  /\ OpenForTransfer(transfer[t].src) /\ OpenForTransfer(transfer[t].tgt)
  /\ project[transfer[t].tgt].total + transfer[t].amount <= MaxTotal
  /\ TransferBudget(transfer[t].src, transfer[t].tgt, transfer[t].srcCat,
                    transfer[t].tgtCat, transfer[t].amount)
  /\ transferRows' = [transferRows EXCEPT ![t] = @ + 1]
  /\ transfer' = [transfer EXCEPT ![t].status = "APPROVED"]
  /\ UNCHANGED <<projectVars, inFlight>>

(* rejectByGm and cancelBySubmitter differ in who may call them.           *)
StartDecide(t, verdict) ==
  /\ transfer[t] # NoRow /\ transfer[t].status = "PENDING_GM_APPROVAL"
  /\ Start([op |-> "decide", transfer |-> t, verdict |-> verdict])
  /\ UNCHANGED <<ledgerVars, projectVars, transferVars>>

FinishDecide(h) ==
  /\ h.op = "decide"
  /\ transfer' = [transfer EXCEPT ![h.transfer].status = h.verdict]
  /\ Finish(h)
  /\ UNCHANGED <<ledgerVars, projectVars, transferRows>>

-----------------------------------------------------------------------------
(* A request dies between its check and its write: an error, a restart.    *)
Abandon(h) ==
  /\ Finish(h)
  /\ UNCHANGED <<ledgerVars, projectVars, transferVars>>

(* Orders go on spending from the projects meanwhile.                      *)
Spend ==
  /\ ApproveOrder
  /\ UNCHANGED <<projectVars, transferVars, inFlight>>

FinanceNext ==
  \/ \E p \in Projects, dto \in BudgetRequests : StartUpdateBudget(p, dto)
  \/ \E p \in Projects, to \in {"ACTIVE", "CLOSED", "ARCHIVED"} : StartUpdate(p, to)
  \/ \E r \in TransferRequests : StartSubmit(r)
  \/ \E t \in Transfers : ApproveByGm(t)
  \/ \E t \in Transfers, v \in {"REJECTED", "CANCELLED"} : StartDecide(t, v)
  \/ \E h \in inFlight : FinishUpdateBudget(h)
  \/ \E h \in inFlight : FinishUpdate(h)
  \/ \E h \in inFlight : FinishSubmit(h)
  \/ \E h \in inFlight : FinishDecide(h)
  \/ \E h \in inFlight : Abandon(h)
  \/ Spend

FinanceSpec == FinanceInit /\ [][FinanceNext]_financeVars

-----------------------------------------------------------------------------
(* Every variable holds rows of its table's shape.                         *)
FinanceTypeOK ==
  /\ TypeOK
  /\ status \in [Projects -> {"ACTIVE", "CLOSED", "ARCHIVED"}]
  /\ extra \in [Projects -> [perizinan : Lines, lainLain : Lines]]
  /\ transfer \in [Transfers -> TransferRow \cup {NoRow}]
  /\ transferRows \in [Transfers -> Nat]
  /\ manual \in [Projects -> [amount : Nat, rows : [Transfers -> Nat]]]

(* What one pair of rows of transfer t did to the total of project p.      *)
Moved(t, p) ==
  IF transfer[t] = NoRow THEN 0
  ELSE IF transfer[t].src = p THEN -transfer[t].amount
  ELSE IF transfer[t].tgt = p THEN transfer[t].amount ELSE 0

(* The ledger explains every total: a project's budget is the amount of    *)
(* its last manual entry plus the transfer rows booked after that entry,   *)
(* although updateBudget writes columns it read before its transaction.    *)
BudgetExplained ==
  \A p \in Projects :
    project[p].total = manual[p].amount
      + Total([t \in Transfers |-> (transferRows[t] - manual[p].rows[t]) * Moved(t, p)],
              NumTransfers)

(* An archived project's budget is touched by nothing but an updateBudget  *)
(* that looked at it while it was still active: approveByGm looks again    *)
(* inside its transaction, however the archiving raced its submission.     *)
ArchivedBudgetKept ==
  [][\A p \in Projects :
       status[p] = "ARCHIVED" /\ project'[p].total # project[p].total =>
         \E h \in inFlight \ inFlight' : h.op = "updateBudget" /\ h.project = p
    ]_financeVars

(* A transfer as an approval: granted when its money moved, even if a      *)
(* rejection that checked earlier overwrote its status afterwards.         *)
TransferOutcome ==
  [t \in Transfers |->
    IF transfer[t] = NoRow THEN "none"
    ELSE IF transferRows[t] > 0 THEN "granted"
    ELSE IF transfer[t].status = "PENDING_GM_APPROVAL" THEN "open"
    ELSE "withdrawn"]

TransferApproval == INSTANCE Approval
  WITH Requests <- Transfers, outcome <- TransferOutcome, effects <- transferRows

(* Transfers keep the promise of Approval through every race of approval,  *)
(* rejection and cancellation: money moves at most once, and never after a *)
(* rejection or a cancellation was written.                                *)
TransfersAreApprovals == TransferApproval!ApprovalSpec
=============================================================================
