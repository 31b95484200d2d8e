-------------------------- MODULE OrderProcurement --------------------------
(***************************************************************************)
(* OrderService and PurchasingService: the life of a goods order from its  *)
(* creation to its delivery, and the two points where it touches the       *)
(* budget: gmApprove charges the finance project, cancel gives back.       *)
(*                                                                         *)
(* Handlers come in two kinds.  submitPrice, gmApprove, cancel,            *)
(* financeProcess and verifyItems read and write in one serializable       *)
(* transaction: one action each (LedgerTransactions shows what that        *)
(* takes).  submit, adminStockSubmit, opsApprove, opsReject, gmReject and  *)
(* the receipt of a surat jalan check the order first and write later,     *)
(* unconditionally, by id: between the two, anything may happen.           *)
(***************************************************************************)
EXTENDS BudgetLedger, FiniteSets

CONSTANTS
  ProjectOf,      \* the project each order names, GENERAL when it names none
  MaxInFlight     \* bound: handlers between their check and their write

ASSUME OrderAssumption ==
  /\ ProjectOf \in [1..NumOrders -> Projects]
  /\ MaxInFlight \in Nat

VARIABLES
  order,       \* the Order rows
  inFlight,    \* handlers that passed their check and have not written yet
  disturbed    \* history: orders written in a status the handler never saw

orderVars == <<order, inFlight, disturbed>>
vars == <<ledgerVars, orderVars>>

Statuses ==
  { "DRAFT", "STOCK_AVAILABLE", "PARTIAL_STOCK", "NO_STOCK",
    "PENDING_ADMIN_STOCK", "PENDING_PURCHASING_INPUT", "PENDING_OPS_APPROVAL",
    "PENDING_GM_APPROVAL", "PENDING_PAYMENT_RECEIPT", "PURCHASED",
    "PENDING_VERIFICATION", "FULFILLED", "CANCELLED" }

Triggers == {"PROJECT_REQUEST", "STOCK_RESTOCK"}

(* arrivals counts the times goods were booked into stock (IN_ORDER logs). *)
OrderRow ==
  [ status : Statuses, trigger : Triggers, amount : Nat,
    verified : BOOLEAN, arrivals : Nat,
    suratJalan : {"NONE", "GENERATED", "CONFIRMED"} ]

NewOrder(status, trigger) ==
  [ status |-> status, trigger |-> trigger, amount |-> 0, verified |-> FALSE,
    arrivals |-> 0, suratJalan |-> "NONE" ]

(* create, createApprovalOrder and createRestock: the first two take the   *)
(* trigger from the request.                                               *)
CreatedOrders ==
  {NewOrder(s, t) : s \in {"DRAFT", "PENDING_ADMIN_STOCK"}, t \in Triggers}
    \cup {NewOrder("PENDING_PURCHASING_INPUT", "STOCK_RESTOCK")}

OrderInit ==
  /\ LedgerInit
  /\ order \in [Orders -> CreatedOrders]
  /\ inFlight = {}
  /\ disturbed = {}

-----------------------------------------------------------------------------
(* Serializable handlers.                                                  *)

(* submitPrice: restock orders skip the operational manager.               *)
SubmitPrice(o, amount) ==
  /\ order[o].status = "PENDING_PURCHASING_INPUT"
  /\ order' = [order EXCEPT
       ![o].amount = amount,
       ![o].status = IF order[o].trigger = "STOCK_RESTOCK"
                     THEN "PENDING_GM_APPROVAL" ELSE "PENDING_OPS_APPROVAL"]
  /\ UNCHANGED <<ledgerVars, inFlight, disturbed>>

(* Mutant: the order is charged when its goods are verified, not here.     *)
GmApproveUncharged(o) ==
  /\ order[o].status = "PENDING_GM_APPROVAL"
  /\ order' = [order EXCEPT ![o].status = "PENDING_PAYMENT_RECEIPT"]
  /\ UNCHANGED <<ledgerVars, inFlight, disturbed>>

(* gmApprove: nothing is charged for an amount of 0, nor a second time.    *)
GmApprove(o) ==
  /\ order[o].status = "PENDING_GM_APPROVAL"
  /\ IF order[o].amount > 0
     THEN DeductForOrder(o, ProjectOf[o], order[o].amount)
     ELSE UNCHANGED ledgerVars
  /\ order' = [order EXCEPT ![o].status = "PENDING_PAYMENT_RECEIPT"]
  /\ UNCHANGED <<inFlight, disturbed>>

Cancellable ==
  { "DRAFT", "STOCK_AVAILABLE", "PARTIAL_STOCK", "NO_STOCK",
    "PENDING_ADMIN_STOCK", "PENDING_PURCHASING_INPUT", "PENDING_OPS_APPROVAL",
    "PENDING_GM_APPROVAL", "PENDING_PAYMENT_RECEIPT" }

(* Mutant: a cancellation never gives back.                                *)
CancelWithoutRefund(o) ==
  /\ order[o].status \in Cancellable
  /\ order' = [order EXCEPT ![o].status = "CANCELLED"]
  /\ UNCHANGED <<ledgerVars, inFlight, disturbed>>

(* cancel: the charge is given back only from PENDING_PAYMENT_RECEIPT.     *)
Cancel(o) ==
  /\ order[o].status \in Cancellable
  /\ IF order[o].status = "PENDING_PAYMENT_RECEIPT"
     THEN RefundForOrder(o)
     ELSE UNCHANGED ledgerVars
  /\ order' = [order EXCEPT ![o].status = "CANCELLED"]
  /\ UNCHANGED <<inFlight, disturbed>>

FinanceProcess(o) ==
  /\ order[o].status = "PENDING_PAYMENT_RECEIPT"
  /\ order' = [order EXCEPT ![o].status = "PURCHASED"]
  /\ UNCHANGED <<ledgerVars, inFlight, disturbed>>

AwaitsGoods(o) == order[o].status \in {"PURCHASED", "PENDING_VERIFICATION"}

(* Mutant: the order's status alone decides whether goods are booked.      *)
VerifyItemsByStatus(o) ==
  /\ AwaitsGoods(o)
  /\ order' = [order EXCEPT ![o].status = "FULFILLED", ![o].verified = TRUE,
                            ![o].arrivals = @ + 1]
  /\ UNCHANGED <<ledgerVars, inFlight, disturbed>>

(* verifyItems SESUAI: goods are booked unless an IN_ORDER log names the   *)
(* order; repeating it on a fulfilled order is accepted.                   *)
VerifyItems(o) ==
  /\ AwaitsGoods(o) \/ (order[o].status = "FULFILLED" /\ order[o].verified)
  /\ order' = [order EXCEPT ![o].status = "FULFILLED", ![o].verified = TRUE,
                            ![o].arrivals = IF @ = 0 THEN 1 ELSE @]
  /\ UNCHANGED <<ledgerVars, inFlight, disturbed>>

(* verifyItems TIDAK_SESUAI.                                               *)
ReportMismatch(o) ==
  /\ AwaitsGoods(o)
  /\ order' = [order EXCEPT ![o].status = "PENDING_VERIFICATION",
                            ![o].verified = FALSE]
  /\ UNCHANGED <<ledgerVars, inFlight, disturbed>>

-----------------------------------------------------------------------------
(* Handlers that check first and write later.                              *)

Handlers ==
  { "submit", "adminStockSubmit", "opsApprove", "opsReject", "gmReject",
    "confirmReceipt", "fulfillFromReceipt" }

(* The check each of them makes on the order it read.                      *)
MayStart(h, o) ==
  LET row == order[o] IN
  CASE h = "submit" -> row.status = "DRAFT"
    [] h = "adminStockSubmit" ->
         /\ row.trigger # "STOCK_RESTOCK"
         /\ row.status \in {"DRAFT", "PENDING_ADMIN_STOCK", "NO_STOCK",
                            "PARTIAL_STOCK"}
    [] h = "opsApprove" ->
         row.trigger # "STOCK_RESTOCK" /\ row.status = "PENDING_OPS_APPROVAL"
    [] h = "opsReject" -> row.status = "PENDING_OPS_APPROVAL"
    [] h = "gmReject" -> row.status = "PENDING_GM_APPROVAL"
    [] h = "confirmReceipt" -> row.suratJalan = "GENERATED"
    [] h = "fulfillFromReceipt" -> FALSE

(* A number tells two calls of one handler apart.                          *)
Start(h, o) ==
  /\ Cardinality(inFlight) < MaxInFlight
  /\ MayStart(h, o)
  /\ \E n \in 1..MaxInFlight :
       /\ \A i \in inFlight : i.number # n
       /\ inFlight' = inFlight \cup
            {[number |-> n, handler |-> h, order |-> o, seen |-> order[o].status]}
  /\ UNCHANGED <<ledgerVars, order, disturbed>>

(* The write of handler i: row is what its order becomes.                  *)
WriteAmid(i, row, others) ==
  /\ order' = [order EXCEPT ![i.order] = row]
  /\ inFlight' = others
  /\ disturbed' = IF order[i.order].status = i.seen
                  THEN disturbed ELSE disturbed \cup {i.order}
  /\ UNCHANGED ledgerVars

Write(i, row) == WriteAmid(i, row, inFlight \ {i})

(* submit: what the stock allowed decides the status; goods on hand leave  *)
(* with a surat jalan.  A receipt under way keeps confirming the one the   *)
(* order named before.                                                     *)
Submit(i) ==
  /\ i.handler = "submit"
  /\ \/ Write(i, [order[i.order] EXCEPT !.status = "NO_STOCK"])
     \/ \E s \in {"STOCK_AVAILABLE", "PARTIAL_STOCK"} :
          WriteAmid(i,
            [order[i.order] EXCEPT !.status = s, !.suratJalan = "GENERATED"],
            {IF k.order = i.order /\ k.handler = "confirmReceipt"
             THEN [k EXCEPT !.handler = "fulfillFromReceipt"] ELSE k :
               k \in inFlight \ {i}})

AdminStockSubmit(i) ==
  /\ i.handler = "adminStockSubmit"
  /\ \E a \in Amounts \cup {0} :
       Write(i, [order[i.order] EXCEPT
         !.status = "PENDING_PURCHASING_INPUT", !.amount = a])

OpsApprove(i) ==
  /\ i.handler = "opsApprove"
  /\ Write(i, [order[i.order] EXCEPT !.status = "PENDING_GM_APPROVAL"])

(* A rejected order starts its chain again; no code writes the statuses    *)
(* REJECTED_BY_OPS and REJECTED_BY_GM of the schema.                       *)
RevisionStatus(o) ==
  IF order[o].trigger = "STOCK_RESTOCK"
  THEN "PENDING_PURCHASING_INPUT" ELSE "PENDING_ADMIN_STOCK"

OpsReject(i) ==
  /\ i.handler = "opsReject"
  /\ Write(i, [order[i.order] EXCEPT !.status = RevisionStatus(i.order)])

GmReject(i) ==
  /\ i.handler = "gmReject"
  /\ Write(i, [order[i.order] EXCEPT !.status = RevisionStatus(i.order)])

(* confirmReceipt writes the surat jalan, then the order it finds, in two  *)
(* statements: the order is fulfilled whatever its status.                 *)
ConfirmReceipt(i) ==
  /\ i.handler = "confirmReceipt"
  /\ order' = [order EXCEPT ![i.order].suratJalan = "CONFIRMED"]
  /\ inFlight' = (inFlight \ {i}) \cup {[i EXCEPT !.handler = "fulfillFromReceipt"]}
  /\ UNCHANGED <<ledgerVars, disturbed>>

FulfillFromReceipt(i) ==
  /\ i.handler = "fulfillFromReceipt"
  /\ order' = [order EXCEPT ![i.order].status = "FULFILLED"]
  /\ inFlight' = inFlight \ {i}
  /\ disturbed' =
       IF order[i.order].status \in {"STOCK_AVAILABLE", "PARTIAL_STOCK"}
       THEN disturbed ELSE disturbed \cup {i.order}
  /\ UNCHANGED ledgerVars

(* The process stops before the write; nobody resumes the handler.         *)
Abandon(i) ==
  /\ inFlight' = inFlight \ {i}
  /\ UNCHANGED <<ledgerVars, order, disturbed>>

-----------------------------------------------------------------------------
(* All but the GM's approval, after which papers are drawn up.             *)
OrderStep ==
  \/ \E o \in Orders :
       \/ \E a \in Amounts \cup {0} : SubmitPrice(o, a)
       \/ Cancel(o)
       \/ FinanceProcess(o)
       \/ VerifyItems(o)
       \/ ReportMismatch(o)
       \/ \E h \in Handlers : Start(h, o)
  \/ \E i \in inFlight :
       \/ Submit(i)
       \/ AdminStockSubmit(i)
       \/ OpsApprove(i)
       \/ OpsReject(i)
       \/ GmReject(i)
       \/ ConfirmReceipt(i)
       \/ FulfillFromReceipt(i)
       \/ Abandon(i)

OrderNext == OrderStep \/ \E o \in Orders : GmApprove(o)

OrderSpec == OrderInit /\ [][OrderNext]_vars

-----------------------------------------------------------------------------
Outstanding(o) == OutstandingMaterial(o, ProjectOf[o])

Paid == {"PENDING_PAYMENT_RECEIPT", "PURCHASED", "PENDING_VERIFICATION"}

(* Every variable has its type.                                            *)
OrderTypeOK ==
  /\ TypeOK
  /\ order \in [Orders -> OrderRow]
  /\ inFlight \subseteq [ number : 1..MaxInFlight, handler : Handlers,
                          order : Orders, seen : Statuses ]
  /\ disturbed \subseteq Orders

(* While no handler writes over a status it never saw, status and ledger   *)
(* agree: an order's project is charged its current amount from the GM's   *)
(* approval on, and nothing before it, after a rejection or once it is     *)
(* cancelled, over any number of revisions and re-pricings.                *)
StatusMatchesLedger ==
  \A o \in Orders \ disturbed :
    Outstanding(o) =
      IF \/ order[o].status \in Paid
         \/ order[o].status = "FULFILLED" /\ order[o].verified
      THEN order[o].amount ELSE 0

(* Whatever is overtaken: an order that Finance pays, or whose goods are   *)
(* awaited, has been charged (once, the ledger sees to it).                *)
PaidOrdersWereCharged ==
  \A o \in Orders :
    order[o].status \in Paid /\ order[o].amount > 0 => deductMaterial[o] # NoRow

(* Goods are booked into stock at most once per order, also when a late    *)
(* rejection sends a fulfilled order through the whole chain again.        *)
GoodsArriveOnce == \A o \in Orders : order[o].arrivals <= 1

(* The status table of the procurement overview: "CANCELLED | Batal;       *)
(* refund materi jika sudah deduct".                                       *)
CancelledIsRefunded ==
  \A o \in Orders :
    order[o].status = "CANCELLED" /\ deductMaterial[o] # NoRow =>
      refundMaterial[o] # NoRow

(* Scenario PROC-6 of the procurement test plan: "reject by Ops ->         *)
(* REJECTED_BY_OPS, no refund", "reject by GM -> REJECTED_BY_GM, no        *)
(* refund".                                                                *)
RejectionsAreMarked ==
  [][\A i \in inFlight :
       /\ OpsReject(i) => order'[i.order].status = "REJECTED_BY_OPS"
       /\ GmReject(i) => order'[i.order].status = "REJECTED_BY_GM"]_vars
=============================================================================
