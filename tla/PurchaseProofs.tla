--------------------------- MODULE PurchaseProofs ---------------------------
(***************************************************************************)
(* Orders and their papers, for every number of orders, handlers in flight *)
(* and desks: the theorems of OrderProcurement and PurchasePapers.         *)
(***************************************************************************)
EXTENDS PurchasePapers, BudgetLedgerProofs

-----------------------------------------------------------------------------
(* Orders.                                                                 *)

IsCharged(row) ==
  row.status \in Paid \/ (row.status = "FULFILLED" /\ row.verified)

(* The ledger row the GM's approval of such an order leaves.               *)
ChargeFor(row, p) ==
  IF row.amount > 0 THEN [project |-> p, amount |-> row.amount] ELSE NoRow

(* How an order no handler has disturbed stands with the ledger: charged   *)
(* in full, given back in full, or never charged at all.                   *)
RowFits(row, p, deduct, refund) ==
  /\ row.verified => row.status = "FULFILLED"
  /\ IsCharged(row) => deduct = ChargeFor(row, p) /\ refund = NoRow
  /\ row.status = "CANCELLED" => refund = deduct
  /\ ~IsCharged(row) /\ row.status # "CANCELLED" =>
       deduct = NoRow /\ refund = NoRow

LedgerFits ==
  \A o \in Orders \ disturbed :
    RowFits(order[o], ProjectOf[o], deductMaterial[o], refundMaterial[o])

AdminStockStatuses ==
  {"DRAFT", "PENDING_ADMIN_STOCK", "NO_STOCK", "PARTIAL_STOCK"}

(* The status a handler saw is one it accepts; the receipts accept any.    *)
SawWhatItAccepts(i) ==
  /\ i.handler = "submit" => i.seen = "DRAFT"
  /\ i.handler = "adminStockSubmit" => i.seen \in AdminStockStatuses
  /\ i.handler \in {"opsApprove", "opsReject"} => i.seen = "PENDING_OPS_APPROVAL"
  /\ i.handler = "gmReject" => i.seen = "PENDING_GM_APPROVAL"

HandlerRecord ==
  [ number : 1..MaxInFlight, handler : Handlers, order : Orders, seen : Statuses ]

HandlersOK ==
  /\ inFlight \subseteq HandlerRecord
  /\ \A i \in inFlight : SawWhatItAccepts(i)

OrderInv ==
  /\ LedgerInv
  /\ order \in [Orders -> OrderRow]
  /\ HandlersOK
  /\ disturbed \subseteq Orders
  /\ LedgerFits
  /\ PaidOrdersWereCharged
  /\ GoodsArriveOnce

(* The rows a step writes over an order's row, compared field by field.    *)
LEMMA OrderRowFields ==
  ASSUME NEW row \in OrderRow
  PROVE  /\ row.status \in Statuses /\ row.trigger \in Triggers
         /\ row.amount \in Nat /\ row.verified \in BOOLEAN
         /\ row.arrivals \in Nat
         /\ row.suratJalan \in {"NONE", "GENERATED", "CONFIRMED"}
  BY DEF OrderRow

(* A step that writes one order, without touching the ledger, keeps the    *)
(* invariant when the row it writes fits the ledger as it is.              *)
LEMMA OrderWritten ==
  ASSUME OrderInv, UNCHANGED ledgerVars, NEW o \in Orders, NEW row \in OrderRow,
         order' = [order EXCEPT ![o] = row],
         HandlersOK', disturbed \subseteq disturbed', disturbed' \subseteq Orders,
         o \notin disturbed' =>
           RowFits(row, ProjectOf[o], deductMaterial[o], refundMaterial[o]),
         row.status \in Paid /\ row.amount > 0 => deductMaterial[o] # NoRow,
         row.arrivals <= 1
  PROVE  OrderInv'
<1>1. LedgerInv'
  BY LedgerStutter DEF OrderInv
<1>2. UNCHANGED <<deductMaterial, refundMaterial>>
  BY DEF ledgerVars, ledgerRows
<1>3. /\ order' \in [Orders -> OrderRow]
      /\ \A k \in Orders : order'[k] = IF k = o THEN row ELSE order[k]
  BY DEF OrderInv
<1>4. LedgerFits'
  BY <1>2, <1>3 DEF OrderInv, LedgerFits
<1>5. PaidOrdersWereCharged'
  BY <1>2, <1>3 DEF OrderInv, PaidOrdersWereCharged
<1>6. GoodsArriveOnce'
  BY <1>3 DEF OrderInv, GoodsArriveOnce
<1>7. QED
  BY <1>1, <1>3, <1>4, <1>5, <1>6 DEF OrderInv

(* A step that leaves orders and ledger alone.                             *)
LEMMA OrdersUntouched ==
  ASSUME OrderInv, UNCHANGED <<ledgerVars, order, disturbed>>, HandlersOK'
  PROVE  OrderInv'
<1>1. LedgerInv'
  BY LedgerStutter DEF OrderInv
<1>2. UNCHANGED <<deductMaterial, refundMaterial>>
  BY DEF ledgerVars, ledgerRows
<1>3. QED
  BY <1>1, <1>2 DEF OrderInv, LedgerFits, PaidOrdersWereCharged, GoodsArriveOnce

-----------------------------------------------------------------------------
(* The serializable handlers.                                              *)

(* The GM's approval charges an order that was not charged yet.            *)
LEMMA GmApproveKeeps ==
  ASSUME OrderInv, NEW o \in Orders, GmApprove(o)
  PROVE  OrderInv'
<1> DEFINE p == ProjectOf[o]
           a == order[o].amount
           row == [order[o] EXCEPT !.status = "PENDING_PAYMENT_RECEIPT"]
<1>1. /\ order[o] \in OrderRow /\ order[o].status = "PENDING_GM_APPROVAL"
      /\ order' = [order EXCEPT ![o] = row] /\ UNCHANGED <<inFlight, disturbed>>
  BY DEF GmApprove, OrderInv
<1>2. a \in Nat /\ p \in Projects
  BY <1>1, OrderAssumption DEF OrderRow, Orders
<1>3. /\ row \in OrderRow /\ row.status = "PENDING_PAYMENT_RECEIPT"
      /\ row.amount = a /\ row.verified = order[o].verified
      /\ row.arrivals = order[o].arrivals
  BY <1>1 DEF OrderRow, Statuses
<1> HIDE DEF row
<1>4. HandlersOK'
  BY <1>1 DEF OrderInv, HandlersOK, SawWhatItAccepts
<1>5. IsCharged(row) /\ ~IsCharged(order[o])
  BY <1>1, <1>3 DEF IsCharged, Paid
<1>6. row.arrivals <= 1
  BY <1>3 DEF OrderInv, GoodsArriveOnce
<1>7. CASE a = 0
  <2>1. UNCHANGED ledgerVars
    BY <1>7 DEF GmApprove
  <2>2. o \notin disturbed =>
          RowFits(row, p, deductMaterial[o], refundMaterial[o])
    <3> SUFFICES ASSUME o \notin disturbed
                 PROVE  RowFits(row, p, deductMaterial[o], refundMaterial[o])
      OBVIOUS
    <3>1. RowFits(order[o], p, deductMaterial[o], refundMaterial[o])
      BY DEF OrderInv, LedgerFits
    <3>2. ChargeFor(row, p) = NoRow
      BY <1>3, <1>7 DEF ChargeFor
    <3>3. QED
      BY <1>1, <1>3, <1>5, <3>1, <3>2 DEF RowFits
  <2>3. ~(row.amount > 0)
    BY <1>3, <1>7
  <2>4. disturbed' = disturbed /\ disturbed \subseteq Orders
    BY <1>1 DEF OrderInv
  <2>5. QED
    BY <1>1, <1>3, <1>4, <1>6, <2>1, <2>2, <2>3, <2>4, OrderWritten
<1>8. CASE a # 0
  <2>1. a \in Nat \ {0} /\ DeductForOrder(o, p, a)
    BY <1>2, <1>8 DEF GmApprove
  <2>2. LedgerInv'
    BY <1>2, <2>1, DeductForOrderKeeps DEF OrderInv
  <2>3. /\ refundMaterial' = refundMaterial
        /\ \A k \in Orders : deductMaterial'[k] =
             IF k = o /\ deductMaterial[o] = NoRow
             THEN [project |-> p, amount |-> a] ELSE deductMaterial[k]
    BY <2>1 DEF DeductForOrder, ledgerVars, ledgerRows, OrderInv, LedgerInv, TypeOK
  <2>4. [project |-> p, amount |-> a] # NoRow
    BY <1>2, <2>1, LedgerAssumption
  <2>5. \A k \in Orders : order'[k] = IF k = o THEN row ELSE order[k]
    BY <1>1 DEF OrderInv
  <2>6. LedgerFits'
    <3> SUFFICES ASSUME NEW k \in Orders, k \notin disturbed
                 PROVE  RowFits(order'[k], ProjectOf[k],
                                deductMaterial'[k], refundMaterial'[k])
      BY <1>1 DEF LedgerFits
    <3>1. RowFits(order[k], ProjectOf[k], deductMaterial[k], refundMaterial[k])
      BY DEF OrderInv, LedgerFits
    <3>2. CASE k # o
      BY <3>1, <3>2, <2>3, <2>5
    <3>3. CASE k = o
      <4>1. deductMaterial[o] = NoRow /\ refundMaterial[o] = NoRow
        BY <3>1, <3>3, <1>1, <1>5 DEF RowFits
      <4>2. deductMaterial'[o] = ChargeFor(row, p)
        BY <4>1, <2>1, <2>3, <1>3 DEF ChargeFor
      <4>3. QED
        BY <3>1, <3>3, <4>1, <4>2, <2>3, <2>5, <1>1, <1>3, <1>5 DEF RowFits
    <3>4. QED
      BY <3>2, <3>3
  <2>7. PaidOrdersWereCharged'
    BY <2>3, <2>4, <2>5 DEF OrderInv, PaidOrdersWereCharged
  <2>8. GoodsArriveOnce'
    BY <1>6, <2>5 DEF OrderInv, GoodsArriveOnce
  <2>9. order' \in [Orders -> OrderRow]
    BY <1>1, <1>3 DEF OrderInv
  <2>10. QED
    BY <1>1, <1>4, <2>2, <2>6, <2>7, <2>8, <2>9 DEF OrderInv
<1>9. QED
  BY <1>7, <1>8

(* A cancellation gives a charged order's amount back.                     *)
LEMMA CancelKeeps ==
  ASSUME OrderInv, NEW o \in Orders, Cancel(o)
  PROVE  OrderInv'
<1> DEFINE row == [order[o] EXCEPT !.status = "CANCELLED"]
<1>1. /\ order[o] \in OrderRow /\ order[o].status \in Cancellable
      /\ order' = [order EXCEPT ![o] = row] /\ UNCHANGED <<inFlight, disturbed>>
  BY DEF Cancel, OrderInv
<1>2. /\ row \in OrderRow /\ row.status = "CANCELLED"
      /\ row.verified = order[o].verified /\ row.arrivals = order[o].arrivals
  BY <1>1 DEF OrderRow, Statuses
<1> HIDE DEF row
<1>3. HandlersOK'
  BY <1>1 DEF OrderInv, HandlersOK, SawWhatItAccepts
<1>4. ~IsCharged(row) /\ row.status \notin Paid
  BY <1>2 DEF IsCharged, Paid
<1>5. row.arrivals <= 1
  BY <1>2 DEF OrderInv, GoodsArriveOnce
<1>6. o \notin disturbed => ~row.verified
  <2>1. o \notin disturbed => (order[o].verified => order[o].status = "FULFILLED")
    BY DEF OrderInv, LedgerFits, RowFits
  <2>2. QED
    BY <1>1, <1>2, <2>1 DEF Cancellable
<1>7. CASE order[o].status = "PENDING_PAYMENT_RECEIPT"
  <2>1. RefundForOrder(o)
    BY <1>7 DEF Cancel
  <2>2. LedgerInv'
    BY <2>1, RefundForOrderKeeps DEF OrderInv
  <2>3. /\ deductMaterial' = deductMaterial
        /\ \A k \in Orders : refundMaterial'[k] =
             IF k = o /\ deductMaterial[o] # NoRow /\ refundMaterial[o] = NoRow
             THEN deductMaterial[o] ELSE refundMaterial[k]
    BY <2>1 DEF RefundForOrder, ledgerVars, ledgerRows, OrderInv, LedgerInv, TypeOK
  <2>4. \A k \in Orders : order'[k] = IF k = o THEN row ELSE order[k]
    BY <1>1 DEF OrderInv
  <2>5. LedgerFits'
    <3> SUFFICES ASSUME NEW k \in Orders, k \notin disturbed
                 PROVE  RowFits(order'[k], ProjectOf[k],
                                deductMaterial'[k], refundMaterial'[k])
      BY <1>1 DEF LedgerFits
    <3>1. RowFits(order[k], ProjectOf[k], deductMaterial[k], refundMaterial[k])
      BY DEF OrderInv, LedgerFits
    <3>2. CASE k # o
      BY <3>1, <3>2, <2>3, <2>4
    <3>3. CASE k = o
      <4>1. IsCharged(order[o])
        BY <1>7 DEF IsCharged, Paid
      <4>2. refundMaterial[o] = NoRow
        BY <3>1, <3>3, <4>1 DEF RowFits
      <4>3. refundMaterial'[o] = deductMaterial'[o]
        BY <4>2, <2>3
      <4>4. QED
        BY <3>3, <4>3, <2>4, <1>2, <1>4, <1>6 DEF RowFits
    <3>4. QED
      BY <3>2, <3>3
  <2>6. PaidOrdersWereCharged'
    BY <1>4, <2>3, <2>4 DEF OrderInv, PaidOrdersWereCharged
  <2>7. GoodsArriveOnce'
    BY <1>5, <2>4 DEF OrderInv, GoodsArriveOnce
  <2>8. order' \in [Orders -> OrderRow]
    BY <1>1, <1>2 DEF OrderInv
  <2>9. QED
    BY <1>1, <1>3, <2>2, <2>5, <2>6, <2>7, <2>8 DEF OrderInv
<1>8. CASE order[o].status # "PENDING_PAYMENT_RECEIPT"
  <2>1. UNCHANGED ledgerVars
    BY <1>8 DEF Cancel
  <2>2. ~IsCharged(order[o]) /\ order[o].status # "CANCELLED"
    BY <1>1, <1>8 DEF IsCharged, Paid, Cancellable
  <2>3. o \notin disturbed =>
          RowFits(row, ProjectOf[o], deductMaterial[o], refundMaterial[o])
    BY <1>2, <1>4, <1>6, <2>2 DEF OrderInv, LedgerFits, RowFits
  <2>4. disturbed' = disturbed /\ disturbed \subseteq Orders
    BY <1>1 DEF OrderInv
  <2>5. QED
    BY <1>1, <1>2, <1>3, <1>4, <1>5, <2>1, <2>3, <2>4, OrderWritten
<1>9. QED
  BY <1>7, <1>8

(* What the other handlers write: the row they leave fits as it stands.    *)
LEMMA SerializableKeeps ==
  ASSUME OrderInv, NEW o \in Orders, NEW row \in OrderRow,
         order' = [order EXCEPT ![o] = row],
         UNCHANGED <<ledgerVars, inFlight, disturbed>>,
         o \notin disturbed =>
           RowFits(row, ProjectOf[o], deductMaterial[o], refundMaterial[o]),
         row.status \in Paid /\ row.amount > 0 => deductMaterial[o] # NoRow,
         row.arrivals <= 1
  PROVE  OrderInv'
<1>1. HandlersOK'
  BY DEF OrderInv, HandlersOK, SawWhatItAccepts
<1>2. disturbed' = disturbed /\ disturbed \subseteq Orders
  BY DEF OrderInv
<1>3. QED
  BY <1>1, <1>2, OrderWritten

(* Submitting a price happens before any charge.                           *)
LEMMA SubmitPriceKeeps ==
  ASSUME OrderInv, NEW o \in Orders, NEW a \in Amounts \cup {0}, SubmitPrice(o, a)
  PROVE  OrderInv'
<1> DEFINE row == [order[o] EXCEPT !.amount = a,
                     !.status = IF order[o].trigger = "STOCK_RESTOCK"
                                THEN "PENDING_GM_APPROVAL" ELSE "PENDING_OPS_APPROVAL"]
<1>1. /\ order[o] \in OrderRow /\ order[o].status = "PENDING_PURCHASING_INPUT"
      /\ order' = [order EXCEPT ![o] = row]
      /\ UNCHANGED <<ledgerVars, inFlight, disturbed>>
  BY DEF SubmitPrice, OrderInv
<1>2. a \in Nat
  BY LedgerAssumption
<1>3. /\ row \in OrderRow
      /\ row.status \in {"PENDING_GM_APPROVAL", "PENDING_OPS_APPROVAL"}
      /\ row.verified = order[o].verified /\ row.arrivals = order[o].arrivals
  BY <1>1, <1>2 DEF OrderRow, Statuses
<1> HIDE DEF row
<1>4. row.status \notin Paid /\ row.status # "FULFILLED"
  BY <1>3 DEF Paid
<1>5. o \notin disturbed =>
        RowFits(row, ProjectOf[o], deductMaterial[o], refundMaterial[o])
  BY <1>1, <1>3, <1>4 DEF OrderInv, LedgerFits, RowFits, IsCharged, Paid
<1>6. row.arrivals <= 1
  BY <1>3 DEF OrderInv, GoodsArriveOnce
<1>7. QED
  BY <1>1, <1>3, <1>4, <1>5, <1>6, SerializableKeeps

(* Paying, verifying and reporting a mismatch move a charged order on.     *)
LEMMA FinanceProcessKeeps ==
  ASSUME OrderInv, NEW o \in Orders, FinanceProcess(o)
  PROVE  OrderInv'
<1> DEFINE row == [order[o] EXCEPT !.status = "PURCHASED"]
<1>1. /\ order[o] \in OrderRow /\ order[o].status = "PENDING_PAYMENT_RECEIPT"
      /\ order' = [order EXCEPT ![o] = row]
      /\ UNCHANGED <<ledgerVars, inFlight, disturbed>>
  BY DEF FinanceProcess, OrderInv
<1>2. /\ row \in OrderRow /\ row.status = "PURCHASED"
      /\ row.verified = order[o].verified /\ row.arrivals = order[o].arrivals
      /\ row.amount = order[o].amount
  BY <1>1 DEF OrderRow, Statuses
<1> HIDE DEF row
<1>3. o \notin disturbed =>
        RowFits(row, ProjectOf[o], deductMaterial[o], refundMaterial[o])
  BY <1>1, <1>2 DEF OrderInv, LedgerFits, RowFits, IsCharged, Paid, ChargeFor
<1>4. row.amount > 0 => deductMaterial[o] # NoRow
  BY <1>1, <1>2 DEF OrderInv, PaidOrdersWereCharged, Paid
<1>5. row.arrivals <= 1
  BY <1>2 DEF OrderInv, GoodsArriveOnce
<1>6. QED
  BY <1>1, <1>2, <1>3, <1>4, <1>5, SerializableKeeps

(* verifyItems: the goods of a charged order arrive, for the first time    *)
(* only.                                                                   *)
LEMMA VerifyItemsKeeps ==
  ASSUME OrderInv, NEW o \in Orders, VerifyItems(o)
  PROVE  OrderInv'
<1> DEFINE row == [order[o] EXCEPT !.status = "FULFILLED", !.verified = TRUE,
                     !.arrivals = IF order[o].arrivals = 0 THEN 1
                                  ELSE order[o].arrivals]
<1>1. /\ order[o] \in OrderRow
      /\ AwaitsGoods(o) \/ (order[o].status = "FULFILLED" /\ order[o].verified)
      /\ order' = [order EXCEPT ![o] = row]
      /\ UNCHANGED <<ledgerVars, inFlight, disturbed>>
  BY DEF VerifyItems, OrderInv
<1>2. /\ row \in OrderRow /\ row.status = "FULFILLED" /\ row.verified
      /\ row.amount = order[o].amount
      /\ row.arrivals = IF order[o].arrivals = 0 THEN 1 ELSE order[o].arrivals
  BY <1>1 DEF OrderRow, Statuses
<1> HIDE DEF row
<1>3. IsCharged(order[o]) /\ IsCharged(row) /\ row.status \notin Paid
  BY <1>1, <1>2 DEF IsCharged, Paid, AwaitsGoods
<1>4. o \notin disturbed =>
        RowFits(row, ProjectOf[o], deductMaterial[o], refundMaterial[o])
  BY <1>2, <1>3 DEF OrderInv, LedgerFits, RowFits, ChargeFor
<1>5. row.arrivals <= 1
  BY <1>2 DEF OrderInv, GoodsArriveOnce
<1>6. QED
  BY <1>1, <1>2, <1>3, <1>4, <1>5, SerializableKeeps

(* reportMismatch: a charged order waits for its goods again.              *)
LEMMA ReportMismatchKeeps ==
  ASSUME OrderInv, NEW o \in Orders, ReportMismatch(o)
  PROVE  OrderInv'
<1> DEFINE row == [order[o] EXCEPT !.status = "PENDING_VERIFICATION",
                                   !.verified = FALSE]
<1>1. /\ order[o] \in OrderRow /\ AwaitsGoods(o)
      /\ order' = [order EXCEPT ![o] = row]
      /\ UNCHANGED <<ledgerVars, inFlight, disturbed>>
  BY DEF ReportMismatch, OrderInv
<1>2. /\ row \in OrderRow /\ row.status = "PENDING_VERIFICATION"
      /\ ~row.verified /\ row.amount = order[o].amount
      /\ row.arrivals = order[o].arrivals
  BY <1>1 DEF OrderRow, Statuses
<1> HIDE DEF row
<1>3. order[o].status \in Paid /\ IsCharged(order[o]) /\ IsCharged(row)
  BY <1>1, <1>2 DEF IsCharged, Paid, AwaitsGoods
<1>4. o \notin disturbed =>
        RowFits(row, ProjectOf[o], deductMaterial[o], refundMaterial[o])
  BY <1>2, <1>3 DEF OrderInv, LedgerFits, RowFits, ChargeFor
<1>5. row.amount > 0 => deductMaterial[o] # NoRow
  BY <1>2, <1>3 DEF OrderInv, PaidOrdersWereCharged
<1>6. row.arrivals <= 1
  BY <1>2 DEF OrderInv, GoodsArriveOnce
<1>7. QED
  BY <1>1, <1>2, <1>4, <1>5, <1>6, SerializableKeeps

-----------------------------------------------------------------------------
(* The handlers that check first and write later.                          *)

(* Statuses before the GM's approval: nothing is charged in them, and the  *)
(* handlers that write later see and write no other status.                *)
Uncharged ==
  AdminStockStatuses \cup
    {"STOCK_AVAILABLE", "PENDING_PURCHASING_INPUT", "PENDING_OPS_APPROVAL",
     "PENDING_GM_APPROVAL"}

(* The late write of a handler that read a status before the charge:       *)
(* where that status has changed the order is disturbed, elsewhere it was  *)
(* never charged.                                                          *)
LEMMA WriteKeeps ==
  ASSUME OrderInv, NEW i \in inFlight, NEW row \in OrderRow, NEW others,
         WriteAmid(i, row, others), others \subseteq HandlerRecord,
         \A k \in others : SawWhatItAccepts(k),
         i.seen \in Uncharged, row.status \in Uncharged,
         row.verified = order[i.order].verified,
         row.arrivals = order[i.order].arrivals
  PROVE  OrderInv'
<1> DEFINE o == i.order
<1>1. o \in Orders /\ disturbed \subseteq Orders
  BY DEF OrderInv, HandlersOK, HandlerRecord
<1>2. HandlersOK'
  BY DEF WriteAmid, HandlersOK, SawWhatItAccepts
<1>3. /\ order' = [order EXCEPT ![o] = row] /\ UNCHANGED ledgerVars
      /\ disturbed \subseteq disturbed' /\ disturbed' \subseteq Orders
      /\ o \notin disturbed' => o \notin disturbed /\ order[o].status = i.seen
  BY <1>1 DEF WriteAmid
<1>4. /\ row.status \notin Paid /\ row.status \notin {"FULFILLED", "CANCELLED"}
      /\ i.seen \notin Paid /\ i.seen \notin {"FULFILLED", "CANCELLED"}
  BY DEF Uncharged, AdminStockStatuses, Paid
<1> HIDE DEF o
<1>5. row.verified = order[o].verified /\ row.arrivals <= 1
  BY <1>1 DEF OrderInv, GoodsArriveOnce, o
<1>6. ASSUME o \notin disturbed'
      PROVE  RowFits(row, ProjectOf[o], deductMaterial[o], refundMaterial[o])
  <2>1. /\ RowFits(order[o], ProjectOf[o], deductMaterial[o], refundMaterial[o])
        /\ order[o].status = i.seen
    BY <1>1, <1>3, <1>6 DEF OrderInv, LedgerFits
  <2>2. ~IsCharged(row) /\ ~IsCharged(order[o])
    BY <2>1, <1>4 DEF IsCharged
  <2>3. QED
    BY <1>4, <1>5, <2>1, <2>2 DEF RowFits
<1>7. QED
  BY <1>1, <1>2, <1>3, <1>4, <1>5, <1>6, OrderWritten

(* A handler that has only checked an order changes none.                  *)
LEMMA StartKeeps ==
  ASSUME OrderInv, NEW o \in Orders, NEW h \in Handlers, Start(h, o)
  PROVE  OrderInv'
<1>1. PICK n \in 1..MaxInFlight :
        inFlight' = inFlight \cup
          {[number |-> n, handler |-> h, order |-> o, seen |-> order[o].status]}
  BY DEF Start
<1> DEFINE i == [number |-> n, handler |-> h, order |-> o, seen |-> order[o].status]
<1>2. i \in HandlerRecord
  BY DEF HandlerRecord, OrderInv, OrderRow
<1>3. SawWhatItAccepts(i)
  BY DEF Start, MayStart, SawWhatItAccepts, AdminStockStatuses
<1> HIDE DEF i
<1>4. HandlersOK'
  BY <1>1, <1>2, <1>3 DEF OrderInv, HandlersOK, SawWhatItAccepts, i
<1>5. QED
  BY <1>4, OrdersUntouched DEF Start

(* A submitted order's receipts go on with the surat jalan they know.      *)
LEMMA SubmitKeeps ==
  ASSUME OrderInv, NEW i \in inFlight, Submit(i)
  PROVE  OrderInv'
<1>1. /\ i \in HandlerRecord /\ i.seen = "DRAFT" /\ i.seen \in Uncharged
      /\ order[i.order] \in OrderRow
  BY DEF OrderInv, HandlersOK, SawWhatItAccepts, HandlerRecord, Submit,
         Uncharged, AdminStockStatuses
<1>2. CASE Write(i, [order[i.order] EXCEPT !.status = "NO_STOCK"])
  <2> DEFINE row == [order[i.order] EXCEPT !.status = "NO_STOCK"]
  <2>1. /\ row \in OrderRow /\ row.status \in Uncharged
        /\ row.verified = order[i.order].verified
        /\ row.arrivals = order[i.order].arrivals
    BY <1>1 DEF OrderRow, Statuses, Uncharged, AdminStockStatuses
  <2>2. /\ inFlight \ {i} \subseteq HandlerRecord
        /\ \A k \in inFlight \ {i} : SawWhatItAccepts(k)
    BY DEF OrderInv, HandlersOK
  <2>3. WriteAmid(i, row, inFlight \ {i})
    BY <1>2 DEF Write
  <2> HIDE DEF row
  <2>4. QED
    BY <1>1, <2>1, <2>2, <2>3, WriteKeeps
<1>3. ASSUME NEW s \in {"STOCK_AVAILABLE", "PARTIAL_STOCK"},
             WriteAmid(i,
               [order[i.order] EXCEPT !.status = s, !.suratJalan = "GENERATED"],
               {IF k.order = i.order /\ k.handler = "confirmReceipt"
                THEN [k EXCEPT !.handler = "fulfillFromReceipt"] ELSE k :
                  k \in inFlight \ {i}})
      PROVE  OrderInv'
  <2> DEFINE row == [order[i.order] EXCEPT !.status = s,
                                           !.suratJalan = "GENERATED"]
             other(k) == IF k.order = i.order /\ k.handler = "confirmReceipt"
                         THEN [k EXCEPT !.handler = "fulfillFromReceipt"] ELSE k
             others == {other(k) : k \in inFlight \ {i}}
  <2>1. /\ row \in OrderRow /\ row.status \in Uncharged
        /\ row.verified = order[i.order].verified
        /\ row.arrivals = order[i.order].arrivals
    BY <1>1 DEF OrderRow, Statuses, Uncharged, AdminStockStatuses
  <2>2. ASSUME NEW k \in inFlight \ {i}
        PROVE  other(k) \in HandlerRecord /\ SawWhatItAccepts(other(k))
    <3>1. k \in HandlerRecord /\ SawWhatItAccepts(k)
      BY DEF OrderInv, HandlersOK
    <3>2. [k EXCEPT !.handler = "fulfillFromReceipt"] \in HandlerRecord
      BY <3>1 DEF HandlerRecord, Handlers
    <3>3. SawWhatItAccepts([k EXCEPT !.handler = "fulfillFromReceipt"])
      BY <3>1 DEF HandlerRecord, SawWhatItAccepts
    <3>4. QED
      BY <3>1, <3>2, <3>3
  <2> HIDE DEF other
  <2>3. /\ others \subseteq HandlerRecord
        /\ \A k \in others : SawWhatItAccepts(k)
    BY <2>2
  <2>4. WriteAmid(i, row, others)
    BY <1>3 DEF other
  <2> HIDE DEF row, others
  <2>5. QED
    BY <1>1, <2>1, <2>3, <2>4, WriteKeeps
<1>4. QED
  BY <1>2, <1>3 DEF Submit

(* The approvals and rejections restart the order's way to the GM.         *)
LEMMA DecisionKeeps ==
  ASSUME OrderInv, NEW i \in inFlight,
         AdminStockSubmit(i) \/ OpsApprove(i) \/ OpsReject(i) \/ GmReject(i)
  PROVE  OrderInv'
<1>1. /\ i \in HandlerRecord /\ i.seen \in Uncharged
      /\ order[i.order] \in OrderRow
  BY DEF OrderInv, HandlersOK, SawWhatItAccepts, HandlerRecord,
         AdminStockSubmit, OpsApprove, OpsReject, GmReject, Uncharged
<1>2. /\ inFlight \ {i} \subseteq HandlerRecord
      /\ \A k \in inFlight \ {i} : SawWhatItAccepts(k)
  BY DEF OrderInv, HandlersOK
<1>3. ASSUME NEW row \in OrderRow, Write(i, row), row.status \in Uncharged,
             row.verified = order[i.order].verified,
             row.arrivals = order[i.order].arrivals
      PROVE  OrderInv'
  <2>1. WriteAmid(i, row, inFlight \ {i})
    BY <1>3 DEF Write
  <2>2. QED
    BY <1>1, <1>2, <1>3, <2>1, WriteKeeps
<1>4. CASE AdminStockSubmit(i)
  <2>1. PICK a \in Amounts \cup {0} :
          Write(i, [order[i.order] EXCEPT
            !.status = "PENDING_PURCHASING_INPUT", !.amount = a])
    BY <1>4 DEF AdminStockSubmit
  <2> DEFINE row == [order[i.order] EXCEPT
                       !.status = "PENDING_PURCHASING_INPUT", !.amount = a]
  <2>2. a \in Nat
    BY LedgerAssumption
  <2>3. /\ row \in OrderRow /\ row.status \in Uncharged
        /\ row.verified = order[i.order].verified
        /\ row.arrivals = order[i.order].arrivals
    BY <1>1, <2>2 DEF OrderRow, Statuses, Uncharged
  <2>4. QED
    BY <1>3, <2>1, <2>3
<1>5. CASE OpsApprove(i)
  <2> DEFINE row == [order[i.order] EXCEPT !.status = "PENDING_GM_APPROVAL"]
  <2>1. Write(i, row)
    BY <1>5 DEF OpsApprove
  <2>2. /\ row \in OrderRow /\ row.status \in Uncharged
        /\ row.verified = order[i.order].verified
        /\ row.arrivals = order[i.order].arrivals
    BY <1>1 DEF OrderRow, Statuses, Uncharged
  <2>3. QED
    BY <1>3, <2>1, <2>2
<1>6. CASE OpsReject(i) \/ GmReject(i)
  <2> DEFINE row == [order[i.order] EXCEPT !.status = RevisionStatus(i.order)]
  <2>1. Write(i, row)
    BY <1>6 DEF OpsReject, GmReject
  <2>2. RevisionStatus(i.order) \in Uncharged \cap Statuses
    BY DEF RevisionStatus, Uncharged, AdminStockStatuses, Statuses
  <2>3. /\ row \in OrderRow /\ row.status \in Uncharged
        /\ row.verified = order[i.order].verified
        /\ row.arrivals = order[i.order].arrivals
    BY <1>1, <2>2 DEF OrderRow
  <2>4. QED
    BY <1>3, <2>1, <2>3
<1>7. QED
  BY <1>4, <1>5, <1>6

(* A receipt writes the surat jalan first ...                              *)
LEMMA ConfirmReceiptKeeps ==
  ASSUME OrderInv, NEW i \in inFlight, ConfirmReceipt(i)
  PROVE  OrderInv'
<1> DEFINE o == i.order
           row == [order[o] EXCEPT !.suratJalan = "CONFIRMED"]
           next == [i EXCEPT !.handler = "fulfillFromReceipt"]
<1>1. i \in HandlerRecord /\ o \in Orders /\ order[o] \in OrderRow
  BY DEF OrderInv, HandlersOK, HandlerRecord
<1>2. next \in HandlerRecord /\ SawWhatItAccepts(next)
  BY <1>1 DEF HandlerRecord, Handlers, SawWhatItAccepts
<1>3. /\ row \in OrderRow /\ row.status = order[o].status
      /\ row.verified = order[o].verified /\ row.arrivals = order[o].arrivals
      /\ row.amount = order[o].amount
  BY <1>1 DEF OrderRow
<1>4. /\ order' = [order EXCEPT ![o] = row]
      /\ inFlight' = (inFlight \ {i}) \cup {next}
      /\ UNCHANGED <<ledgerVars, disturbed>>
  BY DEF ConfirmReceipt
<1> HIDE DEF row, next, o
<1>5. HandlersOK'
  BY <1>2, <1>4 DEF OrderInv, HandlersOK, SawWhatItAccepts
<1>6. o \notin disturbed =>
        RowFits(row, ProjectOf[o], deductMaterial[o], refundMaterial[o])
  BY <1>1, <1>3 DEF OrderInv, LedgerFits, RowFits, IsCharged, ChargeFor
<1>7. row.status \in Paid /\ row.amount > 0 => deductMaterial[o] # NoRow
  BY <1>1, <1>3 DEF OrderInv, PaidOrdersWereCharged
<1>8. row.arrivals <= 1
  BY <1>1, <1>3 DEF OrderInv, GoodsArriveOnce
<1>9. disturbed' = disturbed /\ disturbed \subseteq Orders
  BY <1>4 DEF OrderInv
<1>10. QED
  BY <1>1, <1>3, <1>4, <1>5, <1>6, <1>7, <1>8, <1>9, OrderWritten

(* ... and then fulfils the order, disturbing one that did not just go out. *)
LEMMA FulfillFromReceiptKeeps ==
  ASSUME OrderInv, NEW i \in inFlight, FulfillFromReceipt(i)
  PROVE  OrderInv'
<1> DEFINE o == i.order
           row == [order[o] EXCEPT !.status = "FULFILLED"]
<1>1. o \in Orders /\ order[o] \in OrderRow /\ disturbed \subseteq Orders
  BY DEF OrderInv, HandlersOK, HandlerRecord
<1>2. /\ row \in OrderRow /\ row.status = "FULFILLED"
      /\ row.verified = order[o].verified /\ row.arrivals = order[o].arrivals
  BY <1>1 DEF OrderRow, Statuses
<1>3. /\ order' = [order EXCEPT ![o] = row] /\ UNCHANGED ledgerVars
      /\ inFlight' = inFlight \ {i}
      /\ disturbed \subseteq disturbed' /\ disturbed' \subseteq Orders
      /\ o \notin disturbed' =>
           /\ o \notin disturbed
           /\ order[o].status \in {"STOCK_AVAILABLE", "PARTIAL_STOCK"}
  BY <1>1 DEF FulfillFromReceipt
<1> HIDE DEF row, o
<1>4. HandlersOK'
  BY <1>3 DEF OrderInv, HandlersOK, SawWhatItAccepts
<1>5. ASSUME o \notin disturbed'
      PROVE  RowFits(row, ProjectOf[o], deductMaterial[o], refundMaterial[o])
  <2>1. /\ RowFits(order[o], ProjectOf[o], deductMaterial[o], refundMaterial[o])
        /\ order[o].status \in {"STOCK_AVAILABLE", "PARTIAL_STOCK"}
    BY <1>1, <1>3, <1>5 DEF OrderInv, LedgerFits
  <2>2. ~IsCharged(order[o]) /\ order[o].status # "CANCELLED" /\ ~order[o].verified
    BY <2>1 DEF IsCharged, Paid, RowFits
  <2>3. ~IsCharged(row)
    BY <1>2, <2>2 DEF IsCharged, Paid
  <2>4. QED
    BY <1>2, <2>1, <2>2, <2>3 DEF RowFits
<1>6. row.status \notin Paid
  BY <1>2 DEF Paid
<1>7. row.arrivals <= 1
  BY <1>1, <1>2 DEF OrderInv, GoodsArriveOnce
<1>8. QED
  BY <1>1, <1>2, <1>3, <1>4, <1>5, <1>6, <1>7, OrderWritten

-----------------------------------------------------------------------------
(* The theorems about orders.                                              *)

(* Orders as created, with an empty ledger, satisfy the invariant.         *)
LEMMA OrderInitInv ==
  OrderInit => OrderInv
<1> SUFFICES ASSUME OrderInit PROVE OrderInv
  OBVIOUS
<1>1. LedgerInv
  BY LedgerInitInv DEF OrderInit
<1>2. /\ CreatedOrders \subseteq OrderRow
      /\ \A row \in CreatedOrders :
           /\ ~row.verified /\ row.arrivals = 0
           /\ row.status \in {"DRAFT", "PENDING_ADMIN_STOCK",
                              "PENDING_PURCHASING_INPUT"}
  <2>1. ASSUME NEW s \in {"DRAFT", "PENDING_ADMIN_STOCK",
                         "PENDING_PURCHASING_INPUT"},
               NEW t \in Triggers
        PROVE  /\ NewOrder(s, t) \in OrderRow
               /\ ~NewOrder(s, t).verified /\ NewOrder(s, t).arrivals = 0
               /\ NewOrder(s, t).status = s
    BY DEF NewOrder, OrderRow, Statuses
  <2>2. "STOCK_RESTOCK" \in Triggers
    BY DEF Triggers
  <2>3. \A row \in CreatedOrders :
          \E s \in {"DRAFT", "PENDING_ADMIN_STOCK", "PENDING_PURCHASING_INPUT"},
             t \in Triggers : row = NewOrder(s, t)
    BY <2>2 DEF CreatedOrders
  <2>4. QED
    BY <2>1, <2>3
<1>3. order \in [Orders -> OrderRow] /\ \A o \in Orders : order[o] \in CreatedOrders
  BY <1>2 DEF OrderInit
<1>4. HandlersOK /\ disturbed \subseteq Orders
  BY DEF OrderInit, HandlersOK
<1>5. LedgerFits
  BY <1>2, <1>3 DEF OrderInit, LedgerInit, LedgerFits, RowFits, IsCharged, Paid
<1>6. PaidOrdersWereCharged
  BY <1>2, <1>3 DEF PaidOrdersWereCharged, Paid
<1>7. GoodsArriveOnce
  BY <1>2, <1>3 DEF GoodsArriveOnce
<1>8. QED
  BY <1>1, <1>3, <1>4, <1>5, <1>6, <1>7 DEF OrderInv

(* Every step of an order's handlers but gmApprove keeps the invariant.    *)
LEMMA OrderStepInv ==
  ASSUME OrderInv, OrderStep
  PROVE  OrderInv'
<1>1. ASSUME NEW o \in Orders, NEW a \in Amounts \cup {0}, SubmitPrice(o, a)
      PROVE  OrderInv'
  BY <1>1, SubmitPriceKeeps
<1>2. ASSUME NEW o \in Orders, Cancel(o) PROVE OrderInv'
  BY <1>2, CancelKeeps
<1>3. ASSUME NEW o \in Orders, FinanceProcess(o) PROVE OrderInv'
  BY <1>3, FinanceProcessKeeps
<1>4. ASSUME NEW o \in Orders, VerifyItems(o) PROVE OrderInv'
  BY <1>4, VerifyItemsKeeps
<1>5. ASSUME NEW o \in Orders, ReportMismatch(o) PROVE OrderInv'
  BY <1>5, ReportMismatchKeeps
<1>6. ASSUME NEW o \in Orders, NEW h \in Handlers, Start(h, o) PROVE OrderInv'
  BY <1>6, StartKeeps
<1>7. ASSUME NEW i \in inFlight, Submit(i) PROVE OrderInv'
  BY <1>7, SubmitKeeps
<1>8. ASSUME NEW i \in inFlight,
             AdminStockSubmit(i) \/ OpsApprove(i) \/ OpsReject(i) \/ GmReject(i)
      PROVE  OrderInv'
  BY <1>8, DecisionKeeps
<1>9. ASSUME NEW i \in inFlight, ConfirmReceipt(i) PROVE OrderInv'
  BY <1>9, ConfirmReceiptKeeps
<1>10. ASSUME NEW i \in inFlight, FulfillFromReceipt(i) PROVE OrderInv'
  BY <1>10, FulfillFromReceiptKeeps
<1>11. ASSUME NEW i \in inFlight, Abandon(i) PROVE OrderInv'
  <2>1. HandlersOK'
    BY <1>11 DEF Abandon, OrderInv, HandlersOK, SawWhatItAccepts
  <2>2. QED
    BY <1>11, <2>1, OrdersUntouched DEF Abandon
<1>12. QED
  BY <1>1, <1>2, <1>3, <1>4, <1>5, <1>6, <1>7, <1>8, <1>9, <1>10, <1>11
     DEF OrderStep

(* The invariant reads no more than the variables of the module.           *)
LEMMA OrderStutter ==
  OrderInv /\ UNCHANGED vars => OrderInv'
<1> SUFFICES ASSUME OrderInv, UNCHANGED vars PROVE OrderInv'
  OBVIOUS
<1>1. UNCHANGED <<ledgerVars, order, disturbed, inFlight>>
  BY DEF vars, orderVars
<1>2. HandlersOK'
  BY <1>1 DEF OrderInv, HandlersOK, SawWhatItAccepts
<1>3. QED
  BY <1>1, <1>2, OrdersUntouched

(* Every step of OrderProcurement keeps the invariant.                     *)
LEMMA OrderNextInv ==
  OrderInv /\ [OrderNext]_vars => OrderInv'
  BY OrderStepInv, GmApproveKeeps, OrderStutter DEF OrderNext

(* What the invariant says of a state.                                     *)
LEMMA OrderInvImplies ==
  OrderInv => /\ OrderTypeOK /\ StatusMatchesLedger
              /\ PaidOrdersWereCharged /\ GoodsArriveOnce
<1> SUFFICES ASSUME OrderInv
             PROVE  /\ OrderTypeOK /\ StatusMatchesLedger
                    /\ PaidOrdersWereCharged /\ GoodsArriveOnce
  OBVIOUS
<1>1. OrderTypeOK
  BY DEF OrderInv, LedgerInv, OrderTypeOK, HandlersOK, HandlerRecord
<1>2. ASSUME NEW o \in Orders, o \notin disturbed
      PROVE  Outstanding(o) = IF IsCharged(order[o]) THEN order[o].amount ELSE 0
  <2> DEFINE d == deductMaterial[o]
             r == refundMaterial[o]
             p == ProjectOf[o]
  <2>1. RowFits(order[o], p, d, r)
    BY <1>2 DEF OrderInv, LedgerFits
  <2>2. /\ order[o].amount \in Nat /\ p \in Projects
        /\ d \in Row \cup {NoRow} /\ r \in Row \cup {NoRow}
    BY OrderAssumption DEF OrderInv, OrderRow, Orders, LedgerInv, TypeOK
  <2>3. AmountIn(NoRow, p) = 0
    BY DEF AmountIn, In
  <2>4. AmountIn(d, p) \in Nat
    BY <2>2, <2>3 DEF AmountIn, In, Row
  <2>5. CASE IsCharged(order[o])
    <3>1. d = ChargeFor(order[o], p) /\ r = NoRow
      BY <2>1, <2>5 DEF RowFits
    <3>2. CASE order[o].amount = 0
      BY <2>3, <2>5, <3>1, <3>2 DEF Outstanding, OutstandingMaterial, ChargeFor
    <3>3. CASE order[o].amount # 0
      <4>1. d = [project |-> p, amount |-> order[o].amount]
        BY <2>2, <3>1, <3>3 DEF ChargeFor
      <4>2. d # NoRow
        BY <2>2, <3>3, <4>1, LedgerAssumption
      <4>3. AmountIn(d, p) = order[o].amount
        BY <4>1, <4>2 DEF AmountIn, In
      <4>4. QED
        BY <2>2, <2>3, <2>5, <3>1, <4>3 DEF Outstanding, OutstandingMaterial
    <3>4. QED
      BY <3>2, <3>3
  <2>6. CASE ~IsCharged(order[o])
    <3>1. d = r
      BY <2>1, <2>6 DEF RowFits
    <3>2. QED
      BY <2>4, <2>6, <3>1 DEF Outstanding, OutstandingMaterial
  <2>7. QED
    BY <2>5, <2>6
<1>3. StatusMatchesLedger
  BY <1>2 DEF StatusMatchesLedger, IsCharged
<1>4. QED
  BY <1>1, <1>3 DEF OrderInv

(* The invariant of orders and their ledger.                               *)
THEOREM OrderInvariant == OrderSpec => []OrderInv
<1>1. QED
  BY OrderInitInv, OrderNextInv, PTL DEF OrderSpec

(* An order's types, over any number of revisions and late handlers.       *)
THEOREM OrdersKeepTheirType == OrderSpec => []OrderTypeOK
<1>1. QED
  BY OrderInvariant, OrderInvImplies, PTL

(* Status and ledger agree for every order nobody wrote over unseen.       *)
THEOREM StatusesMatchTheLedger == OrderSpec => []StatusMatchesLedger
<1>1. QED
  BY OrderInvariant, OrderInvImplies, PTL

(* Nobody pays, or waits for the goods of, an order that was not charged.  *)
THEOREM OrdersArePaidAfterTheCharge == OrderSpec => []PaidOrdersWereCharged
<1>1. QED
  BY OrderInvariant, OrderInvImplies, PTL

(* An order's goods enter the stock at most once.                          *)
THEOREM GoodsAreBookedOnce == OrderSpec => []GoodsArriveOnce
<1>1. QED
  BY OrderInvariant, OrderInvImplies, PTL

-----------------------------------------------------------------------------
(* Papers.                                                                 *)

PoTask == [do : PoSteps, order : Orders, read : Draft]
InvoiceTask ==
  [do : InvoiceSteps, order : Orders, read : Amounts, late : BOOLEAN]

(* A task that has built its purchase order knows the amount, one that has *)
(* drawn a number knows that too.                                          *)
HasBuilt(d) == At(d, "number") \/ At(d, "store") \/ At(d, "record")
HasDrawn(d) == At(d, "store") \/ At(d, "record")

DrawsPo(d) == At(d, "check") \/ At(d, "build") \/ HasBuilt(d)

PaperShape ==
  /\ po \in [Orders -> Numbers \cup {0}]
  /\ shelf \in [Numbers -> Pdf \cup {NoPaper}]
  /\ invoice \in [Orders -> Invoice \cup {NoPaper}]
  /\ posted \in [Orders -> Pdf \cup {NoPaper}]
  /\ billed \in [Orders -> Amounts \cup {0}]
  /\ desk \in [Desks -> Task \cup {NoTask}]
  /\ contested \subseteq Orders /\ overtaken \subseteq Orders
  /\ \A d \in Desks : HasDrawn(d) => desk[d].read.number # 0

(* No paper with an amount is about an order that was not charged.         *)
IsCovered(o, amount) == amount > 0 => deductMaterial[o] # NoRow

PapersCovered ==
  /\ \A n \in Numbers : shelf[n] # NoPaper => IsCovered(shelf[n].order, shelf[n].amount)
  /\ \A o \in Orders : posted[o] # NoPaper => IsCovered(posted[o].order, posted[o].amount)
  /\ \A d \in Desks : HasBuilt(d) => IsCovered(desk[d].order, desk[d].read.amount)

(* An order that is on its way to a purchase order has left the statuses   *)
(* in which its amount may change, unless a handler writes unseen.         *)
Settled == Paid \cup {"FULFILLED", "CANCELLED"}

AmountsSettled ==
  /\ \A o \in Orders \ disturbed : po[o] # 0 => order[o].status \in Settled
  /\ \A d \in Desks : DrawsPo(d) /\ desk[d].order \notin disturbed =>
       /\ order[desk[d].order].status \in Settled
       /\ HasBuilt(d) => desk[d].read.amount = order[desk[d].order].amount

(* The number an uncontested order holds, or is about to, is its own ...   *)
Holds(o, n) == po[o] = n \/ Drew(o, n)

NumbersApart ==
  \A o \in Orders \ contested, x \in Orders, n \in Numbers :
    Holds(o, n) /\ Holds(x, n) => x = o

(* ... and the file under it shows the order, from before it is recorded.  *)
FileOf(o) == [order |-> o, amount |-> order[o].amount]

FilesFit ==
  /\ \A o \in Orders \ (disturbed \cup contested) :
       po[o] # 0 => shelf[po[o]] = FileOf(o)
  /\ \A d \in Desks :
       At(d, "record") /\ desk[d].order \notin disturbed \cup contested =>
         shelf[desk[d].read.number] = FileOf(desk[d].order)

(* A handler of an invoice has one; who says it was sent has mailed.       *)
InvoicesKnown ==
  /\ \A o \in Orders : invoice[o] # NoPaper /\ invoice[o].status # "DRAFT" =>
       billed[o] # 0
  /\ \A d \in Desks : desk[d] # NoTask /\ desk[d].do \in InvoiceSteps =>
       /\ invoice[desk[d].order] # NoPaper
       /\ desk[d].do \in {"sent", "ack", "reject"} => billed[desk[d].order] # 0

(* What handlers that are not late know, and what the mails said.          *)
InvoicesFit ==
  \A o \in Orders \ overtaken :
    /\ invoice[o] # NoPaper
       /\ invoice[o].status \in {"SENT_TO_SUPPLIER", "APPROVED_BY_SUPPLIER"} =>
         billed[o] = invoice[o].amount
    /\ \A d \in Desks :
         desk[d] # NoTask /\ desk[d].do \in InvoiceSteps
         /\ desk[d].order = o /\ ~desk[d].late =>
           /\ desk[d].do = "mail" => desk[d].read = invoice[o].amount
           /\ desk[d].do = "sent" => billed[o] = invoice[o].amount
           /\ desk[d].do = "ack" => invoice[o].status = "SENT_TO_SUPPLIER"

PurchaseInv ==
  /\ OrderInv
  /\ PaperShape
  /\ PapersCovered
  /\ AmountsSettled
  /\ NumbersApart
  /\ FilesFit
  /\ InvoicesKnown
  /\ InvoicesFit

-----------------------------------------------------------------------------
(* What the orders' steps leave to the papers.                             *)

(* A deduction is never taken off an order again.                          *)
LEMMA DeductionStays ==
  ASSUME OrderInv, OrderNext, NEW k \in Orders, deductMaterial[k] # NoRow
  PROVE  deductMaterial'[k] # NoRow
<1>1. ASSUME UNCHANGED ledgerVars PROVE deductMaterial'[k] # NoRow
  BY <1>1 DEF ledgerVars, ledgerRows
<1>2. ASSUME NEW o \in Orders, RefundForOrder(o) PROVE deductMaterial'[k] # NoRow
  BY <1>1, <1>2 DEF RefundForOrder
<1>3. ASSUME NEW o \in Orders, NEW p \in Projects, NEW a \in Nat \ {0},
             DeductForOrder(o, p, a)
      PROVE  deductMaterial'[k] # NoRow
  <2>1. CASE deductMaterial[o] # NoRow
    BY <1>1, <1>3, <2>1 DEF DeductForOrder
  <2>2. CASE deductMaterial[o] = NoRow
    <3>1. o # k /\ deductMaterial \in [Orders -> Row \cup {NoRow}]
      BY <2>2 DEF OrderInv, LedgerInv, TypeOK
    <3>2. deductMaterial' =
            [deductMaterial EXCEPT ![o] = [project |-> p, amount |-> a]]
      BY <1>3, <2>2 DEF DeductForOrder
    <3>3. QED
      BY <3>1, <3>2
  <2>3. QED
    BY <2>1, <2>2
<1>4. CASE OrderStep
  BY <1>1, <1>2, <1>4
     DEF OrderStep, SubmitPrice, Cancel, FinanceProcess, VerifyItems,
         ReportMismatch, Start, Submit, Write, WriteAmid, AdminStockSubmit,
         OpsApprove, OpsReject, GmReject, ConfirmReceipt, FulfillFromReceipt,
         Abandon
<1>5. ASSUME NEW o \in Orders, GmApprove(o) PROVE deductMaterial'[k] # NoRow
  <2>1. CASE order[o].amount > 0
    <3>1. ProjectOf[o] \in Projects /\ order[o].amount \in Nat \ {0}
      BY <2>1, OrderAssumption DEF OrderInv, OrderRow, Orders
    <3>2. DeductForOrder(o, ProjectOf[o], order[o].amount)
      BY <1>5, <2>1 DEF GmApprove
    <3>3. QED
      BY <1>3, <3>1, <3>2
  <2>2. CASE ~(order[o].amount > 0)
    BY <1>1, <1>5, <2>2 DEF GmApprove
  <2>3. QED
    BY <2>1, <2>2
<1>6. QED
  BY <1>4, <1>5 DEF OrderNext

(* A settled order stays settled, at its amount.                           *)
LEMMA SettledStays ==
  ASSUME OrderInv, OrderNext, NEW k \in Orders, k \notin disturbed',
         order[k].status \in Settled
  PROVE  /\ k \notin disturbed
         /\ order'[k].status \in Settled
         /\ order'[k].amount = order[k].amount
<1> USE DEF OrderInv
<1>1. order[k] \in OrderRow /\ order \in [Orders -> OrderRow]
  OBVIOUS
<1>2. ASSUME NEW i \in inFlight, NEW row, NEW others, WriteAmid(i, row, others),
             i.seen \in Uncharged
      PROVE  k \notin disturbed /\ order'[k] = order[k]
  <2>1. i.order \in Orders
    BY DEF HandlersOK, HandlerRecord
  <2>2. k = i.order => k \in disturbed'
    BY <1>2, <2>1 DEF WriteAmid, Uncharged, AdminStockStatuses, Settled, Paid
  <2>3. QED
    BY <1>1, <1>2, <2>1, <2>2 DEF WriteAmid
<1>3. ASSUME NEW i \in inFlight, Submit(i)
      PROVE  k \notin disturbed /\ order'[k] = order[k]
  <2>1. i.seen \in Uncharged
    BY <1>3 DEF Submit, HandlersOK, SawWhatItAccepts, Uncharged, AdminStockStatuses
  <2>2. QED
    BY <1>2, <1>3, <2>1 DEF Submit, Write
<1>4. ASSUME NEW i \in inFlight,
             AdminStockSubmit(i) \/ OpsApprove(i) \/ OpsReject(i) \/ GmReject(i)
      PROVE  k \notin disturbed /\ order'[k] = order[k]
  <2>1. i.seen \in Uncharged
    BY <1>4 DEF AdminStockSubmit, OpsApprove, OpsReject, GmReject, HandlersOK,
                SawWhatItAccepts, Uncharged
  <2>2. QED
    BY <1>2, <1>4, <2>1 DEF AdminStockSubmit, OpsApprove, OpsReject, GmReject, Write
<1>5. ASSUME NEW o \in Orders, GmApprove(o) \/ Cancel(o) \/ FinanceProcess(o)
                               \/ VerifyItems(o) \/ ReportMismatch(o)
      PROVE  /\ k \notin disturbed /\ order'[k].status \in Settled
             /\ order'[k].amount = order[k].amount
  BY <1>1, <1>5 DEF GmApprove, Cancel, FinanceProcess, VerifyItems,
                    ReportMismatch, Settled, Paid, OrderRow
<1>6. ASSUME NEW o \in Orders, NEW a, SubmitPrice(o, a)
      PROVE  k \notin disturbed /\ order'[k] = order[k]
  BY <1>1, <1>6 DEF SubmitPrice, Settled, Paid
<1>7. ASSUME NEW o \in Orders, NEW h, Start(h, o)
      PROVE  k \notin disturbed /\ order'[k] = order[k]
  BY <1>7 DEF Start
<1>8. ASSUME NEW i \in inFlight, Abandon(i)
      PROVE  k \notin disturbed /\ order'[k] = order[k]
  BY <1>8 DEF Abandon
<1>9. ASSUME NEW i \in inFlight, ConfirmReceipt(i) \/ FulfillFromReceipt(i)
      PROVE  /\ k \notin disturbed /\ order'[k].status \in Settled
             /\ order'[k].amount = order[k].amount
  <2>1. i.order \in Orders
    BY DEF HandlersOK, HandlerRecord
  <2>2. QED
    BY <1>1, <1>9, <2>1 DEF ConfirmReceipt, FulfillFromReceipt, Settled, OrderRow
<1>10. QED
  BY <1>3, <1>4, <1>5, <1>6, <1>7, <1>8, <1>9 DEF OrderNext, OrderStep

(* What a task is follows from its step.                                   *)
LEMMA TaskKinds ==
  ASSUME PaperShape, NEW d \in Desks, desk[d] # NoTask
  PROVE  /\ desk[d].order \in Orders
         /\ DrawsPo(d) => desk[d] \in PoTask
         /\ desk[d].do \in InvoiceSteps => desk[d] \in InvoiceTask
         /\ desk[d].do \in InvoiceSteps => ~DrawsPo(d)
  BY DEF PaperShape, Task, PoTask, InvoiceTask, DrawsPo, HasBuilt, At, PoSteps,
         InvoiceSteps

-----------------------------------------------------------------------------
(* Steps that leave the purchase orders, or the invoices, alone.           *)

PoInv ==
  /\ po \in [Orders -> Numbers \cup {0}]
  /\ shelf \in [Numbers -> Pdf \cup {NoPaper}]
  /\ posted \in [Orders -> Pdf \cup {NoPaper}]
  /\ contested \subseteq Orders
  /\ \A d \in Desks : HasDrawn(d) => desk[d].read.number # 0
  /\ PapersCovered
  /\ AmountsSettled
  /\ NumbersApart
  /\ FilesFit

InvoiceInv ==
  /\ invoice \in [Orders -> Invoice \cup {NoPaper}]
  /\ billed \in [Orders -> Amounts \cup {0}]
  /\ overtaken \subseteq Orders
  /\ InvoicesKnown
  /\ InvoicesFit

(* The invariant as its three independent parts and the type of the        *)
(* desks.                                                                  *)
LEMMA PurchaseInvParts ==
  PurchaseInv <=> /\ OrderInv /\ PoInv /\ InvoiceInv
                  /\ desk \in [Desks -> Task \cup {NoTask}]
  BY DEF PurchaseInv, PaperShape, PoInv, InvoiceInv

(* The same of the next state.                                             *)
LEMMA PurchaseInvNext ==
  ASSUME OrderInv', PoInv', InvoiceInv', desk' \in [Desks -> Task \cup {NoTask}]
  PROVE  PurchaseInv'
  BY DEF PurchaseInv, PaperShape, PoInv, InvoiceInv

(* No desk has another purchase order in hand than before.                 *)
LEMMA PoFrame ==
  ASSUME PoInv, UNCHANGED <<vars, po, shelf, posted, contested>>,
         \A e \in Desks : DrawsPo(e)' => desk'[e] = desk[e]
  PROVE  PoInv'
<1>1. UNCHANGED <<deductMaterial, order, disturbed>>
  BY DEF vars, ledgerVars, ledgerRows, orderVars
<1>2. \A e \in Desks :
        /\ DrawsPo(e)' => DrawsPo(e) /\ desk'[e] = desk[e]
        /\ HasBuilt(e)' => HasBuilt(e) /\ desk'[e] = desk[e]
        /\ HasDrawn(e)' => HasDrawn(e) /\ desk'[e] = desk[e]
        /\ At(e, "record")' => At(e, "record") /\ desk'[e] = desk[e]
  BY DEF DrawsPo, HasBuilt, HasDrawn, At
<1>3. PapersCovered'
  BY <1>1, <1>2 DEF PoInv, PapersCovered, IsCovered
<1>4. AmountsSettled'
  BY <1>1, <1>2 DEF PoInv, AmountsSettled
<1>5. \A o \in Orders, n \in Numbers : Holds(o, n)' => Holds(o, n)
  BY <1>2 DEF Holds, Drew, HasDrawn
<1>6. NumbersApart'
  BY <1>5 DEF PoInv, NumbersApart
<1>7. FilesFit'
  BY <1>1, <1>2 DEF PoInv, FilesFit, FileOf
<1>8. QED
  BY <1>2, <1>3, <1>4, <1>6, <1>7 DEF PoInv

(* No desk has another invoice in hand than before.                        *)
LEMMA InvoiceFrame ==
  ASSUME InvoiceInv, UNCHANGED <<invoice, billed, overtaken>>,
         \A e \in Desks : desk'[e] # NoTask /\ desk'[e].do \in InvoiceSteps =>
           desk'[e] = desk[e]
  PROVE  InvoiceInv'
<1>1. InvoicesKnown'
  BY DEF InvoiceInv, InvoicesKnown
<1>2. InvoicesFit'
  BY DEF InvoiceInv, InvoicesFit
<1>3. QED
  BY <1>1, <1>2 DEF InvoiceInv

(* A desk turns to a task of purchase orders, or to nothing.               *)
LEMMA InvoicesWaitForPo ==
  ASSUME PurchaseInv, NEW d \in Desks, NEW task \in PoTask \cup {NoTask},
         desk' = [desk EXCEPT ![d] = task],
         UNCHANGED <<invoice, billed, overtaken>>
  PROVE  InvoiceInv' /\ desk' \in [Desks -> Task \cup {NoTask}]
<1>1. desk \in [Desks -> Task \cup {NoTask}] /\ InvoiceInv
  BY PurchaseInvParts
<1>2. task \in Task \cup {NoTask}
  BY DEF PoTask, Task
<1>3. task # NoTask => task.do \notin InvoiceSteps
  BY DEF PoTask, PoSteps, InvoiceSteps
<1>4. \A e \in Desks : desk'[e] # NoTask /\ desk'[e].do \in InvoiceSteps =>
        desk'[e] = desk[e]
  BY <1>1, <1>3
<1>5. QED
  BY <1>1, <1>2, <1>4, InvoiceFrame

-----------------------------------------------------------------------------
(* An order moves.                                                         *)

(* The GM's approval puts a fresh purchase order on a desk.                *)
LEMMA GmApproveWithPoKeeps ==
  ASSUME PurchaseInv, NEW o \in Orders, NEW d \in Desks, GmApproveWithPo(o, d)
  PROVE  PurchaseInv'
<1> DEFINE task == [do |-> "check", order |-> o, read |-> NothingDrafted]
<1>1. OrderInv /\ OrderInv' /\ OrderNext
  BY PurchaseInvParts, GmApproveKeeps DEF GmApproveWithPo, OrderNext
<1>2. /\ PoInv /\ desk \in [Desks -> Task \cup {NoTask}]
      /\ desk' = [desk EXCEPT ![d] = task]
      /\ UNCHANGED <<po, shelf, invoice, posted, billed, contested, overtaken>>
  BY PurchaseInvParts DEF GmApproveWithPo, BeginPo, Take
<1>3. task \in PoTask
  BY DEF PoTask, PoSteps, Draft, NothingDrafted
<1>4. InvoiceInv' /\ desk' \in [Desks -> Task \cup {NoTask}]
  BY <1>2, <1>3, InvoicesWaitForPo
<1>5. \A e \in Desks :
        /\ DrawsPo(e)' => e = d \/ (DrawsPo(e) /\ desk'[e] = desk[e])
        /\ HasBuilt(e)' => HasBuilt(e) /\ desk'[e] = desk[e]
        /\ HasDrawn(e)' => HasDrawn(e) /\ desk'[e] = desk[e]
        /\ At(e, "record")' => At(e, "record") /\ desk'[e] = desk[e]
  BY <1>2 DEF DrawsPo, HasBuilt, HasDrawn, At
<1>6. PapersCovered'
  <2>1. \A k \in Orders : deductMaterial[k] # NoRow => deductMaterial'[k] # NoRow
    BY <1>1, DeductionStays
  <2>2. /\ \A n \in Numbers : shelf[n] # NoPaper => shelf[n].order \in Orders
        /\ \A k \in Orders : posted[k] # NoPaper => posted[k].order \in Orders
        /\ \A e \in Desks : HasBuilt(e) => desk[e].order \in Orders
    BY <1>2, TaskKinds DEF PurchaseInv, PoInv, Pdf, HasBuilt, At
  <2>3. QED
    BY <1>2, <1>5, <2>1, <2>2 DEF PoInv, PapersCovered, IsCovered
<1>7. AmountsSettled'
  <2>1. \A k \in Orders : k \notin disturbed' /\ order[k].status \in Settled =>
          /\ k \notin disturbed /\ order'[k].status \in Settled
          /\ order'[k].amount = order[k].amount
    BY <1>1, SettledStays
  <2>2. disturbed' = disturbed /\ order'[o].status \in Settled
    BY DEF GmApproveWithPo, GmApprove, PurchaseInv, OrderInv, Settled, Paid, OrderRow
  <2>3. ASSUME NEW k \in Orders, k \notin disturbed', po'[k] # 0
        PROVE  order'[k].status \in Settled
    BY <1>2, <2>1, <2>2, <2>3 DEF PoInv, AmountsSettled
  <2>4. ASSUME NEW e \in Desks, DrawsPo(e)', desk'[e].order \notin disturbed'
        PROVE  /\ order'[desk'[e].order].status \in Settled
               /\ HasBuilt(e)' => desk'[e].read.amount = order'[desk'[e].order].amount
    <3>1. CASE e = d
      <4>1. desk'[e].order = o /\ ~HasBuilt(e)'
        BY <3>1, <1>2 DEF HasBuilt, At
      <4>2. QED
        BY <2>2, <4>1
    <3>2. CASE e # d
      <4>1. DrawsPo(e) /\ desk'[e] = desk[e]
        BY <3>2, <1>5, <2>4
      <4>2. desk[e].order \in Orders
        BY <4>1, TaskKinds DEF PurchaseInv, DrawsPo, HasBuilt, At
      <4>3. HasBuilt(e)' => HasBuilt(e)
        BY <1>5
      <4>4. QED
        BY <1>2, <2>1, <2>2, <2>4, <4>1, <4>2, <4>3 DEF PoInv, AmountsSettled
    <3>3. QED
      BY <3>1, <3>2
  <2>5. QED
    BY <2>3, <2>4 DEF AmountsSettled
<1>8. NumbersApart'
  <2>1. \A k \in Orders, n \in Numbers : Holds(k, n)' => Holds(k, n)
    BY <1>2, <1>5 DEF Holds, Drew, HasDrawn
  <2>2. QED
    BY <1>2, <2>1 DEF PoInv, NumbersApart
<1>9. FilesFit'
  <2>1. \A k \in Orders : k \notin disturbed' /\ order[k].status \in Settled =>
          k \notin disturbed /\ FileOf(k)' = FileOf(k)
    BY <1>1, SettledStays DEF FileOf
  <2>2. disturbed' = disturbed
    BY DEF GmApproveWithPo, GmApprove
  <2>3. \A e \in Desks : At(e, "record") =>
          DrawsPo(e) /\ desk[e].order \in Orders
    BY TaskKinds DEF PurchaseInv, At, DrawsPo, HasBuilt
  <2>4. QED
    BY <1>2, <1>5, <2>1, <2>2, <2>3 DEF PoInv, FilesFit, AmountsSettled
<1>10. PoInv'
  BY <1>2, <1>5, <1>6, <1>7, <1>8, <1>9 DEF PoInv
<1>11. QED
  BY <1>1, <1>4, <1>10, PurchaseInvNext

(* Any other step of an order.                                             *)
LEMMA OrderStepKeepsPapers ==
  ASSUME PurchaseInv, OrderStep, UNCHANGED paperVars
  PROVE  PurchaseInv'
<1>1. OrderInv /\ OrderInv' /\ OrderNext
  BY PurchaseInvParts, OrderStepInv DEF OrderNext
<1>2. /\ PoInv /\ InvoiceInv /\ desk \in [Desks -> Task \cup {NoTask}]
      /\ UNCHANGED <<po, shelf, invoice, posted, billed, desk, contested, overtaken>>
  BY PurchaseInvParts DEF paperVars
<1>3. InvoiceInv'
  BY <1>2, InvoiceFrame
<1>4. \A e \in Desks :
        /\ DrawsPo(e)' <=> DrawsPo(e)
        /\ HasBuilt(e)' <=> HasBuilt(e)
        /\ HasDrawn(e)' <=> HasDrawn(e)
        /\ At(e, "record")' <=> At(e, "record")
        /\ DrawsPo(e) => desk[e].order \in Orders
        /\ HasBuilt(e) => DrawsPo(e)
        /\ At(e, "record") => DrawsPo(e)
  BY <1>2, TaskKinds DEF PurchaseInv, DrawsPo, HasBuilt, HasDrawn, At
<1>5. PapersCovered'
  <2>1. \A k \in Orders : deductMaterial[k] # NoRow => deductMaterial'[k] # NoRow
    BY <1>1, DeductionStays
  <2>2. /\ \A n \in Numbers : shelf[n] # NoPaper => shelf[n].order \in Orders
        /\ \A k \in Orders : posted[k] # NoPaper => posted[k].order \in Orders
    BY <1>2 DEF PoInv, Pdf
  <2>3. QED
    BY <1>2, <1>4, <2>1, <2>2 DEF PoInv, PapersCovered, IsCovered
<1>6. disturbed \subseteq disturbed'
  BY DEF OrderStep, SubmitPrice, Cancel, FinanceProcess, VerifyItems,
         ReportMismatch, Start, Submit, Write, WriteAmid, AdminStockSubmit,
         OpsApprove, OpsReject, GmReject, ConfirmReceipt, FulfillFromReceipt,
         Abandon
<1>7. \A k \in Orders : k \notin disturbed' /\ order[k].status \in Settled =>
        /\ k \notin disturbed /\ order'[k].status \in Settled
        /\ order'[k].amount = order[k].amount
  BY <1>1, SettledStays
<1>8. AmountsSettled'
  <2>1. ASSUME NEW k \in Orders, k \notin disturbed', po'[k] # 0
        PROVE  order'[k].status \in Settled
    BY <1>2, <1>6, <1>7, <2>1 DEF PoInv, AmountsSettled
  <2>2. ASSUME NEW e \in Desks, DrawsPo(e)', desk'[e].order \notin disturbed'
        PROVE  /\ order'[desk'[e].order].status \in Settled
               /\ HasBuilt(e)' => desk'[e].read.amount = order'[desk'[e].order].amount
    <3>1. DrawsPo(e) /\ desk[e].order \in Orders /\ desk[e].order \notin disturbed
      BY <1>2, <1>4, <1>6, <2>2
    <3>2. /\ order[desk[e].order].status \in Settled
          /\ HasBuilt(e) => desk[e].read.amount = order[desk[e].order].amount
      BY <1>2, <3>1 DEF PoInv, AmountsSettled
    <3>3. QED
      BY <1>2, <1>4, <1>7, <2>2, <3>1, <3>2
  <2>3. QED
    BY <2>1, <2>2 DEF AmountsSettled
<1>9. NumbersApart'
  <2>1. \A k \in Orders, n \in Numbers : Holds(k, n)' <=> Holds(k, n)
    BY <1>2 DEF Holds, Drew, At
  <2>2. QED
    BY <1>2, <2>1 DEF PoInv, NumbersApart
<1>10. FilesFit'
  <2>1. \A k \in Orders : k \notin disturbed' /\ order[k].status \in Settled =>
          FileOf(k)' = FileOf(k)
    BY <1>7 DEF FileOf
  <2>2. QED
    BY <1>2, <1>4, <1>6, <2>1 DEF PoInv, FilesFit, AmountsSettled
<1>11. PoInv'
  BY <1>2, <1>4, <1>5, <1>8, <1>9, <1>10 DEF PoInv
<1>12. QED
  BY <1>1, <1>2, <1>3, <1>11, PurchaseInvNext

-----------------------------------------------------------------------------
(* A purchase order is drawn up.                                           *)

(* A desk drops its purchase order, or begins to build it.                 *)
LEMMA CheckPoKeeps ==
  ASSUME PurchaseInv, UNCHANGED vars, NEW d \in Desks, CheckPo(d)
  PROVE  PurchaseInv'
<1>1. /\ OrderInv /\ PoInv /\ desk \in [Desks -> Task \cup {NoTask}]
      /\ UNCHANGED <<po, shelf, invoice, posted, billed, contested, overtaken>>
      /\ desk[d] # NoTask /\ desk[d].do = "check"
  BY PurchaseInvParts DEF CheckPo, At
<1>2. OrderInv'
  BY <1>1, OrderStutter
<1>3. desk[d] \in PoTask
  BY <1>1, TaskKinds DEF PurchaseInv, DrawsPo, At
<1>4. \E task \in PoTask \cup {NoTask} :
        /\ desk' = [desk EXCEPT ![d] = task]
        /\ task = NoTask \/ (task.do = "build" /\ task.order = desk[d].order)
  BY <1>1, <1>3 DEF CheckPo, Done, GoesTo, PoTask, PoSteps
<1>5. PICK task \in PoTask \cup {NoTask} :
        /\ desk' = [desk EXCEPT ![d] = task]
        /\ task = NoTask \/ (task.do = "build" /\ task.order = desk[d].order)
  BY <1>4
<1>6. InvoiceInv' /\ desk' \in [Desks -> Task \cup {NoTask}]
  BY <1>1, <1>5, InvoicesWaitForPo
<1>7. \A e \in Desks :
        /\ DrawsPo(e)' => DrawsPo(e) /\ desk'[e].order = desk[e].order
        /\ HasBuilt(e)' => HasBuilt(e) /\ desk'[e] = desk[e]
        /\ HasDrawn(e)' => HasDrawn(e) /\ desk'[e] = desk[e]
        /\ At(e, "record")' => At(e, "record") /\ desk'[e] = desk[e]
  BY <1>1, <1>5 DEF DrawsPo, HasBuilt, HasDrawn, At
<1>8. UNCHANGED <<deductMaterial, order, disturbed>>
  BY DEF vars, ledgerVars, ledgerRows, orderVars
<1>9. PapersCovered'
  BY <1>1, <1>7, <1>8 DEF PoInv, PapersCovered, IsCovered
<1>10. AmountsSettled'
  BY <1>1, <1>7, <1>8 DEF PoInv, AmountsSettled
<1>11. NumbersApart'
  <2>1. \A k \in Orders, n \in Numbers : Holds(k, n)' => Holds(k, n)
    BY <1>1, <1>7 DEF Holds, Drew, HasDrawn
  <2>2. QED
    BY <1>1, <2>1 DEF PoInv, NumbersApart
<1>12. FilesFit'
  BY <1>1, <1>7, <1>8 DEF PoInv, FilesFit, FileOf
<1>13. PoInv'
  BY <1>1, <1>7, <1>9, <1>10, <1>11, <1>12 DEF PoInv
<1>14. QED
  BY <1>2, <1>6, <1>13, PurchaseInvNext

(* What is built is the order as it stands, and the order is paid for.     *)
LEMMA BuildPoKeeps ==
  ASSUME PurchaseInv, UNCHANGED vars, NEW d \in Desks, BuildPo(d)
  PROVE  PurchaseInv'
<1> DEFINE o == desk[d].order
<1>1. /\ OrderInv /\ PoInv /\ desk \in [Desks -> Task \cup {NoTask}]
      /\ UNCHANGED <<po, shelf, invoice, posted, billed, contested, overtaken>>
      /\ desk[d] # NoTask /\ desk[d].do = "build"
  BY PurchaseInvParts DEF BuildPo, At
<1>2. OrderInv'
  BY <1>1, OrderStutter
<1>3. desk[d] \in PoTask /\ o \in Orders
  BY <1>1, TaskKinds DEF PurchaseInv, DrawsPo, At
<1>4. order[o].amount \in Nat /\ po[o] \in Numbers \cup {0}
  BY <1>1, <1>3 DEF OrderInv, OrderRow, PoInv
<1>5. PICK task \in PoTask \cup {NoTask} :
        /\ desk' = [desk EXCEPT ![d] = task]
        /\ \/ task = NoTask
           \/ /\ task.do = "number" /\ task.order = o
              /\ task.read.amount = order[o].amount
              /\ order[o].status \in Paid
  <2>1. CASE order[o].status \in {"PENDING_PAYMENT_RECEIPT", "PURCHASED"}
    <3> DEFINE new == [do |-> "number", order |-> o,
                       read |-> [number |-> po[o], amount |-> order[o].amount]]
    <3>1. new \in PoTask
      BY <1>3, <1>4 DEF PoTask, PoSteps, Draft
    <3>2. desk' = [desk EXCEPT ![d] = new]
      BY <1>1, <1>3, <2>1 DEF BuildPo, PoTask
    <3>3. /\ new.do = "number" /\ new.order = o
          /\ new.read.amount = order[o].amount /\ order[o].status \in Paid
      BY <2>1 DEF Paid
    <3> HIDE DEF new
    <3>4. QED
      BY <3>1, <3>2, <3>3
  <2>2. CASE order[o].status \notin {"PENDING_PAYMENT_RECEIPT", "PURCHASED"}
    BY <2>2 DEF BuildPo, Done
  <2>3. QED
    BY <2>1, <2>2
<1> HIDE DEF o
<1>6. InvoiceInv' /\ desk' \in [Desks -> Task \cup {NoTask}]
  BY <1>1, <1>5, InvoicesWaitForPo
<1>7. \A e \in Desks :
        /\ DrawsPo(e)' => DrawsPo(e) /\ desk'[e].order = desk[e].order
        /\ HasBuilt(e)' => \/ HasBuilt(e) /\ desk'[e] = desk[e]
                           \/ /\ e = d /\ desk'[e].read.amount = order[o].amount
                              /\ desk'[e].order = o
                              /\ order[o].status \in Paid
        /\ HasDrawn(e)' => HasDrawn(e) /\ desk'[e] = desk[e]
        /\ At(e, "record")' => At(e, "record") /\ desk'[e] = desk[e]
  BY <1>1, <1>5 DEF DrawsPo, HasBuilt, HasDrawn, At, o
<1>8. UNCHANGED <<deductMaterial, order, disturbed>>
  BY DEF vars, ledgerVars, ledgerRows, orderVars
<1>9. PapersCovered'
  <2>1. order[o].status \in Paid => IsCovered(o, order[o].amount)
    BY <1>1, <1>3 DEF OrderInv, PaidOrdersWereCharged, IsCovered, o
  <2>2. QED
    BY <1>1, <1>7, <1>8, <2>1 DEF PoInv, PapersCovered, IsCovered
<1>10. AmountsSettled'
  BY <1>1, <1>7, <1>8 DEF PoInv, AmountsSettled, Settled
<1>11. NumbersApart'
  <2>1. \A k \in Orders, n \in Numbers : Holds(k, n)' => Holds(k, n)
    BY <1>1, <1>7 DEF Holds, Drew, HasDrawn
  <2>2. QED
    BY <1>1, <2>1 DEF PoInv, NumbersApart
<1>12. FilesFit'
  BY <1>1, <1>7, <1>8 DEF PoInv, FilesFit, FileOf
<1>13. PoInv'
  BY <1>1, <1>7, <1>9, <1>10, <1>11, <1>12 DEF PoInv
<1>14. QED
  BY <1>2, <1>6, <1>13, PurchaseInvNext

(* The number drawn after the last one is nobody's yet: the greatest       *)
(* number on record exists, being the least number that none exceeds.      *)
LEMMA LastNumberFacts ==
  ASSUME po \in [Orders -> Numbers \cup {0}]
  PROVE  /\ LastNumber \in Numbers \cup {0}
         /\ \A o \in Orders : po[o] <= LastNumber
<1> DEFINE Bounds == {k \in 0..MaxNumber : \A o \in Orders : po[o] <= k}
           IsLast(n) == /\ n = 0 \/ \E o \in Orders : po[o] = n
                        /\ \A o \in Orders : po[o] <= n
<1>1. MaxNumber \in Nat /\ Numbers \cup {0} = 0..MaxNumber
  BY PaperAssumption DEF Numbers
<1>2. MaxNumber \in Bounds /\ Bounds \subseteq Nat
  BY <1>1
<1>3. PICK m \in Bounds : \A k \in Bounds : m <= k
  <2> HIDE DEF Bounds
  <2>1. QED
    BY <1>2, LeastElement
<1>4. m = 0 \/ \E o \in Orders : po[o] = m
  <2> SUFFICES ASSUME m # 0, \A o \in Orders : po[o] # m PROVE FALSE
    OBVIOUS
  <2>1. \A o \in Orders : po[o] \in 0..MaxNumber
    BY <1>1
  <2>2. m - 1 \in Bounds
    BY <1>1, <2>1
  <2>3. QED
    BY <1>3, <2>2
<1>5. \E n \in Numbers \cup {0} : IsLast(n)
  BY <1>1, <1>3, <1>4
<1>6. LastNumber = CHOOSE n \in Numbers \cup {0} : IsLast(n)
  BY DEF LastNumber
<1> HIDE DEF IsLast
<1>7. LastNumber \in Numbers \cup {0} /\ IsLast(LastNumber)
  BY <1>5, <1>6
<1>8. QED
  BY <1>7 DEF IsLast

(* A PO is given its own number or the one after the last: nobody else's,  *)
(* unless another desk holds that number unstored, which makes them        *)
(* rivals.                                                                 *)
LEMMA NumberPoKeeps ==
  ASSUME PurchaseInv, UNCHANGED vars, NEW d \in Desks, NumberPo(d)
  PROVE  PurchaseInv'
<1> DEFINE o == desk[d].order
           own == desk[d].read.number
           n == IF own # 0 THEN own ELSE LastNumber + 1
           task == [desk[d] EXCEPT !.do = "store", !.read.number = n]
<1>1. /\ OrderInv /\ PoInv /\ desk \in [Desks -> Task \cup {NoTask}]
      /\ UNCHANGED <<po, shelf, invoice, posted, billed, overtaken>>
      /\ desk[d] # NoTask /\ desk[d].do = "number" /\ n <= MaxNumber
      /\ desk' = [desk EXCEPT ![d] = task]
  BY PurchaseInvParts DEF NumberPo, At
<1>2. OrderInv'
  BY <1>1, OrderStutter
<1>3. /\ desk[d] \in PoTask /\ o \in Orders /\ own \in Numbers \cup {0}
      /\ HasBuilt(d)
  BY <1>1, TaskKinds DEF PurchaseInv, DrawsPo, HasBuilt, At, PoTask, Draft
<1>4. /\ LastNumber \in Numbers \cup {0} /\ MaxNumber \in Nat
      /\ \A x \in Orders : po[x] <= LastNumber /\ po[x] \in Numbers \cup {0}
  BY <1>1, LastNumberFacts, PaperAssumption DEF PoInv
<1>5. n \in Numbers /\ n # 0 /\ (own = 0 => \A x \in Orders : po[x] # n)
  BY <1>1, <1>3, <1>4 DEF Numbers
<1>6. /\ task \in PoTask /\ task.do = "store" /\ task.order = o
      /\ task.read.number = n /\ task.read.amount = desk[d].read.amount
  BY <1>3, <1>5 DEF PoTask, PoSteps, Draft
<1>7. /\ contested' = IF Rivals(o, own, n) = {} THEN contested
                      ELSE contested \cup Rivals(o, own, n) \cup {o}
      /\ Rivals(o, own, n) \subseteq Orders
  BY DEF NumberPo, Rivals
<1>8. contested \subseteq contested' /\ contested' \subseteq Orders
  BY <1>1, <1>3, <1>7 DEF PoInv
<1> HIDE DEF o, own, n, task
<1>9. InvoiceInv' /\ desk' \in [Desks -> Task \cup {NoTask}]
  BY <1>1, <1>6, InvoicesWaitForPo
<1>10. \A e \in Desks :
         /\ DrawsPo(e)' => DrawsPo(e) /\ desk'[e].order = desk[e].order
         /\ HasBuilt(e)' => HasBuilt(e) /\ desk'[e].read.amount = desk[e].read.amount
         /\ HasDrawn(e)' => e = d \/ (HasDrawn(e) /\ desk'[e] = desk[e])
         /\ At(e, "record")' => At(e, "record") /\ desk'[e] = desk[e]
         /\ HasBuilt(e)' => DrawsPo(e)'
  BY <1>1, <1>3, <1>6 DEF DrawsPo, HasBuilt, HasDrawn, At, o
<1>11. UNCHANGED <<deductMaterial, order, disturbed>>
  BY DEF vars, ledgerVars, ledgerRows, orderVars
<1>12. PapersCovered'
  BY <1>1, <1>10, <1>11 DEF PoInv, PapersCovered, IsCovered
<1>13. AmountsSettled'
  BY <1>1, <1>10, <1>11 DEF PoInv, AmountsSettled
<1>14. desk'[d] = task
  BY <1>1
<1>15. NumbersApart'
  <2>1. ASSUME NEW x \in Orders, NEW m \in Numbers, Holds(x, m)'
        PROVE  Holds(x, m) \/ (x = o /\ m = n)
    BY <1>1, <1>6, <1>10, <1>14, <2>1 DEF Holds, Drew, HasDrawn
  <2>2. ASSUME NEW x \in Orders, x # o, Holds(x, n) PROVE x \in Rivals(o, own, n)
    BY <1>5, <2>2 DEF Holds, Rivals
  <2>3. ASSUME NEW k \in Orders, k \notin contested', NEW x \in Orders,
               NEW m \in Numbers, Holds(k, m)', Holds(x, m)'
        PROVE  x = k
    <3>1. CASE Holds(k, m) /\ Holds(x, m)
      BY <1>1, <1>8, <2>3, <3>1 DEF PoInv, NumbersApart
    <3>2. CASE k = o /\ m = n /\ Holds(x, n)
      BY <1>7, <2>2, <2>3, <3>2
    <3>3. CASE x = o /\ m = n /\ Holds(k, n)
      BY <1>7, <2>2, <2>3, <3>3
    <3>4. QED
      BY <2>1, <2>3, <3>1, <3>2, <3>3
  <2>4. QED
    BY <2>3 DEF NumbersApart
<1>16. FilesFit'
  BY <1>1, <1>8, <1>10, <1>11 DEF PoInv, FilesFit, FileOf
<1>17. PoInv'
  <2>1. \A e \in Desks : HasDrawn(e)' => desk'[e].read.number # 0
    BY <1>1, <1>5, <1>6, <1>10, <1>14 DEF PoInv
  <2>2. QED
    BY <1>1, <1>8, <1>12, <1>13, <1>15, <1>16, <2>1 DEF PoInv
<1>18. QED
  BY <1>2, <1>9, <1>17, PurchaseInvNext

(* The file replaces another one only if its order is contested.           *)
LEMMA StorePoKeeps ==
  ASSUME PurchaseInv, UNCHANGED vars, NEW d \in Desks, StorePo(d)
  PROVE  PurchaseInv'
<1> DEFINE o == desk[d].order
           n == desk[d].read.number
           pdf == [order |-> o, amount |-> desk[d].read.amount]
           task == [desk[d] EXCEPT !.do = "record"]
<1>1. /\ OrderInv /\ PoInv /\ desk \in [Desks -> Task \cup {NoTask}]
      /\ UNCHANGED <<po, invoice, posted, billed, contested, overtaken>>
      /\ desk[d] # NoTask /\ desk[d].do = "store"
      /\ desk' = [desk EXCEPT ![d] = task]
      /\ shelf' = [shelf EXCEPT ![n] = pdf]
  BY PurchaseInvParts DEF StorePo, At, GoesTo
<1>2. OrderInv'
  BY <1>1, OrderStutter
<1>3. /\ desk[d] \in PoTask /\ o \in Orders /\ n \in Numbers /\ pdf \in Pdf
      /\ HasBuilt(d) /\ DrawsPo(d) /\ Drew(o, n)
  <2>1. HasBuilt(d) /\ DrawsPo(d) /\ HasDrawn(d) /\ Drew(o, n)
    BY <1>1 DEF DrawsPo, HasBuilt, HasDrawn, At, Drew
  <2>2. desk[d] \in PoTask /\ n # 0
    BY <1>1, <2>1, TaskKinds DEF PurchaseInv, PoInv
  <2>3. QED
    BY <2>1, <2>2 DEF PoTask, Draft, Pdf
<1>4. /\ task \in PoTask /\ task.do = "record" /\ task.order = o
      /\ task.read = desk[d].read
  BY <1>3 DEF PoTask, PoSteps
<1>5. UNCHANGED <<deductMaterial, order, disturbed>>
  BY DEF vars, ledgerVars, ledgerRows, orderVars
<1>6. IsCovered(pdf.order, pdf.amount)
  BY <1>1, <1>3 DEF PoInv, PapersCovered
<1>7. o \notin disturbed => pdf = FileOf(o)
  BY <1>1, <1>3 DEF PoInv, AmountsSettled, FileOf
<1>8. ASSUME NEW k \in Orders, k \notin contested, Holds(k, n) PROVE k = o
  BY <1>1, <1>3, <1>8 DEF PoInv, NumbersApart, Holds
<1>9. /\ shelf' \in [Numbers -> Pdf \cup {NoPaper}]
      /\ \A m \in Numbers : shelf'[m] = IF m = n THEN pdf ELSE shelf[m]
  BY <1>1, <1>3 DEF PoInv
<1>10. \A e \in Desks :
         /\ DrawsPo(e)' => DrawsPo(e) /\ desk'[e].order = desk[e].order
         /\ HasBuilt(e)' => HasBuilt(e) /\ desk'[e].read = desk[e].read
         /\ HasDrawn(e)' => HasDrawn(e)
         /\ At(e, "record")' => e = d \/ (At(e, "record") /\ desk'[e] = desk[e])
         /\ HasBuilt(e)' => DrawsPo(e)'
         /\ HasDrawn(e)' => HasBuilt(e)'
         /\ At(e, "record")' => HasDrawn(e)'
  BY <1>1, <1>3, <1>4 DEF DrawsPo, HasBuilt, HasDrawn, At
<1> HIDE DEF o, n, pdf, task
<1>11. InvoiceInv' /\ desk' \in [Desks -> Task \cup {NoTask}]
  BY <1>1, <1>4, InvoicesWaitForPo
<1>12. PapersCovered'
  <2>1. \A m \in Numbers : shelf'[m] # NoPaper =>
          IsCovered(shelf'[m].order, shelf'[m].amount)
    BY <1>1, <1>6, <1>9 DEF PoInv, PapersCovered
  <2>2. QED
    BY <1>1, <1>5, <1>10, <2>1 DEF PoInv, PapersCovered, IsCovered
<1>13. AmountsSettled'
  BY <1>1, <1>5, <1>10 DEF PoInv, AmountsSettled
<1>14. NumbersApart'
  <2>1. \A k \in Orders, m \in Numbers : Holds(k, m)' => Holds(k, m)
    BY <1>1, <1>10 DEF Holds, Drew, HasDrawn
  <2>2. QED
    BY <1>1, <2>1 DEF PoInv, NumbersApart
<1>15. FilesFit'
  <2>1. ASSUME NEW k \in Orders, k \notin disturbed \cup contested,
               NEW m \in Numbers, Holds(k, m),
               m # n => shelf[m] = FileOf(k)
        PROVE  shelf'[m] = FileOf(k)
    BY <1>7, <1>8, <1>9, <2>1
  <2>2. ASSUME NEW k \in Orders, k \notin disturbed \cup contested, po[k] # 0
        PROVE  shelf'[po[k]] = FileOf(k)
    BY <1>1, <2>1, <2>2 DEF PoInv, FilesFit, Holds
  <2>3. ASSUME NEW e \in Desks, At(e, "record")',
               desk'[e].order \notin disturbed \cup contested
        PROVE  shelf'[desk'[e].read.number] = FileOf(desk'[e].order)
    <3>1. CASE e = d
      BY <1>1, <1>3, <1>4, <1>7, <1>9, <2>3, <3>1 DEF o, n
    <3>2. CASE e # d
      <4>1. At(e, "record") /\ desk'[e] = desk[e]
        BY <1>10, <2>3, <3>2
      <4>2. /\ desk[e].order \in Orders /\ desk[e].read.number \in Numbers
            /\ Drew(desk[e].order, desk[e].read.number)
        <5>1. HasDrawn(e) /\ DrawsPo(e) /\ desk[e] # NoTask
              /\ Drew(desk[e].order, desk[e].read.number)
          BY <4>1 DEF DrawsPo, HasBuilt, HasDrawn, At, Drew
        <5>2. desk[e] \in PoTask /\ desk[e].read.number # 0
          BY <1>1, <5>1, TaskKinds DEF PurchaseInv, PoInv
        <5>3. QED
          BY <5>1, <5>2 DEF PoTask, Draft
      <4>3. shelf[desk[e].read.number] = FileOf(desk[e].order)
        BY <1>1, <2>3, <4>1 DEF PoInv, FilesFit
      <4>4. QED
        BY <2>1, <2>3, <4>1, <4>2, <4>3 DEF Holds
    <3>3. QED
      BY <3>1, <3>2
  <2>4. FilesFit' <=>
          /\ \A k \in Orders \ (disturbed \cup contested) :
               po[k] # 0 => shelf'[po[k]] = FileOf(k)
          /\ \A e \in Desks :
               At(e, "record")' /\ desk'[e].order \notin disturbed \cup contested =>
                 shelf'[desk'[e].read.number] = FileOf(desk'[e].order)
    BY <1>1, <1>5 DEF FilesFit, FileOf
  <2>5. QED
    BY <2>2, <2>3, <2>4
<1>16. PoInv'
  BY <1>1, <1>9, <1>10, <1>12, <1>13, <1>14, <1>15 DEF PoInv
<1>17. QED
  BY <1>2, <1>11, <1>16, PurchaseInvNext

(* Recording fails, and takes the file away, only when another order has   *)
(* the number; an uncontested order never sees that.                       *)
LEMMA RecordPoKeeps ==
  ASSUME PurchaseInv, UNCHANGED vars, NEW d \in Desks, RecordPo(d)
  PROVE  PurchaseInv'
<1> DEFINE o == desk[d].order
           n == desk[d].read.number
           taken == \E other \in Orders \ {o} : po[other] = n
<1>1. /\ OrderInv /\ PoInv /\ desk \in [Desks -> Task \cup {NoTask}]
      /\ UNCHANGED <<invoice, posted, billed, contested, overtaken>>
      /\ desk[d] # NoTask /\ desk[d].do = "record"
      /\ desk' = [desk EXCEPT ![d] = NoTask]
      /\ IF taken THEN shelf' = [shelf EXCEPT ![n] = NoPaper] /\ UNCHANGED po
         ELSE po' = [po EXCEPT ![o] = n] /\ UNCHANGED shelf
  BY PurchaseInvParts DEF RecordPo, At, Done
<1>2. OrderInv'
  BY <1>1, OrderStutter
<1>3. HasBuilt(d) /\ DrawsPo(d) /\ HasDrawn(d) /\ Drew(o, n) /\ At(d, "record")
  BY <1>1 DEF DrawsPo, HasBuilt, HasDrawn, At, Drew
<1>4. /\ desk[d] \in PoTask /\ n # 0 /\ o \in Orders /\ n \in Numbers
  <2>1. desk[d] \in PoTask /\ n # 0
    BY <1>1, <1>3, TaskKinds DEF PurchaseInv, PoInv
  <2>2. QED
    BY <2>1 DEF PoTask, Draft
<1>5. UNCHANGED <<deductMaterial, order, disturbed>>
  BY DEF vars, ledgerVars, ledgerRows, orderVars
<1>6. ASSUME NEW k \in Orders, k \notin contested, Holds(k, n)
      PROVE  k = o /\ ~taken
  BY <1>1, <1>3, <1>4, <1>6 DEF PoInv, NumbersApart, Holds
<1>7. \A e \in Desks :
        /\ DrawsPo(e)' => DrawsPo(e) /\ desk'[e] = desk[e]
        /\ HasBuilt(e)' => HasBuilt(e) /\ desk'[e] = desk[e]
        /\ HasDrawn(e)' => HasDrawn(e) /\ desk'[e] = desk[e]
        /\ At(e, "record")' => At(e, "record") /\ desk'[e] = desk[e]
  BY <1>1 DEF DrawsPo, HasBuilt, HasDrawn, At
<1>8. /\ shelf' \in [Numbers -> Pdf \cup {NoPaper}]
      /\ po' \in [Orders -> Numbers \cup {0}]
      /\ \A m \in Numbers : shelf'[m] = shelf[m] \/ shelf'[m] = NoPaper
      /\ \A m \in Numbers : shelf'[m] = shelf[m] \/ (taken /\ m = n)
      /\ \A k \in Orders : po'[k] = IF ~taken /\ k = o THEN n ELSE po[k]
  BY <1>1, <1>4 DEF PoInv
<1> HIDE DEF o, n, taken
<1>9. InvoiceInv' /\ desk' \in [Desks -> Task \cup {NoTask}]
  BY <1>1, InvoicesWaitForPo
<1>10. PapersCovered'
  BY <1>1, <1>5, <1>7, <1>8 DEF PoInv, PapersCovered, IsCovered
<1>11. AmountsSettled'
  <2>1. o \notin disturbed => order[o].status \in Settled
    BY <1>1, <1>3 DEF PoInv, AmountsSettled, o
  <2>2. QED
    BY <1>1, <1>5, <1>7, <1>8, <2>1 DEF PoInv, AmountsSettled
<1>12. NumbersApart'
  <2>1. \A k \in Orders, m \in Numbers : Holds(k, m)' => Holds(k, m)
    BY <1>3, <1>7, <1>8 DEF Holds, Drew, HasDrawn
  <2>2. QED
    BY <1>1, <2>1 DEF PoInv, NumbersApart
<1>13. FilesFit'
  <2>1. ASSUME NEW k \in Orders, k \notin contested, NEW m \in Numbers, Holds(k, m)
        PROVE  shelf'[m] = shelf[m]
    BY <1>6, <1>8, <2>1
  <2>2. ASSUME NEW k \in Orders, k \notin disturbed \cup contested, po'[k] # 0
        PROVE  shelf'[po'[k]] = FileOf(k)
    <3>1. CASE ~taken /\ k = o
      <4>1. shelf[n] = FileOf(o)
        BY <1>1, <1>3, <2>2, <3>1 DEF PoInv, FilesFit, o, n
      <4>2. QED
        BY <1>4, <1>8, <3>1, <4>1
    <3>2. CASE taken \/ k # o
      <4>1. po'[k] = po[k] /\ po[k] \in Numbers /\ Holds(k, po[k])
        BY <1>1, <1>8, <2>2, <3>2 DEF Holds, PoInv
      <4>2. shelf[po[k]] = FileOf(k)
        BY <1>1, <2>2, <4>1 DEF PoInv, FilesFit
      <4>3. QED
        BY <2>1, <2>2, <4>1, <4>2
    <3>3. QED
      BY <3>1, <3>2
  <2>3. ASSUME NEW e \in Desks, At(e, "record")',
               desk'[e].order \notin disturbed \cup contested
        PROVE  shelf'[desk'[e].read.number] = FileOf(desk'[e].order)
    <3>1. At(e, "record") /\ desk'[e] = desk[e]
      BY <1>7, <2>3
    <3>2. /\ desk[e].order \in Orders /\ desk[e].read.number \in Numbers
          /\ Drew(desk[e].order, desk[e].read.number)
      <4>1. HasDrawn(e) /\ DrawsPo(e) /\ desk[e] # NoTask
            /\ Drew(desk[e].order, desk[e].read.number)
        BY <3>1 DEF DrawsPo, HasBuilt, HasDrawn, At, Drew
      <4>2. desk[e] \in PoTask /\ desk[e].read.number # 0
        BY <1>1, <4>1, TaskKinds DEF PurchaseInv, PoInv
      <4>3. QED
        BY <4>1, <4>2 DEF PoTask, Draft
    <3>3. shelf[desk[e].read.number] = FileOf(desk[e].order)
      BY <1>1, <2>3, <3>1 DEF PoInv, FilesFit
    <3>4. QED
      BY <2>1, <2>3, <3>1, <3>2, <3>3 DEF Holds
  <2>4. FilesFit' <=>
          /\ \A k \in Orders \ (disturbed \cup contested) :
               po'[k] # 0 => shelf'[po'[k]] = FileOf(k)
          /\ \A e \in Desks :
               At(e, "record")' /\ desk'[e].order \notin disturbed \cup contested =>
                 shelf'[desk'[e].read.number] = FileOf(desk'[e].order)
    BY <1>1, <1>5 DEF FilesFit, FileOf
  <2>5. QED
    BY <2>2, <2>3, <2>4
<1>14. PoInv'
  BY <1>1, <1>7, <1>8, <1>10, <1>11, <1>12, <1>13 DEF PoInv
<1>15. QED
  BY <1>2, <1>9, <1>14, PurchaseInvNext

(* The supplier gets the file behind the order's number.                   *)
LEMMA SendPoEmailKeeps ==
  ASSUME PurchaseInv, UNCHANGED vars, NEW o \in Orders, SendPoEmail(o)
  PROVE  PurchaseInv'
<1>1. /\ OrderInv /\ PoInv /\ InvoiceInv /\ desk \in [Desks -> Task \cup {NoTask}]
      /\ UNCHANGED <<po, shelf, invoice, billed, desk, contested, overtaken>>
      /\ po[o] \in Numbers /\ shelf[po[o]] # NoPaper
      /\ posted' = [posted EXCEPT ![o] = shelf[po[o]]]
  BY PurchaseInvParts DEF SendPoEmail, PoInv
<1>2. OrderInv'
  BY <1>1, OrderStutter
<1>3. InvoiceInv'
  BY <1>1, InvoiceFrame
<1>4. UNCHANGED <<deductMaterial, order, disturbed>>
  BY DEF vars, ledgerVars, ledgerRows, orderVars
<1>5. /\ posted' \in [Orders -> Pdf \cup {NoPaper}]
      /\ \A k \in Orders : posted'[k] = IF k = o THEN shelf[po[o]] ELSE posted[k]
  BY <1>1 DEF PoInv
<1>6. PapersCovered'
  BY <1>1, <1>4, <1>5 DEF PoInv, PapersCovered, IsCovered, HasBuilt, At
<1>7. AmountsSettled' /\ FilesFit' /\ NumbersApart'
  BY <1>1, <1>4 DEF PoInv, AmountsSettled, FilesFit, NumbersApart, DrawsPo,
                    HasBuilt, At, FileOf, Holds, Drew
<1>8. PoInv'
  BY <1>1, <1>5, <1>6, <1>7 DEF PoInv, HasDrawn, At
<1>9. QED
  BY <1>1, <1>2, <1>3, <1>8, PurchaseInvNext

-----------------------------------------------------------------------------
(* An invoice is sent, edited and answered.                                *)

(* A task that only leaves, or is about an invoice, disturbs no purchase   *)
(* order.                                                                  *)
LEMMA PoUntouched ==
  ASSUME PurchaseInv, UNCHANGED <<vars, po, shelf, posted, contested>>,
         \A e \in Desks : \/ desk'[e] = desk[e]
                          \/ desk'[e] = NoTask
                          \/ desk'[e] \in InvoiceTask
  PROVE  OrderInv' /\ PoInv'
<1>1. \A e \in Desks : DrawsPo(e)' => desk'[e] = desk[e]
  BY DEF DrawsPo, HasBuilt, At, InvoiceTask, InvoiceSteps
<1>2. OrderInv'
  BY OrderStutter DEF PurchaseInv
<1>3. QED
  BY <1>1, <1>2, PurchaseInvParts, PoFrame

(* A desk that dies half-way leaves what it stored and mailed as it is.    *)
LEMMA AbandonPaperKeeps ==
  ASSUME PurchaseInv, UNCHANGED vars, NEW d \in Desks, AbandonPaper(d)
  PROVE  PurchaseInv'
<1>1. /\ desk \in [Desks -> Task \cup {NoTask}]
      /\ UNCHANGED <<po, shelf, invoice, posted, billed, contested, overtaken>>
      /\ desk' = [desk EXCEPT ![d] = NoTask]
  BY PurchaseInvParts DEF AbandonPaper, Done
<1>2. InvoiceInv' /\ desk' \in [Desks -> Task \cup {NoTask}]
  BY <1>1, InvoicesWaitForPo
<1>3. OrderInv' /\ PoInv'
  BY <1>1, PoUntouched
<1>4. QED
  BY <1>2, <1>3, PurchaseInvNext

(* A new invoice was agreed to by nobody.                                  *)
LEMMA UploadInvoiceKeeps ==
  ASSUME PurchaseInv, UNCHANGED vars, NEW o \in Orders, NEW a \in Amounts,
         UploadInvoice(o, a)
  PROVE  PurchaseInv'
<1> DEFINE row == [amount |-> a, status |-> "DRAFT"]
<1>1. /\ desk \in [Desks -> Task \cup {NoTask}] /\ InvoiceInv
      /\ UNCHANGED <<po, shelf, posted, billed, desk, contested, overtaken>>
      /\ invoice[o] = NoPaper /\ invoice' = [invoice EXCEPT ![o] = row]
  BY PurchaseInvParts DEF UploadInvoice
<1>2. row \in Invoice /\ row.status = "DRAFT"
  BY DEF Invoice, InvoiceStatuses
<1> HIDE DEF row
<1>3. /\ invoice' \in [Orders -> Invoice \cup {NoPaper}]
      /\ \A k \in Orders : invoice'[k] = IF k = o THEN row ELSE invoice[k]
  BY <1>1, <1>2 DEF InvoiceInv
<1>4. \A e \in Desks : desk[e] # NoTask /\ desk[e].do \in InvoiceSteps =>
        desk[e].order \in Orders /\ desk[e].order # o
  BY <1>1, TaskKinds DEF PurchaseInv, InvoiceInv, InvoicesKnown
<1>5. InvoicesKnown'
  BY <1>1, <1>2, <1>3, <1>4 DEF InvoiceInv, InvoicesKnown
<1>6. InvoicesFit'
  BY <1>1, <1>2, <1>3, <1>4 DEF InvoiceInv, InvoicesFit
<1>7. InvoiceInv'
  BY <1>1, <1>3, <1>5, <1>6 DEF InvoiceInv
<1>8. OrderInv' /\ PoInv'
  BY <1>1, PoUntouched
<1>9. QED
  BY <1>1, <1>7, <1>8, PurchaseInvNext

(* A desk takes an invoice in hand with the amount it reads.               *)
LEMMA StartInvoiceKeeps ==
  ASSUME PurchaseInv, UNCHANGED vars, NEW d \in Desks, NEW h \in InvoiceHandlers,
         NEW o \in Orders, StartInvoice(d, h, o)
  PROVE  PurchaseInv'
<1> DEFINE task == [do |-> h.step, order |-> o, read |-> invoice[o].amount,
                    late |-> FALSE]
<1>1. /\ desk \in [Desks -> Task \cup {NoTask}] /\ InvoiceInv
      /\ UNCHANGED <<po, shelf, invoice, posted, billed, contested, overtaken>>
      /\ invoice[o] # NoPaper /\ invoice[o].status \in h.from
      /\ desk' = [desk EXCEPT ![d] = task]
  BY PurchaseInvParts DEF StartInvoice, Take
<1>2. invoice[o] \in Invoice
  BY <1>1 DEF InvoiceInv
<1>3. /\ h.step \in {"update", "mail", "ack", "reject"}
      /\ h.step \in {"ack", "reject"} => invoice[o].status = "SENT_TO_SUPPLIER"
  BY <1>1 DEF InvoiceHandlers
<1>4. /\ task \in InvoiceTask /\ task.do = h.step /\ task.order = o
      /\ task.read = invoice[o].amount
  BY <1>2, <1>3 DEF InvoiceTask, InvoiceSteps, Invoice
<1> HIDE DEF task
<1>5. desk' \in [Desks -> Task \cup {NoTask}]
  BY <1>1, <1>4 DEF Task, InvoiceTask
<1>6. \A e \in Desks : desk'[e] = IF e = d THEN task ELSE desk[e]
  BY <1>1
<1>7. InvoicesKnown'
  BY <1>1, <1>3, <1>4, <1>6 DEF InvoiceInv, InvoicesKnown
<1>8. InvoicesFit'
  BY <1>1, <1>3, <1>4, <1>6 DEF InvoiceInv, InvoicesFit
<1>9. InvoiceInv'
  BY <1>1, <1>7, <1>8 DEF InvoiceInv
<1>10. OrderInv' /\ PoInv'
  BY <1>1, <1>4, <1>6, PoUntouched
<1>11. QED
  BY <1>5, <1>9, <1>10, PurchaseInvNext

(* The mail tells the supplier the amount the handler read.                *)
LEMMA MailInvoiceKeeps ==
  ASSUME PurchaseInv, UNCHANGED vars, NEW d \in Desks, MailInvoice(d)
  PROVE  PurchaseInv'
<1> DEFINE o == desk[d].order
           task == [desk[d] EXCEPT !.do = "sent"]
<1>1. /\ desk \in [Desks -> Task \cup {NoTask}] /\ InvoiceInv
      /\ UNCHANGED <<po, shelf, invoice, posted, contested>>
      /\ desk[d] # NoTask /\ desk[d].do = "mail"
      /\ billed' = [billed EXCEPT ![o] = desk[d].read]
      /\ overtaken' = IF desk[d].late THEN overtaken \cup {o} ELSE overtaken
      /\ desk' = [desk EXCEPT ![d] = task]
  BY PurchaseInvParts DEF MailInvoice, At, GoesTo, Overtaken
<1>2. desk[d] \in InvoiceTask /\ o \in Orders
  BY <1>1, TaskKinds DEF PurchaseInv, InvoiceSteps
<1>3. /\ task \in InvoiceTask /\ task.do = "sent" /\ task.order = o
      /\ task.late = desk[d].late
  BY <1>2 DEF InvoiceTask, InvoiceSteps
<1>4. desk[d].read \in Amounts /\ desk[d].read # 0
  BY <1>2, LedgerAssumption DEF InvoiceTask
<1>5. o \notin overtaken' =>
        o \notin overtaken /\ ~desk[d].late /\ desk[d].read = invoice[o].amount
  BY <1>1, <1>2 DEF InvoiceInv, InvoicesFit, InvoiceSteps
<1>6. invoice[o] # NoPaper
  BY <1>1 DEF InvoiceInv, InvoicesKnown, InvoiceSteps
<1>7. overtaken \subseteq overtaken' /\ overtaken' \subseteq Orders
  BY <1>1, <1>2 DEF InvoiceInv
<1>8. /\ billed' \in [Orders -> Amounts \cup {0}]
      /\ \A k \in Orders : billed'[k] = IF k = o THEN desk[d].read ELSE billed[k]
      /\ desk' \in [Desks -> Task \cup {NoTask}]
      /\ \A e \in Desks : desk'[e] = IF e = d THEN task ELSE desk[e]
  BY <1>1, <1>2, <1>3, <1>4 DEF InvoiceInv, Task, InvoiceTask
<1>9. \A e \in Desks : desk[e] # NoTask => desk[e].order \in Orders
  BY TaskKinds DEF PurchaseInv
<1> HIDE DEF task, o
<1>10. InvoicesKnown'
  BY <1>1, <1>2, <1>3, <1>4, <1>6, <1>8, <1>9 DEF InvoiceInv, InvoicesKnown
<1>11. InvoicesFit'
  <2>1. ASSUME NEW k \in Orders, k \notin overtaken', invoice[k] # NoPaper,
               invoice[k].status \in {"SENT_TO_SUPPLIER", "APPROVED_BY_SUPPLIER"}
        PROVE  billed'[k] = invoice[k].amount
    BY <1>1, <1>5, <1>7, <1>8, <2>1 DEF InvoiceInv, InvoicesFit
  <2>2. ASSUME NEW k \in Orders, k \notin overtaken', NEW e \in Desks,
               desk'[e] # NoTask, desk'[e].do \in InvoiceSteps,
               desk'[e].order = k, ~desk'[e].late
        PROVE  /\ desk'[e].do = "mail" => desk'[e].read = invoice[k].amount
               /\ desk'[e].do = "sent" => billed'[k] = invoice[k].amount
               /\ desk'[e].do = "ack" => invoice[k].status = "SENT_TO_SUPPLIER"
    <3>1. CASE e = d
      BY <1>3, <1>5, <1>8, <2>2, <3>1
    <3>2. CASE e # d
      BY <1>1, <1>5, <1>7, <1>8, <2>2, <3>2 DEF InvoiceInv, InvoicesFit
    <3>3. QED
      BY <3>1, <3>2
  <2>3. QED
    BY <1>1, <2>1, <2>2 DEF InvoicesFit
<1>12. InvoiceInv'
  BY <1>1, <1>7, <1>8, <1>10, <1>11 DEF InvoiceInv
<1>13. OrderInv' /\ PoInv'
  BY <1>1, <1>3, <1>8, PoUntouched
<1>14. QED
  BY <1>8, <1>12, <1>13, PurchaseInvNext

(* A handler writes the invoice: what it writes is either a draft, or fits *)
(* what was mailed unless the handler is late.                             *)
LEMMA WriteInvoiceKeeps ==
  ASSUME PurchaseInv, UNCHANGED vars, NEW d \in Desks, desk[d] # NoTask,
         desk[d].do \in InvoiceSteps, NEW row \in Invoice, WriteInvoice(d, row),
         row.status # "DRAFT" => billed[desk[d].order] # 0,
         row.status \in {"SENT_TO_SUPPLIER", "APPROVED_BY_SUPPLIER"}
         /\ ~desk[d].late /\ desk[d].order \notin overtaken =>
           billed[desk[d].order] = row.amount
  PROVE  PurchaseInv'
<1> DEFINE o == desk[d].order
           also(e) == /\ desk[e] # NoTask /\ desk[e].do \in InvoiceSteps
                      /\ desk[e].order = o /\ row # invoice[o]
<1>1. /\ desk \in [Desks -> Task \cup {NoTask}] /\ InvoiceInv
      /\ UNCHANGED <<po, shelf, posted, billed, contested>>
      /\ invoice' = [invoice EXCEPT ![o] = row]
      /\ overtaken' = IF desk[d].late THEN overtaken \cup {o} ELSE overtaken
      /\ desk' = [e \in Desks |-> CASE e = d -> NoTask
                    [] e # d /\ also(e) -> [desk[e] EXCEPT !.late = TRUE]
                    [] OTHER -> desk[e]]
  BY PurchaseInvParts DEF WriteInvoice, Overtaken
<1>2. o \in Orders
  BY TaskKinds DEF PurchaseInv
<1>3. /\ invoice' \in [Orders -> Invoice \cup {NoPaper}]
      /\ \A k \in Orders : invoice'[k] = IF k = o THEN row ELSE invoice[k]
  BY <1>1, <1>2 DEF InvoiceInv
<1>4. overtaken \subseteq overtaken' /\ overtaken' \subseteq Orders
      /\ o \notin overtaken' => ~desk[d].late
  BY <1>1, <1>2 DEF InvoiceInv
<1>5. invoice[o] # NoPaper
  BY <1>1 DEF InvoiceInv, InvoicesKnown
<1>6. ASSUME NEW e \in Desks
      PROVE  \/ desk'[e] = NoTask
             \/ ~also(e) /\ desk'[e] = desk[e]
             \/ /\ also(e) /\ desk'[e] \in InvoiceTask /\ desk'[e].late
                /\ desk'[e].order = o /\ desk'[e].do = desk[e].do
  <2>1. CASE e = d
    BY <1>1, <2>1
  <2>2. CASE e # d /\ also(e)
    <3>1. desk[e] \in InvoiceTask
      BY <2>2, TaskKinds DEF PurchaseInv
    <3>2. desk'[e] = [desk[e] EXCEPT !.late = TRUE]
      BY <1>1, <2>2
    <3>3. QED
      BY <2>2, <3>1, <3>2 DEF InvoiceTask
  <2>3. CASE e # d /\ ~also(e)
    BY <1>1, <2>3
  <2>4. QED
    BY <2>1, <2>2, <2>3
<1>7. desk' \in [Desks -> Task \cup {NoTask}]
  <2>1. \A e \in Desks : desk'[e] \in Task \cup {NoTask}
    BY <1>1, <1>6 DEF Task, InvoiceTask
  <2>2. QED
    BY <1>1, <2>1
<1>8. \A e \in Desks : desk[e] # NoTask => desk[e].order \in Orders
  BY TaskKinds DEF PurchaseInv
<1>9. ASSUME NEW e \in Desks, desk'[e] # NoTask, desk'[e].do \in InvoiceSteps
      PROVE  /\ desk[e] # NoTask /\ desk[e].do = desk'[e].do
             /\ desk[e].order = desk'[e].order
             /\ ~desk'[e].late => /\ desk'[e] = desk[e]
                                  /\ desk'[e].order = o => row = invoice[o]
  BY <1>6, <1>9
<1>10. row # NoPaper
  BY PaperAssumption
<1> HIDE DEF also
<1>11. InvoicesKnown'
  <2>1. ASSUME NEW k \in Orders, invoice'[k] # NoPaper, invoice'[k].status # "DRAFT"
        PROVE  billed[k] # 0
    BY <1>1, <1>3, <2>1 DEF InvoiceInv, InvoicesKnown
  <2>2. ASSUME NEW e \in Desks, desk'[e] # NoTask, desk'[e].do \in InvoiceSteps
        PROVE  /\ invoice'[desk'[e].order] # NoPaper
               /\ desk'[e].do \in {"sent", "ack", "reject"} =>
                    billed[desk'[e].order] # 0
    BY <1>1, <1>3, <1>8, <1>9, <1>10, <2>2 DEF InvoiceInv, InvoicesKnown
  <2>3. QED
    BY <1>1, <2>1, <2>2 DEF InvoicesKnown
<1>12. InvoicesFit'
  <2>1. ASSUME NEW k \in Orders, k \notin overtaken', invoice'[k] # NoPaper,
               invoice'[k].status \in {"SENT_TO_SUPPLIER", "APPROVED_BY_SUPPLIER"}
        PROVE  billed[k] = invoice'[k].amount
    BY <1>1, <1>3, <1>4, <2>1 DEF InvoiceInv, InvoicesFit
  <2>2. ASSUME NEW k \in Orders, k \notin overtaken', NEW e \in Desks,
               desk'[e] # NoTask, desk'[e].do \in InvoiceSteps,
               desk'[e].order = k, ~desk'[e].late
        PROVE  /\ desk'[e].do = "mail" => desk'[e].read = invoice'[k].amount
               /\ desk'[e].do = "sent" => billed[k] = invoice'[k].amount
               /\ desk'[e].do = "ack" => invoice'[k].status = "SENT_TO_SUPPLIER"
    <3>1. desk'[e] = desk[e] /\ invoice'[k] = invoice[k]
      BY <1>3, <1>9, <2>2
    <3>2. QED
      BY <1>1, <1>4, <2>2, <3>1 DEF InvoiceInv, InvoicesFit
  <2>3. QED
    BY <1>1, <2>1, <2>2 DEF InvoicesFit
<1>13. InvoiceInv'
  BY <1>1, <1>3, <1>4, <1>11, <1>12 DEF InvoiceInv
<1>14. OrderInv' /\ PoInv'
  BY <1>1, <1>6, PoUntouched
<1>15. QED
  BY <1>7, <1>13, <1>14, PurchaseInvNext

(* What update, the mark after the mail and the supplier's answers write.  *)
LEMMA InvoiceHandlersKeep ==
  ASSUME PurchaseInv, UNCHANGED vars, NEW d \in Desks,
         \/ UpdateInvoice(d) \/ MarkSent(d)
         \/ MarkSupplierAck(d) \/ MarkSupplierReject(d)
  PROVE  PurchaseInv'
<1> DEFINE o == desk[d].order
<1>1. /\ desk[d] # NoTask /\ desk[d].do \in InvoiceSteps
      /\ desk[d].do \in {"update", "sent", "ack", "reject"}
  BY DEF UpdateInvoice, MarkSent, MarkSupplierAck, MarkSupplierReject, At,
         InvoiceSteps
<1>2. o \in Orders /\ InvoiceInv /\ invoice[o] \in Invoice
  BY <1>1, TaskKinds, PurchaseInvParts DEF PurchaseInv, InvoiceInv, InvoicesKnown
<1>3. CASE UpdateInvoice(d)
  <2>1. PICK a \in Amounts \cup {invoice[o].amount} :
          WriteInvoice(d, [amount |-> a, status |-> "DRAFT"])
    BY <1>3 DEF UpdateInvoice
  <2>2. [amount |-> a, status |-> "DRAFT"] \in Invoice
    BY <1>2 DEF Invoice, InvoiceStatuses
  <2>3. QED
    BY <1>1, <2>1, <2>2, WriteInvoiceKeeps
<1>4. CASE MarkSent(d)
  <2> DEFINE row == [invoice[o] EXCEPT !.status = "SENT_TO_SUPPLIER"]
  <2>1. row \in Invoice /\ row.amount = invoice[o].amount /\ WriteInvoice(d, row)
    BY <1>2, <1>4 DEF MarkSent, Invoice, InvoiceStatuses
  <2> HIDE DEF row
  <2>2. desk[d].do = "sent" /\ billed[o] # 0
    BY <1>1, <1>2, <1>4 DEF MarkSent, At, InvoiceInv, InvoicesKnown
  <2>3. ~desk[d].late /\ o \notin overtaken => billed[o] = row.amount
    BY <1>1, <1>2, <2>1, <2>2 DEF InvoiceInv, InvoicesFit
  <2>4. QED
    BY <1>1, <2>1, <2>2, <2>3, WriteInvoiceKeeps
<1>5. CASE MarkSupplierAck(d)
  <2> DEFINE row == [invoice[o] EXCEPT !.status = "APPROVED_BY_SUPPLIER"]
  <2>1. row \in Invoice /\ row.amount = invoice[o].amount /\ WriteInvoice(d, row)
    BY <1>2, <1>5 DEF MarkSupplierAck, Invoice, InvoiceStatuses
  <2> HIDE DEF row
  <2>2. desk[d].do = "ack" /\ billed[o] # 0
    BY <1>1, <1>2, <1>5 DEF MarkSupplierAck, At, InvoiceInv, InvoicesKnown
  <2>3. ~desk[d].late /\ o \notin overtaken =>
          invoice[o].status = "SENT_TO_SUPPLIER"
    BY <1>1, <1>2, <2>2 DEF InvoiceInv, InvoicesFit
  <2>4. invoice[o] # NoPaper
    BY <1>2, PaperAssumption
  <2>5. ~desk[d].late /\ o \notin overtaken => billed[o] = row.amount
    BY <1>2, <2>1, <2>3, <2>4 DEF InvoiceInv, InvoicesFit
  <2>6. QED
    BY <1>1, <2>1, <2>2, <2>5, WriteInvoiceKeeps
<1>6. CASE MarkSupplierReject(d)
  <2> DEFINE row == [invoice[o] EXCEPT !.status = "REJECTED_BY_SUPPLIER"]
  <2>1. /\ row \in Invoice /\ row.status = "REJECTED_BY_SUPPLIER"
        /\ WriteInvoice(d, row)
    BY <1>2, <1>6 DEF MarkSupplierReject, Invoice, InvoiceStatuses
  <2> HIDE DEF row
  <2>2. desk[d].do = "reject" /\ billed[o] # 0
    BY <1>1, <1>2, <1>6 DEF MarkSupplierReject, At, InvoiceInv, InvoicesKnown
  <2>3. QED
    BY <1>1, <2>1, <2>2, WriteInvoiceKeeps
<1>7. QED
  BY <1>3, <1>4, <1>5, <1>6

-----------------------------------------------------------------------------
(* The theorems about papers.                                              *)

(* No papers yet: the invariant holds of the initial states.               *)
LEMMA PurchaseInitInv ==
  PurchaseInit => PurchaseInv
<1> SUFFICES ASSUME PurchaseInit PROVE PurchaseInv
  OBVIOUS
<1>1. OrderInv
  BY OrderInitInv DEF PurchaseInit
<1>2. PaperInit
  BY DEF PurchaseInit
<1>3. \A d \in Desks : desk[d] = NoTask
  BY <1>2 DEF PaperInit
<1>4. PaperShape
  BY <1>2, <1>3 DEF PaperInit, PaperShape, HasDrawn, At
<1>5. PapersCovered /\ AmountsSettled /\ FilesFit
  BY <1>2, <1>3 DEF PaperInit, PapersCovered, AmountsSettled, FilesFit,
                    DrawsPo, HasBuilt, At
<1>6. NumbersApart
  BY <1>2, <1>3 DEF PaperInit, NumbersApart, Holds, Drew, At, Numbers
<1>7. InvoicesKnown /\ InvoicesFit
  BY <1>2, <1>3 DEF PaperInit, InvoicesKnown, InvoicesFit
<1>8. QED
  BY <1>1, <1>4, <1>5, <1>6, <1>7 DEF PurchaseInv

(* Every step of a desk keeps the invariant while orders stand still.      *)
LEMMA PaperStepInv ==
  ASSUME PurchaseInv, PaperStep, UNCHANGED vars
  PROVE  PurchaseInv'
<1>1. ASSUME NEW o \in Orders, SendPoEmail(o) PROVE PurchaseInv'
  BY <1>1, SendPoEmailKeeps
<1>2. ASSUME NEW o \in Orders, NEW a \in Amounts, UploadInvoice(o, a)
      PROVE  PurchaseInv'
  BY <1>2, UploadInvoiceKeeps
<1>3. ASSUME NEW o \in Orders, NEW d \in Desks, NEW h \in InvoiceHandlers,
             StartInvoice(d, h, o)
      PROVE  PurchaseInv'
  BY <1>3, StartInvoiceKeeps
<1>4. ASSUME NEW d \in Desks, CheckPo(d) PROVE PurchaseInv'
  BY <1>4, CheckPoKeeps
<1>5. ASSUME NEW d \in Desks, BuildPo(d) PROVE PurchaseInv'
  BY <1>5, BuildPoKeeps
<1>6. ASSUME NEW d \in Desks, NumberPo(d) PROVE PurchaseInv'
  BY <1>6, NumberPoKeeps
<1>7. ASSUME NEW d \in Desks, StorePo(d) PROVE PurchaseInv'
  BY <1>7, StorePoKeeps
<1>8. ASSUME NEW d \in Desks, RecordPo(d) PROVE PurchaseInv'
  BY <1>8, RecordPoKeeps
<1>9. ASSUME NEW d \in Desks, MailInvoice(d) PROVE PurchaseInv'
  BY <1>9, MailInvoiceKeeps
<1>10. ASSUME NEW d \in Desks,
              \/ UpdateInvoice(d) \/ MarkSent(d)
              \/ MarkSupplierAck(d) \/ MarkSupplierReject(d)
       PROVE  PurchaseInv'
  BY <1>10, InvoiceHandlersKeep
<1>11. ASSUME NEW d \in Desks, AbandonPaper(d) PROVE PurchaseInv'
  BY <1>11, AbandonPaperKeeps
<1>12. QED
  BY <1>1, <1>2, <1>3, <1>4, <1>5, <1>6, <1>7, <1>8, <1>9, <1>10, <1>11
     DEF PaperStep

(* The invariant reads no more than the variables of the module.           *)
LEMMA PurchaseStutter ==
  PurchaseInv /\ UNCHANGED purchaseVars => PurchaseInv'
<1> SUFFICES ASSUME PurchaseInv, UNCHANGED purchaseVars PROVE PurchaseInv'
  OBVIOUS
<1>1. /\ OrderInv /\ InvoiceInv /\ UNCHANGED vars
      /\ desk \in [Desks -> Task \cup {NoTask}]
      /\ UNCHANGED <<po, shelf, invoice, posted, billed, desk, contested, overtaken>>
  BY PurchaseInvParts DEF purchaseVars, paperVars
<1>2. OrderInv' /\ PoInv'
  BY <1>1, PoUntouched
<1>3. InvoiceInv'
  BY <1>1, InvoiceFrame
<1>4. QED
  BY <1>1, <1>2, <1>3, PurchaseInvNext

(* Every step of PurchasePapers keeps the invariant.                       *)
LEMMA PurchaseNextInv ==
  PurchaseInv /\ [PurchaseNext]_purchaseVars => PurchaseInv'
  BY GmApproveWithPoKeeps, OrderStepKeepsPapers, PaperStepInv, PurchaseStutter
     DEF PurchaseNext

(* The invariant of orders, purchase orders and invoices.                  *)
THEOREM PurchaseInvariant == PurchaseSpec => []PurchaseInv
<1>1. QED
  BY PurchaseInitInv, PurchaseNextInv, PTL DEF PurchaseSpec

(* With papers and their handlers at work, an order's status and its       *)
(* charge still agree, what is paid was charged, and goods arrive once.    *)
THEOREM PapersLeaveOrdersRight ==
  PurchaseSpec => /\ []StatusMatchesLedger
                  /\ []PaidOrdersWereCharged
                  /\ []GoodsArriveOnce
<1>1. PurchaseInv => /\ StatusMatchesLedger /\ PaidOrdersWereCharged
                     /\ GoodsArriveOnce
  BY OrderInvImplies DEF PurchaseInv
<1>2. QED
  BY <1>1, PurchaseInvariant, PTL

(* Every paper has its type; a number is 1 to MaxNumber.                   *)
THEOREM PapersKeepTheirType == PurchaseSpec => []PurchaseTypeOK
<1>1. PurchaseInv => PurchaseTypeOK
  BY OrderInvImplies DEF PurchaseInv, PaperShape, PurchaseTypeOK
<1>2. QED
  BY <1>1, PurchaseInvariant, PTL

(* Suppliers get purchase orders only for what was charged, and the file   *)
(* behind an uncontested, undisturbed order's number is its own.           *)
THEOREM PurchaseOrdersShowTheCharge == PurchaseSpec => []PosShowTheCharge
<1>1. PurchaseInv => PosShowTheCharge
  <2> SUFFICES ASSUME PurchaseInv, NEW o \in Orders
               PROVE  /\ posted[o] # NoPaper /\ posted[o].amount > 0 =>
                           deductMaterial[posted[o].order] # NoRow
                      /\ po[o] # 0 /\ o \notin disturbed \cup contested =>
                           shelf[po[o]] = FileOf(o)
    BY DEF PosShowTheCharge, FileOf
  <2>1. QED
    BY DEF PurchaseInv, PapersCovered, IsCovered, FilesFit
<1>2. QED
  BY <1>1, PurchaseInvariant, PTL

(* A supplier never agreed to an amount that was not mailed to it.         *)
THEOREM SuppliersAgreeToTheMail == PurchaseSpec => []InvoicesAgreedAsMailed
<1>1. PurchaseInv => InvoicesAgreedAsMailed
  BY DEF PurchaseInv, InvoicesKnown, InvoicesFit, InvoicesAgreedAsMailed
<1>2. QED
  BY <1>1, PurchaseInvariant, PTL
=============================================================================
