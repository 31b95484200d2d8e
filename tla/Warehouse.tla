------------------------------ MODULE Warehouse ------------------------------
(***************************************************************************)
(* StockService, StockOutService, PurchaseRequestService and the parts of  *)
(* SuratJalanService and OrderService.submit that move goods: who changes  *)
(* a stock quantity, with which document, and on whose approval.           *)
(*                                                                         *)
(* Only financeApprove deducts inside a serializable transaction.  Every   *)
(* other handler reads a quantity, a status or a document count, and       *)
(* writes an absolute value later: each await between two accesses of      *)
(* shared rows is a step here, taken by one of the Workers.                *)
(***************************************************************************)
EXTENDS Totals

CONSTANTS
  Items,          \* catalogue items
  StockOuts,      \* requests to take goods out of the warehouse
  Orders,         \* order drafts that name one catalogue item
  Purchases,      \* bound: purchase requests that may ever be made
  Workers,        \* bound: requests the server handles at once
  Quantities,     \* quantities a user may ask for
  MaxQty,         \* bound: quantities an adjustment may set
  MaxDocuments,   \* bound: surat jalan of each type
  MaxTaken,       \* bound: goods one order may take over its submissions
  MaxOuts,        \* bound: times goods of one stock-out may leave
  NoRow, Idle

ASSUME WarehouseAssumption ==
  /\ IsFiniteSet(StockOuts) /\ IsFiniteSet(Orders) /\ IsFiniteSet(Purchases)
  /\ Quantities \subseteq Nat \ {0}
  /\ MaxQty \in Nat /\ MaxDocuments \in [{"SJ_OUT", "SJ_IN"} -> Nat] /\ MaxOuts \in Nat /\ MaxTaken \in Nat

VARIABLES
  qty,        \* StockItem.currentQty
  base,       \* history: what an item's quantity would be had nothing moved
              \* but what was counted by hand
  stockOut,   \* StockOut rows; admin and pm are what each of them approved,
              \* 0 for a null column; outs counts the times its goods left,
              \* gone how many
  purchase,   \* PurchaseRequest rows; receipts counts bookings into stock
  order,      \* Order rows with the line that names a catalogue item
  documents,  \* SuratJalan rows of the year, per type
  worker,     \* what each worker has checked or read, and does next
  disturbed,  \* history: rows whose status was written by a handler that had
              \* seen another one
  lost,       \* history: purchases whose receipt died half-way
  overtaken   \* history: items whose quantity was written from a stale read

goods == <<qty, base, overtaken>>
rows == <<stockOut, purchase, order, documents>>
history == <<disturbed, lost>>
warehouseVars == <<goods, rows, worker, history>>

NewOrders == [status : {"DRAFT"}, item : Items, qty : Quantities,
              freeText : BOOLEAN, available : {0}, taken : {0}]

WarehouseInit ==
  /\ qty \in [Items -> 0..MaxQty]
  /\ base = qty
  /\ overtaken = {}
  /\ stockOut = [s \in StockOuts |-> NoRow]
  /\ purchase = [p \in Purchases |-> NoRow]
  /\ order \in [Orders -> NewOrders]
  /\ documents = [SJ_OUT |-> 0, SJ_IN |-> 0]
  /\ worker = [w \in Workers |-> Idle]
  /\ disturbed = {}
  /\ lost = {}

Begins(w, h) ==
  /\ worker[w] = Idle
  /\ worker' = [worker EXCEPT ![w] = h]

At(w, step) == worker[w] # Idle /\ worker[w].step = step

Continues(w, step) == worker' = [worker EXCEPT ![w].step = step]

Done(w) == worker' = [worker EXCEPT ![w] = Idle]

Larger(a, b) == IF a >= b THEN a ELSE b

-----------------------------------------------------------------------------
(* StockService.  The quantity is written in one transaction with its log  *)
(* row; the quantity it starts from was read before that.                  *)

WriteStock(i, read, new) ==
  /\ qty' = [qty EXCEPT ![i] = new]
  /\ IF qty[i] = read
     THEN UNCHANGED <<base, overtaken>>
     ELSE base' = [base EXCEPT ![i] = 0] /\ overtaken' = overtaken \cup {i}

IsOf(row, i) == row # NoRow /\ row.item = i

(* What was booked into stock less what was taken out of it, so far.       *)
Booked(p, i) ==
  IF IsOf(purchase[p], i) THEN purchase[p].receipts * purchase[p].qty ELSE 0
Gone(s, i) == IF IsOf(stockOut[s], i) THEN stockOut[s].gone ELSE 0
TakenBy(o, i) == IF order[o].item = i THEN order[o].taken ELSE 0

Moved(i) ==
  Sum([p \in Purchases |-> Booked(p, i)], Purchases)
  - Sum([s \in StockOuts |-> Gone(s, i)], StockOuts)
  - Sum([o \in Orders |-> TakenBy(o, i)], Orders)

StartAdjust(w, i, new) ==
  /\ Begins(w, [step |-> "adjust", item |-> i, new |-> new])
  /\ UNCHANGED <<goods, rows, history>>

AdjustStock(w) ==
  LET h == worker[w] IN
  /\ At(w, "adjust")
  /\ qty' = [qty EXCEPT ![h.item] = h.new]
  /\ base' = [base EXCEPT ![h.item] = h.new - Moved(h.item)]
  /\ overtaken' = overtaken \ {h.item}
  /\ Done(w)
  /\ UNCHANGED <<rows, history>>

-----------------------------------------------------------------------------
(* Surat jalan.  A number is the count of the year plus one, read before   *)
(* the row is created: the column is unique, so the creation throws when   *)
(* another document of that type came in between.                          *)

ReadCount(w, type) ==
  /\ At(w, "countDocuments") /\ worker[w].type = type
  /\ worker' = [worker EXCEPT ![w] =
       [@ EXCEPT !.step = "createDocument", !.count = documents[type]]]
  /\ UNCHANGED <<goods, rows, history>>

NumberIsFree(w) == documents[worker[w].type] = worker[w].count

CreateDocument(w) ==
  /\ documents[worker[w].type] < MaxDocuments[worker[w].type]
  /\ documents' = [documents EXCEPT ![worker[w].type] = @ + 1]

-----------------------------------------------------------------------------
(* StockOutService.                                                        *)

NewStockOut(i, n) ==
  [status |-> "PENDING", item |-> i, qty |-> n, admin |-> 0, pm |-> 0, outs |-> 0,
   gone |-> 0]

CreateStockOut(s, i, n) ==
  /\ stockOut[s] = NoRow
  /\ stockOut' = [stockOut EXCEPT ![s] = NewStockOut(i, n)]
  /\ UNCHANGED <<goods, purchase, order, documents, worker, history>>

(* Mutant: a request sent back resumes where it was.                       *)
ResubmittedToPm(row, n) == [row EXCEPT !.status = "PENDING_PM_CONFIRM", !.qty = n]

Resubmitted(row, n) == [row EXCEPT !.status = "PENDING", !.qty = n]

(* The handlers that check the status and write by id: the status each     *)
(* asks for, and the row it leaves when it saw the row seen.               *)
AsksFor ==
  [ resubmit |-> {"DRAFT"}, adminStockApprove |-> {"PENDING"},
    adminStockReturn |-> {"PENDING"}, pmConfirm |-> {"PENDING_PM_CONFIRM"},
    pmReturn |-> {"PENDING_PM_CONFIRM"}, financeReturn |-> {"PENDING_FINANCE"},
    reject |-> {"DRAFT", "PENDING", "PENDING_PM_CONFIRM", "PENDING_FINANCE",
                "FULFILLED", "REJECTED"} ]

Leaves(row, h) ==
  CASE h.handler = "resubmit" -> Resubmitted(row, h.qty)
    [] h.handler = "adminStockApprove" ->
         [row EXCEPT !.status = "PENDING_PM_CONFIRM", !.admin = h.seen.qty]
    [] h.handler = "adminStockReturn" -> [row EXCEPT !.status = "DRAFT"]
    [] h.handler = "pmConfirm" ->
         [row EXCEPT !.status = "PENDING_FINANCE", !.pm = h.seen.qty]
    [] h.handler = "pmReturn" -> [row EXCEPT !.status = "PENDING", !.admin = 0]
    [] h.handler = "financeReturn" ->
         [row EXCEPT !.status = "DRAFT", !.admin = 0, !.pm = 0]
    [] h.handler = "reject" -> [row EXCEPT !.status = "REJECTED"]

StartReview(w, s, handler, n) ==
  /\ stockOut[s] # NoRow /\ stockOut[s].status \in AsksFor[handler]
  /\ handler # "resubmit" => n = stockOut[s].qty
  /\ Begins(w, [step |-> "review", handler |-> handler, stockOut |-> s,
                qty |-> n, seen |-> stockOut[s]])
  /\ UNCHANGED <<goods, rows, history>>

FinishReview(w) ==
  LET h == worker[w] IN
  /\ At(w, "review")
  /\ stockOut' = [stockOut EXCEPT ![h.stockOut] = Leaves(@, h)]
  /\ disturbed' = IF stockOut[h.stockOut] = h.seen
                  THEN disturbed ELSE disturbed \cup {h.stockOut}
  /\ Done(w)
  /\ UNCHANGED <<goods, purchase, order, documents, lost>>

OnHand(i, n) == qty[i] >= n

(* financeApprove: checked, deducted and written in one serializable       *)
(* transaction; the surat jalan follows, and may fail without consequence. *)
FinanceApprove(w, s) ==
  /\ stockOut[s] # NoRow /\ stockOut[s].status = "PENDING_FINANCE"
  /\ stockOut[s].outs < MaxOuts
  /\ LET i == stockOut[s].item
         n == stockOut[s].qty IN
       /\ OnHand(i, n)
       /\ WriteStock(i, qty[i], qty[i] - n)
       /\ stockOut' = [stockOut EXCEPT ![s].status = "FULFILLED",
                                       ![s].outs = @ + 1, ![s].gone = @ + n]
  /\ Begins(w, [step |-> "countDocuments", type |-> "SJ_OUT", count |-> 0,
                for |-> "stockOut"])
  /\ UNCHANGED <<purchase, order, documents, history>>

GenerateForStockOut(w) ==
  /\ At(w, "createDocument") /\ worker[w].for = "stockOut"
  /\ IF NumberIsFree(w) THEN CreateDocument(w) ELSE UNCHANGED documents
  /\ Done(w)
  /\ UNCHANGED <<goods, stockOut, purchase, order, history>>

-----------------------------------------------------------------------------
(* PurchaseRequestService.                                                 *)

(* Mutant: a receipt entered by mistake may be taken back.                 *)
TransitionsWithUndo ==
  [ PENDING |-> {"IN_REVIEW", "APPROVED", "REJECTED"},
    IN_REVIEW |-> {"APPROVED", "REJECTED"}, APPROVED |-> {"ORDERED"},
    ORDERED |-> {"RECEIVED"}, RECEIVED |-> {"ORDERED"}, REJECTED |-> {} ]

VALID_TRANSITIONS ==
  [ PENDING |-> {"IN_REVIEW", "APPROVED", "REJECTED"},
    IN_REVIEW |-> {"APPROVED", "REJECTED"}, APPROVED |-> {"ORDERED"},
    ORDERED |-> {"RECEIVED"}, RECEIVED |-> {}, REJECTED |-> {} ]

StartUpdateStatus(w, p, to) ==
  /\ purchase[p] # NoRow /\ to \in VALID_TRANSITIONS[purchase[p].status]
  /\ Begins(w, [step |-> "updateStatus", purchase |-> p, to |-> to,
                seen |-> purchase[p].status])
  /\ UNCHANGED <<goods, rows, history>>

(* The status is written first; what RECEIVED entails comes after it.      *)
UpdateStatus(w) ==
  LET h == worker[w] IN
  /\ At(w, "updateStatus")
  /\ purchase' = [purchase EXCEPT ![h.purchase].status = h.to]
  /\ disturbed' = IF purchase[h.purchase].status = h.seen
                  THEN disturbed ELSE disturbed \cup {h.purchase}
  /\ IF h.to = "RECEIVED"
     THEN worker' = [worker EXCEPT ![w] =
            [step |-> "countDocuments", type |-> "SJ_IN", count |-> 0,
             for |-> "purchase", purchase |-> h.purchase]]
     ELSE Done(w)
  /\ UNCHANGED <<goods, stockOut, order, documents, lost>>

(* generateSuratJalanIn: when its number is taken the handler throws, and  *)
(* the goods of a purchase that is already RECEIVED are not booked.        *)
GenerateSuratJalanIn(w) ==
  LET p == worker[w].purchase IN
  /\ At(w, "createDocument") /\ worker[w].for = "purchase"
  /\ IF NumberIsFree(w)
     THEN /\ CreateDocument(w)
          /\ worker' = [worker EXCEPT ![w] = [step |-> "readStock", purchase |-> p]]
          /\ UNCHANGED lost
     ELSE /\ lost' = lost \cup {p}
          /\ Done(w)
          /\ UNCHANGED documents
  /\ UNCHANGED <<goods, stockOut, purchase, order, disturbed>>

(* applyPurchaseRequestToStock, through receiveStock.                      *)
ReadForReceipt(w) ==
  /\ At(w, "readStock")
  /\ worker' = [worker EXCEPT ![w] =
       [step |-> "receiveStock", purchase |-> @.purchase,
        read |-> qty[purchase[@.purchase].item]]]
  /\ UNCHANGED <<goods, rows, history>>

ReceiveStock(w) ==
  LET h == worker[w]
      n == purchase[h.purchase].qty IN
  /\ At(w, "receiveStock")
  /\ WriteStock(purchase[h.purchase].item, h.read, h.read + n)
  /\ purchase' = [purchase EXCEPT ![h.purchase].receipts = @ + 1]
  /\ Done(w)
  /\ UNCHANGED <<stockOut, order, documents, history>>

-----------------------------------------------------------------------------
(* OrderService.submit: the order and its line as read at the start are    *)
(* what deductAvailableItems works from, although checkAvailability has    *)
(* meanwhile written the line.                                             *)

StartSubmit(w, o, isAdminStock) ==
  /\ order[o].status = "DRAFT"
  /\ Begins(w, [step |-> IF isAdminStock THEN "countPurchases" ELSE "checkAvailability",
                order |-> o, available |-> order[o].available, branch |-> "NO_STOCK"])
  /\ UNCHANGED <<goods, rows, history>>

(* The line leaves the stock, is bought, or leaves while a free-text line  *)
(* is bought.                                                              *)
Branch(o, stock) ==
  IF stock < order[o].qty THEN "NO_STOCK"
  ELSE IF order[o].freeText THEN "PARTIAL_STOCK" ELSE "STOCK_AVAILABLE"

(* What deductAvailableItems takes: a line's availableQty as read first.   *)
Taken(h) == h.available

CheckAvailability(w) ==
  LET h == worker[w]
      branch == Branch(h.order, qty[order[h.order].item]) IN
  /\ At(w, "checkAvailability")
  /\ order' = [order EXCEPT ![h.order].available = qty[order[h.order].item]]
  /\ worker' = [worker EXCEPT ![w] =
       [h EXCEPT !.branch = branch,
                 !.step = IF branch = "NO_STOCK" THEN "countPurchases"
                          ELSE IF Taken(h) > 0 THEN "readForOrder"
                          ELSE "countForOrder"]]
  /\ UNCHANGED <<goods, stockOut, purchase, documents, history>>

ReadForOrder(w) ==
  LET h == worker[w] IN
  /\ At(w, "readForOrder")
  /\ worker' = [worker EXCEPT ![w] =
       [step |-> "deductStock", order |-> h.order, available |-> h.available,
        branch |-> h.branch, read |-> qty[order[h.order].item]]]
  /\ UNCHANGED <<goods, rows, history>>

(* deductStock never goes below zero.                                      *)
DeductStock(w) ==
  LET h == worker[w] IN
  /\ At(w, "deductStock")
  /\ LET left == Larger(0, h.read - Taken(h)) IN
       /\ order[h.order].taken + h.read - left <= MaxTaken
       /\ WriteStock(order[h.order].item, h.read, left)
       /\ order' = [order EXCEPT ![h.order].taken = @ + h.read - left]
  /\ Continues(w, "countForOrder")
  /\ UNCHANGED <<stockOut, purchase, documents, history>>

ForOrder(w, type) ==
  [step |-> "createDocument", type |-> type, count |-> documents[type],
   for |-> "order", order |-> worker[w].order, branch |-> worker[w].branch]

CountForOrder(w) ==
  /\ At(w, "countForOrder")
  /\ worker' = [worker EXCEPT ![w] = ForOrder(w, "SJ_OUT")]
  /\ UNCHANGED <<goods, rows, history>>

(* generateSuratJalanOut: when its number is taken submit throws, and the  *)
(* order stays a draft whose goods may have left.                          *)
GenerateSuratJalanOut(w) ==
  LET h == worker[w] IN
  /\ At(w, "createDocument") /\ h.for = "order"
  /\ IF NumberIsFree(w)
     THEN /\ CreateDocument(w)
          /\ worker' = [worker EXCEPT ![w] =
               [step |-> IF h.branch = "PARTIAL_STOCK" THEN "countPurchases"
                         ELSE "finishSubmit",
                order |-> h.order, branch |-> h.branch]]
     ELSE /\ Done(w)
          /\ UNCHANGED documents
  /\ UNCHANGED <<goods, stockOut, purchase, order, history>>

Made == {p \in Purchases : purchase[p] # NoRow}

CountPurchases(w) ==
  LET h == worker[w] IN
  /\ At(w, "countPurchases")
  /\ worker' = [worker EXCEPT ![w] =
       [step |-> "createPurchase", order |-> h.order, branch |-> h.branch,
        count |-> Cardinality(Made)]]
  /\ UNCHANGED <<goods, rows, history>>

(* createFromOrder: the catalogue line is bought unless it was on hand.    *)
(* The free-text line names no catalogue item.                             *)
NewPurchase(h) ==
  [ status |-> "PENDING", item |-> order[h.order].item, receipts |-> 0,
    qty |-> IF h.branch = "NO_STOCK" THEN order[h.order].qty ELSE 0 ]

CreateFromOrder(w) ==
  LET h == worker[w] IN
  /\ At(w, "createPurchase")
  /\ IF h.count = Cardinality(Made)
     THEN /\ \E p \in Purchases \ Made :
               purchase' = [purchase EXCEPT ![p] = NewPurchase(h)]
          /\ worker' = [worker EXCEPT ![w] =
               [step |-> "finishSubmit", order |-> h.order, branch |-> h.branch]]
     ELSE /\ Done(w)
          /\ UNCHANGED purchase
  /\ UNCHANGED <<goods, stockOut, order, documents, history>>

FinishSubmit(w) ==
  LET h == worker[w] IN
  /\ At(w, "finishSubmit")
  /\ order' = [order EXCEPT ![h.order].status = h.branch]
  /\ Done(w)
  /\ UNCHANGED <<goods, stockOut, purchase, documents, history>>

-----------------------------------------------------------------------------
(* A handler that wrote RECEIVED and has not booked the goods yet.         *)
Receiving(w, p) ==
  /\ worker[w] # Idle /\ worker[w].step # "updateStatus"
  /\ "purchase" \in DOMAIN worker[w] /\ worker[w].purchase = p

(* A request dies half-way: an error, a restart, a lost connection.        *)
Abandon(w) ==
  /\ worker[w] # Idle
  /\ lost' = lost \cup {p \in Purchases : Receiving(w, p)}
  /\ Done(w)
  /\ UNCHANGED <<goods, rows, disturbed>>

WarehouseNext ==
  \E w \in Workers :
    \/ \E i \in Items, n \in 0..MaxQty : StartAdjust(w, i, n)
    \/ AdjustStock(w)
    \/ \E s \in StockOuts, i \in Items, n \in Quantities :
         worker[w] = Idle /\ CreateStockOut(s, i, n)
    \/ \E s \in StockOuts, h \in DOMAIN AsksFor, n \in Quantities : StartReview(w, s, h, n)
    \/ FinishReview(w)
    \/ \E s \in StockOuts : FinanceApprove(w, s)
    \/ \E type \in {"SJ_OUT", "SJ_IN"} : ReadCount(w, type)
    \/ GenerateForStockOut(w)
    \/ \E p \in Purchases, to \in DOMAIN VALID_TRANSITIONS : StartUpdateStatus(w, p, to)
    \/ UpdateStatus(w)
    \/ GenerateSuratJalanIn(w)
    \/ ReadForReceipt(w)
    \/ ReceiveStock(w)
    \/ \E o \in Orders, isAdminStock \in BOOLEAN : StartSubmit(w, o, isAdminStock)
    \/ CheckAvailability(w)
    \/ ReadForOrder(w)
    \/ DeductStock(w)
    \/ CountForOrder(w)
    \/ GenerateSuratJalanOut(w)
    \/ CountPurchases(w)
    \/ CreateFromOrder(w)
    \/ FinishSubmit(w)
    \/ Abandon(w)

WarehouseSpec == WarehouseInit /\ [][WarehouseNext]_warehouseVars

-----------------------------------------------------------------------------
StockOutRow ==
  [ status : UNION {AsksFor[h] : h \in DOMAIN AsksFor}, item : Items,
    qty : Quantities, admin : Quantities \cup {0}, pm : Quantities \cup {0},
    outs : 0..MaxOuts, gone : Nat ]

PurchaseRow ==
  [ status : DOMAIN VALID_TRANSITIONS, item : Items,
    qty : Quantities \cup {0}, receipts : Nat ]

Branches == {"STOCK_AVAILABLE", "PARTIAL_STOCK", "NO_STOCK"}

OrderRow ==
  [ status : {"DRAFT"} \cup Branches, item : Items,
    qty : Quantities, freeText : BOOLEAN, available : Nat, taken : Nat ]

Documents == {"SJ_OUT", "SJ_IN"}

(* What a handler may be about to do, and what it remembers.               *)
Tasks ==
       [ step : {"adjust"}, item : Items, new : Nat ]
  \cup [ step : {"review"}, handler : DOMAIN AsksFor, stockOut : StockOuts,
         qty : Quantities, seen : StockOutRow ]
  \cup [ step : {"countDocuments", "createDocument"}, type : Documents, count : Nat,
         for : {"stockOut"} ]
  \cup [ step : {"countDocuments", "createDocument"}, type : Documents, count : Nat,
         for : {"purchase"}, purchase : Purchases ]
  \cup [ step : {"createDocument"}, type : Documents, count : Nat, for : {"order"},
         order : Orders, branch : Branches ]
  \cup [ step : {"updateStatus"}, purchase : Purchases,
         to : DOMAIN VALID_TRANSITIONS, seen : DOMAIN VALID_TRANSITIONS ]
  \cup [ step : {"readStock"}, purchase : Purchases ]
  \cup [ step : {"receiveStock"}, purchase : Purchases, read : Nat ]
  \cup [ step : {"checkAvailability", "countPurchases", "readForOrder", "countForOrder"},
         order : Orders, available : Nat, branch : Branches ]
  \cup [ step : {"deductStock", "countForOrder"}, order : Orders, available : Nat,
         branch : Branches, read : Nat ]
  \cup [ step : {"countPurchases", "finishSubmit"}, order : Orders, branch : Branches ]
  \cup [ step : {"createPurchase"}, order : Orders, branch : Branches, count : Nat ]

(* No row and no task are not rows and tasks.                              *)
ASSUME NothingAssumption ==
  NoRow \notin StockOutRow \cup PurchaseRow /\ Idle \notin Tasks

(* Every table holds rows of its shape, and every worker a task of its;    *)
(* no stock quantity is negative.                                          *)
WarehouseTypeOK ==
  /\ qty \in [Items -> Nat]
  /\ stockOut \in [StockOuts -> StockOutRow \cup {NoRow}]
  /\ purchase \in [Purchases -> PurchaseRow \cup {NoRow}]
  /\ order \in [Orders -> OrderRow]
  /\ documents \in [Documents -> Nat]
  /\ worker \in [Workers -> Tasks \cup {Idle}]

(* What the rows of the documents say moved: purchases that are RECEIVED,  *)
(* stock-outs that were FULFILLED, what orders took.                       *)
Received(p, i) ==
  IF IsOf(purchase[p], i) /\ purchase[p].status = "RECEIVED" THEN purchase[p].qty ELSE 0
Fulfilled(s, i) ==
  IF IsOf(stockOut[s], i) /\ stockOut[s].outs > 0 THEN stockOut[s].qty ELSE 0

Documented(i) ==
  Sum([p \in Purchases |-> Received(p, i)], Purchases)
  - Sum([s \in StockOuts |-> Fulfilled(s, i)], StockOuts)
  - Sum([o \in Orders |-> TakenBy(o, i)], Orders)

(* When nobody is at work, and as long as no two handlers overtook each    *)
(* other and no receipt died half-way, an item's quantity is what the      *)
(* documents say: the last count by hand, plus the purchases received,     *)
(* less what stock-outs and orders took, through every failed submission   *)
(* and every return for revision.                                          *)
StockMatchesDocuments ==
  \A i \in Items \ overtaken :
    (disturbed = {} /\ lost = {} /\ \A w \in Workers : worker[w] = Idle) =>
      qty[i] = base[i] + Documented(i)

(* Unless a review overwrote a row it had not seen, goods leave at most    *)
(* once per request, for the quantity the stock administrator and the      *)
(* requesting PM both saw, over any number of returns and revisions.       *)
GoodsLeaveAsApproved ==
  \A s \in StockOuts \ disturbed :
    stockOut[s] # NoRow =>
      /\ stockOut[s].outs <= 1
      /\ stockOut[s].status = "FULFILLED" =>
           /\ stockOut[s].outs = 1
           /\ stockOut[s].admin = stockOut[s].qty /\ stockOut[s].pm = stockOut[s].qty

(* Unless two calls raced or one died half-way, a purchase is booked into  *)
(* stock exactly when it is RECEIVED and nobody is still receiving it.     *)
PurchasesArrive ==
  \A p \in Purchases \ (disturbed \cup lost) :
    purchase[p] # NoRow =>
      purchase[p].receipts =
        IF purchase[p].status = "RECEIVED" /\ ~ \E w \in Workers : Receiving(w, p)
        THEN 1 ELSE 0

(* "OUT SJ: ... stok sudah dikurangi saat submit": an order whose goods    *)
(* were on hand took them from the stock when it was submitted.            *)
SubmittedGoodsLeft ==
  \A o \in Orders :
    order[o].status = "STOCK_AVAILABLE" => order[o].taken >= order[o].qty
=============================================================================
