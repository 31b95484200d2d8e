--------------------------- MODULE WarehouseProofs ---------------------------
(***************************************************************************)
(* Warehouse for any number of requests and of handlers at work: goods     *)
(* leave as they were approved, what was bought arrives once, and the      *)
(* quantities are what the documents add up to.                            *)
(***************************************************************************)
EXTENDS Warehouse, TotalTheorems

-----------------------------------------------------------------------------
(* The invariant.                                                          *)

(* What the status of a stock-out says of its approvals and its goods.     *)
Approves(row) ==
  /\ row.outs = IF row.status = "FULFILLED" THEN 1
                ELSE IF row.status = "REJECTED" THEN row.outs ELSE 0
  /\ row.outs <= 1
  /\ row.status \in {"PENDING_PM_CONFIRM", "PENDING_FINANCE", "FULFILLED"} =>
       row.admin = row.qty
  /\ row.status \in {"PENDING_FINANCE", "FULFILLED"} => row.pm = row.qty

StockOutsInv ==
  \A s \in StockOuts \ disturbed : stockOut[s] # NoRow => Approves(stockOut[s])

(* A handler works on a row that is there, and has asked for its status.   *)
TaskInv(h) ==
  /\ h.step = "review" =>
       stockOut[h.stockOut] # NoRow /\ h.seen.status \in AsksFor[h.handler]
  /\ "purchase" \in DOMAIN h => purchase[h.purchase] # NoRow
  /\ h.step = "updateStatus" => h.to \in VALID_TRANSITIONS[h.seen]

(* A purchase is being received by one handler, after it was marked so.    *)
Arrives(p) ==
  /\ \A w \in Workers : Receiving(w, p) =>
       /\ purchase[p].status = "RECEIVED"
       /\ \A v \in Workers : Receiving(v, p) => v = w
  /\ purchase[p].receipts =
       IF purchase[p].status = "RECEIVED" /\ ~ \E w \in Workers : Receiving(w, p)
       THEN 1 ELSE 0

PurchasesInv ==
  \A p \in Purchases \ (disturbed \cup lost) : purchase[p] # NoRow => Arrives(p)

WarehouseInv ==
  /\ WarehouseTypeOK
  /\ StockOutsInv
  /\ \A w \in Workers : worker[w] # Idle => TaskInv(worker[w])
  /\ PurchasesInv

-----------------------------------------------------------------------------
(* Tasks and what they remember.                                           *)

(* Which fields a task has, by its step.                                   *)
LEMMA TaskFacts ==
  ASSUME NEW h \in Tasks
  PROVE  /\ h.step = "adjust" => h.item \in Items /\ h.new \in Nat
         /\ h.step = "review" =>
              /\ h.handler \in DOMAIN AsksFor /\ h.stockOut \in StockOuts
              /\ h.qty \in Quantities /\ h.seen \in StockOutRow
         /\ h.step \in {"countDocuments", "createDocument"} =>
              h.type \in Documents /\ h.count \in Nat
         /\ h.step = "countDocuments" => h.for \in {"stockOut", "purchase"}
         /\ h.step = "createDocument" => h.for \in {"stockOut", "purchase", "order"}
         /\ h.step = "createDocument" /\ h.for = "order" =>
              h.order \in Orders /\ h.branch \in Branches
         /\ h.step = "updateStatus" =>
              /\ h.purchase \in Purchases
              /\ h.to \in DOMAIN VALID_TRANSITIONS /\ h.seen \in DOMAIN VALID_TRANSITIONS
         /\ h.step = "receiveStock" => h.read \in Nat
         /\ h.step \in {"checkAvailability", "readForOrder", "deductStock"} =>
              h.order \in Orders /\ h.available \in Nat /\ h.branch \in Branches
         /\ h.step = "deductStock" => h.read \in Nat
         /\ h.step \in {"countPurchases", "countForOrder", "createPurchase", "finishSubmit"} =>
              h.order \in Orders /\ h.branch \in Branches
  BY DEF Tasks

(* Which tasks are about a purchase.                                       *)
LEMMA PurchaseTasks ==
  ASSUME NEW h \in Tasks
  PROVE  /\ "purchase" \in DOMAIN h <=>
              \/ h.step \in {"updateStatus", "readStock", "receiveStock"}
              \/ h.step \in {"countDocuments", "createDocument"} /\ h.for = "purchase"
         /\ "purchase" \in DOMAIN h => h.purchase \in Purchases
  BY DEF Tasks

(* A worker's task, unless it is idle.                                     *)
LEMMA TaskOf ==
  ASSUME WarehouseTypeOK, NEW w \in Workers, worker[w] # Idle
  PROVE  worker[w] \in Tasks
  BY DEF WarehouseTypeOK

(* A task between marking a purchase received and booking its goods.       *)
Receives(h, p) ==
  h # Idle /\ h.step # "updateStatus" /\ "purchase" \in DOMAIN h /\ h.purchase = p

-----------------------------------------------------------------------------
(* Steps that change no stock-out and no purchase.                         *)

(* A worker takes up a task, goes on or is done: the invariant holds of    *)
(* its new task, and it receives the same purchases, or they are lost.     *)
LEMMA QuietStep ==
  ASSUME WarehouseInv, NEW w \in Workers, NEW h \in Tasks \cup {Idle},
         worker' = [worker EXCEPT ![w] = h],
         UNCHANGED <<stockOut, purchase, disturbed>>, lost \subseteq lost',
         qty' \in [Items -> Nat], order' \in [Orders -> OrderRow],
         documents' \in [Documents -> Nat],
         h # Idle => TaskInv(h),
         \A p \in Purchases \ lost' : Receives(h, p) <=> Receives(worker[w], p)
  PROVE  WarehouseInv'
<1>1. WarehouseTypeOK
  BY DEF WarehouseInv
<1>2. \A v \in Workers : worker'[v] = IF v = w THEN h ELSE worker[v]
  BY <1>1 DEF WarehouseTypeOK
<1>3. WarehouseTypeOK'
  BY <1>1 DEF WarehouseTypeOK
<1>4. StockOutsInv'
  BY DEF WarehouseInv, StockOutsInv
<1>5. ASSUME NEW v \in Workers, worker'[v] # Idle PROVE TaskInv(worker[v])'
  <2>1. CASE v = w
    <3>1. worker'[v] = h /\ h # Idle /\ TaskInv(h)
      BY <1>2, <1>5, <2>1
    <3>2. QED
      BY <3>1 DEF TaskInv
  <2>2. CASE v # w
    <3>1. worker'[v] = worker[v] /\ TaskInv(worker[v])
      BY <1>2, <1>5, <2>2 DEF WarehouseInv
    <3>2. QED
      BY <3>1 DEF TaskInv
  <2>3. QED
    BY <2>1, <2>2
<1>6. PurchasesInv'
  <2> SUFFICES ASSUME NEW p \in Purchases \ (disturbed' \cup lost'), purchase'[p] # NoRow
               PROVE  Arrives(p)'
    BY DEF PurchasesInv
  <2>1. Arrives(p)
    BY DEF WarehouseInv, PurchasesInv
  <2>2. \A v \in Workers : Receiving(v, p)' <=> Receiving(v, p)
    BY <1>2 DEF Receiving, Receives
  <2>3. QED
    BY <2>1, <2>2 DEF Arrives
<1>7. QED
  BY <1>3, <1>4, <1>5, <1>6 DEF WarehouseInv

(* A task that is not about a purchase, taken up or left, receives none.   *)
LEMMA NoPurchase ==
  ASSUME NEW h \in Tasks \cup {Idle},
         h # Idle => h.step = "updateStatus" \/ "purchase" \notin DOMAIN h
  PROVE  \A p : ~Receives(h, p)
  BY DEF Receives

(* The steps of the stock-outs' and orders' handlers.                      *)
LEMMA QuietKeeps ==
  ASSUME WarehouseInv, NEW w \in Workers, NEW h \in Tasks \cup {Idle},
         worker' = [worker EXCEPT ![w] = h],
         UNCHANGED <<stockOut, purchase, disturbed, lost>>,
         qty' \in [Items -> Nat], order' \in [Orders -> OrderRow],
         documents' \in [Documents -> Nat],
         worker[w] # Idle => worker[w].step = "updateStatus" \/ "purchase" \notin DOMAIN worker[w],
         h # Idle => /\ "purchase" \notin DOMAIN h
                     /\ h.step \notin {"review", "updateStatus"}
  PROVE  WarehouseInv'
<1>1. worker[w] \in Tasks \cup {Idle}
  BY DEF WarehouseInv, WarehouseTypeOK
<1>2. \A p : Receives(h, p) <=> Receives(worker[w], p)
  BY <1>1, NoPurchase
<1>3. h # Idle => TaskInv(h)
  BY DEF TaskInv
<1>4. QED
  BY <1>2, <1>3, QuietStep

(* adjustStock, before and after it read the quantity.                     *)
LEMMA AdjustKeeps ==
  ASSUME WarehouseInv, NEW w \in Workers,
         \/ \E i \in Items, n \in 0..MaxQty : StartAdjust(w, i, n)
         \/ AdjustStock(w)
  PROVE  WarehouseInv'
<1>1. WarehouseTypeOK
  BY DEF WarehouseInv
<1>2. ASSUME NEW i \in Items, NEW n \in 0..MaxQty, StartAdjust(w, i, n)
      PROVE  WarehouseInv'
  <2> DEFINE h == [step |-> "adjust", item |-> i, new |-> n]
  <2>1. n \in Nat
    BY WarehouseAssumption
  <2>2. h \in Tasks
    BY <2>1 DEF Tasks
  <2>3. h.step = "adjust" /\ "purchase" \notin DOMAIN h
    OBVIOUS
  <2>4. /\ worker[w] = Idle /\ worker' = [worker EXCEPT ![w] = h]
        /\ UNCHANGED <<qty, stockOut, purchase, order, documents, disturbed, lost>>
    BY <1>2 DEF StartAdjust, Begins, goods, rows, history
  <2> HIDE DEF h
  <2>5. QED
    BY <1>1, <2>2, <2>3, <2>4, QuietKeeps DEF WarehouseTypeOK
<1>3. ASSUME AdjustStock(w) PROVE WarehouseInv'
  <2>1. worker[w] # Idle /\ worker[w].step = "adjust"
    BY <1>3 DEF AdjustStock, At
  <2>2. worker[w] \in Tasks
    BY <1>1, <2>1, TaskOf
  <2>3. "purchase" \notin DOMAIN worker[w] /\ worker[w].item \in Items /\ worker[w].new \in Nat
    BY <2>1, <2>2, TaskFacts, PurchaseTasks
  <2>4. /\ qty' = [qty EXCEPT ![worker[w].item] = worker[w].new]
        /\ worker' = [worker EXCEPT ![w] = Idle]
        /\ UNCHANGED <<stockOut, purchase, order, documents, disturbed, lost>>
    BY <1>3 DEF AdjustStock, Done, rows, history
  <2>5. qty' \in [Items -> Nat] /\ order' \in [Orders -> OrderRow] /\ documents' \in [Documents -> Nat]
    BY <1>1, <2>3, <2>4 DEF WarehouseTypeOK
  <2>6. QED
    BY <2>3, <2>4, <2>5, QuietKeeps
<1>4. QED
  BY <1>2, <1>3

(* A review has asked for the status of the row it remembers.              *)
LEMMA StartReviewKeeps ==
  ASSUME WarehouseInv, NEW w \in Workers, NEW s \in StockOuts,
         NEW do \in DOMAIN AsksFor, NEW n \in Quantities, StartReview(w, s, do, n)
  PROVE  WarehouseInv'
<1> DEFINE h == [step |-> "review", handler |-> do, stockOut |-> s, qty |-> n,
                 seen |-> stockOut[s]]
<1>1. WarehouseTypeOK
  BY DEF WarehouseInv
<1>2. /\ stockOut[s] # NoRow /\ stockOut[s].status \in AsksFor[do]
      /\ worker[w] = Idle /\ worker' = [worker EXCEPT ![w] = h]
      /\ UNCHANGED <<qty, stockOut, purchase, order, documents, disturbed, lost>>
  BY DEF StartReview, Begins, goods, rows, history
<1>3. stockOut[s] \in StockOutRow
  BY <1>1, <1>2 DEF WarehouseTypeOK
<1>4. h \in Tasks
  BY <1>3 DEF Tasks
<1>5. h.step = "review" /\ "purchase" \notin DOMAIN h /\ h.stockOut = s
      /\ h.seen = stockOut[s] /\ h.handler = do
  OBVIOUS
<1> HIDE DEF h
<1>6. TaskInv(h)
  BY <1>2, <1>5 DEF TaskInv
<1>7. \A p : Receives(h, p) <=> Receives(worker[w], p)
  BY <1>2, <1>5 DEF Receives
<1>8. QED
  BY <1>1, <1>2, <1>4, <1>6, <1>7, QuietStep DEF WarehouseTypeOK

(* A surat jalan's number is counted, whatever it is for.                  *)
LEMMA ReadCountKeeps ==
  ASSUME WarehouseInv, NEW w \in Workers, NEW type \in Documents, ReadCount(w, type)
  PROVE  WarehouseInv'
<1> DEFINE was == worker[w]
           n == documents[type]
           h == [was EXCEPT !.step = "createDocument", !.count = n]
<1>1. WarehouseTypeOK
  BY DEF WarehouseInv
<1>2. /\ was # Idle /\ was.step = "countDocuments"
      /\ worker' = [worker EXCEPT ![w] = h]
      /\ UNCHANGED <<qty, stockOut, purchase, order, documents, disturbed, lost>>
  BY DEF ReadCount, At, goods, rows, history
<1>3. was \in Tasks /\ TaskInv(was) /\ n \in Nat
  BY <1>1, <1>2, TaskOf DEF WarehouseTypeOK, WarehouseInv
<1> HIDE DEF was, n
<1>4. \/ was \in [ step : {"countDocuments", "createDocument"}, type : Documents,
                   count : Nat, for : {"stockOut"} ]
      \/ was \in [ step : {"countDocuments", "createDocument"}, type : Documents,
                   count : Nat, for : {"purchase"}, purchase : Purchases ]
  BY <1>2, <1>3 DEF Tasks
<1>5. /\ h \in Tasks /\ h.step = "createDocument"
      /\ "purchase" \in DOMAIN h <=> "purchase" \in DOMAIN was
      /\ "purchase" \in DOMAIN was => h.purchase = was.purchase
  <2>1. CASE was \in [ step : {"countDocuments", "createDocument"}, type : Documents,
                       count : Nat, for : {"stockOut"} ]
    BY <1>3, <2>1 DEF Tasks
  <2>2. CASE was \in [ step : {"countDocuments", "createDocument"}, type : Documents,
                       count : Nat, for : {"purchase"}, purchase : Purchases ]
    BY <1>3, <2>2 DEF Tasks
  <2>3. QED
    BY <1>4, <2>1, <2>2
<1> HIDE DEF h
<1>6. TaskInv(h)
  BY <1>3, <1>5 DEF TaskInv
<1>7. \A p : Receives(h, p) <=> Receives(was, p)
  BY <1>2, <1>5, NothingAssumption DEF Receives
<1>8. QED
  BY <1>1, <1>2, <1>5, <1>6, <1>7, QuietStep DEF WarehouseTypeOK, was

(* A stock-out's surat jalan, or none.                                     *)
LEMMA GenerateForStockOutKeeps ==
  ASSUME WarehouseInv, NEW w \in Workers, GenerateForStockOut(w)
  PROVE  WarehouseInv'
<1>1. WarehouseTypeOK
  BY DEF WarehouseInv
<1>2. /\ worker[w] # Idle /\ worker[w].step = "createDocument" /\ worker[w].for = "stockOut"
      /\ worker' = [worker EXCEPT ![w] = Idle]
      /\ UNCHANGED <<qty, stockOut, purchase, order, disturbed, lost>>
      /\ \/ UNCHANGED documents
         \/ documents' = [documents EXCEPT ![worker[w].type] = documents[worker[w].type] + 1]
  BY DEF GenerateForStockOut, At, Done, CreateDocument, goods, history
<1>3. worker[w] \in Tasks
  BY <1>1, <1>2, TaskOf
<1>4. "purchase" \notin DOMAIN worker[w] /\ worker[w].type \in Documents
  BY <1>2, <1>3, TaskFacts, PurchaseTasks
<1>5. documents' \in [Documents -> Nat]
  BY <1>1, <1>2, <1>4 DEF WarehouseTypeOK
<1>6. QED
  BY <1>1, <1>2, <1>4, <1>5, QuietKeeps DEF WarehouseTypeOK

(* A purchase's handler has asked which status may follow.                 *)
LEMMA StartUpdateStatusKeeps ==
  ASSUME WarehouseInv, NEW w \in Workers, NEW p \in Purchases,
         NEW to \in DOMAIN VALID_TRANSITIONS, StartUpdateStatus(w, p, to)
  PROVE  WarehouseInv'
<1> DEFINE h == [step |-> "updateStatus", purchase |-> p, to |-> to,
                 seen |-> purchase[p].status]
<1>1. WarehouseTypeOK
  BY DEF WarehouseInv
<1>2. /\ purchase[p] # NoRow /\ to \in VALID_TRANSITIONS[purchase[p].status]
      /\ worker[w] = Idle /\ worker' = [worker EXCEPT ![w] = h]
      /\ UNCHANGED <<qty, stockOut, purchase, order, documents, disturbed, lost>>
  BY DEF StartUpdateStatus, Begins, goods, rows, history
<1>3. purchase[p].status \in DOMAIN VALID_TRANSITIONS
  BY <1>1, <1>2 DEF WarehouseTypeOK, PurchaseRow
<1>4. h \in Tasks
  BY <1>3 DEF Tasks
<1>5. h.step = "updateStatus" /\ h.purchase = p /\ h.to = to /\ h.seen = purchase[p].status
  OBVIOUS
<1> HIDE DEF h
<1>6. TaskInv(h)
  BY <1>2, <1>5 DEF TaskInv
<1>7. \A q : Receives(h, q) <=> Receives(worker[w], q)
  BY <1>2, <1>5 DEF Receives
<1>8. QED
  BY <1>1, <1>2, <1>4, <1>6, <1>7, QuietStep DEF WarehouseTypeOK

(* The document of a purchase that arrived; when its number is taken, the  *)
(* goods are never booked and the purchase counts as lost.                 *)
LEMMA GenerateSuratJalanInKeeps ==
  ASSUME WarehouseInv, NEW w \in Workers, GenerateSuratJalanIn(w)
  PROVE  WarehouseInv'
<1> DEFINE p == worker[w].purchase
<1>1. WarehouseTypeOK
  BY DEF WarehouseInv
<1>2. /\ worker[w] # Idle /\ worker[w].step = "createDocument" /\ worker[w].for = "purchase"
      /\ UNCHANGED <<qty, stockOut, purchase, order, disturbed>>
      /\ \/ /\ documents' = [documents EXCEPT ![worker[w].type] = documents[worker[w].type] + 1]
            /\ worker' = [worker EXCEPT ![w] = [step |-> "readStock", purchase |-> p]]
            /\ UNCHANGED lost
         \/ /\ lost' = lost \cup {p}
            /\ worker' = [worker EXCEPT ![w] = Idle]
            /\ UNCHANGED documents
  BY DEF GenerateSuratJalanIn, At, Done, CreateDocument, goods
<1>3. worker[w] \in Tasks /\ TaskInv(worker[w])
  BY <1>1, <1>2, TaskOf DEF WarehouseInv
<1>4. "purchase" \in DOMAIN worker[w] /\ p \in Purchases /\ worker[w].type \in Documents
  BY <1>2, <1>3, TaskFacts, PurchaseTasks
<1>5. purchase[p] # NoRow
  BY <1>3, <1>4 DEF TaskInv
<1>6. \A q : Receives(worker[w], q) <=> q = p
  BY <1>2, <1>4 DEF Receives
<1>7. documents' \in [Documents -> Nat]
  BY <1>1, <1>2, <1>4 DEF WarehouseTypeOK
<1>8. CASE /\ worker' = [worker EXCEPT ![w] = [step |-> "readStock", purchase |-> p]]
           /\ UNCHANGED lost
  <2> DEFINE h == [step |-> "readStock", purchase |-> p]
  <2>1. h \in Tasks /\ h.step = "readStock" /\ "purchase" \in DOMAIN h /\ h.purchase = p
    BY <1>4 DEF Tasks
  <2> HIDE DEF h
  <2>2. TaskInv(h)
    BY <1>5, <2>1 DEF TaskInv
  <2>3. \A q : Receives(h, q) <=> Receives(worker[w], q)
    BY <1>6, <2>1, NothingAssumption DEF Receives
  <2>4. worker' = [worker EXCEPT ![w] = h]
    BY <1>8 DEF h
  <2>5. QED
    BY <1>1, <1>2, <1>7, <1>8, <2>1, <2>2, <2>3, <2>4, QuietStep DEF WarehouseTypeOK
<1>9. CASE lost' = lost \cup {p} /\ worker' = [worker EXCEPT ![w] = Idle]
  <2>1. \A q \in Purchases \ lost' : Receives(Idle, q) <=> Receives(worker[w], q)
    BY <1>6, <1>9 DEF Receives
  <2>2. lost \subseteq lost'
    BY <1>9
  <2>3. QED
    BY <1>1, <1>2, <1>7, <1>9, <2>1, <2>2, QuietStep DEF WarehouseTypeOK
<1>10. QED
  BY <1>2, <1>8, <1>9

(* receiveStock reads the quantity before it writes it.                    *)
LEMMA ReadForReceiptKeeps ==
  ASSUME WarehouseInv, NEW w \in Workers, ReadForReceipt(w)
  PROVE  WarehouseInv'
<1> DEFINE p == worker[w].purchase
           n == qty[purchase[p].item]
           h == [step |-> "receiveStock", purchase |-> p, read |-> n]
<1>1. WarehouseTypeOK
  BY DEF WarehouseInv
<1>2. /\ worker[w] # Idle /\ worker[w].step = "readStock"
      /\ worker' = [worker EXCEPT ![w] = h]
      /\ UNCHANGED <<qty, stockOut, purchase, order, documents, disturbed, lost>>
  BY DEF ReadForReceipt, At, goods, rows, history
<1>3. worker[w] \in Tasks /\ TaskInv(worker[w])
  BY <1>1, <1>2, TaskOf DEF WarehouseInv
<1>4. "purchase" \in DOMAIN worker[w] /\ p \in Purchases
  BY <1>2, <1>3, PurchaseTasks
<1>5. purchase[p] # NoRow
  BY <1>3, <1>4 DEF TaskInv
<1>6. n \in Nat
  BY <1>1, <1>4, <1>5 DEF WarehouseTypeOK, PurchaseRow
<1>7. \A q : Receives(worker[w], q) <=> q = p
  BY <1>2, <1>4 DEF Receives
<1> HIDE DEF n
<1>8. h \in Tasks /\ h.step = "receiveStock" /\ "purchase" \in DOMAIN h /\ h.purchase = p
  BY <1>4, <1>6 DEF Tasks
<1> HIDE DEF h
<1>9. TaskInv(h)
  BY <1>5, <1>8 DEF TaskInv
<1>10. \A q : Receives(h, q) <=> Receives(worker[w], q)
  BY <1>7, <1>8, NothingAssumption DEF Receives
<1>11. QED
  BY <1>1, <1>2, <1>8, <1>9, <1>10, QuietStep DEF WarehouseTypeOK

(* A handler dies: the purchase it was receiving is lost.                  *)
LEMMA AbandonKeeps ==
  ASSUME WarehouseInv, NEW w \in Workers, Abandon(w)
  PROVE  WarehouseInv'
<1>1. WarehouseTypeOK
  BY DEF WarehouseInv
<1>2. /\ lost' = lost \cup {p \in Purchases : Receiving(w, p)}
      /\ worker' = [worker EXCEPT ![w] = Idle]
      /\ UNCHANGED <<qty, stockOut, purchase, order, documents, disturbed>>
  BY DEF Abandon, Done, goods, rows
<1>3. \A p \in Purchases \ lost' : Receives(Idle, p) <=> Receives(worker[w], p)
  BY <1>2 DEF Receives, Receiving
<1>4. QED
  BY <1>1, <1>2, <1>3, QuietStep DEF WarehouseTypeOK

(* OrderService.submit up to its last write, and the order's own rows.     *)
LEMMA SubmitKeeps ==
  ASSUME WarehouseInv, NEW w \in Workers,
         \/ \E o \in Orders, isAdminStock \in BOOLEAN : StartSubmit(w, o, isAdminStock)
         \/ CheckAvailability(w) \/ ReadForOrder(w) \/ DeductStock(w)
         \/ CountForOrder(w) \/ GenerateSuratJalanOut(w) \/ CountPurchases(w)
         \/ FinishSubmit(w)
  PROVE  WarehouseInv'
<1>1. /\ WarehouseTypeOK
      /\ qty \in [Items -> Nat] /\ order \in [Orders -> OrderRow]
      /\ documents \in [Documents -> Nat]
  BY DEF WarehouseInv, WarehouseTypeOK
<1>2. \A o \in Orders : order[o].item \in Items /\ order[o].available \in Nat /\ order[o].taken \in Nat
  BY <1>1 DEF OrderRow
<1>3. ASSUME NEW o \in Orders, NEW isAdminStock \in BOOLEAN, StartSubmit(w, o, isAdminStock)
      PROVE  WarehouseInv'
  <2> DEFINE step == IF isAdminStock THEN "countPurchases" ELSE "checkAvailability"
             available == order[o].available
             h == [step |-> step, order |-> o, available |-> available, branch |-> "NO_STOCK"]
  <2>1. /\ worker[w] = Idle /\ worker' = [worker EXCEPT ![w] = h]
        /\ UNCHANGED <<qty, stockOut, purchase, order, documents, disturbed, lost>>
    BY <1>3 DEF StartSubmit, Begins, goods, rows, history
  <2>2. available \in Nat /\ step \in {"countPurchases", "checkAvailability"}
    BY <1>2
  <2> HIDE DEF step, available
  <2>3. h \in Tasks /\ "purchase" \notin DOMAIN h /\ h.step = step
    BY <2>2 DEF Tasks, Branches
  <2> HIDE DEF h
  <2>4. QED
    BY <1>1, <2>1, <2>2, <2>3, QuietKeeps
<1>4. ASSUME CheckAvailability(w) PROVE WarehouseInv'
  <2> DEFINE o == worker[w].order
             n == qty[order[o].item]
             branch == Branch(o, n)
             step == IF branch = "NO_STOCK" THEN "countPurchases"
                     ELSE IF Taken(worker[w]) > 0 THEN "readForOrder" ELSE "countForOrder"
             h == [worker[w] EXCEPT !.branch = branch, !.step = step]
  <2>1. /\ worker[w] # Idle /\ worker[w].step = "checkAvailability"
        /\ order' = [order EXCEPT ![o].available = n]
        /\ worker' = [worker EXCEPT ![w] = h]
        /\ UNCHANGED <<qty, stockOut, purchase, documents, disturbed, lost>>
    BY <1>4 DEF CheckAvailability, At, goods, history
  <2>2. worker[w] \in Tasks
    BY <1>1, <2>1, TaskOf
  <2>3. "purchase" \notin DOMAIN worker[w] /\ o \in Orders
    BY <2>1, <2>2, TaskFacts, PurchaseTasks
  <2>4. n \in Nat
    BY <1>1, <1>2, <2>3
  <2>5. order' \in [Orders -> OrderRow]
    <3> HIDE DEF n
    <3>1. [order[o] EXCEPT !.available = n] \in OrderRow
      BY <1>1, <2>3, <2>4 DEF OrderRow
    <3>2. QED
      BY <1>1, <2>1, <2>3, <3>1
  <2>6. worker[w] \in [ step : {"checkAvailability", "countPurchases", "readForOrder", "countForOrder"},
                        order : Orders, available : Nat, branch : Branches ]
    BY <2>1, <2>2 DEF Tasks
  <2>7. branch \in Branches /\ step \in {"countPurchases", "readForOrder", "countForOrder"}
    BY DEF Branch, Branches
  <2> HIDE DEF branch, step
  <2>8. h \in Tasks /\ "purchase" \notin DOMAIN h /\ h.step = step
    <3>1. h \in [ step : {"checkAvailability", "countPurchases", "readForOrder", "countForOrder"},
                  order : Orders, available : Nat, branch : Branches ] /\ h.step = step
      BY <2>6, <2>7
    <3>2. QED
      BY <3>1 DEF Tasks
  <2> HIDE DEF h
  <2>9. QED
    BY <1>1, <2>1, <2>3, <2>5, <2>7, <2>8, QuietKeeps
<1>5. ASSUME ReadForOrder(w) PROVE WarehouseInv'
  <2> DEFINE o == worker[w].order
             n == qty[order[o].item]
             available == worker[w].available
             branch == worker[w].branch
             h == [step |-> "deductStock", order |-> o, available |-> available,
                   branch |-> branch, read |-> n]
  <2>1. /\ worker[w] # Idle /\ worker[w].step = "readForOrder"
        /\ worker' = [worker EXCEPT ![w] = h]
        /\ UNCHANGED <<qty, stockOut, purchase, order, documents, disturbed, lost>>
    BY <1>5 DEF ReadForOrder, At, goods, rows, history
  <2>2. worker[w] \in Tasks
    BY <1>1, <2>1, TaskOf
  <2>3. /\ "purchase" \notin DOMAIN worker[w]
        /\ o \in Orders /\ available \in Nat /\ branch \in Branches
    BY <2>1, <2>2, TaskFacts, PurchaseTasks
  <2>4. n \in Nat
    BY <1>1, <1>2, <2>3
  <2> HIDE DEF o, n, available, branch
  <2>5. h \in Tasks /\ "purchase" \notin DOMAIN h /\ h.step = "deductStock"
    BY <2>3, <2>4 DEF Tasks
  <2> HIDE DEF h
  <2>6. QED
    BY <1>1, <2>1, <2>3, <2>5, QuietKeeps
<1>6. ASSUME DeductStock(w) PROVE WarehouseInv'
  <2> DEFINE o == worker[w].order
             read == worker[w].read
             available == worker[w].available
             left == Larger(0, read - available)
             h == [worker[w] EXCEPT !.step = "countForOrder"]
  <2>1. /\ worker[w] # Idle /\ worker[w].step = "deductStock"
        /\ qty' = [qty EXCEPT ![order[o].item] = left]
        /\ order' = [order EXCEPT ![o].taken = order[o].taken + read - left]
        /\ worker' = [worker EXCEPT ![w] = h]
        /\ UNCHANGED <<stockOut, purchase, documents, disturbed, lost>>
    BY <1>6 DEF DeductStock, WriteStock, Taken, Continues, At, history
  <2>2. worker[w] \in Tasks
    BY <1>1, <2>1, TaskOf
  <2>3. /\ "purchase" \notin DOMAIN worker[w]
        /\ o \in Orders /\ available \in Nat /\ read \in Nat
    BY <2>1, <2>2, TaskFacts, PurchaseTasks
  <2>4. left \in Nat /\ left <= read
    BY <2>3 DEF Larger
  <2> HIDE DEF left, available
  <2>5. qty' \in [Items -> Nat]
    BY <1>1, <1>2, <2>1, <2>3, <2>4
  <2>6. order' \in [Orders -> OrderRow]
    <3> DEFINE taken == order[o].taken + read - left
    <3>1. taken \in Nat
      BY <1>2, <2>3, <2>4
    <3> HIDE DEF taken
    <3>2. [order[o] EXCEPT !.taken = taken] \in OrderRow
      BY <1>1, <2>3, <3>1 DEF OrderRow
    <3>3. order' = [order EXCEPT ![o] = [order[o] EXCEPT !.taken = taken]]
      BY <2>1 DEF taken
    <3>4. QED
      BY <1>1, <2>3, <3>2, <3>3
  <2>7. worker[w] \in [ step : {"deductStock", "countForOrder"}, order : Orders,
                        available : Nat, branch : Branches, read : Nat ]
    BY <2>1, <2>2 DEF Tasks
  <2>8. h \in Tasks /\ "purchase" \notin DOMAIN h /\ h.step = "countForOrder"
    <3>1. h \in [ step : {"deductStock", "countForOrder"}, order : Orders,
                  available : Nat, branch : Branches, read : Nat ]
          /\ h.step = "countForOrder"
      BY <2>7
    <3>2. QED
      BY <3>1 DEF Tasks
  <2> HIDE DEF h
  <2>9. QED
    BY <1>1, <2>1, <2>3, <2>5, <2>6, <2>8, QuietKeeps
<1>7. ASSUME CountForOrder(w) PROVE WarehouseInv'
  <2> DEFINE o == worker[w].order
             branch == worker[w].branch
             n == documents["SJ_OUT"]
             h == [step |-> "createDocument", type |-> "SJ_OUT", count |-> n,
                   for |-> "order", order |-> o, branch |-> branch]
  <2>1. /\ worker[w] # Idle /\ worker[w].step = "countForOrder"
        /\ worker' = [worker EXCEPT ![w] = h]
        /\ UNCHANGED <<qty, stockOut, purchase, order, documents, disturbed, lost>>
    BY <1>7 DEF CountForOrder, ForOrder, At, goods, rows, history
  <2>2. worker[w] \in Tasks
    BY <1>1, <2>1, TaskOf
  <2>3. "purchase" \notin DOMAIN worker[w] /\ o \in Orders /\ branch \in Branches
    BY <2>1, <2>2, TaskFacts, PurchaseTasks
  <2>4. n \in Nat
    BY <1>1 DEF Documents
  <2> HIDE DEF o, branch, n
  <2>5. h \in Tasks /\ "purchase" \notin DOMAIN h /\ h.step = "createDocument"
    BY <2>3, <2>4 DEF Tasks, Documents
  <2> HIDE DEF h
  <2>6. QED
    BY <1>1, <2>1, <2>3, <2>5, QuietKeeps
<1>8. ASSUME GenerateSuratJalanOut(w) PROVE WarehouseInv'
  <2> DEFINE o == worker[w].order
             branch == worker[w].branch
             step == IF branch = "PARTIAL_STOCK" THEN "countPurchases" ELSE "finishSubmit"
             h == [step |-> step, order |-> o, branch |-> branch]
  <2>1. /\ worker[w] # Idle /\ worker[w].step = "createDocument" /\ worker[w].for = "order"
        /\ \/ /\ documents' = [documents EXCEPT ![worker[w].type] = documents[worker[w].type] + 1]
              /\ worker' = [worker EXCEPT ![w] = h]
           \/ worker' = [worker EXCEPT ![w] = Idle] /\ UNCHANGED documents
        /\ UNCHANGED <<qty, stockOut, purchase, order, disturbed, lost>>
    BY <1>8 DEF GenerateSuratJalanOut, CreateDocument, Done, At, goods, history
  <2>2. worker[w] \in Tasks
    BY <1>1, <2>1, TaskOf
  <2>3. /\ "purchase" \notin DOMAIN worker[w]
        /\ o \in Orders /\ branch \in Branches /\ worker[w].type \in Documents
    BY <2>1, <2>2, TaskFacts, PurchaseTasks
  <2>4. documents' \in [Documents -> Nat]
    BY <1>1, <2>1, <2>3
  <2>5. step \in {"countPurchases", "finishSubmit"}
    OBVIOUS
  <2> HIDE DEF o, branch, step
  <2>6. h \in Tasks /\ "purchase" \notin DOMAIN h /\ h.step = step
    BY <2>3, <2>5 DEF Tasks
  <2> HIDE DEF h
  <2>7. CASE worker' = [worker EXCEPT ![w] = h]
    BY <1>1, <2>1, <2>3, <2>4, <2>5, <2>6, <2>7, QuietKeeps
  <2>8. CASE worker' = [worker EXCEPT ![w] = Idle]
    BY <1>1, <2>1, <2>3, <2>4, <2>8, QuietKeeps
  <2>9. QED
    BY <2>1, <2>7, <2>8
<1>9. ASSUME CountPurchases(w) PROVE WarehouseInv'
  <2> DEFINE o == worker[w].order
             branch == worker[w].branch
             n == Cardinality(Made)
             h == [step |-> "createPurchase", order |-> o, branch |-> branch, count |-> n]
  <2>1. /\ worker[w] # Idle /\ worker[w].step = "countPurchases"
        /\ worker' = [worker EXCEPT ![w] = h]
        /\ UNCHANGED <<qty, stockOut, purchase, order, documents, disturbed, lost>>
    BY <1>9 DEF CountPurchases, At, goods, rows, history
  <2>2. worker[w] \in Tasks
    BY <1>1, <2>1, TaskOf
  <2>3. "purchase" \notin DOMAIN worker[w] /\ o \in Orders /\ branch \in Branches
    BY <2>1, <2>2, TaskFacts, PurchaseTasks
  <2>4. n \in Nat
    <3>1. IsFiniteSet(Made)
      BY WarehouseAssumption, FS_Subset DEF Made
    <3>2. QED
      BY <3>1, FS_CardinalityType
  <2> HIDE DEF o, branch, n
  <2>5. h \in Tasks /\ "purchase" \notin DOMAIN h /\ h.step = "createPurchase"
    BY <2>3, <2>4 DEF Tasks
  <2> HIDE DEF h
  <2>6. QED
    BY <1>1, <2>1, <2>3, <2>5, QuietKeeps
<1>10. ASSUME FinishSubmit(w) PROVE WarehouseInv'
  <2> DEFINE o == worker[w].order
             branch == worker[w].branch
  <2>1. /\ worker[w] # Idle /\ worker[w].step = "finishSubmit"
        /\ order' = [order EXCEPT ![o].status = branch]
        /\ worker' = [worker EXCEPT ![w] = Idle]
        /\ UNCHANGED <<qty, stockOut, purchase, documents, disturbed, lost>>
    BY <1>10 DEF FinishSubmit, Done, At, goods, history
  <2>2. worker[w] \in Tasks
    BY <1>1, <2>1, TaskOf
  <2>3. "purchase" \notin DOMAIN worker[w] /\ o \in Orders /\ branch \in Branches
    BY <2>1, <2>2, TaskFacts, PurchaseTasks
  <2> HIDE DEF o, branch
  <2>4. order' \in [Orders -> OrderRow]
    <3>1. [order[o] EXCEPT !.status = branch] \in OrderRow
      BY <1>1, <2>3 DEF OrderRow
    <3>2. QED
      BY <1>1, <2>1, <2>3, <3>1
  <2>5. QED
    BY <1>1, <2>1, <2>3, <2>4, QuietKeeps
<1>11. QED
  BY <1>3, <1>4, <1>5, <1>6, <1>7, <1>8, <1>9, <1>10

-----------------------------------------------------------------------------
(* Stock-outs.                                                             *)

(* The statuses of a stock-out, and those each handler asks for.           *)
LEMMA AsksForFacts ==
  /\ DOMAIN AsksFor = {"resubmit", "adminStockApprove", "adminStockReturn", "pmConfirm",
                       "pmReturn", "financeReturn", "reject"}
  /\ AsksFor["resubmit"] = {"DRAFT"}
  /\ AsksFor["adminStockApprove"] = {"PENDING"}
  /\ AsksFor["adminStockReturn"] = {"PENDING"}
  /\ AsksFor["pmConfirm"] = {"PENDING_PM_CONFIRM"}
  /\ AsksFor["pmReturn"] = {"PENDING_PM_CONFIRM"}
  /\ AsksFor["financeReturn"] = {"PENDING_FINANCE"}
  /\ AsksFor["reject"] = {"DRAFT", "PENDING", "PENDING_PM_CONFIRM", "PENDING_FINANCE",
                          "FULFILLED", "REJECTED"}
  /\ UNION {AsksFor[h] : h \in DOMAIN AsksFor} =
       {"DRAFT", "PENDING", "PENDING_PM_CONFIRM", "PENDING_FINANCE", "FULFILLED", "REJECTED"}
  BY DEF AsksFor

(* A step that changes stock-outs alone: their rows stay rows, and the     *)
(* changed one fits its status unless its handler overlooked a change.     *)
LEMMA StockOutStep ==
  ASSUME WarehouseInv, NEW w \in Workers, NEW h \in Tasks \cup {Idle},
         worker' = [worker EXCEPT ![w] = h],
         NEW s \in StockOuts, NEW row \in StockOutRow,
         stockOut' = [stockOut EXCEPT ![s] = row],
         UNCHANGED <<purchase, lost>>, disturbed \subseteq disturbed',
         qty' \in [Items -> Nat], order' \in [Orders -> OrderRow],
         documents' \in [Documents -> Nat],
         s \notin disturbed' => Approves(row),
         worker[w] # Idle => "purchase" \notin DOMAIN worker[w],
         h # Idle => /\ "purchase" \notin DOMAIN h
                     /\ h.step \notin {"review", "updateStatus"}
  PROVE  WarehouseInv'
<1>1. WarehouseTypeOK
  BY DEF WarehouseInv
<1>2. \A v \in Workers : worker'[v] = IF v = w THEN h ELSE worker[v]
  BY <1>1 DEF WarehouseTypeOK
<1>3. \A r \in StockOuts : stockOut'[r] = IF r = s THEN row ELSE stockOut[r]
  BY <1>1 DEF WarehouseTypeOK
<1>4. WarehouseTypeOK'
  BY <1>1 DEF WarehouseTypeOK
<1>5. StockOutsInv'
  <2> SUFFICES ASSUME NEW r \in StockOuts \ disturbed', stockOut'[r] # NoRow
               PROVE  Approves(stockOut[r])'
    BY DEF StockOutsInv
  <2>1. CASE r = s
    <3>1. Approves(row) /\ stockOut'[r] = row
      BY <1>3, <2>1
    <3>2. QED
      BY <3>1 DEF Approves
  <2>2. CASE r # s
    <3>1. stockOut'[r] = stockOut[r] /\ Approves(stockOut[r])
      BY <1>3, <2>2 DEF WarehouseInv, StockOutsInv
    <3>2. QED
      BY <3>1 DEF Approves
  <2>3. QED
    BY <2>1, <2>2
<1>6. ASSUME NEW v \in Workers, worker'[v] # Idle PROVE TaskInv(worker[v])'
  <2>1. CASE v = w
    <3>1. worker'[v] = h /\ h # Idle
      BY <1>2, <1>6, <2>1
    <3>2. QED
      BY <3>1 DEF TaskInv
  <2>2. CASE v # w
    <3>1. worker'[v] = worker[v] /\ TaskInv(worker[v]) /\ worker[v] \in Tasks
      BY <1>1, <1>2, <1>6, <2>2, TaskOf DEF WarehouseInv
    <3>2. worker[v].step = "review" => worker[v].stockOut \in StockOuts
      BY <3>1, TaskFacts
    <3>3. row # NoRow
      BY NothingAssumption
    <3>4. QED
      BY <1>3, <3>1, <3>2, <3>3 DEF TaskInv
  <2>3. QED
    BY <2>1, <2>2
<1>7. PurchasesInv'
  <2> SUFFICES ASSUME NEW p \in Purchases \ (disturbed' \cup lost'), purchase'[p] # NoRow
               PROVE  Arrives(p)'
    BY DEF PurchasesInv
  <2>1. Arrives(p)
    BY DEF WarehouseInv, PurchasesInv
  <2>2. \A v \in Workers : Receiving(v, p)' <=> Receiving(v, p)
    BY <1>2 DEF Receiving
  <2>3. QED
    BY <2>1, <2>2 DEF Arrives
<1>8. QED
  BY <1>4, <1>5, <1>6, <1>7 DEF WarehouseInv

(* A new request approves nothing.                                         *)
LEMMA CreateStockOutKeeps ==
  ASSUME WarehouseInv, NEW w \in Workers, worker[w] = Idle, NEW s \in StockOuts,
         NEW i \in Items, NEW n \in Quantities, CreateStockOut(s, i, n)
  PROVE  WarehouseInv'
<1> DEFINE row == NewStockOut(i, n)
<1>1. WarehouseTypeOK
  BY DEF WarehouseInv
<1>2. /\ stockOut' = [stockOut EXCEPT ![s] = row]
      /\ UNCHANGED <<qty, purchase, order, documents, worker, disturbed, lost>>
  BY DEF CreateStockOut, goods, history
<1>3. worker' = [worker EXCEPT ![w] = Idle]
  BY <1>1, <1>2 DEF WarehouseTypeOK
<1>4. "PENDING" \in UNION {AsksFor[h] : h \in DOMAIN AsksFor}
  BY AsksForFacts
<1>5. row \in StockOutRow
  BY <1>4, WarehouseAssumption DEF NewStockOut, StockOutRow
<1>6. Approves(row)
  BY DEF Approves, NewStockOut
<1> HIDE DEF row
<1>7. QED
  BY <1>1, <1>2, <1>3, <1>5, <1>6, StockOutStep DEF WarehouseTypeOK

(* What a handler leaves is a row, and fits its status if the row it       *)
(* changes is the one it saw, in a status it asks for.                     *)
LEMMA LeavesFacts ==
  ASSUME NEW row \in StockOutRow, NEW h \in Tasks, h.step = "review"
  PROVE  /\ Leaves(row, h) \in StockOutRow
         /\ row = h.seen /\ row.status \in AsksFor[h.handler] /\ Approves(row)
              => Approves(Leaves(row, h))
<1> DEFINE new == Leaves(row, h)
<1>1. h.handler \in DOMAIN AsksFor /\ h.qty \in Quantities /\ h.seen.qty \in Quantities
  BY TaskFacts DEF StockOutRow
<1>2. /\ row.qty \in Quantities /\ row.admin \in Quantities \cup {0}
      /\ row.pm \in Quantities \cup {0} /\ row.outs \in 0..MaxOuts /\ row.outs \in Nat
  BY WarehouseAssumption DEF StockOutRow
<1>3. CASE h.handler = "resubmit"
  <2>1. new = [row EXCEPT !.status = "PENDING", !.qty = h.qty]
    BY <1>3 DEF Leaves, Resubmitted
  <2> HIDE DEF new
  <2>2. new \in StockOutRow
    BY <1>1, <2>1, AsksForFacts DEF StockOutRow
  <2>3. row.status = "DRAFT" /\ Approves(row) => Approves(new)
    BY <1>2, <2>1 DEF StockOutRow, Approves
  <2>4. QED
    BY <1>3, <2>2, <2>3, AsksForFacts DEF new
<1>4. CASE h.handler = "adminStockApprove"
  <2>1. new = [row EXCEPT !.status = "PENDING_PM_CONFIRM", !.admin = h.seen.qty]
    BY <1>4 DEF Leaves
  <2> HIDE DEF new
  <2>2. new \in StockOutRow
    BY <1>1, <2>1, AsksForFacts DEF StockOutRow
  <2>3. row = h.seen /\ row.status = "PENDING" /\ Approves(row) => Approves(new)
    BY <1>2, <2>1 DEF StockOutRow, Approves
  <2>4. QED
    BY <1>4, <2>2, <2>3, AsksForFacts DEF new
<1>5. CASE h.handler = "adminStockReturn"
  <2>1. new = [row EXCEPT !.status = "DRAFT"]
    BY <1>5 DEF Leaves
  <2> HIDE DEF new
  <2>2. new \in StockOutRow
    BY <1>1, <2>1, AsksForFacts DEF StockOutRow
  <2>3. row.status = "PENDING" /\ Approves(row) => Approves(new)
    BY <1>2, <2>1 DEF StockOutRow, Approves
  <2>4. QED
    BY <1>5, <2>2, <2>3, AsksForFacts DEF new
<1>6. CASE h.handler = "pmConfirm"
  <2>1. new = [row EXCEPT !.status = "PENDING_FINANCE", !.pm = h.seen.qty]
    BY <1>6 DEF Leaves
  <2> HIDE DEF new
  <2>2. new \in StockOutRow
    BY <1>1, <2>1, AsksForFacts DEF StockOutRow
  <2>3. row = h.seen /\ row.status = "PENDING_PM_CONFIRM" /\ Approves(row) => Approves(new)
    BY <1>2, <2>1 DEF StockOutRow, Approves
  <2>4. QED
    BY <1>6, <2>2, <2>3, AsksForFacts DEF new
<1>7. CASE h.handler = "pmReturn"
  <2>1. new = [row EXCEPT !.status = "PENDING", !.admin = 0]
    BY <1>7 DEF Leaves
  <2> HIDE DEF new
  <2>2. new \in StockOutRow
    BY <1>1, <2>1, AsksForFacts DEF StockOutRow
  <2>3. row.status = "PENDING_PM_CONFIRM" /\ Approves(row) => Approves(new)
    BY <1>2, <2>1 DEF StockOutRow, Approves
  <2>4. QED
    BY <1>7, <2>2, <2>3, AsksForFacts DEF new
<1>8. CASE h.handler = "financeReturn"
  <2>1. new = [row EXCEPT !.status = "DRAFT", !.admin = 0, !.pm = 0]
    BY <1>8 DEF Leaves
  <2> HIDE DEF new
  <2>2. new \in StockOutRow
    BY <1>1, <2>1, AsksForFacts DEF StockOutRow
  <2>3. row.status = "PENDING_FINANCE" /\ Approves(row) => Approves(new)
    BY <1>2, <2>1 DEF StockOutRow, Approves
  <2>4. QED
    BY <1>8, <2>2, <2>3, AsksForFacts DEF new
<1>9. CASE h.handler = "reject"
  <2>1. new = [row EXCEPT !.status = "REJECTED"]
    BY <1>9 DEF Leaves
  <2> HIDE DEF new
  <2>2. new \in StockOutRow
    BY <1>1, <2>1, AsksForFacts DEF StockOutRow
  <2>3. Approves(row) => Approves(new)
    BY <1>2, <2>1 DEF StockOutRow, Approves
  <2>4. QED
    BY <2>2, <2>3 DEF new
<1>10. QED
  BY <1>1, <1>3, <1>4, <1>5, <1>6, <1>7, <1>8, <1>9, AsksForFacts

(* A review's write.                                                       *)
LEMMA FinishReviewKeeps ==
  ASSUME WarehouseInv, NEW w \in Workers, FinishReview(w)
  PROVE  WarehouseInv'
<1> DEFINE h == worker[w]
           s == h.stockOut
           was == stockOut[s]
           row == Leaves(was, h)
<1>1. WarehouseTypeOK
  BY DEF WarehouseInv
<1>2. /\ h # Idle /\ h.step = "review"
      /\ stockOut' = [stockOut EXCEPT ![s] = row]
      /\ disturbed' = IF was = h.seen THEN disturbed ELSE disturbed \cup {s}
      /\ worker' = [worker EXCEPT ![w] = Idle]
      /\ UNCHANGED <<qty, purchase, order, documents, lost>>
  BY DEF FinishReview, At, Done, goods
<1>3. h \in Tasks /\ TaskInv(h)
  BY <1>1, <1>2, TaskOf DEF WarehouseInv
<1>4. s \in StockOuts /\ "purchase" \notin DOMAIN h
  BY <1>2, <1>3, TaskFacts, PurchaseTasks
<1>5. was # NoRow /\ h.seen.status \in AsksFor[h.handler]
  BY <1>2, <1>3 DEF TaskInv
<1>6. was \in StockOutRow
  BY <1>1, <1>4, <1>5 DEF WarehouseTypeOK
<1>7. s \notin disturbed => Approves(was)
  BY <1>4, <1>5 DEF WarehouseInv, StockOutsInv
<1> HIDE DEF h, s, was
<1>8. row \in StockOutRow
  BY <1>2, <1>3, <1>6, LeavesFacts
<1>9. s \notin disturbed' => Approves(row)
  BY <1>2, <1>3, <1>5, <1>6, <1>7, LeavesFacts
<1>10. disturbed \subseteq disturbed'
  BY <1>2
<1> HIDE DEF row
<1>11. QED
  BY <1>1, <1>2, <1>4, <1>8, <1>9, <1>10, StockOutStep DEF WarehouseTypeOK, h

(* financeApprove: the goods leave in the transaction that says so.        *)
LEMMA FinanceApproveKeeps ==
  ASSUME WarehouseInv, NEW w \in Workers, NEW s \in StockOuts, FinanceApprove(w, s)
  PROVE  WarehouseInv'
<1> DEFINE was == stockOut[s]
           i == was.item
           n == was.qty
           row == [was EXCEPT !.status = "FULFILLED", !.outs = was.outs + 1,
                              !.gone = was.gone + n]
           h == [step |-> "countDocuments", type |-> "SJ_OUT", count |-> 0,
                 for |-> "stockOut"]
<1>1. WarehouseTypeOK
  BY DEF WarehouseInv
<1>2. /\ was # NoRow /\ was.status = "PENDING_FINANCE" /\ was.outs < MaxOuts
      /\ qty[i] >= n /\ qty' = [qty EXCEPT ![i] = qty[i] - n]
      /\ stockOut' = [stockOut EXCEPT ![s].status = "FULFILLED",
                        ![s].outs = @ + 1, ![s].gone = @ + n]
      /\ worker[w] = Idle /\ worker' = [worker EXCEPT ![w] = h]
      /\ UNCHANGED <<purchase, order, documents, disturbed, lost>>
  BY DEF FinanceApprove, OnHand, WriteStock, Begins, history
<1>3. was \in StockOutRow
  BY <1>1, <1>2 DEF WarehouseTypeOK
<1>4. /\ i \in Items /\ n \in Quantities /\ n \in Nat /\ was.outs \in 0..MaxOuts /\ was.gone \in Nat
      /\ MaxOuts \in Nat
  BY <1>3, WarehouseAssumption DEF StockOutRow
<1>5. stockOut' = [stockOut EXCEPT ![s] = row]
  BY <1>1, <1>2, <1>3 DEF WarehouseTypeOK, StockOutRow
<1>6. s \notin disturbed => Approves(was)
  BY <1>2 DEF WarehouseInv, StockOutsInv
<1>7. h \in Tasks /\ h.step = "countDocuments" /\ "purchase" \notin DOMAIN h
  BY DEF Tasks, Documents
<1>8. qty' \in [Items -> Nat]
  BY <1>1, <1>2, <1>4 DEF WarehouseTypeOK
<1>9. was.outs + 1 \in 0..MaxOuts /\ was.gone + n \in Nat
  BY <1>2, <1>4
<1>10. "FULFILLED" \in UNION {AsksFor[r] : r \in DOMAIN AsksFor}
  BY AsksForFacts
<1> HIDE DEF h, was, n, i
<1>11. row \in StockOutRow
  BY <1>3, <1>9, <1>10 DEF StockOutRow
<1>12. s \notin disturbed => Approves(row)
  <2>1. was.outs \in 0..MaxOuts /\ was.qty = n
    BY <1>4 DEF n
  <2>2. row.outs = was.outs + 1 /\ row.status = "FULFILLED" /\ row.admin = was.admin
        /\ row.pm = was.pm /\ row.qty = was.qty
    BY <1>3 DEF StockOutRow
  <2> HIDE DEF row
  <2>3. QED
    BY <1>2, <1>6, <2>1, <2>2 DEF Approves
<1> HIDE DEF row
<1>13. disturbed \subseteq disturbed' /\ (s \notin disturbed' => Approves(row))
  BY <1>2, <1>12
<1>14. order' \in [Orders -> OrderRow] /\ documents' \in [Documents -> Nat]
  BY <1>1, <1>2 DEF WarehouseTypeOK
<1>15. h \in Tasks \cup {Idle} /\ h.step \notin {"review", "updateStatus"}
  BY <1>7
<1>16. /\ worker[w] # Idle => "purchase" \notin DOMAIN worker[w]
       /\ worker' = [worker EXCEPT ![w] = h] /\ UNCHANGED <<purchase, lost>>
  BY <1>2
<1>17. QED
  BY <1>5, <1>7, <1>8, <1>11, <1>13, <1>14, <1>15, <1>16, StockOutStep

-----------------------------------------------------------------------------
(* Purchases.                                                              *)

(* What may follow which status.                                           *)
LEMMA TransitionFacts ==
  /\ DOMAIN VALID_TRANSITIONS =
       {"PENDING", "IN_REVIEW", "APPROVED", "ORDERED", "RECEIVED", "REJECTED"}
  /\ VALID_TRANSITIONS["RECEIVED"] = {}
  BY DEF VALID_TRANSITIONS

(* A step that changes one purchase: no other worker is receiving it, and  *)
(* its goods were booked unless this worker goes on to book them.          *)
LEMMA PurchaseStep ==
  ASSUME WarehouseInv, NEW w \in Workers, NEW h \in Tasks \cup {Idle},
         worker' = [worker EXCEPT ![w] = h],
         NEW p \in Purchases, NEW row \in PurchaseRow,
         purchase' = [purchase EXCEPT ![p] = row],
         UNCHANGED stockOut, disturbed \subseteq disturbed', lost \subseteq lost',
         qty' \in [Items -> Nat], order' \in [Orders -> OrderRow],
         documents' \in [Documents -> Nat],
         p \notin disturbed' \cup lost' =>
           /\ \A v \in Workers : v # w => ~Receives(worker[v], p)
           /\ Receives(h, p) => row.status = "RECEIVED" /\ row.receipts = 0
           /\ ~Receives(h, p) => row.receipts = IF row.status = "RECEIVED" THEN 1 ELSE 0,
         \A q : q # p => ~Receives(h, q) /\ ~Receives(worker[w], q),
         h # Idle => h.step \notin {"review", "updateStatus"}
  PROVE  WarehouseInv'
<1>1. WarehouseTypeOK
  BY DEF WarehouseInv
<1>2. \A v \in Workers : worker'[v] = IF v = w THEN h ELSE worker[v]
  BY <1>1 DEF WarehouseTypeOK
<1>3. \A q \in Purchases : purchase'[q] = IF q = p THEN row ELSE purchase[q]
  BY <1>1 DEF WarehouseTypeOK
<1>4. WarehouseTypeOK'
  BY <1>1 DEF WarehouseTypeOK
<1>5. StockOutsInv'
  BY DEF WarehouseInv, StockOutsInv
<1>6. row # NoRow
  BY NothingAssumption
<1>7. ASSUME NEW v \in Workers, worker'[v] # Idle PROVE TaskInv(worker[v])'
  <2>1. CASE v = w
    <3>1. worker'[v] = h /\ h # Idle
      BY <1>2, <1>7, <2>1
    <3>2. "purchase" \in DOMAIN h => h.purchase = p
      BY <3>1 DEF Receives
    <3>3. QED
      BY <1>3, <1>6, <3>1, <3>2 DEF TaskInv
  <2>2. CASE v # w
    <3>1. worker'[v] = worker[v] /\ TaskInv(worker[v]) /\ worker[v] \in Tasks
      BY <1>1, <1>2, <1>7, <2>2, TaskOf DEF WarehouseInv
    <3>2. "purchase" \in DOMAIN worker[v] => worker[v].purchase \in Purchases
      BY <3>1, PurchaseTasks
    <3>3. QED
      BY <1>3, <1>6, <3>1, <3>2 DEF TaskInv
  <2>3. QED
    BY <2>1, <2>2
<1>8. PurchasesInv'
  <2> SUFFICES ASSUME NEW q \in Purchases \ (disturbed' \cup lost'), purchase'[q] # NoRow
               PROVE  Arrives(q)'
    BY DEF PurchasesInv
  <2>1. \A v \in Workers : Receiving(v, q)' <=> Receives(IF v = w THEN h ELSE worker[v], q)
    BY <1>2 DEF Receiving, Receives
  <2>2. CASE q = p
    <3>1. \A v \in Workers : Receiving(v, q)' <=> v = w /\ Receives(h, p)
      BY <2>1, <2>2
    <3>2. purchase'[q] = row
      BY <1>3, <2>2
    <3>3. QED
      BY <2>2, <3>1, <3>2 DEF Arrives
  <2>3. CASE q # p
    <3>1. Arrives(q) /\ purchase'[q] = purchase[q]
      BY <1>3, <2>3 DEF WarehouseInv, PurchasesInv
    <3>2. \A v \in Workers : Receiving(v, q)' <=> Receiving(v, q)
      BY <2>1, <2>3 DEF Receiving, Receives
    <3>3. QED
      BY <3>1, <3>2 DEF Arrives
  <2>4. QED
    BY <2>2, <2>3
<1>9. QED
  BY <1>4, <1>5, <1>7, <1>8 DEF WarehouseInv

(* A purchase that is neither disturbed nor lost, and not RECEIVED, is     *)
(* being received by nobody, and was never booked.                         *)
LEMMA NotReceived ==
  ASSUME WarehouseInv, NEW p \in Purchases, purchase[p] # NoRow,
         p \notin disturbed \cup lost, purchase[p].status # "RECEIVED"
  PROVE  purchase[p].receipts = 0 /\ \A v \in Workers : ~Receives(worker[v], p)
  BY DEF WarehouseInv, PurchasesInv, Arrives, Receiving, Receives

(* The write of a purchase's status.                                       *)
LEMMA UpdateStatusKeeps ==
  ASSUME WarehouseInv, NEW w \in Workers, UpdateStatus(w)
  PROVE  WarehouseInv'
<1>1. WarehouseTypeOK
  BY DEF WarehouseInv
<1>2. worker[w] # Idle /\ worker[w].step = "updateStatus"
  BY DEF UpdateStatus, At
<1>3. worker[w] \in Tasks /\ TaskInv(worker[w])
  BY <1>1, <1>2, TaskOf DEF WarehouseInv
<1>4. worker[w].purchase \in Purchases /\ "purchase" \in DOMAIN worker[w]
      /\ worker[w].to \in DOMAIN VALID_TRANSITIONS
  BY <1>2, <1>3, TaskFacts, PurchaseTasks
<1>5. PICK p \in Purchases : p = worker[w].purchase
  BY <1>4
<1> DEFINE was == purchase[p]
           to == worker[w].to
           row == [was EXCEPT !.status = to]
           counts == [step |-> "countDocuments", type |-> "SJ_IN", count |-> 0,
                      for |-> "purchase", purchase |-> p]
           h == IF to = "RECEIVED" THEN counts ELSE Idle
<1>6. purchase[p] # NoRow /\ to \in VALID_TRANSITIONS[worker[w].seen]
  BY <1>2, <1>3, <1>4, <1>5 DEF TaskInv
<1>7. was \in PurchaseRow
  BY <1>1, <1>6 DEF WarehouseTypeOK
<1>8. /\ purchase' = [purchase EXCEPT ![p].status = to]
      /\ disturbed' = IF was.status = worker[w].seen THEN disturbed ELSE disturbed \cup {p}
      /\ UNCHANGED <<qty, stockOut, order, documents, lost>>
  BY <1>5 DEF UpdateStatus, goods
<1>9. worker' = [worker EXCEPT ![w] = h]
  BY <1>5 DEF UpdateStatus, Done
<1>10. purchase' = [purchase EXCEPT ![p] = row]
  BY <1>1, <1>8 DEF WarehouseTypeOK
<1>11. row \in PurchaseRow /\ row.status = to /\ row.receipts = was.receipts
  BY <1>4, <1>7 DEF PurchaseRow
<1>12. counts \in Tasks /\ counts.step = "countDocuments" /\ "purchase" \in DOMAIN counts
       /\ counts.purchase = p
  BY DEF Tasks, Documents
<1> HIDE DEF counts
<1>13. /\ h \in Tasks \cup {Idle}
       /\ h # Idle => h.step = "countDocuments" /\ "purchase" \in DOMAIN h /\ h.purchase = p
       /\ h # Idle <=> to = "RECEIVED"
  BY <1>12, NothingAssumption
<1> HIDE DEF h, row, was, to
<1>14. ASSUME p \notin disturbed' \cup lost'
       PROVE  /\ \A v \in Workers : v # w => ~Receives(worker[v], p)
              /\ row.receipts = 0
  <2>1. was.status = worker[w].seen /\ p \notin disturbed \cup lost
    BY <1>8, <1>14
  <2>2. was.status # "RECEIVED"
    BY <1>6, <2>1, TransitionFacts
  <2>3. QED
    BY <1>6, <1>11, <2>1, <2>2, NotReceived DEF was
<1>15. Receives(h, p) <=> to = "RECEIVED"
  BY <1>13 DEF Receives
<1>16. \A q : q # p => ~Receives(h, q) /\ ~Receives(worker[w], q)
  BY <1>2, <1>13 DEF Receives
<1>17. h # Idle => h.step \notin {"review", "updateStatus"}
  BY <1>13
<1>18. /\ qty' \in [Items -> Nat] /\ order' \in [Orders -> OrderRow]
       /\ documents' \in [Documents -> Nat]
       /\ disturbed \subseteq disturbed' /\ lost \subseteq lost' /\ UNCHANGED stockOut
  BY <1>1, <1>8 DEF WarehouseTypeOK
<1>19. p \notin disturbed' \cup lost' =>
         /\ \A v \in Workers : v # w => ~Receives(worker[v], p)
         /\ Receives(h, p) => row.status = "RECEIVED" /\ row.receipts = 0
         /\ ~Receives(h, p) => row.receipts = IF row.status = "RECEIVED" THEN 1 ELSE 0
  BY <1>11, <1>14, <1>15
<1>20. QED
  BY <1>9, <1>10, <1>11, <1>13, <1>16, <1>17, <1>18, <1>19, PurchaseStep

(* The goods of a purchase are booked by the one worker that receives it.  *)
LEMMA ReceiveStockKeeps ==
  ASSUME WarehouseInv, NEW w \in Workers, ReceiveStock(w)
  PROVE  WarehouseInv'
<1>1. WarehouseTypeOK
  BY DEF WarehouseInv
<1>2. worker[w] # Idle /\ worker[w].step = "receiveStock"
  BY DEF ReceiveStock, At
<1>3. worker[w] \in Tasks /\ TaskInv(worker[w])
  BY <1>1, <1>2, TaskOf DEF WarehouseInv
<1>4. worker[w].purchase \in Purchases /\ "purchase" \in DOMAIN worker[w]
      /\ worker[w].read \in Nat
  BY <1>2, <1>3, TaskFacts, PurchaseTasks
<1>5. PICK p \in Purchases : p = worker[w].purchase
  BY <1>4
<1> DEFINE was == purchase[p]
           i == was.item
           new == worker[w].read + was.qty
           row == [was EXCEPT !.receipts = was.receipts + 1]
<1>6. purchase[p] # NoRow
  BY <1>2, <1>3, <1>4, <1>5 DEF TaskInv
<1>7. was \in PurchaseRow /\ was.receipts \in Nat /\ was.qty \in Nat /\ i \in Items
  <2>1. was \in PurchaseRow
    BY <1>1, <1>6 DEF WarehouseTypeOK
  <2> HIDE DEF was
  <2>2. was.receipts \in Nat /\ was.qty \in Quantities \cup {0} /\ i \in Items
    BY <2>1 DEF PurchaseRow
  <2>3. \A n \in Quantities \cup {0} : n \in Nat
    BY WarehouseAssumption
  <2>4. QED
    BY <2>1, <2>2, <2>3
<1>8. /\ qty' = [qty EXCEPT ![i] = new]
      /\ purchase' = [purchase EXCEPT ![p].receipts = @ + 1]
      /\ worker' = [worker EXCEPT ![w] = Idle]
      /\ UNCHANGED <<stockOut, order, documents, disturbed, lost>>
  BY <1>5 DEF ReceiveStock, WriteStock, Done, history
<1>9. purchase' = [purchase EXCEPT ![p] = row]
  BY <1>1, <1>8 DEF WarehouseTypeOK
<1>10. row \in PurchaseRow /\ row.status = was.status /\ row.receipts = was.receipts + 1
  BY <1>7 DEF PurchaseRow
<1>11. qty' \in [Items -> Nat]
  BY <1>1, <1>4, <1>7, <1>8 DEF WarehouseTypeOK
<1>12. Receives(worker[w], p) /\ ~Receives(Idle, p)
  BY <1>2, <1>4, <1>5 DEF Receives
<1>13. \A q : q # p => ~Receives(Idle, q) /\ ~Receives(worker[w], q)
  BY <1>5 DEF Receives
<1> HIDE DEF row, was, i, new
<1>14. ASSUME p \notin disturbed' \cup lost'
       PROVE  /\ \A v \in Workers : v # w => ~Receives(worker[v], p)
              /\ row.status = "RECEIVED" /\ row.receipts = 1
  <2>1. Arrives(p)
    BY <1>6, <1>8, <1>14 DEF WarehouseInv, PurchasesInv
  <2>2. \A v \in Workers : Receiving(v, p) <=> Receives(worker[v], p)
    BY DEF Receiving, Receives
  <2>3. /\ \A v \in Workers : v # w => ~Receives(worker[v], p)
        /\ was.status = "RECEIVED" /\ was.receipts = 0
    BY <1>12, <2>1, <2>2 DEF Arrives, was
  <2>4. QED
    BY <1>10, <2>3
<1>15. /\ order' \in [Orders -> OrderRow] /\ documents' \in [Documents -> Nat]
       /\ disturbed \subseteq disturbed' /\ lost \subseteq lost' /\ UNCHANGED stockOut
       /\ worker' = [worker EXCEPT ![w] = Idle] /\ Idle \in Tasks \cup {Idle}
  BY <1>1, <1>8 DEF WarehouseTypeOK
<1>16. p \notin disturbed' \cup lost' =>
         /\ \A v \in Workers : v # w => ~Receives(worker[v], p)
         /\ Receives(Idle, p) => row.status = "RECEIVED" /\ row.receipts = 0
         /\ ~Receives(Idle, p) => row.receipts = IF row.status = "RECEIVED" THEN 1 ELSE 0
  BY <1>12, <1>14
<1>17. QED
  BY <1>9, <1>10, <1>11, <1>13, <1>15, <1>16, PurchaseStep

(* A new purchase is one that nobody works on yet.                         *)
LEMMA CreateFromOrderKeeps ==
  ASSUME WarehouseInv, NEW w \in Workers, CreateFromOrder(w)
  PROVE  WarehouseInv'
<1>1. WarehouseTypeOK
  BY DEF WarehouseInv
<1>2. worker[w] # Idle /\ worker[w].step = "createPurchase"
      /\ UNCHANGED <<qty, stockOut, order, documents, disturbed, lost>>
  BY DEF CreateFromOrder, At, goods, history
<1>3. worker[w] \in Tasks
  BY <1>1, <1>2, TaskOf
<1>4. "purchase" \notin DOMAIN worker[w] /\ worker[w].order \in Orders
      /\ worker[w].branch \in Branches
  BY <1>2, <1>3, TaskFacts, PurchaseTasks
<1>5. /\ qty' \in [Items -> Nat] /\ order' \in [Orders -> OrderRow]
      /\ documents' \in [Documents -> Nat]
      /\ disturbed \subseteq disturbed' /\ lost \subseteq lost' /\ UNCHANGED stockOut
  BY <1>1, <1>2 DEF WarehouseTypeOK
<1>6. CASE worker' = [worker EXCEPT ![w] = Idle] /\ UNCHANGED purchase
  BY <1>1, <1>2, <1>4, <1>5, <1>6, QuietKeeps
<1>7. ASSUME NEW p \in Purchases \ Made, purchase' = [purchase EXCEPT ![p] = NewPurchase(worker[w])],
             worker' = [worker EXCEPT ![w] =
               [step |-> "finishSubmit", order |-> worker[w].order, branch |-> worker[w].branch]]
      PROVE  WarehouseInv'
  <2> DEFINE row == NewPurchase(worker[w])
             h == [step |-> "finishSubmit", order |-> worker[w].order,
                   branch |-> worker[w].branch]
  <2>1. order[worker[w].order] \in OrderRow
    BY <1>1, <1>4 DEF WarehouseTypeOK
  <2>2. row \in PurchaseRow /\ row.status = "PENDING" /\ row.receipts = 0
    BY <2>1, TransitionFacts DEF NewPurchase, PurchaseRow, OrderRow
  <2>3. h \in Tasks /\ h.step = "finishSubmit" /\ "purchase" \notin DOMAIN h
    BY <1>4 DEF Tasks
  <2> HIDE DEF row, h
  <2>4. \A v \in Workers : ~Receives(worker[v], p)
    BY <1>7 DEF Receives, WarehouseInv, TaskInv, Made
  <2>5. \A q : ~Receives(h, q) /\ ~Receives(worker[w], q)
    BY <1>4, <2>3 DEF Receives
  <2>6. /\ purchase' = [purchase EXCEPT ![p] = row] /\ worker' = [worker EXCEPT ![w] = h]
        /\ h \in Tasks \cup {Idle} /\ h.step \notin {"review", "updateStatus"} /\ p \in Purchases
    BY <1>7, <2>3 DEF row, h
  <2>7. row.receipts = IF row.status = "RECEIVED" THEN 1 ELSE 0
    BY <2>2
  <2>8. QED
    BY <1>5, <2>2, <2>4, <2>5, <2>6, <2>7, PurchaseStep
<1>8. QED
  BY <1>6, <1>7 DEF CreateFromOrder, Done

-----------------------------------------------------------------------------
(* The theorems.                                                           *)

(* The invariant holds of an empty warehouse at work on nothing.           *)
LEMMA WarehouseInitInv == WarehouseInit => WarehouseInv
<1> SUFFICES ASSUME WarehouseInit PROVE WarehouseInv
  OBVIOUS
<1>1. WarehouseTypeOK
  <2>1. qty \in [Items -> Nat]
    BY WarehouseAssumption DEF WarehouseInit
  <2>2. order \in [Orders -> OrderRow]
    <3>1. NewOrders \subseteq OrderRow
      BY DEF NewOrders, OrderRow
    <3>2. QED
      BY <3>1 DEF WarehouseInit
  <2>3. documents \in [Documents -> Nat]
    BY DEF WarehouseInit, Documents
  <2>4. QED
    BY <2>1, <2>2, <2>3 DEF WarehouseInit, WarehouseTypeOK
<1>2. StockOutsInv /\ PurchasesInv
  BY DEF WarehouseInit, StockOutsInv, PurchasesInv
<1>3. \A w \in Workers : worker[w] = Idle
  BY DEF WarehouseInit
<1>4. QED
  BY <1>1, <1>2, <1>3 DEF WarehouseInv

(* A step of any handler, whatever the others are in the middle of.        *)
LEMMA WarehouseStepInv ==
  ASSUME WarehouseInv, WarehouseNext PROVE WarehouseInv'
<1>1. PICK w \in Workers :
        \/ \E i \in Items, n \in 0..MaxQty : StartAdjust(w, i, n)
        \/ AdjustStock(w)
        \/ \E s \in StockOuts, i \in Items, n \in Quantities :
             worker[w] = Idle /\ CreateStockOut(s, i, n)
        \/ \E s \in StockOuts, h \in DOMAIN AsksFor, n \in Quantities : StartReview(w, s, h, n)
        \/ FinishReview(w)
        \/ \E s \in StockOuts : FinanceApprove(w, s)
        \/ \E type \in Documents : ReadCount(w, type)
        \/ GenerateForStockOut(w)
        \/ \E p \in Purchases, to \in DOMAIN VALID_TRANSITIONS : StartUpdateStatus(w, p, to)
        \/ UpdateStatus(w)
        \/ GenerateSuratJalanIn(w)
        \/ ReadForReceipt(w)
        \/ ReceiveStock(w)
        \/ \/ \E o \in Orders, isAdminStock \in BOOLEAN : StartSubmit(w, o, isAdminStock)
           \/ CheckAvailability(w)
           \/ ReadForOrder(w)
           \/ DeductStock(w)
           \/ CountForOrder(w)
           \/ GenerateSuratJalanOut(w)
           \/ CountPurchases(w)
           \/ FinishSubmit(w)
        \/ CreateFromOrder(w)
        \/ Abandon(w)
  BY DEF WarehouseNext, Documents
<1>2. CASE \/ \E i \in Items, n \in 0..MaxQty : StartAdjust(w, i, n)
           \/ AdjustStock(w)
  BY <1>2, AdjustKeeps
<1>3. CASE \E s \in StockOuts, i \in Items, n \in Quantities :
             worker[w] = Idle /\ CreateStockOut(s, i, n)
  BY <1>3, CreateStockOutKeeps
<1>4. CASE \E s \in StockOuts, h \in DOMAIN AsksFor, n \in Quantities : StartReview(w, s, h, n)
  BY <1>4, StartReviewKeeps
<1>5. CASE FinishReview(w)
  BY <1>5, FinishReviewKeeps
<1>6. CASE \E s \in StockOuts : FinanceApprove(w, s)
  BY <1>6, FinanceApproveKeeps
<1>7. CASE \E type \in Documents : ReadCount(w, type)
  BY <1>7, ReadCountKeeps
<1>8. CASE GenerateForStockOut(w)
  BY <1>8, GenerateForStockOutKeeps
<1>9. CASE \E p \in Purchases, to \in DOMAIN VALID_TRANSITIONS : StartUpdateStatus(w, p, to)
  BY <1>9, StartUpdateStatusKeeps
<1>10. CASE UpdateStatus(w)
  BY <1>10, UpdateStatusKeeps
<1>11. CASE GenerateSuratJalanIn(w)
  BY <1>11, GenerateSuratJalanInKeeps
<1>12. CASE ReadForReceipt(w)
  BY <1>12, ReadForReceiptKeeps
<1>13. CASE ReceiveStock(w)
  BY <1>13, ReceiveStockKeeps
<1>14. CASE \/ \E o \in Orders, isAdminStock \in BOOLEAN : StartSubmit(w, o, isAdminStock)
            \/ CheckAvailability(w)
            \/ ReadForOrder(w)
            \/ DeductStock(w)
            \/ CountForOrder(w)
            \/ GenerateSuratJalanOut(w)
            \/ CountPurchases(w)
            \/ FinishSubmit(w)
  BY <1>14, SubmitKeeps
<1>15. CASE CreateFromOrder(w)
  BY <1>15, CreateFromOrderKeeps
<1>16. CASE Abandon(w)
  BY <1>16, AbandonKeeps
<1>17. QED
  BY <1>1, <1>2, <1>3, <1>4, <1>5, <1>6, <1>7, <1>8, <1>9, <1>10, <1>11, <1>12, <1>13,
     <1>14, <1>15, <1>16

(* The invariant reads no more than the variables of the module.           *)
LEMMA WarehouseStutter ==
  ASSUME WarehouseInv, UNCHANGED warehouseVars PROVE WarehouseInv'
<1>1. UNCHANGED <<qty, stockOut, purchase, order, documents, worker, disturbed, lost>>
  BY DEF warehouseVars, goods, rows, history
<1>2. WarehouseTypeOK' /\ StockOutsInv'
  BY <1>1 DEF WarehouseInv, WarehouseTypeOK, StockOutsInv
<1>3. \A w \in Workers : worker'[w] # Idle => TaskInv(worker[w])'
  BY <1>1 DEF WarehouseInv, TaskInv
<1>4. PurchasesInv'
  BY <1>1 DEF WarehouseInv, PurchasesInv, Arrives, Receiving
<1>5. QED
  BY <1>2, <1>3, <1>4 DEF WarehouseInv

(* Stock-outs fit their status, tasks are about rows that are there, and a *)
(* purchase is received by one handler at a time, whatever the handlers'   *)
(* awaits interleave, short of a write that overlooked another.            *)
THEOREM WarehouseInvariant == WarehouseSpec => []WarehouseInv
<1>1. WarehouseInit => WarehouseInv
  BY WarehouseInitInv
<1>2. WarehouseInv /\ [WarehouseNext]_warehouseVars => WarehouseInv'
  BY WarehouseStepInv, WarehouseStutter
<1>3. QED
  BY <1>1, <1>2, PTL DEF WarehouseSpec

(* Every table holds rows of its shape, every worker a task of its, and no *)
(* quantity of the stock is ever negative.                                 *)
THEOREM WarehouseKeepsItsType == WarehouseSpec => []WarehouseTypeOK
<1>1. WarehouseInv => WarehouseTypeOK
  BY DEF WarehouseInv
<1>2. QED
  BY <1>1, WarehouseInvariant, PTL

(* StockOutService: the goods of a request leave once at most, and for the *)
(* quantity that the stock administrator and the PM both approved.         *)
THEOREM StockOutsLeaveAsApproved == WarehouseSpec => []GoodsLeaveAsApproved
<1>1. WarehouseInv => GoodsLeaveAsApproved
  BY DEF WarehouseInv, StockOutsInv, Approves, GoodsLeaveAsApproved
<1>2. QED
  BY <1>1, WarehouseInvariant, PTL

(* PurchaseRequestService: a purchase is booked into stock exactly when it *)
(* is RECEIVED and no handler is still receiving it.                       *)
THEOREM BoughtGoodsArriveOnce == WarehouseSpec => []PurchasesArrive
<1>1. WarehouseInv => PurchasesArrive
  BY DEF WarehouseInv, PurchasesInv, Arrives, PurchasesArrive
<1>2. QED
  BY <1>1, WarehouseInvariant, PTL

-----------------------------------------------------------------------------
(* Quantities and documents.                                               *)

(* What moved an item, row by row.                                         *)
BookedOf(i) == [p \in Purchases |-> Booked(p, i)]
GoneOf(i) == [s \in StockOuts |-> Gone(s, i)]
TakenOf(i) == [o \in Orders |-> TakenBy(o, i)]

(* What left for a stock-out is what it asks for, once it left.            *)
GoneFits(row) == row.gone = IF row.outs > 0 THEN row.qty ELSE 0
GoneInv ==
  \A s \in StockOuts \ disturbed : stockOut[s] # NoRow => GoneFits(stockOut[s])

(* The quantity of an item nobody overwrote unread is the last count by    *)
(* hand and what moved since.                                              *)
BooksInv ==
  /\ base \in [Items -> Int]
  /\ \A i \in Items \ overtaken : qty[i] = base[i] + Moved(i)
  /\ GoneInv

(* A product grows by one factor when the other grows by one.              *)
LEMMA OneMore ==
  ASSUME NEW m \in Nat, NEW n \in Nat
  PROVE  m * n \in Nat /\ (m + 1) * n = m * n + n
  OBVIOUS

RowsOfIntegers ==
  \A i \in Items :
    /\ BookedOf(i) \in [Purchases -> Int]
    /\ GoneOf(i) \in [StockOuts -> Int]
    /\ TakenOf(i) \in [Orders -> Int]

(* The summands are integers.                                              *)
LEMMA MovedRows == WarehouseTypeOK => RowsOfIntegers
<1> SUFFICES ASSUME WarehouseTypeOK, NEW i \in Items
             PROVE  /\ BookedOf(i) \in [Purchases -> Int]
                    /\ GoneOf(i) \in [StockOuts -> Int]
                    /\ TakenOf(i) \in [Orders -> Int]
  BY DEF RowsOfIntegers
<1>1. ASSUME NEW p \in Purchases PROVE Booked(p, i) \in Int
  <2>1. CASE purchase[p] # NoRow
    <3>1. purchase[p] \in PurchaseRow
      BY <2>1 DEF WarehouseTypeOK
    <3>2. purchase[p].receipts \in Nat /\ purchase[p].qty \in Quantities \cup {0}
      BY <3>1 DEF PurchaseRow
    <3>3. \A n \in Quantities \cup {0} : n \in Nat
      BY WarehouseAssumption
    <3>4. purchase[p].receipts * purchase[p].qty \in Nat
      BY <3>2, <3>3, OneMore
    <3>5. QED
      BY <3>4 DEF Booked
  <2>2. QED
    BY <2>1 DEF Booked, IsOf
<1>2. ASSUME NEW s \in StockOuts PROVE Gone(s, i) \in Int
  <2>1. stockOut[s] # NoRow => stockOut[s] \in StockOutRow
    BY DEF WarehouseTypeOK
  <2>2. QED
    BY <2>1 DEF Gone, IsOf, StockOutRow
<1>3. ASSUME NEW o \in Orders PROVE TakenBy(o, i) \in Int
  <2>1. order[o] \in OrderRow
    BY DEF WarehouseTypeOK
  <2>2. QED
    BY <2>1 DEF TakenBy, OrderRow
<1>4. QED
  BY <1>1, <1>2, <1>3 DEF BookedOf, GoneOf, TakenOf

(* The same after a step.                                                  *)
LEMMA RowsStayIntegers == WarehouseTypeOK' => RowsOfIntegers'
  BY MovedRows, PTL

(* What moved is made of three sums, and an integer.                       *)
LEMMA MovedIsSum ==
  ASSUME WarehouseTypeOK, NEW i \in Items
  PROVE  /\ Moved(i) = Sum(BookedOf(i), Purchases) - Sum(GoneOf(i), StockOuts)
                       - Sum(TakenOf(i), Orders)
         /\ Sum(BookedOf(i), Purchases) \in Int /\ Sum(GoneOf(i), StockOuts) \in Int
         /\ Sum(TakenOf(i), Orders) \in Int /\ Moved(i) \in Int
<1>1. Moved(i) = Sum(BookedOf(i), Purchases) - Sum(GoneOf(i), StockOuts)
                 - Sum(TakenOf(i), Orders)
  BY DEF Moved, BookedOf, GoneOf, TakenOf
<1>2. /\ Sum(BookedOf(i), Purchases) \in Int /\ Sum(GoneOf(i), StockOuts) \in Int
      /\ Sum(TakenOf(i), Orders) \in Int
  BY MovedRows, SumType, WarehouseAssumption DEF RowsOfIntegers
<1>3. QED
  BY <1>1, <1>2

(* One row changes, and what moved changes by what its summand does.       *)
LEMMA PurchaseMoves ==
  ASSUME WarehouseTypeOK, WarehouseTypeOK', NEW i \in Items, NEW p \in Purchases,
         NEW d \in Int, UNCHANGED <<stockOut, order>>,
         \A q \in Purchases : q # p => purchase'[q] = purchase[q],
         Booked(p, i)' = Booked(p, i) + d
  PROVE  Moved(i)' = Moved(i) + d
<1>1. GoneOf(i)' = GoneOf(i) /\ TakenOf(i)' = TakenOf(i)
  BY DEF GoneOf, TakenOf, Gone, TakenBy
<1>2. BookedOf(i) \in [Purchases -> Int] /\ BookedOf(i)' \in [Purchases -> Int]
  BY MovedRows, RowsStayIntegers DEF RowsOfIntegers
<1>3. /\ BookedOf(i)'[p] = BookedOf(i)[p] + d
      /\ \A q \in Purchases : q # p => BookedOf(i)'[q] = BookedOf(i)[q]
  BY DEF BookedOf, Booked
<1>4. Sum(BookedOf(i)', Purchases) = Sum(BookedOf(i), Purchases) + d
  BY <1>2, <1>3, SumUpdate, WarehouseAssumption
<1>5. Moved(i)' = Sum(BookedOf(i)', Purchases) - Sum(GoneOf(i)', StockOuts)
                  - Sum(TakenOf(i)', Orders)
  BY DEF Moved, BookedOf, GoneOf, TakenOf
<1>6. QED
  BY <1>1, <1>4, <1>5, MovedIsSum

(* The same of a stock-out, whose goods leave.                             *)
LEMMA StockOutMoves ==
  ASSUME WarehouseTypeOK, WarehouseTypeOK', NEW i \in Items, NEW s \in StockOuts,
         NEW d \in Int, UNCHANGED <<purchase, order>>,
         \A t \in StockOuts : t # s => stockOut'[t] = stockOut[t],
         Gone(s, i)' = Gone(s, i) + d
  PROVE  Moved(i)' = Moved(i) - d
<1>1. BookedOf(i)' = BookedOf(i) /\ TakenOf(i)' = TakenOf(i)
  BY DEF BookedOf, TakenOf, Booked, TakenBy
<1>2. GoneOf(i) \in [StockOuts -> Int] /\ GoneOf(i)' \in [StockOuts -> Int]
  BY MovedRows, RowsStayIntegers DEF RowsOfIntegers
<1>3. /\ GoneOf(i)'[s] = GoneOf(i)[s] + d
      /\ \A t \in StockOuts : t # s => GoneOf(i)'[t] = GoneOf(i)[t]
  BY DEF GoneOf, Gone
<1>4. Sum(GoneOf(i)', StockOuts) = Sum(GoneOf(i), StockOuts) + d
  BY <1>2, <1>3, SumUpdate, WarehouseAssumption
<1>5. Moved(i)' = Sum(BookedOf(i)', Purchases) - Sum(GoneOf(i)', StockOuts)
                  - Sum(TakenOf(i)', Orders)
  BY DEF Moved, BookedOf, GoneOf, TakenOf
<1>6. QED
  BY <1>1, <1>4, <1>5, MovedIsSum

(* The same of an order.                                                   *)
LEMMA OrderMoves ==
  ASSUME WarehouseTypeOK, WarehouseTypeOK', NEW i \in Items, NEW o \in Orders,
         NEW d \in Int, UNCHANGED <<purchase, stockOut>>,
         \A r \in Orders : r # o => order'[r] = order[r],
         TakenBy(o, i)' = TakenBy(o, i) + d
  PROVE  Moved(i)' = Moved(i) - d
<1>1. BookedOf(i)' = BookedOf(i) /\ GoneOf(i)' = GoneOf(i)
  BY DEF BookedOf, GoneOf, Booked, Gone
<1>2. TakenOf(i) \in [Orders -> Int] /\ TakenOf(i)' \in [Orders -> Int]
  BY MovedRows, RowsStayIntegers DEF RowsOfIntegers
<1>3. /\ TakenOf(i)'[o] = TakenOf(i)[o] + d
      /\ \A r \in Orders : r # o => TakenOf(i)'[r] = TakenOf(i)[r]
  BY DEF TakenOf, TakenBy
<1>4. Sum(TakenOf(i)', Orders) = Sum(TakenOf(i), Orders) + d
  BY <1>2, <1>3, SumUpdate, WarehouseAssumption
<1>5. Moved(i)' = Sum(BookedOf(i)', Purchases) - Sum(GoneOf(i)', StockOuts)
                  - Sum(TakenOf(i)', Orders)
  BY DEF Moved, BookedOf, GoneOf, TakenOf
<1>6. QED
  BY <1>1, <1>4, <1>5, MovedIsSum

(* Steps that neither write a quantity nor move anything.                  *)
LEMMA UnmovedKeep ==
  ASSUME BooksInv, UNCHANGED <<qty, base, overtaken>>,
         \A i \in Items : Moved(i)' = Moved(i), GoneInv'
  PROVE  BooksInv'
  BY DEF BooksInv

(* A handler reads, waits or gives up: quantities and rows stay.           *)
LEMMA AwaitsKeepBooks ==
  ASSUME BooksInv, UNCHANGED <<qty, base, overtaken, stockOut, purchase, order, disturbed>>
  PROVE  BooksInv'
<1>1. ASSUME NEW i \in Items PROVE Moved(i)' = Moved(i)
  BY DEF Moved, Booked, Gone, TakenBy
<1>2. GoneInv'
  BY DEF BooksInv, GoneInv
<1>3. QED
  BY <1>1, <1>2, UnmovedKeep

(* A quantity is written together with the row that moves it: the books    *)
(* agree, or the item was overtaken.                                       *)
LEMMA WritesKeepBooks ==
  ASSUME BooksInv, WarehouseTypeOK, WarehouseTypeOK', NEW j \in Items, NEW read \in Int,
         NEW d \in Int, WriteStock(j, read, read + d), Moved(j)' = Moved(j) + d,
         \A i \in Items : i # j => Moved(i)' = Moved(i), GoneInv'
  PROVE  BooksInv'
<1>1. /\ qty' = [qty EXCEPT ![j] = read + d]
      /\ IF qty[j] = read THEN UNCHANGED <<base, overtaken>>
         ELSE base' = [base EXCEPT ![j] = 0] /\ overtaken' = overtaken \cup {j}
  BY DEF WriteStock
<1>2. qty \in [Items -> Nat] /\ base \in [Items -> Int]
  BY DEF BooksInv, WarehouseTypeOK
<1>3. base' \in [Items -> Int] /\ overtaken \subseteq overtaken'
  BY <1>1, <1>2
<1>4. ASSUME NEW i \in Items \ overtaken' PROVE qty'[i] = base'[i] + Moved(i)'
  <2>1. qty[i] = base[i] + Moved(i) /\ Moved(i) \in Int
    BY <1>3, <1>4, MovedIsSum DEF BooksInv
  <2>2. CASE i = j
    <3>1. qty[j] = read /\ base' = base
      BY <1>1, <1>4, <2>2
    <3>2. QED
      BY <1>1, <1>2, <2>1, <2>2, <3>1
  <2>3. CASE i # j
    BY <1>1, <1>2, <2>1, <2>3
  <2>4. QED
    BY <2>2, <2>3
<1>5. QED
  BY <1>3, <1>4 DEF BooksInv

(* Steps that change rows but nothing that moves goods.                    *)
LEMMA SameMoved ==
  ASSUME \A p \in Purchases, i \in Items : Booked(p, i)' = Booked(p, i),
         \A s \in StockOuts, i \in Items : Gone(s, i)' = Gone(s, i),
         \A o \in Orders, i \in Items : TakenBy(o, i)' = TakenBy(o, i)
  PROVE  \A i \in Items : Moved(i)' = Moved(i)
  BY DEF Moved

(* A count by hand is where the books start anew.                          *)
LEMMA AdjustKeepsBooks ==
  ASSUME WarehouseInv, BooksInv, NEW w \in Workers, AdjustStock(w)
  PROVE  BooksInv'
<1> DEFINE j == worker[w].item
           new == worker[w].new
<1>1. WarehouseTypeOK
  BY DEF WarehouseInv
<1>2. worker[w] # Idle /\ worker[w].step = "adjust"
  BY DEF AdjustStock, At
<1>3. j \in Items /\ new \in Nat
  BY <1>1, <1>2, TaskOf, TaskFacts
<1>4. /\ qty' = [qty EXCEPT ![j] = new] /\ base' = [base EXCEPT ![j] = new - Moved(j)]
      /\ overtaken' = overtaken \ {j}
      /\ UNCHANGED <<stockOut, purchase, order, disturbed>>
  BY DEF AdjustStock, rows, history
<1> HIDE DEF j, new
<1>5. \A i \in Items : Moved(i) \in Int /\ Moved(i)' = Moved(i)
  BY <1>1, <1>4, MovedIsSum DEF Moved, Booked, Gone, TakenBy
<1>6. qty \in [Items -> Nat] /\ base \in [Items -> Int]
  BY <1>1 DEF WarehouseTypeOK, BooksInv
<1>7. base' \in [Items -> Int]
  BY <1>3, <1>4, <1>5, <1>6
<1>8. ASSUME NEW i \in Items \ overtaken' PROVE qty'[i] = base'[i] + Moved(i)'
  <2>1. CASE i = j
    BY <1>3, <1>4, <1>5, <1>6, <2>1
  <2>2. CASE i # j
    <3>1. qty[i] = base[i] + Moved(i)
      BY <1>4, <1>8, <2>2 DEF BooksInv
    <3>2. QED
      BY <1>4, <1>5, <1>6, <2>2, <3>1
  <2>3. QED
    BY <2>1, <2>2
<1>9. GoneInv'
  BY <1>4 DEF BooksInv, GoneInv
<1>10. QED
  BY <1>7, <1>8, <1>9 DEF BooksInv

(* Nothing has left for a new request.                                     *)
LEMMA CreateStockOutKeepsBooks ==
  ASSUME WarehouseInv, WarehouseInv', BooksInv, NEW s \in StockOuts, NEW j \in Items,
         NEW n \in Quantities, CreateStockOut(s, j, n)
  PROVE  BooksInv'
<1>1. /\ stockOut[s] = NoRow /\ stockOut' = [stockOut EXCEPT ![s] = NewStockOut(j, n)]
      /\ UNCHANGED <<qty, base, overtaken, purchase, order, disturbed>>
  BY DEF CreateStockOut, goods, history
<1>2. stockOut \in [StockOuts -> StockOutRow \cup {NoRow}]
  BY DEF WarehouseInv, WarehouseTypeOK
<1>3. \A t \in StockOuts : stockOut'[t] = IF t = s THEN NewStockOut(j, n) ELSE stockOut[t]
  BY <1>1, <1>2
<1>4. NewStockOut(j, n).gone = 0 /\ NewStockOut(j, n).outs = 0
  BY DEF NewStockOut
<1>5. \A t \in StockOuts, i \in Items : Gone(t, i)' = Gone(t, i)
  BY <1>1, <1>3, <1>4 DEF Gone, IsOf
<1>6. \A i \in Items : Moved(i)' = Moved(i)
  BY <1>1, <1>5, SameMoved DEF Booked, TakenBy
<1>7. GoneInv'
  BY <1>1, <1>3, <1>4 DEF BooksInv, GoneInv, GoneFits
<1>8. QED
  BY <1>1, <1>6, <1>7, UnmovedKeep

(* A review leaves what has gone as it was, and revises the quantity only  *)
(* of a request for which nothing has.                                     *)
LEMMA LeavesGoods ==
  ASSUME NEW row \in StockOutRow, NEW h \in Tasks, h.step = "review"
  PROVE  /\ Leaves(row, h).item = row.item /\ Leaves(row, h).gone = row.gone
         /\ Leaves(row, h).outs = row.outs
         /\ Leaves(row, h).qty = row.qty
            \/ (h.handler = "resubmit" /\ AsksFor[h.handler] = {"DRAFT"})
<1>1. h.handler \in DOMAIN AsksFor
  BY TaskFacts
<1>2. QED
  BY <1>1 DEF Leaves, Resubmitted, StockOutRow, AsksFor

(* A review moves no goods, and asks for others only before they left.     *)
LEMMA FinishReviewKeepsBooks ==
  ASSUME WarehouseInv, BooksInv, NEW w \in Workers, FinishReview(w)
  PROVE  BooksInv'
<1> DEFINE h == worker[w]
           s == h.stockOut
           was == stockOut[s]
           row == Leaves(was, h)
<1>1. WarehouseTypeOK
  BY DEF WarehouseInv
<1>2. /\ h # Idle /\ h.step = "review"
      /\ stockOut' = [stockOut EXCEPT ![s] = row]
      /\ disturbed' = IF was = h.seen THEN disturbed ELSE disturbed \cup {s}
      /\ UNCHANGED <<qty, base, overtaken, purchase, order>>
  BY DEF FinishReview, At, goods
<1>3. h \in Tasks /\ TaskInv(h)
  BY <1>1, <1>2, TaskOf DEF WarehouseInv
<1>4. s \in StockOuts
  BY <1>2, <1>3, TaskFacts
<1>5. was # NoRow /\ h.seen.status \in AsksFor[h.handler]
  BY <1>2, <1>3 DEF TaskInv
<1>6. was \in StockOutRow
  BY <1>1, <1>4, <1>5 DEF WarehouseTypeOK
<1>7. s \notin disturbed => Approves(was) /\ GoneFits(was)
  BY <1>4, <1>5 DEF WarehouseInv, StockOutsInv, BooksInv, GoneInv
<1>8. stockOut \in [StockOuts -> StockOutRow \cup {NoRow}]
  BY <1>1 DEF WarehouseTypeOK
<1>9. /\ row.item = was.item /\ row.gone = was.gone /\ row.outs = was.outs
      /\ row.qty = was.qty \/ AsksFor[h.handler] = {"DRAFT"}
  BY <1>2, <1>3, <1>6, LeavesGoods
<1>10. row \in StockOutRow
  BY <1>2, <1>3, <1>6, LeavesFacts
<1> HIDE DEF h, s, row
<1>11. s \notin disturbed' => GoneFits(row)
  <2> SUFFICES ASSUME s \notin disturbed' PROVE GoneFits(row)
    OBVIOUS
  <2>1. was = h.seen /\ Approves(was) /\ GoneFits(was)
    BY <1>2, <1>7
  <2>2. CASE row.qty = was.qty
    BY <1>9, <2>1, <2>2 DEF GoneFits
  <2>3. CASE AsksFor[h.handler] = {"DRAFT"}
    <3>1. was.status = "DRAFT"
      BY <1>5, <2>1, <2>3
    <3>2. was.outs = 0
      BY <2>1, <3>1 DEF Approves
    <3>3. QED
      BY <1>9, <2>1, <3>2 DEF GoneFits
  <2>4. QED
    BY <1>9, <2>2, <2>3
<1>12. \A t \in StockOuts : stockOut'[t] = IF t = s THEN row ELSE stockOut[t]
  BY <1>2, <1>8
<1>13. row # NoRow
  BY <1>10, NothingAssumption
<1>14. \A t \in StockOuts, i \in Items : Gone(t, i)' = Gone(t, i)
  BY <1>5, <1>9, <1>12, <1>13 DEF Gone, IsOf
<1>15. \A i \in Items : Moved(i)' = Moved(i)
  BY <1>2, <1>14, SameMoved DEF Booked, TakenBy
<1>16. disturbed \subseteq disturbed'
  BY <1>2
<1>17. GoneInv'
  BY <1>11, <1>12, <1>16 DEF BooksInv, GoneInv
<1>18. QED
  BY <1>2, <1>15, <1>17, UnmovedKeep
(* financeApprove takes off the quantity what it says has gone.            *)
LEMMA FinanceApproveKeepsBooks ==
  ASSUME WarehouseInv, WarehouseInv', BooksInv, NEW w \in Workers, NEW s \in StockOuts,
         FinanceApprove(w, s)
  PROVE  BooksInv'
<1>1. WarehouseTypeOK /\ WarehouseTypeOK'
  BY DEF WarehouseInv
<1>2. /\ stockOut[s] # NoRow /\ stockOut[s].status = "PENDING_FINANCE"
      /\ stockOut[s].outs < MaxOuts /\ UNCHANGED <<purchase, order, disturbed>>
  BY DEF FinanceApprove, history
<1>3. PICK was \in StockOutRow : was = stockOut[s]
  BY <1>1, <1>2 DEF WarehouseTypeOK
<1>4. /\ was.item \in Items /\ was.qty \in Quantities /\ was.gone \in Nat
      /\ was.outs \in 0..MaxOuts /\ was.outs < MaxOuts /\ MaxOuts \in Nat
  BY <1>2, <1>3, WarehouseAssumption DEF StockOutRow
<1>5. PICK j \in Items : j = was.item
  BY <1>4
<1>6. PICK n \in Nat : n = was.qty
  BY <1>4, WarehouseAssumption
<1> DEFINE row == [was EXCEPT !.status = "FULFILLED", !.outs = was.outs + 1,
                              !.gone = was.gone + n]
<1>7. /\ WriteStock(j, qty[j], qty[j] - n)
      /\ stockOut' = [stockOut EXCEPT ![s].status = "FULFILLED", ![s].outs = @ + 1,
                                      ![s].gone = @ + n]
  BY <1>3, <1>5, <1>6 DEF FinanceApprove
<1>8. \A t \in StockOuts : stockOut'[t] = IF t = s THEN row ELSE stockOut[t]
  BY <1>1, <1>3, <1>7 DEF WarehouseTypeOK, StockOutRow
<1>9. row.item = j /\ row.gone = was.gone + n /\ row.outs = was.outs + 1 /\ row.qty = n
  BY <1>3, <1>5, <1>6 DEF StockOutRow
<1>10. row # NoRow
  <2>1. was.outs + 1 \in 0..MaxOuts /\ was.gone + n \in Nat
    BY <1>4
  <2>2. "FULFILLED" \in UNION {AsksFor[r] : r \in DOMAIN AsksFor}
    BY AsksForFacts
  <2>3. row \in StockOutRow
    BY <2>1, <2>2 DEF StockOutRow
  <2>4. QED
    BY <2>3, NothingAssumption
<1> HIDE DEF row
<1>11. ASSUME NEW i \in Items PROVE Moved(i)' = Moved(i) - (IF i = j THEN n ELSE 0)
  <2> DEFINE d == IF i = j THEN n ELSE 0
  <2>1. d \in Int
    OBVIOUS
  <2>2. Gone(s, i) = IF j = i THEN was.gone ELSE 0
    BY <1>2, <1>3, <1>5 DEF Gone, IsOf
  <2>3. Gone(s, i)' = IF j = i THEN was.gone + n ELSE 0
    BY <1>8, <1>9, <1>10 DEF Gone, IsOf
  <2>4. Gone(s, i)' = Gone(s, i) + d
    BY <1>4, <2>2, <2>3
  <2> HIDE DEF d
  <2>5. Moved(i)' = Moved(i) - d
    BY <1>1, <1>2, <1>8, <2>1, <2>4, StockOutMoves
  <2>6. QED
    BY <2>5 DEF d
<1>12. \A i \in Items : Moved(i) \in Int
  BY <1>1, MovedIsSum
<1>13. Moved(j)' = Moved(j) + (-n) /\ \A i \in Items : i # j => Moved(i)' = Moved(i)
  BY <1>11, <1>12
<1>14. qty[j] \in Int /\ -n \in Int /\ WriteStock(j, qty[j], qty[j] + (-n))
  <2>1. qty[j] \in Nat
    BY <1>1 DEF WarehouseTypeOK
  <2>2. qty[j] - n = qty[j] + (-n)
    BY <2>1
  <2>3. QED
    BY <1>7, <2>1, <2>2
<1>15. s \notin disturbed => GoneFits(row)
  <2> SUFFICES ASSUME s \notin disturbed PROVE GoneFits(row)
    OBVIOUS
  <2>1. Approves(was) /\ GoneFits(was)
    BY <1>2, <1>3 DEF WarehouseInv, StockOutsInv, BooksInv, GoneInv
  <2>2. was.outs = 0 /\ was.gone = 0
    BY <1>2, <1>3, <2>1 DEF Approves, GoneFits
  <2>3. QED
    BY <1>9, <2>2 DEF GoneFits
<1>16. GoneInv'
  BY <1>2, <1>8, <1>15 DEF BooksInv, GoneInv
<1>17. QED
  BY <1>1, <1>13, <1>14, <1>16, WritesKeepBooks

(* The status of a purchase moves no goods.                                *)
LEMMA UpdateStatusKeepsBooks ==
  ASSUME WarehouseInv, WarehouseInv', BooksInv, NEW w \in Workers, UpdateStatus(w)
  PROVE  BooksInv'
<1> DEFINE p == worker[w].purchase
           row == [purchase[p] EXCEPT !.status = worker[w].to]
<1>1. WarehouseTypeOK /\ WarehouseTypeOK'
  BY DEF WarehouseInv
<1>2. worker[w] # Idle /\ worker[w].step = "updateStatus"
  BY DEF UpdateStatus, At
<1>3. worker[w] \in Tasks /\ TaskInv(worker[w])
  BY <1>1, <1>2, TaskOf DEF WarehouseInv
<1>4. p \in Purchases /\ worker[w].to \in DOMAIN VALID_TRANSITIONS /\ purchase[p] # NoRow
  BY <1>2, <1>3, TaskFacts, PurchaseTasks DEF TaskInv
<1>5. purchase \in [Purchases -> PurchaseRow \cup {NoRow}] /\ purchase[p] \in PurchaseRow
  BY <1>1, <1>4 DEF WarehouseTypeOK
<1>6. /\ purchase' = [purchase EXCEPT ![p] = row]
      /\ disturbed \subseteq disturbed'
      /\ UNCHANGED <<qty, base, overtaken, stockOut, order>>
  BY <1>5 DEF UpdateStatus, goods
<1>7. /\ row \in PurchaseRow /\ row.item = purchase[p].item /\ row.qty = purchase[p].qty
      /\ row.receipts = purchase[p].receipts
  BY <1>4, <1>5 DEF PurchaseRow
<1>8. row # NoRow
  BY <1>7, NothingAssumption
<1> HIDE DEF p, row
<1>9. \A q \in Purchases : purchase'[q] = IF q = p THEN row ELSE purchase[q]
  BY <1>5, <1>6
<1>10. \A q \in Purchases, i \in Items : Booked(q, i)' = Booked(q, i)
  BY <1>4, <1>7, <1>8, <1>9 DEF Booked, IsOf
<1>11. \A i \in Items : Moved(i)' = Moved(i)
  BY <1>6, <1>10, SameMoved DEF Gone, TakenBy
<1>12. GoneInv'
  BY <1>6 DEF BooksInv, GoneInv
<1>13. QED
  BY <1>6, <1>11, <1>12, UnmovedKeep

(* A receipt adds to the quantity it read what it books.                   *)
LEMMA ReceiveStockKeepsBooks ==
  ASSUME WarehouseInv, WarehouseInv', BooksInv, NEW w \in Workers, ReceiveStock(w)
  PROVE  BooksInv'
<1>1. WarehouseTypeOK /\ WarehouseTypeOK'
  BY DEF WarehouseInv
<1>2. worker[w] # Idle /\ worker[w].step = "receiveStock"
  BY DEF ReceiveStock, At
<1>3. worker[w] \in Tasks /\ TaskInv(worker[w])
  BY <1>1, <1>2, TaskOf DEF WarehouseInv
<1>4. /\ worker[w].purchase \in Purchases /\ worker[w].read \in Nat
      /\ purchase[worker[w].purchase] # NoRow
  BY <1>2, <1>3, TaskFacts, PurchaseTasks DEF TaskInv
<1>5. PICK p \in Purchases, read \in Nat : p = worker[w].purchase /\ read = worker[w].read
  BY <1>4
<1>6. PICK was \in PurchaseRow : was = purchase[p]
  BY <1>1, <1>4, <1>5 DEF WarehouseTypeOK
<1>7. was.item \in Items /\ was.qty \in Quantities \cup {0} /\ was.receipts \in Nat
  BY DEF PurchaseRow
<1>8. PICK j \in Items, n \in Nat : j = was.item /\ n = was.qty
  <2>1. \A m \in Quantities \cup {0} : m \in Nat
    BY WarehouseAssumption
  <2>2. QED
    BY <1>7, <2>1
<1> DEFINE row == [was EXCEPT !.receipts = was.receipts + 1]
<1>9. /\ WriteStock(j, read, read + n)
      /\ purchase' = [purchase EXCEPT ![p].receipts = @ + 1]
      /\ UNCHANGED <<stockOut, order, disturbed>>
  BY <1>5, <1>6, <1>8 DEF ReceiveStock, history
<1>10. \A q \in Purchases : purchase'[q] = IF q = p THEN row ELSE purchase[q]
  BY <1>1, <1>6, <1>9 DEF WarehouseTypeOK
<1>11. /\ row.item = j /\ row.qty = n /\ row.receipts = was.receipts + 1
       /\ row \in PurchaseRow
  BY <1>7, <1>8 DEF PurchaseRow
<1>12. row # NoRow
  BY <1>11, NothingAssumption
<1> HIDE DEF row
<1>13. ASSUME NEW i \in Items PROVE Moved(i)' = Moved(i) + (IF i = j THEN n ELSE 0)
  <2> DEFINE d == IF i = j THEN n ELSE 0
  <2>1. d \in Int
    OBVIOUS
  <2>2. Booked(p, i) = IF j = i THEN was.receipts * n ELSE 0
    BY <1>4, <1>5, <1>6, <1>8 DEF Booked, IsOf
  <2>3. Booked(p, i)' = IF j = i THEN (was.receipts + 1) * n ELSE 0
    BY <1>10, <1>11, <1>12 DEF Booked, IsOf
  <2>4. was.receipts * n \in Nat /\ (was.receipts + 1) * n = was.receipts * n + n
    BY <1>7, OneMore
  <2>5. Booked(p, i)' = Booked(p, i) + d
    BY <2>2, <2>3, <2>4
  <2> HIDE DEF d
  <2>6. Moved(i)' = Moved(i) + d
    BY <1>1, <1>9, <1>10, <2>1, <2>5, PurchaseMoves
  <2>7. QED
    BY <2>6 DEF d
<1>14. \A i \in Items : Moved(i) \in Int
  BY <1>1, MovedIsSum
<1>15. Moved(j)' = Moved(j) + n /\ \A i \in Items : i # j => Moved(i)' = Moved(i)
  BY <1>13, <1>14
<1>16. GoneInv'
  BY <1>9 DEF BooksInv, GoneInv
<1>17. QED
  BY <1>1, <1>9, <1>15, <1>16, WritesKeepBooks

(* An order's other columns move no goods.                                 *)
LEMMA OrderWritesKeepBooks ==
  ASSUME WarehouseInv, BooksInv, NEW w \in Workers, CheckAvailability(w) \/ FinishSubmit(w)
  PROVE  BooksInv'
<1>1. WarehouseTypeOK
  BY DEF WarehouseInv
<1>2. /\ worker[w] # Idle /\ worker[w].step \in {"checkAvailability", "finishSubmit"}
      /\ UNCHANGED <<qty, base, overtaken, stockOut, purchase, disturbed>>
  BY DEF CheckAvailability, FinishSubmit, At, goods, history
<1>3. PICK o \in Orders : o = worker[w].order
  BY <1>1, <1>2, TaskOf, TaskFacts
<1>4. PICK row : /\ order' = [order EXCEPT ![o] = row]
                 /\ \E x : \/ row = [order[o] EXCEPT !.available = x]
                           \/ row = [order[o] EXCEPT !.status = x]
  <2>1. \/ \E x : order' = [order EXCEPT ![o].available = x]
        \/ \E x : order' = [order EXCEPT ![o].status = x]
    BY <1>3 DEF CheckAvailability, FinishSubmit
  <2>2. QED
    BY <1>1, <2>1 DEF WarehouseTypeOK
<1>5. order \in [Orders -> OrderRow] /\ order[o] \in OrderRow
  BY <1>1 DEF WarehouseTypeOK
<1>6. row.item = order[o].item /\ row.taken = order[o].taken
  BY <1>4, <1>5 DEF OrderRow
<1>7. \A r \in Orders : order'[r] = IF r = o THEN row ELSE order[r]
  BY <1>4, <1>5
<1>8. \A r \in Orders, i \in Items : TakenBy(r, i)' = TakenBy(r, i)
  BY <1>6, <1>7 DEF TakenBy
<1>9. \A i \in Items : Moved(i)' = Moved(i)
  BY <1>2, <1>8, SameMoved DEF Booked, Gone
<1>10. GoneInv'
  BY <1>2 DEF BooksInv, GoneInv
<1>11. QED
  BY <1>2, <1>9, <1>10, UnmovedKeep

(* deductStock notes on the order what it takes off the quantity it read.  *)
LEMMA DeductStockKeepsBooks ==
  ASSUME WarehouseInv, WarehouseInv', BooksInv, NEW w \in Workers, DeductStock(w)
  PROVE  BooksInv'
<1>1. WarehouseTypeOK /\ WarehouseTypeOK'
  BY DEF WarehouseInv
<1>2. worker[w] # Idle /\ worker[w].step = "deductStock"
  BY DEF DeductStock, At
<1>3. worker[w].order \in Orders /\ worker[w].read \in Nat /\ worker[w].available \in Nat
  BY <1>1, <1>2, TaskOf, TaskFacts
<1>4. PICK o \in Orders, read \in Nat, available \in Nat :
        o = worker[w].order /\ read = worker[w].read /\ available = worker[w].available
  BY <1>3
<1>5. PICK was \in OrderRow : was = order[o]
  BY <1>1 DEF WarehouseTypeOK
<1>6. was.item \in Items /\ was.taken \in Nat
  BY DEF OrderRow
<1>7. PICK j \in Items, left \in Nat : j = was.item /\ left = Larger(0, read - available)
  <2>1. Larger(0, read - available) \in Nat
    BY DEF Larger
  <2>2. QED
    BY <1>6, <2>1
<1> DEFINE row == [was EXCEPT !.taken = was.taken + read - left]
<1>8. /\ WriteStock(j, read, left)
      /\ order' = [order EXCEPT ![o].taken = @ + read - left]
      /\ UNCHANGED <<stockOut, purchase, disturbed>>
  BY <1>4, <1>5, <1>7 DEF DeductStock, Taken, history
<1>9. \A r \in Orders : order'[r] = IF r = o THEN row ELSE order[r]
  BY <1>1, <1>5, <1>8 DEF WarehouseTypeOK
<1>10. row.item = j /\ row.taken = was.taken + read - left
  BY <1>7 DEF OrderRow
<1> HIDE DEF row
<1>11. ASSUME NEW i \in Items
       PROVE  Moved(i)' = Moved(i) - (IF i = j THEN read - left ELSE 0)
  <2> DEFINE d == IF i = j THEN read - left ELSE 0
  <2>1. d \in Int
    OBVIOUS
  <2>2. TakenBy(o, i) = IF j = i THEN was.taken ELSE 0
    BY <1>5, <1>7 DEF TakenBy
  <2>3. TakenBy(o, i)' = IF j = i THEN was.taken + read - left ELSE 0
    BY <1>9, <1>10 DEF TakenBy
  <2>4. TakenBy(o, i)' = TakenBy(o, i) + d
    BY <1>6, <2>2, <2>3
  <2> HIDE DEF d
  <2>5. Moved(i)' = Moved(i) - d
    BY <1>1, <1>8, <1>9, <2>1, <2>4, OrderMoves
  <2>6. QED
    BY <2>5 DEF d
<1>12. \A i \in Items : Moved(i) \in Int
  BY <1>1, MovedIsSum
<1>13. Moved(j)' = Moved(j) + (left - read)
       /\ \A i \in Items : i # j => Moved(i)' = Moved(i)
  BY <1>11, <1>12
<1>14. left - read \in Int /\ WriteStock(j, read, read + (left - read))
  BY <1>8
<1>15. GoneInv'
  BY <1>8 DEF BooksInv, GoneInv
<1>16. QED
  BY <1>1, <1>13, <1>14, <1>15, WritesKeepBooks

(* A new purchase has not arrived.                                         *)
LEMMA CreateFromOrderKeepsBooks ==
  ASSUME WarehouseInv, BooksInv, NEW w \in Workers, CreateFromOrder(w)
  PROVE  BooksInv'
<1>1. UNCHANGED <<qty, base, overtaken, stockOut, order, disturbed>>
  BY DEF CreateFromOrder, goods, history
<1>2. purchase \in [Purchases -> PurchaseRow \cup {NoRow}]
  BY DEF WarehouseInv, WarehouseTypeOK
<1>3. CASE UNCHANGED purchase
  BY <1>1, <1>3, AwaitsKeepBooks
<1>4. ASSUME NEW p \in Purchases \ Made,
             purchase' = [purchase EXCEPT ![p] = NewPurchase(worker[w])]
      PROVE  BooksInv'
  <2>1. \A q \in Purchases :
          purchase'[q] = IF q = p THEN NewPurchase(worker[w]) ELSE purchase[q]
    BY <1>2, <1>4
  <2>2. purchase[p] = NoRow
    BY DEF Made
  <2>3. NewPurchase(worker[w]).receipts = 0
    BY DEF NewPurchase
  <2>4. NewPurchase(worker[w]).qty \in Nat
    <3>1. worker[w] # Idle /\ worker[w].step = "createPurchase"
      BY DEF CreateFromOrder, At
    <3>2. worker[w].order \in Orders
      BY <3>1, TaskOf, TaskFacts DEF WarehouseInv
    <3>3. order[worker[w].order].qty \in Quantities
      BY <3>2 DEF WarehouseInv, WarehouseTypeOK, OrderRow
    <3>4. QED
      BY <3>3, WarehouseAssumption DEF NewPurchase
  <2>5. NewPurchase(worker[w]).receipts * NewPurchase(worker[w]).qty = 0
    BY <2>3, <2>4
  <2>6. \A q \in Purchases, i \in Items : Booked(q, i)' = Booked(q, i)
    BY <2>1, <2>2, <2>5 DEF Booked, IsOf
  <2>7. \A i \in Items : Moved(i)' = Moved(i)
    BY <1>1, <2>6, SameMoved DEF Gone, TakenBy
  <2>8. GoneInv'
    BY <1>1 DEF BooksInv, GoneInv
  <2>9. QED
    BY <1>1, <2>7, <2>8, UnmovedKeep
<1>5. QED
  BY <1>3, <1>4 DEF CreateFromOrder

-----------------------------------------------------------------------------
(* Every step.                                                             *)

(* Nothing has moved at first.                                             *)
LEMMA BooksInitially == WarehouseInit => BooksInv
<1> SUFFICES ASSUME WarehouseInit PROVE BooksInv
  OBVIOUS
<1>1. /\ qty \in [Items -> Nat] /\ base = qty /\ WarehouseTypeOK
      /\ \A s \in StockOuts : stockOut[s] = NoRow
      /\ \A p \in Purchases : purchase[p] = NoRow
  BY WarehouseInitInv DEF WarehouseInv, WarehouseTypeOK, WarehouseInit
<1>2. \A o \in Orders : order[o].taken = 0
  BY DEF WarehouseInit, NewOrders
<1>3. ASSUME NEW i \in Items PROVE Moved(i) = 0
  <2>1. /\ \A p \in Purchases : BookedOf(i)[p] = 0
        /\ \A s \in StockOuts : GoneOf(i)[s] = 0
        /\ \A o \in Orders : TakenOf(i)[o] = 0
    BY <1>1, <1>2 DEF BookedOf, GoneOf, TakenOf, Booked, Gone, TakenBy, IsOf
  <2>2. /\ BookedOf(i) \in [Purchases -> Int] /\ GoneOf(i) \in [StockOuts -> Int]
        /\ TakenOf(i) \in [Orders -> Int]
    BY <1>1, MovedRows DEF RowsOfIntegers
  <2>3. /\ Sum(BookedOf(i), Purchases) = 0 /\ Sum(GoneOf(i), StockOuts) = 0
        /\ Sum(TakenOf(i), Orders) = 0
    BY <2>1, <2>2, SumOfZeroes, WarehouseAssumption
  <2>4. QED
    BY <1>1, <2>3, MovedIsSum
<1>4. QED
  BY <1>1, <1>3 DEF BooksInv, GoneInv

(* A step of any handler, whatever the others are in the middle of.        *)
LEMMA BooksStepInv ==
  ASSUME WarehouseInv, WarehouseInv', BooksInv, WarehouseNext PROVE BooksInv'
<1>1. PICK w \in Workers :
        \/ AdjustStock(w)
        \/ \E s \in StockOuts, i \in Items, n \in Quantities : CreateStockOut(s, i, n)
        \/ FinishReview(w)
        \/ \E s \in StockOuts : FinanceApprove(w, s)
        \/ UpdateStatus(w)
        \/ ReceiveStock(w)
        \/ CheckAvailability(w) \/ FinishSubmit(w)
        \/ DeductStock(w)
        \/ CreateFromOrder(w)
        \/ \/ \E i \in Items, n \in 0..MaxQty : StartAdjust(w, i, n)
           \/ \E s \in StockOuts, h \in DOMAIN AsksFor, n \in Quantities : StartReview(w, s, h, n)
           \/ \E type \in Documents : ReadCount(w, type)
           \/ GenerateForStockOut(w)
           \/ \E p \in Purchases, to \in DOMAIN VALID_TRANSITIONS : StartUpdateStatus(w, p, to)
           \/ GenerateSuratJalanIn(w)
           \/ ReadForReceipt(w)
           \/ \E o \in Orders, isAdminStock \in BOOLEAN : StartSubmit(w, o, isAdminStock)
           \/ ReadForOrder(w)
           \/ CountForOrder(w)
           \/ GenerateSuratJalanOut(w)
           \/ CountPurchases(w)
           \/ Abandon(w)
  BY DEF WarehouseNext, Documents
<1>2. CASE AdjustStock(w)
  BY <1>2, AdjustKeepsBooks
<1>3. CASE \E s \in StockOuts, i \in Items, n \in Quantities : CreateStockOut(s, i, n)
  BY <1>3, CreateStockOutKeepsBooks
<1>4. CASE FinishReview(w)
  BY <1>4, FinishReviewKeepsBooks
<1>5. CASE \E s \in StockOuts : FinanceApprove(w, s)
  BY <1>5, FinanceApproveKeepsBooks
<1>6. CASE UpdateStatus(w)
  BY <1>6, UpdateStatusKeepsBooks
<1>7. CASE ReceiveStock(w)
  BY <1>7, ReceiveStockKeepsBooks
<1>8. CASE CheckAvailability(w) \/ FinishSubmit(w)
  BY <1>8, OrderWritesKeepBooks
<1>9. CASE DeductStock(w)
  BY <1>9, DeductStockKeepsBooks
<1>10. CASE CreateFromOrder(w)
  BY <1>10, CreateFromOrderKeepsBooks
<1>11. CASE \/ \E i \in Items, n \in 0..MaxQty : StartAdjust(w, i, n)
            \/ \E s \in StockOuts, h \in DOMAIN AsksFor, n \in Quantities : StartReview(w, s, h, n)
            \/ \E type \in Documents : ReadCount(w, type)
            \/ GenerateForStockOut(w)
            \/ \E p \in Purchases, to \in DOMAIN VALID_TRANSITIONS : StartUpdateStatus(w, p, to)
            \/ GenerateSuratJalanIn(w)
            \/ ReadForReceipt(w)
            \/ \E o \in Orders, isAdminStock \in BOOLEAN : StartSubmit(w, o, isAdminStock)
            \/ ReadForOrder(w)
            \/ CountForOrder(w)
            \/ GenerateSuratJalanOut(w)
            \/ CountPurchases(w)
            \/ Abandon(w)
  <2>1. UNCHANGED <<goods, stockOut, purchase, order, disturbed>>
    BY <1>11 DEF StartAdjust, StartReview, ReadCount, GenerateForStockOut, StartUpdateStatus,
       GenerateSuratJalanIn, ReadForReceipt, StartSubmit, ReadForOrder, CountForOrder,
       GenerateSuratJalanOut, CountPurchases, Abandon, rows, history
  <2>2. QED
    BY <2>1, AwaitsKeepBooks DEF goods
<1>12. QED
  BY <1>1, <1>2, <1>3, <1>4, <1>5, <1>6, <1>7, <1>8, <1>9, <1>10, <1>11

(* However many handlers read and write quantities, the quantity of an     *)
(* item none of them overwrote unread is its last count by hand and what   *)
(* was booked, taken out and given to orders since.                        *)
THEOREM QuantitiesAreExplained == WarehouseSpec => []BooksInv
<1>1. WarehouseInv /\ WarehouseInv' /\ BooksInv /\ [WarehouseNext]_warehouseVars => BooksInv'
  <2>1. ASSUME WarehouseInv, WarehouseInv', BooksInv, WarehouseNext PROVE BooksInv'
    BY <2>1, BooksStepInv
  <2>2. ASSUME BooksInv, UNCHANGED warehouseVars PROVE BooksInv'
    BY <2>2, AwaitsKeepBooks DEF warehouseVars, goods, rows, history
  <2>3. QED
    BY <2>1, <2>2
<1>2. QED
  BY <1>1, BooksInitially, WarehouseInvariant, PTL DEF WarehouseSpec

(* At rest, the rows of the documents say what moved.                      *)
LEMMA DocumentsSayWhatMoved ==
  ASSUME WarehouseInv, BooksInv, disturbed = {}, lost = {},
         \A w \in Workers : worker[w] = Idle, NEW i \in Items
  PROVE  Documented(i) = Moved(i)
<1>1. WarehouseTypeOK
  BY DEF WarehouseInv
<1>2. ASSUME NEW p \in Purchases PROVE Received(p, i) = Booked(p, i)
  <2>1. CASE purchase[p] # NoRow
    <3>1. \A w \in Workers : ~Receiving(w, p)
      BY DEF Receiving
    <3>2. purchase[p].receipts = IF purchase[p].status = "RECEIVED" THEN 1 ELSE 0
      BY <2>1, <3>1 DEF WarehouseInv, PurchasesInv, Arrives
    <3>3. purchase[p].qty \in Quantities \cup {0}
      BY <1>1, <2>1 DEF WarehouseTypeOK, PurchaseRow
    <3>4. \A n \in Quantities \cup {0} : 1 * n = n /\ 0 * n = 0
      BY WarehouseAssumption
    <3>5. QED
      BY <2>1, <3>2, <3>3, <3>4 DEF Received, Booked, IsOf
  <2>2. QED
    BY <2>1 DEF Received, Booked, IsOf
<1>3. ASSUME NEW s \in StockOuts PROVE Fulfilled(s, i) = Gone(s, i)
  BY DEF BooksInv, GoneInv, GoneFits, Fulfilled, Gone, IsOf
<1>4. QED
  BY <1>2, <1>3 DEF Documented, Moved

(* StockService, StockOutService, PurchaseRequestService and submit: when  *)
(* nobody is at work, and no two handlers overtook each other, quantities  *)
(* are what the documents say, for any items, requests and handlers.       *)
THEOREM StockIsWhatTheDocumentsSay == WarehouseSpec => []StockMatchesDocuments
<1>1. WarehouseInv /\ BooksInv => StockMatchesDocuments
  <2> SUFFICES ASSUME WarehouseInv, BooksInv, NEW i \in Items \ overtaken, disturbed = {},
                      lost = {}, \A w \in Workers : worker[w] = Idle
               PROVE  qty[i] = base[i] + Documented(i)
    BY DEF StockMatchesDocuments
  <2>1. Documented(i) = Moved(i)
    BY DocumentsSayWhatMoved
  <2>2. QED
    BY <2>1 DEF BooksInv
<1>2. QED
  BY <1>1, WarehouseInvariant, QuantitiesAreExplained, PTL
=============================================================================
