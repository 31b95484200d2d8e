--------------------------- MODULE PurchasePapers ---------------------------
(***************************************************************************)
(* What goes to the supplier of an order: PoGenerationService, started by  *)
(* gmApprove once its transaction is over, and SupplierInvoiceService.     *)
(*                                                                         *)
(* Only upload of an invoice is a transaction.  A purchase order is        *)
(* numbered, stored as a file named after its number and recorded in three *)
(* steps; an invoice is read, mailed and only then marked as sent.  A task *)
(* is a handler between two of its steps, with what it read; it is late    *)
(* (a history field) once the invoice it read has changed.                 *)
(***************************************************************************)
EXTENDS OrderProcurement

CONSTANTS
  Desks,      \* bound: handlers of these papers at work at once
  MaxNumber,  \* bound: the highest number of a purchase order
  NoPaper,
  NoTask

VARIABLES
  po,         \* poNumber of each order, 0 before it has one
  shelf,      \* the file stored under each number
  invoice,    \* the SupplierInvoice of each order
  posted,     \* the purchase order last queued for each order's supplier
  billed,     \* the amount last queued for each order's supplier, 0 before
  desk,       \* the task of each desk
  contested,  \* history: orders whose number two of them drew at once
  overtaken   \* history: invoices a late task mailed or wrote

paperVars == <<po, shelf, invoice, posted, billed, desk, contested, overtaken>>
purchaseVars == <<vars, paperVars>>

Numbers == 1..MaxNumber

Pdf == [order : Orders, amount : Nat]

InvoiceStatuses ==
  {"DRAFT", "SENT_TO_SUPPLIER", "APPROVED_BY_SUPPLIER", "REJECTED_BY_SUPPLIER"}

Invoice == [amount : Amounts, status : InvoiceStatuses]

ASSUME PaperAssumption == MaxNumber \in Nat /\ NoPaper \notin Invoice

PoSteps == {"check", "build", "number", "store", "record"}
InvoiceSteps == {"update", "mail", "sent", "ack", "reject"}

Draft == [number : Numbers \cup {0}, amount : Nat]

Task ==
  [do : PoSteps, order : Orders, read : Draft]
    \cup [do : InvoiceSteps, order : Orders, read : Amounts, late : BOOLEAN]

PaperInit ==
  /\ po = [o \in Orders |-> 0]
  /\ shelf = [n \in Numbers |-> NoPaper]
  /\ invoice = [o \in Orders |-> NoPaper]
  /\ posted = [o \in Orders |-> NoPaper]
  /\ billed = [o \in Orders |-> 0]
  /\ desk = [d \in Desks |-> NoTask]
  /\ contested = {}
  /\ overtaken = {}

Take(d, task) == desk[d] = NoTask /\ desk' = [desk EXCEPT ![d] = task]

GoesTo(d, step) == desk' = [desk EXCEPT ![d].do = step]

Done(d) == desk' = [desk EXCEPT ![d] = NoTask]

At(d, step) == desk[d] # NoTask /\ desk[d].do = step

-----------------------------------------------------------------------------
(* generateAndStorePo.  Its caller only logs what goes wrong in it, and    *)
(* nobody calls it again.                                                  *)

NothingDrafted == [number |-> 0, amount |-> 0]

BeginPo(d, o) ==
  /\ Take(d, [do |-> "check", order |-> o, read |-> NothingDrafted])
  /\ UNCHANGED <<po, shelf, invoice, posted, billed, contested, overtaken>>

(* An order that has a purchase order keeps it.                            *)
CheckPo(d) ==
  /\ At(d, "check")
  /\ IF po[desk[d].order] # 0 THEN Done(d) ELSE GoesTo(d, "build")
  /\ UNCHANGED <<po, shelf, invoice, posted, billed, contested, overtaken>>

(* buildPoPdf reads the order again and refuses one that is not approved   *)
(* any more.                                                               *)
BuildPo(d) ==
  LET o == desk[d].order IN
  /\ At(d, "build")
  /\ IF order[o].status \in {"PENDING_PAYMENT_RECEIPT", "PURCHASED"}
     THEN desk' = [desk EXCEPT ![d].do = "number",
                               ![d].read = [number |-> po[o],
                                            amount |-> order[o].amount]]
     ELSE Done(d)
  /\ UNCHANGED <<po, shelf, invoice, posted, billed, contested, overtaken>>

(* Mutant: the numbers of cancelled orders are not seen.                   *)
LastNumberInUse ==
  CHOOSE n \in Numbers \cup {0} :
    /\ n = 0 \/ \E o \in Orders : po[o] = n /\ order[o].status # "CANCELLED"
    /\ \A o \in Orders : order[o].status # "CANCELLED" => po[o] <= n

LastNumber ==
  CHOOSE n \in Numbers \cup {0} :
    (n = 0 \/ \E o \in Orders : po[o] = n) /\ \A o \in Orders : po[o] <= n

(* A generation of order o has drawn n and not recorded it yet.            *)
Drew(o, n) ==
  \E e \in Desks :
    /\ At(e, "store") \/ At(e, "record")
    /\ desk[e].order = o /\ desk[e].read.number = n

(* Who draws number n at the same time as a task on order o.  The number o *)
(* already had (own) was read some steps ago: o may have lost it, and      *)
(* another order recorded it, since.                                       *)
Rivals(o, own, n) ==
  {x \in Orders \ {o} : Drew(x, n) \/ (own # 0 /\ po[x] = n)}

NumberPo(d) ==
  LET o == desk[d].order
      own == desk[d].read.number
      n == IF own # 0 THEN own ELSE LastNumber + 1 IN
  /\ At(d, "number")
  /\ n <= MaxNumber
  /\ desk' = [desk EXCEPT ![d].do = "store", ![d].read.number = n]
  /\ contested' = IF Rivals(o, own, n) = {} THEN contested
                  ELSE contested \cup Rivals(o, own, n) \cup {o}
  /\ UNCHANGED <<po, shelf, invoice, posted, billed, overtaken>>

(* uploadBuffer replaces what was stored under that name.                  *)
StorePo(d) ==
  LET task == desk[d] IN
  /\ At(d, "store")
  /\ shelf' = [shelf EXCEPT
       ![task.read.number] = [order |-> task.order, amount |-> task.read.amount]]
  /\ GoesTo(d, "record")
  /\ UNCHANGED <<po, invoice, posted, billed, contested, overtaken>>

(* poNumber is unique: when another order has it, the update fails and the *)
(* file of that name, whosever it is by then, is deleted.                  *)
RecordPo(d) ==
  LET o == desk[d].order
      n == desk[d].read.number IN
  /\ At(d, "record")
  /\ IF \E other \in Orders \ {o} : po[other] = n
     THEN shelf' = [shelf EXCEPT ![n] = NoPaper] /\ UNCHANGED po
     ELSE po' = [po EXCEPT ![o] = n] /\ UNCHANGED shelf
  /\ Done(d)
  /\ UNCHANGED <<invoice, posted, billed, contested, overtaken>>

(* sendPoEmail never asks for the order's status; without the file there   *)
(* is nothing to send.                                                     *)
SendPoEmail(o) ==
  /\ po[o] # 0
  /\ shelf[po[o]] # NoPaper
  /\ posted' = [posted EXCEPT ![o] = shelf[po[o]]]
  /\ UNCHANGED <<po, shelf, invoice, billed, desk, contested, overtaken>>

-----------------------------------------------------------------------------
(* SupplierInvoiceService.                                                 *)

UploadInvoice(o, amount) ==
  /\ order[o].status \in {"PENDING_PAYMENT_RECEIPT", "PURCHASED"}
  /\ invoice[o] = NoPaper
  /\ invoice' = [invoice EXCEPT ![o] = [amount |-> amount, status |-> "DRAFT"]]
  /\ UNCHANGED <<po, shelf, posted, billed, desk, contested, overtaken>>

(* The status each handler asks for, and the step it goes on with.         *)
InvoiceHandlers ==
  { [step |-> "update", from |-> {"DRAFT", "REJECTED_BY_SUPPLIER"}],
    [step |-> "mail", from |-> {"DRAFT"}],
    [step |-> "ack", from |-> {"SENT_TO_SUPPLIER"}],
    [step |-> "reject", from |-> {"SENT_TO_SUPPLIER"}] }

StartInvoice(d, h, o) ==
  /\ invoice[o] # NoPaper
  /\ invoice[o].status \in h.from
  /\ Take(d, [do |-> h.step, order |-> o, read |-> invoice[o].amount,
                 late |-> FALSE])
  /\ UNCHANGED <<po, shelf, invoice, posted, billed, contested, overtaken>>

Overtaken(d) ==
  IF desk[d].late THEN overtaken \cup {desk[d].order} ELSE overtaken

(* The last step of task d; other tasks on the invoice are late from now   *)
(* on, if this changes it.                                                 *)
WriteInvoice(d, row) ==
  LET o == desk[d].order
      Also(e) == /\ desk[e] # NoTask /\ desk[e].do \in InvoiceSteps
                 /\ desk[e].order = o /\ row # invoice[o] IN
  /\ invoice' = [invoice EXCEPT ![o] = row]
  /\ overtaken' = Overtaken(d)
  /\ desk' = [e \in Desks |-> CASE e = d -> NoTask
                             [] e # d /\ Also(e) -> [desk[e] EXCEPT !.late = TRUE]
                             [] OTHER -> desk[e]]
  /\ UNCHANGED <<po, shelf, posted, billed, contested>>

(* Mutant: correcting a refused invoice counts as sending it again.        *)
UpdateInvoiceInPlace(d) ==
  LET row == invoice[desk[d].order] IN
  /\ At(d, "update")
  /\ \E a \in Amounts :
       WriteInvoice(d, [amount |-> a,
         status |-> IF row.status = "DRAFT" THEN "DRAFT" ELSE "SENT_TO_SUPPLIER"])

(* update: an edited invoice is a draft again.                             *)
UpdateInvoice(d) ==
  /\ At(d, "update")
  /\ \E a \in Amounts \cup {invoice[desk[d].order].amount} :
       WriteInvoice(d, [amount |-> a, status |-> "DRAFT"])

(* sendToSupplier queues the mail with the amount it read ...              *)
MailInvoice(d) ==
  /\ At(d, "mail")
  /\ billed' = [billed EXCEPT ![desk[d].order] = desk[d].read]
  /\ overtaken' = Overtaken(d)
  /\ GoesTo(d, "sent")
  /\ UNCHANGED <<po, shelf, invoice, posted, contested>>

(* ... and then writes the status of whatever the row says by now.         *)
MarkSent(d) ==
  /\ At(d, "sent")
  /\ WriteInvoice(d, [invoice[desk[d].order] EXCEPT !.status = "SENT_TO_SUPPLIER"])

MarkSupplierAck(d) ==
  /\ At(d, "ack")
  /\ WriteInvoice(d, [invoice[desk[d].order] EXCEPT !.status = "APPROVED_BY_SUPPLIER"])

MarkSupplierReject(d) ==
  /\ At(d, "reject")
  /\ WriteInvoice(d, [invoice[desk[d].order] EXCEPT !.status = "REJECTED_BY_SUPPLIER"])

(* An error or a crash between two steps: nobody resumes the handler.      *)
AbandonPaper(d) ==
  /\ desk[d] # NoTask
  /\ Done(d)
  /\ UNCHANGED <<po, shelf, invoice, posted, billed, contested, overtaken>>

-----------------------------------------------------------------------------
PaperStep ==
  \/ \E o \in Orders :
       \/ SendPoEmail(o)
       \/ \E a \in Amounts : UploadInvoice(o, a)
       \/ \E d \in Desks, h \in InvoiceHandlers : StartInvoice(d, h, o)
  \/ \E d \in Desks :
       \/ CheckPo(d)
       \/ BuildPo(d)
       \/ NumberPo(d)
       \/ StorePo(d)
       \/ RecordPo(d)
       \/ UpdateInvoice(d)
       \/ MailInvoice(d)
       \/ MarkSent(d)
       \/ MarkSupplierAck(d)
       \/ MarkSupplierReject(d)
       \/ AbandonPaper(d)

(* gmApprove, and the purchase order it starts.                            *)
GmApproveWithPo(o, d) == GmApprove(o) /\ BeginPo(d, o)

PurchaseInit == OrderInit /\ PaperInit

PurchaseNext ==
  \/ \E o \in Orders, d \in Desks : GmApproveWithPo(o, d)
  \/ OrderStep /\ UNCHANGED paperVars
  \/ PaperStep /\ UNCHANGED vars

PurchaseSpec == PurchaseInit /\ [][PurchaseNext]_purchaseVars

-----------------------------------------------------------------------------
(* Every variable has its type.                                            *)
PurchaseTypeOK ==
  /\ OrderTypeOK
  /\ po \in [Orders -> Numbers \cup {0}]
  /\ shelf \in [Numbers -> Pdf \cup {NoPaper}]
  /\ invoice \in [Orders -> Invoice \cup {NoPaper}]
  /\ posted \in [Orders -> Pdf \cup {NoPaper}]
  /\ billed \in [Orders -> Amounts \cup {0}]
  /\ desk \in [Desks -> Task \cup {NoTask}]
  /\ contested \subseteq Orders /\ overtaken \subseteq Orders

(* A supplier is sent purchase orders only for what a project was charged. *)
(* As long as no late rejection reopened the order and no other order drew *)
(* its number, the file behind the order's number is there, is this        *)
(* order's, and shows its amount, whatever was cancelled or crashed.       *)
PosShowTheCharge ==
  \A o \in Orders :
    /\ posted[o] # NoPaper /\ posted[o].amount > 0 =>
         deductMaterial[posted[o].order] # NoRow
    /\ po[o] # 0 /\ o \notin disturbed \cup contested =>
         shelf[po[o]] = [order |-> o, amount |-> order[o].amount]

(* What the supplier is said to have received or agreed to was mailed to   *)
(* it, and, unless it was edited or sent while a handler was at it, is     *)
(* what the mail said, over any number of refusals, edits and crashes      *)
(* between the mail and its mark.                                          *)
InvoicesAgreedAsMailed ==
  \A o \in Orders :
    invoice[o] # NoPaper /\ invoice[o].status # "DRAFT" =>
      /\ billed[o] # 0
      /\ invoice[o].status \in {"SENT_TO_SUPPLIER", "APPROVED_BY_SUPPLIER"}
         /\ o \notin overtaken => billed[o] = invoice[o].amount
=============================================================================
