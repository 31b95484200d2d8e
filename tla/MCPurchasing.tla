---------------------------- MODULE MCPurchasing ----------------------------
(* Orders of one project and their papers.  A behaviour is about one order *)
(* with every handler of OrderProcurement, or about the papers of two.     *)
EXTENDS PurchasePapers, TLC

CONSTANT p1

MCBudgets == { [total |-> 3, material |-> Null, jasa |-> Null] }

MCProjectOf == [o \in Orders |-> p1]

DeskSymmetry == Permutations(Desks)

(* Bounds.  The second order is a restock whose papers are all that is     *)
(* looked at; a behaviour draws up purchase orders or writes invoices; as  *)
(* long as it does, the first order stays between its price and its        *)
(* payment, and the one handler that may be late for it is gmReject.       *)
Waits(o) == order[o] = NewOrder("PENDING_PURCHASING_INPUT", "STOCK_RESTOCK")

Priced(o) ==
  /\ order[o].trigger = "STOCK_RESTOCK" /\ order[o].suratJalan = "NONE"
  /\ ~order[o].verified /\ order[o].arrivals = 0
  /\ order[o].status \in
       {"PENDING_PURCHASING_INPUT", "PENDING_GM_APPROVAL", "PENDING_PAYMENT_RECEIPT",
        "PURCHASED", "CANCELLED"}

NoPapers ==
  /\ \A d \in Desks : desk[d] = NoTask \/ desk[d].do = "check"
  /\ \A o \in Orders : po[o] = 0 /\ invoice[o] = NoPaper
  /\ \A n \in Numbers : shelf[n] = NoPaper

OneOrder ==
  /\ Waits(2) /\ NoPapers
  /\ \A d \in Desks : desk[d] # NoTask => order[1].status = "PENDING_PAYMENT_RECEIPT"

OnlyInvoices ==
  /\ po[1] = 0 /\ Waits(2) /\ Priced(1) /\ inFlight = {} /\ disturbed = {} /\ order[1].amount < 2
  /\ \A d \in Desks : desk[d] = NoTask \/ desk[d].do \in InvoiceSteps \cup {"check"}

OnlyPurchaseOrders ==
  /\ Priced(1) /\ Priced(2) /\ order[2].amount < 2
  /\ \A o \in Orders : invoice[o] = NoPaper
  /\ Cardinality(inFlight) <= 1
  /\ \A i \in inFlight : i.handler = "gmReject" /\ i.order = 1
  /\ ~Waits(2) => inFlight = {} /\ disturbed = {}

PurchaseBounds == OneOrder \/ OnlyInvoices \/ OnlyPurchaseOrders
=============================================================================
