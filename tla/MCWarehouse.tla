----------------------------- MODULE MCWarehouse -----------------------------
(* One item, two workers, and either a stock-out or an order with up to    *)
(* a purchase, of one piece, counted by hand before the first document:    *)
(* OneSide names this bound.                                               *)
EXTENDS Warehouse, TLC

CONSTANTS item, out, draft, pr1, w1, w2

MCItems == {item}
MCStockOuts == {out}
MCOrders == {draft}
MCPurchases == {pr1}
MCWorkers == {w1, w2}
MCQuantities == {1, 2}
MCMaxDocuments == [SJ_OUT |-> 1, SJ_IN |-> 2]
OneSide ==
  /\ \A o \in Orders : order[o].qty = 1
  /\ \/ \A s \in StockOuts : stockOut[s] = NoRow
     \/ /\ \A o \in Orders : order[o].status = "DRAFT" /\ order[o].available = 0
                            /\ ~ order[o].freeText
        /\ \A p \in Purchases : purchase[p] = NoRow
        /\ \A w \in Workers : worker[w] # Idle => "order" \notin DOMAIN worker[w]
  /\ \A w \in Workers : worker[w] # Idle /\ worker[w].step = "adjust" =>
       documents.SJ_OUT = 0 /\ documents.SJ_IN = 0

MCSymmetry == Permutations(MCWorkers)
=============================================================================
