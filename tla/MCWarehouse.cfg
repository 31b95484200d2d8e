\* Warehouse with two workers
CONSTANTS
  item = item
  out = out
  draft = draft
  pr1 = pr1
  w1 = w1
  w2 = w2
  NoRow = NoRow
  Idle = Idle
  Items <- MCItems
  StockOuts <- MCStockOuts
  Orders <- MCOrders
  Purchases <- MCPurchases
  Workers <- MCWorkers
  Quantities <- MCQuantities
  MaxQty = 1
  MaxDocuments <- MCMaxDocuments
  MaxOuts = 2
  MaxTaken = 2
CONSTRAINT OneSide
SYMMETRY MCSymmetry
SPECIFICATION WarehouseSpec
INVARIANTS
  StockMatchesDocuments
  GoodsLeaveAsApproved
  PurchasesArrive
