\* Warehouse with one worker: nothing races the submission
CONSTANTS
  item = item
  out = out
  draft = draft
  pr1 = pr1
  w1 = w1
  w2 = w2
  NoRow = NoRow
  Idle = Idle
  Items <- MCItems
  StockOuts <- MCStockOuts
  Orders <- MCOrders
  Purchases <- MCPurchases
  Workers = {w1}
  Quantities <- MCQuantities
  MaxQty = 1
  MaxDocuments <- MCMaxDocuments
  MaxOuts = 2
  MaxTaken = 2
CONSTRAINT OneSide
SPECIFICATION WarehouseSpec
INVARIANTS SubmittedGoodsLeft
