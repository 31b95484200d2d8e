\* Two orders, their purchase orders and invoices, two desks
CONSTANTS
  p1 = p1
  Null = Null
  NoRow = NoRow
  Projects = {p1}
  FtttProjects = {}
  NumOrders = 2
  NumCashOps = 0
  Advances = {}
  Amounts = {1, 2}
  Budgets <- MCBudgets
  MaxTotal = 3
  ProjectOf <- MCProjectOf
  MaxInFlight = 2
  Desks = {d1, d2}
  MaxNumber = 4
  NoPaper = NoPaper
  NoTask = NoTask
SPECIFICATION PurchaseSpec
SYMMETRY DeskSymmetry
CONSTRAINT PurchaseBounds
INVARIANTS
  StatusMatchesLedger
  PaidOrdersWereCharged
  GoodsArriveOnce
  PosShowTheCharge
  InvoicesAgreedAsMailed
CHECK_DEADLOCK FALSE
