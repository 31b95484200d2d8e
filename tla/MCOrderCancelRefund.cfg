\* A rejection overtaken by the approval it competes with
CONSTANTS
  p1 = p1
  Null = Null
  NoRow = NoRow
  Projects = {p1}
  FtttProjects = {}
  NumOrders = 1
  NumCashOps = 0
  Advances = {}
  Amounts = {1, 2}
  Budgets <- MCBudgets
  MaxTotal = 3
  ProjectOf <- MCProjectOf
  MaxInFlight = 2
SPECIFICATION OrderSpec
INVARIANTS
  CancelledIsRefunded
CHECK_DEADLOCK FALSE
