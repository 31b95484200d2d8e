\* A rejection sends an order back to the start of its chain
CONSTANTS
  p1 = p1
  Null = Null
  NoRow = NoRow
  Projects = {p1}
  FtttProjects = {}
  NumOrders = 1
  NumCashOps = 0
  Advances = {}
  Amounts = {1, 2}
  Budgets <- MCBudgets
  MaxTotal = 3
  ProjectOf <- MCProjectOf
  MaxInFlight = 2
SPECIFICATION OrderSpec
PROPERTIES
  RejectionsAreMarked
CHECK_DEADLOCK FALSE
