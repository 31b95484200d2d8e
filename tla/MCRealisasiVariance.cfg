\* A report below the granted amount, handlers one at a time
CONSTANTS
  p1 = p1
  p2 = p2
  Null = Null
  NoRow = NoRow
  Projects = {p1}
  FtttProjects = {}
  NumOrders = 0
  NumCashOps = 2
  Advances = {1, 2}
  Amounts = {1, 2}
  Budgets <- MCBudgets
  MaxTotal = 3
  ChargedProject <- MCChargedProject
  Requester <- MCRequester
  HighAmount = 1
  MaxInFlight = 1
  MaxRequests = 1
SPECIFICATION RealisasiSpec
INVARIANTS
  VarianceIsReturned
CHECK_DEADLOCK FALSE
