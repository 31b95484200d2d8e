\* Conflicting transactions on two project rows, and their end
CONSTANTS
  p1 = p1
  p2 = p2
  approve = approve
  approveAgain = approveAgain
  cancel = cancel
  advance = advance
  settle = settle
  out = out
  back = back
  adjust = adjust
  Null = Null
  NoRow = NoRow
  NoSnapshot = NoSnapshot
  Projects = {p1, p2}
  FtttProjects = {}
  NumOrders = 1
  NumCashOps = 1
  Advances = {1}
  Amounts = {1, 2}
  Budgets <- MCBudgets
  MaxTotal = 9
  Requests <- MCRequests
  Batches <- MCBatches
  job <- MCJob
  LockOrder <- MCLockOrder
  MaxRetries = 1
SPECIFICATION TxSpec
INVARIANTS
  LockedRowIsCurrent
  NoUniqueConflict
PROPERTIES
  LedgerSpec
  EveryRequestEnds
CHECK_DEADLOCK FALSE
