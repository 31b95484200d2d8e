\* FinanceProjects on a segment and its site
CONSTANTS
  seg = seg
  site = site
  Null = Null
  NoRow = NoRow
  Keep = Keep
  Projects <- MCProjects
  FtttProjects <- MCProjects
  NumOrders = 1
  NumCashOps = 0
  Advances = {}
  Amounts <- MCAmounts
  Budgets <- MCBudgets
  MaxTotal = 3
  Level <- MCLevel
  Parent <- MCParent
  General = {}
  Openings <- MCOpenings
  BudgetRequests <- MCBudgetRequests
  NumTransfers = 2
  TransferRequests <- MCTransferRequests
  MaxInFlight = 2
SPECIFICATION FinanceSpec
INVARIANTS
  FinanceTypeOK
  BudgetExplained
PROPERTIES
  ArchivedBudgetKept
  TransfersAreApprovals
