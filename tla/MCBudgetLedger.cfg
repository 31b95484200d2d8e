\* BudgetLedger on two projects, one order and two cash operations
CONSTANTS
  p1 = p1
  p2 = p2
  Null = Null
  NoRow = NoRow
  Projects = {p1, p2}
  FtttProjects = {p2}
  NumOrders = 1
  NumCashOps = 2
  Advances = {1}
  Amounts <- MCAmounts
  Budgets <- MCBudgets
  MaxTotal = 3
SPECIFICATION LedgerSpec
INVARIANTS
  TypeOK
  SpentMatchesLedger
  OverbudgetInSync
  LinesWithinTotal
