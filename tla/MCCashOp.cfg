\* Advances, reimbursements and reports, two handlers overlapping
CONSTANTS
  p1 = p1
  p2 = p2
  Null = Null
  NoRow = NoRow
  Projects = {p1, p2}
  FtttProjects = {p2}
  NumOrders = 0
  NumCashOps = 5
  Advances = {1, 2, 3}
  Amounts = {1, 2, 3}
  Budgets <- MCBudgets
  MaxTotal = 3
  ChargedProject <- MCChargedProject
  Requester <- MCRequester
  HighAmount = 1
  MaxInFlight = 2
  MaxRequests = 1
SPECIFICATION RealisasiSpec
CONSTRAINT ReportBounds
INVARIANTS
  ChargedAsApproved
  StepsInOrder
  ApprovedWithinRequest
  HighAmountsPassTheGM
  GrantedWasCharged
  ReviewedInTurn
  ReportsKeepTheCharge
CHECK_DEADLOCK FALSE
