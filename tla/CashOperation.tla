--------------------------- MODULE CashOperation ---------------------------
(***************************************************************************)
(* CashOperationService: a cash advance or a reimbursement from its draft  *)
(* through its chain of approvers to the final approval, which charges the *)
(* finance project.  What follows for an advance is CashOpRealisasi.       *)
(*                                                                         *)
(* Every handler reads the request, checks what it read and then writes by *)
(* id: submit, reject, update and repairApprovalFromChain in a batch,      *)
(* approve in a serializable transaction that does not look at the         *)
(* request's status again.  Between read and write anything may happen;    *)
(* only a decision on a step whose row was deleted in the meantime fails.  *)
(***************************************************************************)
EXTENDS BudgetLedger, Sequences, FiniteSets

CONSTANTS
  ChargedProject,   \* the project each cash operation names, or GENERAL
  Requester,        \* the role of its requester
  HighAmount,       \* above this amount the GM is part of the chain
  MaxInFlight,      \* bound: handlers between their read and their write
  MaxRequests       \* bound: cash operations created

ASSUME CashOperationAssumption ==
  /\ ChargedProject \in [1..NumCashOps -> Projects]
  /\ HighAmount \in Nat
  /\ MaxInFlight \in Nat /\ MaxRequests \in Nat

VARIABLES
  request,     \* the CashOperationRequest rows
  steps,       \* their CashOpApprovalStep rows, by stepOrder
  inFlight,    \* handlers that passed their checks and have not written yet
  disturbed    \* history: requests written by a handler that had read less

requestVars == <<request, steps, inFlight, disturbed>>

-----------------------------------------------------------------------------
(* buildApprovalChain, without the submitter at its head.                  *)

Desk == <<"ADMIN", "OPERATIONAL_MANAGER", "FINANCE">>

FirstApprover ==
  [ SURVEYOR_FTTH |-> "PM_FTTH", SURVEYOR_FTTB |-> "PM_FTTB",
    SURVEYOR_FTTT |-> "PM_FTTT", MARKETING |-> "MARKETING_HEAD",
    DESIGNER |-> "PM_SENIOR" ]

WithGM(chain, amount) ==
  IF amount <= HighAmount THEN chain
  ELSE SubSeq(chain, 1, Len(chain) - 1) \o <<"GENERAL_MANAGER", "FINANCE">>

Chain(role, amount) ==
  CASE role = "OPERATIONAL_MANAGER" -> <<"GENERAL_MANAGER", "FINANCE">>
    [] role = "FINANCE" -> <<"OPERATIONAL_MANAGER", "GENERAL_MANAGER">>
    [] role = "GENERAL_MANAGER" -> <<"FINANCE">>
    [] role \in {"ADMIN", "ADMIN_STOCK"} ->
         WithGM(<<"OPERATIONAL_MANAGER", "FINANCE">>, amount)
    [] role \in DOMAIN FirstApprover ->
         WithGM(<<FirstApprover[role]>> \o Desk, amount)
    [] OTHER -> WithGM(Desk, amount)

PendingSteps(chain) ==
  [k \in DOMAIN chain |-> [role |-> chain[k], status |-> "PENDING", amount |-> 0]]

-----------------------------------------------------------------------------
RealisasiRoles ==
  {"OPERATIONAL_MANAGER", "MARKETING_HEAD", "FINANCE", "GENERAL_MANAGER"}

PendingStatus ==
  [ OPERATIONAL_MANAGER |-> "REALISASI_PENDING_OPS",
    MARKETING_HEAD |-> "REALISASI_PENDING_MARKETING_HEAD",
    FINANCE |-> "REALISASI_PENDING_FINANCE",
    GENERAL_MANAGER |-> "REALISASI_PENDING_GM" ]

RejectedStatus ==
  [ OPERATIONAL_MANAGER |-> "REALISASI_REJECTED_BY_OPS",
    MARKETING_HEAD |-> "REALISASI_REJECTED_BY_MARKETING_HEAD",
    FINANCE |-> "REALISASI_REJECTED_BY_FINANCE",
    GENERAL_MANAGER |-> "REALISASI_REJECTED_BY_GM" ]

InRealisasi ==
  {"REALISASI_IN_PROGRESS"} \cup {PendingStatus[r] : r \in RealisasiRoles}
    \cup {RejectedStatus[r] : r \in RealisasiRoles}

InApproval == {"SUBMITTED", "IN_REVIEW"}

Statuses ==
  {"NONE", "DRAFT", "REJECTED", "APPROVED", "REALISASI_DONE"}
    \cup InApproval \cup InRealisasi

RequestRow ==
  [ status : Statuses, amount : Nat,
    currentStep : Nat,                     \* 0, or an index into steps
    finalAmount : Nat,                     \* 0 before the final approval
    realisasi : {"NONE", "DRAFT", "PENDING", "REJECTED", "DONE"},
    realisasiTotal : Nat,
    turn : RealisasiRoles \cup {Null} ]    \* realisasiCurrentStepRole

Approvers ==
  { "PM_FTTH", "PM_FTTB", "PM_FTTT", "MARKETING_HEAD", "PM_SENIOR", "ADMIN",
    "OPERATIONAL_MANAGER", "FINANCE", "GENERAL_MANAGER" }

StepRow ==
  [ role : Approvers, status : {"PENDING", "APPROVED", "REJECTED"}, amount : Nat ]

NoRequest ==
  [ status |-> "NONE", amount |-> 0, currentStep |-> 0, finalAmount |-> 0,
    realisasi |-> "NONE", realisasiTotal |-> 0, turn |-> Null ]

RequestInit ==
  /\ request = [c \in CashOps |-> NoRequest]
  /\ steps = [c \in CashOps |-> <<>>]
  /\ inFlight = {}
  /\ disturbed = {}

-----------------------------------------------------------------------------
(* A handler in flight remembers what it will use of what it read, whether *)
(* the request is still as it read it, and whether the step row it decides *)
(* on still exists.  A number tells equal handlers apart.                  *)

Handler(h, c, step, amount, chain) ==
  [ number |-> CHOOSE n \in 1..MaxInFlight :
                 \A i \in inFlight : i.handler = h /\ i.cashOp = c => i.number # n,
    handler |-> h, cashOp |-> c, step |-> step, amount |-> amount,
    chain |-> chain, fresh |-> TRUE, live |-> TRUE ]

StartHandler(h, c, step, amount, chain) ==
  /\ Cardinality(inFlight) < MaxInFlight
  /\ inFlight' = inFlight \cup {Handler(h, c, step, amount, chain)}
  /\ UNCHANGED <<ledgerVars, request, steps, disturbed>>

Others(i) == inFlight \ {i}

(* Handlers in flight when the row of c is written, and its steps deleted. *)
Overtaken(handlers, c) ==
  {[k EXCEPT !.fresh = @ /\ k.cashOp # c] : k \in handlers}

WithoutSteps(handlers, c) ==
  {[k EXCEPT !.live = @ /\ k.cashOp # c] : k \in handlers}

WriteRow(i, row) ==
  /\ request' = [request EXCEPT ![i.cashOp] = row]
  /\ disturbed' = IF i.fresh THEN disturbed ELSE disturbed \cup {i.cashOp}

WriteRequest(i, row) ==
  /\ WriteRow(i, row)
  /\ inFlight' = Overtaken(Others(i), i.cashOp)

WriteRequestAndSteps(i, row, newSteps) ==
  /\ WriteRow(i, row)
  /\ steps' = [steps EXCEPT ![i.cashOp] = newSteps]
  /\ inFlight' = WithoutSteps(Overtaken(Others(i), i.cashOp), i.cashOp)

-----------------------------------------------------------------------------
Create(c, amount) ==
  /\ request[c].status = "NONE"
  /\ Cardinality({d \in CashOps : request[d].status # "NONE"}) < MaxRequests
  /\ request' = [request EXCEPT ![c].status = "DRAFT", ![c].amount = amount]
  /\ UNCHANGED <<ledgerVars, steps, inFlight, disturbed>>

(* The step an approver decides on: approve looks for the pending row of   *)
(* the role whose turn it is, whatever the request's status.               *)
TurnOf(row) == IF row.currentStep > 0 THEN row.currentStep ELSE 1

AwaitsDecision(c) ==
  LET k == TurnOf(request[c]) IN
  k \in DOMAIN steps[c] /\ steps[c][k].status = "PENDING"

MayStart(h, c) ==
  LET row == request[c] IN
  CASE h = "submit" -> row.status = "DRAFT" /\ row.amount > 0
    [] h \in {"approve", "reject"} -> AwaitsDecision(c)
    [] h = "update" -> row.status = "REJECTED"
    [] h = "repair" -> /\ row.status \in InApproval
                       /\ \A k \in DOMAIN steps[c] : steps[c][k].status # "APPROVED"

(* submit builds the chain from the amount it reads, repair takes the one  *)
(* stored with the steps.                                                  *)
ChainRead(h, c) ==
  CASE h = "submit" -> Chain(Requester[c], request[c].amount)
    [] h = "repair" -> [k \in DOMAIN steps[c] |-> steps[c][k].role]
    [] OTHER -> <<>>

Start(h, c) ==
  /\ MayStart(h, c)
  /\ StartHandler(h, c,
       IF h \in {"approve", "reject"} THEN TurnOf(request[c]) ELSE 0,
       IF h = "approve" THEN request[c].amount ELSE 0,
       ChainRead(h, c))

Submit(i) ==
  /\ i.handler = "submit"
  /\ WriteRequestAndSteps(i,
       [request[i.cashOp] EXCEPT !.status = "SUBMITTED", !.currentStep = 1],
       PendingSteps(i.chain))
  /\ UNCHANGED ledgerVars

Reject(i) ==
  /\ i.handler = "reject" /\ i.live
  /\ steps' = [steps EXCEPT ![i.cashOp][i.step].status = "REJECTED"]
  /\ WriteRequest(i, [request[i.cashOp] EXCEPT !.status = "REJECTED"])
  /\ UNCHANGED ledgerVars

(* Mutant: the revised request goes through the chain it already had.      *)
UpdateKeepingChain(i, amount) ==
  /\ i.handler = "update" /\ amount > 0
  /\ WriteRequestAndSteps(i,
       [request[i.cashOp] EXCEPT
          !.status = "SUBMITTED", !.amount = amount, !.currentStep = 1],
       [k \in DOMAIN steps[i.cashOp] |->
          [steps[i.cashOp][k] EXCEPT !.status = "PENDING", !.amount = 0]])
  /\ UNCHANGED ledgerVars

(* update: a rejected request becomes a draft again.                       *)
Update(i, amount) ==
  /\ i.handler = "update"
  /\ WriteRequestAndSteps(i,
       [request[i.cashOp] EXCEPT
          !.status = "DRAFT", !.amount = amount, !.currentStep = 0],
       <<>>)
  /\ UNCHANGED ledgerVars

(* repairApprovalFromChain keeps the request's status.                     *)
Repair(i) ==
  /\ i.handler = "repair"
  /\ WriteRequestAndSteps(i,
       [request[i.cashOp] EXCEPT !.currentStep = 1],
       PendingSteps(i.chain))
  /\ UNCHANGED ledgerVars

-----------------------------------------------------------------------------
(* approve.  The amount may only go down along the chain: an approver is   *)
(* bound by the last approved step before hers, or by the request.         *)

EarlierApproved(c, k) == {j \in 1..(k - 1) : steps[c][j].status = "APPROVED"}

(* Mutant: an approver is bound by the request alone.                      *)
CeilingOfRequest(i) == i.amount

Ceiling(i) ==
  LET c == i.cashOp
      earlier == EarlierApproved(c, i.step)
  IN  IF earlier = {} THEN i.amount
      ELSE LET last == CHOOSE j \in earlier : \A k \in earlier : k <= j
           IN  steps[c][last].amount

IsLastStep(i) == i.step = Len(steps[i.cashOp])

(* Mutant: the step is found again by its place, not by its row.           *)
DecideAnyStep(i, amount) ==
  LET k == i.step IN
  /\ i.handler = "approve" /\ k \in DOMAIN steps[i.cashOp]
  /\ amount > 0 /\ amount <= Ceiling(i)
  /\ steps' = [steps EXCEPT ![i.cashOp][k].status = "APPROVED",
                            ![i.cashOp][k].amount = amount]

Decide(i, amount) ==
  LET k == i.step IN
  /\ i.handler = "approve" /\ i.live
  /\ amount > 0 /\ amount <= Ceiling(i)
  /\ steps' = [steps EXCEPT ![i.cashOp][k].status = "APPROVED",
                            ![i.cashOp][k].amount = amount]

Forward(i, amount) ==
  /\ Decide(i, amount)
  /\ ~IsLastStep(i)
  /\ WriteRequest(i, [request[i.cashOp] EXCEPT
       !.status = "IN_REVIEW", !.currentStep = i.step + 1])
  /\ UNCHANGED ledgerVars

(* deductForCashOp of the whole request, then partialRefundForCashOp of    *)
(* what was not approved; an FTTT project has no deduction to refund, and  *)
(* the approval fails with it.                                             *)
ChargeReimbursement(c, p, amount, approved) ==
  LET old == deductJasa[c]
      row == IF old = NoRow THEN [project |-> p, amount |-> amount] ELSE old
      refunds == amount > approved
                   /\ refundJasa[c]["REIMBURSEMENT_VARIANCE"] = NoRow
      charged == IF old = NoRow
                 THEN [project EXCEPT ![p] = Charge(@, "JASA", amount)] ELSE project
  IN
  IF p \in FtttProjects /\ old = NoRow
  THEN amount = approved /\ UNCHANGED ledgerVars
  ELSE
  /\ deductJasa' = [deductJasa EXCEPT ![c] = row]
  /\ refundJasa' = IF ~refunds THEN refundJasa
       ELSE [refundJasa EXCEPT ![c]["REIMBURSEMENT_VARIANCE"] =
              [project |-> row.project, amount |-> amount - approved]]
  /\ project' = IF ~refunds THEN charged
       ELSE [charged EXCEPT ![row.project] = GiveBack(@, "JASA", amount - approved)]
  /\ UNCHANGED <<deductMaterial, refundMaterial>>

(* Mutant: a reimbursement is charged like an advance.                     *)
ChargeRequest(c, approved) ==
  DeductForCashOp(c, ChargedProject[c], request[c].amount)

ChargeApproved(c, approved) ==
  IF c \in Advances
  THEN DeductForCashOp(c, ChargedProject[c], approved)
  ELSE ChargeReimbursement(c, ChargedProject[c], request[c].amount, approved)

(* Mutant: the budget is charged when the money is reported, not here.     *)
FinalApproveUncharged(i, amount) ==
  /\ Decide(i, amount)
  /\ IsLastStep(i)
  /\ WriteRequest(i, [request[i.cashOp] EXCEPT
       !.status = "APPROVED", !.finalAmount = amount,
       !.currentStep = Len(steps[i.cashOp])])
  /\ UNCHANGED ledgerVars

FinalApprove(i, amount) ==
  /\ Decide(i, amount)
  /\ IsLastStep(i)
  /\ ChargeApproved(i.cashOp, amount)
  /\ WriteRequest(i, [request[i.cashOp] EXCEPT
       !.status = "APPROVED", !.finalAmount = amount,
       !.currentStep = Len(steps[i.cashOp])])

(* The handler throws, or the process stops before the write.              *)
Abandon(i) ==
  /\ inFlight' = Others(i)
  /\ UNCHANGED <<ledgerVars, request, steps, disturbed>>

RequestNext ==
  \/ \E c \in CashOps, a \in Amounts : Create(c, a)
  \/ \E c \in CashOps, h \in {"submit", "approve", "reject", "update", "repair"} :
       Start(h, c)
  \/ \E i \in inFlight :
       \/ Submit(i)
       \/ Reject(i)
       \/ \E a \in Amounts \cup {0} : Update(i, a)
       \/ Repair(i)
       \/ \E a \in Amounts : Forward(i, a) \/ FinalApprove(i, a)
       \/ Abandon(i)

RequestSpec ==
  LedgerInit /\ RequestInit /\ [][RequestNext]_<<ledgerVars, requestVars>>

-----------------------------------------------------------------------------
(* Every variable has its type.                                            *)
RequestTypeOK ==
  /\ TypeOK
  /\ \A c \in CashOps :
       LET row == request[c] IN
       /\ DOMAIN row = DOMAIN NoRequest
       /\ row.status \in Statuses
       /\ row.currentStep \in 0..Len(steps[c])
       /\ row.turn \in RealisasiRoles \cup {Null}
       /\ \A k \in DOMAIN steps[c] :
            steps[c][k].status \in {"PENDING", "APPROVED", "REJECTED"}
  /\ disturbed \subseteq CashOps

Granted == {"APPROVED"} \cup InRealisasi

(* While no handler writes over what it never read: the project has been   *)
(* charged exactly what the last approver granted (a reimbursement being   *)
(* charged in full and refunded the difference) from the final approval    *)
(* on, and nothing before it, over any number of rejections and revisions. *)
ChargedAsApproved ==
  \A c \in CashOps \ disturbed :
    ChargedProject[c] \notin FtttProjects /\ request[c].status # "REALISASI_DONE" =>
      OutstandingJasa(c, ChargedProject[c]) =
        IF request[c].status \in Granted THEN request[c].finalAmount ELSE 0

(* While no handler writes over what it never read: the steps before the   *)
(* current one are approved, those after it are undecided, amounts never   *)
(* rise along the chain nor above the request, and the final amount is the *)
(* last one granted.                                                       *)
StepsInOrder ==
  \A c \in CashOps \ disturbed :
    LET row == request[c]
        s == steps[c]
    IN
    /\ row.status \in InApproval =>
         /\ row.currentStep \in DOMAIN s
         /\ \A k \in DOMAIN s :
              s[k].status = IF k < row.currentStep THEN "APPROVED" ELSE "PENDING"
    /\ row.status \in Granted =>
         /\ \A k \in DOMAIN s : s[k].status = "APPROVED"
         /\ s[Len(s)].amount = row.finalAmount
    /\ \A j, k \in DOMAIN s :
         j < k /\ s[k].status = "APPROVED" => s[k].amount <= s[j].amount
    /\ \A k \in DOMAIN s : s[k].amount <= row.amount

(* Whatever is overtaken: an approval given to one version of a request is *)
(* never counted for a revised one, so no step grants more than is asked.  *)
ApprovedWithinRequest ==
  \A c \in CashOps : \A k \in DOMAIN steps[c] :
    steps[c][k].amount <= request[c].amount

(* While no handler writes over what it never read: a high amount was      *)
(* approved by the GM before it was granted, also when it only became high *)
(* in a revision of a rejected request whose chain had no GM.              *)
HighAmountsPassTheGM ==
  \A c \in CashOps \ disturbed :
    /\ request[c].status \in Granted
    /\ request[c].amount > HighAmount
    /\ Requester[c] # "GENERAL_MANAGER"
    => \E k \in DOMAIN steps[c] :
         steps[c][k].role = "GENERAL_MANAGER" /\ steps[c][k].status = "APPROVED"

(* Whatever is overtaken: money that may be spent or reported was charged. *)
GrantedWasCharged ==
  \A c \in CashOps :
    request[c].status \in Granted /\ ChargedProject[c] \notin FtttProjects =>
      deductJasa[c] # NoRow
=============================================================================
