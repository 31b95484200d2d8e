-------------------------- MODULE CashOpRealisasi --------------------------
(***************************************************************************)
(* CashOpRealisasiService: the holder of an approved cash advance reports  *)
(* what was spent, and three roles review the report.  Composes            *)
(* CashOperation: both services write the same request row.                *)
(*                                                                         *)
(* saveDraft, submit, approve and reject read and write in a serializable  *)
(* transaction: one action each.  approveByOps, rejectByOps, approveByGm,  *)
(* editAndApproveByFinance and rejectByFinance read the request, then      *)
(* write it, in a read committed one; resubmitRealisasi reads it before    *)
(* its transaction.                                                        *)
(*                                                                         *)
(* No code puts a request into the PM's queue any more: approveByPm and    *)
(* rejectByPm never pass their check and are left out.                     *)
(***************************************************************************)
EXTENDS CashOperation

VARIABLE realisasiSteps    \* the CashOpRealisasiStep rows: their status

vars == <<ledgerVars, requestVars, realisasiSteps>>

ASSUME RequesterAssumption ==
  /\ DOMAIN Requester = 1..NumCashOps
  /\ Null \notin RealisasiRoles

(* buildRealisasiApprovalChain.                                            *)
ReviewChain(c) ==
  << IF Requester[c] \in {"MARKETING", "MARKETING_HEAD"}
     THEN "MARKETING_HEAD" ELSE "OPERATIONAL_MANAGER",
     "FINANCE", "GENERAL_MANAGER" >>

(* Step rows are created three at a time; none before the first submit.    *)
NewReview == [k \in 1..3 |-> "PENDING"]

RealisasiInit ==
  /\ LedgerInit
  /\ RequestInit
  /\ realisasiSteps = [c \in CashOps |-> <<>>]

IsPending(c, role) ==
  \E k \in DOMAIN realisasiSteps[c] :
    ReviewChain(c)[k] = role /\ realisasiSteps[c][k] = "PENDING"

(* The review's steps once role's pending one, if there is any, is decided. *)
DecidedBy(c, role, status) ==
  [k \in DOMAIN realisasiSteps[c] |->
    IF ReviewChain(c)[k] = role /\ realisasiSteps[c][k] = "PENDING"
    THEN status ELSE realisasiSteps[c][k]]

(* The role of the first step still pending, Null when there is none.      *)
NextRole(c, review) ==
  LET pending == {k \in DOMAIN review : review[k] = "PENDING"} IN
  IF pending = {} THEN Null
  ELSE ReviewChain(c)[CHOOSE k \in pending : \A j \in pending : k <= j]

Done(row) ==
  [row EXCEPT !.status = "REALISASI_DONE", !.realisasi = "DONE", !.turn = Null]

PassedTo(row, role) ==
  [row EXCEPT !.status = PendingStatus[role], !.realisasi = "PENDING",
              !.turn = role]

RejectedBy(row, role) ==
  [row EXCEPT !.status = RejectedStatus[role], !.realisasi = "REJECTED",
              !.turn = Null]

SetRequest(c, row) ==
  /\ request' = [request EXCEPT ![c] = row]
  /\ inFlight' = Overtaken(inFlight, c)

SetReview(c, review) == realisasiSteps' = [realisasiSteps EXCEPT ![c] = review]

-----------------------------------------------------------------------------
(* Serializable handlers.                                                  *)

SaveDraft(c, total) ==
  LET row == request[c] IN
  /\ c \in Advances
  /\ row.status \in {"APPROVED", "REALISASI_IN_PROGRESS"}
  /\ row.realisasi \in {"NONE", "DRAFT", "REJECTED"}
  /\ SetRequest(c, [row EXCEPT !.status = "REALISASI_IN_PROGRESS",
                               !.realisasi = "DRAFT", !.realisasiTotal = total])
  /\ UNCHANGED <<ledgerVars, steps, disturbed, realisasiSteps>>

SubmitRealisasi(c) ==
  /\ request[c].realisasi \in {"DRAFT", "REJECTED"}
  /\ SetRequest(c, PassedTo(request[c], ReviewChain(c)[1]))
  /\ SetReview(c, NewReview)
  /\ UNCHANGED <<ledgerVars, steps, disturbed>>

(* The roles the route of approve admits.                                  *)
GenericApprovers == {"FINANCE", "MARKETING_HEAD", "OPERATIONAL_MANAGER"}

Approvable ==
  {"REALISASI_IN_PROGRESS", "REALISASI_REJECTED_BY_OPS",
   "REALISASI_REJECTED_BY_FINANCE"} \cup {PendingStatus[r] : r \in RealisasiRoles}

Rejectable ==
  {"REALISASI_IN_PROGRESS"} \cup {PendingStatus[r] : r \in RealisasiRoles}

(* Mutant: every approver's turn returns what was not spent.               *)
ApproveAndReturn(c, role) ==
  LET row == request[c]
      review == DecidedBy(c, role, "APPROVED")
      next == NextRole(c, review)
  IN
  /\ row.status \in Approvable /\ row.turn = role
  /\ IsPending(c, role)
  /\ SetReview(c, review)
  /\ SetRequest(c, IF next = Null THEN Done(row) ELSE PassedTo(row, next))
  /\ IF row.finalAmount > row.realisasiTotal
     THEN PartialRefundForCashOp(c, "REALISASI_VARIANCE",
                                 row.finalAmount - row.realisasiTotal)
     ELSE UNCHANGED ledgerVars
  /\ UNCHANGED <<steps, disturbed>>

(* approve: the last approver's turn returns what was not spent.           *)
Approve(c, role) ==
  LET row == request[c]
      review == DecidedBy(c, role, "APPROVED")
      next == NextRole(c, review)
  IN
  /\ row.status \in Approvable /\ row.turn = role
  /\ IsPending(c, role)
  /\ SetReview(c, review)
  /\ SetRequest(c, IF next = Null THEN Done(row) ELSE PassedTo(row, next))
  /\ IF next = Null /\ row.finalAmount > row.realisasiTotal
     THEN PartialRefundForCashOp(c, "REALISASI_VARIANCE",
                                 row.finalAmount - row.realisasiTotal)
     ELSE UNCHANGED ledgerVars
  /\ UNCHANGED <<steps, disturbed>>

(* reject, also behind rejectByGm.                                         *)
RejectRealisasi(c, role) ==
  /\ request[c].status \in Rejectable /\ request[c].turn = role
  /\ SetReview(c, DecidedBy(c, role, "REJECTED"))
  /\ SetRequest(c, RejectedBy(request[c], role))
  /\ UNCHANGED <<ledgerVars, steps, disturbed>>

-----------------------------------------------------------------------------
(* Handlers that read first and write later.                               *)

OpsPending == {"REALISASI_PENDING_OPS", "REALISASI_IN_PROGRESS"}

MayStartReview(h, c) ==
  LET status == request[c].status IN
  CASE h \in {"approveByOps", "rejectByOps"} -> status \in OpsPending
    [] h \in {"approveByFinance", "rejectByFinance"} ->
         status = "REALISASI_PENDING_FINANCE"
    [] h = "approveByGm" -> status = "REALISASI_PENDING_GM"
    [] h = "resubmit" -> status \in {RejectedStatus[r] : r \in RealisasiRoles}

ReviewHandlers ==
  { "approveByOps", "rejectByOps", "approveByFinance", "rejectByFinance",
    "approveByGm", "resubmit" }

StartReview(h, c) ==
  MayStartReview(h, c) /\ StartHandler(h, c, 0, 0, <<>>) /\ UNCHANGED realisasiSteps

(* One review transaction's write; nothing is charged or given back.       *)
WriteReview(i, h, row, review) ==
  /\ i.handler = h
  /\ WriteRequest(i, row)
  /\ SetReview(i.cashOp, review)
  /\ UNCHANGED <<ledgerVars, steps>>

(* approveByOps always passes on to Finance, its step found or not.        *)
ApproveByOps(i) ==
  WriteReview(i, "approveByOps", PassedTo(request[i.cashOp], "FINANCE"),
              DecidedBy(i.cashOp, "OPERATIONAL_MANAGER", "APPROVED"))

RejectByOps(i) ==
  WriteReview(i, "rejectByOps",
              RejectedBy(request[i.cashOp], "OPERATIONAL_MANAGER"),
              realisasiSteps[i.cashOp])

(* editAndApproveByFinance.                                                *)
ApproveByFinance(i) ==
  LET c == i.cashOp
      review == DecidedBy(c, "FINANCE", "APPROVED")
      next == NextRole(c, review)
  IN  WriteReview(i, "approveByFinance",
        IF next = Null THEN Done(request[c]) ELSE PassedTo(request[c], next), review)

RejectByFinance(i) ==
  WriteReview(i, "rejectByFinance", RejectedBy(request[i.cashOp], "FINANCE"),
              realisasiSteps[i.cashOp])

(* approveByGm: whatever step is left, the status becomes Finance's.       *)
ApproveByGm(i) ==
  LET c == i.cashOp
      review == DecidedBy(c, "GENERAL_MANAGER", "APPROVED")
      next == NextRole(c, review)
  IN  WriteReview(i, "approveByGm",
        IF next = Null THEN Done(request[c])
        ELSE [PassedTo(request[c], "FINANCE") EXCEPT !.turn = next], review)

(* Mutant: the steps of the rejected review are kept.                      *)
ResubmitKeepingSteps(i, total) ==
  WriteReview(i, "resubmit",
    [PassedTo(request[i.cashOp], ReviewChain(i.cashOp)[1])
       EXCEPT !.realisasiTotal = total],
    realisasiSteps[i.cashOp])

Resubmit(i, total) ==
  WriteReview(i, "resubmit",
    [PassedTo(request[i.cashOp], ReviewChain(i.cashOp)[1])
       EXCEPT !.realisasiTotal = total],
    NewReview)

RealisasiNext ==
  \/ RequestNext /\ UNCHANGED realisasiSteps
  \/ \E c \in CashOps :
       \/ \E total \in Amounts : SaveDraft(c, total)
       \/ SubmitRealisasi(c)
       \/ \E role \in GenericApprovers : Approve(c, role)
       \/ \E role \in RealisasiRoles : RejectRealisasi(c, role)
       \/ \E h \in ReviewHandlers : StartReview(h, c)
  \/ \E i \in inFlight :
       \/ ApproveByOps(i)
       \/ RejectByOps(i)
       \/ ApproveByFinance(i)
       \/ RejectByFinance(i)
       \/ ApproveByGm(i)
       \/ \E total \in Amounts : Resubmit(i, total)

RealisasiSpec == RealisasiInit /\ [][RealisasiNext]_vars

-----------------------------------------------------------------------------
(* While no handler writes over what it never read: a submitted report     *)
(* waits for the first of its reviewers who has not approved it, over any  *)
(* number of rejections and resubmissions through either set of routes,    *)
(* and it is done when all three have.                                     *)
ReviewedInTurn ==
  \A c \in CashOps \ disturbed : realisasiSteps[c] # <<>> =>
    LET row == request[c]
        review == realisasiSteps[c]
    IN
    /\ row.realisasi = "PENDING" =>
         /\ row.turn = NextRole(c, review) /\ row.turn # Null
         /\ row.status = PendingStatus[row.turn]
         /\ \A j, k \in 1..3 :
              j < k /\ review[k] # "PENDING" => review[j] = "APPROVED"
    /\ row.realisasi = "DONE" => \A k \in 1..3 : review[k] = "APPROVED"

(* While no handler writes over what it never read: over any number of     *)
(* rejected, edited and resubmitted reports an advance stays charged what  *)
(* was granted, and when its report is done no more than the unspent part  *)
(* went back, once.  It never gets back more than it was charged.          *)
ReportsKeepTheCharge ==
  \A c \in CashOps \ disturbed : ChargedProject[c] \notin FtttProjects =>
    LET row == request[c]
        outstanding == OutstandingJasa(c, ChargedProject[c])
    IN
    /\ row.status \in Granted => outstanding = row.finalAmount
    /\ row.status = "REALISASI_DONE" =>
         \/ outstanding = row.finalAmount
         \/ outstanding = row.realisasiTotal /\ outstanding < row.finalAmount
    /\ row.status \notin Granted \cup {"REALISASI_DONE"} => outstanding = 0

(* Scenario CA-10 of the cash advance test plan: after the GM's approval   *)
(* of a report below the granted amount, "1 row, amount = 100000,          *)
(* metadata.partialRefundType = 'REALISASI_VARIANCE'".                     *)
VarianceIsReturned ==
  \A c \in CashOps :
    /\ request[c].status = "REALISASI_DONE"
    /\ realisasiSteps[c] = [k \in 1..3 |-> "APPROVED"]
    /\ request[c].realisasiTotal < request[c].finalAmount
    /\ ChargedProject[c] \notin FtttProjects
    => refundJasa[c]["REALISASI_VARIANCE"] # NoRow

(* Scenario CA-9 of the same plan: Finance's approval of a report leads to *)
(* "realisasiStatus PENDING_GM_REVIEW, notif GM": no report is done before *)
(* the GM has approved it.                                                 *)
GmApprovedBeforeDone ==
  \A c \in CashOps : request[c].status = "REALISASI_DONE" =>
    /\ realisasiSteps[c] # <<>>
    /\ realisasiSteps[c][3] = "APPROVED"
=============================================================================
