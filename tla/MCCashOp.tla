------------------------------ MODULE MCCashOp ------------------------------
(* One cash operation at a time, of five, and two handlers that overlap:   *)
(*   1  an advance of the general manager, whose chain is a single step,   *)
(*      and its report;                                                    *)
(*   2  an advance of marketing and its report;                            *)
(*   3  an advance up to its final approval;                               *)
(*   4  a reimbursement of an FTTH project;                                *)
(*   5  a reimbursement of an FTTT project.                                *)
EXTENDS CashOpRealisasi

CONSTANTS p1, p2

MCBudgets == { [total |-> 3, material |-> Null, jasa |-> Null] }

MCChargedProject == [c \in CashOps |-> IF c = 5 THEN p2 ELSE p1]

MCRequester ==
  [c \in CashOps |->
     CASE c \in {1, 5} -> "GENERAL_MANAGER"
       [] c = 2 -> "MARKETING_HEAD"
       [] c \in {3, 4} -> "ADMIN"]

Reported == {1, 2}

(* The first advance has every amount while its handlers do not overtake   *)
(* one another, which is when ReportsKeepTheCharge speaks of it; the       *)
(* second has one amount whatever they do; the others are not reported.    *)
ReportBounds ==
  /\ 1 \notin disturbed
  /\ 2 \in CashOps => request[2].amount <= 1 /\ request[2].realisasiTotal <= 1
  /\ \A c \in CashOps \ Reported : request[c].realisasi = "NONE"
=============================================================================
