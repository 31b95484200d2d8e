--------------------------- MODULE MCBudgetLedger ---------------------------
(* A small instance of BudgetLedger: an FTTH and an FTTT project, one      *)
(* order, one advance and one reimbursement.                               *)
EXTENDS BudgetLedger

(* One budget without lines, one fully split, one whose single line is     *)
(* above the total.                                                        *)
MCBudgets ==
  { [total |-> 3, material |-> Null, jasa |-> Null],
    [total |-> 3, material |-> 1, jasa |-> 2],
    [total |-> 2, material |-> 3, jasa |-> Null] }

MCAmounts == {1, 2}
=============================================================================
