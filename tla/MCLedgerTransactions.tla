------------------------ MODULE MCLedgerTransactions ------------------------
(* Requests on two projects.  An order's approval, sent twice, races its   *)
(* cancellation, a transfer and a manual adjustment, four of them at once; *)
(* an advance and its settlement race transfers both ways.                 *)
EXTENDS LedgerTransactions

CONSTANTS p1, p2, approve, approveAgain, cancel, advance, settle, out, back, adjust

MCBudgets == { [total |-> 3, material |-> Null, jasa |-> Null] }

MCLockOrder == [p \in {p1, p2} |-> IF p = p1 THEN 1 ELSE 2]

MCRequests ==
  {approve, approveAgain, cancel, advance, settle, out, back, adjust}

MCBatches ==
  { {approve, approveAgain, cancel, adjust}, {approve, approveAgain, cancel, out},
    {approve, cancel, out, adjust}, {advance, settle, out, back} }

MCJob ==
  [r \in MCRequests |->
     CASE r \in {approve, approveAgain} ->
            [kind |-> "APPROVE_ORDER", order |-> 1, project |-> p1, amount |-> 1]
       [] r = cancel -> [kind |-> "CANCEL_ORDER", order |-> 1]
       [] r = advance ->
            [kind |-> "APPROVE_CASH_OP", cashOp |-> 1, project |-> p1, amount |-> 2]
       [] r = settle -> [kind |-> "SETTLE_CASH_OP", cashOp |-> 1, amount |-> 1]
       [] r = out -> [kind |-> "TRANSFER", src |-> p1, srcCat |-> "MATERIAL",
                      tgt |-> p2, tgtCat |-> "JASA", amount |-> 1]
       [] r = back -> [kind |-> "TRANSFER", src |-> p2, srcCat |-> "MATERIAL",
                       tgt |-> p1, tgtCat |-> "MATERIAL", amount |-> 1]
       [] r = adjust -> [kind |-> "UPDATE_BUDGET", project |-> p1,
              budget |-> [total |-> 3, material |-> Null, jasa |-> Null]]]
=============================================================================
