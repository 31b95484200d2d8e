-------------------------- MODULE MCFinanceProjects --------------------------
(* A segment with one site, two transfers of the same amount out of the    *)
(* site, one order, and two handlers in flight.                            *)
EXTENDS FinanceProjects

CONSTANTS seg, site

MCProjects == {seg, site}
MCLevel == [p \in MCProjects |-> IF p = seg THEN "SEGMENT" ELSE "SITE"]
MCParent == [p \in MCProjects |-> IF p = site THEN seg ELSE NoRow]

MCOpenings ==
  [p \in MCProjects |->
    IF p = seg
    THEN {[total |-> 1, material |-> Null, jasa |-> Null,
           perizinan |-> Null, lainLain |-> 1]}
    ELSE {[total |-> 3, material |-> 2, jasa |-> 0,
           perizinan |-> 1, lainLain |-> 0]}]

(* Another total, and, for a site, a line taken away.                      *)
MCBudgetRequests ==
  { [total |-> 1, material |-> Null, jasa |-> Keep,
     perizinan |-> Keep, lainLain |-> Keep] }

MCTransferRequests ==
  {[src |-> site, tgt |-> seg, srcCat |-> "MATERIAL", tgtCat |-> "JASA", amount |-> 1]}

MCAmounts == {1}
MCBudgets == {}
=============================================================================
