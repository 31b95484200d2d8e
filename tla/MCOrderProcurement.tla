------------------------- MODULE MCOrderProcurement -------------------------
(* One order of one project, with two handlers in flight at a time.        *)
EXTENDS OrderProcurement

CONSTANT p1

MCBudgets == { [total |-> 3, material |-> Null, jasa |-> Null] }

MCProjectOf == [o \in Orders |-> p1]
=============================================================================
