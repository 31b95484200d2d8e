-------------------------- MODULE LedgerAccounting --------------------------
(***************************************************************************)
(* The arithmetic of BudgetLedgerService and BudgetTransferService: what a *)
(* finance project may still spend per category, when it counts as         *)
(* overbudget, and what a transfer does to its budget lines.               *)
(*                                                                         *)
(* A project's money is a record with the columns of FinanceProject the    *)
(* arithmetic reads: total, material and jasa (the budget lines, a line    *)
(* being Null when it has not been split off the total), materialSpent and *)
(* jasaSpent.  Amounts are integers: the code computes on Decimal(18, 2)   *)
(* values without rounding.                                                *)
(***************************************************************************)
EXTENDS Totals

CONSTANT Null      \* a budget line that was never split off

ASSUME NullAssumption == Null \notin Int

Categories == {"MATERIAL", "JASA"}

(* The DTOs refuse negative lines but accept one line above the total, and  *)
(* a transfer into the other line then stores a negative one.              *)
Lines == Int \cup {Null}

Money ==
  [ total : Nat, material : Lines, jasa : Lines,
    materialSpent : Nat, jasaSpent : Nat, isOverbudget : BOOLEAN ]

-----------------------------------------------------------------------------
(* Caps and remainders.  With one line split off, the other category owns  *)
(* the rest of the total; with none, both draw on the whole total.         *)

MaterialCap(p) ==
  IF p.material # Null THEN p.material
  ELSE IF p.jasa # Null THEN p.total - p.jasa
  ELSE p.total

JasaCap(p) ==
  IF p.jasa # Null THEN p.jasa
  ELSE IF p.material # Null THEN p.total - p.material
  ELSE p.total

Unsplit(p) == p.material = Null /\ p.jasa = Null

MaterialRemaining(p) ==
  IF Unsplit(p) THEN p.total - p.materialSpent - p.jasaSpent
  ELSE MaterialCap(p) - p.materialSpent

JasaRemaining(p) ==
  IF Unsplit(p) THEN p.total - p.materialSpent - p.jasaSpent
  ELSE JasaCap(p) - p.jasaSpent

Remaining(p, category) ==
  IF category = "MATERIAL" THEN MaterialRemaining(p) ELSE JasaRemaining(p)

-----------------------------------------------------------------------------
(* Utilisation.  ratioUtil is spent / cap, 2 for spending on a cap of 0.   *)
(* The ratio is only ever compared with 1 (and 0.8), so the comparison is  *)
(* written on integers; a cap may be negative when one line exceeds the    *)
(* total, and dividing by it turns the comparison around.                  *)

ReachesCap(spent, cap) ==
  IF cap = 0 THEN spent > 0
  ELSE IF cap > 0 THEN spent >= cap ELSE spent <= cap

IsOver(p) ==
  \/ ReachesCap(p.materialSpent, MaterialCap(p))
  \/ ReachesCap(p.jasaSpent, JasaCap(p))

SyncOverbudgetFlag(p) == [p EXCEPT !.isOverbudget = IsOver(p)]

-----------------------------------------------------------------------------
(* Spending and giving back, one category of one project.  A deduction is  *)
(* an SQL increment; a refund writes the difference, clamped at 0.         *)

Spent(p, category) ==
  IF category = "MATERIAL" THEN p.materialSpent ELSE p.jasaSpent

SetSpent(p, category, amount) ==
  IF category = "MATERIAL" THEN [p EXCEPT !.materialSpent = amount]
                           ELSE [p EXCEPT !.jasaSpent = amount]

Charge(p, category, amount) ==
  SyncOverbudgetFlag(SetSpent(p, category, Spent(p, category) + amount))

Clamped(n) == IF n < 0 THEN 0 ELSE n

GiveBack(p, category, amount) ==
  SyncOverbudgetFlag(
    SetSpent(p, category, Clamped(Spent(p, category) - amount)))

-----------------------------------------------------------------------------
(* Transfers.  The line that gives or receives becomes explicit: an        *)
(* implicit line is first read as its cap, then written.                   *)

Cap(p, category) ==
  IF category = "MATERIAL" THEN MaterialCap(p) ELSE JasaCap(p)

OtherLine(p, category) == IF category = "MATERIAL" THEN p.jasa ELSE p.material

(* Mutant: the line moves and the total does not.                          *)
MoveLineOnly(p, category, delta) ==
  IF category = "MATERIAL"
  THEN [p EXCEPT !.material = MaterialCap(p) + delta]
  ELSE [p EXCEPT !.jasa = JasaCap(p) + delta]

MoveBudget(p, category, delta) ==
  LET line == Cap(p, category) + delta IN
  IF category = "MATERIAL"
  THEN [p EXCEPT !.total = @ + delta, !.material = line]
  ELSE [p EXCEPT !.total = @ + delta, !.jasa = line]

(* computeSourceAfterOut and computeTargetAfterIn refuse lines that do not *)
(* fit in the new total.                                                   *)
LinesFit(p, category, delta) ==
  OtherLine(p, category) # Null =>
    Cap(p, category) + delta + OtherLine(p, category) <= p.total + delta

(* Mutant: the total is not checked.                                       *)
CanTransferOutOfLine(p, category, amount) ==
  Remaining(p, category) >= amount /\ Cap(p, category) - amount >= 0

(* Mutant: the money was there when the transfer was submitted.            *)
CanTransferOutAsSubmitted(p, category, amount) == amount > 0

CanTransferOut(p, category, amount) ==
  /\ Remaining(p, category) >= amount
  /\ p.total - amount >= 0
  /\ Cap(p, category) - amount >= 0
  /\ LinesFit(p, category, -amount)

CanTransferIn(p, category, amount) == LinesFit(p, category, amount)

(* Mutant: the giving side keeps its old flag.                             *)
TransferOutUnsynced(p, category, amount) == MoveBudget(p, category, -amount)

TransferOut(p, category, amount) ==
  SyncOverbudgetFlag(MoveBudget(p, category, -amount))

TransferIn(p, category, amount) ==
  SyncOverbudgetFlag(MoveBudget(p, category, amount))
=============================================================================
