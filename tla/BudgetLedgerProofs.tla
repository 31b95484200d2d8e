------------------------- MODULE BudgetLedgerProofs -------------------------
(***************************************************************************)
(* BudgetLedger for every set of projects and every number of orders and   *)
(* cash operations: its types, the overbudget flag, the budget lines, what *)
(* refunds may give back, and that spending is what the rows add up to.    *)
(***************************************************************************)
EXTENDS BudgetLedger, TotalTheorems

-----------------------------------------------------------------------------
(* The arithmetic on one project row.                                      *)

(* Recomputing the flag changes nothing but the flag, and makes it right.  *)
LEMMA SyncFacts ==
  ASSUME NEW q, q \in [total : Nat, material : Lines, jasa : Lines,
                       materialSpent : Nat, jasaSpent : Nat,
                       isOverbudget : BOOLEAN]
  PROVE  LET r == SyncOverbudgetFlag(q) IN
         /\ r \in Money
         /\ r.total = q.total /\ r.material = q.material /\ r.jasa = q.jasa
         /\ r.materialSpent = q.materialSpent /\ r.jasaSpent = q.jasaSpent
         /\ r.isOverbudget <=> IsOver(r)
<1> DEFINE r == [q EXCEPT !.isOverbudget = IsOver(q)]
<1>1. IsOver(q) \in BOOLEAN
  BY DEF IsOver, ReachesCap
<1>2. /\ r \in Money
      /\ r.total = q.total /\ r.material = q.material /\ r.jasa = q.jasa
      /\ r.materialSpent = q.materialSpent /\ r.jasaSpent = q.jasaSpent
      /\ r.isOverbudget = IsOver(q)
  BY <1>1 DEF Money
<1> HIDE DEF r
<1>3. MaterialCap(r) = MaterialCap(q) /\ JasaCap(r) = JasaCap(q)
  BY <1>2 DEF MaterialCap, JasaCap
<1>4. IsOver(r) <=> IsOver(q)
  BY <1>2, <1>3 DEF IsOver
<1>5. QED
  BY <1>2, <1>4 DEF SyncOverbudgetFlag, r

(* A deduction adds its amount to one category and keeps the flag right.   *)
LEMMA ChargeFacts ==
  ASSUME NEW q \in Money, NEW cat \in Categories, NEW a \in Nat
  PROVE  LET r == Charge(q, cat, a) IN
         /\ r \in Money
         /\ r.total = q.total /\ r.material = q.material /\ r.jasa = q.jasa
         /\ r.materialSpent =
              q.materialSpent + (IF cat = "MATERIAL" THEN a ELSE 0)
         /\ r.jasaSpent = q.jasaSpent + (IF cat = "JASA" THEN a ELSE 0)
         /\ r.isOverbudget <=> IsOver(r)
<1> DEFINE s == SetSpent(q, cat, Spent(q, cat) + a)
<1>1. /\ s \in Money
      /\ s.total = q.total /\ s.material = q.material /\ s.jasa = q.jasa
      /\ s.materialSpent =
           q.materialSpent + (IF cat = "MATERIAL" THEN a ELSE 0)
      /\ s.jasaSpent = q.jasaSpent + (IF cat = "JASA" THEN a ELSE 0)
  BY DEF SetSpent, Spent, Money, Categories
<1> HIDE DEF s
<1>2. QED
  BY <1>1, SyncFacts DEF Charge, Money, s

(* A refund takes off its amount, down to 0 at most.                       *)
LEMMA GiveBackFacts ==
  ASSUME NEW q \in Money, NEW cat \in Categories, NEW a \in Nat
  PROVE  LET r == GiveBack(q, cat, a) IN
         /\ r \in Money
         /\ r.total = q.total /\ r.material = q.material /\ r.jasa = q.jasa
         /\ r.materialSpent = (IF cat = "MATERIAL"
              THEN Clamped(q.materialSpent - a) ELSE q.materialSpent)
         /\ r.jasaSpent =
              (IF cat = "JASA" THEN Clamped(q.jasaSpent - a) ELSE q.jasaSpent)
         /\ r.isOverbudget <=> IsOver(r)
<1> DEFINE s == SetSpent(q, cat, Clamped(Spent(q, cat) - a))
<1>1. /\ s \in Money
      /\ s.total = q.total /\ s.material = q.material /\ s.jasa = q.jasa
      /\ s.materialSpent = (IF cat = "MATERIAL"
           THEN Clamped(q.materialSpent - a) ELSE q.materialSpent)
      /\ s.jasaSpent =
           (IF cat = "JASA" THEN Clamped(q.jasaSpent - a) ELSE q.jasaSpent)
  BY DEF SetSpent, Spent, Clamped, Money, Categories
<1> HIDE DEF s
<1>2. QED
  BY <1>1, SyncFacts DEF GiveBack, Money, s

(* Rewriting the lines touches no spending and keeps the flag right.       *)
LEMMA NewLinesFacts ==
  ASSUME NEW q \in Money, NEW t \in Nat, NEW m \in Lines, NEW j \in Lines
  PROVE  LET s == [q EXCEPT !.total = t, !.material = m, !.jasa = j]
             r == SyncOverbudgetFlag(s) IN
         /\ r \in Money
         /\ r.total = t /\ r.material = m /\ r.jasa = j
         /\ r.materialSpent = q.materialSpent /\ r.jasaSpent = q.jasaSpent
         /\ r.isOverbudget <=> IsOver(r)
<1> DEFINE s == [q EXCEPT !.total = t, !.material = m, !.jasa = j]
<1>1. /\ s \in Money
      /\ s.total = t /\ s.material = m /\ s.jasa = j
      /\ s.materialSpent = q.materialSpent /\ s.jasaSpent = q.jasaSpent
  BY DEF Money
<1> HIDE DEF s
<1>2. QED
  BY <1>1, SyncFacts DEF Money, s

-----------------------------------------------------------------------------
(* The inductive invariant.                                                *)

(* What refunds look like: an order's refund repeats its deduction, a cash *)
(* operation's refund goes back to the project that was charged.           *)
RefundShape ==
  /\ \A o \in Orders :
       refundMaterial[o] # NoRow => refundMaterial[o] = deductMaterial[o]
  /\ \A c \in CashOps, t \in Tags : refundJasa[c][t] # NoRow =>
       /\ deductJasa[c] # NoRow
       /\ refundJasa[c][t].project = deductJasa[c].project

LedgerInv ==
  /\ TypeOK
  /\ RefundShape
  /\ SpentMatchesLedger
  /\ OverbudgetInSync
  /\ LinesWithinTotal

MaterialNet(p) == [o \in Orders |-> OutstandingMaterial(o, p)]
JasaNet(p) == [c \in CashOps |-> OutstandingJasa(c, p)]

(* NoRow is not a row, so a stored row is recognised by being different.   *)
LEMMA RowFacts ==
  ASSUME NEW r \in Row \cup {NoRow}, NEW p
  PROVE  /\ r # NoRow => r \in Row
         /\ AmountIn(r, p) \in Nat
         /\ r = NoRow => AmountIn(r, p) = 0
         /\ r # NoRow /\ r.project = p => AmountIn(r, p) = r.amount
         /\ r # NoRow /\ r.project # p => AmountIn(r, p) = 0
  BY LedgerAssumption DEF Row, AmountIn, In

(* An order's outstanding amount is a natural: its refund repeats its      *)
(* deduction.  A cash operation's may be negative.                         *)
LEMMA OutstandingTypes ==
  ASSUME TypeOK, RefundShape, NEW p
  PROVE  /\ \A o \in Orders : OutstandingMaterial(o, p) \in Nat
         /\ \A c \in CashOps : OutstandingJasa(c, p) \in Int
<1>1. ASSUME NEW o \in Orders
      PROVE  OutstandingMaterial(o, p) \in Nat
  <2>1. /\ deductMaterial[o] \in Row \cup {NoRow}
        /\ refundMaterial[o] \in Row \cup {NoRow}
    BY DEF TypeOK
  <2>2. CASE refundMaterial[o] = NoRow
    BY <2>1, <2>2, RowFacts DEF OutstandingMaterial
  <2>3. CASE refundMaterial[o] # NoRow
    BY <2>1, <2>3, RowFacts DEF OutstandingMaterial, RefundShape
  <2>4. QED
    BY <2>2, <2>3
<1>2. ASSUME NEW c \in CashOps
      PROVE  OutstandingJasa(c, p) \in Int
  <2>1. /\ deductJasa[c] \in Row \cup {NoRow}
        /\ \A t \in Tags : refundJasa[c][t] \in Row \cup {NoRow}
    BY DEF TypeOK
  <2>2. /\ "FULL" \in Tags /\ "REALISASI_VARIANCE" \in Tags
        /\ "REIMBURSEMENT_VARIANCE" \in Tags
    BY DEF Tags, PartialTags
  <2>3. /\ AmountIn(deductJasa[c], p) \in Nat
        /\ \A t \in Tags : AmountIn(refundJasa[c][t], p) \in Nat
    BY <2>1, RowFacts
  <2>4. QED
    BY <2>2, <2>3 DEF OutstandingJasa
<1>3. QED
  BY <1>1, <1>2

-----------------------------------------------------------------------------
(* How the totals move when one source's outstanding amount moves.         *)

(* The rows of amounts that the totals sum.                                *)
LEMMA NetTypes ==
  ASSUME TypeOK, RefundShape, NEW p
  PROVE  /\ MaterialNet(p) \in [1..NumOrders -> Nat]
         /\ JasaNet(p) \in [1..NumCashOps -> Int]
  BY OutstandingTypes DEF MaterialNet, JasaNet, Orders, CashOps

(* What SpentMatchesLedger says of the jasa of one project.                *)
JasaMatches(p) ==
  /\ project[p].jasaSpent >= Total(JasaNet(p), NumCashOps)
  /\ (\A c \in CashOps : OutstandingJasa(c, p) >= 0) =>
       project[p].jasaSpent = Total(JasaNet(p), NumCashOps)

(* The property in the terms of the proofs.                                *)
LEMMA SpentMatches ==
  SpentMatchesLedger <=>
    \A p \in Projects :
      /\ project[p].materialSpent = Total(MaterialNet(p), NumOrders)
      /\ JasaMatches(p)
<1>1. \A p : \A c \in CashOps :
        [i \in CashOps |-> OutstandingJasa(i, p)][c] = OutstandingJasa(c, p)
  OBVIOUS
<1>2. QED
  BY <1>1 DEF SpentMatchesLedger, JasaMatches, MaterialNet, JasaNet

(* The same of the next state.                                             *)
LEMMA SpentMatchesNext ==
  SpentMatchesLedger' <=>
    \A p \in Projects :
      /\ project'[p].materialSpent = Total(MaterialNet(p)', NumOrders)
      /\ JasaMatches(p)'
<1>1. \A p : \A c \in CashOps :
        [i \in CashOps |-> OutstandingJasa(i, p)'][c] = OutstandingJasa(c, p)'
  OBVIOUS
<1>2. QED
  BY <1>1 DEF SpentMatchesLedger, JasaMatches, MaterialNet, JasaNet

(* One order's outstanding amounts move by d, materialSpent follows.       *)
LEMMA MaterialMoves ==
  ASSUME TypeOK, RefundShape, SpentMatchesLedger, TypeOK', RefundShape',
         NEW o \in Orders, NEW d \in [Projects -> Int],
         \A p \in Projects : OutstandingMaterial(o, p)' =
                               OutstandingMaterial(o, p) + d[p],
         \A p \in Projects : \A i \in Orders : i # o =>
           OutstandingMaterial(i, p)' = OutstandingMaterial(i, p),
         \A p \in Projects :
           project'[p].materialSpent = project[p].materialSpent + d[p]
  PROVE  \A p \in Projects :
           project'[p].materialSpent = Total(MaterialNet(p)', NumOrders)
<1> SUFFICES ASSUME NEW p \in Projects
             PROVE  project'[p].materialSpent = Total(MaterialNet(p)', NumOrders)
  OBVIOUS
<1> DEFINE net == MaterialNet(p)
           net2 == MaterialNet(p)'
<1>1. net \in [1..NumOrders -> Int] /\ net2 \in [1..NumOrders -> Int]
  <2>1. net \in [1..NumOrders -> Nat]
    BY NetTypes
  <2>2. \A i \in Orders : OutstandingMaterial(i, p)' \in Int
    <3> SUFFICES ASSUME NEW i \in Orders
                 PROVE  OutstandingMaterial(i, p)' \in Int
      OBVIOUS
    <3>1. OutstandingMaterial(i, p) \in Nat /\ OutstandingMaterial(o, p) \in Nat
      BY OutstandingTypes, Zenon
    <3>2. CASE i = o
      <4>1. OutstandingMaterial(o, p)' = OutstandingMaterial(o, p) + d[p]
        OBVIOUS
      <4>2. d[p] \in Int
        OBVIOUS
      <4>3. QED
        BY <3>1, <3>2, <4>1, <4>2
    <3>3. CASE i # o
      BY <3>1, <3>3
    <3>4. QED
      BY <3>2, <3>3
  <2>3. QED
    BY <2>1, <2>2 DEF MaterialNet, Orders
<1>2. o \in 1..NumOrders
  BY DEF Orders
<1>3. net2[o] = net[o] + d[p]
  BY DEF MaterialNet
<1>4. \A i \in 1..NumOrders : i # o => net2[i] = net[i]
  BY DEF MaterialNet, Orders
<1>5. d[p] \in Int /\ NumOrders \in Nat
  BY LedgerAssumption
<1>6. project[p].materialSpent = Total(net, NumOrders)
  BY SpentMatches
<1>7. project'[p].materialSpent = project[p].materialSpent + d[p]
  OBVIOUS
<1> HIDE DEF net, net2
<1>8. Total(net2, NumOrders) = Total(net, NumOrders) + d[p]
  BY <1>1, <1>2, <1>3, <1>4, <1>5, TotalUpdate
<1>9. project'[p].materialSpent = Total(net2, NumOrders)
  BY <1>6, <1>7, <1>8
<1>10. QED
  BY <1>9 DEF net2

(* One cash operation's outstanding amounts move by d, never from below 0  *)
(* to 0 or more, and jasaSpent follows, clamped at 0.                      *)
LEMMA JasaMoves ==
  ASSUME TypeOK, RefundShape, SpentMatchesLedger, TypeOK', RefundShape',
         NEW o \in CashOps, NEW d \in [Projects -> Int],
         \A p \in Projects : OutstandingJasa(o, p)' =
                               OutstandingJasa(o, p) + d[p],
         \A p \in Projects :
           OutstandingJasa(o, p)' >= 0 => OutstandingJasa(o, p) >= 0,
         \A p \in Projects : \A i \in CashOps : i # o =>
           OutstandingJasa(i, p)' = OutstandingJasa(i, p),
         \A p \in Projects :
           project'[p].jasaSpent = Clamped(project[p].jasaSpent + d[p])
  PROVE  \A p \in Projects : JasaMatches(p)'
<1> SUFFICES ASSUME NEW p \in Projects PROVE JasaMatches(p)'
  OBVIOUS
<1> DEFINE net == JasaNet(p)
           net2 == JasaNet(p)'
           n == NumCashOps
           spent == project[p].jasaSpent
           spent2 == project'[p].jasaSpent
<1>1. net \in [1..n -> Int] /\ net2 \in [1..n -> Int]
  <2>1. net \in [1..n -> Int]
    BY NetTypes
  <2>2. \A i \in CashOps : OutstandingJasa(i, p) \in Int
    BY OutstandingTypes
  <2>3. d[p] \in Int
    OBVIOUS
  <2>4. \A i \in CashOps : OutstandingJasa(i, p)' \in Int
    <3> SUFFICES ASSUME NEW i \in CashOps
                 PROVE  OutstandingJasa(i, p)' \in Int
      OBVIOUS
    <3>1. CASE i = o
      <4>1. OutstandingJasa(o, p)' = OutstandingJasa(o, p) + d[p]
        OBVIOUS
      <4>2. QED
        BY <2>2, <2>3, <3>1, <4>1
    <3>2. CASE i # o
      BY <2>2, <3>2
    <3>3. QED
      BY <3>1, <3>2
  <2>5. QED
    BY <2>1, <2>4 DEF JasaNet, CashOps
<1>2. o \in 1..n /\ n \in Nat /\ d[p] \in Int
  BY LedgerAssumption DEF CashOps
<1>3. net2[o] = net[o] + d[p]
  BY DEF JasaNet
<1>4. \A i \in 1..n : i # o => net2[i] = net[i]
  BY DEF JasaNet, CashOps
<1>5. net2[o] >= 0 => net[o] >= 0
  BY DEF JasaNet
<1>6. spent2 = Clamped(spent + d[p]) /\ spent \in Nat
  BY DEF TypeOK, Money
<1>7. /\ spent >= Total(net, n)
      /\ (\A i \in 1..n : net[i] >= 0) => spent = Total(net, n)
  <2>1. JasaMatches(p)
    BY SpentMatches
  <2>2. \A i \in CashOps : net[i] = OutstandingJasa(i, p)
    BY DEF JasaNet
  <2>3. QED
    BY <2>1, <2>2 DEF JasaMatches, CashOps
<1>8. (\A i \in CashOps : OutstandingJasa(i, p)' >= 0) =>
        \A i \in 1..n : net2[i] >= 0
  BY DEF JasaNet, CashOps
<1> HIDE DEF net, net2, n, spent, spent2
<1>9. /\ Total(net2, n) = Total(net, n) + d[p]
      /\ Total(net, n) \in Int
  BY <1>1, <1>2, <1>3, <1>4, TotalUpdate, TotalType
<1>10. spent2 >= Total(net2, n)
  BY <1>2, <1>6, <1>7, <1>9 DEF Clamped
<1>11. ASSUME \A i \in 1..n : net2[i] >= 0
       PROVE  spent2 = Total(net2, n)
  <2>1. \A i \in 1..n : net[i] >= 0
    BY <1>2, <1>4, <1>5, <1>11
  <2>2. net2 \in [1..n -> Nat]
    BY <1>1, <1>11
  <2>3. Total(net2, n) >= net2[o] /\ net2[o] >= 0
    BY <1>2, <1>11, <2>2, TotalCovers
  <2>4. net2[o] \in Int
    BY <1>1, <1>2
  <2>5. QED
    BY <1>2, <1>6, <1>7, <1>9, <2>1, <2>3, <2>4 DEF Clamped
<1>12. QED
  BY <1>8, <1>10, <1>11 DEF JasaMatches, net2, n, spent2

-----------------------------------------------------------------------------
(* A step that changes no ledger table keeps the invariant.                *)
LEMMA LedgerStutter ==
  LedgerInv /\ UNCHANGED ledgerVars => LedgerInv'
<1> SUFFICES ASSUME LedgerInv, UNCHANGED ledgerVars
             PROVE  LedgerInv'
  OBVIOUS
<1> USE DEF LedgerInv, ledgerVars, ledgerRows
<1>1. TypeOK'
  BY DEF TypeOK
<1>2. RefundShape'
  BY DEF RefundShape
<1>3. SpentMatchesLedger'
  <2>1. \A p \in Projects :
          /\ MaterialNet(p)' = MaterialNet(p)
          /\ JasaNet(p)' = JasaNet(p)
          /\ \A c \in CashOps : OutstandingJasa(c, p)' = OutstandingJasa(c, p)
    BY DEF MaterialNet, JasaNet, OutstandingMaterial, OutstandingJasa, AmountIn, In
  <2>2. \A p \in Projects :
          /\ project'[p].materialSpent = Total(MaterialNet(p)', NumOrders)
          /\ JasaMatches(p)'
    BY <2>1, SpentMatches DEF JasaMatches
  <2>3. QED
    BY <2>2, SpentMatchesNext
<1>4. OverbudgetInSync'
  BY DEF OverbudgetInSync
<1>5. LinesWithinTotal'
  BY DEF LinesWithinTotal
<1>6. QED
  BY <1>1, <1>2, <1>3, <1>4, <1>5

(* A project row whose flag and lines are right.                           *)
RowConsistent(r) ==
  /\ r \in Money
  /\ r.isOverbudget <=> IsOver(r)
  /\ r.material # Null /\ r.jasa # Null => r.material + r.jasa <= r.total

(* The two invariants about project rows say each row is consistent.       *)
LEMMA ProjectsConsistent ==
  ASSUME project \in [Projects -> Money]
  PROVE  (\A p \in Projects : RowConsistent(project[p]))
           <=> OverbudgetInSync /\ LinesWithinTotal
  BY DEF RowConsistent, OverbudgetInSync, LinesWithinTotal

(* Replacing one project row by a consistent one keeps the project table   *)
(* consistent.                                                             *)
LEMMA ProjectRowReplaced ==
  ASSUME LedgerInv, NEW p \in Projects, NEW r, RowConsistent(r),
         project' = [project EXCEPT ![p] = r]
  PROVE  /\ project' \in [Projects -> Money]
         /\ OverbudgetInSync'
         /\ LinesWithinTotal'
<1>1. project \in [Projects -> Money]
  BY DEF LedgerInv, TypeOK
<1>2. \A q \in Projects : RowConsistent(project[q])
  BY <1>1, ProjectsConsistent DEF LedgerInv
<1>3. project' \in [Projects -> Money]
  BY <1>1 DEF RowConsistent
<1>4. \A q \in Projects : RowConsistent(project'[q])
  BY <1>1, <1>2
<1>5. QED
  BY <1>3, <1>4 DEF RowConsistent, OverbudgetInSync, LinesWithinTotal

(* A step that moves the outstanding amount of one order in one project,   *)
(* and that project's materialSpent with it, keeps the invariant.          *)
LEMMA MaterialPosted ==
  ASSUME LedgerInv, NEW o \in Orders, NEW p \in Projects, NEW a \in Int,
         NEW r, RowConsistent(r),
         project' = [project EXCEPT ![p] = r],
         r.materialSpent = project[p].materialSpent + a,
         r.jasaSpent = project[p].jasaSpent,
         UNCHANGED <<deductJasa, refundJasa>>,
         deductMaterial' \in [Orders -> Row \cup {NoRow}],
         refundMaterial' \in [Orders -> Row \cup {NoRow}],
         \A i \in Orders : refundMaterial'[i] # NoRow =>
           refundMaterial'[i] = deductMaterial'[i],
         \A q \in Projects : OutstandingMaterial(o, q)' =
           OutstandingMaterial(o, q) + (IF q = p THEN a ELSE 0),
         \A q \in Projects : \A i \in Orders : i # o =>
           OutstandingMaterial(i, q)' = OutstandingMaterial(i, q)
  PROVE  LedgerInv'
<1> DEFINE d == [q \in Projects |-> IF q = p THEN a ELSE 0]
<1>1. /\ TypeOK /\ RefundShape /\ SpentMatchesLedger
      /\ project \in [Projects -> Money]
  BY DEF LedgerInv, TypeOK
<1>2. /\ project' \in [Projects -> Money]
      /\ OverbudgetInSync' /\ LinesWithinTotal'
  BY ProjectRowReplaced
<1>3. TypeOK'
  BY <1>1, <1>2 DEF TypeOK
<1>4. RefundShape'
  BY <1>1 DEF RefundShape
<1>5. \A q \in Projects :
        /\ project'[q].materialSpent = project[q].materialSpent + d[q]
        /\ project'[q].jasaSpent = project[q].jasaSpent
  BY <1>1 DEF Money
<1>6. \A q \in Projects :
        OutstandingMaterial(o, q)' = OutstandingMaterial(o, q) + d[q]
  OBVIOUS
<1>7. d \in [Projects -> Int]
  OBVIOUS
<1> HIDE DEF d
<1>8. \A q \in Projects :
        project'[q].materialSpent = Total(MaterialNet(q)', NumOrders)
  BY <1>1, <1>3, <1>4, <1>5, <1>6, <1>7, MaterialMoves
<1>9. \A q \in Projects : JasaNet(q)' = JasaNet(q)
  BY DEF JasaNet, OutstandingJasa, AmountIn, In
<1>10. \A q \in Projects : JasaMatches(q)'
  <2>1. \A q \in Projects : JasaMatches(q)
    BY <1>1, SpentMatches
  <2>2. \A q \in Projects : \A c \in CashOps :
          OutstandingJasa(c, q)' = OutstandingJasa(c, q)
    BY DEF OutstandingJasa, AmountIn, In
  <2>3. QED
    BY <1>5, <1>9, <2>1, <2>2 DEF JasaMatches
<1>11. SpentMatchesLedger'
  BY <1>8, <1>10, SpentMatchesNext
<1>12. QED
  BY <1>2, <1>3, <1>4, <1>11 DEF LedgerInv

(* The same for one cash operation and jasaSpent.                          *)
LEMMA JasaPosted ==
  ASSUME LedgerInv, NEW c \in CashOps, NEW p \in Projects, NEW a \in Int,
         NEW r, RowConsistent(r),
         project' = [project EXCEPT ![p] = r],
         r.jasaSpent = Clamped(project[p].jasaSpent + a),
         r.materialSpent = project[p].materialSpent,
         UNCHANGED <<deductMaterial, refundMaterial>>,
         deductJasa' \in [CashOps -> Row \cup {NoRow}],
         refundJasa' \in [CashOps -> [Tags -> Row \cup {NoRow}]],
         RefundShape',
         \A q \in Projects : OutstandingJasa(c, q)' =
           OutstandingJasa(c, q) + (IF q = p THEN a ELSE 0),
         \A q \in Projects :
           OutstandingJasa(c, q)' >= 0 => OutstandingJasa(c, q) >= 0,
         \A q \in Projects : \A i \in CashOps : i # c =>
           OutstandingJasa(i, q)' = OutstandingJasa(i, q)
  PROVE  LedgerInv'
<1> DEFINE d == [q \in Projects |-> IF q = p THEN a ELSE 0]
<1>1. /\ TypeOK /\ RefundShape /\ SpentMatchesLedger
      /\ project \in [Projects -> Money]
  BY DEF LedgerInv, TypeOK
<1>2. /\ project' \in [Projects -> Money]
      /\ OverbudgetInSync' /\ LinesWithinTotal'
  BY ProjectRowReplaced
<1>3. TypeOK'
  BY <1>1, <1>2 DEF TypeOK
<1>4. \A q \in Projects :
        /\ project'[q].jasaSpent = Clamped(project[q].jasaSpent + d[q])
        /\ project'[q].materialSpent = project[q].materialSpent
  BY <1>1 DEF Money, Clamped
<1>5. \A q \in Projects :
        OutstandingJasa(c, q)' = OutstandingJasa(c, q) + d[q]
  OBVIOUS
<1>6. d \in [Projects -> Int]
  OBVIOUS
<1> HIDE DEF d
<1>7. \A q \in Projects : JasaMatches(q)'
  BY <1>1, <1>3, <1>4, <1>5, <1>6, JasaMoves
<1>8. \A q \in Projects : MaterialNet(q)' = MaterialNet(q)
  BY DEF MaterialNet, OutstandingMaterial, AmountIn, In
<1>9. \A q \in Projects :
        project'[q].materialSpent = Total(MaterialNet(q)', NumOrders)
  BY <1>1, <1>4, <1>8, SpentMatches
<1>10. SpentMatchesLedger'
  BY <1>7, <1>9, SpentMatchesNext
<1>11. QED
  BY <1>2, <1>3, <1>10 DEF LedgerInv

-----------------------------------------------------------------------------
(* Each method of the service keeps the invariant, whoever calls it.       *)

(* Approving an order: the first deduction posts, a repeated one does not. *)
LEMMA DeductForOrderKeeps ==
  ASSUME LedgerInv, NEW o \in Orders, NEW p \in Projects,
         NEW a \in Nat \ {0}, DeductForOrder(o, p, a)
  PROVE  LedgerInv'
<1>1. CASE deductMaterial[o] # NoRow
  BY <1>1, LedgerStutter DEF DeductForOrder
<1>2. CASE deductMaterial[o] = NoRow
  <2> DEFINE new == [project |-> p, amount |-> a]
             r == Charge(project[p], "MATERIAL", a)
  <2>1. /\ deductMaterial' = [deductMaterial EXCEPT ![o] = new]
        /\ project' = [project EXCEPT ![p] = r]
        /\ UNCHANGED <<refundMaterial, deductJasa, refundJasa>>
    BY <1>2 DEF DeductForOrder
  <2>2. /\ TypeOK /\ RefundShape /\ project[p] \in Money
    BY DEF LedgerInv, TypeOK
  <2>3. /\ r \in Money
        /\ r.total = project[p].total
        /\ r.material = project[p].material /\ r.jasa = project[p].jasa
        /\ r.materialSpent = project[p].materialSpent + a
        /\ r.jasaSpent = project[p].jasaSpent
        /\ r.isOverbudget <=> IsOver(r)
    <3>1. "MATERIAL" \in Categories /\ a \in Nat
      BY DEF Categories
    <3>2. project[p].jasaSpent \in Nat
      BY <2>2 DEF Money
    <3>3. QED
      BY <2>2, <3>1, <3>2, ChargeFacts
  <2> HIDE DEF r
  <2>4. RowConsistent(r)
    BY <2>2, <2>3 DEF RowConsistent, LedgerInv, LinesWithinTotal
  <2>5. new \in Row /\ new # NoRow
    BY LedgerAssumption DEF Row
  <2>6. refundMaterial[o] = NoRow
    BY <1>2, <2>2 DEF RefundShape
  <2>7. /\ deductMaterial' \in [Orders -> Row \cup {NoRow}]
        /\ refundMaterial' \in [Orders -> Row \cup {NoRow}]
    BY <2>1, <2>2, <2>5 DEF TypeOK
  <2>8. \A i \in Orders : refundMaterial'[i] # NoRow =>
          refundMaterial'[i] = deductMaterial'[i]
    BY <2>1, <2>2, <2>6 DEF RefundShape, TypeOK
  <2>9. \A q \in Projects : OutstandingMaterial(o, q)' =
          OutstandingMaterial(o, q) + (IF q = p THEN a ELSE 0)
    <3> SUFFICES ASSUME NEW q \in Projects
                 PROVE  OutstandingMaterial(o, q)' =
                   OutstandingMaterial(o, q) + (IF q = p THEN a ELSE 0)
      OBVIOUS
    <3>1. deductMaterial'[o] = new /\ refundMaterial'[o] = NoRow
      BY <2>1, <2>2, <2>6 DEF TypeOK
    <3>2. /\ AmountIn(new, q) = IF q = p THEN a ELSE 0
          /\ AmountIn(NoRow, q) = 0
      BY <2>5 DEF AmountIn, In
    <3>3. OutstandingMaterial(o, q) = 0
      BY <1>2, <2>6, <3>2 DEF OutstandingMaterial
    <3>4. OutstandingMaterial(o, q)' = (IF q = p THEN a ELSE 0) - 0
      BY <3>1, <3>2 DEF OutstandingMaterial, AmountIn, In
    <3>5. QED
      BY <3>3, <3>4
  <2>10. \A q \in Projects : \A i \in Orders : i # o =>
           OutstandingMaterial(i, q)' = OutstandingMaterial(i, q)
    BY <2>1, <2>2 DEF TypeOK, OutstandingMaterial, AmountIn, In
  <2> HIDE DEF new
  <2>11. a \in Int /\ UNCHANGED <<deductJasa, refundJasa>>
    BY <2>1
  <2>12. /\ project' = [project EXCEPT ![p] = r]
         /\ r.materialSpent = project[p].materialSpent + a
         /\ r.jasaSpent = project[p].jasaSpent
    BY <2>1, <2>3
  <2>13. QED
    BY <2>4, <2>7, <2>8, <2>9, <2>10, <2>11, <2>12, MaterialPosted
<1>3. QED
  BY <1>1, <1>2

(* Cancelling an order: what was deducted is still in materialSpent, so    *)
(* the clamp at 0 never takes effect.                                      *)
LEMMA RefundForOrderKeeps ==
  ASSUME LedgerInv, NEW o \in Orders, RefundForOrder(o)
  PROVE  LedgerInv'
<1>1. CASE deductMaterial[o] = NoRow \/ refundMaterial[o] # NoRow
  BY <1>1, LedgerStutter DEF RefundForOrder
<1>2. CASE deductMaterial[o] # NoRow /\ refundMaterial[o] = NoRow
  <2> DEFINE row == deductMaterial[o]
             p == row.project
             a == row.amount
             r == GiveBack(project[p], "MATERIAL", a)
  <2>1. /\ refundMaterial' = [refundMaterial EXCEPT ![o] = row]
        /\ project' = [project EXCEPT ![p] = r]
        /\ UNCHANGED <<deductMaterial, deductJasa, refundJasa>>
    BY <1>2 DEF RefundForOrder
  <2>2. row \in Row /\ row # NoRow
    BY <1>2 DEF LedgerInv, TypeOK
  <2>3. p \in Projects /\ a \in Nat
    BY <2>2 DEF Row
  <2>4. /\ TypeOK /\ RefundShape /\ project[p] \in Money
    BY <2>3 DEF LedgerInv, TypeOK
  <2>5. \A q : AmountIn(row, q) = (IF q = p THEN a ELSE 0)
              /\ AmountIn(NoRow, q) = 0
    BY <2>2 DEF AmountIn, In
  <2>6. a <= project[p].materialSpent
    <3>1. /\ MaterialNet(p) \in [1..NumOrders -> Nat] /\ NumOrders \in Nat
          /\ o \in 1..NumOrders
      BY <2>4, NetTypes, LedgerAssumption DEF Orders
    <3>2. Total(MaterialNet(p), NumOrders) >= MaterialNet(p)[o]
      BY <3>1, TotalCovers
    <3>3. MaterialNet(p)[o] = a - 0
      BY <1>2, <2>5 DEF MaterialNet, OutstandingMaterial
    <3>4. project[p].materialSpent = Total(MaterialNet(p), NumOrders)
      BY <2>3 DEF LedgerInv, SpentMatchesLedger, MaterialNet
    <3>5. QED
      BY <2>3, <3>2, <3>3, <3>4
  <2>7. /\ r \in Money
        /\ r.total = project[p].total
        /\ r.material = project[p].material /\ r.jasa = project[p].jasa
        /\ r.materialSpent = project[p].materialSpent + (-a)
        /\ r.jasaSpent = project[p].jasaSpent
        /\ r.isOverbudget <=> IsOver(r)
    <3>1. "MATERIAL" \in Categories
      BY DEF Categories
    <3>2. project[p].jasaSpent \in Nat /\ project[p].materialSpent \in Nat
      BY <2>4 DEF Money
    <3>3. Clamped(project[p].materialSpent - a) = project[p].materialSpent + (-a)
      BY <2>3, <2>6, <3>2 DEF Clamped
    <3> HIDE DEF a, p
    <3>4. QED
      BY <2>3, <2>4, <3>1, <3>3, GiveBackFacts
  <2>8. /\ deductMaterial' \in [Orders -> Row \cup {NoRow}]
        /\ refundMaterial' \in [Orders -> Row \cup {NoRow}]
    BY <2>1, <2>2, <2>4 DEF TypeOK
  <2>9. \A i \in Orders : refundMaterial'[i] # NoRow =>
          refundMaterial'[i] = deductMaterial'[i]
    BY <2>1, <2>4 DEF RefundShape, TypeOK
  <2>10. \A q \in Projects : OutstandingMaterial(o, q)' =
           OutstandingMaterial(o, q) + (IF q = p THEN -a ELSE 0)
    <3> SUFFICES ASSUME NEW q \in Projects
                 PROVE  OutstandingMaterial(o, q)' =
                   OutstandingMaterial(o, q) + (IF q = p THEN -a ELSE 0)
      OBVIOUS
    <3>1. deductMaterial'[o] = row /\ refundMaterial'[o] = row
      BY <2>1, <2>4 DEF TypeOK
    <3>2. OutstandingMaterial(o, q) = (IF q = p THEN a ELSE 0) - 0
      BY <1>2, <2>5 DEF OutstandingMaterial
    <3>3. OutstandingMaterial(o, q)' = AmountIn(row, q) - AmountIn(row, q)
      BY <3>1 DEF OutstandingMaterial, AmountIn, In
    <3>4. OutstandingMaterial(o, q)' =
            (IF q = p THEN a ELSE 0) - (IF q = p THEN a ELSE 0)
      BY <3>3, <2>5
    <3> HIDE DEF a, p
    <3>5. QED
      BY <2>3, <3>2, <3>4
  <2>11. \A q \in Projects : \A i \in Orders : i # o =>
           OutstandingMaterial(i, q)' = OutstandingMaterial(i, q)
    BY <2>1, <2>4 DEF TypeOK, OutstandingMaterial, AmountIn, In
  <2> HIDE DEF r, a, p
  <2>12. RowConsistent(r)
    BY <2>3, <2>4, <2>7 DEF RowConsistent, LedgerInv, LinesWithinTotal
  <2>13. -a \in Int
    BY <2>3
  <2>14. QED
    BY <2>1, <2>3, <2>7, <2>8, <2>9, <2>10, <2>11, <2>12, <2>13, MaterialPosted
<1>3. QED
  BY <1>1, <1>2

(* Approving a cash operation.                                             *)
LEMMA DeductForCashOpKeeps ==
  ASSUME LedgerInv, NEW c \in CashOps, NEW p \in Projects,
         NEW a \in Nat \ {0}, DeductForCashOp(c, p, a)
  PROVE  LedgerInv'
<1>1. CASE deductJasa[c] # NoRow \/ p \in FtttProjects
  BY <1>1, LedgerStutter DEF DeductForCashOp
<1>2. CASE deductJasa[c] = NoRow /\ p \notin FtttProjects
  <2> DEFINE new == [project |-> p, amount |-> a]
             r == Charge(project[p], "JASA", a)
  <2>1. /\ deductJasa' = [deductJasa EXCEPT ![c] = new]
        /\ project' = [project EXCEPT ![p] = r]
        /\ UNCHANGED <<deductMaterial, refundMaterial, refundJasa>>
    BY <1>2 DEF DeductForCashOp
  <2>2. /\ TypeOK /\ RefundShape /\ project[p] \in Money
    BY DEF LedgerInv, TypeOK
  <2>3. /\ r \in Money
        /\ r.total = project[p].total
        /\ r.material = project[p].material /\ r.jasa = project[p].jasa
        /\ r.materialSpent = project[p].materialSpent
        /\ r.jasaSpent = project[p].jasaSpent + a
        /\ r.isOverbudget <=> IsOver(r)
    <3>1. "JASA" \in Categories /\ a \in Nat
      BY DEF Categories
    <3>2. project[p].materialSpent \in Nat
      BY <2>2 DEF Money
    <3>3. QED
      BY <2>2, <3>1, <3>2, ChargeFacts
  <2> HIDE DEF r
  <2>4. RowConsistent(r)
    BY <2>2, <2>3 DEF RowConsistent, LedgerInv, LinesWithinTotal
  <2>5. new \in Row /\ new # NoRow
    BY LedgerAssumption DEF Row
  <2>6. \A t \in Tags : refundJasa[c][t] = NoRow
    BY <1>2, <2>2 DEF RefundShape
  <2>7. /\ deductJasa' \in [CashOps -> Row \cup {NoRow}]
        /\ refundJasa' \in [CashOps -> [Tags -> Row \cup {NoRow}]]
    BY <2>1, <2>2, <2>5 DEF TypeOK
  <2>8. RefundShape'
    BY <2>1, <2>2, <2>6 DEF RefundShape, TypeOK
  <2>9. \A q \in Projects :
          /\ OutstandingJasa(c, q)' =
               OutstandingJasa(c, q) + (IF q = p THEN a ELSE 0)
          /\ OutstandingJasa(c, q) = 0
    <3> SUFFICES ASSUME NEW q \in Projects
                 PROVE  /\ OutstandingJasa(c, q)' =
                             OutstandingJasa(c, q) + (IF q = p THEN a ELSE 0)
                        /\ OutstandingJasa(c, q) = 0
      OBVIOUS
    <3>1. /\ deductJasa'[c] = new /\ deductJasa[c] = NoRow
          /\ refundJasa' = refundJasa
      BY <1>2, <2>1, <2>2 DEF TypeOK
    <3>2. /\ refundJasa[c]["FULL"] = NoRow
          /\ refundJasa[c]["REALISASI_VARIANCE"] = NoRow
          /\ refundJasa[c]["REIMBURSEMENT_VARIANCE"] = NoRow
      BY <2>6 DEF Tags, PartialTags
    <3>3. /\ AmountIn(new, q) = IF q = p THEN a ELSE 0
          /\ AmountIn(NoRow, q) = 0
      BY <2>5 DEF AmountIn, In
    <3>4. OutstandingJasa(c, q) = 0 - 0 - 0 - 0
      BY <3>1, <3>2, <3>3 DEF OutstandingJasa
    <3>5. OutstandingJasa(c, q)' = (IF q = p THEN a ELSE 0) - 0 - 0 - 0
      BY <3>1, <3>2, <3>3 DEF OutstandingJasa, AmountIn, In
    <3>6. QED
      BY <3>4, <3>5
  <2>10. \A q \in Projects : \A i \in CashOps : i # c =>
           OutstandingJasa(i, q)' = OutstandingJasa(i, q)
    BY <2>1, <2>2 DEF TypeOK, OutstandingJasa, AmountIn, In
  <2> HIDE DEF new
  <2>11. /\ a \in Int
         /\ \A q \in Projects : OutstandingJasa(c, q) >= 0
    BY <2>9
  <2>12. r.jasaSpent = Clamped(project[p].jasaSpent + a)
    BY <2>2, <2>3 DEF Clamped, Money
  <2>13. \A q \in Projects : OutstandingJasa(c, q)' =
           OutstandingJasa(c, q) + (IF q = p THEN a ELSE 0)
    BY <2>9
  <2>14. QED
    BY <2>1, <2>3, <2>4, <2>7, <2>8, <2>10, <2>11, <2>12, <2>13, JasaPosted
<1>3. QED
  BY <1>1, <1>2

(* A first refund under its tag lowers the outstanding amount; jasaSpent   *)
(* follows, down to 0 at most.                                             *)
LEMMA PostJasaRefundKeeps ==
  ASSUME LedgerInv, NEW c \in CashOps, NEW tag \in Tags, NEW a \in Nat \ {0},
         deductJasa[c] # NoRow, refundJasa[c][tag] = NoRow,
         PostJasaRefund(c, tag, a)
  PROVE  LedgerInv'
<1> DEFINE row == deductJasa[c]
           p == row.project
           back == [project |-> p, amount |-> a]
           r == GiveBack(project[p], "JASA", a)
<1>1. /\ refundJasa' = [refundJasa EXCEPT ![c][tag] = back]
      /\ project' = [project EXCEPT ![p] = r]
      /\ UNCHANGED <<deductMaterial, refundMaterial, deductJasa>>
  BY DEF PostJasaRefund
<1>2. row \in Row /\ row # NoRow /\ p \in Projects /\ a \in Nat
  BY DEF LedgerInv, TypeOK, Row
<1>3. /\ TypeOK /\ RefundShape /\ project[p] \in Money
  BY <1>2 DEF LedgerInv, TypeOK
<1>4. back \in Row /\ back # NoRow /\ back.project = p
  BY <1>2, LedgerAssumption DEF Row
<1>5. \A q : /\ AmountIn(back, q) = (IF q = p THEN a ELSE 0)
             /\ AmountIn(NoRow, q) = 0
  BY <1>4 DEF AmountIn, In
<1> HIDE DEF back
<1>6. /\ r \in Money
      /\ r.total = project[p].total
      /\ r.material = project[p].material /\ r.jasa = project[p].jasa
      /\ r.materialSpent = project[p].materialSpent
      /\ r.jasaSpent = Clamped(project[p].jasaSpent + (-a))
      /\ r.isOverbudget <=> IsOver(r)
  <2>1. "JASA" \in Categories /\ Spent(project[p], "JASA") = project[p].jasaSpent
    BY DEF Categories, Spent
  <2>2. project[p].jasaSpent \in Nat /\ project[p].materialSpent \in Nat
    BY <1>3 DEF Money
  <2>3. project[p].jasaSpent - a = project[p].jasaSpent + (-a)
    BY <1>2, <2>2
  <2> HIDE DEF p
  <2>4. QED
    BY <1>2, <1>3, <2>1, <2>2, <2>3, GiveBackFacts
<1>7. /\ deductJasa' \in [CashOps -> Row \cup {NoRow}]
      /\ refundJasa' \in [CashOps -> [Tags -> Row \cup {NoRow}]]
  BY <1>1, <1>3, <1>4 DEF TypeOK
<1>8. \A i \in CashOps, t \in Tags :
        refundJasa'[i][t] = IF i = c /\ t = tag THEN back ELSE refundJasa[i][t]
  BY <1>1, <1>3 DEF TypeOK
<1>9. RefundShape'
  BY <1>1, <1>2, <1>3, <1>4, <1>8 DEF RefundShape
<1>10. \A q \in Projects :
         /\ OutstandingJasa(c, q)' =
              OutstandingJasa(c, q) + (IF q = p THEN -a ELSE 0)
         /\ OutstandingJasa(c, q) \in Int
  <2> SUFFICES ASSUME NEW q \in Projects
               PROVE  /\ OutstandingJasa(c, q)' =
                           OutstandingJasa(c, q) + (IF q = p THEN -a ELSE 0)
                      /\ OutstandingJasa(c, q) \in Int
    OBVIOUS
  <2> DEFINE b(t) == AmountIn(refundJasa[c][t], q)
             b2(t) == AmountIn(refundJasa'[c][t], q)
             was == AmountIn(row, q)
  <2>1. /\ OutstandingJasa(c, q) = was - b("FULL")
             - b("REALISASI_VARIANCE") - b("REIMBURSEMENT_VARIANCE")
        /\ OutstandingJasa(c, q)' = was - b2("FULL")
             - b2("REALISASI_VARIANCE") - b2("REIMBURSEMENT_VARIANCE")
    BY <1>1 DEF OutstandingJasa, AmountIn, In
  <2>2. \A t \in Tags : b(t) \in Nat
    BY <1>3, RowFacts DEF TypeOK
  <2>3. was \in Nat
    BY <1>2, RowFacts
  <2>4. \A t \in Tags :
          b2(t) = IF t = tag THEN b(t) + (IF q = p THEN a ELSE 0) ELSE b(t)
    BY <1>2, <1>5, <1>8
  <2> HIDE DEF b, b2, was, p
  <2>5. QED
    BY <1>2, <2>1, <2>2, <2>3, <2>4 DEF Tags, PartialTags
<1>11. \A q \in Projects : \A i \in CashOps : i # c =>
         OutstandingJasa(i, q)' = OutstandingJasa(i, q)
  BY <1>1, <1>8 DEF OutstandingJasa, AmountIn, In, Tags, PartialTags
<1> HIDE DEF r, p
<1>12. RowConsistent(r)
  BY <1>2, <1>3, <1>6 DEF RowConsistent, LedgerInv, LinesWithinTotal
<1>13. /\ -a \in Int
       /\ \A q \in Projects :
            OutstandingJasa(c, q)' >= 0 => OutstandingJasa(c, q) >= 0
  BY <1>2, <1>10
<1>14. UNCHANGED <<deductMaterial, refundMaterial>>
  BY <1>1
<1>15. /\ project' = [project EXCEPT ![p] = r]
       /\ r.jasaSpent = Clamped(project[p].jasaSpent + (-a))
       /\ r.materialSpent = project[p].materialSpent
       /\ p \in Projects
  BY <1>1, <1>2, <1>6
<1>16. \A q \in Projects : OutstandingJasa(c, q)' =
         OutstandingJasa(c, q) + (IF q = p THEN -a ELSE 0)
  BY <1>10
<1>17. QED
  BY <1>7, <1>9, <1>11, <1>12, <1>13, <1>14, <1>15, <1>16, JasaPosted

(* A full refund, whatever variance was refunded before.                   *)
LEMMA RefundForCashOpKeeps ==
  ASSUME LedgerInv, NEW c \in CashOps, RefundForCashOp(c)
  PROVE  LedgerInv'
<1>1. CASE deductJasa[c] = NoRow \/ refundJasa[c]["FULL"] # NoRow
  BY <1>1, LedgerStutter DEF RefundForCashOp
<1>2. CASE deductJasa[c] # NoRow /\ refundJasa[c]["FULL"] = NoRow
  <2>1. deductJasa[c] \in Row
    BY <1>2 DEF LedgerInv, TypeOK
  <2>2. deductJasa[c].amount \in Nat \ {0}
    BY <2>1 DEF Row
  <2>3. "FULL" \in Tags
    BY DEF Tags
  <2>4. PostJasaRefund(c, "FULL", deductJasa[c].amount)
    BY <1>2 DEF RefundForCashOp
  <2>5. QED
    BY <1>2, <2>2, <2>3, <2>4, PostJasaRefundKeeps
<1>3. QED
  BY <1>1, <1>2

(* A variance refund, whatever its amount and whatever was refunded before. *)
LEMMA PartialRefundForCashOpKeeps ==
  ASSUME LedgerInv, NEW c \in CashOps, NEW tag \in Tags, NEW a \in Nat \ {0},
         PartialRefundForCashOp(c, tag, a)
  PROVE  LedgerInv'
<1>1. CASE refundJasa[c][tag] # NoRow
  BY <1>1, LedgerStutter DEF PartialRefundForCashOp
<1>2. CASE refundJasa[c][tag] = NoRow
  BY <1>2, PostJasaRefundKeeps DEF PartialRefundForCashOp
<1>3. QED
  BY <1>1, <1>2

-----------------------------------------------------------------------------
(* Budgets change while spending stands.                                   *)

(* A step that rewrites lines but neither spending nor ledger rows.        *)
LEMMA LinesRewritten ==
  ASSUME LedgerInv, UNCHANGED ledgerRows,
         project' \in [Projects -> Money],
         \A p \in Projects :
           /\ RowConsistent(project'[p])
           /\ project'[p].materialSpent = project[p].materialSpent
           /\ project'[p].jasaSpent = project[p].jasaSpent
  PROVE  LedgerInv'
<1> USE DEF ledgerRows
<1>1. TypeOK'
  BY DEF LedgerInv, TypeOK
<1>2. RefundShape'
  BY DEF LedgerInv, RefundShape
<1>3. OverbudgetInSync' /\ LinesWithinTotal'
  BY DEF RowConsistent, OverbudgetInSync, LinesWithinTotal
<1>4. \A p \in Projects :
        MaterialNet(p)' = MaterialNet(p) /\ JasaNet(p)' = JasaNet(p)
  BY DEF MaterialNet, JasaNet, OutstandingMaterial, OutstandingJasa, AmountIn, In
<1>5. SpentMatchesLedger'
  <2>1. \A p \in Projects :
          /\ project[p].materialSpent = Total(MaterialNet(p), NumOrders)
          /\ JasaMatches(p)
    BY SpentMatches DEF LedgerInv
  <2>2. \A p \in Projects : \A c \in CashOps :
          OutstandingJasa(c, p)' = OutstandingJasa(c, p)
    BY DEF OutstandingJasa, AmountIn, In
  <2>3. \A p \in Projects :
          /\ project'[p].materialSpent = Total(MaterialNet(p)', NumOrders)
          /\ JasaMatches(p)'
    BY <1>4, <2>1, <2>2 DEF JasaMatches
  <2>4. QED
    BY <2>3, SpentMatchesNext
<1>6. QED
  BY <1>1, <1>2, <1>3, <1>5 DEF LedgerInv

(* What the DTOs demand of a budget.                                       *)
IsBudget(b) ==
  /\ b.total \in Nat /\ b.material \in Lines /\ b.jasa \in Lines
  /\ b.material # Null /\ b.jasa # Null => b.material + b.jasa <= b.total

(* Every budget the configuration offers has lines that fit its total.     *)
LEMMA BudgetsAreBudgets ==
  ASSUME NEW b \in Budgets
  PROVE  IsBudget(b)
  BY LedgerAssumption DEF IsBudget

(* updateBudget: the new lines fit the new total, as its DTO demands.      *)
LEMMA UpdateBudgetKeeps ==
  ASSUME LedgerInv, NEW p \in Projects, NEW b, IsBudget(b), UpdateBudget(p, b)
  PROVE  LedgerInv'
<1> DEFINE q == project[p]
           r == SyncOverbudgetFlag([q EXCEPT
                  !.total = b.total, !.material = b.material, !.jasa = b.jasa])
<1>1. project \in [Projects -> Money] /\ q \in Money
  BY DEF LedgerInv, TypeOK
<1>2. b.total \in Nat /\ b.material \in Lines /\ b.jasa \in Lines
  BY DEF IsBudget
<1>3. b.material # Null /\ b.jasa # Null => b.material + b.jasa <= b.total
  BY DEF IsBudget
<1>4. project' = [project EXCEPT ![p] = r] /\ UNCHANGED ledgerRows
  BY DEF UpdateBudget
<1> HIDE DEF q
<1>5. /\ r \in Money
      /\ r.total = b.total /\ r.material = b.material /\ r.jasa = b.jasa
      /\ r.materialSpent = q.materialSpent /\ r.jasaSpent = q.jasaSpent
      /\ r.isOverbudget <=> IsOver(r)
  BY <1>1, <1>2, NewLinesFacts
<1> HIDE DEF r
<1>6. RowConsistent(r)
  BY <1>3, <1>5 DEF RowConsistent
<1>7. \A i \in Projects : RowConsistent(project[i])
  BY <1>1, ProjectsConsistent DEF LedgerInv
<1>8. /\ project' \in [Projects -> Money]
      /\ \A i \in Projects : project'[i] = IF i = p THEN r ELSE project[i]
  BY <1>1, <1>4, <1>5
<1>9. \A i \in Projects :
        /\ RowConsistent(project'[i])
        /\ project'[i].materialSpent = project[i].materialSpent
        /\ project'[i].jasaSpent = project[i].jasaSpent
  BY <1>5, <1>6, <1>7, <1>8 DEF q
<1>10. QED
  BY <1>4, <1>8, <1>9, LinesRewritten

(* A transfer's effect on one of its two rows: the line that moves becomes *)
(* explicit and still fits.                                                *)
LEMMA MoveBudgetFacts ==
  ASSUME NEW q \in Money, RowConsistent(q), NEW cat \in Categories,
         NEW d \in Int, q.total + d >= 0, LinesFit(q, cat, d)
  PROVE  LET r == SyncOverbudgetFlag(MoveBudget(q, cat, d)) IN
         /\ RowConsistent(r)
         /\ r.materialSpent = q.materialSpent /\ r.jasaSpent = q.jasaSpent
<1> DEFINE line == Cap(q, cat) + d
           m == IF cat = "MATERIAL" THEN line ELSE q.material
           j == IF cat = "MATERIAL" THEN q.jasa ELSE line
           s == [q EXCEPT !.total = q.total + d, !.material = m, !.jasa = j]
           r == SyncOverbudgetFlag(s)
<1>1. q.total \in Nat /\ q.material \in Lines /\ q.jasa \in Lines
  BY DEF Money
<1>2. Cap(q, cat) \in Int
  BY <1>1 DEF Cap, MaterialCap, JasaCap, Lines
<1>3. q.total + d \in Nat /\ m \in Lines /\ j \in Lines
  BY <1>1, <1>2 DEF Lines
<1>4. MoveBudget(q, cat, d) = s
  BY <1>1 DEF MoveBudget, Money
<1>5. m # Null /\ j # Null => m + j <= q.total + d
  BY <1>1, <1>2 DEF LinesFit, OtherLine, Lines
<1> HIDE DEF m, j
<1>6. /\ r \in Money
      /\ r.total = q.total + d /\ r.material = m /\ r.jasa = j
      /\ r.materialSpent = q.materialSpent /\ r.jasaSpent = q.jasaSpent
      /\ r.isOverbudget <=> IsOver(r)
  BY <1>3, NewLinesFacts
<1> HIDE DEF r
<1>7. RowConsistent(r)
  BY <1>5, <1>6 DEF RowConsistent
<1>8. QED
  BY <1>4, <1>6, <1>7 DEF r

(* approveByGm of a transfer rewrites two different rows.                  *)
LEMMA TransferBudgetKeeps ==
  ASSUME LedgerInv, NEW src \in Projects, NEW tgt \in Projects,
         NEW srcCat \in Categories, NEW tgtCat \in Categories,
         NEW a \in Nat \ {0}, TransferBudget(src, tgt, srcCat, tgtCat, a)
  PROVE  LedgerInv'
<1> DEFINE out == TransferOut(project[src], srcCat, a)
           in == TransferIn(project[tgt], tgtCat, a)
<1>1. project \in [Projects -> Money]
  BY DEF LedgerInv, TypeOK
<1>2. \A i \in Projects : RowConsistent(project[i])
  BY <1>1, ProjectsConsistent DEF LedgerInv
<1>3. /\ project' = [project EXCEPT ![src] = out, ![tgt] = in]
      /\ UNCHANGED ledgerRows /\ src # tgt
  BY DEF TransferBudget
<1>4. /\ RowConsistent(out)
      /\ out.materialSpent = project[src].materialSpent
      /\ out.jasaSpent = project[src].jasaSpent
  <2>1. /\ LinesFit(project[src], srcCat, -a)
        /\ project[src].total - a >= 0
    BY DEF TransferBudget, CanTransferOut
  <2>2. project[src] \in Money /\ project[src].total \in Nat
    BY <1>1 DEF Money
  <2>3. project[src].total + (-a) >= 0 /\ -a \in Int
    BY <2>1, <2>2
  <2>4. QED
    BY <1>2, <2>1, <2>2, <2>3, MoveBudgetFacts DEF TransferOut
<1>5. /\ RowConsistent(in)
      /\ in.materialSpent = project[tgt].materialSpent
      /\ in.jasaSpent = project[tgt].jasaSpent
  <2>1. LinesFit(project[tgt], tgtCat, a)
    BY DEF TransferBudget, CanTransferIn
  <2>2. project[tgt] \in Money /\ project[tgt].total \in Nat
    BY <1>1 DEF Money
  <2>3. project[tgt].total + a >= 0 /\ a \in Int
    BY <2>2
  <2>4. QED
    BY <1>2, <2>1, <2>2, <2>3, MoveBudgetFacts DEF TransferIn
<1> HIDE DEF out, in
<1>6. /\ project' \in [Projects -> Money]
      /\ \A i \in Projects : project'[i] =
           IF i = tgt THEN in ELSE IF i = src THEN out ELSE project[i]
  BY <1>1, <1>3, <1>4, <1>5 DEF RowConsistent
<1>7. \A i \in Projects :
        /\ RowConsistent(project'[i])
        /\ project'[i].materialSpent = project[i].materialSpent
        /\ project'[i].jasaSpent = project[i].jasaSpent
  BY <1>2, <1>4, <1>5, <1>6
<1>8. QED
  BY <1>3, <1>6, <1>7, LinesRewritten

-----------------------------------------------------------------------------
(* The invariant of the whole ledger.                                      *)

(* A new project has spent nothing, which is over no cap, and the ledger   *)
(* is empty.                                                               *)
EmptyLedger ==
  /\ deductMaterial = [o \in Orders |-> NoRow]
  /\ refundMaterial = [o \in Orders |-> NoRow]
  /\ deductJasa = [c \in CashOps |-> NoRow]
  /\ refundJasa = [c \in CashOps |-> [t \in Tags |-> NoRow]]

(* Projects that were just created and empty ledger tables satisfy the     *)
(* invariant.                                                              *)
LEMMA FreshLedgerInv ==
  ASSUME EmptyLedger, project = [p \in Projects |-> project[p]],
         \A p \in Projects : \E b : IsBudget(b) /\ project[p] = NewProject(b)
  PROVE  LedgerInv
<1>1. \A p \in Projects : \E b : IsBudget(b) /\ project[p] = NewProject(b)
  OBVIOUS
<1>2. ASSUME NEW b, IsBudget(b)
      PROVE  NewProject(b) \in Money /\ ~IsOver(NewProject(b))
  <2> DEFINE q == NewProject(b)
  <2>1. b.total \in Nat /\ b.material \in Lines /\ b.jasa \in Lines
    BY <1>2 DEF IsBudget
  <2>2. q \in Money /\ q.materialSpent = 0 /\ q.jasaSpent = 0
    BY <2>1 DEF NewProject, Money
  <2> HIDE DEF q
  <2>3. MaterialCap(q) \in Int /\ JasaCap(q) \in Int
    BY <2>2 DEF MaterialCap, JasaCap, Money, Lines
  <2>4. ~IsOver(q)
    BY <2>2, <2>3 DEF IsOver, ReachesCap
  <2>5. QED
    BY <2>2, <2>4 DEF q
<1>3. \A p \in Projects : RowConsistent(project[p])
  <2> SUFFICES ASSUME NEW p \in Projects PROVE RowConsistent(project[p])
    OBVIOUS
  <2>1. PICK b : IsBudget(b) /\ project[p] = NewProject(b)
    BY <1>1
  <2>2. b.material # Null /\ b.jasa # Null => b.material + b.jasa <= b.total
    BY <2>1 DEF IsBudget
  <2>3. /\ NewProject(b).isOverbudget = FALSE
        /\ NewProject(b).material = b.material
        /\ NewProject(b).jasa = b.jasa /\ NewProject(b).total = b.total
    BY DEF NewProject
  <2>4. QED
    BY <1>2, <2>1, <2>2, <2>3 DEF RowConsistent
<1>4. project \in [Projects -> Money]
  <2>1. \A p \in Projects : project[p] \in Money
    BY <1>1, <1>2
  <2>2. QED
    BY <2>1
<1>5. TypeOK
  BY <1>4 DEF EmptyLedger, TypeOK
<1>6. RefundShape
  BY DEF EmptyLedger, RefundShape, PartialTags, Tags
<1>7. SpentMatchesLedger
  <2> SUFFICES ASSUME NEW p \in Projects
               PROVE  /\ project[p].materialSpent =
                           Total(MaterialNet(p), NumOrders)
                      /\ JasaMatches(p)
    BY SpentMatches
  <2>1. project[p].materialSpent = 0 /\ project[p].jasaSpent = 0
    <3>1. PICK b : project[p] = NewProject(b)
      BY <1>1
    <3>2. QED
      BY <3>1 DEF NewProject
  <2>2. AmountIn(NoRow, p) = 0
    BY DEF AmountIn, In
  <2>3. \A o \in Orders : OutstandingMaterial(o, p) = 0
    BY <2>2 DEF EmptyLedger, OutstandingMaterial
  <2>4. \A c \in CashOps : OutstandingJasa(c, p) = 0
    BY <2>2 DEF EmptyLedger, OutstandingJasa, Tags, PartialTags
  <2>5. MaterialNet(p) = [i \in 1..NumOrders |-> 0]
    BY <2>3 DEF MaterialNet, Orders
  <2>6. JasaNet(p) = [i \in 1..NumCashOps |-> 0]
    BY <2>4 DEF JasaNet, CashOps
  <2>7. NumOrders \in Nat /\ NumCashOps \in Nat
    BY LedgerAssumption
  <2>8. QED
    BY <2>1, <2>5, <2>6, <2>7, TotalOfZeroes DEF JasaMatches
<1>8. OverbudgetInSync /\ LinesWithinTotal
  BY <1>3, <1>4, ProjectsConsistent
<1>9. QED
  BY <1>5, <1>6, <1>7, <1>8 DEF LedgerInv

(* The invariant holds of the initial states.                              *)
LEMMA LedgerInitInv ==
  LedgerInit => LedgerInv
<1> SUFFICES ASSUME LedgerInit PROVE LedgerInv
  OBVIOUS
<1>1. \A p \in Projects : \E b \in Budgets : project[p] = NewProject(b)
  BY DEF LedgerInit
<1>2. project = [p \in Projects |-> project[p]] /\ EmptyLedger
  BY DEF LedgerInit, EmptyLedger
<1>3. QED
  BY <1>1, <1>2, BudgetsAreBudgets, FreshLedgerInv

(* Every transaction keeps the invariant.                                  *)
LEMMA LedgerNextInv ==
  LedgerInv /\ [LedgerNext]_ledgerVars => LedgerInv'
<1> SUFFICES ASSUME LedgerInv, [LedgerNext]_ledgerVars PROVE LedgerInv'
  OBVIOUS
<1>1. Amounts \subseteq Nat \ {0}
  BY LedgerAssumption
<1>2. CASE ApproveOrder
  BY <1>1, <1>2, DeductForOrderKeeps DEF ApproveOrder
<1>3. CASE CancelOrder
  BY <1>3, RefundForOrderKeeps DEF CancelOrder
<1>4. CASE ApproveCashOp
  BY <1>1, <1>4, DeductForCashOpKeeps DEF ApproveCashOp
<1>5. CASE ReverseCashOp
  BY <1>5, RefundForCashOpKeeps DEF ReverseCashOp
<1>6. CASE SettleCashOp
  <2>1. PICK c \in CashOps, a \in Amounts :
          PartialRefundForCashOp(c, VarianceTag(c), a)
    BY <1>6 DEF SettleCashOp
  <2>2. VarianceTag(c) \in Tags
    BY DEF VarianceTag, PartialTags, Tags
  <2>3. QED
    BY <1>1, <2>1, <2>2, PartialRefundForCashOpKeeps
<1>7. CASE ChangeBudget
  BY <1>7, BudgetsAreBudgets, UpdateBudgetKeeps DEF ChangeBudget
<1>8. CASE ApproveTransfer
  <2>1. PICK src \in Projects, tgt \in Projects, srcCat \in Categories,
             tgtCat \in Categories, a \in Amounts :
          TransferBudget(src, tgt, srcCat, tgtCat, a)
    BY <1>8 DEF ApproveTransfer
  <2>2. QED
    BY <1>1, <2>1, TransferBudgetKeeps
<1>9. CASE UNCHANGED ledgerVars
  BY <1>9, LedgerStutter
<1>10. QED
  BY <1>2, <1>3, <1>4, <1>5, <1>6, <1>7, <1>8, <1>9 DEF LedgerNext

(* The invariant holds in every reachable state.                           *)
THEOREM LedgerInvariant == LedgerSpec => []LedgerInv
<1>1. QED
  BY LedgerInitInv, LedgerNextInv, PTL DEF LedgerSpec

(* The tables hold rows of their shape.                                    *)
THEOREM LedgerTypeOK == LedgerSpec => []TypeOK
<1>1. LedgerInv => TypeOK
  BY DEF LedgerInv
<1>2. QED
  BY <1>1, LedgerInvariant, PTL

(* The running totals on every project row are what its orders' and cash   *)
(* operations' rows add up to, for any number of them; jasaSpent may be    *)
(* above the sum only where a cash operation was given back too much.      *)
THEOREM SpendingIsTheLedger == LedgerSpec => []SpentMatchesLedger
<1>1. LedgerInv => SpentMatchesLedger
  BY DEF LedgerInv
<1>2. QED
  BY <1>1, LedgerInvariant, PTL

(* The overbudget flag never goes stale.                                   *)
THEOREM OverbudgetStaysInSync == LedgerSpec => []OverbudgetInSync
<1>1. LedgerInv => OverbudgetInSync
  BY DEF LedgerInv
<1>2. QED
  BY <1>1, LedgerInvariant, PTL

(* Explicit budget lines always fit in the total.                          *)
THEOREM LinesStayWithinTotal == LedgerSpec => []LinesWithinTotal
<1>1. LedgerInv => LinesWithinTotal
  BY DEF LedgerInv
<1>2. QED
  BY <1>1, LedgerInvariant, PTL
=============================================================================
