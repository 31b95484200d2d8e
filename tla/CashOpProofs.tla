---------------------------- MODULE CashOpProofs ----------------------------
(***************************************************************************)
(* CashOperation and CashOpRealisasi for every number of cash operations   *)
(* and of handlers in flight: what holds however handlers overtake one     *)
(* another, and what holds of a request no handler overwrote unread.       *)
(***************************************************************************)
EXTENDS CashOpRealisasi, BudgetLedgerProofs, SequenceTheorems

-----------------------------------------------------------------------------
(* The invariant.  Its parts speak of one row and its steps, so that a step *)
(* that leaves a request alone leaves them alone.                          *)

RequestHandlers == {"submit", "approve", "reject", "update", "repair"}

Roles(s) == [k \in DOMAIN s |-> s[k].role]

Charged(c) == ChargedProject[c] \notin FtttProjects => deductJasa[c] # NoRow

HandlerShape(i) ==
  /\ i = [ number |-> i.number, handler |-> i.handler, cashOp |-> i.cashOp,
           step |-> i.step, amount |-> i.amount, chain |-> i.chain,
           fresh |-> i.fresh, live |-> i.live ]
  /\ i.handler \in RequestHandlers \cup ReviewHandlers
  /\ i.cashOp \in CashOps /\ i.fresh \in BOOLEAN /\ i.live \in BOOLEAN
  /\ i.handler \in {"submit", "repair"} => i.chain \in Seq(Approvers) /\ i.chain # <<>>

(* What a handler checked, on the row and steps it read.                   *)
Checked(h, row, s) ==
  /\ h = "submit" => row.status = "DRAFT"
  /\ h \in {"approve", "reject"} =>
       TurnOf(row) \in DOMAIN s /\ s[TurnOf(row)].status = "PENDING"
  /\ h = "update" => row.status = "REJECTED"
  /\ h = "repair" => row.status \in InApproval
                       /\ \A k \in DOMAIN s : s[k].status # "APPROVED"
  /\ h \in ReviewHandlers => row.status \in InRealisasi
  /\ h \in {"approveByOps", "rejectByOps"} => row.status \in OpsPending
  /\ h \in {"approveByFinance", "rejectByFinance"} =>
       row.status = "REALISASI_PENDING_FINANCE"
  /\ h = "approveByGm" => row.status = "REALISASI_PENDING_GM"
  /\ h = "resubmit" => row.status \in {RejectedStatus[r] : r \in RealisasiRoles}

(* A live handler decides on a row that is there, for the amount that is   *)
(* asked; what a fresh one checked still holds.                            *)
FitsRow(i, row, s) ==
  /\ row.status # "NONE"
  /\ i.handler \in {"approve", "reject"} /\ i.live => i.step \in DOMAIN s
  /\ i.handler = "approve" /\ i.live => i.amount = row.amount
  /\ i.fresh =>
       /\ i.live
       /\ Checked(i.handler, row, s)
       /\ i.handler \in {"approve", "reject"} => i.step = TurnOf(row)
       /\ i.handler = "submit" => i.chain = Chain(Requester[i.cashOp], row.amount)
       /\ i.handler = "repair" => i.chain = Roles(s)

HandlerInv(i) ==
  /\ HandlerShape(i)
  /\ FitsRow(i, request[i.cashOp], steps[i.cashOp])
  /\ i.handler \in ReviewHandlers => Charged(i.cashOp)

RowFits(row, s) ==
  /\ row.currentStep <= Len(s)
  /\ row.status = "NONE" => s = <<>> /\ row = NoRequest
  /\ row.status \in InApproval => s # <<>>
  /\ \A k \in DOMAIN s : s[k].amount <= row.amount

Settled == Granted \cup {"REALISASI_DONE"}

ChargedIfGranted(c) ==
  request[c].status \in Settled \/ request[c].realisasi # "NONE" => Charged(c)

(* A request nobody overwrote unread: its steps are those of its amount's  *)
(* chain, decided in order, and it is reported only after it is granted.   *)
InOrder(c, row, s) ==
  /\ row.status \in {"NONE", "DRAFT"} => s = <<>> /\ row.currentStep = 0
  /\ row.status \in InApproval \cup {"REJECTED"} =>
       /\ row.currentStep \in DOMAIN s
       /\ \A k \in DOMAIN s :
            s[k].status = IF k < row.currentStep THEN "APPROVED"
                          ELSE IF k > row.currentStep \/ row.status # "REJECTED"
                          THEN "PENDING" ELSE "REJECTED"
  /\ row.status \in Settled =>
       /\ s # <<>> /\ \A k \in DOMAIN s : s[k].status = "APPROVED"
       /\ s[Len(s)].amount = row.finalAmount /\ row.finalAmount > 0
  /\ \A j, k \in DOMAIN s :
       j < k /\ s[k].status = "APPROVED" => s[k].amount <= s[j].amount
  /\ s # <<>> => Roles(s) = Chain(Requester[c], row.amount)
  /\ row.status \notin Settled \ {"APPROVED"} => row.realisasi = "NONE"
  /\ row.status = "APPROVED" => row.realisasi = "NONE"
  /\ row.status = "REALISASI_DONE" => row.realisasi = "DONE"

(* ... and its rows of the ledger are none, or what was granted and, once  *)
(* its report is done, what of it was not spent.                           *)
IsVariance(back, row, deduct) ==
  /\ row.realisasiTotal < row.finalAmount
  /\ back = [ project |-> deduct.project,
              amount |-> row.finalAmount - row.realisasiTotal ]

JasaFits(c, row, deduct, refund) ==
  ChargedProject[c] \notin FtttProjects =>
    /\ row.status \notin Settled =>
         deduct = NoRow /\ \A t \in Tags : refund[t] = NoRow
    /\ row.status \in Settled =>
         /\ deduct = [ project |-> ChargedProject[c],
                       amount |-> IF c \in Advances THEN row.finalAmount
                                  ELSE row.amount ]
         /\ \A t \in Tags \ {"REALISASI_VARIANCE"} : refund[t] =
              IF c \notin Advances /\ t = "REIMBURSEMENT_VARIANCE"
                   /\ row.amount > row.finalAmount
              THEN [ project |-> ChargedProject[c],
                     amount |-> row.amount - row.finalAmount ]
              ELSE NoRow
         /\ \/ refund["REALISASI_VARIANCE"] = NoRow
            \/ /\ row.status = "REALISASI_DONE"
               /\ IsVariance(refund["REALISASI_VARIANCE"], row, deduct)

CashShape ==
  /\ TypeOK
  /\ request \in [CashOps -> RequestRow]
  /\ steps \in [CashOps -> Seq(StepRow)]
  /\ disturbed \subseteq CashOps

CashInv ==
  /\ CashShape
  /\ \A i \in inFlight : HandlerInv(i)
  /\ \A c \in CashOps : RowFits(request[c], steps[c]) /\ ChargedIfGranted(c)
  /\ \A c \in CashOps \ disturbed :
       /\ InOrder(c, request[c], steps[c])
       /\ JasaFits(c, request[c], deductJasa[c], refundJasa[c])

-----------------------------------------------------------------------------
(* The chain of approvers.                                                 *)

(* Inserting the GM before the last approver.                              *)
LEMMA WithGMFacts ==
  ASSUME NEW chain \in Seq(Approvers), NEW amount \in Nat, Len(chain) > 0
  PROVE  /\ WithGM(chain, amount) \in Seq(Approvers)
         /\ WithGM(chain, amount) # <<>>
         /\ amount > HighAmount =>
              \E k \in DOMAIN WithGM(chain, amount) :
                WithGM(chain, amount)[k] = "GENERAL_MANAGER"
<1> DEFINE head == SubSeq(chain, 1, Len(chain) - 1)
           tail == <<"GENERAL_MANAGER", "FINANCE">>
<1>1. CASE amount <= HighAmount
  BY <1>1, CashOperationAssumption DEF WithGM
<1>2. CASE ~(amount <= HighAmount)
  <2>1. WithGM(chain, amount) = head \o tail
    BY <1>2 DEF WithGM
  <2>2. tail \in Seq(Approvers) /\ Len(tail) = 2
        /\ tail[1] = "GENERAL_MANAGER"
    BY DEF Approvers
  <2>3. head \in Seq(Approvers) /\ Len(head) = Len(chain) - 1
    <3> DEFINE n == Len(chain) - 1
    <3>1. n \in Nat /\ Len(chain) \in Nat
      OBVIOUS
    <3>2. \A k \in 1..n : chain[k] \in Approvers
      BY <3>1
    <3> HIDE DEF n
    <3>3. /\ SubSeq(chain, 1, n) \in Seq(Approvers)
          /\ Len(SubSeq(chain, 1, n)) = IF 1 <= n THEN n - 1 + 1 ELSE 0
      <4>1. 1 \in Int /\ n \in Int
        BY <3>1
      <4>2. QED
        BY ONLY <3>2, <4>1, SubSeqProperties, SMT
    <3>4. IF 1 <= n THEN n - 1 + 1 = n ELSE n = 0
      BY <3>1
    <3>5. head = SubSeq(chain, 1, n) /\ n = Len(chain) - 1
      BY DEF n
    <3> HIDE DEF head
    <3>6. QED
      BY <3>3, <3>4, <3>5
  <2> HIDE DEF head, tail
  <2>4. /\ head \o tail \in Seq(Approvers) /\ Len(head \o tail) = Len(head) + Len(tail)
        /\ \A k \in 1..(Len(head) + Len(tail)) :
             (head \o tail)[k] = IF k <= Len(head) THEN head[k] ELSE tail[k - Len(head)]
    BY <2>2, <2>3, ConcatProperties
  <2>5. Len(head) \in Nat
    BY <2>3
  <2>6. /\ Len(head) + 1 \in 1..Len(head \o tail)
        /\ (head \o tail)[Len(head) + 1] = "GENERAL_MANAGER"
    BY <2>2, <2>4, <2>5
  <2>7. Len(head) + 1 \in DOMAIN (head \o tail) /\ head \o tail # <<>>
    BY <2>4, <2>6
  <2>8. QED
    BY <2>1, <2>4, <2>6, <2>7
<1>3. QED
  BY <1>1, <1>2

(* Every chain has an approver, and for a high amount the GM is one,       *)
(* unless the GM asks.                                                     *)
LEMMA ChainFacts ==
  ASSUME NEW role, NEW amount \in Nat
  PROVE  /\ Chain(role, amount) \in Seq(Approvers)
         /\ Chain(role, amount) # <<>>
         /\ amount > HighAmount /\ role # "GENERAL_MANAGER" =>
              \E k \in DOMAIN Chain(role, amount) :
                Chain(role, amount)[k] = "GENERAL_MANAGER"
<1>1. CASE role = "OPERATIONAL_MANAGER"
  <2>1. Chain(role, amount) = <<"GENERAL_MANAGER", "FINANCE">>
    BY <1>1 DEF Chain, FirstApprover
  <2>2. QED
    BY <2>1 DEF Approvers
<1>2. CASE role = "FINANCE"
  <2>1. Chain(role, amount) = <<"OPERATIONAL_MANAGER", "GENERAL_MANAGER">>
    BY <1>2 DEF Chain, FirstApprover
  <2>2. QED
    BY <2>1 DEF Approvers
<1>3. CASE role = "GENERAL_MANAGER"
  <2>1. Chain(role, amount) = <<"FINANCE">>
    BY <1>3 DEF Chain, FirstApprover
  <2>2. "FINANCE" \in Approvers
    BY DEF Approvers
  <2>3. <<"FINANCE">> \in Seq(Approvers) /\ <<"FINANCE">> # <<>>
    BY <2>2
  <2>4. QED
    BY <1>3, <2>1, <2>3
<1>4. CASE role \in {"ADMIN", "ADMIN_STOCK"}
  <2>1. Chain(role, amount) = WithGM(<<"OPERATIONAL_MANAGER", "FINANCE">>, amount)
    BY <1>4 DEF Chain, FirstApprover
  <2>2. <<"OPERATIONAL_MANAGER", "FINANCE">> \in Seq(Approvers)
        /\ Len(<<"OPERATIONAL_MANAGER", "FINANCE">>) > 0
    BY DEF Approvers
  <2>3. QED
    BY <2>1, <2>2, WithGMFacts
<1>5. CASE role \in DOMAIN FirstApprover
  <2>1. role \notin {"OPERATIONAL_MANAGER", "FINANCE", "GENERAL_MANAGER",
                     "ADMIN", "ADMIN_STOCK"}
    BY <1>5 DEF FirstApprover
  <2>2. Chain(role, amount) = WithGM(<<FirstApprover[role]>> \o Desk, amount)
    BY <1>5, <2>1 DEF Chain, FirstApprover
  <2>3. FirstApprover[role] \in Approvers
    BY <1>5 DEF FirstApprover, Approvers
  <2>4. <<FirstApprover[role]>> \in Seq(Approvers) /\ Len(<<FirstApprover[role]>>) = 1
    BY <2>3
  <2>5. Desk \in Seq(Approvers) /\ Len(Desk) = 3
    BY DEF Desk, Approvers
  <2>6. /\ <<FirstApprover[role]>> \o Desk \in Seq(Approvers)
        /\ Len(<<FirstApprover[role]>> \o Desk) > 0
    BY <2>4, <2>5, ConcatProperties
  <2>7. QED
    BY <2>2, <2>6, WithGMFacts
<1>6. CASE role \notin {"OPERATIONAL_MANAGER", "FINANCE", "GENERAL_MANAGER",
                        "ADMIN", "ADMIN_STOCK"} \cup DOMAIN FirstApprover
  <2>1. Chain(role, amount) = WithGM(Desk, amount)
    BY <1>6 DEF Chain, FirstApprover
  <2>2. Desk \in Seq(Approvers) /\ Len(Desk) > 0
    BY DEF Desk, Approvers
  <2>3. QED
    BY <2>1, <2>2, WithGMFacts
<1>7. QED
  BY <1>1, <1>2, <1>3, <1>4, <1>5, <1>6

-----------------------------------------------------------------------------
(* Handlers overtaken by a write.                                          *)

(* What a write of c leaves of handler j: one of another request is        *)
(* untouched, one of the same is no longer fresh.                          *)
Late(k, j, c) ==
  /\ HandlerShape(k) /\ k.cashOp = j.cashOp /\ k.handler = j.handler
  /\ k.step = j.step /\ k.amount = j.amount /\ (k.live <=> j.live)
  /\ j.cashOp = c => ~k.fresh
  /\ j.cashOp # c => k = j

(* ... and what it leaves when it deletes the steps.                       *)
Dead(k, j, c) ==
  /\ HandlerShape(k) /\ k.cashOp = j.cashOp /\ k.handler = j.handler
  /\ j.cashOp = c => ~k.fresh /\ ~k.live
  /\ j.cashOp # c => k = j

(* A write makes the other handlers of its request late.                   *)
LEMMA OvertakenFacts ==
  ASSUME NEW H, NEW c, NEW k \in Overtaken(H, c), \A j \in H : HandlerShape(j)
  PROVE  \E j \in H : Late(k, j, c)
<1>1. PICK j \in H : k = [j EXCEPT !.fresh = j.fresh /\ j.cashOp # c]
  BY DEF Overtaken
<1>2. HandlerShape(j)
  OBVIOUS
<1>3. /\ j = [ number |-> j.number, handler |-> j.handler, cashOp |-> j.cashOp,
               step |-> j.step, amount |-> j.amount, chain |-> j.chain,
               fresh |-> j.fresh, live |-> j.live ]
      /\ j.fresh \in BOOLEAN
  BY <1>2 DEF HandlerShape
<1>4. k = [ number |-> j.number, handler |-> j.handler, cashOp |-> j.cashOp,
            step |-> j.step, amount |-> j.amount, chain |-> j.chain,
            fresh |-> j.fresh /\ j.cashOp # c, live |-> j.live ]
  BY <1>1, <1>3
<1>5. /\ k.number = j.number /\ k.handler = j.handler /\ k.cashOp = j.cashOp
      /\ k.step = j.step /\ k.amount = j.amount /\ k.chain = j.chain
      /\ k.live = j.live /\ k.fresh = (j.fresh /\ j.cashOp # c)
  BY <1>4
<1>6. HandlerShape(k)
  BY <1>2, <1>4, <1>5 DEF HandlerShape
<1>7. j.cashOp # c => k = j
  BY <1>3, <1>4
<1>8. Late(k, j, c)
  BY <1>5, <1>6, <1>7 DEF Late
<1>9. QED
  BY <1>8

(* A write that deletes the steps makes them dead.                         *)
LEMMA WithoutStepsFacts ==
  ASSUME NEW H, NEW c, NEW k \in WithoutSteps(Overtaken(H, c), c),
         \A j \in H : HandlerShape(j)
  PROVE  \E j \in H : Dead(k, j, c)
<1>1. PICK l \in Overtaken(H, c) : k = [l EXCEPT !.live = l.live /\ l.cashOp # c]
  BY DEF WithoutSteps
<1>2. PICK j \in H : Late(l, j, c)
  BY OvertakenFacts
<1>3. /\ l = [ number |-> l.number, handler |-> l.handler, cashOp |-> l.cashOp,
               step |-> l.step, amount |-> l.amount, chain |-> l.chain,
               fresh |-> l.fresh, live |-> l.live ]
      /\ l.live \in BOOLEAN
  BY <1>2 DEF HandlerShape, Late
<1>4. k = [ number |-> l.number, handler |-> l.handler, cashOp |-> l.cashOp,
            step |-> l.step, amount |-> l.amount, chain |-> l.chain,
            fresh |-> l.fresh, live |-> l.live /\ l.cashOp # c ]
  BY <1>1, <1>3
<1>5. /\ k.number = l.number /\ k.handler = l.handler /\ k.cashOp = l.cashOp
      /\ k.step = l.step /\ k.amount = l.amount /\ k.chain = l.chain
      /\ k.fresh = l.fresh /\ k.live = (l.live /\ l.cashOp # c)
  BY <1>4
<1>6. HandlerShape(k)
  BY <1>2, <1>4, <1>5 DEF HandlerShape, Late
<1>7. l.cashOp # c => k = l
  BY <1>3, <1>4
<1>8. Dead(k, j, c)
  BY <1>2, <1>5, <1>6, <1>7 DEF Late, Dead
<1>9. QED
  BY <1>8

(* One request is written, and what its row and steps become is in order.  *)
LEMMA WriteKeeps ==
  ASSUME CashInv, TypeOK', NEW c \in CashOps, NEW row \in RequestRow,
         NEW s \in Seq(StepRow), NEW H, H \subseteq inFlight,
         request' = [request EXCEPT ![c] = row],
         steps' = [steps EXCEPT ![c] = s],
         disturbed \subseteq disturbed', disturbed' \subseteq CashOps,
         \A d \in CashOps : deductJasa[d] # NoRow => deductJasa'[d] # NoRow,
         \A d \in CashOps \ {c} :
           deductJasa'[d] = deductJasa[d] /\ refundJasa'[d] = refundJasa[d],
         RowFits(row, s), row.status # "NONE",
         row.status \in Settled \/ row.realisasi # "NONE" => Charged(c)',
         c \notin disturbed' =>
           InOrder(c, row, s) /\ JasaFits(c, row, deductJasa'[c], refundJasa'[c]),
         \/ /\ inFlight' = Overtaken(H, c)
            /\ DOMAIN s = DOMAIN steps[c] /\ row.amount = request[c].amount
         \/ inFlight' = WithoutSteps(Overtaken(H, c), c)
  PROVE  CashInv'
<1>1. CashShape /\ \A i \in inFlight : HandlerInv(i)
  BY DEF CashInv
<1>2. CashShape'
  BY <1>1 DEF CashShape
<1>3. /\ request'[c] = row /\ steps'[c] = s
      /\ \A d \in CashOps : d # c =>
           request'[d] = request[d] /\ steps'[d] = steps[d]
  BY <1>1 DEF CashShape
<1>4. \A d \in CashOps : Charged(d) => Charged(d)'
  BY DEF Charged
<1>5. \A j \in H : HandlerShape(j) /\ HandlerInv(j)
  BY <1>1 DEF HandlerInv
<1>6. ASSUME NEW k \in inFlight' PROVE HandlerInv(k)'
  <2>1. PICK j \in H :
          \/ /\ Late(k, j, c)
             /\ DOMAIN s = DOMAIN steps[c] /\ row.amount = request[c].amount
          \/ Dead(k, j, c)
    BY <1>5, <1>6, OvertakenFacts, WithoutStepsFacts
  <2>2. HandlerInv(j) /\ j.cashOp \in CashOps
    BY <1>5 DEF HandlerShape
  <2>3. /\ HandlerShape(k) /\ k.cashOp = j.cashOp /\ k.handler = j.handler
        /\ j.cashOp # c => k = j
    BY <2>1 DEF Late, Dead
  <2>4. k.handler \in ReviewHandlers => Charged(k.cashOp)'
    BY <1>4, <2>2, <2>3 DEF HandlerInv
  <2>5. FitsRow(k, request'[k.cashOp], steps'[k.cashOp])
    <3>1. CASE j.cashOp # c
      BY <1>3, <2>2, <2>3, <3>1 DEF HandlerInv
    <3>2. CASE j.cashOp = c
      <4>1. FitsRow(j, request[c], steps[c])
        BY <2>2, <3>2 DEF HandlerInv
      <4>2. FitsRow(k, row, s)
        BY <2>1, <3>2, <4>1 DEF FitsRow, Late, Dead
      <4>3. QED
        BY <1>3, <2>3, <3>2, <4>2
    <3>3. QED
      BY <3>1, <3>2
  <2>6. QED
    BY <2>3, <2>4, <2>5 DEF HandlerInv, HandlerShape
<1>7. ASSUME NEW d \in CashOps
      PROVE  RowFits(request'[d], steps'[d]) /\ ChargedIfGranted(d)'
  BY <1>3, <1>4 DEF CashInv, ChargedIfGranted
<1>8. ASSUME NEW d \in CashOps \ disturbed'
      PROVE  /\ InOrder(d, request'[d], steps'[d])
             /\ JasaFits(d, request'[d], deductJasa'[d], refundJasa'[d])
  BY <1>3 DEF CashInv
<1>9. QED
  BY <1>2, <1>6, <1>7, <1>8 DEF CashInv

-----------------------------------------------------------------------------
(* Step rows and their roles.                                              *)

(* A function from 1..n is a sequence of its values.                       *)
LEMMA FunctionIsSeq ==
  ASSUME NEW S, NEW n \in Nat, NEW f \in [1..n -> S]
  PROVE  f \in Seq(S) /\ Len(f) = n /\ DOMAIN f = 1..n
<1>1. f \in Seq(S)
  BY SeqDef
<1>2. QED
  BY <1>1

(* The roles of step rows are a chain as long.                             *)
LEMMA RolesFacts ==
  ASSUME NEW s \in Seq(StepRow)
  PROVE  /\ Roles(s) \in Seq(Approvers) /\ DOMAIN Roles(s) = DOMAIN s
         /\ s # <<>> => Roles(s) # <<>>
<1>1. Len(s) \in Nat /\ DOMAIN s = 1..Len(s) /\ \A k \in 1..Len(s) : s[k] \in StepRow
  OBVIOUS
<1>2. Roles(s) \in [1..Len(s) -> Approvers]
  BY <1>1 DEF Roles, StepRow
<1>3. Roles(s) \in Seq(Approvers) /\ Len(Roles(s)) = Len(s)
  BY <1>1, <1>2, FunctionIsSeq
<1>4. s # <<>> => Roles(s) # <<>>
  BY <1>1, <1>3
<1>5. QED
  BY <1>1, <1>2, <1>3, <1>4

(* Fresh step rows: one per role, undecided.                               *)
LEMMA PendingStepsFacts ==
  ASSUME NEW chain \in Seq(Approvers), chain # <<>>
  PROVE  LET s == PendingSteps(chain) IN
         /\ s \in Seq(StepRow) /\ s # <<>> /\ Len(s) > 0
         /\ 1 \in DOMAIN s
         /\ \A k \in DOMAIN s :
              s[k].status = "PENDING" /\ s[k].amount = 0 /\ k \in Nat /\ k >= 1
         /\ Roles(s) = chain
<1> DEFINE s == PendingSteps(chain)
<1>1. Len(chain) \in Nat /\ DOMAIN chain = 1..Len(chain) /\ Len(chain) > 0
  OBVIOUS
<1>2. \A k \in 1..Len(chain) : chain[k] \in Approvers
  OBVIOUS
<1>3. s = [k \in 1..Len(chain) |->
             [role |-> chain[k], status |-> "PENDING", amount |-> 0]]
  BY <1>1 DEF PendingSteps
<1> HIDE DEF s
<1>4. \A k \in 1..Len(chain) :
        /\ s[k] = [role |-> chain[k], status |-> "PENDING", amount |-> 0]
        /\ s[k] \in StepRow
  BY <1>2, <1>3 DEF StepRow
<1>5. s \in [1..Len(chain) -> StepRow]
  BY <1>3, <1>4
<1>6. s \in Seq(StepRow) /\ Len(s) = Len(chain) /\ DOMAIN s = 1..Len(chain)
  BY <1>1, <1>5, FunctionIsSeq
<1>7. Roles(s) = chain
  <2>1. Roles(s) = [k \in 1..Len(chain) |-> chain[k]]
    BY <1>4, <1>6 DEF Roles
  <2>2. chain = [k \in 1..Len(chain) |-> chain[k]]
    OBVIOUS
  <2>3. QED
    BY <2>1, <2>2
<1>8. /\ s # <<>> /\ Len(s) > 0 /\ 1 \in DOMAIN s
      /\ \A k \in DOMAIN s :
           s[k].status = "PENDING" /\ s[k].amount = 0 /\ k \in Nat /\ k >= 1
  BY <1>1, <1>4, <1>6
<1>9. QED
  BY <1>6, <1>7, <1>8 DEF s

-----------------------------------------------------------------------------
(* Handlers come and go.                                                   *)

(* A step that changes only the set of handlers.                           *)
LEMMA HandlersChange ==
  ASSUME CashInv, UNCHANGED <<ledgerVars, request, steps, disturbed>>,
         \A i \in inFlight' : HandlerInv(i)
  PROVE  CashInv'
<1>1. UNCHANGED <<project, deductMaterial, refundMaterial, deductJasa, refundJasa>>
  BY DEF ledgerVars, ledgerRows
<1>2. CashShape'
  BY <1>1 DEF CashInv, CashShape, TypeOK
<1>3. \A i \in inFlight' : HandlerInv(i)'
  BY <1>1 DEF HandlerInv, Charged
<1>4. QED
  BY <1>1, <1>2, <1>3 DEF CashInv, ChargedIfGranted, Charged

(* What a new handler holds is what a fresh one must.                      *)
LEMMA StartHandlerKeeps ==
  ASSUME CashInv, NEW h \in RequestHandlers \cup ReviewHandlers, NEW c \in CashOps,
         NEW step, NEW amount, NEW chain,
         StartHandler(h, c, step, amount, chain),
         h \in {"submit", "repair"} => chain \in Seq(Approvers) /\ chain # <<>>,
         request[c].status # "NONE",
         Checked(h, request[c], steps[c]),
         h \in {"approve", "reject"} => step = TurnOf(request[c]),
         h = "approve" => amount = request[c].amount,
         h = "submit" => chain = Chain(Requester[c], request[c].amount),
         h = "repair" => chain = Roles(steps[c]),
         h \in ReviewHandlers => Charged(c)
  PROVE  CashInv'
<1> DEFINE i == Handler(h, c, step, amount, chain)
<1>1. /\ i = [ number |-> i.number, handler |-> h, cashOp |-> c, step |-> step,
               amount |-> amount, chain |-> chain, fresh |-> TRUE, live |-> TRUE ]
      /\ i.handler = h /\ i.cashOp = c /\ i.step = step /\ i.amount = amount
      /\ i.chain = chain /\ i.fresh = TRUE /\ i.live = TRUE
  BY DEF Handler
<1>2. inFlight' = inFlight \cup {i} /\ UNCHANGED <<ledgerVars, request, steps, disturbed>>
  BY DEF StartHandler
<1> HIDE DEF i
<1>3. HandlerShape(i)
  BY <1>1 DEF HandlerShape
<1>4. FitsRow(i, request[c], steps[c])
  BY <1>1 DEF FitsRow, Checked
<1>5. HandlerInv(i)
  BY <1>1, <1>3, <1>4 DEF HandlerInv
<1>6. \A k \in inFlight' : HandlerInv(k)
  BY <1>2, <1>5 DEF CashInv
<1>7. QED
  BY <1>2, <1>6, HandlersChange

(* The handlers of CashOperationService check what Checked says.           *)
LEMMA StartKeeps ==
  ASSUME CashInv, NEW c \in CashOps, NEW h \in RequestHandlers, Start(h, c)
  PROVE  CashInv'
<1> DEFINE row == request[c]
           s == steps[c]
           step == IF h \in {"approve", "reject"} THEN TurnOf(request[c]) ELSE 0
           amount == IF h = "approve" THEN request[c].amount ELSE 0
<1>1. MayStart(h, c) /\ StartHandler(h, c, step, amount, ChainRead(h, c))
  BY DEF Start
<1>2. row \in RequestRow /\ s \in Seq(StepRow) /\ RowFits(row, s)
  BY DEF CashInv, CashShape
<1>3. Checked(h, row, s)
  BY <1>1 DEF RequestHandlers, ReviewHandlers, MayStart, Checked, AwaitsDecision
<1>4. row.status # "NONE"
  <2>1. CASE h \in {"approve", "reject"}
    <3>1. s # <<>>
      BY <1>3, <2>1 DEF Checked
    <3>2. QED
      BY <1>2, <3>1 DEF RowFits
  <2>2. CASE h \in {"submit", "update", "repair"}
    BY <1>3, <2>2 DEF Checked, InApproval
  <2>3. QED
    BY <2>1, <2>2 DEF RequestHandlers
<1>5. h = "submit" => /\ ChainRead(h, c) = Chain(Requester[c], row.amount)
                      /\ ChainRead(h, c) \in Seq(Approvers) /\ ChainRead(h, c) # <<>>
  <2>1. row.amount \in Nat
    BY <1>2 DEF RequestRow
  <2>2. h = "submit" => ChainRead(h, c) = Chain(Requester[c], row.amount)
    BY DEF ChainRead
  <2> HIDE DEF row
  <2>3. QED
    BY <2>1, <2>2, ChainFacts
<1>6. h = "repair" => /\ ChainRead(h, c) = Roles(s)
                      /\ ChainRead(h, c) \in Seq(Approvers) /\ ChainRead(h, c) # <<>>
  <2>1. h = "repair" => ChainRead(h, c) = Roles(s)
    BY DEF ChainRead, Roles
  <2>2. h = "repair" => s # <<>>
    BY <1>2, <1>3 DEF Checked, RowFits
  <2> HIDE DEF s
  <2>3. QED
    BY <1>2, <2>1, <2>2, RolesFacts
<1>7. h \notin ReviewHandlers
  BY DEF RequestHandlers, ReviewHandlers
<1>8. QED
  BY <1>1, <1>3, <1>4, <1>5, <1>6, <1>7, StartHandlerKeeps

(* Only requests without a row are created, and no handler knows of them.  *)
LEMMA CreateKeeps ==
  ASSUME CashInv, NEW c \in CashOps, NEW a \in Amounts, Create(c, a)
  PROVE  CashInv'
<1> DEFINE row == [request[c] EXCEPT !.status = "DRAFT", !.amount = a]
<1>1. /\ request[c].status = "NONE"
      /\ UNCHANGED <<ledgerVars, steps, inFlight, disturbed>>
      /\ CashShape /\ \A i \in inFlight : HandlerInv(i)
  BY DEF Create, CashInv
<1>2. request[c] = NoRequest /\ steps[c] = <<>>
  BY <1>1 DEF CashInv, RowFits
<1>3. /\ request' = [request EXCEPT ![c] = row]
      /\ row \in RequestRow /\ row.status = "DRAFT" /\ row.currentStep = 0
      /\ row.realisasi = "NONE" /\ row.amount = a
  <2>1. request[c] \in RequestRow /\ a \in Nat
    BY <1>1, LedgerAssumption DEF CashShape
  <2>2. request' = [request EXCEPT ![c] = row]
    BY <1>1, <2>1 DEF Create, CashShape
  <2>3. row = [ status |-> "DRAFT", amount |-> a, currentStep |-> 0,
                finalAmount |-> 0, realisasi |-> "NONE", realisasiTotal |-> 0,
                turn |-> Null ]
    <3>1. row = [NoRequest EXCEPT !.status = "DRAFT", !.amount = a]
      BY <1>2
    <3> HIDE DEF row
    <3>2. QED
      BY <3>1 DEF NoRequest
  <2> HIDE DEF row
  <2>4. QED
    BY <2>1, <2>2, <2>3 DEF RequestRow, Statuses
<1> HIDE DEF row
<1>4. UNCHANGED <<project, deductMaterial, refundMaterial, deductJasa, refundJasa>>
  BY <1>1 DEF ledgerVars, ledgerRows
<1>5. CashShape'
  BY <1>1, <1>3, <1>4 DEF CashShape, TypeOK
<1>6. /\ request'[c] = row
      /\ \A d \in CashOps : d # c => request'[d] = request[d]
  BY <1>1, <1>3 DEF CashShape
<1>7. \A i \in inFlight : HandlerInv(i)'
  <2> SUFFICES ASSUME NEW i \in inFlight PROVE HandlerInv(i)'
    OBVIOUS
  <2>1. HandlerInv(i) /\ i.cashOp \in CashOps
    BY <1>1 DEF HandlerInv, HandlerShape
  <2>2. i.cashOp # c
    BY <1>1, <2>1 DEF HandlerInv, FitsRow
  <2>3. QED
    BY <1>1, <1>4, <1>6, <2>1, <2>2 DEF HandlerInv, Charged, HandlerShape
<1>8. RowFits(row, <<>>)
  BY <1>3 DEF RowFits, InApproval
<1>9. InOrder(c, row, <<>>)
  BY <1>3 DEF InOrder, InApproval, Settled, Granted, InRealisasi, PendingStatus,
    RejectedStatus, RealisasiRoles
<1>10. c \notin disturbed => JasaFits(c, row, deductJasa[c], refundJasa[c])
  <2> SUFFICES ASSUME c \notin disturbed PROVE JasaFits(c, row, deductJasa[c], refundJasa[c])
    OBVIOUS
  <2>1. JasaFits(c, request[c], deductJasa[c], refundJasa[c])
    BY DEF CashInv
  <2>2. {"NONE", "DRAFT"} \cap Settled = {} /\ Granted \subseteq Settled
    BY DEF Settled, Granted, InRealisasi, PendingStatus, RejectedStatus, RealisasiRoles
  <2>3. QED
    BY <1>1, <1>3, <2>1, <2>2 DEF JasaFits
<1>11. ChargedIfGranted(c)'
  BY <1>3, <1>6 DEF ChargedIfGranted, Settled, Granted, InRealisasi, PendingStatus,
    RejectedStatus, RealisasiRoles
<1>12. ASSUME NEW d \in CashOps
       PROVE  RowFits(request'[d], steps'[d]) /\ ChargedIfGranted(d)'
  BY <1>1, <1>2, <1>4, <1>6, <1>8, <1>11 DEF CashInv, ChargedIfGranted, Charged
<1>13. ASSUME NEW d \in CashOps \ disturbed'
       PROVE  /\ InOrder(d, request'[d], steps'[d])
              /\ JasaFits(d, request'[d], deductJasa'[d], refundJasa'[d])
  BY <1>1, <1>2, <1>4, <1>6, <1>9, <1>10 DEF CashInv
<1>14. QED
  BY <1>1, <1>5, <1>7, <1>12, <1>13 DEF CashInv

-----------------------------------------------------------------------------
(* Writers that leave the ledger alone.                                    *)

(* Which statuses mean that the money was granted.                         *)
LEMMA StatusSets ==
  /\ Granted \subseteq Settled /\ Settled \subseteq Statuses
  /\ "APPROVED" \in Granted /\ InRealisasi \subseteq Granted
  /\ "REALISASI_DONE" \in Settled /\ "REALISASI_DONE" \notin Granted
  /\ "APPROVED" \notin InRealisasi
  /\ \A st \in {"NONE", "DRAFT", "REJECTED"} \cup InApproval :
       st \notin Settled /\ st \in Statuses
  BY DEF Settled, Granted, Statuses, InApproval, InRealisasi, PendingStatus,
    RejectedStatus, RealisasiRoles

(* What a handler in flight may rely on.                                   *)
LEMMA WriterFacts ==
  ASSUME CashInv, NEW i \in inFlight
  PROVE  LET c == i.cashOp IN
         /\ c \in CashOps /\ HandlerShape(i) /\ Others(i) \subseteq inFlight
         /\ request[c] \in RequestRow /\ steps[c] \in Seq(StepRow)
         /\ FitsRow(i, request[c], steps[c]) /\ RowFits(request[c], steps[c])
         /\ ChargedIfGranted(c)
         /\ i.handler \in ReviewHandlers => Charged(c)
         /\ c \notin disturbed =>
              /\ InOrder(c, request[c], steps[c])
              /\ JasaFits(c, request[c], deductJasa[c], refundJasa[c])
  BY DEF CashInv, CashShape, HandlerInv, HandlerShape, Others

(* A handler that overwrites what it never read disturbs its request.      *)
LEMMA WriteRowFacts ==
  ASSUME CashInv, NEW i \in inFlight, NEW row, WriteRow(i, row)
  PROVE  /\ request' = [request EXCEPT ![i.cashOp] = row]
         /\ disturbed \subseteq disturbed' /\ disturbed' \subseteq CashOps
         /\ i.cashOp \notin disturbed' => i.fresh /\ i.cashOp \notin disturbed
<1>1. i.cashOp \in CashOps
  BY WriterFacts
<1>2. QED
  BY <1>1 DEF WriteRow, CashInv, CashShape

(* A write of row and steps without a ledger row.                          *)
LEMMA PlainWriteKeeps ==
  ASSUME CashInv, NEW i \in inFlight, NEW row \in RequestRow, NEW s \in Seq(StepRow),
         WriteRow(i, row), steps' = [steps EXCEPT ![i.cashOp] = s],
         UNCHANGED ledgerVars,
         RowFits(row, s), row.status # "NONE",
         row.status \in Settled \/ row.realisasi # "NONE" => Charged(i.cashOp),
         i.fresh /\ i.cashOp \notin disturbed =>
           /\ InOrder(i.cashOp, row, s)
           /\ JasaFits(i.cashOp, row, deductJasa[i.cashOp], refundJasa[i.cashOp]),
         \/ /\ inFlight' = Overtaken(Others(i), i.cashOp)
            /\ DOMAIN s = DOMAIN steps[i.cashOp]
            /\ row.amount = request[i.cashOp].amount
         \/ inFlight' = WithoutSteps(Overtaken(Others(i), i.cashOp), i.cashOp)
  PROVE  CashInv'
<1> DEFINE c == i.cashOp
           H == Others(i)
<1>1. c \in CashOps /\ H \subseteq inFlight
  BY WriterFacts
<1>2. /\ request' = [request EXCEPT ![c] = row]
      /\ disturbed \subseteq disturbed' /\ disturbed' \subseteq CashOps
      /\ c \notin disturbed' => i.fresh /\ c \notin disturbed
  BY WriteRowFacts
<1>3. deductJasa' = deductJasa /\ refundJasa' = refundJasa /\ TypeOK'
  BY DEF ledgerVars, ledgerRows, CashInv, CashShape, TypeOK
<1>4. row.status \in Settled \/ row.realisasi # "NONE" => Charged(c)'
  BY <1>3 DEF Charged
<1>5. c \notin disturbed' =>
        InOrder(c, row, s) /\ JasaFits(c, row, deductJasa'[c], refundJasa'[c])
  BY <1>2, <1>3
<1>6. /\ steps' = [steps EXCEPT ![c] = s]
      /\ \/ /\ inFlight' = Overtaken(H, c)
            /\ DOMAIN s = DOMAIN steps[c] /\ row.amount = request[c].amount
         \/ inFlight' = WithoutSteps(Overtaken(H, c), c)
  OBVIOUS
<1> HIDE DEF c, H
<1>7. /\ \A d \in CashOps : deductJasa[d] # NoRow => deductJasa'[d] # NoRow
      /\ \A d \in CashOps \ {c} :
           deductJasa'[d] = deductJasa[d] /\ refundJasa'[d] = refundJasa[d]
  BY <1>3
<1>8. QED
  BY <1>1, <1>2, <1>3, <1>4, <1>5, <1>6, <1>7, WriteKeeps

(* submit: a draft that was read gets the chain of the amount that was     *)
(* read.                                                                   *)
LEMMA SubmitKeeps ==
  ASSUME CashInv, NEW i \in inFlight, Submit(i)
  PROVE  CashInv'
<1> DEFINE c == i.cashOp
           old == request[c]
           row == [old EXCEPT !.status = "SUBMITTED", !.currentStep = 1]
           s == PendingSteps(i.chain)
<1>1. /\ i.handler = "submit" /\ WriteRow(i, row)
      /\ steps' = [steps EXCEPT ![c] = s] /\ UNCHANGED ledgerVars
      /\ inFlight' = WithoutSteps(Overtaken(Others(i), c), c)
  BY DEF Submit, WriteRequestAndSteps
<1>2. /\ c \in CashOps /\ old \in RequestRow /\ HandlerShape(i)
      /\ FitsRow(i, old, steps[c]) /\ ChargedIfGranted(c)
      /\ c \notin disturbed =>
           /\ InOrder(c, old, steps[c])
           /\ JasaFits(c, old, deductJasa[c], refundJasa[c])
  BY WriterFacts
<1> HIDE DEF old
<1>3. /\ row \in RequestRow /\ row.status = "SUBMITTED" /\ row.currentStep = 1
      /\ row.amount = old.amount /\ row.realisasi = old.realisasi
      /\ row.amount \in Nat
  BY <1>2 DEF RequestRow, Statuses, InApproval
<1>4. i.chain \in Seq(Approvers) /\ i.chain # <<>>
  BY <1>1, <1>2 DEF HandlerShape
<1>5. /\ s \in Seq(StepRow) /\ s # <<>> /\ Len(s) > 0 /\ 1 \in DOMAIN s
      /\ \A k \in DOMAIN s :
           s[k].status = "PENDING" /\ s[k].amount = 0 /\ k \in Nat /\ k >= 1
      /\ Roles(s) = i.chain
  BY <1>4, PendingStepsFacts
<1> HIDE DEF row, s
<1>6. RowFits(row, s)
  BY <1>3, <1>5 DEF RowFits
<1>7. row.status \in Settled \/ row.realisasi # "NONE" => Charged(c)
  BY <1>2, <1>3, StatusSets DEF ChargedIfGranted, old, InApproval
<1>8. ASSUME i.fresh, c \notin disturbed
      PROVE  InOrder(c, row, s) /\ JasaFits(c, row, deductJasa[c], refundJasa[c])
  <2>1. old.status = "DRAFT" /\ i.chain = Chain(Requester[c], old.amount)
    BY <1>1, <1>2, <1>8 DEF FitsRow, Checked
  <2>2. old.realisasi = "NONE"
    BY <1>2, <1>8, <2>1, StatusSets DEF InOrder
  <2>3. row.status \notin Settled /\ old.status \notin Settled
    BY <1>3, <2>1, StatusSets DEF InApproval
  <2>4. InOrder(c, row, s)
    BY <1>3, <1>5, <2>1, <2>2, <2>3, StatusSets DEF InOrder
  <2>5. JasaFits(c, row, deductJasa[c], refundJasa[c])
    BY <1>2, <1>8, <2>3, StatusSets DEF JasaFits
  <2>6. QED
    BY <2>4, <2>5
<1>9. row.status # "NONE"
  BY <1>3
<1>10. QED
  BY <1>1, <1>3, <1>5, <1>6, <1>7, <1>8, <1>9, PlainWriteKeeps

(* update: a rejected request is a draft again, without steps.             *)
LEMMA UpdateKeeps ==
  ASSUME CashInv, NEW i \in inFlight, NEW a \in Amounts \cup {0}, Update(i, a)
  PROVE  CashInv'
<1> DEFINE c == i.cashOp
           old == request[c]
           row == [old EXCEPT !.status = "DRAFT", !.amount = a, !.currentStep = 0]
           s == <<>>
<1>1. /\ i.handler = "update" /\ WriteRow(i, row)
      /\ steps' = [steps EXCEPT ![c] = s] /\ UNCHANGED ledgerVars
      /\ inFlight' = WithoutSteps(Overtaken(Others(i), c), c)
  BY DEF Update, WriteRequestAndSteps
<1>2. /\ c \in CashOps /\ old \in RequestRow
      /\ FitsRow(i, old, steps[c]) /\ ChargedIfGranted(c)
      /\ c \notin disturbed =>
           /\ InOrder(c, old, steps[c])
           /\ JasaFits(c, old, deductJasa[c], refundJasa[c])
  BY WriterFacts
<1>3. a \in Nat
  BY LedgerAssumption
<1> HIDE DEF old
<1>4. /\ row \in RequestRow /\ row.status = "DRAFT" /\ row.currentStep = 0
      /\ row.amount = a /\ row.realisasi = old.realisasi
  BY <1>2, <1>3 DEF RequestRow, Statuses
<1>5. s \in Seq(StepRow) /\ Len(s) = 0 /\ DOMAIN s = {}
  OBVIOUS
<1> HIDE DEF row
<1>6. RowFits(row, s)
  BY <1>4, <1>5 DEF RowFits, InApproval
<1>7. row.status \in Settled \/ row.realisasi # "NONE" => Charged(c)
  BY <1>2, <1>4, StatusSets DEF ChargedIfGranted, old
<1>8. ASSUME i.fresh, c \notin disturbed
      PROVE  InOrder(c, row, s) /\ JasaFits(c, row, deductJasa[c], refundJasa[c])
  <2>1. old.status = "REJECTED"
    BY <1>1, <1>2, <1>8 DEF FitsRow, Checked
  <2>2. old.realisasi = "NONE"
    BY <1>2, <1>8, <2>1, StatusSets DEF InOrder
  <2>3. row.status \notin Settled /\ old.status \notin Settled
    BY <1>4, <2>1, StatusSets
  <2>4. InOrder(c, row, s)
    BY <1>4, <1>5, <2>2, <2>3, StatusSets DEF InOrder, InApproval
  <2>5. JasaFits(c, row, deductJasa[c], refundJasa[c])
    BY <1>2, <1>8, <2>3, StatusSets DEF JasaFits
  <2>6. QED
    BY <2>4, <2>5
<1>9. row.status # "NONE"
  BY <1>4
<1>10. QED
  BY <1>1, <1>4, <1>5, <1>6, <1>7, <1>8, <1>9, PlainWriteKeeps

(* repairApprovalFromChain: the same roles decide again.                   *)
LEMMA RepairKeeps ==
  ASSUME CashInv, NEW i \in inFlight, Repair(i)
  PROVE  CashInv'
<1> DEFINE c == i.cashOp
           old == request[c]
           row == [old EXCEPT !.currentStep = 1]
           s == PendingSteps(i.chain)
<1>1. /\ i.handler = "repair" /\ WriteRow(i, row)
      /\ steps' = [steps EXCEPT ![c] = s] /\ UNCHANGED ledgerVars
      /\ inFlight' = WithoutSteps(Overtaken(Others(i), c), c)
  BY DEF Repair, WriteRequestAndSteps
<1>2. /\ c \in CashOps /\ old \in RequestRow /\ HandlerShape(i)
      /\ steps[c] \in Seq(StepRow)
      /\ FitsRow(i, old, steps[c]) /\ ChargedIfGranted(c)
      /\ c \notin disturbed =>
           /\ InOrder(c, old, steps[c])
           /\ JasaFits(c, old, deductJasa[c], refundJasa[c])
  BY WriterFacts
<1> HIDE DEF old
<1>3. /\ row \in RequestRow /\ row.status = old.status /\ row.currentStep = 1
      /\ row.amount = old.amount /\ row.realisasi = old.realisasi
      /\ row.amount \in Nat
  BY <1>2 DEF RequestRow
<1>4. i.chain \in Seq(Approvers) /\ i.chain # <<>>
  BY <1>1, <1>2 DEF HandlerShape
<1>5. /\ s \in Seq(StepRow) /\ s # <<>> /\ Len(s) > 0 /\ 1 \in DOMAIN s
      /\ \A k \in DOMAIN s :
           s[k].status = "PENDING" /\ s[k].amount = 0 /\ k \in Nat /\ k >= 1
      /\ Roles(s) = i.chain
  BY <1>4, PendingStepsFacts
<1> HIDE DEF row, s
<1>6. row.status # "NONE"
  BY <1>2, <1>3 DEF FitsRow
<1>7. RowFits(row, s)
  BY <1>3, <1>5, <1>6 DEF RowFits
<1>8. row.status \in Settled \/ row.realisasi # "NONE" => Charged(c)
  BY <1>2, <1>3 DEF ChargedIfGranted, old
<1>9. ASSUME i.fresh, c \notin disturbed
      PROVE  InOrder(c, row, s) /\ JasaFits(c, row, deductJasa[c], refundJasa[c])
  <2>1. old.status \in InApproval /\ i.chain = Roles(steps[c])
    BY <1>1, <1>2, <1>9 DEF FitsRow, Checked
  <2>2. old.realisasi = "NONE" /\ old.status \notin Settled
    BY <1>2, <1>9, <2>1, StatusSets DEF InOrder
  <2>3. steps[c] # <<>>
    <3>1. old.currentStep \in DOMAIN steps[c]
      BY <1>2, <1>9, <2>1 DEF InOrder
    <3>2. QED
      BY <1>2, <3>1
  <2>4. Roles(s) = Chain(Requester[c], row.amount)
    BY <1>2, <1>3, <1>5, <1>9, <2>1, <2>3 DEF InOrder
  <2>5. row.status \in InApproval /\ row.status \notin Settled
        /\ row.status \notin {"NONE", "DRAFT", "REJECTED", "APPROVED", "REALISASI_DONE"}
    BY <1>3, <2>1, <2>2 DEF InApproval
  <2>6. InOrder(c, row, s)
    BY <1>3, <1>5, <2>2, <2>4, <2>5 DEF InOrder
  <2>7. JasaFits(c, row, deductJasa[c], refundJasa[c])
    BY <1>2, <1>3, <1>9, <2>2, <2>5, StatusSets DEF JasaFits
  <2>8. QED
    BY <2>6, <2>7
<1>10. QED
  BY <1>1, <1>3, <1>5, <1>6, <1>7, <1>8, <1>9, PlainWriteKeeps

-----------------------------------------------------------------------------
(* One step is decided.                                                    *)

(* Rewriting one step row keeps the roles and the other rows.              *)
LEMMA DecidedSteps ==
  ASSUME NEW s \in Seq(StepRow), NEW k \in DOMAIN s, NEW r \in StepRow,
         r.role = s[k].role
  PROVE  LET t == [s EXCEPT ![k] = r] IN
         /\ t \in Seq(StepRow) /\ DOMAIN t = DOMAIN s /\ Len(t) = Len(s)
         /\ t # <<>>
         /\ \A j \in DOMAIN s : t[j] = IF j = k THEN r ELSE s[j]
         /\ Roles(t) = Roles(s)
<1> DEFINE t == [s EXCEPT ![k] = r]
<1>1. /\ Len(s) \in Nat /\ DOMAIN s = 1..Len(s) /\ s \in [1..Len(s) -> StepRow]
  OBVIOUS
<1>2. /\ DOMAIN t = DOMAIN s
      /\ \A j \in DOMAIN s : t[j] = IF j = k THEN r ELSE s[j]
      /\ t \in [1..Len(s) -> StepRow]
  BY <1>1
<1> HIDE DEF t
<1>3. t \in Seq(StepRow) /\ Len(t) = Len(s)
  BY <1>1, <1>2, FunctionIsSeq
<1>4. Roles(t) = Roles(s)
  BY <1>2 DEF Roles
<1>5. t # <<>>
  BY <1>1, <1>2, <1>3
<1>6. QED
  BY <1>2, <1>3, <1>4, <1>5 DEF t

(* A nonempty set of numbers up to n has a greatest one.                   *)
LEMMA GreatestElement ==
  ASSUME NEW n \in Nat, NEW T, T \subseteq 1..n, T # {}
  PROVE  \E m \in T : \A j \in T : j <= m
<1> DEFINE U == {n - j : j \in T}
<1>1. U \subseteq Nat /\ U # {}
  <2>1. \A j \in T : n - j \in Nat
    OBVIOUS
  <2>2. QED
    BY <2>1
<1> HIDE DEF U
<1>2. PICK u \in U : \A v \in U : u <= v
  BY <1>1, LeastElement
<1>3. PICK m \in T : u = n - m
  BY DEF U
<1>4. \A j \in T : u <= n - j
  BY <1>2 DEF U
<1>5. \A j \in T : j \in Nat /\ m \in Nat
  OBVIOUS
<1>6. \A j \in T : j <= m
  BY <1>3, <1>4, <1>5
<1>7. QED
  BY <1>6

(* The last approved step before an approver's, when there is one.         *)
LEMMA CeilingFacts ==
  ASSUME NEW i, steps[i.cashOp] \in Seq(StepRow), i.step \in DOMAIN steps[i.cashOp]
  PROVE  \/ EarlierApproved(i.cashOp, i.step) = {} /\ Ceiling(i) = i.amount
         \/ \E last \in EarlierApproved(i.cashOp, i.step) :
              /\ \A j \in EarlierApproved(i.cashOp, i.step) : j <= last
              /\ last \in DOMAIN steps[i.cashOp] /\ last < i.step
              /\ Ceiling(i) = steps[i.cashOp][last].amount
<1> DEFINE earlier == EarlierApproved(i.cashOp, i.step)
           IsLast(j) == \A k \in earlier : k <= j
<1>1. CASE earlier = {}
  BY <1>1 DEF Ceiling
<1>2. CASE earlier # {}
  <2>1. i.step - 1 \in Nat /\ earlier \subseteq 1..(i.step - 1)
    BY DEF EarlierApproved
  <2>2. \E m \in earlier : IsLast(m)
    BY <1>2, <2>1, GreatestElement
  <2> DEFINE last == CHOOSE j \in earlier : IsLast(j)
  <2>3. last \in earlier /\ IsLast(last)
    BY <2>2
  <2>4. Ceiling(i) = steps[i.cashOp][last].amount
    BY <1>2 DEF Ceiling
  <2> HIDE DEF last
  <2>5. last \in DOMAIN steps[i.cashOp] /\ last < i.step
    BY <2>1, <2>3
  <2>6. QED
    BY <2>3, <2>4, <2>5
<1>3. QED
  BY <1>1, <1>2

(* The step row an approver leaves.                                        *)
ApprovedRow(r, a) == [r EXCEPT !.status = "APPROVED", !.amount = a]

(* A decision, on the row of a live handler.                               *)
LEMMA DecideFacts ==
  ASSUME CashInv, NEW i \in inFlight, NEW a \in Amounts, Decide(i, a)
  PROVE  LET c == i.cashOp
             s == steps[c]
             k == i.step
             r == ApprovedRow(s[k], a)
         IN  /\ i.handler = "approve" /\ i.live /\ k \in DOMAIN s
             /\ r \in StepRow /\ r.role = s[k].role
             /\ r.status = "APPROVED" /\ r.amount = a
             /\ steps' = [steps EXCEPT ![c] = [s EXCEPT ![k] = r]]
             /\ a \in Nat \ {0} /\ a <= request[c].amount
<1> DEFINE c == i.cashOp
           s == steps[c]
           k == i.step
           r == ApprovedRow(s[k], a)
<1>1. /\ c \in CashOps /\ s \in Seq(StepRow) /\ FitsRow(i, request[c], s)
      /\ RowFits(request[c], s) /\ request[c] \in RequestRow
  BY WriterFacts
<1>2. i.handler = "approve" /\ i.live /\ a <= Ceiling(i)
  BY DEF Decide
<1>3. k \in DOMAIN s /\ i.amount = request[c].amount
  BY <1>1, <1>2 DEF FitsRow
<1>4. s[k] \in StepRow /\ a \in Nat \ {0}
  BY <1>1, <1>3, LedgerAssumption
<1>5. /\ r \in StepRow /\ r.role = s[k].role
      /\ r.status = "APPROVED" /\ r.amount = a
  BY <1>4 DEF StepRow, ApprovedRow
<1>6. steps' = [steps EXCEPT ![c] = [s EXCEPT ![k] = r]]
  <2>1. steps' = [steps EXCEPT ![c] = [[s EXCEPT
                   ![k] = [s[k] EXCEPT !.status = "APPROVED"]] EXCEPT
                     ![k] = [[s[k] EXCEPT !.status = "APPROVED"] EXCEPT !.amount = a]]]
    <3>1. steps \in [CashOps -> Seq(StepRow)]
      BY DEF CashInv, CashShape
    <3>2. QED
      BY <1>1, <1>3, <3>1 DEF Decide
  <2>2. QED
    BY <2>1 DEF ApprovedRow
<1>7. a <= request[c].amount
  <2>1. \A j \in DOMAIN s : s[j].amount <= request[c].amount
    BY <1>1 DEF RowFits
  <2>2. a \in Nat /\ request[c].amount \in Nat /\ \A j \in DOMAIN s : s[j].amount \in Nat
    <3>1. \A j \in DOMAIN s : s[j] \in StepRow
      BY <1>1
    <3>2. QED
      BY <1>1, <1>4, <3>1 DEF RequestRow, StepRow
  <2>3. CASE Ceiling(i) = i.amount
    BY <1>2, <1>3, <2>3
  <2>4. CASE \E j \in DOMAIN s : Ceiling(i) = s[j].amount
    BY <1>2, <2>1, <2>2, <2>4
  <2>5. QED
    BY <1>1, <1>3, <2>3, <2>4, CeilingFacts
<1>8. QED
  BY <1>2, <1>3, <1>4, <1>5, <1>6, <1>7

(* A request in order waits for its current step, and only for that one.   *)
LEMMA FreshDecision ==
  ASSUME CashInv, NEW i \in inFlight, i.handler \in {"approve", "reject"},
         i.fresh, i.cashOp \notin disturbed
  PROVE  LET c == i.cashOp
             row == request[c]
             s == steps[c]
         IN  /\ InOrder(c, row, s) /\ row.status \in InApproval
             /\ i.step = row.currentStep /\ i.step \in DOMAIN s
             /\ \A k \in DOMAIN s :
                  s[k].status = IF k < i.step THEN "APPROVED" ELSE "PENDING"
             /\ row.realisasi = "NONE" /\ Roles(s) = Chain(Requester[c], row.amount)
<1> DEFINE c == i.cashOp
           row == request[c]
           s == steps[c]
<1>1. /\ FitsRow(i, row, s) /\ InOrder(c, row, s)
      /\ row \in RequestRow /\ s \in Seq(StepRow)
  BY WriterFacts
<1>2. /\ i.step = TurnOf(row) /\ TurnOf(row) \in DOMAIN s
      /\ s[TurnOf(row)].status = "PENDING"
  BY <1>1 DEF FitsRow, Checked
<1> HIDE DEF row, s
<1>3. row.status \notin {"NONE", "DRAFT"}
  BY <1>1, <1>2 DEF InOrder
<1>4. row.status \notin Settled
  BY <1>1, <1>2 DEF InOrder
<1>5. row.status \in InApproval \cup {"REJECTED"}
  <2>1. row.status \in Statuses /\ Statuses \ Settled \subseteq
          {"NONE", "DRAFT", "REJECTED"} \cup InApproval
    BY <1>1 DEF RequestRow, Statuses, Settled, Granted
  <2>2. QED
    BY <1>3, <1>4, <2>1
<1>6. row.currentStep \in DOMAIN s /\ TurnOf(row) = row.currentStep
  BY <1>1, <1>5 DEF InOrder, TurnOf
<1>7. row.status # "REJECTED"
  <2>1. row.currentStep \in Nat
    BY <1>1 DEF RequestRow
  <2>2. QED
    BY <1>1, <1>2, <1>5, <1>6, <2>1 DEF InOrder
<1>8. row.status \in InApproval /\ i.step = row.currentStep /\ i.step \in DOMAIN s
  BY <1>2, <1>5, <1>6, <1>7
<1>9. \A k \in DOMAIN s : s[k].status = IF k < i.step THEN "APPROVED" ELSE "PENDING"
  BY <1>1, <1>5, <1>7, <1>8 DEF InOrder
<1>10. row.realisasi = "NONE" /\ Roles(s) = Chain(Requester[c], row.amount)
  BY <1>1, <1>4, <1>8 DEF InOrder
<1>11. QED
  BY <1>1, <1>8, <1>9, <1>10 DEF row, s

(* reject: the step that was waited for is rejected.                       *)
LEMMA RejectKeeps ==
  ASSUME CashInv, NEW i \in inFlight, Reject(i)
  PROVE  CashInv'
<1> DEFINE c == i.cashOp
           old == request[c]
           s == steps[c]
           k == i.step
           r == [s[k] EXCEPT !.status = "REJECTED"]
           t == [s EXCEPT ![k] = r]
           row == [old EXCEPT !.status = "REJECTED"]
<1>1. /\ c \in CashOps /\ s \in Seq(StepRow) /\ FitsRow(i, old, s)
      /\ RowFits(old, s) /\ old \in RequestRow /\ ChargedIfGranted(c)
      /\ c \notin disturbed => JasaFits(c, old, deductJasa[c], refundJasa[c])
  BY WriterFacts
<1>2. /\ i.handler = "reject" /\ i.live /\ WriteRow(i, row)
      /\ inFlight' = Overtaken(Others(i), c) /\ UNCHANGED ledgerVars
  BY DEF Reject, WriteRequest
<1>3. k \in DOMAIN s /\ s[k] \in StepRow
  BY <1>1, <1>2 DEF FitsRow
<1>4. steps' = [steps EXCEPT ![c] = t]
  BY DEF Reject
<1>5. /\ r \in StepRow /\ r.role = s[k].role
      /\ r.status = "REJECTED" /\ r.amount = s[k].amount
  BY <1>3 DEF StepRow
<1>6. /\ row \in RequestRow /\ row.status = "REJECTED"
      /\ row.currentStep = old.currentStep
      /\ row.amount = old.amount /\ row.realisasi = old.realisasi
  BY <1>1 DEF RequestRow, Statuses
<1> HIDE DEF r, row
<1>7. /\ t \in Seq(StepRow) /\ DOMAIN t = DOMAIN s /\ Len(t) = Len(s) /\ t # <<>>
      /\ \A j \in DOMAIN s : t[j] = IF j = k THEN r ELSE s[j]
      /\ Roles(t) = Roles(s)
  BY <1>1, <1>3, <1>5, DecidedSteps
<1> HIDE DEF t
<1>8. RowFits(row, t)
  <2>1. \A j \in DOMAIN t : t[j].amount <= row.amount
    BY <1>1, <1>3, <1>5, <1>6, <1>7 DEF RowFits
  <2>2. row.currentStep <= Len(t)
    BY <1>1, <1>6, <1>7 DEF RowFits
  <2>3. QED
    BY <1>6, <1>7, <2>1, <2>2 DEF RowFits
<1>9. row.status \in Settled \/ row.realisasi # "NONE" => Charged(c)
  BY <1>1, <1>6, StatusSets DEF ChargedIfGranted
<1>10. ASSUME i.fresh, c \notin disturbed
       PROVE  InOrder(c, row, t) /\ JasaFits(c, row, deductJasa[c], refundJasa[c])
  <2>1. /\ InOrder(c, old, s) /\ old.status \in InApproval
        /\ k = old.currentStep
        /\ \A j \in DOMAIN s :
             s[j].status = IF j < k THEN "APPROVED" ELSE "PENDING"
        /\ old.realisasi = "NONE" /\ Roles(s) = Chain(Requester[c], old.amount)
    BY <1>2, <1>10, FreshDecision
  <2> HIDE DEF old, s
  <2>2. old.status \notin Settled /\ row.status \notin Settled
        /\ row.status \notin InApproval \cup {"NONE", "DRAFT", "APPROVED", "REALISASI_DONE"}
    BY <1>6, <2>1, StatusSets DEF InApproval
  <2>3. \A j \in DOMAIN s : j \in Nat /\ k \in Nat
    BY <1>1, <1>3
  <2>4. \A j \in DOMAIN t :
          t[j].status = IF j < row.currentStep THEN "APPROVED"
                        ELSE IF j > row.currentStep THEN "PENDING" ELSE "REJECTED"
    BY <1>5, <1>6, <1>7, <2>1, <2>3
  <2>5. \A j, l \in DOMAIN t :
          j < l /\ t[l].status = "APPROVED" => t[l].amount <= t[j].amount
    <3> SUFFICES ASSUME NEW j \in DOMAIN t, NEW l \in DOMAIN t, j < l,
                        t[l].status = "APPROVED"
                 PROVE  t[l].amount <= t[j].amount
      OBVIOUS
    <3>1. l # k /\ l < k
      BY <1>5, <1>6, <1>7, <2>1, <2>3, <2>4
    <3>2. t[l] = s[l] /\ t[j] = s[j]
      BY <1>7, <2>3, <3>1
    <3>3. QED
      BY <1>7, <2>1, <3>2 DEF InOrder
  <2>6. InOrder(c, row, t)
    BY <1>3, <1>6, <1>7, <2>1, <2>2, <2>4, <2>5 DEF InOrder
  <2>7. JasaFits(c, row, deductJasa[c], refundJasa[c])
    BY <1>1, <1>10, <2>2, StatusSets DEF JasaFits
  <2>8. QED
    BY <2>6, <2>7
<1>11. row.status # "NONE"
  BY <1>6
<1>12. QED
  BY <1>2, <1>4, <1>6, <1>7, <1>8, <1>9, <1>10, <1>11, PlainWriteKeeps

(* An approval in order keeps the amounts falling along the chain.         *)
LEMMA ApprovedInOrder ==
  ASSUME CashInv, NEW i \in inFlight, NEW a \in Amounts, Decide(i, a),
         i.fresh, i.cashOp \notin disturbed,
         NEW t, DOMAIN t = DOMAIN steps[i.cashOp], NEW r, r.status = "APPROVED",
         r.amount = a,
         \A j \in DOMAIN t : t[j] = IF j = i.step THEN r ELSE steps[i.cashOp][j]
  PROVE  /\ \A j \in DOMAIN t :
              t[j].status = IF j <= i.step THEN "APPROVED" ELSE "PENDING"
         /\ \A j, l \in DOMAIN t :
              j < l /\ t[l].status = "APPROVED" => t[l].amount <= t[j].amount
<1> DEFINE c == i.cashOp
           s == steps[c]
           k == i.step
<1>1. /\ s \in Seq(StepRow) /\ k \in DOMAIN s /\ i.handler = "approve"
      /\ a \in Nat /\ a <= Ceiling(i)
  BY WriterFacts, DecideFacts DEF Decide
<1>2. /\ InOrder(c, request[c], s)
      /\ \A j \in DOMAIN s :
           s[j].status = IF j < k THEN "APPROVED" ELSE "PENDING"
  BY <1>1, FreshDecision
<1>3. DOMAIN s = 1..Len(s) /\ Len(s) \in Nat /\ k \in Nat
      /\ \A j \in DOMAIN s : j \in Nat /\ s[j].amount \in Nat
  <2>1. DOMAIN s = 1..Len(s) /\ Len(s) \in Nat /\ \A j \in DOMAIN s : s[j] \in StepRow
    BY <1>1
  <2>2. QED
    BY <1>1, <2>1 DEF StepRow
<1>4. /\ DOMAIN t = DOMAIN s
      /\ \A j \in DOMAIN t : t[j] = IF j = k THEN r ELSE s[j]
  OBVIOUS
<1>5. \A j \in DOMAIN s : j < k => a <= s[j].amount
  <2> SUFFICES ASSUME NEW j \in DOMAIN s, j < k PROVE a <= s[j].amount
    OBVIOUS
  <2>1. j \in EarlierApproved(c, k)
    BY <1>2, <1>3 DEF EarlierApproved
  <2>2. PICK last \in EarlierApproved(c, k) :
          /\ \A l \in EarlierApproved(c, k) : l <= last
          /\ last \in DOMAIN s /\ last < k
          /\ Ceiling(i) = s[last].amount
    BY <1>1, <2>1, CeilingFacts
  <2>3. j <= last /\ s[last].status = "APPROVED"
    BY <1>2, <2>1, <2>2
  <2>4. s[last].amount <= s[j].amount
    <3>1. CASE j = last
      BY <1>3, <3>1
    <3>2. CASE j < last
      BY <1>2, <2>2, <2>3, <3>2 DEF InOrder
    <3>3. QED
      BY <1>3, <2>2, <2>3, <3>1, <3>2
  <2>5. QED
    BY <1>1, <1>3, <2>2, <2>4
<1> HIDE DEF s, k
<1>6. \A j \in DOMAIN t : t[j].status = IF j <= k THEN "APPROVED" ELSE "PENDING"
  BY <1>2, <1>3, <1>4
<1>7. ASSUME NEW j \in DOMAIN t, NEW l \in DOMAIN t, j < l, t[l].status = "APPROVED"
      PROVE  t[l].amount <= t[j].amount
  <2>1. l <= k /\ j < k
    BY <1>3, <1>4, <1>6, <1>7
  <2>2. t[j] = s[j]
    BY <1>3, <1>4, <2>1
  <2>3. CASE l = k
    BY <1>4, <1>5, <2>1, <2>2, <2>3
  <2>4. CASE l # k
    <3>1. t[l] = s[l] /\ s[l].status = "APPROVED"
      BY <1>4, <1>7, <2>4
    <3>2. QED
      BY <1>2, <1>4, <1>7, <2>2, <3>1 DEF InOrder
  <2>5. QED
    BY <2>3, <2>4
<1>8. QED
  BY <1>6, <1>7 DEF k

(* approve, before the last step: the next approver's turn.                *)
LEMMA ForwardKeeps ==
  ASSUME CashInv, NEW i \in inFlight, NEW a \in Amounts, Forward(i, a)
  PROVE  CashInv'
<1> DEFINE c == i.cashOp
           old == request[c]
           s == steps[c]
           k == i.step
           r == ApprovedRow(s[k], a)
           t == [s EXCEPT ![k] = r]
           row == [old EXCEPT !.status = "IN_REVIEW", !.currentStep = k + 1]
<1>1. /\ c \in CashOps /\ s \in Seq(StepRow)
      /\ RowFits(old, s) /\ old \in RequestRow /\ ChargedIfGranted(c)
      /\ c \notin disturbed => JasaFits(c, old, deductJasa[c], refundJasa[c])
  BY WriterFacts
<1>2. Decide(i, a) /\ k # Len(s) /\ WriteRow(i, row)
      /\ inFlight' = Overtaken(Others(i), c) /\ UNCHANGED ledgerVars
  BY DEF Forward, WriteRequest, IsLastStep
<1>3. /\ i.handler = "approve" /\ k \in DOMAIN s
      /\ r \in StepRow /\ r.role = s[k].role /\ r.status = "APPROVED" /\ r.amount = a
      /\ steps' = [steps EXCEPT ![c] = t]
      /\ a \in Nat \ {0} /\ a <= old.amount
  BY <1>2, DecideFacts
<1>4. DOMAIN s = 1..Len(s) /\ Len(s) \in Nat /\ k \in Nat /\ k + 1 \in DOMAIN s
  BY <1>1, <1>2, <1>3
<1>5. /\ row \in RequestRow /\ row.status = "IN_REVIEW" /\ row.currentStep = k + 1
      /\ row.amount = old.amount /\ row.realisasi = old.realisasi
  <2>1. k + 1 \in Nat
    BY <1>4
  <2> HIDE DEF old, k
  <2>2. QED
    BY <1>1, <2>1 DEF RequestRow, Statuses, InApproval
<1> HIDE DEF r, row
<1>6. /\ t \in Seq(StepRow) /\ DOMAIN t = DOMAIN s /\ Len(t) = Len(s) /\ t # <<>>
      /\ \A j \in DOMAIN s : t[j] = IF j = k THEN r ELSE s[j]
      /\ Roles(t) = Roles(s)
  BY <1>1, <1>3, DecidedSteps
<1> HIDE DEF t
<1>7. RowFits(row, t)
  <2>1. \A j \in DOMAIN t : t[j].amount <= row.amount
    BY <1>1, <1>3, <1>5, <1>6 DEF RowFits
  <2>2. row.currentStep <= Len(t)
    BY <1>4, <1>5, <1>6
  <2>3. QED
    BY <1>5, <1>6, <2>1, <2>2 DEF RowFits
<1>8. row.status \notin Settled
      /\ row.status \notin {"NONE", "DRAFT", "REJECTED", "APPROVED", "REALISASI_DONE"}
      /\ row.status \in InApproval
  BY <1>5, StatusSets DEF InApproval
<1>9. row.status \in Settled \/ row.realisasi # "NONE" => Charged(c)
  BY <1>1, <1>5, <1>8 DEF ChargedIfGranted
<1>10. ASSUME i.fresh, c \notin disturbed
       PROVE  InOrder(c, row, t) /\ JasaFits(c, row, deductJasa[c], refundJasa[c])
  <2>1. /\ old.status \in InApproval /\ old.realisasi = "NONE"
        /\ Roles(s) = Chain(Requester[c], old.amount)
    BY <1>3, <1>10, FreshDecision
  <2>2. /\ \A j \in DOMAIN t : t[j].status = IF j <= k THEN "APPROVED" ELSE "PENDING"
        /\ \A j, l \in DOMAIN t :
             j < l /\ t[l].status = "APPROVED" => t[l].amount <= t[j].amount
    BY <1>2, <1>3, <1>6, <1>10, ApprovedInOrder
  <2> HIDE DEF old, s
  <2>3. \A j \in DOMAIN t :
          t[j].status = IF j < row.currentStep THEN "APPROVED" ELSE "PENDING"
    BY <1>4, <1>5, <1>6, <2>2
  <2>4. old.status \notin Settled
    BY <2>1, StatusSets
  <2>5. InOrder(c, row, t)
    BY <1>4, <1>5, <1>6, <1>8, <2>1, <2>2, <2>3 DEF InOrder
  <2>6. JasaFits(c, row, deductJasa[c], refundJasa[c])
    BY <1>1, <1>8, <1>10, <2>4, StatusSets DEF JasaFits
  <2>7. QED
    BY <2>5, <2>6
<1>11. row.status # "NONE"
  BY <1>5
<1>12. QED
  BY <1>2, <1>3, <1>5, <1>6, <1>7, <1>9, <1>10, <1>11, PlainWriteKeeps

-----------------------------------------------------------------------------
(* The final approval charges.                                             *)

(* A refund never drives spending below 0.                                 *)
LEMMA GiveBackType ==
  ASSUME NEW q \in Money, NEW cat \in Categories, NEW a \in Nat
  PROVE  GiveBack(q, cat, a) \in Money
<1> DEFINE s == SetSpent(q, cat, Clamped(Spent(q, cat) - a))
<1>1. s \in Money
  BY DEF SetSpent, Spent, Clamped, Money, Categories
<1> HIDE DEF s
<1>2. QED
  BY <1>1, SyncFacts DEF GiveBack, Money, s

(* What the last approver's transaction does to the ledger.                *)
LEMMA ChargeApprovedFacts ==
  ASSUME TypeOK, NEW c \in CashOps, NEW a \in Nat \ {0},
         request[c].amount \in Nat, a <= request[c].amount, ChargeApproved(c, a)
  PROVE  /\ TypeOK' /\ Charged(c)'
         /\ \A d \in CashOps : deductJasa[d] # NoRow => deductJasa'[d] # NoRow
         /\ \A d \in CashOps \ {c} :
              deductJasa'[d] = deductJasa[d] /\ refundJasa'[d] = refundJasa[d]
         /\ ChargedProject[c] \notin FtttProjects /\ deductJasa[c] = NoRow
              /\ (\A t \in Tags : refundJasa[c][t] = NoRow) =>
                /\ deductJasa'[c] =
                     [ project |-> ChargedProject[c],
                       amount |-> IF c \in Advances THEN a ELSE request[c].amount ]
                /\ \A t \in Tags : refundJasa'[c][t] =
                     IF c \notin Advances /\ t = "REIMBURSEMENT_VARIANCE"
                          /\ request[c].amount > a
                     THEN [ project |-> ChargedProject[c],
                            amount |-> request[c].amount - a ]
                     ELSE NoRow
<1> DEFINE p == ChargedProject[c]
           amount == request[c].amount
<1>1. /\ p \in Projects /\ amount \in Nat \ {0} /\ a <= amount
      /\ project \in [Projects -> Money]
      /\ deductJasa \in [CashOps -> Row \cup {NoRow}]
      /\ refundJasa \in [CashOps -> [Tags -> Row \cup {NoRow}]]
  BY CashOperationAssumption DEF TypeOK, CashOps
<1>2. CASE c \in Advances
  <2>1. DeductForCashOp(c, p, a)
    BY <1>2 DEF ChargeApproved
  <2>2. CASE deductJasa[c] # NoRow \/ p \in FtttProjects
    <3>1. UNCHANGED ledgerVars
      BY <2>1, <2>2 DEF DeductForCashOp
    <3>2. QED
      BY <2>2, <3>1 DEF ledgerVars, ledgerRows, TypeOK, Charged
  <2>3. CASE deductJasa[c] = NoRow /\ p \notin FtttProjects
    <3> DEFINE new == [project |-> p, amount |-> a]
               q == Charge(project[p], "JASA", a)
    <3>1. /\ deductJasa' = [deductJasa EXCEPT ![c] = new]
          /\ project' = [project EXCEPT ![p] = q]
          /\ UNCHANGED <<deductMaterial, refundMaterial, refundJasa>>
      BY <2>1, <2>3 DEF DeductForCashOp
    <3>2. new \in Row /\ new # NoRow
      BY <1>1, LedgerAssumption DEF Row
    <3>3. q \in Money
      BY <1>1, ChargeFacts DEF Categories
    <3> HIDE DEF q
    <3>4. TypeOK'
      <4> HIDE DEF new
      <4>1. QED
        BY <1>1, <3>1, <3>2, <3>3 DEF TypeOK
    <3>5. deductJasa'[c] = new /\ refundJasa'[c] = refundJasa[c]
          /\ \A d \in CashOps : d # c => deductJasa'[d] = deductJasa[d]
      BY <1>1, <3>1
    <3>6. Charged(c)'
      BY <3>2, <3>5 DEF Charged
    <3>7. QED
      BY <1>2, <3>1, <3>2, <3>4, <3>5, <3>6
  <2>4. QED
    BY <2>2, <2>3
<1>3. CASE c \notin Advances
  <2> DEFINE old == deductJasa[c]
             row == IF old = NoRow THEN [project |-> p, amount |-> amount] ELSE old
             refunds == amount > a /\ refundJasa[c]["REIMBURSEMENT_VARIANCE"] = NoRow
             charged == IF old = NoRow
                        THEN [project EXCEPT ![p] = Charge(project[p], "JASA", amount)]
                        ELSE project
             back == [project |-> row.project, amount |-> amount - a]
  <2>1. CASE p \in FtttProjects /\ old = NoRow
    <3>1. UNCHANGED ledgerVars
      BY <1>3, <2>1 DEF ChargeApproved, ChargeReimbursement
    <3>2. QED
      BY <2>1, <3>1 DEF ledgerVars, ledgerRows, TypeOK, Charged
  <2>2. CASE ~(p \in FtttProjects /\ old = NoRow)
    <3>1. /\ deductJasa' = [deductJasa EXCEPT ![c] = row]
          /\ refundJasa' = IF ~refunds THEN refundJasa
               ELSE [refundJasa EXCEPT ![c]["REIMBURSEMENT_VARIANCE"] = back]
          /\ project' = IF ~refunds THEN charged
               ELSE [charged EXCEPT ![row.project] =
                       GiveBack(charged[row.project], "JASA", amount - a)]
          /\ UNCHANGED <<deductMaterial, refundMaterial>>
      BY <1>3, <2>2 DEF ChargeApproved, ChargeReimbursement
    <3>2. row \in Row /\ row # NoRow /\ row.project \in Projects
      <4>1. [project |-> p, amount |-> amount] \in Row
        BY <1>1 DEF Row
      <4>2. row \in Row
        BY <1>1, <4>1
      <4> HIDE DEF row
      <4>3. QED
        BY <4>2, LedgerAssumption DEF Row
    <3>3. charged \in [Projects -> Money]
      <4>1. Charge(project[p], "JASA", amount) \in Money
        BY <1>1, ChargeFacts DEF Categories
      <4>2. QED
        BY <1>1, <4>1
    <3>4. refunds => back \in Row /\ amount - a \in Nat
      BY <1>1, <3>2 DEF Row
    <3>5. old = NoRow => row = [project |-> p, amount |-> amount]
      OBVIOUS
    <3> HIDE DEF row, charged
    <3>6. project' \in [Projects -> Money]
      <4>1. refunds => GiveBack(charged[row.project], "JASA", amount - a) \in Money
        BY <3>2, <3>3, <3>4, GiveBackType DEF Categories
      <4>2. QED
        BY <3>1, <3>3, <4>1
    <3>7. refundJasa' \in [CashOps -> [Tags -> Row \cup {NoRow}]]
      <4>1. CASE ~refunds
        BY <1>1, <3>1, <4>1
      <4>2. CASE refunds
        <5> HIDE DEF back, refunds
        <5>1. QED
          BY <1>1, <3>1, <3>4, <4>2 DEF Tags, PartialTags
      <4>3. QED
        BY <4>1, <4>2
    <3>8. TypeOK'
      BY <1>1, <3>1, <3>2, <3>6, <3>7 DEF TypeOK
    <3>9. /\ deductJasa'[c] = row
          /\ \A d \in CashOps : d # c =>
               deductJasa'[d] = deductJasa[d] /\ refundJasa'[d] = refundJasa[d]
      BY <1>1, <3>1
    <3>10. Charged(c)'
      BY <3>2, <3>9 DEF Charged
    <3>11. ASSUME old = NoRow, \A t \in Tags : refundJasa[c][t] = NoRow
           PROVE  \A t \in Tags : refundJasa'[c][t] =
                    IF t = "REIMBURSEMENT_VARIANCE" /\ amount > a
                    THEN [project |-> p, amount |-> amount - a] ELSE NoRow
      <4>1. row.project = p
        BY <3>5, <3>11
      <4>2. refunds <=> amount > a
        BY <3>11 DEF Tags, PartialTags
      <4>3. CASE refunds
        <5>1. \A t \in Tags : refundJasa'[c][t] =
                IF t = "REIMBURSEMENT_VARIANCE" THEN back ELSE refundJasa[c][t]
          <6> HIDE DEF back, refunds
          <6>1. QED
            BY <1>1, <3>1, <4>3 DEF Tags, PartialTags
        <5>2. QED
          BY <3>11, <4>1, <4>2, <4>3, <5>1
      <4>4. CASE ~refunds
        BY <3>1, <3>11, <4>2, <4>4
      <4>5. QED
        BY <4>3, <4>4
    <3>12. QED
      BY <1>3, <3>2, <3>5, <3>8, <3>9, <3>10, <3>11
  <2>3. QED
    BY <2>1, <2>2
<1>4. QED
  BY <1>2, <1>3

(* approve, on the last step: the request is granted and charged.          *)
LEMMA FinalApproveKeeps ==
  ASSUME CashInv, NEW i \in inFlight, NEW a \in Amounts, FinalApprove(i, a)
  PROVE  CashInv'
<1> DEFINE c == i.cashOp
           old == request[c]
           s == steps[c]
           k == i.step
           H == Others(i)
           r == ApprovedRow(s[k], a)
           t == [s EXCEPT ![k] = r]
           row == [old EXCEPT !.status = "APPROVED", !.finalAmount = a,
                              !.currentStep = Len(s)]
<1>1. /\ c \in CashOps /\ s \in Seq(StepRow) /\ H \subseteq inFlight
      /\ RowFits(old, s) /\ old \in RequestRow /\ ChargedIfGranted(c) /\ TypeOK
      /\ c \notin disturbed => JasaFits(c, old, deductJasa[c], refundJasa[c])
  BY WriterFacts DEF CashInv, CashShape
<1>2. Decide(i, a) /\ k = Len(s) /\ WriteRow(i, row) /\ ChargeApproved(c, a)
      /\ inFlight' = Overtaken(H, c)
  BY DEF FinalApprove, WriteRequest, IsLastStep
<1>3. /\ i.handler = "approve" /\ k \in DOMAIN s
      /\ r \in StepRow /\ r.role = s[k].role /\ r.status = "APPROVED" /\ r.amount = a
      /\ steps' = [steps EXCEPT ![c] = t]
      /\ a \in Nat \ {0} /\ a <= old.amount
  BY <1>2, DecideFacts
<1>4. DOMAIN s = 1..Len(s) /\ Len(s) \in Nat /\ k \in Nat
  BY <1>1, <1>2, <1>3
<1>5. /\ row \in RequestRow /\ row.status = "APPROVED" /\ row.currentStep = Len(s)
      /\ row.amount = old.amount /\ row.realisasi = old.realisasi
      /\ row.finalAmount = a
  <2>1. Len(s) \in Nat /\ a \in Nat /\ "APPROVED" \in Statuses
    BY <1>3, <1>4 DEF Statuses
  <2> HIDE DEF old, s
  <2>2. QED
    BY <1>1, <2>1 DEF RequestRow
<1>6. old.amount \in Nat
  BY <1>1 DEF RequestRow
<1> HIDE DEF r, row
<1>7. /\ t \in Seq(StepRow) /\ DOMAIN t = DOMAIN s /\ Len(t) = Len(s) /\ t # <<>>
      /\ \A j \in DOMAIN s : t[j] = IF j = k THEN r ELSE s[j]
      /\ Roles(t) = Roles(s)
  BY <1>1, <1>3, DecidedSteps
<1> HIDE DEF t
<1>8. RowFits(row, t)
  <2>1. \A j \in DOMAIN t : t[j].amount <= row.amount
    BY <1>1, <1>3, <1>5, <1>7 DEF RowFits
  <2>2. row.currentStep <= Len(t)
    BY <1>4, <1>5, <1>7
  <2>3. QED
    BY <1>5, <1>7, <2>1, <2>2 DEF RowFits
<1>9. /\ TypeOK' /\ Charged(c)'
      /\ \A d \in CashOps : deductJasa[d] # NoRow => deductJasa'[d] # NoRow
      /\ \A d \in CashOps \ {c} :
           deductJasa'[d] = deductJasa[d] /\ refundJasa'[d] = refundJasa[d]
  BY <1>1, <1>2, <1>3, <1>6, ChargeApprovedFacts
<1>10. row.status \in Granted /\ row.status \in Settled
       /\ row.status \notin InApproval /\ row.status # "NONE"
  BY <1>5, StatusSets DEF InApproval
<1>11. /\ request' = [request EXCEPT ![c] = row]
       /\ disturbed \subseteq disturbed' /\ disturbed' \subseteq CashOps
       /\ c \notin disturbed' => i.fresh /\ c \notin disturbed
  BY <1>2, WriteRowFacts
<1>12. ASSUME c \notin disturbed'
       PROVE  InOrder(c, row, t) /\ JasaFits(c, row, deductJasa'[c], refundJasa'[c])
  <2>1. /\ old.status \in InApproval /\ old.realisasi = "NONE"
        /\ Roles(s) = Chain(Requester[c], old.amount)
    BY <1>3, <1>11, <1>12, FreshDecision
  <2>2. /\ \A j \in DOMAIN t : t[j].status = IF j <= k THEN "APPROVED" ELSE "PENDING"
        /\ \A j, l \in DOMAIN t :
             j < l /\ t[l].status = "APPROVED" => t[l].amount <= t[j].amount
    BY <1>2, <1>3, <1>7, <1>11, <1>12, ApprovedInOrder
  <2>3. old.status \notin Settled
    BY <2>1, StatusSets
  <2>4. ChargedProject[c] \notin FtttProjects =>
          /\ deductJasa'[c] =
               [ project |-> ChargedProject[c],
                 amount |-> IF c \in Advances THEN a ELSE old.amount ]
          /\ \A tag \in Tags : refundJasa'[c][tag] =
               IF c \notin Advances /\ tag = "REIMBURSEMENT_VARIANCE"
                    /\ old.amount > a
               THEN [ project |-> ChargedProject[c], amount |-> old.amount - a ]
               ELSE NoRow
    <3>1. ChargedProject[c] \notin FtttProjects =>
            deductJasa[c] = NoRow /\ \A tag \in Tags : refundJasa[c][tag] = NoRow
      BY <1>1, <1>11, <1>12, <2>3 DEF JasaFits
    <3>2. QED
      BY <1>1, <1>2, <1>3, <1>6, <3>1, ChargeApprovedFacts
  <2> HIDE DEF old, s, k
  <2>5. \A j \in DOMAIN t : t[j].status = "APPROVED"
    BY <1>2, <1>4, <1>7, <2>2
  <2>6. t[Len(t)].amount = row.finalAmount /\ row.finalAmount > 0
    BY <1>2, <1>3, <1>4, <1>5, <1>7
  <2>7. InOrder(c, row, t)
    BY <1>5, <1>7, <1>10, <2>1, <2>2, <2>5, <2>6 DEF InOrder
  <2>8. JasaFits(c, row, deductJasa'[c], refundJasa'[c])
    BY <1>5, <1>10, <2>4 DEF JasaFits, Tags, PartialTags
  <2>9. QED
    BY <2>7, <2>8
<1>13. DOMAIN t = DOMAIN steps[c] /\ row.amount = request[c].amount
  BY <1>5, <1>7
<1> HIDE DEF c, H, old, s, k
<1>14. QED
  BY <1>1, <1>2, <1>3, <1>5, <1>7, <1>8, <1>9, <1>10, <1>11, <1>12, <1>13, WriteKeeps

-----------------------------------------------------------------------------
(* Theorems of CashOperation alone.                                        *)

(* Nothing is asked yet.                                                   *)
LEMMA CashInitInv ==
  ASSUME LedgerInit, RequestInit
  PROVE  CashInv
<1>1. /\ request = [c \in CashOps |-> NoRequest] /\ steps = [c \in CashOps |-> <<>>]
      /\ inFlight = {} /\ disturbed = {}
      /\ deductJasa = [c \in CashOps |-> NoRow]
      /\ refundJasa = [c \in CashOps |-> [t \in Tags |-> NoRow]]
  BY DEF LedgerInit, RequestInit
<1>2. TypeOK
  BY LedgerInitInv DEF LedgerInv
<1>3. NoRequest \in RequestRow /\ NoRequest.status = "NONE"
      /\ NoRequest.currentStep = 0 /\ NoRequest.realisasi = "NONE"
  BY DEF NoRequest, RequestRow, Statuses
<1>4. <<>> \in Seq(StepRow) /\ Len(<<>>) = 0 /\ DOMAIN <<>> = {}
  OBVIOUS
<1>5. RowFits(NoRequest, <<>>)
  BY <1>3 DEF RowFits, InApproval
<1>6. "NONE" \notin Settled /\ Granted \subseteq Settled
      /\ "NONE" \notin InApproval \cup {"REJECTED", "APPROVED", "REALISASI_DONE"}
  BY StatusSets DEF InApproval
<1>7. \A c \in CashOps : InOrder(c, NoRequest, <<>>)
  BY <1>3, <1>6 DEF InOrder
<1>8. \A c \in CashOps : JasaFits(c, NoRequest, NoRow, [t \in Tags |-> NoRow])
  BY <1>3, <1>6 DEF JasaFits
<1>9. CashShape
  BY <1>1, <1>2, <1>3, <1>4 DEF CashShape
<1>10. \A c \in CashOps : RowFits(request[c], steps[c]) /\ ChargedIfGranted(c)
  BY <1>1, <1>3, <1>5, <1>6 DEF ChargedIfGranted
<1>11. \A c \in CashOps \ disturbed :
         /\ InOrder(c, request[c], steps[c])
         /\ JasaFits(c, request[c], deductJasa[c], refundJasa[c])
  BY <1>1, <1>7, <1>8
<1>12. \A i \in inFlight : HandlerInv(i)
  BY <1>1
<1>13. QED
  BY <1>9, <1>10, <1>11, <1>12 DEF CashInv

(* Every step of CashOperationService keeps the invariant.                 *)
LEMMA RequestNextInv ==
  ASSUME CashInv, RequestNext
  PROVE  CashInv'
<1>1. CASE \E c \in CashOps, a \in Amounts : Create(c, a)
  BY <1>1, CreateKeeps
<1>2. CASE \E c \in CashOps, h \in {"submit", "approve", "reject", "update", "repair"} :
             Start(h, c)
  BY <1>2, StartKeeps DEF RequestHandlers
<1>3. ASSUME NEW i \in inFlight, Abandon(i)
      PROVE  CashInv'
  <2>1. \A k \in inFlight' : HandlerInv(k)
    BY <1>3 DEF Abandon, Others, CashInv
  <2>2. QED
    BY <1>3, <2>1, HandlersChange DEF Abandon
<1>4. ASSUME NEW i \in inFlight,
             \/ Submit(i) \/ Reject(i) \/ \E a \in Amounts \cup {0} : Update(i, a)
             \/ Repair(i) \/ \E a \in Amounts : Forward(i, a) \/ FinalApprove(i, a)
      PROVE  CashInv'
  BY <1>4, SubmitKeeps, RejectKeeps, UpdateKeeps, RepairKeeps, ForwardKeeps,
     FinalApproveKeeps
<1>5. QED
  BY <1>1, <1>2, <1>3, <1>4 DEF RequestNext

(* A step that changes nothing of a cash operation or the ledger.          *)
LEMMA CashStutter ==
  ASSUME CashInv, UNCHANGED <<ledgerVars, requestVars>>
  PROVE  CashInv'
<1>1. UNCHANGED <<request, steps, inFlight, disturbed>>
  BY DEF requestVars
<1>2. \A i \in inFlight' : HandlerInv(i)
  BY <1>1 DEF CashInv
<1>3. QED
  BY <1>1, <1>2, HandlersChange

(* The properties are in the invariant: types ...                          *)
LEMMA CashInvTypes ==
  ASSUME CashInv
  PROVE  RequestTypeOK
<1>1. TypeOK /\ disturbed \subseteq CashOps
  BY DEF CashInv, CashShape
<1>2. ASSUME NEW c \in CashOps
      PROVE  LET row == request[c] IN
             /\ DOMAIN row = DOMAIN NoRequest
             /\ row.status \in Statuses
             /\ row.currentStep \in 0..Len(steps[c])
             /\ row.turn \in RealisasiRoles \cup {Null}
             /\ \A k \in DOMAIN steps[c] :
                  steps[c][k].status \in {"PENDING", "APPROVED", "REJECTED"}
  <2> DEFINE row == request[c]
             s == steps[c]
  <2>1. row \in RequestRow /\ s \in Seq(StepRow) /\ RowFits(row, s)
    BY DEF CashInv, CashShape
  <2> HIDE DEF row, s
  <2>2. /\ DOMAIN row = DOMAIN NoRequest /\ row.status \in Statuses
        /\ row.currentStep \in Nat /\ row.turn \in RealisasiRoles \cup {Null}
    BY <2>1 DEF RequestRow, NoRequest
  <2>3. row.currentStep <= Len(s) /\ Len(s) \in Nat
    BY <2>1 DEF RowFits
  <2>4. row.currentStep \in 0..Len(s)
    BY <2>2, <2>3
  <2>5. \A k \in DOMAIN s : s[k] \in StepRow
    BY <2>1
  <2>6. \A k \in DOMAIN s : s[k].status \in {"PENDING", "APPROVED", "REJECTED"}
    BY <2>5 DEF StepRow
  <2>7. QED
    BY <2>2, <2>4, <2>6 DEF row, s
<1>3. QED
  BY <1>1, <1>2 DEF RequestTypeOK

(* ... what holds however handlers overtake one another ...                *)
LEMMA CashInvAlways ==
  ASSUME CashInv
  PROVE  GrantedWasCharged /\ ApprovedWithinRequest
<1>1. Granted \subseteq Settled
  BY StatusSets
<1>2. QED
  BY <1>1 DEF CashInv, GrantedWasCharged, ChargedIfGranted, Charged,
    ApprovedWithinRequest, RowFits

(* ... and what holds of a request nobody overwrote unread.                *)
LEMMA CashInvInOrder ==
  ASSUME CashInv
  PROVE  StepsInOrder /\ HighAmountsPassTheGM
<1> SUFFICES ASSUME NEW c \in CashOps \ disturbed
    PROVE
    LET row == request[c]
        s == steps[c]
    IN
    /\ row.status \in InApproval =>
         /\ row.currentStep \in DOMAIN s
         /\ \A k \in DOMAIN s :
              s[k].status = IF k < row.currentStep THEN "APPROVED" ELSE "PENDING"
    /\ row.status \in Granted =>
         /\ \A k \in DOMAIN s : s[k].status = "APPROVED"
         /\ s[Len(s)].amount = row.finalAmount
    /\ \A j, k \in DOMAIN s :
         j < k /\ s[k].status = "APPROVED" => s[k].amount <= s[j].amount
    /\ \A k \in DOMAIN s : s[k].amount <= row.amount
    /\ row.status \in Granted /\ row.amount > HighAmount
         /\ Requester[c] # "GENERAL_MANAGER" =>
         \E k \in DOMAIN s : s[k].role = "GENERAL_MANAGER" /\ s[k].status = "APPROVED"
  BY DEF StepsInOrder, HighAmountsPassTheGM
<1> DEFINE row == request[c]
           s == steps[c]
<1>1. /\ InOrder(c, row, s) /\ RowFits(row, s)
      /\ row \in RequestRow /\ s \in Seq(StepRow)
  BY DEF CashInv, CashShape
<1>2. Granted \subseteq Settled /\ "REJECTED" \notin InApproval
  BY StatusSets DEF InApproval
<1> HIDE DEF row, s
<1>3. row.status \in InApproval =>
        /\ row.currentStep \in DOMAIN s
        /\ \A k \in DOMAIN s :
             s[k].status = IF k < row.currentStep THEN "APPROVED" ELSE "PENDING"
  BY <1>1, <1>2 DEF InOrder
<1>4. row.status \in Granted =>
        /\ \A k \in DOMAIN s : s[k].status = "APPROVED"
        /\ s[Len(s)].amount = row.finalAmount
        /\ Roles(s) = Chain(Requester[c], row.amount)
  BY <1>1, <1>2 DEF InOrder
<1>5. /\ \A j, k \in DOMAIN s :
           j < k /\ s[k].status = "APPROVED" => s[k].amount <= s[j].amount
      /\ \A k \in DOMAIN s : s[k].amount <= row.amount
  BY <1>1 DEF InOrder, RowFits
<1>6. ASSUME row.status \in Granted, row.amount > HighAmount,
             Requester[c] # "GENERAL_MANAGER"
      PROVE  \E k \in DOMAIN s : s[k].role = "GENERAL_MANAGER" /\ s[k].status = "APPROVED"
  <2>1. row.amount \in Nat
    BY <1>1 DEF RequestRow
  <2>2. PICK k \in DOMAIN Roles(s) : Roles(s)[k] = "GENERAL_MANAGER"
    BY <1>4, <1>6, <2>1, ChainFacts
  <2>3. k \in DOMAIN s /\ s[k].role = "GENERAL_MANAGER"
    BY <2>2 DEF Roles
  <2>4. QED
    BY <1>4, <1>6, <2>3
<1>7. QED
  BY <1>3, <1>4, <1>5, <1>6 DEF row, s

(* What the ledger still holds of it is what was granted, or what its done *)
(* report says was spent.                                                  *)
LEMMA OutstandingFacts ==
  ASSUME CashInv, NEW c \in CashOps \ disturbed, ChargedProject[c] \notin FtttProjects
  PROVE  LET row == request[c]
             outstanding == OutstandingJasa(c, ChargedProject[c])
         IN  /\ row.status \notin Settled => outstanding = 0
             /\ row.status \in Granted => outstanding = row.finalAmount
             /\ row.status = "REALISASI_DONE" =>
                  \/ outstanding = row.finalAmount
                  \/ /\ outstanding = row.realisasiTotal
                     /\ outstanding < row.finalAmount
<1> DEFINE p == ChargedProject[c]
           row == request[c]
           s == steps[c]
           deduct == deductJasa[c]
           refund == refundJasa[c]
<1>1. /\ JasaFits(c, row, deduct, refund) /\ InOrder(c, row, s) /\ RowFits(row, s)
      /\ row \in RequestRow /\ s \in Seq(StepRow)
  BY DEF CashInv, CashShape
<1>2. row.amount \in Nat /\ row.finalAmount \in Nat /\ row.realisasiTotal \in Nat
  BY <1>1 DEF RequestRow
<1>3. OutstandingJasa(c, p) =
        AmountIn(deduct, p) - AmountIn(refund["FULL"], p)
          - AmountIn(refund["REALISASI_VARIANCE"], p)
          - AmountIn(refund["REIMBURSEMENT_VARIANCE"], p)
  BY DEF OutstandingJasa
<1>4. \A a \in Nat \ {0} : AmountIn([project |-> p, amount |-> a], p) = a
  <2>1. \A a \in Nat \ {0} : [project |-> p, amount |-> a] \in Row
    BY CashOperationAssumption DEF Row, CashOps
  <2>2. \A a \in Nat \ {0} : [project |-> p, amount |-> a] # NoRow
    BY <2>1, LedgerAssumption DEF Row
  <2>3. QED
    BY <2>2 DEF AmountIn, In
<1>5. AmountIn(NoRow, p) = 0
  BY DEF AmountIn, In
<1>6. /\ Tags = {"REALISASI_VARIANCE", "REIMBURSEMENT_VARIANCE", "FULL"}
      /\ Granted \subseteq Settled
      /\ "REALISASI_DONE" \in Settled /\ "REALISASI_DONE" \notin Granted
  BY StatusSets DEF Tags, PartialTags
<1> HIDE DEF p, row, s, deduct, refund
<1>7. CASE row.status \notin Settled
  <2>1. deduct = NoRow /\ \A t \in Tags : refund[t] = NoRow
    BY <1>1, <1>7 DEF JasaFits
  <2>2. OutstandingJasa(c, p) = 0
    BY <1>3, <1>5, <1>6, <2>1
  <2>3. QED
    BY <1>6, <1>7, <2>2 DEF row, p
<1>8. CASE row.status \in Settled
  <2> DEFINE final == row.finalAmount
             total == row.realisasiTotal
             charged == IF c \in Advances THEN final ELSE row.amount
             back == AmountIn(refund["REALISASI_VARIANCE"], p)
  <2>1. /\ deduct = [project |-> p, amount |-> charged]
        /\ \A t \in Tags \ {"REALISASI_VARIANCE"} : refund[t] =
             IF c \notin Advances /\ t = "REIMBURSEMENT_VARIANCE" /\ row.amount > final
             THEN [project |-> p, amount |-> row.amount - final] ELSE NoRow
        /\ \/ refund["REALISASI_VARIANCE"] = NoRow
           \/ /\ row.status = "REALISASI_DONE"
              /\ IsVariance(refund["REALISASI_VARIANCE"], row, deduct)
    BY <1>1, <1>8 DEF JasaFits, p
  <2>2. /\ s # <<>> /\ s[Len(s)].amount = final /\ final > 0
    BY <1>1, <1>8 DEF InOrder
  <2>3. final <= row.amount
    <3>1. Len(s) \in DOMAIN s
      BY <1>1, <2>2
    <3>2. QED
      BY <1>1, <2>2, <3>1 DEF RowFits
  <2>4. \/ back = 0
        \/ row.status = "REALISASI_DONE" /\ total < final /\ back = final - total
    <3>1. CASE refund["REALISASI_VARIANCE"] = NoRow
      BY <1>5, <3>1
    <3>2. CASE /\ row.status = "REALISASI_DONE"
               /\ IsVariance(refund["REALISASI_VARIANCE"], row, deduct)
      <4>1. /\ total < final
            /\ refund["REALISASI_VARIANCE"] = [project |-> p, amount |-> final - total]
        BY <2>1, <3>2 DEF IsVariance
      <4>2. final - total \in Nat \ {0}
        BY <1>2, <4>1
      <4> HIDE DEF final, total
      <4>3. QED
        BY <1>4, <3>2, <4>1, <4>2
    <3>3. QED
      BY <2>1, <3>1, <3>2
  <2>5. final \in Nat \ {0} /\ charged \in Nat \ {0} /\ total \in Nat
    BY <1>2, <2>2, <2>3
  <2> HIDE DEF final, total
  <2>6. AmountIn(deduct, p) = charged
    BY <1>4, <2>1, <2>5
  <2>7. AmountIn(refund["FULL"], p) = 0
    BY <1>5, <1>6, <2>1
  <2>8. AmountIn(refund["REIMBURSEMENT_VARIANCE"], p) = charged - final
    <3>1. CASE c \notin Advances /\ row.amount > final
      <4>1. row.amount - final \in Nat \ {0}
        BY <1>2, <2>5, <3>1
      <4>2. refund["REIMBURSEMENT_VARIANCE"] =
              [project |-> p, amount |-> row.amount - final]
        BY <1>6, <2>1, <3>1
      <4>3. QED
        BY <1>4, <3>1, <4>1, <4>2
    <3>2. CASE ~(c \notin Advances /\ row.amount > final)
      <4>1. refund["REIMBURSEMENT_VARIANCE"] = NoRow
        BY <1>6, <2>1, <3>2
      <4>2. charged = final
        BY <1>2, <2>3, <2>5, <3>2
      <4>3. QED
        BY <1>5, <2>5, <4>1, <4>2
    <3>3. QED
      BY <3>1, <3>2
  <2> HIDE DEF charged
  <2>9. OutstandingJasa(c, p) = final - back
    <3>1. back \in Int
      BY <2>4, <2>5
    <3>2. OutstandingJasa(c, p) = charged - 0 - back - (charged - final)
      BY <1>3, <2>6, <2>7, <2>8
    <3> HIDE DEF back
    <3>3. QED
      BY <2>5, <3>1, <3>2
  <2> HIDE DEF back
  <2>10. \/ OutstandingJasa(c, p) = final
         \/ /\ row.status = "REALISASI_DONE" /\ OutstandingJasa(c, p) = total
            /\ OutstandingJasa(c, p) < final
    BY <2>4, <2>5, <2>9
  <2>11. QED
    BY <1>6, <1>8, <2>10 DEF row, final, total, p
<1>9. QED
  BY <1>7, <1>8

(* So the charge stands from the final approval until the report is done,  *)
(* which gives back no more than was not spent.                            *)
LEMMA CashInvCharged ==
  ASSUME CashInv
  PROVE  ChargedAsApproved /\ ReportsKeepTheCharge
<1>1. Granted \cup {"REALISASI_DONE"} = Settled /\ "REALISASI_DONE" \notin Granted
  BY StatusSets DEF Settled
<1>2. ChargedAsApproved
  BY <1>1, OutstandingFacts DEF ChargedAsApproved
<1>3. ReportsKeepTheCharge
  BY <1>1, OutstandingFacts DEF ReportsKeepTheCharge
<1>4. QED
  BY <1>2, <1>3

(* The invariant of a cash operation's approval, with any number of        *)
(* handlers between their read and their write.                            *)
THEOREM CashOpInvariant == RequestSpec => []CashInv
<1>1. LedgerInit /\ RequestInit => CashInv
  BY CashInitInv
<1>2. CashInv /\ [RequestNext]_<<ledgerVars, requestVars>> => CashInv'
  BY RequestNextInv, CashStutter
<1>3. QED
  BY <1>1, <1>2, PTL DEF RequestSpec

(* Every row of a request, of its steps and of the ledger has its type.    *)
THEOREM RequestsKeepTheirType == RequestSpec => []RequestTypeOK
<1>1. CashInv => RequestTypeOK
  BY CashInvTypes
<1>2. QED
  BY <1>1, CashOpInvariant, PTL

(* approve charges before anything can be spent or reported: a granted     *)
(* request has its row in the ledger, whatever handlers overtake another.  *)
THEOREM GrantsAreCharged == RequestSpec => []GrantedWasCharged
<1>1. CashInv => GrantedWasCharged
  BY CashInvAlways
<1>2. QED
  BY <1>1, CashOpInvariant, PTL

(* No step ever grants more than its request asks, whatever amounts the    *)
(* approvers set and whatever handlers overtake one another.               *)
THEOREM GrantsStayWithinRequest == RequestSpec => []ApprovedWithinRequest
<1>1. CashInv => ApprovedWithinRequest
  BY CashInvAlways
<1>2. QED
  BY <1>1, CashOpInvariant, PTL

(* Without an unread overwrite the chain decides in order, over any number *)
(* of rejections and revisions.                                            *)
THEOREM ChainsDecideInOrder == RequestSpec => []StepsInOrder
<1>1. CashInv => StepsInOrder
  BY CashInvInOrder
<1>2. QED
  BY <1>1, CashOpInvariant, PTL

(* Without an unread overwrite a high amount is granted only behind the    *)
(* GM's approval, however the request was revised and its chain rebuilt.   *)
THEOREM HighAmountsReachTheGM == RequestSpec => []HighAmountsPassTheGM
<1>1. CashInv => HighAmountsPassTheGM
  BY CashInvInOrder
<1>2. QED
  BY <1>1, CashOpInvariant, PTL

(* Without an unread overwrite the project bears exactly what was granted. *)
THEOREM ProjectsBearWhatWasGranted == RequestSpec => []ChargedAsApproved
<1>1. CashInv => ChargedAsApproved
  BY CashInvCharged
<1>2. QED
  BY <1>1, CashOpInvariant, PTL

-----------------------------------------------------------------------------
(* The report's review.                                                    *)

Decision == {"PENDING", "APPROVED", "REJECTED"}

(* The review is at the first of its steps nobody decided yet.             *)
AtNextReviewer(c, row, review) ==
  /\ row.turn = NextRole(c, review) /\ row.turn \in RealisasiRoles
  /\ row.status = PendingStatus[row.turn]
  /\ \A k \in 1..3 : review[k] # "REJECTED"
  /\ \A j, k \in 1..3 : j < k /\ review[k] # "PENDING" => review[j] = "APPROVED"

(* A request nobody overwrote unread: its report is where its status says. *)
ReviewFits(c, row, review) ==
  /\ row.status \notin InRealisasi \cup {"REALISASI_DONE"} =>
       row.turn = Null /\ review = <<>>
  /\ row.status = "REALISASI_IN_PROGRESS" =>
       row.turn = Null /\ review = <<>> /\ row.realisasi = "DRAFT"
  /\ row.realisasi = "PENDING" <=>
       row.status \in {PendingStatus[r] : r \in RealisasiRoles}
  /\ row.realisasi = "REJECTED" <=>
       row.status \in {RejectedStatus[r] : r \in RealisasiRoles}
  /\ row.realisasi = "REJECTED" => row.turn = Null
  /\ row.realisasi = "PENDING" /\ review # <<>> => AtNextReviewer(c, row, review)
  /\ row.realisasi = "DONE" => row.status = "REALISASI_DONE"
  /\ row.realisasi = "DONE" /\ review # <<>> => \A k \in 1..3 : review[k] = "APPROVED"

ReviewInv ==
  /\ realisasiSteps \in [CashOps -> {<<>>} \cup [1..3 -> Decision]]
  /\ \A c \in CashOps \ disturbed : ReviewFits(c, request[c], realisasiSteps[c])

-----------------------------------------------------------------------------
(* What a write of CashOpRealisasiService leaves of the request's row.     *)
Reported(old, row) ==
  /\ row \in RequestRow /\ row.amount = old.amount
  /\ row.finalAmount = old.finalAmount /\ row.currentStep = old.currentStep
  /\ \/ row.status \in InRealisasi /\ row.realisasi \in {"DRAFT", "PENDING", "REJECTED"}
     \/ row.status = "REALISASI_DONE" /\ row.realisasi = "DONE"

(* The statuses of a report are known by the role they name.               *)
LEMMA ReportStatuses ==
  /\ \A r \in RealisasiRoles :
       /\ PendingStatus[r] \in InRealisasi /\ RejectedStatus[r] \in InRealisasi
       /\ PendingStatus[r] # "REALISASI_IN_PROGRESS"
       /\ RejectedStatus[r] # "REALISASI_IN_PROGRESS"
  /\ \A r, q \in RealisasiRoles :
       /\ PendingStatus[r] = PendingStatus[q] => r = q
       /\ PendingStatus[r] # RejectedStatus[q]
  /\ PendingStatus["OPERATIONAL_MANAGER"] = "REALISASI_PENDING_OPS"
  /\ PendingStatus["FINANCE"] = "REALISASI_PENDING_FINANCE"
  /\ PendingStatus["GENERAL_MANAGER"] = "REALISASI_PENDING_GM"
  /\ "REALISASI_IN_PROGRESS" \in InRealisasi
  /\ InRealisasi \subseteq Statuses /\ InRealisasi \subseteq Granted
  /\ InRealisasi \cap ({"NONE", "DRAFT", "REJECTED", "APPROVED", "REALISASI_DONE"}
                         \cup InApproval) = {}
  BY DEF PendingStatus, RejectedStatus, RealisasiRoles, InRealisasi, Statuses,
    Granted, InApproval

(* The rows the review's handlers write.                                   *)
LEMMA ReviewRows ==
  ASSUME NEW old \in RequestRow, NEW role \in RealisasiRoles, NEW total \in Nat
  PROVE  /\ Reported(old, Done(old)) /\ Done(old).status = "REALISASI_DONE"
         /\ Done(old).realisasi = "DONE" /\ Done(old).turn = Null
         /\ Reported(old, PassedTo(old, role))
         /\ PassedTo(old, role).status = PendingStatus[role]
         /\ PassedTo(old, role).realisasi = "PENDING" /\ PassedTo(old, role).turn = role
         /\ Reported(old, RejectedBy(old, role))
         /\ RejectedBy(old, role).status = RejectedStatus[role]
         /\ RejectedBy(old, role).realisasi = "REJECTED" /\ RejectedBy(old, role).turn = Null
<1>1. PendingStatus[role] \in Statuses /\ RejectedStatus[role] \in Statuses
      /\ PendingStatus[role] \in InRealisasi /\ RejectedStatus[role] \in InRealisasi
      /\ "REALISASI_DONE" \in Statuses
  BY ReportStatuses DEF Statuses
<1> DEFINE sp == PendingStatus[role]
           sr == RejectedStatus[role]
<1>2. /\ Done(old) \in RequestRow /\ Done(old).status = "REALISASI_DONE"
      /\ Done(old).realisasi = "DONE" /\ Done(old).turn = Null
      /\ Done(old).amount = old.amount /\ Done(old).finalAmount = old.finalAmount
      /\ Done(old).currentStep = old.currentStep
  BY <1>1 DEF Done, RequestRow
<1>3. LET row == PassedTo(old, role) IN
      /\ row \in RequestRow /\ row.status = sp
      /\ row.realisasi = "PENDING" /\ row.turn = role
      /\ row.amount = old.amount /\ row.finalAmount = old.finalAmount
      /\ row.currentStep = old.currentStep
  <2>1. sp \in Statuses
    BY <1>1
  <2>2. PassedTo(old, role) = [old EXCEPT !.status = sp, !.realisasi = "PENDING",
                                          !.turn = role]
    BY DEF PassedTo
  <2> HIDE DEF sp
  <2>3. QED
    BY <2>1, <2>2 DEF RequestRow
<1>4. LET row == RejectedBy(old, role) IN
      /\ row \in RequestRow /\ row.status = sr
      /\ row.realisasi = "REJECTED" /\ row.turn = Null
      /\ row.amount = old.amount /\ row.finalAmount = old.finalAmount
      /\ row.currentStep = old.currentStep
  <2>1. sr \in Statuses
    BY <1>1
  <2>2. RejectedBy(old, role) = [old EXCEPT !.status = sr, !.realisasi = "REJECTED",
                                            !.turn = Null]
    BY DEF RejectedBy
  <2> HIDE DEF sr
  <2>3. QED
    BY <2>1, <2>2 DEF RequestRow
<1>5. QED
  BY <1>1, <1>2, <1>3, <1>4 DEF Reported

(* A reported row fits its steps as the granted one did.                   *)
LEMMA ReportedFits ==
  ASSUME NEW old, NEW row, Reported(old, row), NEW s, RowFits(old, s)
  PROVE  RowFits(row, s) /\ row.status # "NONE" /\ row.status \in Settled
<1>1. row.status \in Settled /\ row.status \notin InApproval \cup {"NONE"}
  BY StatusSets, ReportStatuses DEF Reported, InApproval
<1>2. QED
  BY <1>1 DEF Reported, RowFits

(* What a report's write leaves of its refunds: at most its variance, with *)
(* the last approval, is new.                                              *)
GivesBack(row, deduct, refund, back) ==
  /\ \A t \in Tags \ {"REALISASI_VARIANCE"} : back[t] = refund[t]
  /\ \/ back["REALISASI_VARIANCE"] = refund["REALISASI_VARIANCE"]
     \/ /\ row.status = "REALISASI_DONE"
        /\ IsVariance(back["REALISASI_VARIANCE"], row, deduct)

(* ... and its ledger rows are still those of the grant, and its variance. *)
LEMMA ReportedInOrder ==
  ASSUME NEW c, NEW old, NEW row, Reported(old, row), old.status \in Granted,
         NEW s, InOrder(c, old, s), NEW deduct, NEW refund,
         NEW back, JasaFits(c, old, deduct, refund),
         GivesBack(row, deduct, refund, back)
  PROVE  InOrder(c, row, s) /\ JasaFits(c, row, deduct, back)
<1>1. /\ row.status \in Settled \ {"APPROVED"} /\ old.status \in Settled
      /\ row.status \notin InApproval \cup {"NONE", "DRAFT", "REJECTED", "APPROVED"}
      /\ row.status = "REALISASI_DONE" => row.realisasi = "DONE"
      /\ row.status \in Granted => row.status # "REALISASI_DONE"
  BY StatusSets, ReportStatuses DEF Reported, InApproval
<1>2. row.amount = old.amount /\ row.finalAmount = old.finalAmount
  BY DEF Reported
<1>3. InOrder(c, row, s)
  BY <1>1, <1>2 DEF InOrder
<1>4. ASSUME ChargedProject[c] \notin FtttProjects
      PROVE  /\ deduct = [ project |-> ChargedProject[c],
                           amount |-> IF c \in Advances THEN row.finalAmount
                                      ELSE row.amount ]
             /\ \A t \in Tags \ {"REALISASI_VARIANCE"} : back[t] =
                  IF c \notin Advances /\ t = "REIMBURSEMENT_VARIANCE"
                       /\ row.amount > row.finalAmount
                  THEN [ project |-> ChargedProject[c],
                         amount |-> row.amount - row.finalAmount ]
                  ELSE NoRow
             /\ \/ back["REALISASI_VARIANCE"] = NoRow
                \/ /\ row.status = "REALISASI_DONE"
                   /\ IsVariance(back["REALISASI_VARIANCE"], row, deduct)
  <2>1. refund["REALISASI_VARIANCE"] = NoRow
    BY <1>1, <1>4, StatusSets DEF JasaFits
  <2>2. QED
    BY <1>1, <1>2, <1>4, <2>1 DEF JasaFits, GivesBack
<1>5. JasaFits(c, row, deduct, back)
  BY <1>1, <1>4 DEF JasaFits
<1>6. QED
  BY <1>3, <1>5

(* A serializable write of the report.                                     *)
LEMMA SetRequestKeeps ==
  ASSUME CashInv, NEW c \in CashOps, NEW row, Reported(request[c], row),
         SetRequest(c, row), UNCHANGED <<steps, disturbed, deductJasa>>, TypeOK',
         \A d \in CashOps \ {c} : refundJasa'[d] = refundJasa[d],
         GivesBack(row, deductJasa[c], refundJasa[c], refundJasa'[c]),
         Charged(c), c \notin disturbed => request[c].status \in Granted
  PROVE  CashInv'
<1> DEFINE old == request[c]
           s == steps[c]
<1>1. /\ RowFits(old, s) /\ s \in Seq(StepRow) /\ CashShape
      /\ c \notin disturbed =>
           InOrder(c, old, s) /\ JasaFits(c, old, deductJasa[c], refundJasa[c])
  BY DEF CashInv, CashShape
<1>2. request' = [request EXCEPT ![c] = row] /\ inFlight' = Overtaken(inFlight, c)
  BY DEF SetRequest
<1>3. steps' = [steps EXCEPT ![c] = s]
  BY <1>1 DEF CashShape
<1>4. row \in RequestRow /\ row.amount = old.amount
  BY DEF Reported
<1>5. RowFits(row, s) /\ row.status # "NONE" /\ row.status \in Settled
  BY <1>1, ReportedFits
<1>6. c \notin disturbed' =>
        InOrder(c, row, s) /\ JasaFits(c, row, deductJasa'[c], refundJasa'[c])
  BY <1>1, ReportedInOrder
<1>7. Charged(c)' /\ disturbed \subseteq disturbed' /\ disturbed' \subseteq CashOps
  BY <1>1 DEF Charged, CashShape
<1>8. /\ DOMAIN s = DOMAIN steps[c] /\ row.amount = request[c].amount
      /\ \A d \in CashOps : deductJasa[d] # NoRow => deductJasa'[d] # NoRow
      /\ \A d \in CashOps \ {c} :
           deductJasa'[d] = deductJasa[d] /\ refundJasa'[d] = refundJasa[d]
  BY <1>4
<1> HIDE DEF old, s
<1>9. QED
  BY <1>1, <1>2, <1>3, <1>4, <1>5, <1>6, <1>7, <1>8, WriteKeeps

(* A later write of the report.                                            *)
LEMMA WriteReviewKeeps ==
  ASSUME CashInv, NEW i \in inFlight, NEW h \in ReviewHandlers, NEW row, NEW review,
         Reported(request[i.cashOp], row), WriteReview(i, h, row, review)
  PROVE  CashInv'
<1> DEFINE c == i.cashOp
           old == request[c]
           s == steps[c]
<1>1. /\ c \in CashOps /\ s \in Seq(StepRow) /\ FitsRow(i, old, s) /\ RowFits(old, s)
      /\ i.handler \in ReviewHandlers => Charged(c)
      /\ c \notin disturbed =>
           InOrder(c, old, s) /\ JasaFits(c, old, deductJasa[c], refundJasa[c])
  BY WriterFacts
<1>2. /\ i.handler = h /\ WriteRow(i, row) /\ UNCHANGED <<ledgerVars, steps>>
      /\ inFlight' = Overtaken(Others(i), c)
  BY DEF WriteReview, WriteRequest
<1>3. steps' = [steps EXCEPT ![c] = s]
  BY <1>2 DEF CashInv, CashShape
<1>4. row \in RequestRow /\ row.amount = old.amount
  BY DEF Reported
<1>5. RowFits(row, s) /\ row.status # "NONE" /\ row.status \in Settled
  BY <1>1, ReportedFits
<1>6. ASSUME i.fresh, c \notin disturbed
      PROVE  InOrder(c, row, s) /\ JasaFits(c, row, deductJasa[c], refundJasa[c])
  <2>1. old.status \in InRealisasi
    BY <1>1, <1>2, <1>6 DEF FitsRow, Checked
  <2>2. old.status \in Granted
    BY <2>1, StatusSets
  <2>3. GivesBack(row, deductJasa[c], refundJasa[c], refundJasa[c])
    BY DEF GivesBack
  <2>4. QED
    BY <1>1, <1>6, <2>2, <2>3, ReportedInOrder
<1>7. QED
  BY <1>1, <1>2, <1>3, <1>4, <1>5, <1>6, PlainWriteKeeps

(* The roles of a review are three, the last two Finance and the GM.       *)
LEMMA ReviewChainFacts ==
  ASSUME NEW c
  PROVE  /\ \A k \in 1..3 : ReviewChain(c)[k] \in RealisasiRoles
         /\ ReviewChain(c)[2] = "FINANCE" /\ ReviewChain(c)[3] = "GENERAL_MANAGER"
         /\ ReviewChain(c)[1] \in {"OPERATIONAL_MANAGER", "MARKETING_HEAD"}
         /\ \A j, k \in 1..3 : ReviewChain(c)[j] = ReviewChain(c)[k] => j = k
<1> DEFINE head == IF Requester[c] \in {"MARKETING", "MARKETING_HEAD"}
                   THEN "MARKETING_HEAD" ELSE "OPERATIONAL_MANAGER"
<1>1. head \in {"OPERATIONAL_MANAGER", "MARKETING_HEAD"}
  OBVIOUS
<1>2. ReviewChain(c) = <<head, "FINANCE", "GENERAL_MANAGER">>
  BY DEF ReviewChain
<1> HIDE DEF head
<1>3. /\ ReviewChain(c)[1] = head /\ ReviewChain(c)[2] = "FINANCE"
      /\ ReviewChain(c)[3] = "GENERAL_MANAGER"
  BY <1>2
<1>4. \A k \in 1..3 : k = 1 \/ k = 2 \/ k = 3
  OBVIOUS
<1>5. QED
  BY <1>1, <1>3, <1>4 DEF RealisasiRoles

Reviews == {<<>>} \cup [1..3 -> Decision]

(* Deciding a role's step changes only that step.                          *)
LEMMA DecidedByFacts ==
  ASSUME NEW c, realisasiSteps[c] \in Reviews, NEW role,
         NEW status \in Decision
  PROVE  /\ DecidedBy(c, role, status) \in Reviews
         /\ realisasiSteps[c] = <<>> <=> DecidedBy(c, role, status) = <<>>
         /\ \A k \in 1..3 : realisasiSteps[c] # <<>> =>
              DecidedBy(c, role, status)[k] =
                IF ReviewChain(c)[k] = role /\ realisasiSteps[c][k] = "PENDING"
                THEN status ELSE realisasiSteps[c][k]
<1> DEFINE v == realisasiSteps[c]
           w == DecidedBy(c, role, status)
<1>1. /\ w = [k \in DOMAIN v |->
                IF ReviewChain(c)[k] = role /\ v[k] = "PENDING" THEN status ELSE v[k]]
  BY DEF DecidedBy
<1>2. \A f \in [1..3 -> Decision] : f # <<>>
  <2>1. \A f \in [1..3 -> Decision] : 1 \in DOMAIN f
    OBVIOUS
  <2>2. DOMAIN <<>> = {}
    OBVIOUS
  <2>3. QED
    BY <2>1, <2>2
<1>3. CASE v = <<>>
  <2>1. DOMAIN v = {}
    BY <1>3
  <2>2. w = <<>>
    BY <1>1, <2>1
  <2>3. QED
    BY <1>3, <2>2 DEF Reviews
<1>4. CASE v \in [1..3 -> Decision]
  <2>1. w \in [1..3 -> Decision]
    BY <1>1, <1>4
  <2>2. QED
    BY <1>1, <1>2, <1>4, <2>1 DEF Reviews
<1>5. QED
  BY <1>3, <1>4 DEF Reviews

(* The next reviewer is that of the first step nobody decided.             *)
LEMMA NextRoleFacts ==
  ASSUME NEW c, NEW v \in [1..3 -> Decision]
  PROVE  \/ NextRole(c, v) = Null /\ \A k \in 1..3 : v[k] # "PENDING"
         \/ \E k \in 1..3 :
              /\ v[k] = "PENDING" /\ \A j \in 1..3 : v[j] = "PENDING" => k <= j
              /\ NextRole(c, v) = ReviewChain(c)[k]
<1> DEFINE pending == {k \in 1..3 : v[k] = "PENDING"}
           IsFirst(k) == \A j \in pending : k <= j
<1>1. DOMAIN v = 1..3
  OBVIOUS
<1>2. NextRole(c, v) = IF pending = {} THEN Null
                       ELSE ReviewChain(c)[CHOOSE k \in pending : IsFirst(k)]
  BY <1>1 DEF NextRole
<1>3. CASE pending = {}
  BY <1>2, <1>3
<1>4. CASE pending # {}
  <2>1. pending \subseteq Nat
    OBVIOUS
  <2>2. \E k \in pending : IsFirst(k)
    BY <1>4, <2>1, LeastElement
  <2> DEFINE k == CHOOSE k \in pending : IsFirst(k)
  <2>3. k \in pending /\ IsFirst(k)
    BY <2>2
  <2>4. NextRole(c, v) = ReviewChain(c)[k]
    BY <1>2, <1>4
  <2> HIDE DEF k
  <2>5. QED
    BY <2>3, <2>4
<1>5. QED
  BY <1>3, <1>4

(* The first review waits for its first reviewer.                          *)
LEMMA NewReviewFacts ==
  ASSUME NEW c, NEW row, row.turn = ReviewChain(c)[1],
         row.status = PendingStatus[row.turn]
  PROVE  NewReview \in Reviews /\ AtNextReviewer(c, row, NewReview)
<1>1. NewReview \in [1..3 -> Decision] /\ \A k \in 1..3 : NewReview[k] = "PENDING"
  BY DEF NewReview, Decision
<1> HIDE DEF NewReview
<1>2. NextRole(c, NewReview) = ReviewChain(c)[1]
  <2>1. PICK k \in 1..3 :
          /\ \A j \in 1..3 : NewReview[j] = "PENDING" => k <= j
          /\ NextRole(c, NewReview) = ReviewChain(c)[k]
    BY <1>1, NextRoleFacts
  <2>2. k = 1
    BY <1>1, <2>1
  <2>3. QED
    BY <2>1, <2>2
<1>3. \A j, k \in 1..3 :
        j < k /\ NewReview[k] # "PENDING" => NewReview[j] = "APPROVED"
  BY <1>1
<1>4. \A k \in 1..3 : NewReview[k] # "REJECTED"
  BY <1>1
<1>5. row.turn \in RealisasiRoles
  BY ReviewChainFacts
<1>6. QED
  BY <1>1, <1>2, <1>3, <1>4, <1>5 DEF AtNextReviewer, Reviews

(* The reviewer whose turn it is approves: the next one is waited for, or  *)
(* all three have approved.                                                *)
LEMMA ReviewAdvances ==
  ASSUME NEW c, realisasiSteps[c] \in [1..3 -> Decision],
         NEW row, AtNextReviewer(c, row, realisasiSteps[c]), Null \notin RealisasiRoles,
         NEW w, w = DecidedBy(c, row.turn, "APPROVED")
  PROVE  /\ NextRole(c, w) = Null => \A k \in 1..3 : w[k] = "APPROVED"
         /\ NextRole(c, w) # Null =>
              /\ NextRole(c, w) \in RealisasiRoles
              /\ row.turn # "GENERAL_MANAGER"
              /\ \A next : next.turn = NextRole(c, w)
                             /\ next.status = PendingStatus[next.turn] =>
                   AtNextReviewer(c, next, w)
<1> DEFINE v == realisasiSteps[c]
<1>1. v \in Reviews /\ v # <<>>
  <2>1. 1 \in DOMAIN v /\ DOMAIN <<>> = {}
    OBVIOUS
  <2>2. QED
    BY <2>1 DEF Reviews
<1>2. /\ w \in [1..3 -> Decision]
      /\ \A k \in 1..3 :
           w[k] = IF ReviewChain(c)[k] = row.turn /\ v[k] = "PENDING"
                  THEN "APPROVED" ELSE v[k]
  <2>1. "APPROVED" \in Decision
    BY DEF Decision
  <2>2. QED
    BY <1>1, <2>1, DecidedByFacts DEF Reviews
<1>3. /\ NextRole(c, v) = row.turn /\ row.turn \in RealisasiRoles
      /\ \A k \in 1..3 : v[k] # "REJECTED"
      /\ \A j, k \in 1..3 : j < k /\ v[k] # "PENDING" => v[j] = "APPROVED"
  BY DEF AtNextReviewer
<1>4. PICK n \in 1..3 :
        /\ v[n] = "PENDING" /\ \A j \in 1..3 : v[j] = "PENDING" => n <= j
        /\ row.turn = ReviewChain(c)[n]
  BY <1>3, NextRoleFacts
<1>5. \A k \in 1..3 : ReviewChain(c)[k] = row.turn <=> k = n
  BY <1>4, ReviewChainFacts
<1> HIDE DEF v
<1>6. \A k \in 1..3 : v[k] \in Decision
  BY DEF v
<1>7. \A k \in 1..3 :
        /\ k < n => v[k] = "APPROVED" /\ w[k] = "APPROVED"
        /\ w[n] = "APPROVED"
        /\ k > n => v[k] = "PENDING" /\ w[k] = "PENDING"
  <2> SUFFICES ASSUME NEW k \in 1..3
               PROVE  /\ k < n => v[k] = "APPROVED" /\ w[k] = "APPROVED"
                      /\ w[n] = "APPROVED"
                      /\ k > n => v[k] = "PENDING" /\ w[k] = "PENDING"
    OBVIOUS
  <2>1. k < n => v[k] = "APPROVED"
    BY <1>3, <1>4, <1>6 DEF Decision
  <2>2. k > n => v[k] = "PENDING"
    BY <1>3, <1>4
  <2>3. QED
    BY <1>2, <1>4, <1>5, <2>1, <2>2
<1>8. \A k \in 1..3 : w[k] \in {"PENDING", "APPROVED"}
  BY <1>7
<1>9. \/ NextRole(c, w) = Null /\ \A k \in 1..3 : w[k] # "PENDING"
      \/ \E k \in 1..3 :
           /\ w[k] = "PENDING" /\ \A j \in 1..3 : w[j] = "PENDING" => k <= j
           /\ NextRole(c, w) = ReviewChain(c)[k]
  BY <1>2, NextRoleFacts
<1>10. \A k \in 1..3 : ReviewChain(c)[k] \in RealisasiRoles
  BY ReviewChainFacts
<1>11. NextRole(c, w) = Null => \A k \in 1..3 : w[k] = "APPROVED"
  BY <1>8, <1>9, <1>10
<1>12. ASSUME NextRole(c, w) # Null
       PROVE  NextRole(c, w) \in RealisasiRoles /\ row.turn # "GENERAL_MANAGER"
  <2>1. PICK k \in 1..3 : w[k] = "PENDING" /\ NextRole(c, w) = ReviewChain(c)[k]
    BY <1>9, <1>12
  <2>2. k > n
    BY <1>7, <2>1
  <2>3. n # 3
    BY <2>2
  <2>4. row.turn # "GENERAL_MANAGER"
    BY <1>5, <2>3, ReviewChainFacts
  <2>5. QED
    BY <1>10, <2>1, <2>4
<1>13. ASSUME NextRole(c, w) # Null, NEW next, next.turn = NextRole(c, w),
              next.status = PendingStatus[next.turn]
       PROVE  AtNextReviewer(c, next, w)
  <2>1. \A k \in 1..3 : w[k] # "REJECTED"
    BY <1>8
  <2>2. \A j, k \in 1..3 : j < k /\ w[k] # "PENDING" => w[j] = "APPROVED"
    BY <1>4, <1>7
  <2>3. QED
    BY <1>12, <1>13, <2>1, <2>2 DEF AtNextReviewer
<1>14. QED
  BY <1>11, <1>12, <1>13

(* A write of a request and its review.                                    *)
LEMMA ReviewWritten ==
  ASSUME CashInv, ReviewInv, NEW c \in CashOps, NEW row, NEW review \in Reviews,
         request' = [request EXCEPT ![c] = row],
         realisasiSteps' = [realisasiSteps EXCEPT ![c] = review],
         disturbed \subseteq disturbed',
         c \notin disturbed' => ReviewFits(c, row, review)
  PROVE  ReviewInv'
<1>1. realisasiSteps \in [CashOps -> Reviews] /\ request \in [CashOps -> RequestRow]
  BY DEF ReviewInv, Reviews, CashInv, CashShape
<1>2. realisasiSteps' \in [CashOps -> Reviews]
  BY <1>1
<1>3. /\ request'[c] = row /\ realisasiSteps'[c] = review
      /\ \A d \in CashOps : d # c =>
           request'[d] = request[d] /\ realisasiSteps'[d] = realisasiSteps[d]
  BY <1>1
<1>4. \A d \in CashOps \ disturbed' : ReviewFits(d, request'[d], realisasiSteps'[d])
  BY <1>3 DEF ReviewInv
<1>5. QED
  BY <1>2, <1>4 DEF ReviewInv, Reviews

(* Rejecting leaves the review where it is, nobody's turn.                 *)
LEMMA RejectedFits ==
  ASSUME NEW c, NEW row, NEW review, NEW role \in RealisasiRoles,
         row.status = RejectedStatus[role], row.realisasi = "REJECTED", row.turn = Null
  PROVE  ReviewFits(c, row, review)
<1>1. row.status \in InRealisasi /\ row.status # "REALISASI_IN_PROGRESS"
      /\ row.status \notin {PendingStatus[r] : r \in RealisasiRoles}
      /\ row.status \in {RejectedStatus[r] : r \in RealisasiRoles}
  BY ReportStatuses
<1>2. QED
  BY <1>1 DEF ReviewFits

(* Passing the review on leaves it with the next reviewer.                 *)
LEMMA PassedFits ==
  ASSUME NEW c, NEW row, NEW review, NEW role \in RealisasiRoles,
         row.status = PendingStatus[role], row.realisasi = "PENDING",
         review # <<>> => AtNextReviewer(c, row, review)
  PROVE  ReviewFits(c, row, review)
<1>1. row.status \in InRealisasi /\ row.status # "REALISASI_IN_PROGRESS"
      /\ row.status \notin {RejectedStatus[r] : r \in RealisasiRoles}
      /\ row.status \in {PendingStatus[r] : r \in RealisasiRoles}
  BY ReportStatuses
<1>2. QED
  BY <1>1 DEF ReviewFits

(* A review is done when all three have approved.                          *)
LEMMA DoneFits ==
  ASSUME NEW c, NEW row, NEW review,
         row.status = "REALISASI_DONE", row.realisasi = "DONE",
         review # <<>> => \A k \in 1..3 : review[k] = "APPROVED"
  PROVE  ReviewFits(c, row, review)
<1>1. row.status \notin InRealisasi /\ row.status # "REALISASI_IN_PROGRESS"
      /\ row.status \notin {RejectedStatus[r] : r \in RealisasiRoles}
      /\ row.status \notin {PendingStatus[r] : r \in RealisasiRoles}
  BY ReportStatuses
<1>2. QED
  BY <1>1 DEF ReviewFits

-----------------------------------------------------------------------------
(* CashOperationService leaves reports alone.                              *)

(* The statuses of a request that is not being reported.                   *)
Unreported == {"NONE", "DRAFT", "REJECTED", "APPROVED"} \cup InApproval

(* Between two such statuses nothing changes for the review.               *)
LEMMA UnreportedFits ==
  ASSUME NEW c, NEW old, NEW row, NEW review, ReviewFits(c, old, review),
         old.status \in Unreported, row.status \in Unreported,
         row.turn = old.turn, row.realisasi = old.realisasi
  PROVE  ReviewFits(c, row, review)
<1>1. \A st \in Unreported :
        /\ st \notin InRealisasi \cup {"REALISASI_DONE", "REALISASI_IN_PROGRESS"}
        /\ st \notin {RejectedStatus[r] : r \in RealisasiRoles}
        /\ st \notin {PendingStatus[r] : r \in RealisasiRoles}
  BY ReportStatuses DEF Unreported, InApproval
<1>2. QED
  BY <1>1 DEF ReviewFits

(* What a fresh handler of the approval read was no report.                *)
LEMMA FreshUnreported ==
  ASSUME CashInv, NEW i \in inFlight, i.handler \in RequestHandlers,
         i.fresh, i.cashOp \notin disturbed
  PROVE  request[i.cashOp].status \in Unreported
<1>1. FitsRow(i, request[i.cashOp], steps[i.cashOp])
  BY WriterFacts
<1>2. CASE i.handler \in {"approve", "reject"}
  BY <1>2, FreshDecision DEF Unreported
<1>3. CASE i.handler \in {"submit", "update", "repair"}
  BY <1>1, <1>3 DEF FitsRow, Checked, Unreported
<1>4. QED
  BY <1>2, <1>3 DEF RequestHandlers

(* A write of the approval, with respect to the review.                    *)
LEMMA RequestWriteReview ==
  ASSUME CashInv, ReviewInv, NEW i \in inFlight, i.handler \in RequestHandlers,
         NEW row, WriteRow(i, row), UNCHANGED realisasiSteps,
         request[i.cashOp].status \in Unreported => row.status \in Unreported,
         row.turn = request[i.cashOp].turn,
         row.realisasi = request[i.cashOp].realisasi
  PROVE  ReviewInv'
<1> DEFINE c == i.cashOp
<1>1. c \in CashOps
  BY WriterFacts
<1>2. /\ request' = [request EXCEPT ![c] = row] /\ disturbed \subseteq disturbed'
      /\ c \notin disturbed' => i.fresh /\ c \notin disturbed
  BY WriteRowFacts
<1>3. realisasiSteps[c] \in Reviews
      /\ realisasiSteps' = [realisasiSteps EXCEPT ![c] = realisasiSteps[c]]
  BY <1>1 DEF ReviewInv, Reviews
<1>4. c \notin disturbed' => ReviewFits(c, row, realisasiSteps[c])
  BY <1>1, <1>2, FreshUnreported, UnreportedFits DEF ReviewInv
<1>5. QED
  BY <1>1, <1>2, <1>3, <1>4, ReviewWritten

(* The rows the approval's handlers write.                                 *)
ApprovalRows(old, k, a) ==
  { [old EXCEPT !.status = "SUBMITTED", !.currentStep = k],
    [old EXCEPT !.status = "REJECTED"],
    [old EXCEPT !.status = "DRAFT", !.amount = a, !.currentStep = k],
    [old EXCEPT !.currentStep = k],
    [old EXCEPT !.status = "IN_REVIEW", !.currentStep = k],
    [old EXCEPT !.status = "APPROVED", !.finalAmount = a, !.currentStep = k] }

(* None of them reports.                                                   *)
LEMMA ApprovalRowsFacts ==
  ASSUME NEW old \in RequestRow, NEW k \in Nat, NEW a \in Nat,
         NEW row \in ApprovalRows(old, k, a)
  PROVE  /\ row.status \in Unreported \cup {old.status}
         /\ row.turn = old.turn /\ row.realisasi = old.realisasi
<1>1. row.turn = old.turn /\ row.realisasi = old.realisasi
  BY DEF RequestRow, ApprovalRows
<1>2. row.status \in {"SUBMITTED", "REJECTED", "DRAFT", "IN_REVIEW", "APPROVED", old.status}
  BY DEF RequestRow, ApprovalRows
<1>3. QED
  BY <1>1, <1>2 DEF Unreported, InApproval

(* Every step of CashOperationService keeps the reviews in turn.           *)
LEMMA RequestNextReview ==
  ASSUME CashInv, ReviewInv, RequestNext, UNCHANGED realisasiSteps
  PROVE  ReviewInv'
<1>1. ASSUME NEW c \in CashOps, NEW a \in Amounts, Create(c, a)
      PROVE  ReviewInv'
  <2> DEFINE old == request[c]
             row == [old EXCEPT !.status = "DRAFT", !.amount = a]
  <2>1. /\ old \in RequestRow /\ old.status = "NONE" /\ UNCHANGED disturbed
        /\ request' = [request EXCEPT ![c] = row]
    <3>1. request \in [CashOps -> RequestRow]
      BY DEF CashInv, CashShape
    <3>2. QED
      BY <1>1, <3>1 DEF Create
  <2> HIDE DEF old
  <2>2. row.status = "DRAFT" /\ row.turn = old.turn /\ row.realisasi = old.realisasi
    BY <2>1 DEF RequestRow
  <2> HIDE DEF row
  <2>3. realisasiSteps[c] \in Reviews
        /\ realisasiSteps' = [realisasiSteps EXCEPT ![c] = realisasiSteps[c]]
    BY DEF ReviewInv, Reviews
  <2>4. c \notin disturbed' => ReviewFits(c, row, realisasiSteps[c])
    <3>1. old.status \in Unreported /\ row.status \in Unreported
      BY <2>1, <2>2 DEF Unreported
    <3>2. c \notin disturbed => ReviewFits(c, old, realisasiSteps[c])
      BY DEF ReviewInv, old
    <3>3. QED
      BY <2>1, <2>2, <3>1, <3>2, UnreportedFits
  <2>5. QED
    BY <2>1, <2>3, <2>4, ReviewWritten
<1>2. ASSUME UNCHANGED <<request, disturbed>>
      PROVE  ReviewInv'
  BY <1>2 DEF ReviewInv
<1>3. ASSUME NEW i \in inFlight,
             \/ Submit(i) \/ Reject(i) \/ \E a \in Amounts \cup {0} : Update(i, a)
             \/ Repair(i) \/ \E a \in Amounts : Forward(i, a) \/ FinalApprove(i, a)
      PROVE  ReviewInv'
  <2> DEFINE c == i.cashOp
             old == request[c]
  <2>1. old \in RequestRow /\ steps[c] \in Seq(StepRow)
    BY WriterFacts
  <2>2. /\ i.handler \in RequestHandlers
        /\ \E k \in Nat, a \in Nat : \E row \in ApprovalRows(old, k, a) : WriteRow(i, row)
    <3>1. CASE Submit(i)
      <4>1. /\ i.handler = "submit"
            /\ WriteRow(i, [old EXCEPT !.status = "SUBMITTED", !.currentStep = 1])
        BY <3>1 DEF Submit, WriteRequestAndSteps
      <4>2. QED
        BY <4>1 DEF RequestHandlers, ApprovalRows
    <3>2. CASE Reject(i)
      <4>1. i.handler = "reject" /\ WriteRow(i, [old EXCEPT !.status = "REJECTED"])
        BY <3>2 DEF Reject, WriteRequest
      <4>2. QED
        BY <4>1 DEF RequestHandlers, ApprovalRows
    <3>3. ASSUME NEW a \in Amounts \cup {0}, Update(i, a)
          PROVE  <2>2
      <4>1. /\ i.handler = "update"
            /\ WriteRow(i, [old EXCEPT !.status = "DRAFT", !.amount = a,
                                       !.currentStep = 0])
        BY <3>3 DEF Update, WriteRequestAndSteps
      <4>2. a \in Nat /\ 0 \in Nat
        BY LedgerAssumption
      <4>3. QED
        BY <4>1, <4>2 DEF RequestHandlers, ApprovalRows
    <3>4. CASE Repair(i)
      <4>1. i.handler = "repair" /\ WriteRow(i, [old EXCEPT !.currentStep = 1])
        BY <3>4 DEF Repair, WriteRequestAndSteps
      <4>2. QED
        BY <4>1 DEF RequestHandlers, ApprovalRows
    <3>5. ASSUME NEW a \in Amounts, Forward(i, a)
          PROVE  <2>2
      <4>1. /\ Decide(i, a)
            /\ WriteRow(i, [old EXCEPT !.status = "IN_REVIEW", !.currentStep = i.step + 1])
        BY <3>5 DEF Forward, WriteRequest
      <4>2. i.handler = "approve" /\ i.step \in DOMAIN steps[c]
        BY <4>1, DecideFacts
      <4>3. i.step + 1 \in Nat
        BY <2>1, <4>2
      <4>4. QED
        BY <4>1, <4>2, <4>3 DEF RequestHandlers, ApprovalRows
    <3>6. ASSUME NEW a \in Amounts, FinalApprove(i, a)
          PROVE  <2>2
      <4>1. /\ Decide(i, a)
            /\ WriteRow(i, [old EXCEPT !.status = "APPROVED", !.finalAmount = a,
                                       !.currentStep = Len(steps[c])])
        BY <3>6 DEF FinalApprove, WriteRequest
      <4>2. i.handler = "approve" /\ a \in Nat /\ Len(steps[c]) \in Nat
        BY <2>1, <4>1, LedgerAssumption DEF Decide
      <4>3. QED
        BY <4>1, <4>2 DEF RequestHandlers, ApprovalRows
    <3>7. QED
      BY <1>3, <3>1, <3>2, <3>3, <3>4, <3>5, <3>6
  <2>3. PICK k \in Nat, a \in Nat :
          \E row \in ApprovalRows(old, k, a) : WriteRow(i, row)
    BY <2>2
  <2>4. PICK row \in ApprovalRows(old, k, a) : WriteRow(i, row)
    BY <2>3
  <2>5. /\ row.status \in Unreported \cup {old.status}
        /\ row.turn = old.turn /\ row.realisasi = old.realisasi
    <3> HIDE DEF old
    <3>1. QED
      BY <2>1, <2>4, ApprovalRowsFacts
  <2>6. QED
    BY <2>2, <2>4, <2>5, RequestWriteReview
<1>4. QED
  BY <1>1, <1>2, <1>3 DEF RequestNext, Start, StartHandler, Abandon

-----------------------------------------------------------------------------
(* The handlers of CashOpRealisasiService.                                 *)

(* What a transaction of the report may rely on.                           *)
LEMMA ReviewerFacts ==
  ASSUME CashInv, ReviewInv, NEW c \in CashOps
  PROVE  /\ request[c] \in RequestRow /\ realisasiSteps[c] \in Reviews /\ TypeOK
         /\ request[c].status \in Settled \/ request[c].realisasi # "NONE" => Charged(c)
         /\ c \notin disturbed =>
              /\ ReviewFits(c, request[c], realisasiSteps[c])
              /\ InOrder(c, request[c], steps[c])
  BY DEF CashInv, CashShape, ChargedIfGranted, ReviewInv, Reviews

(* A write of the report that posts nothing.                               *)
LEMMA PlainReportKeeps ==
  ASSUME CashInv, ReviewInv, NEW c \in CashOps, NEW row, Reported(request[c], row),
         SetRequest(c, row), UNCHANGED <<ledgerVars, steps, disturbed>>, Charged(c),
         c \notin disturbed => request[c].status \in Granted,
         NEW review \in Reviews, SetReview(c, review),
         c \notin disturbed => ReviewFits(c, row, review)
  PROVE  CashInv' /\ ReviewInv'
<1>1. /\ UNCHANGED <<steps, disturbed, deductJasa, refundJasa>> /\ TypeOK'
      /\ request' = [request EXCEPT ![c] = row]
      /\ realisasiSteps' = [realisasiSteps EXCEPT ![c] = review]
  BY ReviewerFacts DEF ledgerVars, ledgerRows, TypeOK, SetRequest, SetReview
<1>2. CashInv'
  <2>1. GivesBack(row, deductJasa[c], refundJasa[c], refundJasa'[c])
    BY <1>1 DEF GivesBack
  <2>2. QED
    BY <1>1, <2>1, SetRequestKeeps
<1>3. ReviewInv'
  BY <1>1, ReviewWritten
<1>4. QED
  BY <1>2, <1>3

(* saveDraft                                                               *)
LEMMA SaveDraftKeeps ==
  ASSUME CashInv, ReviewInv, NEW c \in CashOps, NEW total \in Amounts,
         SaveDraft(c, total)
  PROVE  CashInv' /\ ReviewInv'
<1> DEFINE old == request[c]
           v == realisasiSteps[c]
           row == [old EXCEPT !.status = "REALISASI_IN_PROGRESS",
                              !.realisasi = "DRAFT", !.realisasiTotal = total]
<1>1. /\ old.status \in {"APPROVED", "REALISASI_IN_PROGRESS"}
      /\ SetRequest(c, row)
      /\ UNCHANGED <<ledgerVars, steps, disturbed, realisasiSteps>>
  BY DEF SaveDraft
<1>2. /\ old \in RequestRow /\ v \in Reviews
      /\ old.status \in Settled \/ old.realisasi # "NONE" => Charged(c)
      /\ c \notin disturbed => ReviewFits(c, old, v)
  BY ReviewerFacts
<1>3. old.status \in Granted /\ old.status \in Settled
  BY <1>1, StatusSets, ReportStatuses
<1>4. /\ Reported(old, row) /\ row.status = "REALISASI_IN_PROGRESS"
      /\ row.realisasi = "DRAFT" /\ row.turn = old.turn
  <2>1. total \in Nat /\ "REALISASI_IN_PROGRESS" \in Statuses
        /\ "REALISASI_IN_PROGRESS" \in InRealisasi
    BY LedgerAssumption, ReportStatuses
  <2> HIDE DEF old
  <2>2. /\ row \in RequestRow /\ row.status = "REALISASI_IN_PROGRESS"
        /\ row.realisasi = "DRAFT" /\ row.turn = old.turn
        /\ row.amount = old.amount /\ row.finalAmount = old.finalAmount
        /\ row.currentStep = old.currentStep
    BY <1>2, <2>1 DEF RequestRow
  <2> HIDE DEF row
  <2>3. QED
    BY <2>1, <2>2 DEF Reported
<1>5. c \notin disturbed => ReviewFits(c, row, v)
  <2> SUFFICES ASSUME c \notin disturbed PROVE ReviewFits(c, row, v)
    OBVIOUS
  <2>1. old.turn = Null /\ v = <<>>
    <3>1. "APPROVED" \notin InRealisasi \cup {"REALISASI_DONE"}
      BY ReportStatuses
    <3>2. QED
      BY <1>1, <1>2, <3>1 DEF ReviewFits
  <2> HIDE DEF old, row, v
  <2>2. /\ row.status \in InRealisasi
        /\ row.status \notin {RejectedStatus[r] : r \in RealisasiRoles}
        /\ row.status \notin {PendingStatus[r] : r \in RealisasiRoles}
    BY <1>4, ReportStatuses
  <2>3. QED
    BY <1>4, <2>1, <2>2 DEF ReviewFits
<1>6. SetReview(c, v)
  BY <1>1 DEF SetReview, ReviewInv
<1> HIDE DEF row
<1>7. QED
  BY <1>1, <1>2, <1>3, <1>4, <1>5, <1>6, PlainReportKeeps

(* submit                                                                  *)
LEMMA SubmitRealisasiKeeps ==
  ASSUME CashInv, ReviewInv, NEW c \in CashOps, SubmitRealisasi(c)
  PROVE  CashInv' /\ ReviewInv'
<1> DEFINE old == request[c]
           role == ReviewChain(c)[1]
           row == PassedTo(old, role)
<1>1. /\ old.realisasi \in {"DRAFT", "REJECTED"} /\ SetRequest(c, row)
      /\ SetReview(c, NewReview) /\ UNCHANGED <<ledgerVars, steps, disturbed>>
  BY DEF SubmitRealisasi
<1>2. /\ old \in RequestRow
      /\ old.realisasi # "NONE" => Charged(c)
      /\ c \notin disturbed => InOrder(c, old, steps[c])
  BY ReviewerFacts
<1>3. c \notin disturbed => old.status \in Granted
  <2>1. c \notin disturbed => old.status \in Settled \ {"APPROVED", "REALISASI_DONE"}
    BY <1>1, <1>2 DEF InOrder
  <2>2. QED
    BY <2>1 DEF Settled
<1>4. role \in RealisasiRoles
  BY ReviewChainFacts
<1> HIDE DEF role, old
<1>5. /\ Reported(old, row) /\ row.status = PendingStatus[role]
      /\ row.realisasi = "PENDING" /\ row.turn = role
  BY <1>2, <1>4, ReviewRows
<1> HIDE DEF row
<1>6. NewReview \in Reviews /\ AtNextReviewer(c, row, NewReview)
  BY <1>5, NewReviewFacts DEF role
<1>7. ReviewFits(c, row, NewReview)
  BY <1>4, <1>5, <1>6, PassedFits
<1>8. QED
  BY <1>1, <1>2, <1>3, <1>5, <1>6, <1>7, PlainReportKeeps DEF old

(* What is given back of an advance that was not spent.                    *)
LEMMA VarianceFacts ==
  ASSUME TypeOK, NEW c \in CashOps, NEW a \in Nat,
         PartialRefundForCashOp(c, "REALISASI_VARIANCE", a)
  PROVE  /\ TypeOK' /\ UNCHANGED deductJasa
         /\ \A d \in CashOps \ {c} : refundJasa'[d] = refundJasa[d]
         /\ \A t \in Tags \ {"REALISASI_VARIANCE"} :
              refundJasa'[c][t] = refundJasa[c][t]
         /\ \/ refundJasa'[c] = refundJasa[c]
            \/ refundJasa'[c]["REALISASI_VARIANCE"] =
                 [project |-> deductJasa[c].project, amount |-> a]
<1> DEFINE tag == "REALISASI_VARIANCE"
           p == deductJasa[c].project
           new == [project |-> p, amount |-> a]
           q == GiveBack(project[p], "JASA", a)
<1>1. CASE refundJasa[c][tag] # NoRow
  BY <1>1 DEF PartialRefundForCashOp, ledgerVars, ledgerRows, TypeOK
<1>2. CASE refundJasa[c][tag] = NoRow
  <2>1. /\ a > 0 /\ deductJasa[c] # NoRow
        /\ refundJasa' = [refundJasa EXCEPT ![c][tag] = new]
        /\ project' = [project EXCEPT ![p] = q]
        /\ UNCHANGED <<deductMaterial, refundMaterial, deductJasa>>
    BY <1>2 DEF PartialRefundForCashOp, PostJasaRefund
  <2>2. p \in Projects /\ new \in Row
    BY <2>1 DEF TypeOK, Row
  <2>3. project[p] \in Money /\ "JASA" \in Categories
    BY <2>2 DEF TypeOK, Categories
  <2>4. q \in Money
    BY <2>3, GiveBackType
  <2> HIDE DEF new, q, p
  <2>5. /\ refundJasa' \in [CashOps -> [Tags -> Row \cup {NoRow}]]
        /\ \A d \in CashOps \ {c} : refundJasa'[d] = refundJasa[d]
        /\ \A t \in Tags \ {tag} : refundJasa'[c][t] = refundJasa[c][t]
        /\ refundJasa'[c][tag] = new
    BY <2>1, <2>2 DEF TypeOK, Tags, PartialTags
  <2>6. TypeOK'
    BY <2>1, <2>4, <2>5 DEF TypeOK
  <2>7. QED
    BY <2>1, <2>5, <2>6 DEF new, p
<1>3. QED
  BY <1>1, <1>2

(* NextRole names a reviewer or nobody.                                    *)
LEMMA NextRoleType ==
  ASSUME NEW c, NEW v \in Reviews
  PROVE  /\ NextRole(c, v) \in RealisasiRoles \cup {Null}
         /\ v = <<>> => NextRole(c, v) = Null
<1>1. CASE v = <<>>
  BY <1>1 DEF NextRole
<1>2. CASE v \in [1..3 -> Decision]
  <2>1. v # <<>>
    <3>1. 1 \in DOMAIN v /\ DOMAIN <<>> = {}
      BY <1>2
    <3>2. QED
      BY <3>1
  <2>2. QED
    BY <1>2, <2>1, NextRoleFacts, ReviewChainFacts
<1>3. QED
  BY <1>1, <1>2 DEF Reviews

(* Somebody's turn means that the report is under review.                  *)
LEMMA UnderReview ==
  ASSUME NEW c, NEW old, NEW v, ReviewFits(c, old, v), old.status \in InRealisasi,
         old.turn \in RealisasiRoles
  PROVE  /\ old.realisasi = "PENDING"
         /\ v # <<>> => AtNextReviewer(c, old, v)
<1>1. old.turn # Null
  BY RequesterAssumption
<1>2. old.status \in {PendingStatus[r] : r \in RealisasiRoles}
  BY <1>1 DEF ReviewFits, InRealisasi
<1>3. QED
  BY <1>2 DEF ReviewFits

(* The reviewer whose turn it is approves: what is written fits.           *)
LEMMA OutcomeFits ==
  ASSUME NEW c, NEW old \in RequestRow, NEW role \in RealisasiRoles,
         realisasiSteps[c] \in Reviews,
         realisasiSteps[c] # <<>> =>
           AtNextReviewer(c, old, realisasiSteps[c]) /\ old.turn = role
  PROVE  LET w == DecidedBy(c, role, "APPROVED")
             next == NextRole(c, w)
         IN  /\ ReviewFits(c, IF next = Null THEN Done(old) ELSE PassedTo(old, next), w)
             /\ role = "GENERAL_MANAGER" => next = Null
<1> DEFINE v == realisasiSteps[c]
           w == DecidedBy(c, role, "APPROVED")
           next == NextRole(c, w)
<1>1. w \in Reviews /\ (v = <<>> <=> w = <<>>)
  BY DecidedByFacts DEF Decision
<1>2. next \in RealisasiRoles \cup {Null} /\ (w = <<>> => next = Null)
  BY <1>1, NextRoleType
<1>3. v # <<>> =>
        /\ next = Null => \A k \in 1..3 : w[k] = "APPROVED"
        /\ next # Null =>
             /\ next \in RealisasiRoles /\ role # "GENERAL_MANAGER"
             /\ \A row : row.turn = next /\ row.status = PendingStatus[row.turn] =>
                  AtNextReviewer(c, row, w)
  <2> SUFFICES ASSUME v # <<>>
               PROVE  /\ next = Null => \A k \in 1..3 : w[k] = "APPROVED"
                      /\ next # Null =>
                           /\ next \in RealisasiRoles /\ role # "GENERAL_MANAGER"
                           /\ \A row : row.turn = next
                                         /\ row.status = PendingStatus[row.turn] =>
                                AtNextReviewer(c, row, w)
    OBVIOUS
  <2>1. v \in [1..3 -> Decision] /\ AtNextReviewer(c, old, v) /\ old.turn = role
    BY DEF Reviews
  <2>2. Null \notin RealisasiRoles
    BY RequesterAssumption
  <2>3. w = DecidedBy(c, old.turn, "APPROVED")
    BY <2>1
  <2> HIDE DEF w
  <2>4. QED
    BY <2>1, <2>2, <2>3, ReviewAdvances
<1> HIDE DEF v, w, next
<1>4. CASE next = Null
  <2>1. Done(old).status = "REALISASI_DONE" /\ Done(old).realisasi = "DONE"
    BY DEF Done, RequestRow
  <2>2. ReviewFits(c, Done(old), w)
    BY <1>1, <1>3, <1>4, <2>1, DoneFits
  <2>3. QED
    BY <1>4, <2>2 DEF w, next
<1>5. CASE next # Null
  <2>1. next \in RealisasiRoles /\ v # <<>>
    BY <1>1, <1>2, <1>5
  <2> DEFINE row == PassedTo(old, next)
  <2>2. row.status = PendingStatus[next] /\ row.realisasi = "PENDING" /\ row.turn = next
    <3>1. 0 \in Nat
      OBVIOUS
    <3>2. QED
      BY <2>1, <3>1, ReviewRows
  <2> HIDE DEF row
  <2>3. AtNextReviewer(c, row, w)
    BY <1>3, <1>5, <2>1, <2>2
  <2>4. ReviewFits(c, row, w)
    BY <2>1, <2>2, <2>3, PassedFits
  <2>5. QED
    BY <1>3, <1>5, <2>1, <2>4 DEF row, w, next
<1>6. QED
  BY <1>4, <1>5

(* approve                                                                 *)
LEMMA ApproveKeeps ==
  ASSUME CashInv, ReviewInv, NEW c \in CashOps, NEW role \in GenericApprovers,
         Approve(c, role)
  PROVE  CashInv' /\ ReviewInv'
<1> DEFINE old == request[c]
           v == realisasiSteps[c]
           w == DecidedBy(c, role, "APPROVED")
           next == NextRole(c, w)
           row == IF next = Null THEN Done(old) ELSE PassedTo(old, next)
<1>1. /\ old.status \in Approvable /\ old.turn = role /\ IsPending(c, role)
      /\ SetReview(c, w) /\ SetRequest(c, row) /\ UNCHANGED <<steps, disturbed>>
      /\ IF next = Null /\ old.finalAmount > old.realisasiTotal
         THEN PartialRefundForCashOp(c, "REALISASI_VARIANCE",
                                     old.finalAmount - old.realisasiTotal)
         ELSE UNCHANGED ledgerVars
  BY DEF Approve
<1>2. /\ old \in RequestRow /\ v \in Reviews /\ TypeOK
      /\ old.status \in Settled => Charged(c)
      /\ c \notin disturbed => ReviewFits(c, old, v)
  BY ReviewerFacts
<1>3. old.status \in InRealisasi /\ role \in RealisasiRoles
  BY <1>1 DEF Approvable, InRealisasi, RejectedStatus, RealisasiRoles, GenericApprovers
<1>4. old.status \in Granted /\ Charged(c)
  BY <1>2, <1>3, StatusSets
<1>5. w \in Reviews /\ next \in RealisasiRoles \cup {Null}
  BY <1>2, DecidedByFacts, NextRoleType DEF Decision
<1>6. Reported(old, row) /\ (row.status # "REALISASI_DONE" => next # Null)
  <2>1. 0 \in Nat /\ "FINANCE" \in RealisasiRoles
    BY DEF RealisasiRoles
  <2> HIDE DEF old, next
  <2>2. Reported(old, Done(old)) /\ Done(old).status = "REALISASI_DONE"
    BY <1>2, <2>1, ReviewRows
  <2>3. next \in RealisasiRoles => Reported(old, PassedTo(old, next))
    BY <1>2, <2>1, ReviewRows
  <2>4. QED
    BY <1>5, <2>2, <2>3
<1>7. /\ TypeOK' /\ UNCHANGED deductJasa
      /\ \A d \in CashOps \ {c} : refundJasa'[d] = refundJasa[d]
      /\ GivesBack(row, deductJasa[c], refundJasa[c], refundJasa'[c])
  <2>1. CASE UNCHANGED ledgerVars
    BY <1>2, <2>1 DEF ledgerVars, ledgerRows, TypeOK, GivesBack
  <2>2. CASE /\ next = Null /\ old.finalAmount > old.realisasiTotal
             /\ PartialRefundForCashOp(c, "REALISASI_VARIANCE",
                                       old.finalAmount - old.realisasiTotal)
    <3>1. old.finalAmount - old.realisasiTotal \in Nat
      <4>1. old.finalAmount \in Nat /\ old.realisasiTotal \in Nat
        BY <1>2 DEF RequestRow
      <4>2. QED
        BY <2>2, <4>1
    <3> DEFINE a == old.finalAmount - old.realisasiTotal
    <3>2. /\ TypeOK' /\ UNCHANGED deductJasa
          /\ \A d \in CashOps \ {c} : refundJasa'[d] = refundJasa[d]
          /\ \A t \in Tags \ {"REALISASI_VARIANCE"} :
               refundJasa'[c][t] = refundJasa[c][t]
          /\ \/ refundJasa'[c] = refundJasa[c]
             \/ refundJasa'[c]["REALISASI_VARIANCE"] =
                  [project |-> deductJasa[c].project, amount |-> a]
      BY <1>2, <2>2, <3>1, VarianceFacts
    <3>3. /\ row.status = "REALISASI_DONE" /\ row.finalAmount = old.finalAmount
          /\ row.realisasiTotal = old.realisasiTotal
      <4> HIDE DEF old, next
      <4>1. row = [old EXCEPT !.status = "REALISASI_DONE", !.realisasi = "DONE",
                              !.turn = Null]
        BY <2>2 DEF Done
      <4>2. QED
        BY <1>2, <4>1 DEF RequestRow
    <3>4. row.realisasiTotal < row.finalAmount
      <4>1. old.finalAmount \in Nat /\ old.realisasiTotal \in Nat
        BY <1>2 DEF RequestRow
      <4>2. QED
        BY <2>2, <3>3, <4>1
    <3>5. GivesBack(row, deductJasa[c], refundJasa[c], refundJasa'[c])
      BY <3>2, <3>3, <3>4 DEF GivesBack, IsVariance
    <3>6. QED
      BY <3>2, <3>5
  <2>3. QED
    BY <1>1, <2>1, <2>2
<1>8. c \notin disturbed => ReviewFits(c, row, w)
  <2> SUFFICES ASSUME c \notin disturbed PROVE ReviewFits(c, row, w)
    OBVIOUS
  <2>1. v # <<>> => AtNextReviewer(c, old, v) /\ old.turn = role
    BY <1>1, <1>2, <1>3, UnderReview
  <2>2. QED
    BY <1>2, <1>3, <2>1, OutcomeFits
<1>9. /\ request' = [request EXCEPT ![c] = row]
      /\ realisasiSteps' = [realisasiSteps EXCEPT ![c] = w]
  BY <1>1 DEF SetRequest, SetReview
<1> HIDE DEF row, w, next
<1>10. CashInv'
  BY <1>1, <1>4, <1>6, <1>7, SetRequestKeeps
<1>11. ReviewInv'
  BY <1>1, <1>5, <1>8, <1>9, ReviewWritten
<1>12. QED
  BY <1>10, <1>11

(* reject                                                                  *)
LEMMA RejectRealisasiKeeps ==
  ASSUME CashInv, ReviewInv, NEW c \in CashOps, NEW role \in RealisasiRoles,
         RejectRealisasi(c, role)
  PROVE  CashInv' /\ ReviewInv'
<1> DEFINE old == request[c]
           w == DecidedBy(c, role, "REJECTED")
           row == RejectedBy(old, role)
<1>1. /\ old.status \in Rejectable /\ SetReview(c, w) /\ SetRequest(c, row)
      /\ UNCHANGED <<ledgerVars, steps, disturbed>>
  BY DEF RejectRealisasi
<1>2. /\ old \in RequestRow /\ realisasiSteps[c] \in Reviews
      /\ old.status \in Settled => Charged(c)
  BY ReviewerFacts
<1>3. old.status \in InRealisasi
  BY <1>1 DEF Rejectable, InRealisasi
<1>4. old.status \in Granted /\ Charged(c)
  BY <1>2, <1>3, StatusSets
<1>5. w \in Reviews
  BY <1>2, DecidedByFacts DEF Decision
<1>6. /\ Reported(old, row) /\ row.status = RejectedStatus[role]
      /\ row.realisasi = "REJECTED" /\ row.turn = Null
  <2>1. 0 \in Nat
    OBVIOUS
  <2>2. QED
    BY <1>2, <2>1, ReviewRows
<1> HIDE DEF row, w
<1>7. ReviewFits(c, row, w)
  BY <1>6, RejectedFits
<1>8. QED
  BY <1>1, <1>4, <1>5, <1>6, <1>7, PlainReportKeeps

(* The handlers that write later check what Checked says.                  *)
LEMMA StartReviewKeeps ==
  ASSUME CashInv, ReviewInv, NEW c \in CashOps, NEW h \in ReviewHandlers,
         StartReview(h, c)
  PROVE  CashInv' /\ ReviewInv'
<1> DEFINE row == request[c]
<1>1. /\ MayStartReview(h, c) /\ StartHandler(h, c, 0, 0, <<>>)
      /\ UNCHANGED <<request, disturbed, realisasiSteps>>
  BY DEF StartReview, StartHandler
<1>2. row \in RequestRow /\ (row.status \in Settled => Charged(c))
  BY ReviewerFacts
<1>3. /\ h \in {"approveByOps", "rejectByOps"} => row.status \in OpsPending
      /\ h \in {"approveByFinance", "rejectByFinance"} =>
           row.status = "REALISASI_PENDING_FINANCE"
      /\ h = "approveByGm" => row.status = "REALISASI_PENDING_GM"
      /\ h = "resubmit" => row.status \in {RejectedStatus[r] : r \in RealisasiRoles}
  BY <1>1 DEF MayStartReview, ReviewHandlers
<1>4. row.status \in InRealisasi
  BY <1>3, ReportStatuses DEF ReviewHandlers, OpsPending, InRealisasi, PendingStatus,
    RealisasiRoles
<1>5. Charged(c) /\ row.status # "NONE"
  BY <1>2, <1>4, StatusSets, ReportStatuses
<1>6. h \notin RequestHandlers
  BY DEF RequestHandlers, ReviewHandlers
<1>7. Checked(h, row, steps[c])
  BY <1>3, <1>4, <1>6 DEF Checked, RequestHandlers
<1>8. CashInv'
  BY <1>1, <1>5, <1>6, <1>7, StartHandlerKeeps DEF RequestHandlers
<1>9. ReviewInv'
  BY <1>1 DEF ReviewInv
<1>10. QED
  BY <1>8, <1>9

(* What a handler that writes later may rely on.                           *)
LEMMA LateReviewerFacts ==
  ASSUME CashInv, ReviewInv, NEW i \in inFlight, i.handler \in ReviewHandlers
  PROVE  LET c == i.cashOp IN
         /\ c \in CashOps /\ request[c] \in RequestRow /\ realisasiSteps[c] \in Reviews
         /\ i.fresh /\ c \notin disturbed =>
              /\ ReviewFits(c, request[c], realisasiSteps[c])
              /\ Checked(i.handler, request[c], steps[c])
              /\ request[c].status \in InRealisasi
  BY WriterFacts, ReviewerFacts DEF FitsRow, Checked

(* One review transaction's write keeps both parts.                        *)
LEMMA ReviewWriteKeeps ==
  ASSUME CashInv, ReviewInv, NEW i \in inFlight, NEW h \in ReviewHandlers, NEW row,
         NEW review \in Reviews, WriteReview(i, h, row, review),
         Reported(request[i.cashOp], row),
         i.fresh /\ i.cashOp \notin disturbed => ReviewFits(i.cashOp, row, review)
  PROVE  CashInv' /\ ReviewInv'
<1>1. CashInv'
  BY WriteReviewKeeps
<1>2. /\ request' = [request EXCEPT ![i.cashOp] = row] /\ disturbed \subseteq disturbed'
      /\ i.cashOp \notin disturbed' => i.fresh /\ i.cashOp \notin disturbed
      /\ realisasiSteps' = [realisasiSteps EXCEPT ![i.cashOp] = review]
  BY WriteRowFacts DEF WriteReview, WriteRequest, SetReview
<1>3. i.cashOp \in CashOps
  BY WriterFacts
<1>4. ReviewInv'
  BY <1>2, <1>3, ReviewWritten
<1>5. QED
  BY <1>1, <1>4

(* A pending review's reviewer is the one its status names.                *)
LEMMA StatusNamesReviewer ==
  ASSUME NEW c, NEW old, NEW v, ReviewFits(c, old, v), NEW role \in RealisasiRoles,
         old.status = PendingStatus[role], v # <<>>
  PROVE  AtNextReviewer(c, old, v) /\ old.turn = role
<1>1. old.realisasi = "PENDING"
  BY DEF ReviewFits
<1>2. AtNextReviewer(c, old, v)
  BY <1>1 DEF ReviewFits
<1>3. QED
  BY <1>2, ReportStatuses DEF AtNextReviewer

(* After the OM, Finance: whatever role asked, the OM's step is the first. *)
LEMMA AfterOpsComesFinance ==
  ASSUME NEW c, NEW v \in [1..3 -> Decision], NEW old, AtNextReviewer(c, old, v),
         old.turn = "OPERATIONAL_MANAGER", v = realisasiSteps[c]
  PROVE  NextRole(c, DecidedBy(c, "OPERATIONAL_MANAGER", "APPROVED")) = "FINANCE"
<1> DEFINE w == DecidedBy(c, "OPERATIONAL_MANAGER", "APPROVED")
<1>1. PICK n \in 1..3 : v[n] = "PENDING" /\ "OPERATIONAL_MANAGER" = ReviewChain(c)[n]
  <2>1. NextRole(c, v) = "OPERATIONAL_MANAGER"
    BY DEF AtNextReviewer
  <2>2. "OPERATIONAL_MANAGER" \in RealisasiRoles
    BY DEF RealisasiRoles
  <2>3. NextRole(c, v) # Null
    BY <2>1, <2>2, RequesterAssumption
  <2>4. QED
    BY <2>1, <2>3, NextRoleFacts
<1>2. n = 1
  <2>1. ReviewChain(c)[2] # "OPERATIONAL_MANAGER" /\ ReviewChain(c)[3] # "OPERATIONAL_MANAGER"
    BY ReviewChainFacts
  <2>2. QED
    BY <1>1, <2>1
<1>3. v[2] = "PENDING"
  <2>1. \A j, k \in 1..3 : j < k /\ v[k] # "PENDING" => v[j] = "APPROVED"
    BY DEF AtNextReviewer
  <2>2. QED
    BY <1>1, <1>2, <2>1
<1>4. v \in Reviews /\ v # <<>>
  <2>1. 1 \in DOMAIN v /\ DOMAIN <<>> = {}
    OBVIOUS
  <2>2. QED
    BY <2>1 DEF Reviews
<1>5. w \in Reviews /\ w # <<>> /\ "APPROVED" \in Decision
      /\ \A k \in 1..3 : w[k] =
           IF ReviewChain(c)[k] = "OPERATIONAL_MANAGER" /\ v[k] = "PENDING"
           THEN "APPROVED" ELSE v[k]
  BY <1>4, DecidedByFacts DEF Decision
<1>6. w[1] = "APPROVED" /\ w[2] = "PENDING" /\ w \in [1..3 -> Decision]
  BY <1>1, <1>2, <1>3, <1>5, ReviewChainFacts DEF Reviews
<1> HIDE DEF w
<1>7. PICK k \in 1..3 : /\ w[k] = "PENDING" /\ \A j \in 1..3 : w[j] = "PENDING" => k <= j
                        /\ NextRole(c, w) = ReviewChain(c)[k]
  BY <1>6, NextRoleFacts
<1>8. k = 2
  BY <1>6, <1>7
<1>9. QED
  BY <1>7, <1>8, ReviewChainFacts DEF w

(* approveByOps                                                            *)
LEMMA ApproveByOpsKeeps ==
  ASSUME CashInv, ReviewInv, NEW i \in inFlight, ApproveByOps(i)
  PROVE  CashInv' /\ ReviewInv'
<1> DEFINE c == i.cashOp
           old == request[c]
           v == realisasiSteps[c]
           w == DecidedBy(c, "OPERATIONAL_MANAGER", "APPROVED")
           row == PassedTo(old, "FINANCE")
<1>1. /\ WriteReview(i, "approveByOps", row, w) /\ i.handler = "approveByOps"
      /\ "approveByOps" \in ReviewHandlers
      /\ "FINANCE" \in RealisasiRoles /\ "OPERATIONAL_MANAGER" \in RealisasiRoles
  BY DEF ApproveByOps, WriteReview, ReviewHandlers, RealisasiRoles
<1>2. /\ old \in RequestRow /\ v \in Reviews
      /\ i.fresh /\ c \notin disturbed =>
           ReviewFits(c, old, v) /\ Checked("approveByOps", old, steps[c])
  BY <1>1, LateReviewerFacts
<1>3. w \in Reviews /\ (v = <<>> <=> w = <<>>)
  BY <1>2, DecidedByFacts DEF Decision
<1>4. /\ Reported(old, row) /\ row.status = PendingStatus["FINANCE"]
      /\ row.realisasi = "PENDING" /\ row.turn = "FINANCE"
  <2>1. 0 \in Nat
    OBVIOUS
  <2>2. QED
    BY <1>1, <1>2, <2>1, ReviewRows
<1>5. ASSUME i.fresh, c \notin disturbed PROVE ReviewFits(c, row, w)
  <2>1. ASSUME w # <<>> PROVE AtNextReviewer(c, row, w)
    <3>1. v # <<>> /\ v \in [1..3 -> Decision]
      BY <1>2, <1>3, <2>1 DEF Reviews
    <3>2. old.status = PendingStatus["OPERATIONAL_MANAGER"]
      <4>1. old.status \in OpsPending
        BY <1>2, <1>5 DEF Checked
      <4>2. old.status # "REALISASI_IN_PROGRESS"
        BY <1>2, <1>5, <3>1 DEF ReviewFits
      <4>3. QED
        BY <4>1, <4>2, ReportStatuses DEF OpsPending
    <3>3. AtNextReviewer(c, old, v) /\ old.turn = "OPERATIONAL_MANAGER"
      BY <1>1, <1>2, <1>5, <3>1, <3>2, StatusNamesReviewer
    <3>4. NextRole(c, w) = "FINANCE" /\ "FINANCE" # Null
      <4>1. NextRole(c, w) = "FINANCE"
        BY <3>1, <3>3, AfterOpsComesFinance
      <4>2. QED
        BY <1>1, <4>1, RequesterAssumption
    <3>5. w = DecidedBy(c, old.turn, "APPROVED") /\ Null \notin RealisasiRoles
      BY <3>3, RequesterAssumption
    <3> HIDE DEF w, old, row
    <3>6. QED
      BY <1>4, <3>1, <3>3, <3>4, <3>5, ReviewAdvances
  <2> HIDE DEF row, w
  <2>2. QED
    BY <1>1, <1>4, <2>1, PassedFits
<1> HIDE DEF row, w
<1>6. QED
  BY <1>1, <1>3, <1>4, <1>5, ReviewWriteKeeps

(* rejectByOps and rejectByFinance                                         *)
LEMMA RejectByKeeps ==
  ASSUME CashInv, ReviewInv, NEW i \in inFlight, RejectByOps(i) \/ RejectByFinance(i)
  PROVE  CashInv' /\ ReviewInv'
<1> DEFINE c == i.cashOp
           old == request[c]
           v == realisasiSteps[c]
<1>1. PICK h \in ReviewHandlers, role \in RealisasiRoles :
        WriteReview(i, h, RejectedBy(old, role), v)
  BY DEF RejectByOps, RejectByFinance, ReviewHandlers, RealisasiRoles
<1> DEFINE row == RejectedBy(old, role)
<1>2. i.handler \in ReviewHandlers
  BY <1>1 DEF WriteReview
<1>3. old \in RequestRow /\ v \in Reviews
  BY <1>2, LateReviewerFacts
<1>4. /\ Reported(old, row) /\ row.status = RejectedStatus[role]
      /\ row.realisasi = "REJECTED" /\ row.turn = Null
  <2>1. 0 \in Nat
    OBVIOUS
  <2>2. QED
    BY <1>3, <2>1, ReviewRows
<1>5. WriteReview(i, h, row, v)
  BY <1>1
<1> HIDE DEF row
<1>6. ReviewFits(c, row, v)
  BY <1>4, RejectedFits
<1>7. QED
  BY <1>3, <1>4, <1>5, <1>6, ReviewWriteKeeps

(* editAndApproveByFinance                                                 *)
LEMMA ApproveByFinanceKeeps ==
  ASSUME CashInv, ReviewInv, NEW i \in inFlight, ApproveByFinance(i)
  PROVE  CashInv' /\ ReviewInv'
<1> DEFINE c == i.cashOp
           old == request[c]
           v == realisasiSteps[c]
           w == DecidedBy(c, "FINANCE", "APPROVED")
           next == NextRole(c, w)
           row == IF next = Null THEN Done(old) ELSE PassedTo(old, next)
<1>1. /\ WriteReview(i, "approveByFinance", row, w) /\ i.handler = "approveByFinance"
      /\ "approveByFinance" \in ReviewHandlers /\ "FINANCE" \in RealisasiRoles
  BY DEF ApproveByFinance, WriteReview, ReviewHandlers, RealisasiRoles
<1>2. /\ old \in RequestRow /\ v \in Reviews
      /\ i.fresh /\ c \notin disturbed =>
           ReviewFits(c, old, v) /\ Checked("approveByFinance", old, steps[c])
  BY <1>1, LateReviewerFacts
<1>3. w \in Reviews /\ next \in RealisasiRoles \cup {Null}
  BY <1>2, DecidedByFacts, NextRoleType DEF Decision
<1>4. Reported(old, row)
  <2>1. 0 \in Nat
    OBVIOUS
  <2> HIDE DEF old, next
  <2>2. Reported(old, Done(old))
    BY <1>1, <1>2, <2>1, ReviewRows
  <2>3. next \in RealisasiRoles => Reported(old, PassedTo(old, next))
    BY <1>2, <2>1, ReviewRows
  <2>4. QED
    BY <1>3, <2>2, <2>3
<1>5. ASSUME i.fresh, c \notin disturbed PROVE ReviewFits(c, row, w)
  <2>1. old.status = PendingStatus["FINANCE"]
    BY <1>2, <1>5, ReportStatuses DEF Checked
  <2>2. v # <<>> => AtNextReviewer(c, old, v) /\ old.turn = "FINANCE"
    BY <1>1, <1>2, <1>5, <2>1, StatusNamesReviewer
  <2>3. QED
    BY <1>1, <1>2, <2>2, OutcomeFits
<1> HIDE DEF row, w
<1>6. QED
  BY <1>1, <1>3, <1>4, <1>5, ReviewWriteKeeps

(* approveByGm: a fresh one finds no step after the GM's.                  *)
LEMMA ApproveByGmKeeps ==
  ASSUME CashInv, ReviewInv, NEW i \in inFlight, ApproveByGm(i)
  PROVE  CashInv' /\ ReviewInv'
<1> DEFINE c == i.cashOp
           old == request[c]
           v == realisasiSteps[c]
           w == DecidedBy(c, "GENERAL_MANAGER", "APPROVED")
           next == NextRole(c, w)
           passed == PassedTo(old, "FINANCE")
           row == IF next = Null THEN Done(old) ELSE [passed EXCEPT !.turn = next]
<1>1. /\ WriteReview(i, "approveByGm", row, w) /\ i.handler = "approveByGm"
      /\ "approveByGm" \in ReviewHandlers
      /\ "FINANCE" \in RealisasiRoles /\ "GENERAL_MANAGER" \in RealisasiRoles
  BY DEF ApproveByGm, WriteReview, ReviewHandlers, RealisasiRoles
<1>2. /\ old \in RequestRow /\ v \in Reviews
      /\ i.fresh /\ c \notin disturbed =>
           ReviewFits(c, old, v) /\ Checked("approveByGm", old, steps[c])
  BY <1>1, LateReviewerFacts
<1>3. w \in Reviews /\ next \in RealisasiRoles \cup {Null}
  BY <1>2, DecidedByFacts, NextRoleType DEF Decision
<1>4. Reported(old, row)
  <2>1. 0 \in Nat
    OBVIOUS
  <2> HIDE DEF old, next
  <2>2. Reported(old, Done(old)) /\ Reported(old, passed)
    BY <1>1, <1>2, <2>1, ReviewRows
  <2> HIDE DEF passed
  <2>3. Reported(old, [passed EXCEPT !.turn = next])
    BY <1>3, <2>2 DEF Reported, RequestRow
  <2>4. QED
    BY <2>2, <2>3
<1>5. ASSUME i.fresh, c \notin disturbed PROVE ReviewFits(c, row, w)
  <2>1. old.status = PendingStatus["GENERAL_MANAGER"]
    BY <1>2, <1>5, ReportStatuses DEF Checked
  <2>2. v # <<>> => AtNextReviewer(c, old, v) /\ old.turn = "GENERAL_MANAGER"
    BY <1>1, <1>2, <1>5, <2>1, StatusNamesReviewer
  <2>3. /\ ReviewFits(c, IF next = Null THEN Done(old) ELSE PassedTo(old, next), w)
        /\ next = Null
    BY <1>1, <1>2, <2>2, OutcomeFits
  <2>4. QED
    BY <2>3
<1> HIDE DEF row, w
<1>6. QED
  BY <1>1, <1>3, <1>4, <1>5, ReviewWriteKeeps

(* resubmitRealisasi: the review starts again.                             *)
LEMMA ResubmitKeeps ==
  ASSUME CashInv, ReviewInv, NEW i \in inFlight, NEW total \in Amounts,
         Resubmit(i, total)
  PROVE  CashInv' /\ ReviewInv'
<1> DEFINE c == i.cashOp
           old == request[c]
           role == ReviewChain(c)[1]
           passed == PassedTo(old, role)
           row == [passed EXCEPT !.realisasiTotal = total]
<1>1. /\ WriteReview(i, "resubmit", row, NewReview) /\ i.handler = "resubmit"
      /\ "resubmit" \in ReviewHandlers
  BY DEF Resubmit, WriteReview, ReviewHandlers
<1>2. old \in RequestRow
  BY <1>1, LateReviewerFacts
<1>3. role \in RealisasiRoles /\ total \in Nat
  BY ReviewChainFacts, LedgerAssumption
<1> HIDE DEF role, old
<1>4. /\ Reported(old, passed) /\ passed.status = PendingStatus[role]
      /\ passed.realisasi = "PENDING" /\ passed.turn = role
  BY <1>2, <1>3, ReviewRows
<1> HIDE DEF passed
<1>5. /\ Reported(old, row) /\ row.status = PendingStatus[role]
      /\ row.realisasi = "PENDING" /\ row.turn = role
  BY <1>3, <1>4 DEF Reported, RequestRow
<1> HIDE DEF row
<1>6. NewReview \in Reviews /\ AtNextReviewer(c, row, NewReview)
  BY <1>5, NewReviewFacts DEF role
<1>7. ReviewFits(c, row, NewReview)
  BY <1>3, <1>5, <1>6, PassedFits
<1>8. QED
  BY <1>1, <1>5, <1>6, <1>7, ReviewWriteKeeps DEF old

(* Every step of both services keeps the invariant.                        *)
LEMMA RealisasiNextInv ==
  ASSUME CashInv, ReviewInv, RealisasiNext
  PROVE  CashInv' /\ ReviewInv'
<1>1. CASE RequestNext /\ UNCHANGED realisasiSteps
  BY <1>1, RequestNextInv, RequestNextReview
<1>2. ASSUME NEW c \in CashOps,
             \/ \E total \in Amounts : SaveDraft(c, total)
             \/ SubmitRealisasi(c)
             \/ \E role \in GenericApprovers : Approve(c, role)
             \/ \E role \in RealisasiRoles : RejectRealisasi(c, role)
             \/ \E h \in ReviewHandlers : StartReview(h, c)
      PROVE  CashInv' /\ ReviewInv'
  BY <1>2, SaveDraftKeeps, SubmitRealisasiKeeps, ApproveKeeps, RejectRealisasiKeeps,
     StartReviewKeeps
<1>3. ASSUME NEW i \in inFlight,
             \/ ApproveByOps(i) \/ RejectByOps(i) \/ ApproveByFinance(i)
             \/ RejectByFinance(i) \/ ApproveByGm(i)
             \/ \E total \in Amounts : Resubmit(i, total)
      PROVE  CashInv' /\ ReviewInv'
  BY <1>3, ApproveByOpsKeeps, RejectByKeeps, ApproveByFinanceKeeps, ApproveByGmKeeps,
     ResubmitKeeps
<1>4. QED
  BY <1>1, <1>2, <1>3 DEF RealisasiNext

(* No review has begun at first.                                           *)
LEMMA RealisasiInitInv ==
  ASSUME RealisasiInit
  PROVE  CashInv /\ ReviewInv
<1>1. CashInv
  BY CashInitInv DEF RealisasiInit
<1>2. request = [c \in CashOps |-> NoRequest] /\ realisasiSteps = [c \in CashOps |-> <<>>]
  BY DEF RealisasiInit, RequestInit
<1>3. NoRequest.status = "NONE" /\ NoRequest.turn = Null /\ NoRequest.realisasi = "NONE"
  BY DEF NoRequest
<1>4. \A c \in CashOps : ReviewFits(c, NoRequest, <<>>)
  BY <1>3, ReportStatuses DEF ReviewFits
<1>5. ReviewInv
  BY <1>2, <1>4 DEF ReviewInv
<1>6. QED
  BY <1>1, <1>5

(* The invariant of a cash operation with its report.                      *)
THEOREM RealisasiInvariant == RealisasiSpec => [](CashInv /\ ReviewInv)
<1>1. RealisasiInit => CashInv /\ ReviewInv
  BY RealisasiInitInv
<1>2. CashInv /\ ReviewInv /\ [RealisasiNext]_vars => CashInv' /\ ReviewInv'
  <2>1. ASSUME CashInv, ReviewInv, UNCHANGED vars PROVE CashInv' /\ ReviewInv'
    BY <2>1, CashStutter DEF vars, requestVars, ReviewInv
  <2>2. QED
    BY <2>1, RealisasiNextInv
<1>3. QED
  BY <1>1, <1>2, PTL DEF RealisasiSpec

(* A report waits for the first reviewer who has not approved it and is    *)
(* done when all three have, through either set of routes.                 *)
THEOREM ReportsAreReviewedInTurn == RealisasiSpec => []ReviewedInTurn
<1>1. CashInv /\ ReviewInv => ReviewedInTurn
  <2> SUFFICES ASSUME ReviewInv, NEW c \in CashOps \ disturbed, realisasiSteps[c] # <<>>
               PROVE  LET row == request[c]
                          review == realisasiSteps[c]
                      IN
                      /\ row.realisasi = "PENDING" =>
                           /\ row.turn = NextRole(c, review) /\ row.turn # Null
                           /\ row.status = PendingStatus[row.turn]
                           /\ \A j, k \in 1..3 :
                                j < k /\ review[k] # "PENDING" => review[j] = "APPROVED"
                      /\ row.realisasi = "DONE" => \A k \in 1..3 : review[k] = "APPROVED"
    BY DEF ReviewedInTurn
  <2>1. ReviewFits(c, request[c], realisasiSteps[c])
    BY DEF ReviewInv
  <2>2. QED
    BY <2>1, RequesterAssumption DEF ReviewFits, AtNextReviewer
<1>2. QED
  BY <1>1, RealisasiInvariant, PTL

(* Reports change nothing of what approvals promise.                       *)
THEOREM ReportsKeepTheApproval ==
  RealisasiSpec => [](/\ RequestTypeOK /\ GrantedWasCharged /\ ApprovedWithinRequest
                      /\ StepsInOrder /\ HighAmountsPassTheGM /\ ChargedAsApproved)
<1>1. CashInv => /\ RequestTypeOK /\ GrantedWasCharged /\ ApprovedWithinRequest
                 /\ StepsInOrder /\ HighAmountsPassTheGM /\ ChargedAsApproved
  BY CashInvTypes, CashInvAlways, CashInvInOrder, CashInvCharged
<1>2. QED
  BY <1>1, RealisasiInvariant, PTL

(* An advance stays charged what was granted over any number of rejected   *)
(* and resubmitted reports, and a done report returned at most, and at     *)
(* most once, what it says was not spent.                                  *)
THEOREM ReportedAdvancesStayCharged == RealisasiSpec => []ReportsKeepTheCharge
<1>1. CashInv => ReportsKeepTheCharge
  BY CashInvCharged
<1>2. QED
  BY <1>1, RealisasiInvariant, PTL
=============================================================================
