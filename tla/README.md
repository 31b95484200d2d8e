# PermaTrax: money, goods, field work and drawings, specified and checked

PermaTrax runs the back office of a fiber contractor: projects and their
budgets, orders of material, cash advances and reimbursements, a warehouse,
permits, surveys and documents, and a map on which networks are drawn.
`src/apps/api` is a NestJS server over PostgreSQL (Prisma), `src/apps/web` a
Next.js client. This directory holds TLA+ modules of the parts that keep state
and change it in steps: the budget ledger and the transactions under it, the
workflows that spend from it, the stock, the papers sent to suppliers, the
permit and FTTT projects of the field departments, and the map editor. TLC
checks small instances; TLAPS proves for every instance all the invariants the
passing runs check, the action property and the three refinements. Liveness stays with TLC.

Paths below are relative to `src/apps/api/src/` unless they start with `docs/`
or `web/` (`src/apps/web/`).

## Inventory

| Component | State | Operations | Talks to | What is hard | What makes it correct |
|---|---|---|---|---|---|
| Budget ledger (`budget-ledger/`) | ledger rows; spending and overbudget flag of each finance project | deduct, refund, partial refund per category | called by orders, cash operations, realisasi, transfers, inside their transactions | concurrent changes of one project row, repeated calls, two kinds of refund | spending is what the rows add up to; the flag is current |
| Transaction retries (`budget-ledger/transaction-retry.util.ts`) | none of its own | `runSerializableTransaction`: serializable, three retries on P2034 | PostgreSQL | snapshots, row locks, conflicts, aborts at any statement | a call happens at once or not at all, and ends |
| Finance project (`finance-project/`) | totals, budget lines, hierarchy, status | create, update, updateBudget, close | ledger, transfers | totals checked on a row read before the transaction; archiving races transfers | totals are explained by ledger rows; an archived budget is left alone |
| Budget transfer (`budget-transfer/`) | transfer rows | submit, approve, reject, cancel | two project rows | two locks; reject races approve | money moves at most once, never after a withdrawal |
| Order (`order/`, `purchasing/`) | order rows: status, amount, documents | create, submit, price, approve/reject by two roles, pay, verify, cancel | ledger at `gmApprove` and `cancel`, stock, surat jalan, purchase orders | half of the handlers check first and write later, by id | status and charge agree; goods arrive once |
| Stock, stock-out, purchase requests (`stock/`, `stock-out/`, `purchase-request/`) | quantities, logs, requests | adjust, deduct, receive, two approval chains | orders, surat jalan | absolute writes of quantities read earlier | the documents add up to the quantity; goods leave as approved, arrive once |
| Surat jalan (`surat-jalan/`) | delivery notes | generate, confirm | order, stock, purchases | numbers are counts; confirmation is two statements | a note is confirmed once |
| Supplier invoices, PO generation (`supplier-invoice/`, `po-generation/`) | invoices, PO numbers and files | upload, edit, send, acknowledge, reject; generate | mail queue, orders | mail before the row is written; a number drawn before it is used | the supplier has what was charged and agreed |
| Cash operation (`cash-operation/`) | request rows, step rows, chain | create, submit, approve, reject, revise, repair | ledger at the final approval | reads before the transaction, deletes and recreates steps | decisions count for the version they were made on; what is granted is charged |
| Realisasi (`cash-op-realisasi/`) | report columns of the request, review steps | draft, submit, review (two sets of routes), resubmit | ledger for the unspent part | several handlers write one state machine | reviewers in turn; unspent money returns |
| Visit requests (`visit-request/`, `ba-open/`, `clean-list/`) | visits, area statuses, BA Opens | create, review schedule, survey and file, complete, mark existing fiber | clusters | one await after another, no transaction | an area's status tells what became of its visits; a permit file is issued once, after three gates |
| Permit clusters (`permit-cluster/`, `hld/`, `lld/`, `sip/`, `apd-abd/`, `pr-br/`, `bak/`, `bakp/`, `skom/`, `claim-package/`, ...) | a phase, a status, one record per document | submit, review, issue, pay, hold, override | each document moves the phase | any document may set the phase, backwards too; the record of a phase is created after it | a phase has its record; a file ends reviewed |
| Documents of a claim (`claim-package/`) | uploads, one column of decisions, two checks | upload, decide, re-upload, check, send | storage, mail | the whole column is rewritten from a read | approvals stand for the file that is there |
| FTTT projects (`fttt-project/`) | phase and progress of parent and sites, papers, groups; requests for funds | advance, upload, review, close, create and delete sites; request, review, release, delete | finance projects | readiness is judged, then read again, then written unchecked | phases in order, each ready when completed; funds go out once, as reviewed |
| Map editor (`web/src/store/`, `design/`) | canvas, undo and redo stacks, queue of unsaved edits; stored designs | draw, undo, redo, save, open, archive | `DesignService` | drawing goes on while a save runs; requests fail, answers get lost | what is not stored waits to be saved; undo is exact |
| Pipeline engine, auth, users, notifications, audit, dashboards, reports, map, AI assistant, other web pages | sessions, messages, views | - | all | input/output, read-only, user interface | - |

`PROJECT.json` lists the components with their files and status, and every
hazard found while reading, at its line, with the properties that cover it.

## Modules

| Module | Models | Composes |
|---|---|---|
| `LedgerAccounting` | caps, remainders, the overbudget test, charge and give back, moving a budget | - |
| `BudgetLedger` | the ledger as its callers may rely on it: one action per committed transaction | `LedgerAccounting` |
| `LedgerTransactions` | the database calls under those transactions, statement by statement; implements `BudgetLedger` | `BudgetLedger` |
| `Approval` | abstract: a request is opened once, granted or withdrawn once, and takes effect exactly when granted | - |
| `FinanceProjects` | projects from creation to archive, updateBudget, transfers with their handlers in flight; implements `Approval` | `BudgetLedger`, `Approval` |
| `OrderProcurement` | the life of an order and its effect on the ledger | `BudgetLedger` |
| `PurchasePapers` | the purchase order generated after `gmApprove`, the supplier's invoices, what is mailed | `OrderProcurement` |
| `Warehouse` | stock quantities, stock-outs, purchase requests, the documents that move goods, what an order's `submit` takes and buys | - |
| `CashOperation` | a cash operation up to its final approval | `BudgetLedger` |
| `CashOpRealisasi` | the report of an advance, by both sets of routes | `CashOperation` |
| `PermitGate` | abstract: a permit file is issued once, after visit, survey and administration agreed | - |
| `VisitRequests` | visits, their areas, BA Opens and clusters; implements `PermitGate` | `PermitGate` |
| `PermitClusters` | one permit cluster: each document's handlers and the phase they set | - |
| `ClaimDocs` | the documents of one claim and the decisions on them | - |
| `FtttPhases` | parent and sites of an FTTT project through their phases | - |
| `FtttFunds` | requests for funds of an FTTT project | - |
| `DesignEditor` | the editor's stores and the design service they save to | - |
| `Totals`, `TotalTheorems` | sums over numbered tables and finite sets; lemmas on them | - |
| `BudgetLedgerProofs` | theorems about the ledger | `BudgetLedger` |
| `FinanceProofs` | theorems about the transactions under it, about projects and transfers | `LedgerTransactions`, `FinanceProjects` |
| `PurchaseProofs` | theorems about orders and their papers | `PurchasePapers` |
| `CashOpProofs` | theorems about cash operations and their reports | `CashOpRealisasi` |
| `WarehouseProofs` | theorems about the stock | `Warehouse` |
| `DesignEditorProofs` | theorems about the map editor | `DesignEditor` |
| `FieldProofs` | theorems about claims, funds, visits, permit clusters, FTTT phases and their composition | `MCField`, `DesignEditorProofs` |
| `MC...` | values of the constants and bounds for TLC; `MCField` composes the six field modules, `MCPurchasing` orders and their papers | |

**Correspondence.** A variable is a table (`project`, `order`, `request`,
`visit`, `cluster`) or, for ledger rows, a function of the unique keys of the
table (`deductMaterial`, `refundMaterial`, `deductJasa`, `refundJasa`): the
partial unique indexes of the migration admit one row per key. An action is a
handler, named after it. Columns no property reads are left out; a column the
code leaves empty is `Null`, or 0 for amounts. In `DesignEditor` the variables
are the fields of the two client stores and the rows the server keeps.

**Handlers that check first and write later.** A handler that reads and writes
in one serializable transaction is one action. The others read, decide, and
write by id without looking again. Where a handler makes one late write it is
split into `Start`, which puts what was read into `inFlight`, and its write
(`OrderProcurement`, `CashOperation`, `CashOpRealisasi`, `FinanceProjects`).
Where it makes several, it is a process that carries out one access of a shared
row at a time: `worker` in `Warehouse`, `plan` in `VisitRequests`, `clerk` in
`PermitClusters`, `call` in `FtttPhases`, `errand` in `FtttFunds`, `desk` in
`PurchasePapers`, `chore` in `ClaimDocs`, `save` in `DesignEditor`. Between two
steps anything may happen, and a handler may stop for good (an error, a crash).

**History variables.** Writing a row another handler changed in the meantime
adds it to a variable such as `disturbed`, `overtaken`, `contested`, `troubled`,
`slipped`, `mixed`; a handler that stops half-way or an edit the client gives up
adds to `lost`, `cut`, `dropped`, `forgotten`; replacing a file under its
decisions adds to `swapped`, setting a phase by hand sets `jumped`. They have no
counterpart in the code and no guard reads them (but for `known`, the refIds
drawn so far: a refId is random or a time of day, so none is drawn twice). Some properties hold for the
rows outside of them only, and say so in their comment; the others ("whatever
races") hold for all. What happens to the rows inside is not hidden: it is a
violation run below, or is told under *What the code does not promise*.

**Transactions.** `LedgerTransactions` gives each request a snapshot taken by
its first statement, locks rows in the order of the code (`approveByGm` sorts
the two ids), fails when a row to lock was rewritten since the snapshot, and
publishes its writes at commit. `updateBudget` runs at the default isolation
level and sees the current tables. PostgreSQL and Prisma are modelled from how
the services use them: those definitions are marked external in the map. The
database may abort a serializable transaction at any time, and a process may
die at any time.

**Refinements.** `ledger_tx` checks `LedgerSpec`: the statements of concurrent
transactions implement the atomic ledger. `TransfersAreApprovals` maps a
transfer to `Approval`: it is granted when its money moved, and its effects are
the pairs of rows it booked. `VisitsPassTheGates` maps a visit to `PermitGate`:
the gates it ever passed, and whether its BA Open exists. The last two are
stated over handlers that overlap and die, with no exception for disturbed rows.

## Runs

| Run | Instance | Shows |
|---|---|---|
| `budget_ledger` | two projects (one FTTT), one order, an advance and a reimbursement, amounts 1 and 2, three shapes of budget lines | `SpentMatchesLedger`, `OverbudgetInSync`, `LinesWithinTotal` over every sequence of calls |
| `ledger_tx` | four batches of three or four requests: an approval sent twice, its cancellation, a transfer, a manual adjustment; an advance, its settlement, transfers both ways; one retry | the statements implement `LedgerSpec`; a locked row is current; the P2002 branch is never entered; every request ends |
| `order` | two orders of one project, two handlers in flight, two desks, amounts 1 and 2 | `StatusMatchesLedger`, `PaidOrdersWereCharged`, `GoodsArriveOnce`; `PosShowTheCharge`, `InvoicesAgreedAsMailed` on what reaches the supplier |
| `order_cancel_refund` | one order, two handlers in flight | violation: a cancelled order keeps its charge |
| `order_rejection` | the same | violation: a rejection restarts the chain, the statuses REJECTED_BY_* are never written |
| `cash_op` | one cash operation at a time out of five: two advances with their reports, an advance, a reimbursement and an FTTT reimbursement up to their approval; chains of one to three approvers; two handlers in flight; amounts up to 3, high above 1 | the chain, its ceiling, the GM for high amounts, and the charge; `ReviewedInTurn`; `ReportsKeepTheCharge`: a reported advance stays charged what was granted, and gets back at most once and at most what it did not spend |
| `realisasi_variance` | two advances, amounts 1 and 2, one handler at a time | violation: the unspent part is not returned |
| `realisasi_draft` | the same | violation: a report is done that was never submitted |
| `finance_project` | a segment and its site, two transfers, one order, two handlers in flight | `BudgetExplained`, `ArchivedBudgetKept`, transfers implement `Approval` |
| `warehouse` | one item, two workers, and either a stock-out or an order with a purchase | `StockMatchesDocuments`, `GoodsLeaveAsApproved`, `PurchasesArrive` |
| `submit_stock` | the same with one worker | violation: an order whose goods are on hand is submitted and nothing leaves the stock |
| `field` | one area and two visits; one permit cluster; a claim with two documents; an FTTT parent and a site; a request for funds; a stored design and a drawn one; two handlers at once in each | the properties of the six field modules, visits implement `PermitGate` |

**Bounds.** Two handlers at once is the smallest number at which one overtakes
another; a third only repeats the pairs. It bounds `MaxInFlight`, `Workers`,
`Desks`, `Clerks`, `Hands`, `Tellers` and `Reviewers`.

* Ledger: `MaxTotal` caps what transfers may pile up; `MaxRetries = 1` stands
  for three (one retry and one failure for good both happen). `Batches` are the
  sets of requests under way together: three or four, since all eight at once
  exceed what TLC enumerates; each pair that shares a row occurs in one.
* Cash operations: `MaxRequests = 1` makes one live at a time, since requests
  share nothing but the ledger, whose sharing `budget_ledger` and `ledger_tx`
  check. Amounts up to 3 let an amount be lowered twice, be high or not, and be
  revised across the limit in both directions. `ReportBounds` splits the
  questions: the general manager's advance is reported with every amount while
  its handlers do not overtake one another (`ReportsKeepTheCharge` says nothing
  of it afterwards, and an overtaken request stays overtaken), marketing's with
  one amount whatever they do, since turns do not depend on amounts, and the
  others are followed to their approval. Of the chains, the run has those of
  `ADMIN` (with and without GM), `MARKETING_HEAD` and `GENERAL_MANAGER`.
* `order`: `PurchaseBounds` makes a behaviour about one order with all handlers
  of `OrderProcurement` (`OneOrder`), about invoices (`OnlyInvoices`), or about
  the purchase orders of two orders (`OnlyPurchaseOrders`); the last
  keeps the order between its price and its payment moving, a late `gmReject`
  included, so that the two modules meet. `MaxNumber = 4` numbers for two orders
  leave room for an order that is given a second one, when two generations of it
  both read that it has none.
* `warehouse`: `MaxQty`, `MaxDocuments`, `MaxOuts` and `MaxTaken` cap counters;
  `OneSide` keeps to orders of one piece, to stock-outs or orders in a
  behaviour, and to counting by hand before the first document. Quantities asked
  of a stock-out go up to 2, so that a requester who resubmits a returned one can
  ask for another quantity; the approvers confirm it as it is. `MaxOuts = 2`
  and `MaxTaken = 2` let goods leave once too often.
* `field`: the tables of its six parts are not shared, so a behaviour has a
  `focus` and leaves the others alone. `Files` are the documents of a cluster
  worked on in one behaviour: each alone, and together those whose handlers read
  one another. `Scenarios` choose the company, the papers of a site that are
  `slow` (the others are on file from the start) and whether sites come and go.
  `VisitBounds`, `ClusterBounds`, `FtttBounds` and `ClaimBounds` state, each in
  its comment, where two handlers stop overlapping; `MaxUploads` lets a file be
  replaced once, `MaxEdits` and `MaxEvents` allow two drawn edits and three
  other events, and a release of funds is tried three times.
* Symmetry: workers, desks and the field's two handler names are interchangeable
  and appear in no temporal property but the two safety refinements, whose
  variables do not mention them.

**Deadlock** is not checked where the system may rest: all requests ended, all
orders delivered or cancelled, all requests decided, a file completed.
`budget_ledger`, `finance_project` and `warehouse` always have a step and check it.

**Fairness.** `TxSpec` assumes weak fairness of each request's own steps
(begin, lock, fail on conflict, refuse, commit): the event loop and the database
serve every connection, `sleep` ends, and a lock wait ends when the holder does.
Nothing is assumed of aborts and deaths. It suffices because locks are taken in
one global order and attempts are bounded, so no step is disabled forever.
Only `EveryRequestEnds` depends on it. No other liveness is claimed: every
workflow waits for people, whom nothing obliges, and the handlers' own steps are
short sequences of awaits that end or fail.

## What the violations show

* `order_cancel_refund`: two GMs decide on one order at the same time. `gmReject`
  has seen PENDING_GM_APPROVAL; `gmApprove` charges the order; `gmReject` then
  writes the revision status. `cancel` gives back only from
  PENDING_PAYMENT_RECEIPT, so the cancelled order keeps its charge, against
  `docs/procurement-unification-overview.md:68`.
* `order_rejection`: `opsReject` and `gmReject` send an order back to
  PENDING_ADMIN_STOCK, or a restock order to PENDING_PURCHASING_INPUT. PROC-6 of
  `docs/procurement-unification-manual-test.md` (58-59) expects REJECTED_BY_OPS
  and REJECTED_BY_GM, which `docs/procurement-unification-overview.md:67` lists
  as well; the schema still has both, nothing writes them, and the web client
  labels them legacy. The run refutes PROC-6's outcome; the theorems on orders
  are about the chain that starts again. No race is needed.
* `realisasi_variance`: the GM's route calls `approveByGm`, which completes the
  report and posts no refund; the refund in `approve` waits for a last approver
  whom the route of `approve` does not admit. `docs/cash-advance-refactor-manual-test.md`,
  CA-10, expects a REALISASI_VARIANCE row. No race is needed.
* `realisasi_draft`: `approveByOps` accepts REALISASI_IN_PROGRESS, the status of a
  saved draft. Without step rows Finance's approval finds nothing left to do and
  completes the report, against CA-9 of the same document. No race is needed.
* `submit_stock`: `submit` hands `deductAvailableItems` the lines it read before
  `checkAvailability` wrote what is available, 0 on a first submission. The
  order becomes STOCK_AVAILABLE, its surat jalan is issued and the stock keeps
  the goods, against `surat-jalan/surat-jalan.service.ts:133`. No race is needed.

## What the code does not promise

**Cash operations.** A rejection, submit or repair of a cash
operation that is overtaken by the final approval is still written: the request
then is REJECTED (or has a new chain) and stays charged, since no code calls
`refundForCashOp`. A review handler overtaken by a completion reopens the report.
`ChargedAsApproved`, `StepsInOrder`, `HighAmountsPassTheGM` and `ReviewedInTurn`
therefore speak of requests no handler overtook. `ApprovedWithinRequest` and
`GrantedWasCharged` need no such condition, because a decision on a step row that
was deleted fails. `partialRefundForCashOp` asks for a deduction and a tag not used yet, not that the
amount stays below the deduction. A request charged 1, rejected by an
overtaken handler, revised to 3 and approved at 1 is not deducted again, and 2
come back. `BudgetLedger` has no guard against it, so `SpentMatchesLedger` says
only that spending is then at least the sum of the rows (`GiveBack` clamps at
0), and `ReportsKeepTheCharge` leaves such requests out.

The order of a report's reviewers is `buildRealisasiApprovalChain`'s: marketing
head or operational manager, Finance, GM, as the spec tests of the service have
it. The comments "PM → OPS → GM → Finance" and "GM→Finance"
(`cash-op-realisasi/cash-op-realisasi.service.ts:508`, 746, 900) and scenarios
CA-7 and CA-12 of `docs/cash-advance-refactor-manual-test.md`, where a submitted
or resubmitted report goes to Finance first, describe earlier versions.

**Orders and their papers.** Two approvals at once draw the same purchase order
number; the file of the second overwrites the first's, and the loser of the
unique conflict deletes the file of that name. A generation that fails or dies is
never repeated, although `docs/procurement-unification-manual-test.md:90` has
`gmApprove` set number and file. A purchase order may be mailed for an order
cancelled meanwhile. An invoice is mailed before it is marked as sent: edited in
between, it is marked with an amount the supplier never saw, and `update` may
write DRAFT over a state it did not see. `PosShowTheCharge` and
`InvoicesAgreedAsMailed` leave out exactly these orders (`contested`,
`disturbed`, `overtaken`).

**Warehouse.** Quantities are written as absolute values computed from an earlier
read: an overtaken change is lost until the next count by hand. Two calls may
both receive a purchase and book its goods twice; two documents created at once
draw one number and one creation throws, after its goods moved. When that happens
inside an order's `submit`, the order stays DRAFT and may be submitted again, and
goods leave twice for one order. `StockMatchesDocuments` counts what was taken,
twice if it was, and so does not exclude it.

**Visits.** A rejected visit that is resubmitted claims its area without asking
whether another visit did: an area may have two live visits. When the BA Open
fails after APPROVED was written, the visit can neither be approved again nor,
unless it is EXISTING_FIBER, regenerated. `AreaFollowsVisits` leaves such areas
out (`troubled`), so it speaks neither of a BA Open that failed nor of an area
claimed again; `VisitsPassTheGates` has no such exception.

**Permit clusters and claims.** Any handler may set the phase back. A payment
proof restores the BAKP status it read. Two reviewers of different documents of
a claim overwrite each other's decision, and may bring back one that an upload
cleared; a plain upload keeps the approvals of the file it replaces. What
remains true whatever races is in `ApprovalsStandForTheirFile`: no approval by
the PM without the admin's, and no claim sent without its required documents.

**FTTT projects.** Two advances judged at once skip a phase's own judgement. A
closed site still takes papers, and an advance under way writes COMPLETED over
CLOSED. A reason of blanks is stored empty and releases funds without an
acceptance; overlapping releases go out twice.

**Map editor.** Edits drawn while the design is created are lost from the queue;
undo queues the original command, not its inverse; squeezing the queue drops
updates combined with an add or a move; opening another design does not empty
the stacks; leaving edit mode drops what was put back into the queue. After a
save `designId` becomes null, so the next save creates the design anew and its
AddNode requests fail as "already exists" from then on; lines that end at a
waypoint are always refused, and so is, on every save, a line drawn to a stored
node that was deleted before it could be sent. Since the stacks outlive the
design they were filled on, undo on another design queues commands of the first:
undoing the deletion of a node queues that deletion again, and the server deletes
with the node whatever lines it has in the design now open, which the canvas
still shows. `NoEditIsForgotten` leaves all these edits out (`forgotten`), those lost while
the design is created included, and speaks of the others, through lost answers,
refusals and failures; after such an undo (`base = Unknown`) it says nothing
more of the design until the next one is opened or saved. `web/src/app/map/test/commandStoreCheck.ts`
(195-245) asserts behaviour the stores no longer have.

## What is proved

The theorems hold for any sets and numbers of projects, orders, requests, items,
visits, documents and designs, and for any number of handlers at work at once:
the small numbers under *Bounds* are the runs' alone. Each has the form
`Spec => []P`, where `Spec` is the specification TLC explores without its state
constraints, and each was checked by TLC, its inductive invariant included,
before it was proved.

| Module | Inductive invariant | Theorems (and the checked property they state) |
|---|---|---|
| `BudgetLedgerProofs` | `LedgerInv` | `LedgerTypeOK`, `SpendingIsTheLedger` (`SpentMatchesLedger`), `OverbudgetStaysInSync`, `LinesStayWithinTotal` |
| `FinanceProofs` | `TxInv` | `TransactionsKeepTheirType`, `HoldersAreCurrent` (`LockedRowIsCurrent`), `IndexesNeverRefuse` (`NoUniqueConflict`), `TransactionsKeepTheLedger`, `TransactionsImplementTheLedger` (`LedgerSpec`) |
| | `FinanceInv` | `FinanceKeepsItsType`, `BudgetsAreExplained`, `ProjectsKeepTheirLedger`, `ArchivedBudgetsAreKept`, `TransfersImplementApproval` (`TransfersAreApprovals`) |
| `PurchaseProofs` | `OrderInv`, `PurchaseInv` | `OrdersKeepTheirType`, `StatusesMatchTheLedger`, `OrdersArePaidAfterTheCharge`, `GoodsAreBookedOnce`; `PapersKeepTheirType`, `PurchaseOrdersShowTheCharge`, `SuppliersAgreeToTheMail` |
| `CashOpProofs` | `CashInv`, `ReviewInv` | `RequestsKeepTheirType`, `GrantsAreCharged`, `GrantsStayWithinRequest` (`ApprovedWithinRequest`), `ChainsDecideInOrder` (`StepsInOrder`), `HighAmountsReachTheGM` (`HighAmountsPassTheGM`), `ProjectsBearWhatWasGranted`; `ReportsAreReviewedInTurn`, `ReportsKeepTheApproval`, `ReportedAdvancesStayCharged` (`ReportsKeepTheCharge`) |
| `WarehouseProofs` | `WarehouseInv`, `BooksInv` | `WarehouseKeepsItsType`, `StockOutsLeaveAsApproved`, `BoughtGoodsArriveOnce`; `StockIsWhatTheDocumentsSay` (`StockMatchesDocuments`) |
| `FieldProofs` | `ClaimInv` | `ApprovalsAreForTheirFile` |
| | `FundInv` | `FundsAreReleasedAsReviewed` |
| | `GateInv`, `VisitInv` | `VisitsImplementTheGate` (`VisitsPassTheGates`), `AreasFollowTheirVisits` |
| | `ClusterInv`, `RecordsInv` | `PermitsAreReviewed`; `PhasesHaveTheirRecords`, `IssuedRequestsAdvance` |
| | `FtttInv` | `ProjectsAdvanceInOrder`, `CompletedPhasesWereReady`, `ProjectsKeepTheirType` |
| | - | `DepartmentsRunApart`: what is proved of a department alone holds in `FieldSpec`; `FieldKeepsItsTypes` (`FieldTypeOK`) |
| `DesignEditorProofs` | `DrawingInv` | `EditorKeepsItsTypes`, `UndoingIsExact` (`UndoIsExact`) |
| | `EditInv` | `EditsAreNotForgotten` (`NoEditIsForgotten`) |

**Assumptions.** Each is named, stands in the module that declares its
constants, and is evaluated by TLC on the runs. `NullAssumption`,
`NothingAssumption`, `PaperAssumption`, `FundAssumption`, `VisitAssumption` and
`ClusterAssumption` say that markers for "no row" and "no task" are none of the
rows and tasks (of `ClusterAssumption`, also that a complete file is a set of
documents). `LedgerAssumption` says that amounts are positive and that two
explicit lines of a new budget fit its total (the check in `updateBudget` and
the DTO); `OrderAssumption`, `CashOperationAssumption`, `RequesterAssumption`,
`FinanceAssumption`, `WarehouseAssumption`, `ClaimAssumption` and
`FtttAssumption` give constants their types: an order has a project, a site's
parent is a segment, tables are finite. `EditorAssumption` says that nodes and
lines have different refIds, that a waypoint is no node, that the markers for
"absent", "no design", "no save" and "unknown" are none of the things they stand
beside, that the two canvases a session may begin with are canvases, and that
some design exists. `TransactionAssumption` says that
projects are locked in a total order, that requests for one order or one cash
operation agree on its project, and that a transfer has two projects. `TransactionsImplementTheLedger` carries the
hypothesis that the ledger's bound on totals (`MaxTotal`) holds, since the
abstract transfers are guarded by it.

**The arguments.** No property is inductive alone; what each needs besides is
the content of its invariant.

* *Ledger.* `GiveBack` clamps at 0, so a refund takes off its amount only if that
  much is spent. An order's refund repeats its deduction, so it always is. A cash
  operation's need not: the clamp then keeps spending above the sum of the rows,
  and where no cash operation of the project is below 0 the sum covers each of
  them, so nothing is clamped and spending is the sum (`JasaMatches`).
  `MaterialPosted` and `JasaPosted` carry the common part: posting one row
  changes one summand, hence the sum (`TotalUpdate`), and no summand exceeds the
  sum (`TotalCovers`). `TotalTheorems` proves these for the recursive `Total` by
  the least counterexample, and carries them over to sums over finite sets.
* *Transactions.* Two requests never hold the same row (`Exclusive`), and what
  a request holds has not changed since its snapshot (`SnapshotInv`). So what a
  commit publishes, computed from the snapshot, is what the action of
  `BudgetLedger` computes from the current tables; every other step stutters. A
  deduction row exists for none but a committed job (`RowsOfJobs`), which is why
  the P2002 branch cannot be entered.
* *Projects.* `HandlersFit` says that a handler in flight saw the row as it is or
  as it was before another decided; `RowsFollowDecisions`, that a booked pair of
  ledger rows belongs to a moved transfer. A site's total is explained row by
  row, again with `TotalUpdate`.
* *Orders.* `LedgerFits` relates status and deduction of an order nobody wrote
  over; a handler remembers a status its order really had (`HandlersOK`). For
  papers, `PapersCovered` and `NumbersApart` say who may write a file of which
  number, and `AmountsSettled` that an amount no longer changes once charged.
* *Cash operations.* `HandlerInv` ties a decision in flight to the step row it
  will look up again by its identity: recreated rows make it fail. From this,
  the ceiling and the charge hold whatever races, the order of the chain where
  nothing was overtaken. `JasaFits` follows the rows of the ledger from the final
  approval to a done report: one variance row at most, of what was granted above
  what was reported. Reports add `ReviewFits`, turn by turn.
* *Warehouse.* `TaskInv` says that a handler works on a row that is there and had
  asked for its status; `Arrives`, that one handler receives a purchase. `BooksInv`
  adds that a quantity not overwritten unread is the last count by hand plus
  what moved, where a write changes one summand. That the documents' statuses
  say what moved follows from the two approvals and the single arrival.
* *Claims, funds.* The column a decision rewrites was read when the decisions in
  it were founded (`ChoreInv`); two releases of one request make it contested.
* *Visits.* The gates a visit's row records stay passed, and a plan still to be
  carried out was drawn up behind them (`PlanInv`); so issuing a BA Open maps to
  the one step of `PermitGate` that allows it. `AreaInv` counts who holds an area.
* *Clusters.* `SealInv` and `TasksInv` say what a clerk's remaining steps may
  rely on: both approvals, or a payment. `PhaseInv` and `IssueInv` say that a
  phase without its record has a clerk about to insert it, and that two issued
  requests have a clerk about to count them.
* *FTTT.* `CallInv` says that a handler about to complete a phase judged it while
  it was current and ready, or its project slipped; since `advance` writes the
  phase it saw, the progress of all others is as `OrderedAs` states.

* *Editor, undo.* `HasCourse` says that there is a sequence of canvases from the
  last emptying of the stacks, through the applied and the undone commands,
  which passes the canvas shown; each command fits the canvas before it (it was
  made from it), and `revertCommand` undoes a command that fits
  (`RevertUndoes`). The recursions in `UndoIsExact` and in `flush` are functions
  over the places of a queue; that they are what they say is shown by a least
  counterexample (`CourseRedone`, `ChoosingDefined`).
* *Editor, saving.* `UndoIsExact` needs no server; `NoEditIsForgotten` is about
  three copies of a design (canvas, queue, server) and is far from inductive: that
  an element that differs has some command waiting does not say that sending it
  helps. `QueueOK` says where the queue ends: the last place and label waiting for
  an element are those shown, a deletion waits only for what is not shown, and
  comes last. `ServerOK` says what the server has where nothing waits, and that
  a line a node's deletion takes along really ends there. `LocalOK` is its
  counterpart before a design exists. All three survive that a request is carried
  out and its answer lost (`LostServer`), that one is settled (`RestServer`),
  that a flush leaves out what `KeptWhole` allows (`BatchQueue`, `BatchServer`),
  that a command is drawn (`DrawnQueue`, `DrawnServer`) or queued again by undo
  and redo (`AgainQueue`, `AgainServer`). `StackOK` and `LinesAgree` relate the
  stacks to the queue, for the undo of a node that lines waiting end at;
  `ModeOK`, `SendOK` and `CreateOK` say which design a running save is for, and
  that a new node whose place is still to be sent is stored where it was drawn.
  This part found an exception the runs' bounds did not reach: the undo on
  another design told under *What the code does not promise*.

**Only model-checked.** Liveness (`EveryRequestEnds`) and whatever needs ENABLED
are outside the prover's reach. The five violation runs are counterexamples and
need no proof. `TransactionsImplementTheLedger` covers the safety part of its
specification, which has no fairness.

## Not modelled

Within the modelled parts: notifications and everything sent after a commit;
order and request numbers; PDFs and signatures; `disburse`, which no request
approved by the current flow can reach; `approveByPm` and `rejectByPm` of a
report and `pmSeniorReview` of a visit, whose status nothing writes any more;
prices and the catalogue's upkeep; negotiation rounds, checklists, evidence,
spans, S-curves; geometry, sketches and the first save of a calculation in the
editor. Amounts are integers (the code uses exact decimals and never rounds).

Parts left out, and why:

* The pages of the web client, about half of the source: forms and tables that
  hold no state beyond their fields and ask the server.
* The AI assistant: routing of natural language and a model's answers.
* Dashboards, reports, forecasts, audit and activity logs: they only read, or
  only write what nobody reads back.
* The map's GIS services and the rendering of PDFs: functions of geometry and
  layout without steps.
* Authentication, users, notifications, mail, storage: input/output. The roles
  that decide what is reachable are guards of the models.
* The pipeline engine: nothing calls `initializeClusterPipeline` and nothing sets
  the template a project needs, so its rows never exist and its handlers
  find nothing to work on.
* Migrations, seeds and tests, among them a copy of a page kept for reference.

They make up most of the lines, which is why the models stand for a small share
of the source, while every workflow that keeps state on the server is here.

## Plan

Done: all modules above, and the theorems listed. Every invariant of a passing
run is stated by a theorem. What would come next:

1. Action properties over whole behaviours: a stock-out's `outs` and a permit
   file's seal change in one direction only, as an archived budget does.
2. The pages of the web client that keep state of their own between two calls,
   should they grow beyond forms.
