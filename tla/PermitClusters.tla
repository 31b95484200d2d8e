--------------------------- MODULE PermitClusters ---------------------------
(***************************************************************************)
(* One permit cluster: PermitClusterService with the services of the       *)
(* documents that move it from phase to phase.                             *)
(*                                                                         *)
(* A handler checks the status of its document, or nothing at all, then    *)
(* awaits its writes one after another: the document's status, and often   *)
(* advancePhaseInternal, which reads the phase, writes it, and creates the *)
(* record the new phase works on.  Phases are not ordered: whichever       *)
(* handler runs last decides.  A Handler is such a procedure: the document *)
(* it is about, the statuses it accepts, and what it does.                 *)
(***************************************************************************)
EXTENDS Naturals, FiniteSets, Sequences

CONSTANTS
  Files,      \* bound: which documents are worked on in one behaviour
  Clerks,     \* bound: handlers at work at once
  Overrides,  \* phases the manual override may choose
  NoTask

VARIABLES
  cluster,    \* PermitCluster: currentPhase and status
  record,     \* status of each document, "absent" before it exists
  file,       \* the documents of this behaviour, one of Files
  clerk,      \* what each clerk is still to do
  seals,      \* history: who ever approved the BAKP, who ever paid
  jumped,     \* history: a phase was once set without advancePhaseInternal
  cut         \* history: a handler stopped before its last write

clusterVars == <<cluster, record, file, clerk, seals, jumped, cut>>

Documents ==
  {"survey", "sip", "hld", "lld", "apd", "abd", "pr", "br", "workflow", "contract",
   "skom", "compensation", "bak", "package", "scom", "socialization", "agreement",
   "bakp", "claim", "invoice"}

-----------------------------------------------------------------------------
(* What handlers do, one access of shared rows at a time.                  *)

Write(doc, to) == [do |-> "write", doc |-> doc, to |-> to]
Ensure(doc, to) == [do |-> "ensure", doc |-> doc, to |-> to]
Insert(doc, to) == [do |-> "insert", doc |-> doc, to |-> to]
Advance(phase) == [do |-> "advance", doc |-> "cluster", to |-> phase]
CountIssued == [do |-> "countIssued", doc |-> "cluster", to |-> "none"]

(* Writes of the cluster's row that bypass advancePhaseInternal.           *)
Set(phase) == [do |-> "set", doc |-> "cluster", to |-> phase]
Hold == [do |-> "hold", doc |-> "cluster", to |-> "ON_HOLD"]
Finish == [do |-> "finish", doc |-> "cluster", to |-> "PERMIT_DONE"]

(* The statuses a handler accepts; one that asks for none of them only     *)
(* needs the document to exist.                                            *)
Existing == {"existing"}

Handler(doc, from, todo) == [doc |-> doc, from |-> from, during |-> {}, todo |-> todo]

(* A handler that creates its document, in some phases only.               *)
Opens(doc, during, todo) ==
  [doc |-> doc, from |-> {"absent"}, during |-> during, todo |-> todo]

(* A review that asks nothing: what an approval leads to, and a rejection. *)
Moves(doc, to) == Handler(doc, Existing, <<Write(doc, to)>>)
MovesOn(doc, to, phase) == Handler(doc, Existing, <<Write(doc, to), Advance(phase)>>)

-----------------------------------------------------------------------------
(* Survey, SIP and the surveyor's package.                                 *)

SurveySteps ==
  { Handler("survey", {"absent", "IN_PROGRESS", "COMPLETED"},
            <<Ensure("survey", "IN_PROGRESS"), Advance(phase)>>) :
      phase \in {"SITE_VISIT", "SURVEY_INPUT", "ROUTE_SURVEY"} }

GenerateBaSurvey ==
  Handler("survey", Existing, <<Write("survey", "COMPLETED"), Advance("BA_SURVEY"),
                           Ensure("sip", "DRAFT"), Advance("SIP_REQUEST")>>)

SipDrafts ==
  { Opens("sip", {}, <<Insert("sip", "DRAFT")>>), Moves("sip", "FILLED") }

SipSubmit ==
  Handler("sip", {"DRAFT", "FILLED", "ISP_REVISION", "REJECTED"}, <<Write("sip", "SUBMITTED")>>)

SipDecisions ==
  { MovesOn("sip", "APPROVED", "HLD_SUBMISSION"), Moves("sip", "ISP_REVISION"),
    Moves("sip", "REJECTED") }

PackageHandlers ==
  { Handler("package", {"absent"}, <<Ensure("package", "ASSEMBLING")>>),
    MovesOn("package", "SUBMITTED", "BA_SURVEY"),
    Moves("package", "PM_APPROVED"), Moves("package", "PM_REJECTED"),
    MovesOn("package", "ADMIN_APPROVED", "SIP_REQUEST"), Moves("package", "ADMIN_REJECTED") }

-----------------------------------------------------------------------------
(* Designs.                                                                *)

SUBMIT_STATES == {"WAITING_INPUT", "DRAFT", "ISP_REVISION", "PM_REJECTED", "ADMIN_REJECTED"}

HldDrafts ==
  { Opens("hld", {}, <<Insert("hld", "WAITING_INPUT")>>),
    Opens("hld", {}, <<Insert("hld", "WAITING_INPUT"), Advance("HLD_SUBMISSION")>>),
    Handler("hld", {"WAITING_INPUT", "ISP_REVISION"}, <<Write("hld", "DRAFT")>>),
    Moves("hld", "PENDING_ISP") }

HldSubmit == Handler("hld", SUBMIT_STATES, <<Write("hld", "SUBMITTED_FOR_REVIEW")>>)

HldReviews ==
  { Moves("hld", "PM_APPROVED"), Moves("hld", "PENDING_ISP"), Moves("hld", "DRAFT") }

HldDecisions ==
  { MovesOn("hld", "ISP_APPROVED", "LLD_SUBMISSION"), Moves("hld", "ISP_REVISION") }

LldDrafts ==
  { Opens("lld", {}, <<Insert("lld", "WAITING_INPUT"), Advance("LLD_SUBMISSION")>>),
    Moves("lld", "PENDING_ISP"),
    Handler("lld", SUBMIT_STATES, <<Write("lld", "SUBMITTED_FOR_REVIEW")>>) }

LldDecisions ==
  { Handler("lld", {"PENDING_ISP"}, <<Write("lld", "ISP_APPROVED"), Advance("PR_BR_ISSUANCE")>>),
    Handler("lld", {"PENDING_ISP"}, <<Write("lld", "ISP_REVISION")>>) }

LldReviews ==
  { Moves("lld", "PM_APPROVED"), Moves("lld", "PENDING_ISP"),
    Handler("lld", {"SUBMITTED_FOR_REVIEW"}, <<Write("lld", "DRAFT")>>),
    Handler("lld", {"PM_APPROVED"}, <<Write("lld", "DRAFT")>>) }

ApdHandlers ==
  { Opens("apd", {"HLD_SUBMISSION"}, <<Insert("apd", "DRAFT")>>),
    Handler("apd", {"REVISION_REQUIRED"}, <<Write("apd", "DRAFT")>>),
    MovesOn("apd", "SUBMITTED_FOR_DRM", "HLD_SUBMISSION"),
    Handler("apd", Existing,
            <<Write("apd", "APPROVED"), Insert("abd", "DRAFT"), Advance("LLD_SUBMISSION")>>),
    Moves("apd", "REVISION_REQUIRED") }

AbdHandlers ==
  { Moves("abd", "SUBMITTED_TO_ISP"), MovesOn("abd", "ISP_APPROVED", "PR_BR_ISSUANCE"),
    MovesOn("abd", "ISP_REVISION_REQUIRED", "LLD_SUBMISSION") }

-----------------------------------------------------------------------------
(* Purchase and build requests, the PR/BR workflow, contract and SKOM.     *)
(* One row stands for all the purchase, or build, requests of the cluster, *)
(* and one for all its contracts: no handler asks for their status.        *)

Requests ==
  { Handler(doc, {"absent", "DRAFT", "ISSUED"},
            <<Ensure(doc, "DRAFT"), Advance("PR_BR_ISSUANCE")>>) : doc \in {"pr", "br"} }

(* Mutant: what is issued is counted before this one is written.           *)
MarkIssuedLate(doc) == Handler(doc, Existing, <<CountIssued, Write(doc, "ISSUED")>>)

MarkIssued(doc) == Handler(doc, Existing, <<Write(doc, "ISSUED"), CountIssued>>)

UploadPrBr ==
  { Handler("workflow", {"absent"}, <<Ensure("workflow", "PENDING_UPLOAD")>>),
    Handler("workflow", {"PENDING_UPLOAD", "ADMIN_REJECTED"}, <<Write("workflow", "UPLOADED")>>) }

ReviewPrBr ==
  { Handler("workflow", {"UPLOADED"},
            <<Write("workflow", "ADMIN_APPROVED"), Advance("CONTRACT_MANAGEMENT")>>),
    Handler("workflow", {"UPLOADED"}, <<Write("workflow", "ADMIN_REJECTED")>>) }

WorkflowPo ==
  { Handler("workflow", {"ADMIN_APPROVED", "OPS_REJECTED"}, <<Write("workflow", "PO_CREATED")>>),
    Handler("workflow", {"PO_CREATED"},
            <<Write("workflow", "OPS_APPROVED"), Advance("SKOM_BUDGET")>>),
    Handler("workflow", {"PO_CREATED"}, <<Write("workflow", "OPS_REJECTED")>>) }

ContractStates == {"DRAFT", "PENDING_OPS_MANAGER", "PENDING_GM", "APPROVED", "REJECTED"}

ContractHandlers ==
  { Handler("contract", ContractStates \cup {"absent"},
            <<Ensure("contract", "PENDING_OPS_MANAGER"), Advance("CONTRACT_MANAGEMENT")>>),
    MovesOn("contract", "APPROVED", "SKOM_BUDGET") }
  \cup { Moves("contract", s) : s \in ContractStates }

SkomReviews ==
  { Handler("skom", {"absent"}, <<Ensure("skom", "DRAFT")>>),
    Moves("skom", "PENDING_OPS_APPROVAL"), Moves("skom", "PENDING_GM_APPROVAL"),
    Moves("skom", "OPS_REJECTED") }

SkomGmReview ==
  { Handler("skom", Existing, <<Write("skom", "GM_APPROVED"), Advance("MANAGEMENT_APPROVAL"),
                           Advance("FUND_DISBURSEMENT")>>),
    Moves("skom", "GM_REJECTED") }

SkomDisbursements ==
  { Handler("skom", Existing, <<Advance("BAK_GENERATION")>>),
    Handler("skom", {"GM_APPROVED"}, <<Write("skom", "DISBURSED"), Advance("BAK_GENERATION")>>) }

-----------------------------------------------------------------------------
(* The agreement with the residents: compensation, BAK, SCOM, BAKP.        *)

SocializationHandlers ==
  { Opens("socialization", {"PR_BR_ISSUANCE"}, <<Insert("socialization", "PENDING")>>),
    MovesOn("socialization", "AGREED", "CONTRACT_MANAGEMENT"),
    Handler("socialization", Existing, <<Write("socialization", "REJECTED"), Hold>>) }

GenerateBak(status) == <<Insert("bak", status), Advance("BAK_GENERATION")>>

CompensationHandlers ==
  { Opens("compensation", {"CONTRACT_MANAGEMENT"}, <<Insert("compensation", "NEGOTIATING")>>) }
  \cup UNION
  { { Handler("compensation", Existing, <<Write("compensation", "AGREED")>> \o GenerateBak(s)),
      Handler("compensation", {"AGREED"}, GenerateBak(s)) } :
      s \in {"AUTO_APPROVED", "PENDING_APPROVAL"} }

ApproveBak ==
  { MovesOn("bak", "APPROVED", "BAK_GENERATION"),
    MovesOn("bak", "REJECTED", "CONTRACT_MANAGEMENT") }

ValidateSignature == MovesOn("bak", "SIGNATURES_VALID", "BAK_GENERATION")

ScomHandlers ==
  { Opens("scom", {"BAK_GENERATION"}, <<Insert("scom", "OPEN")>>),
    MovesOn("scom", "COMPLETE", "BAKP_COMPILATION") }

AgreementForms ==
  { Handler("agreement", {"absent"}, <<Ensure("agreement", "DRAFT")>>),
    Handler("agreement", {"DRAFT", "PM_REJECTED", "ADMIN_REJECTED", "FORM_COMPLETE", "PDF_GENERATED"},
            <<Write("agreement", "FORM_COMPLETE"), Write("agreement", "PDF_GENERATED")>>) }

AgreementUploads ==
  { Handler("agreement", {"DRAFT", "FORM_COMPLETE"}, <<Write("agreement", "PDF_GENERATED")>>),
    Handler("agreement", {"PDF_GENERATED", "PM_REJECTED", "ADMIN_REJECTED"},
            <<Write("agreement", "PM_REVIEW")>>) }

AgreementReviews ==
  { Moves("agreement", "ADMIN_REVIEW"), Moves("agreement", "PM_REJECTED"),
    Moves("agreement", "ADMIN_REJECTED"),
    Handler("agreement", Existing, <<Write("agreement", "APPROVED"), Advance("BAKP_COMPILATION"),
                                Ensure("bakp", "DRAFT")>>) }

InitBakp ==
  Opens("bakp", {"BAKP_COMPILATION", "CLAIM_SUBMISSION", "INVOICE_PACKAGE", "PERMIT_DONE"},
        <<Insert("bakp", "DRAFT")>>)

BakpPmReview ==
  { Handler("bakp", {"DRAFT", "REJECTED_BY_PM", "REJECTED_BY_ADMIN", "REJECTED_BY_ISP"},
            <<Write("bakp", "SUBMITTED_TO_PM")>>),
    Handler("bakp", {"SUBMITTED_TO_PM"}, <<Write("bakp", "SUBMITTED_TO_ADMIN")>>),
    Moves("bakp", "REJECTED_BY_PM") }

BakpAdminReview ==
  { Handler("bakp", {"SUBMITTED_TO_ADMIN"}, <<Write("bakp", "SUBMITTED_TO_ISP")>>),
    Moves("bakp", "REJECTED_BY_ADMIN") }

BakpStatuses ==
  {"DRAFT", "SUBMITTED_TO_PM", "SUBMITTED_TO_ADMIN", "SUBMITTED_TO_ISP", "DONE",
   "REJECTED_BY_PM", "REJECTED_BY_ADMIN", "REJECTED_BY_ISP"}

(* uploadPaymentProof writes back the status it read.                      *)
UploadPaymentProof == { Handler("bakp", {s}, <<Write("bakp", s)>>) : s \in BakpStatuses }

ValidateBakp ==
  { Moves("bakp", "SUBMITTED_TO_PM"), Moves("bakp", "REJECTED_BY_ADMIN"),
    MovesOn("bakp", "DONE", "CLAIM_SUBMISSION") }

-----------------------------------------------------------------------------
(* Claims and invoices.                                                    *)

ClaimDrafts ==
  { Handler("claim", {"absent"}, <<Ensure("claim", "DRAFT")>>),
    Moves("claim", "SUBMITTED_FOR_REVIEW") }

ClaimReviews ==
  { MovesOn("claim", "APPROVED", "INVOICE_PACKAGE"), Moves("claim", "REVISION_REQUIRED") }

CheckAllApprovedAndAdvance ==
  Handler("claim", Existing, <<Set("INVOICE_PACKAGE"), Write("claim", "APPROVED")>>)

InvoiceReviews ==
  { Handler("invoice", {"absent"}, <<Ensure("invoice", "DRAFT")>>),
    Moves("invoice", "SUBMITTED"), Moves("invoice", "APPROVED") }

RecordPayment == Handler("invoice", Existing, <<Write("invoice", "PAID"), Finish>>)

-----------------------------------------------------------------------------
Handlers ==
  (UNION { SurveySteps, SipDrafts, SipDecisions, PackageHandlers, HldDrafts, HldReviews,
           HldDecisions, LldDrafts, LldDecisions, LldReviews, ApdHandlers, AbdHandlers,
           Requests, UploadPrBr, ReviewPrBr, WorkflowPo, ContractHandlers, SkomReviews,
           SkomGmReview, SkomDisbursements, SocializationHandlers, CompensationHandlers,
           ApproveBak, ScomHandlers, AgreementForms, AgreementUploads, AgreementReviews,
           BakpPmReview, BakpAdminReview, UploadPaymentProof, ValidateBakp, ClaimDrafts,
           ClaimReviews, InvoiceReviews })
  \cup { GenerateBaSurvey, SipSubmit, HldSubmit, MarkIssued("pr"), MarkIssued("br"),
         ValidateSignature, InitBakp, CheckAllApprovedAndAdvance, RecordPayment }

HandlersOf == [d \in Documents |-> {h \in Handlers : h.doc = d}]

(* The record advancePhaseInternal creates for a phase it enters, and the  *)
(* status it is created with.                                              *)
Opening(phase) ==
  CASE phase = "HLD_SUBMISSION" -> <<"hld", "WAITING_INPUT">>
    [] phase = "LLD_SUBMISSION" -> <<"lld", "WAITING_INPUT">>
    [] phase = "BAK_GENERATION" -> <<"bak", "DRAFT">>
    [] phase = "BAKP_COMPILATION" -> <<"bakp", "DRAFT">>
    [] phase = "PR_BR_ISSUANCE" -> <<"workflow", "PENDING_UPLOAD">>
    [] phase = "CONTRACT_MANAGEMENT" -> <<"contract", "DRAFT">>
    [] phase = "SKOM_BUDGET" -> <<"skom", "DRAFT">>
    [] phase = "CLAIM_SUBMISSION" -> <<"claim", "DRAFT">>
    [] phase = "INVOICE_PACKAGE" -> <<"invoice", "DRAFT">>
    [] OTHER -> <<>>

(* Mutant: entering the contract phase opens no contract.                  *)
OpensWithoutContract(phase) ==
  IF Opening(phase) = <<>> \/ phase = "CONTRACT_MANAGEMENT" THEN <<>>
  ELSE << [do |-> "init", doc |-> Opening(phase)[1], to |-> Opening(phase)[2]] >>

OpensRecord(phase) ==
  IF Opening(phase) = <<>> THEN <<>>
  ELSE << [do |-> "init", doc |-> Opening(phase)[1], to |-> Opening(phase)[2]] >>

ClusterInit ==
  /\ cluster = [phase |-> "SITE_VISIT", status |-> "IN_PROGRESS"]
  /\ record = [d \in Documents |-> "absent"]
  /\ file \in Files
  /\ clerk = [c \in Clerks |-> NoTask]
  /\ seals = {} /\ jumped = FALSE /\ cut = FALSE

Accepts(h) ==
  /\ IF h.from = Existing THEN record[h.doc] # "absent" ELSE record[h.doc] \in h.from
  /\ h.during = {} \/ cluster.phase \in h.during

StartHandler(c) ==
  /\ clerk[c] = NoTask
  /\ \E d \in file : \E h \in HandlersOf[d] :
       /\ Accepts(h)
       /\ clerk' = [clerk EXCEPT ![c] = h.todo]
  /\ UNCHANGED <<cluster, record, file, seals, jumped, cut>>

(* The clerk is at a step of this kind, and goes on to what is left of it. *)
At(c, kinds) == clerk[c] # NoTask /\ Head(clerk[c]).do \in kinds
Goes(c, todo) == clerk' = [clerk EXCEPT ![c] = IF todo = <<>> THEN NoTask ELSE todo]
Rest(c) == Tail(clerk[c])

(* The handler throws: the rest of it never happens.                       *)
Throws(c) ==
  /\ clerk' = [clerk EXCEPT ![c] = NoTask]
  /\ cut' = (cut \/ Rest(c) # <<>>)

Seal(doc, to) ==
  CASE doc = "bakp" /\ to = "SUBMITTED_TO_ADMIN" -> {"pm"}
    [] doc = "bakp" /\ to = "SUBMITTED_TO_ISP" -> {"admin"}
    [] doc = "invoice" /\ to = "PAID" -> {"paid"}
    [] OTHER -> {}

WriteRecord(c) ==
  LET s == Head(clerk[c]) IN
  /\ At(c, {"write"})
  /\ record' = [record EXCEPT ![s.doc] = s.to]
  /\ seals' = seals \cup Seal(s.doc, s.to)
  /\ Goes(c, Rest(c))
  /\ UNCHANGED <<cluster, file, jumped, cut>>

EnsureRecord(c) ==
  LET s == Head(clerk[c]) IN
  /\ At(c, {"ensure"})
  /\ record' = [record EXCEPT ![s.doc] = IF @ = "absent" THEN s.to ELSE @]
  /\ Goes(c, Rest(c))
  /\ UNCHANGED <<cluster, file, seals, jumped, cut>>

(* One document of a kind per cluster: a second insert throws.             *)
InsertRecord(c) ==
  LET s == Head(clerk[c]) IN
  /\ At(c, {"insert"})
  /\ IF record[s.doc] = "absent"
     THEN record' = [record EXCEPT ![s.doc] = s.to] /\ Goes(c, Rest(c)) /\ UNCHANGED cut
     ELSE Throws(c) /\ UNCHANGED record
  /\ UNCHANGED <<cluster, file, seals, jumped>>

ReadPhase(c) ==
  LET to == Head(clerk[c]).to IN
  /\ At(c, {"advance"})
  /\ Goes(c, IF cluster.phase = to THEN Rest(c)
             ELSE << [do |-> "enter", doc |-> "cluster", to |-> to] >>
                  \o OpensRecord(to) \o Rest(c))
  /\ UNCHANGED <<cluster, record, file, seals, jumped, cut>>

WriteCluster(c) ==
  LET s == Head(clerk[c]) IN
  /\ At(c, {"enter", "set", "hold", "finish"})
  /\ cluster' = [phase |-> IF s.do = "hold" THEN cluster.phase ELSE s.to,
                 status |-> CASE s.do = "hold" -> "ON_HOLD"
                              [] s.do = "finish" -> "COMPLETED"
                              [] OTHER -> cluster.status]
  /\ jumped' = (jumped \/ s.do = "set")
  /\ Goes(c, Rest(c))
  /\ UNCHANGED <<record, file, seals, cut>>

(* initHldForCluster and its siblings: find first, then create; the BAK    *)
(* waits for a compensation.                                               *)
InitRecord(c) ==
  LET s == Head(clerk[c]) IN
  /\ At(c, {"init"})
  /\ Goes(c, IF record[s.doc] # "absent" \/ (s.doc = "bak" /\ record.compensation = "absent")
             THEN Rest(c) ELSE <<Insert(s.doc, s.to)>> \o Rest(c))
  /\ UNCHANGED <<cluster, record, file, seals, jumped, cut>>

BothIssued == record.pr = "ISSUED" /\ record.br = "ISSUED"

GroupIssued(c) ==
  /\ At(c, {"countIssued"})
  /\ Goes(c, (IF BothIssued THEN <<Advance("CONTRACT_MANAGEMENT")>> ELSE <<>>) \o Rest(c))
  /\ UNCHANGED <<cluster, record, file, seals, jumped, cut>>

(* A storage or database call fails, or the process stops.                 *)
Stop(c) ==
  /\ clerk[c] # NoTask
  /\ clerk' = [clerk EXCEPT ![c] = NoTask]
  /\ cut' = TRUE
  /\ UNCHANGED <<cluster, record, file, seals, jumped>>

(* Mutant: the ISP's decision is taken whatever the BAKP's status.         *)
ReachedIspAlways == record.bakp # "absent"

ReachedIsp == record.bakp = "SUBMITTED_TO_ISP"

(* recordIspDecision is one serializable transaction.                      *)
RecordIspDecision(accept) ==
  /\ "bakp" \in file /\ ReachedIsp
  /\ record' = [record EXCEPT !.bakp = IF accept THEN "DONE" ELSE "REJECTED_BY_ISP"]
  /\ cluster' = IF accept THEN [phase |-> "PERMIT_DONE", status |-> "COMPLETED"] ELSE cluster
  /\ UNCHANGED <<file, clerk, seals, jumped, cut>>

OverridePhase(phase) ==
  /\ cluster' = [cluster EXCEPT !.phase = phase]
  /\ record' = [record EXCEPT !.workflow =
                  IF phase = "PR_BR_ISSUANCE" /\ @ = "absent" THEN "PENDING_UPLOAD" ELSE @]
  /\ jumped' = TRUE
  /\ UNCHANGED <<file, clerk, seals, cut>>

ClusterNext ==
  \/ \E c \in Clerks :
       \/ StartHandler(c) \/ WriteRecord(c) \/ EnsureRecord(c) \/ InsertRecord(c)
       \/ ReadPhase(c) \/ WriteCluster(c) \/ InitRecord(c) \/ GroupIssued(c) \/ Stop(c)
  \/ \E accept \in BOOLEAN : RecordIspDecision(accept)
  \/ \E phase \in Overrides : OverridePhase(phase)

ClusterSpec == ClusterInit /\ [][ClusterNext]_clusterVars

-----------------------------------------------------------------------------
ClusterPhases ==
  {"SITE_VISIT", "SURVEY_INPUT", "ROUTE_SURVEY", "BA_SURVEY", "SIP_REQUEST", "HLD_SUBMISSION",
   "LLD_SUBMISSION", "PR_BR_ISSUANCE", "CONTRACT_MANAGEMENT", "SKOM_BUDGET",
   "MANAGEMENT_APPROVAL", "FUND_DISBURSEMENT", "BAK_GENERATION", "BAKP_COMPILATION",
   "CLAIM_SUBMISSION", "INVOICE_PACKAGE", "PERMIT_DONE"}

RecordStatuses ==
  {"absent", "ADMIN_APPROVED", "ADMIN_REVIEW", "AGREED", "ASSEMBLING", "AUTO_APPROVED",
   "COMPLETE", "COMPLETED", "DISBURSED", "FILLED", "FORM_COMPLETE", "GM_APPROVED",
   "GM_REJECTED", "IN_PROGRESS", "ISP_APPROVED", "ISP_REVISION_REQUIRED", "ISSUED",
   "NEGOTIATING", "OPEN", "OPS_APPROVED", "OPS_REJECTED", "PAID", "PDF_GENERATED", "PENDING",
   "PENDING_APPROVAL", "PENDING_GM_APPROVAL", "PENDING_ISP", "PENDING_OPS_APPROVAL",
   "PENDING_UPLOAD", "PM_APPROVED", "PM_REVIEW", "PO_CREATED", "REVISION_REQUIRED",
   "SIGNATURES_VALID", "SUBMITTED", "SUBMITTED_FOR_DRM", "SUBMITTED_FOR_REVIEW", "UPLOADED"}
  \cup SUBMIT_STATES \cup ContractStates \cup BakpStatuses

ClusterStep ==
  [do : {"write", "ensure", "insert", "init"}, doc : Documents, to : RecordStatuses \ {"absent"}]
  \cup [do : {"advance", "enter", "set", "finish"}, doc : {"cluster"}, to : ClusterPhases]
  \cup {Hold, CountIssued}

(* A file is made of the documents above, the override knows the phases,   *)
(* and a clerk at rest has no steps.                                       *)
ASSUME ClusterAssumption ==
  /\ Files \subseteq SUBSET Documents /\ Overrides \subseteq ClusterPhases
  /\ NoTask \notin Seq(ClusterStep)

(* Documents and steps are of their kinds, and no clerk has nothing left   *)
(* to do.                                                                  *)
ClusterTypeOK ==
  /\ cluster \in [phase : ClusterPhases, status : {"IN_PROGRESS", "ON_HOLD", "COMPLETED"}]
  /\ record \in [Documents -> RecordStatuses] /\ file \in Files
  /\ clerk \in [Clerks -> Seq(ClusterStep) \cup {NoTask}]
  /\ \A c \in Clerks : clerk[c] # <<>>
  /\ seals \subseteq {"pm", "admin", "paid"} /\ {jumped, cut} \subseteq BOOLEAN

AtRest == (\A c \in Clerks : clerk[c] = NoTask) /\ ~ cut /\ ~ jumped

(* When nobody is at work, the cluster's phase has the record it works on, *)
(* although whoever finds the phase already set returns without creating   *)
(* it; unless a handler died or the phase was set by hand.  The BAK may be *)
(* missing, for want of a compensation.                                    *)
PhaseHasItsRecord ==
  AtRest =>
    LET o == Opening(cluster.phase) IN
    o # <<>> /\ o[1] # "bak" => record[o[1]] # "absent"

(* Of two requests issued at once, the later count sees both: when nobody  *)
(* is at work and both are issued, the contract has been opened.           *)
BothIssuedAdvances == AtRest /\ BothIssued => record.contract # "absent"

(* A cluster is completed only if its BAKP was once approved by the PM and *)
(* by administration, or its invoice paid, whatever handlers overlap.      *)
PermitsEndReviewed ==
  cluster.status = "COMPLETED" => "paid" \in seals \/ {"pm", "admin"} \subseteq seals
=============================================================================
