----------------------------- MODULE ClaimDocs -----------------------------
(***************************************************************************)
(* The documents of one claim package: ClaimPackageService, as its         *)
(* controller calls it.                                                    *)
(*                                                                         *)
(* The decisions on all documents share one JSON column.  Who decides on   *)
(* one of them reads the whole column and writes the whole column back, so *)
(* a decision written meanwhile is lost, and one that a new upload cleared *)
(* comes back.  A chore is a handler between two of its steps, with the    *)
(* column it read; it is late (a history field) once the package changed.  *)
(***************************************************************************)
EXTENDS Naturals, FiniteSets

CONSTANTS
  ClaimPapers,    \* the document keys, of both streams
  CheckedPapers,  \* those that runCheck1 asks for
  MaxUploads,     \* bound: how often one document is uploaded
  Reviewers,      \* bound: handlers at work at once
  NoChore

ASSUME ClaimAssumption == CheckedPapers \subseteq ClaimPapers /\ MaxUploads \in Nat

VARIABLES
  upload,     \* how often each document was uploaded, 0 before it is there
  verdict,    \* docApprovals: what admin and PM decided on each document
  check1, check2,
  claimState, \* open, approved by the documents' decisions, sent to the ISP
  chore,      \* what each reviewer is still to do
  swapped,    \* history: documents replaced under a standing decision
  mixed       \* history: a late chore was written

claimVars == <<upload, verdict, check1, check2, claimState, chore, swapped, mixed>>

(* Nobody asks whether a decision is missing or a refusal.  An approval is *)
(* kept with the upload it was given on (history): {} stands for none.     *)
Approvals == {{}} \cup {{n} : n \in 0..MaxUploads}

Verdict == [admin : Approvals, pm : Approvals]

Undecided == [admin |-> {}, pm |-> {}]

Reviews == {"adminApproveDoc", "adminRejectDoc", "pmApproveDoc", "pmRejectDoc", "reUploadDoc"}

(* Who writes a decision on a document goes on to see whether all are      *)
(* approved; who adds one, whether the required ones are there.            *)
Steps == {"checkAll", "approveClaim", "runCheck1", "pass", "fail", "submitToIsp"}

Chore ==
  [do : Reviews, doc : ClaimPapers, column : [ClaimPapers -> Verdict], saw : 0..MaxUploads,
   late : BOOLEAN]
    \cup [do : Steps]

ClaimInit ==
  /\ upload = [k \in ClaimPapers |-> 0]
  /\ verdict = [k \in ClaimPapers |-> Undecided]
  /\ check1 = "PENDING" /\ check2 = "PENDING"
  /\ claimState = "open"
  /\ chore = [r \in Reviewers |-> NoChore]
  /\ swapped = {}
  /\ mixed = FALSE

Reading(do, k) ==
  [do |-> do, doc |-> k, column |-> verdict, saw |-> upload[k], late |-> FALSE]

Step(do) == [do |-> do]

IsReview(r) == chore[r] # NoChore /\ chore[r].do \in Reviews

(* r goes on with todo, and what the other reviewers read is out of date.  *)
GoesOn(r, todo) ==
  chore' = [s \in Reviewers |->
    IF s = r THEN todo
    ELSE IF IsReview(s) THEN [chore[s] EXCEPT !.late = TRUE] ELSE chore[s]]

Stays(r, todo) == chore' = [chore EXCEPT ![r] = todo]

Doing(r, do) == chore[r] # NoChore /\ chore[r].do = do

-----------------------------------------------------------------------------
(* Uploads.  addStreamADoc and addStreamBDoc leave the decisions alone.    *)
AddDoc(r, k) ==
  /\ chore[r] = NoChore
  /\ upload[k] < MaxUploads
  /\ upload' = [upload EXCEPT ![k] = @ + 1]
  /\ swapped' = IF verdict[k] = Undecided THEN swapped ELSE swapped \cup {k}
  /\ GoesOn(r, Step("runCheck1"))
  /\ UNCHANGED <<verdict, check1, check2, claimState, mixed>>

StartCheck1(r) ==
  /\ chore[r] = NoChore
  /\ Stays(r, Step("runCheck1"))
  /\ UNCHANGED <<upload, verdict, check1, check2, claimState, swapped, mixed>>

AllRequired == \A k \in CheckedPapers : upload[k] > 0

RunCheck1(r) ==
  /\ Doing(r, "runCheck1")
  /\ Stays(r, Step(IF AllRequired THEN "pass" ELSE "fail"))
  /\ UNCHANGED <<upload, verdict, check1, check2, claimState, swapped, mixed>>

MarkCheck1(r) ==
  /\ Doing(r, "pass") \/ Doing(r, "fail")
  /\ check1' = IF chore[r].do = "pass" THEN "PASS" ELSE "FAIL"
  /\ Stays(r, NoChore)
  /\ UNCHANGED <<upload, verdict, check2, claimState, swapped, mixed>>

-----------------------------------------------------------------------------
(* Decisions on single documents.                                          *)

(* Mutant: a new upload leaves the PM's decision.                          *)
PmStays(was) == [was EXCEPT !.admin = {}]

Reset(was) == Undecided

Decided(do, was, saw) ==
  CASE do = "adminApproveDoc" -> [was EXCEPT !.admin = {saw}]
    [] do = "adminRejectDoc" -> [admin |-> {}, pm |-> {}]
    [] do = "pmApproveDoc" -> [was EXCEPT !.pm = {saw}]
    [] do = "pmRejectDoc" -> [was EXCEPT !.pm = {}]
    [] do = "reUploadDoc" -> Reset(was)

(* The PM approves what the admin approved; nobody else is asked anything, *)
(* not even whether the document is there.                                 *)
StartReview(r, do, k) ==
  /\ chore[r] = NoChore
  /\ do = "pmApproveDoc" => verdict[k].admin # {}
  /\ do = "reUploadDoc" => upload[k] < MaxUploads
  /\ Stays(r, Reading(do, k))
  /\ UNCHANGED <<upload, verdict, check1, check2, claimState, swapped, mixed>>

WriteDecision(r) ==
  LET c == chore[r] IN
  /\ IsReview(r)
  /\ c.do = "reUploadDoc" => upload[c.doc] < MaxUploads
  /\ verdict' = [c.column EXCEPT ![c.doc] = Decided(c.do, @, c.saw)]
  /\ upload' = IF c.do = "reUploadDoc" THEN [upload EXCEPT ![c.doc] = @ + 1] ELSE upload
  /\ mixed' = (mixed \/ c.late)
  /\ GoesOn(r, IF c.do \in {"adminApproveDoc", "pmApproveDoc"}
               THEN Step("checkAll") ELSE NoChore)
  /\ UNCHANGED <<check1, check2, claimState, swapped>>

(* checkAllApprovedAndAdvance writes the cluster's phase, then the claim.  *)
CheckAll(r) ==
  LET there == {k \in ClaimPapers : upload[k] > 0} IN
  /\ Doing(r, "checkAll")
  /\ IF /\ there # {}
        /\ \A k \in there : verdict[k].admin # {} /\ verdict[k].pm # {}
     THEN Stays(r, Step("approveClaim"))
     ELSE Stays(r, NoChore)
  /\ UNCHANGED <<upload, verdict, check1, check2, claimState, swapped, mixed>>

ApproveClaim(r) ==
  /\ Doing(r, "approveClaim")
  /\ claimState' = IF claimState = "open" THEN "approved" ELSE claimState
  /\ Stays(r, NoChore)
  /\ UNCHANGED <<upload, verdict, check1, check2, swapped, mixed>>

-----------------------------------------------------------------------------
(* The PM's check of the whole, which nothing precedes, and the dispatch.  *)
PmCheck2(decision) ==
  /\ check2' = decision
  /\ UNCHANGED <<upload, verdict, check1, claimState, chore, swapped, mixed>>

StartSubmitToIsp(r) ==
  /\ chore[r] = NoChore
  /\ check1 = "PASS" /\ check2 = "APPROVED"
  /\ Stays(r, Step("submitToIsp"))
  /\ UNCHANGED <<upload, verdict, check1, check2, claimState, swapped, mixed>>

SubmitToIsp(r) ==
  /\ Doing(r, "submitToIsp")
  /\ claimState' = "sent"
  /\ Stays(r, NoChore)
  /\ UNCHANGED <<upload, verdict, check1, check2, swapped, mixed>>

DropChore(r) ==
  /\ chore[r] # NoChore
  /\ Stays(r, NoChore)
  /\ UNCHANGED <<upload, verdict, check1, check2, claimState, swapped, mixed>>

ClaimNext ==
  \/ \E decision \in {"APPROVED", "REJECTED"} : PmCheck2(decision)
  \/ \E r \in Reviewers :
       \/ \E k \in ClaimPapers :
            \/ AddDoc(r, k)
            \/ \E do \in Reviews : StartReview(r, do, k)
       \/ StartCheck1(r)
       \/ RunCheck1(r)
       \/ MarkCheck1(r)
       \/ WriteDecision(r)
       \/ CheckAll(r)
       \/ ApproveClaim(r)
       \/ StartSubmitToIsp(r)
       \/ SubmitToIsp(r)
       \/ DropChore(r)

ClaimSpec == ClaimInit /\ [][ClaimNext]_claimVars

-----------------------------------------------------------------------------
ClaimTypeOK ==
  /\ upload \in [ClaimPapers -> 0..MaxUploads]
  /\ verdict \in [ClaimPapers -> Verdict]
  /\ check1 \in {"PENDING", "PASS", "FAIL"}
  /\ check2 \in {"PENDING", "APPROVED", "REJECTED"}
  /\ claimState \in {"open", "approved", "sent"}
  /\ chore \in [Reviewers -> Chore \cup {NoChore}]
  /\ swapped \subseteq ClaimPapers /\ mixed \in BOOLEAN

(* However handlers overtake each other, no document counts as approved by *)
(* the PM without the admin's approval, and a claim goes to the ISP only   *)
(* with every required document.  As long as none was overtaken, approvals *)
(* are about the file that is there, whatever was refused and uploaded     *)
(* again, unless it was replaced by a plain upload.                        *)
ApprovalsStandForTheirFile ==
  /\ \A k \in ClaimPapers :
       /\ verdict[k].pm # {} => verdict[k].admin # {}
       /\ ~mixed /\ k \notin swapped =>
            verdict[k].admin \cup verdict[k].pm \subseteq {upload[k]}
  /\ claimState = "sent" => \A k \in CheckedPapers : upload[k] > 0
=============================================================================
