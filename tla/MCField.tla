------------------------------ MODULE MCField ------------------------------
(* The field departments: visits to areas, the permit file of one cluster, *)
(* the documents of its claim, the phases of an FTTT project and its       *)
(* funds, and the network drawn on the map.  The code keeps them in tables *)
(* of their own, so a behaviour is about one of them, its focus, and       *)
(* leaves the others as they began.                                        *)
EXTENDS VisitRequests, PermitClusters, FtttPhases, FtttFunds, DesignEditor,
        ClaimDocs

CONSTANTS v1, v2, n1, n2, e1, da, db

VARIABLE focus

fieldVars == <<focus, visitVars, clusterVars, ftttVars, fundVars, editorVars, claimVars>>

MCFiles ==
  { {"package"}, {"survey"}, {"hld"}, {"lld"}, {"apd", "abd"}, {"sip"}, {"pr", "br"},
    {"workflow"}, {"contract"}, {"skom"}, {"socialization"}, {"compensation", "bak"},
    {"bak", "scom"}, {"agreement"}, {"bakp"}, {"claim"}, {"invoice"} }

MCOverrides ==
  {"HLD_SUBMISSION", "PR_BR_ISSUANCE", "CONTRACT_MANAGEMENT", "BAK_GENERATION",
   "BAKP_COMPILATION"}

MCScenarios ==
  { [company |-> "PST", slow |-> {"BACT"}, groups |-> FALSE],
    [company |-> "IFORTE", slow |-> {"BA_JUSTIFIKASI"}, groups |-> FALSE],
    [company |-> "IFORTE", slow |-> {"SURVEY_UPLOAD", "SURVEY_SITE", "RFSD"},
     groups |-> TRUE] }

(* Of the two designs one is drawn before; it has one node.                *)
MCNode == [at |-> 0, label |-> 0]
MCSaved == [r \in {n1, n2, e1} |-> IF r = n1 THEN MCNode ELSE Absent]
MCDrawn ==
  [r \in {n1, n2, e1} |-> IF r = e1 THEN [from |-> n1, to |-> n2, label |-> 0] ELSE MCNode]

FieldInit ==
  /\ VisitInit /\ ClusterInit /\ FtttInit /\ FundInit /\ EditorInit
  /\ ClaimInit
  /\ focus \in {"visits", "cluster", "fttt", "funds", "editor", "claims"}
  /\ focus # "cluster" => file = {"sip"}
  /\ focus # "fttt" => scenario.groups
  /\ focus # "editor" => designId = NoDesign

FieldNext ==
  /\ UNCHANGED focus
  /\ \/ /\ focus = "visits" /\ VisitNext
        /\ UNCHANGED <<clusterVars, ftttVars, fundVars, editorVars, claimVars>>
     \/ /\ focus = "cluster" /\ ClusterNext
        /\ UNCHANGED <<visitVars, ftttVars, fundVars, editorVars, claimVars>>
     \/ /\ focus = "fttt" /\ FtttNext
        /\ UNCHANGED <<visitVars, clusterVars, fundVars, editorVars, claimVars>>
     \/ /\ focus = "funds" /\ FundNext
        /\ UNCHANGED <<visitVars, clusterVars, ftttVars, editorVars, claimVars>>
     \/ /\ focus = "editor" /\ EditorNext
        /\ UNCHANGED <<visitVars, clusterVars, ftttVars, fundVars, claimVars>>
     \/ /\ focus = "claims" /\ ClaimNext
        /\ UNCHANGED <<visitVars, clusterVars, ftttVars, fundVars, editorVars>>

FieldSpec == FieldInit /\ [][FieldNext]_fieldVars

(* Handlers go by the same two names, except in the editor.                *)
FieldSymmetry == Permutations(Hands)

(* Bounds on a claim.  Its checks are made before any document is decided  *)
(* on; two decisions, or two other handlers, are at work at once; a        *)
(* behaviour ends once a decision is written late or a document replaced   *)
(* under one; the second document is uploaded once.                        *)
ClaimBounds ==
  /\ ~mixed /\ swapped = {} /\ upload[db] < 2
  /\ \A r, q \in Reviewers :
       chore[r] # NoChore /\ chore[q] # NoChore => (IsReview(r) <=> IsReview(q))
  /\ check1 # "PENDING" \/ check2 # "PENDING" \/ claimState = "sent" =>
       (\A k \in ClaimPapers : verdict[k] = Undecided) /\ \A r \in Reviewers : ~IsReview(r)

(* Bounds on the visits.  v1 is made before v2; once both are made, two    *)
(* handlers are at work at once only while both are drafts, and one of the *)
(* two is a draft, rejected, or approved.                                  *)
VisitBounds ==
  /\ visit[v1] = NoVisit => visit[v2] = NoVisit
  /\ (\A v \in Visits : visit[v] # NoVisit) =>
       /\ (\E d \in Desks : plan[d] = NoPlan) \/ \A v \in Visits : visit[v].status = "DRAFT"
       /\ \E v \in Visits : visit[v].status \in {"DRAFT", "REJECTED"} \cup Approved

(* Bounds on the permit file.  Once a file has led to a document of a      *)
(* later phase, to an ABD or past a BAKP to a claim, one clerk is at work. *)
ClusterBounds ==
  record.abd # "absent" \/ (file = {"bakp"} /\ record.claim # "absent") =>
    \E c \in Clerks : clerk[c] = NoTask

(* Bounds on FTTT projects.  Where sites come and go, they stay at their   *)
(* survey; elsewhere the parent's calls, but its closing, come before the  *)
(* site.                                                                   *)
FtttBounds ==
  IF scenario.groups THEN \A s \in Sites : phase[s] = "SURVEY"
  ELSE \A h \in Hands :
         call[h] # NoCall /\ call[h].project = Parent /\ call[h].do # "close"
           => Started = {Parent}

(* A release is tried three times.                                         *)
FieldBounds ==
  CASE focus = "visits" -> VisitBounds
    [] focus = "cluster" -> ClusterBounds
    [] focus = "fttt" -> FtttBounds
    [] focus = "funds" -> \A r \in Filed : request[r].proofs <= 3
    [] focus = "claims" -> ClaimBounds
    [] focus = "editor" -> TRUE

(* Every table holds what it is declared to hold, and what a handler still *)
(* has to do is about rows that are there.  (Tables out of focus stay as   *)
(* they began.)                                                            *)
FieldTypeOK ==
  CASE focus = "visits" -> VisitTypeOK
    [] focus = "cluster" -> ClusterTypeOK
    [] focus = "fttt" -> FtttTypeOK
    [] focus = "funds" -> FundTypeOK
    [] focus = "claims" -> ClaimTypeOK
    [] focus = "editor" -> EditorTypeOK
=============================================================================
