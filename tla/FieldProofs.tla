----------------------------- MODULE FieldProofs -----------------------------
(***************************************************************************)
(* The field departments, for any number of visits, documents, requests    *)
(* and handlers at work at once.                                           *)
(***************************************************************************)
EXTENDS MCField, DesignEditorProofs, FiniteSetTheorems

-----------------------------------------------------------------------------
(* The documents of a claim.                                               *)

(* A handler that was not overtaken holds the column as it is, and what a  *)
(* check has concluded stays true.                                         *)
ChoreInv(c) ==
  /\ c.do \in Reviews =>
       /\ \A k \in ClaimPapers : c.column[k].pm # {} => c.column[k].admin # {}
       /\ c.do = "pmApproveDoc" => c.column[c.doc].admin # {}
       /\ ~c.late => c.column = verdict /\ c.saw = upload[c.doc]
  /\ c.do \in {"pass", "submitToIsp"} => AllRequired

ClaimInv ==
  /\ ClaimTypeOK
  /\ \A k \in ClaimPapers : verdict[k].pm # {} => verdict[k].admin # {}
  /\ ~mixed => \A k \in ClaimPapers \ swapped :
       verdict[k].admin \cup verdict[k].pm \subseteq {upload[k]}
  /\ \A r \in Reviewers : chore[r] # NoChore => ChoreInv(chore[r])
  /\ check1 = "PASS" \/ claimState = "sent" => AllRequired

(* What a chore remembers, by what it is.                                  *)
LEMMA ChoreFacts ==
  ASSUME NEW c \in Chore
  PROVE  /\ c.do \in Reviews \cup Steps
         /\ c.do \in Reviews =>
              /\ c.doc \in ClaimPapers /\ c.column \in [ClaimPapers -> Verdict]
              /\ c.saw \in 0..MaxUploads /\ c.late \in BOOLEAN
              /\ [c EXCEPT !.late = TRUE] \in Chore
              /\ [c EXCEPT !.late = TRUE].do = c.do
              /\ [c EXCEPT !.late = TRUE].doc = c.doc
              /\ [c EXCEPT !.late = TRUE].column = c.column
              /\ [c EXCEPT !.late = TRUE].late = TRUE
  BY DEF Chore, Reviews, Steps

(* The steps that follow a check are chores.                               *)
LEMMA StepFacts ==
  ASSUME NEW do \in Steps
  PROVE  Step(do) \in Chore /\ Step(do).do = do /\ do \notin Reviews
  BY DEF Step, Chore, Steps, Reviews

(* A handler's step that changes no document and no decision.              *)
LEMMA ChoreStep ==
  ASSUME ClaimInv, NEW r \in Reviewers, NEW c \in Chore \cup {NoChore}, Stays(r, c),
         UNCHANGED <<upload, verdict, swapped, mixed>>,
         c # NoChore => ChoreInv(c),
         check1' \in {"PENDING", "PASS", "FAIL"}, check2' \in {"PENDING", "APPROVED", "REJECTED"},
         claimState' \in {"open", "approved", "sent"},
         check1' = "PASS" \/ claimState' = "sent" => AllRequired
  PROVE  ClaimInv'
<1>1. \A s \in Reviewers : chore'[s] = IF s = r THEN c ELSE chore[s]
  BY DEF Stays, ClaimInv, ClaimTypeOK
<1>2. ClaimTypeOK'
  BY DEF Stays, ClaimInv, ClaimTypeOK
<1>3. AllRequired' <=> AllRequired
  BY DEF AllRequired
<1>4. ASSUME NEW s \in Reviewers, chore'[s] # NoChore PROVE ChoreInv(chore[s])'
  <2>1. ChoreInv(chore'[s])
    BY <1>1, <1>4 DEF ClaimInv
  <2>2. QED
    BY <1>3, <2>1 DEF ChoreInv
<1>5. QED
  BY <1>2, <1>3, <1>4 DEF ClaimInv

(* The type of a chore says which of its fields it has.                    *)
LEMMA ChoreOf ==
  ASSUME ClaimInv, NEW r \in Reviewers, chore[r] # NoChore
  PROVE  chore[r] \in Chore /\ ChoreInv(chore[r])
  BY DEF ClaimInv, ClaimTypeOK

(* Uploads only add to what is there.                                      *)
LEMMA UploadKeepsRequired ==
  ASSUME NEW k \in ClaimPapers, ClaimTypeOK, upload' = [upload EXCEPT ![k] = upload[k] + 1], AllRequired
  PROVE  AllRequired'
  BY ClaimAssumption DEF AllRequired, ClaimTypeOK

(* The decisions or the documents change: who is reviewing is overtaken.   *)
LEMMA Overtakes ==
  ASSUME ClaimInv, NEW r \in Reviewers, NEW c \in Chore \cup {NoChore}, GoesOn(r, c),
         c # NoChore => c.do \in Steps \ {"pass", "submitToIsp"},
         upload' \in [ClaimPapers -> 0..MaxUploads], verdict' \in [ClaimPapers -> Verdict],
         swapped' \subseteq ClaimPapers, mixed' \in BOOLEAN,
         UNCHANGED <<check1, check2, claimState>>,
         AllRequired => AllRequired',
         \A k \in ClaimPapers : verdict'[k].pm # {} => verdict'[k].admin # {},
         ~mixed' => \A k \in ClaimPapers \ swapped' :
           verdict'[k].admin \cup verdict'[k].pm \subseteq {upload'[k]}
  PROVE  ClaimInv'
<1>1. ASSUME NEW s \in Reviewers
      PROVE  /\ chore'[s] \in Chore \cup {NoChore}
             /\ chore'[s] # NoChore => ChoreInv(chore[s])'
  <2>1. chore'[s] = IF s = r THEN c ELSE IF IsReview(s) THEN [chore[s] EXCEPT !.late = TRUE]
                    ELSE chore[s]
    BY DEF GoesOn
  <2>2. CASE s = r
    <3>1. chore'[s] = c
      BY <2>1, <2>2
    <3>2. c # NoChore => c.do \notin Reviews \cup {"pass", "submitToIsp"}
      BY DEF Reviews, Steps
    <3>3. QED
      BY <3>1, <3>2 DEF ChoreInv
  <2>3. CASE s # r /\ IsReview(s)
    <3>1. chore[s] \in Chore /\ ChoreInv(chore[s]) /\ chore[s].do \in Reviews
      BY <2>3, ChoreOf DEF IsReview
    <3> DEFINE new == [chore[s] EXCEPT !.late = TRUE]
    <3>2. chore'[s] = new
      BY <2>1, <2>3
    <3>3. new \in Chore /\ new.do = chore[s].do /\ new.doc = chore[s].doc
          /\ new.column = chore[s].column /\ new.late = TRUE
      BY <3>1, ChoreFacts
    <3> HIDE DEF new
    <3>4. chore[s].do \notin {"pass", "submitToIsp"}
      BY <3>1 DEF Reviews
    <3>5. QED
      BY <3>1, <3>2, <3>3, <3>4 DEF ChoreInv
  <2>4. CASE s # r /\ ~IsReview(s)
    <3>1. chore'[s] = chore[s] /\ chore[s] \in Chore \cup {NoChore}
      BY <2>1, <2>4 DEF ClaimInv, ClaimTypeOK
    <3>2. chore[s] # NoChore => chore[s].do \notin Reviews /\ ChoreInv(chore[s])
      BY <2>4, ChoreOf DEF IsReview
    <3>3. QED
      BY <3>1, <3>2 DEF ChoreInv
  <2>5. QED
    BY <2>2, <2>3, <2>4
<1>2. chore' \in [Reviewers -> Chore \cup {NoChore}]
  BY <1>1 DEF GoesOn
<1>3. ClaimTypeOK'
  BY <1>2 DEF ClaimInv, ClaimTypeOK
<1>4. check1' = "PASS" \/ claimState' = "sent" => AllRequired'
  BY DEF ClaimInv
<1>5. QED
  BY <1>1, <1>3, <1>4 DEF ClaimInv

(* addStreamADoc and addStreamBDoc: a document that was decided on is      *)
(* swapped.                                                                *)
LEMMA AddDocKeeps ==
  ASSUME ClaimInv, NEW r \in Reviewers, NEW k \in ClaimPapers, AddDoc(r, k)
  PROVE  ClaimInv'
<1>1. ClaimTypeOK
  BY DEF ClaimInv
<1>2. /\ upload[k] < MaxUploads /\ upload' = [upload EXCEPT ![k] = upload[k] + 1]
      /\ swapped' = IF verdict[k] = Undecided THEN swapped ELSE swapped \cup {k}
      /\ GoesOn(r, Step("runCheck1"))
      /\ UNCHANGED <<verdict, check1, check2, claimState, mixed>>
  BY DEF AddDoc
<1>3. Step("runCheck1") \in Chore /\ Step("runCheck1").do \in Steps \ {"pass", "submitToIsp"}
  BY StepFacts DEF Steps
<1>4. upload' \in [ClaimPapers -> 0..MaxUploads]
  BY <1>1, <1>2, ClaimAssumption DEF ClaimTypeOK
<1>5. verdict' \in [ClaimPapers -> Verdict] /\ swapped' \subseteq ClaimPapers /\ mixed' \in BOOLEAN
  BY <1>1, <1>2 DEF ClaimTypeOK
<1>6. AllRequired => AllRequired'
  BY <1>1, <1>2, UploadKeepsRequired
<1>7. \A j \in ClaimPapers : verdict'[j].pm # {} => verdict'[j].admin # {}
  BY <1>2 DEF ClaimInv
<1>8. ASSUME ~mixed', NEW j \in ClaimPapers \ swapped'
      PROVE  verdict'[j].admin \cup verdict'[j].pm \subseteq {upload'[j]}
  <2>1. CASE j = k
    BY <1>2, <1>8, <2>1 DEF Undecided
  <2>2. CASE j # k
    BY <1>1, <1>2, <1>8, <2>2 DEF ClaimInv, ClaimTypeOK
  <2>3. QED
    BY <2>1, <2>2
<1> HIDE DEF Step
<1>9. QED
  BY <1>2, <1>3, <1>4, <1>5, <1>6, <1>7, <1>8, Overtakes

(* A review has read the column as it is.                                  *)
LEMMA StartReviewKeepsClaim ==
  ASSUME ClaimInv, NEW r \in Reviewers, NEW do \in Reviews, NEW k \in ClaimPapers,
         StartReview(r, do, k)
  PROVE  ClaimInv'
<1> DEFINE c == Reading(do, k)
<1>1. ClaimTypeOK
  BY DEF ClaimInv
<1>2. /\ do = "pmApproveDoc" => verdict[k].admin # {}
      /\ Stays(r, c)
      /\ UNCHANGED <<upload, verdict, check1, check2, claimState, swapped, mixed>>
  BY DEF StartReview
<1>3. c.do = do /\ c.doc = k /\ c.column = verdict /\ c.saw = upload[k] /\ c.late = FALSE
  BY DEF Reading
<1>4. c \in Chore
  BY <1>1 DEF Reading, Chore, ClaimTypeOK
<1>5. c.do \notin {"pass", "submitToIsp"}
  BY <1>3 DEF Reviews
<1> HIDE DEF c
<1>6. ChoreInv(c)
  BY <1>2, <1>3, <1>5 DEF ChoreInv, ClaimInv
<1>7. QED
  BY <1>1, <1>2, <1>4, <1>6, ChoreStep DEF ClaimTypeOK, ClaimInv

(* What a decision makes of what it read.                                  *)
LEMMA DecidedFacts ==
  ASSUME NEW do \in Reviews, NEW was \in Verdict, NEW saw \in 0..MaxUploads,
         was.pm # {} => was.admin # {}, do = "pmApproveDoc" => was.admin # {}
  PROVE  /\ Decided(do, was, saw) \in Verdict
         /\ Decided(do, was, saw).pm # {} => Decided(do, was, saw).admin # {}
         /\ do # "reUploadDoc" => Decided(do, was, saw).admin \cup Decided(do, was, saw).pm
                                    \subseteq was.admin \cup was.pm \cup {saw}
         /\ do = "reUploadDoc" => Decided(do, was, saw).admin \cup Decided(do, was, saw).pm = {}
<1>1. {saw} \in Approvals /\ {} \in Approvals
  BY DEF Approvals
<1>2. was.admin \in Approvals /\ was.pm \in Approvals
  BY DEF Verdict
<1>3. CASE do = "adminApproveDoc"
  <2>1. Decided(do, was, saw) = [was EXCEPT !.admin = {saw}]
    BY <1>3 DEF Decided
  <2>2. QED
    BY <1>1, <1>2, <1>3, <2>1 DEF Verdict
<1>4. CASE do = "adminRejectDoc"
  <2>1. Decided(do, was, saw) = [admin |-> {}, pm |-> {}]
    BY <1>4 DEF Decided
  <2>2. QED
    BY <1>1, <1>4, <2>1 DEF Verdict
<1>5. CASE do = "pmApproveDoc"
  <2>1. Decided(do, was, saw) = [was EXCEPT !.pm = {saw}]
    BY <1>5 DEF Decided
  <2>2. QED
    BY <1>1, <1>2, <1>5, <2>1 DEF Verdict
<1>6. CASE do = "pmRejectDoc"
  <2>1. Decided(do, was, saw) = [was EXCEPT !.pm = {}]
    BY <1>6 DEF Decided
  <2>2. QED
    BY <1>1, <1>2, <1>6, <2>1 DEF Verdict
<1>7. CASE do = "reUploadDoc"
  <2>1. Decided(do, was, saw) = [admin |-> {}, pm |-> {}]
    BY <1>7 DEF Decided, Reset, Undecided
  <2>2. QED
    BY <1>1, <1>7, <2>1 DEF Verdict
<1>8. QED
  BY <1>3, <1>4, <1>5, <1>6, <1>7 DEF Reviews

(* The whole column is written back.                                       *)
LEMMA WriteDecisionKeeps ==
  ASSUME ClaimInv, NEW r \in Reviewers, WriteDecision(r)
  PROVE  ClaimInv'
<1> DEFINE c == chore[r]
           k == c.doc
           new == Decided(c.do, c.column[k], c.saw)
           next == IF c.do \in {"adminApproveDoc", "pmApproveDoc"}
                   THEN Step("checkAll") ELSE NoChore
<1>1. ClaimTypeOK
  BY DEF ClaimInv
<1>2. c # NoChore /\ c.do \in Reviews
  BY DEF WriteDecision, IsReview
<1>3. c \in Chore /\ ChoreInv(c)
  BY <1>2, ChoreOf
<1>4. /\ k \in ClaimPapers /\ c.column \in [ClaimPapers -> Verdict]
      /\ c.saw \in 0..MaxUploads /\ c.late \in BOOLEAN
  BY <1>2, <1>3, ChoreFacts
<1>5. /\ c.do = "reUploadDoc" => upload[k] < MaxUploads
      /\ verdict' = [c.column EXCEPT ![k] = new]
      /\ upload' = IF c.do = "reUploadDoc" THEN [upload EXCEPT ![k] = upload[k] + 1] ELSE upload
      /\ mixed' = (mixed \/ c.late)
      /\ GoesOn(r, next)
      /\ UNCHANGED <<check1, check2, claimState, swapped>>
  BY DEF WriteDecision
<1>6. /\ \A j \in ClaimPapers : c.column[j].pm # {} => c.column[j].admin # {}
      /\ c.do = "pmApproveDoc" => c.column[k].admin # {}
      /\ ~c.late => c.column = verdict /\ c.saw = upload[k]
  BY <1>2, <1>3 DEF ChoreInv
<1>7. /\ new \in Verdict
      /\ new.pm # {} => new.admin # {}
      /\ c.do # "reUploadDoc" => new.admin \cup new.pm
            \subseteq c.column[k].admin \cup c.column[k].pm \cup {c.saw}
      /\ c.do = "reUploadDoc" => new.admin \cup new.pm = {}
  <2>1. c.column[k] \in Verdict
    BY <1>4
  <2>2. QED
    BY <1>2, <1>4, <1>6, <2>1, DecidedFacts
<1>8. next \in Chore \cup {NoChore} /\ (next # NoChore => next.do \in Steps \ {"pass", "submitToIsp"})
  BY StepFacts DEF Steps
<1> HIDE DEF c, k, new, next
<1>9. \A j \in ClaimPapers : verdict'[j] = IF j = k THEN new ELSE c.column[j]
  BY <1>4, <1>5
<1>10. verdict' \in [ClaimPapers -> Verdict]
  BY <1>4, <1>5, <1>7
<1>11. upload' \in [ClaimPapers -> 0..MaxUploads]
  BY <1>1, <1>4, <1>5, ClaimAssumption DEF ClaimTypeOK
<1>12. swapped' \subseteq ClaimPapers /\ mixed' \in BOOLEAN
  BY <1>1, <1>4, <1>5 DEF ClaimTypeOK
<1>13. AllRequired => AllRequired'
  <2>1. CASE c.do = "reUploadDoc"
    BY <1>1, <1>4, <1>5, <2>1, UploadKeepsRequired
  <2>2. CASE c.do # "reUploadDoc"
    BY <1>5, <2>2 DEF AllRequired
  <2>3. QED
    BY <2>1, <2>2
<1>14. \A j \in ClaimPapers : verdict'[j].pm # {} => verdict'[j].admin # {}
  BY <1>6, <1>7, <1>9
<1>15. ASSUME ~mixed', NEW j \in ClaimPapers \ swapped'
       PROVE  verdict'[j].admin \cup verdict'[j].pm \subseteq {upload'[j]}
  <2>1. c.column = verdict /\ c.saw = upload[k] /\ ~mixed /\ j \notin swapped
    BY <1>4, <1>5, <1>6, <1>15
  <2>2. verdict[j].admin \cup verdict[j].pm \subseteq {upload[j]}
    BY <1>15, <2>1 DEF ClaimInv
  <2>3. CASE j # k
    <3>1. verdict'[j] = verdict[j] /\ upload'[j] = upload[j]
      BY <1>1, <1>4, <1>5, <1>9, <2>1, <2>3 DEF ClaimTypeOK
    <3>2. QED
      BY <2>2, <3>1
  <2>4. CASE j = k /\ c.do = "reUploadDoc"
    BY <1>7, <1>9, <2>4
  <2>5. CASE j = k /\ c.do # "reUploadDoc"
    BY <1>5, <1>7, <1>9, <2>1, <2>2, <2>5
  <2>6. QED
    BY <2>3, <2>4, <2>5
<1>16. QED
  BY <1>5, <1>8, <1>10, <1>11, <1>12, <1>13, <1>14, <1>15, Overtakes

(* The handlers that check, mark and send.                                 *)
LEMMA OtherChoresKeep ==
  ASSUME ClaimInv, NEW r \in Reviewers,
         \/ StartCheck1(r) \/ RunCheck1(r) \/ MarkCheck1(r) \/ CheckAll(r) \/ ApproveClaim(r)
         \/ StartSubmitToIsp(r) \/ SubmitToIsp(r) \/ DropChore(r)
  PROVE  ClaimInv'
<1>1. /\ ClaimTypeOK
      /\ check1 \in {"PENDING", "PASS", "FAIL"} /\ check2 \in {"PENDING", "APPROVED", "REJECTED"}
      /\ claimState \in {"open", "approved", "sent"}
      /\ check1 = "PASS" \/ claimState = "sent" => AllRequired
  BY DEF ClaimInv, ClaimTypeOK
<1>2. ASSUME NEW do \in Steps, do \in {"pass", "submitToIsp"} => AllRequired
      PROVE  Step(do) \in Chore \cup {NoChore} /\ ChoreInv(Step(do))
  BY <1>2, StepFacts DEF ChoreInv
<1>3. NoChore \in Chore \cup {NoChore}
  OBVIOUS
<1>4. chore[r] # NoChore => (chore[r].do \in {"pass", "submitToIsp"} => AllRequired)
  BY ChoreOf DEF ChoreInv
<1>5. CASE StartCheck1(r)
  <2>1. Step("runCheck1") \in Chore \cup {NoChore} /\ ChoreInv(Step("runCheck1"))
    BY <1>2 DEF Steps
  <2>2. QED
    BY <1>1, <1>5, <2>1, ChoreStep DEF StartCheck1
<1>6. CASE RunCheck1(r)
  <2> DEFINE do == IF AllRequired THEN "pass" ELSE "fail"
  <2>1. Step(do) \in Chore \cup {NoChore} /\ ChoreInv(Step(do))
    BY <1>2 DEF Steps
  <2>2. Stays(r, Step(do))
    BY <1>6 DEF RunCheck1
  <2> HIDE DEF do
  <2>3. QED
    BY <1>1, <1>6, <2>1, <2>2, ChoreStep DEF RunCheck1
<1>7. CASE MarkCheck1(r)
  <2>1. check1' \in {"PASS", "FAIL"} /\ (check1' = "PASS" => AllRequired)
    BY <1>4, <1>7 DEF MarkCheck1, Doing
  <2>2. QED
    BY <1>1, <1>3, <1>7, <2>1, ChoreStep DEF MarkCheck1
<1>8. CASE CheckAll(r)
  <2>1. Step("approveClaim") \in Chore \cup {NoChore} /\ ChoreInv(Step("approveClaim"))
    BY <1>2 DEF Steps
  <2>2. CASE Stays(r, Step("approveClaim"))
    BY <1>1, <1>8, <2>1, <2>2, ChoreStep DEF CheckAll
  <2>3. CASE Stays(r, NoChore)
    BY <1>1, <1>3, <1>8, <2>3, ChoreStep DEF CheckAll
  <2>4. QED
    BY <1>8, <2>2, <2>3 DEF CheckAll
<1>9. CASE ApproveClaim(r)
  BY <1>1, <1>3, <1>9, ChoreStep DEF ApproveClaim
<1>10. CASE StartSubmitToIsp(r)
  <2>1. Step("submitToIsp") \in Chore \cup {NoChore} /\ ChoreInv(Step("submitToIsp"))
    BY <1>1, <1>2, <1>10 DEF Steps, StartSubmitToIsp
  <2>2. QED
    BY <1>1, <1>10, <2>1, ChoreStep DEF StartSubmitToIsp
<1>11. CASE SubmitToIsp(r)
  <2>1. AllRequired
    BY <1>4, <1>11 DEF SubmitToIsp, Doing
  <2>2. QED
    BY <1>1, <1>3, <1>11, <2>1, ChoreStep DEF SubmitToIsp
<1>12. CASE DropChore(r)
  BY <1>1, <1>3, <1>12, ChoreStep DEF DropChore
<1>13. QED
  BY <1>5, <1>6, <1>7, <1>8, <1>9, <1>10, <1>11, <1>12

(* The PM's check of the whole, and a step of nobody.                      *)
LEMMA NobodysChoreKeeps ==
  ASSUME ClaimInv, UNCHANGED <<upload, verdict, check1, claimState, chore, swapped, mixed>>,
         check2' \in {"PENDING", "APPROVED", "REJECTED"}
  PROVE  ClaimInv'
<1>1. ClaimTypeOK' /\ (AllRequired' <=> AllRequired)
  BY DEF ClaimInv, ClaimTypeOK, AllRequired
<1>2. \A r \in Reviewers : chore'[r] # NoChore => ChoreInv(chore[r])'
  BY <1>1 DEF ClaimInv, ChoreInv
<1>3. QED
  BY <1>1, <1>2 DEF ClaimInv

(* What holders of a column believe of it stays true or they are late.     *)
THEOREM ClaimInvariant == ClaimSpec => []ClaimInv
<1>1. ClaimInit => ClaimInv
  <2> SUFFICES ASSUME ClaimInit PROVE ClaimInv
    OBVIOUS
  <2>1. {} \in Approvals
    BY DEF Approvals
  <2>2. Undecided \in Verdict
    BY <2>1 DEF Undecided, Verdict
  <2>3. ClaimTypeOK
    <3>1. upload \in [ClaimPapers -> 0..MaxUploads]
      BY ClaimAssumption DEF ClaimInit
    <3>2. mixed \in BOOLEAN /\ swapped \subseteq ClaimPapers
      BY DEF ClaimInit
    <3>3. verdict \in [ClaimPapers -> Verdict] /\ chore \in [Reviewers -> Chore \cup {NoChore}]
      BY <2>2 DEF ClaimInit
    <3>4. QED
      BY <3>1, <3>2, <3>3 DEF ClaimInit, ClaimTypeOK
  <2>4. \A k \in ClaimPapers : verdict[k].pm = {} /\ verdict[k].admin = {}
    BY DEF ClaimInit, Undecided
  <2>5. QED
    BY <2>3, <2>4 DEF ClaimInit, ClaimInv
<1>2. ClaimInv /\ [ClaimNext]_claimVars => ClaimInv'
  <2> SUFFICES ASSUME ClaimInv, [ClaimNext]_claimVars PROVE ClaimInv'
    OBVIOUS
  <2>1. ASSUME NEW d \in {"APPROVED", "REJECTED"}, PmCheck2(d) PROVE ClaimInv'
    BY <2>1, NobodysChoreKeeps DEF PmCheck2
  <2>2. ASSUME NEW r \in Reviewers, NEW k \in ClaimPapers,
               AddDoc(r, k) \/ \E do \in Reviews : StartReview(r, do, k)
        PROVE  ClaimInv'
    BY <2>2, AddDocKeeps, StartReviewKeepsClaim
  <2>3. ASSUME NEW r \in Reviewers, WriteDecision(r) PROVE ClaimInv'
    BY <2>3, WriteDecisionKeeps
  <2>4. ASSUME NEW r \in Reviewers,
               \/ StartCheck1(r) \/ RunCheck1(r) \/ MarkCheck1(r) \/ CheckAll(r)
               \/ ApproveClaim(r) \/ StartSubmitToIsp(r) \/ SubmitToIsp(r) \/ DropChore(r)
        PROVE  ClaimInv'
    BY <2>4, OtherChoresKeep
  <2>5. CASE UNCHANGED claimVars
    <3>1. check2 \in {"PENDING", "APPROVED", "REJECTED"}
      BY DEF ClaimInv, ClaimTypeOK
    <3>2. QED
      BY <2>5, <3>1, NobodysChoreKeeps DEF claimVars
  <2>6. QED
    BY <2>1, <2>2, <2>3, <2>4, <2>5 DEF ClaimNext
<1>3. QED
  BY <1>1, <1>2, PTL DEF ClaimSpec

(* ClaimPackageService: no document counts as approved by the PM alone, an *)
(* approval no handler was overtaken for is about the file that is there,  *)
(* and a claim is sent with every required document.                       *)
THEOREM ApprovalsAreForTheirFile == ClaimSpec => []ApprovalsStandForTheirFile
<1>1. ClaimInv => ApprovalsStandForTheirFile
  BY DEF ClaimInv, ApprovalsStandForTheirFile, AllRequired
<1>2. QED
  BY <1>1, ClaimInvariant, PTL

-----------------------------------------------------------------------------
(* The funds of a site.                                                    *)

(* What a teller has found of the request it is about; where nobody else   *)
(* is about it, that is still so.                                          *)
ErrandInv(e) ==
  LET row == request[e.request] IN
  /\ e.do \in {"prove", "release"} /\ row.reason => e.request \in passed
  /\ e.request \notin contested =>
       /\ e.do \in {"ACCEPTED", "DECLINED"} => row.requestStatus = "PENDING_REVIEW"
       /\ e.do \in {"prove", "release"} =>
            ~ row.disbursed /\ (row.reason => row.requestStatus = "ACCEPTED")
       /\ e.do = "delete" => ~ row.disbursed

(* A release that has filed its proofs.                                    *)
Releases(e, r) == e # NoErrand /\ e.request = r /\ e.do = "release"

(* What a filed request says of its releases.                              *)
FiledInv(r) ==
  LET row == request[r] IN
  /\ row.requestStatus = "ACCEPTED" => r \in passed
  /\ released[r] > 0 /\ row.reason => r \in passed
  /\ r \notin contested =>
       /\ released[r] = IF row.disbursed THEN 1 ELSE 0
       /\ row.disbursed /\ row.reason => row.requestStatus = "ACCEPTED"
       /\ r \notin dropped =>
            row.proofs = IF row.disbursed \/ \E t \in Tellers : Releases(errand[t], r)
                         THEN 1 ELSE 0

FundInv ==
  /\ FundTypeOK
  /\ \A t \in Tellers : errand[t] # NoErrand => ErrandInv(errand[t])
  /\ \A s, t \in Tellers :
       s # t /\ errand[s] # NoErrand /\ errand[t] # NoErrand =>
         (errand[s].request = errand[t].request => errand[s].request \in contested)
  /\ \A r \in Filed : FiledInv(r)
  /\ \A r \in FundRequests \ Filed :
       r \notin contested \/ request[r] = NoRequest => released[r] = 0

(* A filed request is a row.                                               *)
LEMMA FiledRows ==
  ASSUME FundTypeOK, NEW r \in FundRequests
  PROVE  r \in Filed <=> request[r] \in RequestRow
  BY FundAssumption DEF FundTypeOK, Filed

(* A teller is about a filed request.                                      *)
LEMMA ErrandOf ==
  ASSUME FundInv, NEW t \in Tellers, errand[t] # NoErrand
  PROVE  /\ errand[t] \in Errand /\ errand[t].request \in Filed
         /\ errand[t].request \in FundRequests /\ request[errand[t].request] \in RequestRow
         /\ ErrandInv(errand[t]) /\ FiledInv(errand[t].request)
<1>1. errand[t] \in Errand /\ errand[t].request \in Filed
  BY DEF FundInv, FundTypeOK
<1>2. errand[t].request \in FundRequests
  BY <1>1 DEF Errand
<1>3. QED
  BY <1>1, <1>2, FiledRows DEF FundInv

(* A step writes no request but r, which keeps its reason.                 *)
WritesRow(r) ==
  /\ request' \in [FundRequests -> RequestRow \cup {NoRequest, Deleted}]
  /\ released' \in [FundRequests -> Nat]
  /\ request'[r] \in RequestRow /\ request'[r].reason = request[r].reason
  /\ \A q \in FundRequests \ {r} : request'[q] = request[q] /\ released'[q] = released[q]

(* A step of a teller t about the filed request r, which it alone is       *)
(* about or which is contested: it may write r's row, release it, and go   *)
(* on to e.                                                                *)
LEMMA TellerStep ==
  ASSUME FundInv, NEW t \in Tellers, NEW r \in Filed, NEW e \in Errand \cup {NoErrand},
         errand' = [errand EXCEPT ![t] = e], WritesRow(r),
         passed \subseteq passed', contested \subseteq contested', dropped \subseteq dropped',
         errand[t] # NoErrand => errand[t].request = r,
         e # NoErrand => e.request = r /\ ErrandInv(e)',
         \A s \in Tellers : s # t /\ errand[s] # NoErrand /\ errand[s].request = r
           => r \in contested',
         FiledInv(r)'
  PROVE  FundInv'
<1>1. FundTypeOK /\ r \in FundRequests
  BY DEF FundInv, Filed
<1>2. \A s \in Tellers : errand'[s] = IF s = t THEN e ELSE errand[s]
  BY <1>1 DEF FundTypeOK
<1>3. /\ request'[r] \in RequestRow /\ request'[r].reason = request[r].reason
      /\ \A q \in FundRequests \ {r} : request'[q] = request[q] /\ released'[q] = released[q]
  BY DEF WritesRow
<1>4. Filed' = Filed
  BY <1>1, <1>3, FundAssumption DEF Filed
<1>5. FundTypeOK'
  <2>1. /\ request' \in [FundRequests -> RequestRow \cup {NoRequest, Deleted}]
        /\ errand' \in [Tellers -> Errand \cup {NoErrand}]
        /\ released' \in [FundRequests -> Nat]
    BY <1>1 DEF FundTypeOK, WritesRow
  <2>2. \A s \in Tellers : errand'[s] # NoErrand => errand'[s].request \in Filed
    BY <1>1, <1>2 DEF FundTypeOK
  <2>3. QED
    BY <1>4, <2>1, <2>2 DEF FundTypeOK
<1>6. ASSUME NEW s \in Tellers, errand'[s] # NoErrand PROVE ErrandInv(errand[s])'
  <2>1. CASE s = t
    BY <1>2, <1>6, <2>1
  <2>2. CASE s # t /\ errand[s].request = r
    <3>1. errand'[s] = errand[s] /\ ErrandInv(errand[s]) /\ r \in contested'
      BY <1>2, <1>6, <2>2 DEF FundInv
    <3>2. QED
      BY <1>3, <2>2, <3>1 DEF ErrandInv
  <2>3. CASE s # t /\ errand[s].request # r
    <3>1. errand'[s] = errand[s] /\ ErrandInv(errand[s]) /\ errand[s].request \in FundRequests
      BY <1>2, <1>6, <2>3, ErrandOf DEF FundInv
    <3>2. request'[errand[s].request] = request[errand[s].request]
      BY <1>3, <2>3, <3>1
    <3>3. QED
      BY <3>1, <3>2 DEF ErrandInv
  <2>4. QED
    BY <2>1, <2>2, <2>3
<1>7. ASSUME NEW s \in Tellers, NEW u \in Tellers, s # u, errand'[s] # NoErrand,
             errand'[u] # NoErrand, errand'[s].request = errand'[u].request
      PROVE  errand'[s].request \in contested'
  <2>1. CASE s # t /\ u # t
    BY <1>2, <1>7, <2>1 DEF FundInv
  <2>2. CASE s = t \/ u = t
    BY <1>2, <1>7, <2>2
  <2>3. QED
    BY <2>1, <2>2
<1>8. ASSUME NEW q \in Filed PROVE FiledInv(q)'
  <2>1. CASE q = r
    BY <2>1
  <2>2. CASE q # r
    <3>1. FiledInv(q) /\ q \in FundRequests
      BY DEF FundInv, Filed
    <3>2. request'[q] = request[q] /\ released'[q] = released[q]
      BY <1>3, <2>2, <3>1
    <3>3. \A s \in Tellers : Releases(errand'[s], q) <=> Releases(errand[s], q)
      BY <1>2, <2>2 DEF Releases
    <3>4. QED
      BY <3>1, <3>2, <3>3 DEF FiledInv
  <2>3. QED
    BY <2>1, <2>2
<1>9. \A q \in FundRequests \ Filed' :
        q \notin contested' \/ request'[q] = NoRequest => released'[q] = 0
  BY <1>3, <1>4 DEF FundInv
<1>10. QED
  BY <1>4, <1>5, <1>6, <1>7, <1>8, <1>9 DEF FundInv

(* A request is added, with nobody about it.                               *)
LEMMA AddTransactionKeeps ==
  ASSUME FundInv, NEW r \in FundRequests, NEW reason \in BOOLEAN, AddTransaction(r, reason)
  PROVE  FundInv'
<1> DEFINE row == [reason |-> reason, requestStatus |-> "PENDING_REVIEW",
                   disbursed |-> FALSE, proofs |-> 0]
<1>1. /\ FundTypeOK /\ request[r] = NoRequest /\ request' = [request EXCEPT ![r] = row]
      /\ UNCHANGED <<errand, passed, released, contested, dropped>>
  BY DEF FundInv, AddTransaction
<1>2. row \in RequestRow /\ row.requestStatus = "PENDING_REVIEW" /\ row.disbursed = FALSE
      /\ row.proofs = 0
  BY DEF RequestRow, Statuses
<1> HIDE DEF row
<1>3. \A q \in FundRequests : request'[q] = IF q = r THEN row ELSE request[q]
  BY <1>1 DEF FundTypeOK
<1>4. Filed' = Filed \cup {r} /\ r \notin Filed
  BY <1>1, <1>2, <1>3, FundAssumption DEF Filed
<1>5. \A t \in Tellers : errand[t] # NoErrand => errand[t].request # r
  BY <1>4, ErrandOf
<1>6. released[r] = 0
  BY <1>1, <1>4 DEF FundInv
<1>7. FundTypeOK'
  BY <1>1, <1>2, <1>4 DEF FundTypeOK
<1>8. ASSUME NEW t \in Tellers, errand'[t] # NoErrand PROVE ErrandInv(errand[t])'
  <2>1. ErrandInv(errand[t]) /\ errand[t].request \in FundRequests \ {r} /\ errand'[t] = errand[t]
    BY <1>1, <1>5, <1>8, ErrandOf
  <2>2. QED
    BY <1>1, <1>3, <2>1 DEF ErrandInv
<1>9. ASSUME NEW q \in Filed' PROVE FiledInv(q)'
  <2>1. CASE q = r
    <3>1. request'[q] = row /\ \A t \in Tellers : ~Releases(errand'[t], q)
      BY <1>1, <1>3, <1>5, <2>1 DEF Releases
    <3>2. QED
      BY <1>1, <1>2, <1>6, <2>1, <3>1 DEF FiledInv
  <2>2. CASE q # r
    <3>1. FiledInv(q) /\ request'[q] = request[q]
      BY <1>3, <1>4, <1>9, <2>2 DEF FundInv, Filed
    <3>2. QED
      BY <1>1, <3>1 DEF FiledInv, Releases
  <2>3. QED
    BY <2>1, <2>2
<1>10. \A q \in FundRequests \ Filed' :
         q \notin contested' \/ request'[q] = NoRequest => released'[q] = 0
  BY <1>1, <1>3, <1>4 DEF FundInv
<1>11. QED
  BY <1>1, <1>7, <1>8, <1>9, <1>10 DEF FundInv

(* A teller takes a request up: where another is about it, it is contested.*)
LEMMA TakesKeeps ==
  ASSUME FundInv, NEW t \in Tellers, NEW r \in FundRequests, NEW do, Takes(t, r, do),
         do \in {"ACCEPTED", "DECLINED", "prove", "delete"},
         do \in {"ACCEPTED", "DECLINED"} => request[r].requestStatus = "PENDING_REVIEW",
         do = "prove" => MayDisburse(request[r]),
         do = "delete" => ~request[r].disbursed
  PROVE  FundInv'
<1> DEFINE e == [request |-> r, do |-> do]
<1>1. /\ FundTypeOK /\ errand[t] = NoErrand /\ r \in Filed
      /\ errand' = [errand EXCEPT ![t] = e]
      /\ contested' = IF About(r) = {} THEN contested ELSE contested \cup {r}
      /\ UNCHANGED <<request, passed, released, dropped>>
  BY DEF FundInv, Takes
<1>2. e \in Errand /\ e.request = r /\ e.do = do
  BY DEF Errand
<1> HIDE DEF e
<1>3. request[r] \in RequestRow /\ FiledInv(r)
  BY <1>1, FiledRows DEF FundInv
<1>4. WritesRow(r)
  BY <1>1, <1>3 DEF FundTypeOK, WritesRow
<1>5. \A s \in Tellers : errand[s] # NoErrand /\ errand[s].request = r => r \in contested'
  BY <1>1 DEF About
<1>6. ErrandInv(e)'
  BY <1>1, <1>2, <1>3 DEF ErrandInv, FiledInv, MayDisburse
<1>7. \A s \in Tellers : Releases(errand'[s], r) <=> Releases(errand[s], r)
  BY <1>1, <1>2 DEF FundTypeOK, Releases
<1>8. FiledInv(r)'
  BY <1>1, <1>3, <1>7 DEF FiledInv
<1>9. passed \subseteq passed' /\ contested \subseteq contested' /\ dropped \subseteq dropped'
  BY <1>1
<1>10. e \in Errand \cup {NoErrand} /\ errand' = [errand EXCEPT ![t] = e]
  BY <1>1, <1>2
<1>11. errand[t] # NoErrand => errand[t].request = r
  BY <1>1
<1>12. r \in Filed
  BY <1>1
<1> QED
  BY <1>2, <1>4, <1>5, <1>6, <1>8, <1>9, <1>10, <1>11, <1>12, TellerStep

(* Where a request is not contested, a teller about it is the only one.    *)
LEMMA OnlyTeller ==
  ASSUME FundInv, NEW t \in Tellers, errand[t] # NoErrand
  PROVE  \A s \in Tellers : s # t /\ errand[s] # NoErrand /\ errand[s].request = errand[t].request
           => errand[t].request \in contested
  BY DEF FundInv

(* What the tellers write.                                                 *)
LEMMA WritesKeep ==
  ASSUME FundInv, NEW t \in Tellers, WriteReview(t) \/ FileProofs(t) \/ WriteRelease(t) \/ Drop(t)
  PROVE  FundInv'
<1>1. errand[t] # NoErrand
  BY DEF WriteReview, FileProofs, WriteRelease, Drop, On
<1>2. PICK r \in Filed : r = errand[t].request
  BY <1>1, ErrandOf
<1>3. /\ FundTypeOK /\ r \in FundRequests /\ request[r] \in RequestRow /\ released[r] \in Nat
      /\ errand[t] \in Errand /\ ErrandInv(errand[t]) /\ FiledInv(r)
  BY <1>1, <1>2, ErrandOf DEF FundInv, FundTypeOK
<1>4. \A s \in Tellers : s # t /\ errand[s] # NoErrand /\ errand[s].request = r => r \in contested
  BY <1>1, <1>2, OnlyTeller
<1>5. CASE WriteReview(t)
  <2> DEFINE to == errand[t].do
             row == [request[r] EXCEPT !.requestStatus = to]
  <2>1. /\ to \in {"ACCEPTED", "DECLINED"}
        /\ request' = [request EXCEPT ![r].requestStatus = to]
        /\ passed' = IF to = "ACCEPTED" THEN passed \cup {r} ELSE passed
        /\ errand' = [errand EXCEPT ![t] = NoErrand]
        /\ UNCHANGED <<released, contested, dropped>>
    BY <1>2, <1>5 DEF WriteReview, On, Done
  <2>2. request' = [request EXCEPT ![r] = row]
    BY <1>3, <2>1 DEF FundTypeOK
  <2>3. row \in RequestRow /\ row.reason = request[r].reason /\ row.requestStatus = to
        /\ row.disbursed = request[r].disbursed /\ row.proofs = request[r].proofs
    BY <1>3, <2>1 DEF RequestRow, Statuses
  <2> HIDE DEF row
  <2>4. WritesRow(r)
    BY <1>3, <2>1, <2>2, <2>3 DEF FundTypeOK, WritesRow
  <2>5. \A s \in Tellers : Releases(errand'[s], r) <=> Releases(errand[s], r)
    BY <1>3, <2>1 DEF FundTypeOK, Releases
  <2>6. request'[r] = row
    BY <1>3, <2>2 DEF FundTypeOK
  <2>7. r \notin contested => request[r].requestStatus = "PENDING_REVIEW"
    BY <1>2, <1>3, <2>1 DEF ErrandInv
  <2>8. FiledInv(r)'
    BY <1>3, <2>1, <2>3, <2>5, <2>6, <2>7 DEF FiledInv
  <2> HIDE DEF to
  <2>9. passed \subseteq passed' /\ contested \subseteq contested' /\ dropped \subseteq dropped'
    BY <2>1
  <2>10. errand' = [errand EXCEPT ![t] = NoErrand]
    BY <2>1
  <2>11. QED
    BY <1>2, <1>4, <2>4, <2>8, <2>9, <2>10, TellerStep
<1>6. CASE FileProofs(t)
  <2> DEFINE row == [request[r] EXCEPT !.proofs = request[r].proofs + 1]
             e == [request |-> r, do |-> "release"]
  <2>1. /\ errand[t].do = "prove"
        /\ request' = [request EXCEPT ![r].proofs = request[r].proofs + 1]
        /\ errand' = [errand EXCEPT ![t].do = "release"]
        /\ UNCHANGED <<passed, released, contested, dropped>>
    BY <1>2, <1>6 DEF FileProofs, On
  <2>2. request' = [request EXCEPT ![r] = row]
    BY <1>3, <2>1 DEF FundTypeOK
  <2>3. row \in RequestRow /\ row.reason = request[r].reason
        /\ row.requestStatus = request[r].requestStatus
        /\ row.disbursed = request[r].disbursed /\ row.proofs = request[r].proofs + 1
    BY <1>3 DEF RequestRow
  <2>4. errand' = [errand EXCEPT ![t] = e]
    <3>1. [errand[t] EXCEPT !.do = "release"] = e
      BY <1>2, <1>3 DEF Errand
    <3>2. QED
      BY <1>3, <2>1, <3>1 DEF FundTypeOK
  <2>5. e \in Errand /\ e.request = r /\ e.do = "release"
    BY <1>3 DEF Errand
  <2> HIDE DEF row, e
  <2>6. WritesRow(r)
    BY <1>3, <2>1, <2>2, <2>3 DEF FundTypeOK, WritesRow
  <2>7. request'[r] = row
    BY <1>3, <2>2 DEF FundTypeOK
  <2>8. ErrandInv(e)'
    BY <1>2, <1>3, <2>1, <2>3, <2>5, <2>7 DEF ErrandInv
  <2>9. FiledInv(r)'
    <3>1. CASE r \in contested
      BY <1>3, <2>1, <2>3, <2>7, <3>1 DEF FiledInv
    <3>2. CASE r \notin contested
      <4>1. \A s \in Tellers : ~Releases(errand[s], r)
        BY <1>2, <1>4, <2>1, <3>2 DEF Releases
      <4>2. (e # NoErrand => \E s \in Tellers : Releases(errand'[s], r))
        BY <1>3, <2>4, <2>5 DEF Releases, FundTypeOK
      <4>3. ~request[r].disbursed
        BY <1>2, <1>3, <2>1, <3>2 DEF ErrandInv
      <4>4. e # NoErrand
        BY <2>5, FundAssumption
      <4>5. QED
        BY <1>3, <2>1, <2>3, <2>7, <4>1, <4>2, <4>3, <4>4 DEF FiledInv
    <3>3. QED
      BY <3>1, <3>2
  <2>10. passed \subseteq passed' /\ contested \subseteq contested' /\ dropped \subseteq dropped'
    BY <2>1
  <2>11. \A s \in Tellers : s # t /\ errand[s] # NoErrand /\ errand[s].request = r => r \in contested'
    BY <1>4, <2>1
  <2>12. e \in Errand \cup {NoErrand}
    BY <2>5
  <2>13. QED
    BY <1>2, <2>4, <2>5, <2>6, <2>8, <2>9, <2>10, <2>11, <2>12, TellerStep
<1>7. CASE WriteRelease(t)
  <2> DEFINE row == [request[r] EXCEPT !.disbursed = TRUE]
  <2>1. /\ errand[t].do = "release"
        /\ request' = [request EXCEPT ![r].disbursed = TRUE]
        /\ released' = [released EXCEPT ![r] = released[r] + 1]
        /\ errand' = [errand EXCEPT ![t] = NoErrand]
        /\ UNCHANGED <<passed, contested, dropped>>
    BY <1>2, <1>7 DEF WriteRelease, On, Done
  <2>2. request' = [request EXCEPT ![r] = row]
    BY <1>3, <2>1 DEF FundTypeOK
  <2>3. row \in RequestRow /\ row.reason = request[r].reason
        /\ row.requestStatus = request[r].requestStatus
        /\ row.disbursed = TRUE /\ row.proofs = request[r].proofs
    BY <1>3 DEF RequestRow
  <2> HIDE DEF row
  <2>4. request'[r] = row /\ released'[r] = released[r] + 1 /\ released[r] + 1 \in Nat
    BY <1>3, <2>1, <2>2 DEF FundTypeOK
  <2>5. FiledInv(r)'
    <3>1. request[r].reason => r \in passed
      BY <1>2, <1>3, <2>1 DEF ErrandInv
    <3>2. r \notin contested => /\ ~request[r].disbursed
                                /\ request[r].reason => request[r].requestStatus = "ACCEPTED"
      BY <1>2, <1>3, <2>1 DEF ErrandInv
    <3>3. Releases(errand[t], r)
      BY <1>1, <1>2, <2>1 DEF Releases
    <3>4. QED
      BY <1>3, <2>1, <2>3, <2>4, <3>1, <3>2, <3>3 DEF FiledInv
  <2>6. WritesRow(r)
    BY <1>3, <2>1, <2>2, <2>3, <2>4 DEF FundTypeOK, WritesRow
  <2>7. passed \subseteq passed' /\ contested \subseteq contested' /\ dropped \subseteq dropped'
    BY <2>1
  <2>8. errand' = [errand EXCEPT ![t] = NoErrand]
    BY <2>1
  <2>9. QED
    BY <1>2, <1>4, <2>5, <2>6, <2>7, <2>8, TellerStep
<1>8. CASE Drop(t)
  <2>1. /\ dropped' = dropped \cup {r} /\ errand' = [errand EXCEPT ![t] = NoErrand]
        /\ UNCHANGED <<request, passed, released, contested>>
    BY <1>2, <1>8 DEF Drop, Done
  <2>2. WritesRow(r)
    BY <1>3, <2>1 DEF FundTypeOK, WritesRow
  <2>3. FiledInv(r)'
    BY <1>3, <2>1 DEF FiledInv
  <2>4. passed \subseteq passed' /\ contested \subseteq contested' /\ dropped \subseteq dropped'
    BY <2>1
  <2>5. errand' = [errand EXCEPT ![t] = NoErrand]
    BY <2>1
  <2>6. QED
    BY <1>2, <1>4, <2>2, <2>3, <2>4, <2>5, TellerStep
<1>9. QED
  BY <1>5, <1>6, <1>7, <1>8

(* A request goes, with the errands about it.                              *)
LEMMA DeleteTransactionKeeps ==
  ASSUME FundInv, NEW t \in Tellers, DeleteTransaction(t)
  PROVE  FundInv'
<1>1. errand[t] # NoErrand /\ errand[t].do = "delete"
  BY DEF DeleteTransaction, On
<1>2. PICK r \in Filed : r = errand[t].request
  BY <1>1, ErrandOf
<1>3. FundTypeOK /\ r \in FundRequests /\ ErrandInv(errand[t]) /\ FiledInv(r)
  BY <1>1, <1>2, ErrandOf DEF FundInv
<1>4. /\ request' = [request EXCEPT ![r] = Deleted]
      /\ errand' = [u \in Tellers |-> IF u \in About(r) THEN NoErrand ELSE errand[u]]
      /\ UNCHANGED <<passed, released, contested, dropped>>
  BY <1>2 DEF DeleteTransaction
<1>5. \A q \in FundRequests : request'[q] = IF q = r THEN Deleted ELSE request[q]
  BY <1>3, <1>4 DEF FundTypeOK
<1>6. \A s \in Tellers : errand'[s] # NoErrand =>
        errand'[s] = errand[s] /\ errand[s] # NoErrand /\ errand[s].request # r
  BY <1>4 DEF About
<1>7. Filed' = Filed \ {r}
  BY <1>3, <1>5 DEF Filed
<1>8. FundTypeOK'
  <2>1. request' \in [FundRequests -> RequestRow \cup {NoRequest, Deleted}]
    BY <1>3, <1>4 DEF FundTypeOK
  <2>2. errand' \in [Tellers -> Errand \cup {NoErrand}]
    BY <1>3, <1>4 DEF FundTypeOK
  <2>3. \A s \in Tellers : errand'[s] # NoErrand => errand'[s].request \in Filed'
    BY <1>3, <1>6, <1>7 DEF FundTypeOK
  <2>4. QED
    BY <1>3, <1>4, <2>1, <2>2, <2>3 DEF FundTypeOK
<1>9. ASSUME NEW s \in Tellers, errand'[s] # NoErrand PROVE ErrandInv(errand[s])'
  <2>1. errand'[s] = errand[s] /\ ErrandInv(errand[s]) /\ errand[s].request \in FundRequests \ {r}
    BY <1>6, <1>9, ErrandOf
  <2>2. QED
    BY <1>4, <1>5, <2>1 DEF ErrandInv
<1>10. ASSUME NEW q \in Filed' PROVE FiledInv(q)'
  <2>1. FiledInv(q) /\ q \in FundRequests \ {r}
    BY <1>7, <1>10 DEF FundInv, Filed
  <2>2. request'[q] = request[q]
    BY <1>5, <2>1
  <2>3. \A s \in Tellers : Releases(errand'[s], q) <=> Releases(errand[s], q)
    BY <1>4, <2>1 DEF Releases, About
  <2>4. QED
    BY <1>4, <2>1, <2>2, <2>3 DEF FiledInv
<1>11. ASSUME NEW q \in FundRequests \ Filed', q \notin contested' \/ request'[q] = NoRequest
       PROVE  released'[q] = 0
  <2>1. CASE q = r
    <3>1. r \notin contested
      BY <1>4, <1>5, <1>11, <2>1, FundAssumption
    <3>2. ~request[r].disbursed
      BY <1>1, <1>2, <1>3, <3>1 DEF ErrandInv
    <3>3. QED
      BY <1>3, <1>4, <2>1, <3>1, <3>2 DEF FiledInv
  <2>2. CASE q # r
    BY <1>4, <1>5, <1>7, <1>11, <2>2 DEF FundInv
  <2>3. QED
    BY <2>1, <2>2
<1>12. ASSUME NEW s \in Tellers, NEW u \in Tellers, s # u, errand'[s] # NoErrand,
              errand'[u] # NoErrand, errand'[s].request = errand'[u].request
       PROVE  errand'[s].request \in contested'
  BY <1>4, <1>6, <1>12 DEF FundInv
<1>13. QED
  BY <1>8, <1>9, <1>10, <1>11, <1>12 DEF FundInv

(* What tellers found of a request is still so, or it is contested.        *)
THEOREM FundInvariant == FundSpec => []FundInv
<1>1. FundInit => FundInv
  BY FundAssumption DEF FundInit, FundInv, FundTypeOK, Filed
<1>2. FundInv /\ [FundNext]_fundVars => FundInv'
  <2> SUFFICES ASSUME FundInv, [FundNext]_fundVars PROVE FundInv'
    OBVIOUS
  <2>1. ASSUME NEW r \in FundRequests, NEW reason \in BOOLEAN, AddTransaction(r, reason)
        PROVE  FundInv'
    BY <2>1, AddTransactionKeeps
  <2>2. ASSUME NEW t \in Tellers, NEW r \in FundRequests, NEW to \in {"ACCEPTED", "DECLINED"},
               BeginReview(t, r, to)
        PROVE  FundInv'
    BY <2>2, TakesKeeps DEF BeginReview
  <2>3. ASSUME NEW t \in Tellers, NEW r \in FundRequests, BeginDisburse(t, r) PROVE FundInv'
    BY <2>3, TakesKeeps DEF BeginDisburse
  <2>4. ASSUME NEW t \in Tellers, NEW r \in FundRequests, BeginDelete(t, r) PROVE FundInv'
    BY <2>4, TakesKeeps DEF BeginDelete
  <2>5. ASSUME NEW t \in Tellers,
               WriteReview(t) \/ FileProofs(t) \/ WriteRelease(t) \/ Drop(t)
        PROVE  FundInv'
    BY <2>5, WritesKeep
  <2>6. ASSUME NEW t \in Tellers, DeleteTransaction(t) PROVE FundInv'
    BY <2>6, DeleteTransactionKeeps
  <2>7. CASE UNCHANGED fundVars
    <3>1. UNCHANGED <<request, errand, passed, released, contested, dropped>>
      BY <2>7 DEF fundVars
    <3>2. FundTypeOK' /\ Filed' = Filed
      BY <3>1 DEF FundInv, FundTypeOK, Filed
    <3>3. \A t \in Tellers : errand'[t] # NoErrand => ErrandInv(errand[t])'
      BY <3>1 DEF FundInv, ErrandInv
    <3>4. \A r \in Filed : FiledInv(r)'
      BY <3>1 DEF FundInv, FiledInv, Releases
    <3>5. QED
      BY <3>1, <3>2, <3>3, <3>4 DEF FundInv
  <2>8. QED
    BY <2>1, <2>2, <2>3, <2>4, <2>5, <2>6, <2>7 DEF FundNext
<1>3. QED
  BY <1>1, <1>2, PTL DEF FundSpec

(* FtttProjectService: funds go out only for a request that finance once   *)
(* accepted, if its reason is not blank, and once where nobody interfered. *)
THEOREM FundsAreReleasedAsReviewed == FundSpec => []FundsReleasedAsReviewed
<1>1. FundInv => FundsReleasedAsReviewed
  <2> SUFFICES ASSUME FundInv, NEW r \in FundRequests, released[r] > 0
               PROVE  /\ r \in Filed /\ request[r].reason => r \in passed
                      /\ r \notin contested =>
                           /\ r \in Filed /\ released[r] = 1 /\ request[r].disbursed
                           /\ request[r].reason => request[r].requestStatus = "ACCEPTED"
                           /\ r \notin dropped => request[r].proofs = 1
    BY DEF FundsReleasedAsReviewed
  <2>1. CASE r \in Filed
    <3>1. FiledInv(r) /\ request[r] \in RequestRow
      BY <2>1, FiledRows DEF FundInv
    <3>2. QED
      BY <2>1, <3>1 DEF FiledInv
  <2>2. CASE r \notin Filed
    BY <2>2 DEF FundInv
  <2>3. QED
    BY <2>1, <2>2
<1>2. QED
  BY <1>1, FundInvariant, PTL

-----------------------------------------------------------------------------
(* The visits to an area.                                                  *)

(* What may be left to do of a visit that was seen in a status.            *)
Claiming == { <<"checkActive", "create", "initCluster", "IN_PROGRESS">>,
              <<"create", "initCluster", "IN_PROGRESS">> }
Created == { <<"initCluster", "IN_PROGRESS">>, <<"IN_PROGRESS">> }
Rejecting == { <<"REJECTED", "AVAILABLE">> }
Reclaiming == { <<"IN_PROGRESS", "PM_REVIEW_VISIT">>, <<"IN_PROGRESS", "PM_REVIEW_SURVEY">> }
Reclaimed == { <<"PM_REVIEW_VISIT">>, <<"PM_REVIEW_SURVEY">> }
Approving == { <<"APPROVED", "countBaOpens", "createBaOpen", "createFromBaOpen", "COMPLETED">>,
               <<"EXISTING_FIBER", "countBaOpens", "createBaOpen", "createFromBaOpen", "COMPLETED">> }
Completing == { <<"countBaOpens", "createBaOpen", "createFromBaOpen", "COMPLETED">>,
                <<"createBaOpen", "createFromBaOpen", "COMPLETED">>,
                <<"createFromBaOpen", "COMPLETED">>, <<"COMPLETED">> }
Regenerating == { <<"countBaOpens", "createBaOpen", "createFromBaOpen">>,
                  <<"createBaOpen", "createFromBaOpen">>, <<"createFromBaOpen">> }

Left(seen) ==
  CASE seen = "DRAFT" -> Created \cup { <<"PM_REVIEW_VISIT">> }
    [] seen = "PM_REVIEW_VISIT" -> { <<"DRAFT">> }
    [] seen = "APPROVED_PENDING_DATA" -> Rejecting \cup { <<"PM_REVIEW_SURVEY">> }
    [] seen = "PM_REVIEW_SURVEY" -> Rejecting \cup { <<"ADMIN_REVIEW">> }
    [] seen = "ADMIN_REVIEW" -> Rejecting \cup Approving
    [] seen = "REJECTED" -> Reclaiming \cup Reclaimed \cup { <<"AVAILABLE">>, <<"patch">> }
    [] seen = "APPROVED" -> Completing
    [] seen = "EXISTING_FIBER" -> Completing \cup Regenerating
    [] OTHER -> {}

(* The gates that a visit in a status has passed.                          *)
Owed(s) ==
  CASE s \in {"APPROVED_PENDING_DATA", "PM_REVIEW_SURVEY"} -> {"visit"}
    [] s = "ADMIN_REVIEW" -> {"visit", "survey"}
    [] s \in Approved -> {"visit", "survey", "admin"}
    [] OTHER -> {}

RowInv(v) ==
  Owed(visit[v].status) \subseteq approvals[v] /\ (visit[v].gate => "visit" \in approvals[v])

Resubmits(t) == t[1] = "PM_REVIEW_SURVEY" \/ t = <<"IN_PROGRESS", "PM_REVIEW_SURVEY">>

(* A plan about a visit: its gates were passed, although the visit may     *)
(* have moved on since.                                                    *)
AboutVisit(p) ==
  /\ p.visit \in Visits /\ visit[p.visit] # NoVisit /\ visit[p.visit].area = p.area
  /\ p.todo \in Left(p.seen) /\ Owed(p.seen) \subseteq approvals[p.visit]
  /\ Resubmits(p.todo) => "visit" \in approvals[p.visit]

PlanInv(p) == (p.seen = "DRAFT" /\ p.todo \in Claiming) \/ AboutVisit(p)

GateInv ==
  /\ VisitTypeOK
  /\ \A v \in Visits : visit[v] # NoVisit => RowInv(v)
  /\ \A d \in Desks : plan[d] # NoPlan => PlanInv(plan[d])

-----------------------------------------------------------------------------
(* An area and its visits.                                                 *)

PlanOn(d, a) == plan[d] # NoPlan /\ plan[d].area = a
ClaimsOn(d, a) == PlanOn(d, a) /\ plan[d].todo \in Claiming

(* A handler between its first write and its last.                         *)
Midway(p) ==
  \/ p.todo \in Created \cup Completing \cup { <<"AVAILABLE">> }
  \/ p.seen = "REJECTED" /\ p.todo \in Reclaimed
MidOn(d, a) == PlanOn(d, a) /\ Midway(plan[d])

(* What it holds while it is.                                              *)
MidInv(p) ==
  /\ p.todo \in Created \cup Completing => Live(p.area) = {p.visit}
  /\ p.todo \in Reclaimed \cup { <<"AVAILABLE">> } =>
       area[p.area] = "IN_PROGRESS" /\ \A d \in Desks : ~ClaimsOn(d, p.area)
  /\ p.todo = <<"AVAILABLE">> => Live(p.area) = {}
  /\ p.todo \in { <<"createFromBaOpen", "COMPLETED">>, <<"COMPLETED">> } => p.visit \in baOpen
  /\ p.todo = <<"COMPLETED">> => intake[p.visit] = "SITE_VISIT"

Closed(a) == {v \in Of(a) : visit[v].status \in Approved}

Settled(a) ==
  /\ area[a] = IF Closed(a) # {} THEN "COMPLETED"
               ELSE IF Live(a) # {} THEN "IN_PROGRESS" ELSE "AVAILABLE"
  /\ \A v \in Closed(a) : v \in baOpen /\ intake[v] = "SITE_VISIT"

AreaInv(a) ==
  /\ \A v, w \in Live(a) : v = w
  /\ \A d, e \in Desks : MidOn(d, a) /\ MidOn(e, a) => d = e
  /\ \A d \in Desks : MidOn(d, a) => MidInv(plan[d])
  /\ (\A d \in Desks : ~MidOn(d, a)) => Settled(a)

VisitInv == GateInv /\ \A a \in Areas \ troubled : AreaInv(a)

-----------------------------------------------------------------------------
(* What follows the first step of each.                                    *)
LEMMA TailsOf ==
  /\ \A t \in Claiming :
       /\ Head(t) = "checkActive" => Tail(t) \in Claiming
       /\ Head(t) = "create" => Tail(t) \in Created
       /\ Head(t) \in {"checkActive", "create"} /\ Len(t) # 1
  /\ \A t \in Created : Head(t) \notin VisitStatuses /\ (Len(t) = 1 \/ Tail(t) \in Created)
  /\ \A t \in Rejecting : Head(t) = "REJECTED" /\ Tail(t) = <<"AVAILABLE">> /\ Len(t) # 1
  /\ \A t \in Reclaiming : Head(t) \notin VisitStatuses /\ Tail(t) \in Reclaimed
  /\ \A t \in Approving :
       /\ Head(t) \in Approved /\ Tail(t) \in Completing /\ Len(t) # 1
       /\ Tail(t) = <<"countBaOpens", "createBaOpen", "createFromBaOpen", "COMPLETED">>
  /\ \A t \in Completing :
       Head(t) \notin VisitStatuses /\ (Len(t) = 1 \/ Tail(t) \in Completing)
  /\ \A t \in Regenerating :
       Head(t) \notin VisitStatuses /\ (Len(t) = 1 \/ Tail(t) \in Regenerating)
<1>1. /\ Tail(<<"IN_PROGRESS", "PM_REVIEW_VISIT">>) = <<"PM_REVIEW_VISIT">>
      /\ Tail(<<"IN_PROGRESS", "PM_REVIEW_SURVEY">>) = <<"PM_REVIEW_SURVEY">>
      /\ Tail(<<"REJECTED", "AVAILABLE">>) = <<"AVAILABLE">>
      /\ Tail(<<"initCluster", "IN_PROGRESS">>) = <<"IN_PROGRESS">>
      /\ Tail(<<"createFromBaOpen", "COMPLETED">>) = <<"COMPLETED">>
      /\ Tail(<<"createBaOpen", "createFromBaOpen">>) = <<"createFromBaOpen">>
      /\ Tail(<<"createBaOpen", "createFromBaOpen", "COMPLETED">>)
           = <<"createFromBaOpen", "COMPLETED">>
      /\ Tail(<<"countBaOpens", "createBaOpen", "createFromBaOpen">>)
           = <<"createBaOpen", "createFromBaOpen">>
      /\ Tail(<<"countBaOpens", "createBaOpen", "createFromBaOpen", "COMPLETED">>)
           = <<"createBaOpen", "createFromBaOpen", "COMPLETED">>
      /\ Tail(<<"APPROVED", "countBaOpens", "createBaOpen", "createFromBaOpen", "COMPLETED">>)
           = <<"countBaOpens", "createBaOpen", "createFromBaOpen", "COMPLETED">>
      /\ Tail(<<"EXISTING_FIBER", "countBaOpens", "createBaOpen", "createFromBaOpen", "COMPLETED">>)
           = <<"countBaOpens", "createBaOpen", "createFromBaOpen", "COMPLETED">>
      /\ Tail(<<"create", "initCluster", "IN_PROGRESS">>) = <<"initCluster", "IN_PROGRESS">>
      /\ Tail(<<"checkActive", "create", "initCluster", "IN_PROGRESS">>)
           = <<"create", "initCluster", "IN_PROGRESS">>
  OBVIOUS
<1>2. ASSUME NEW t \in Claiming
      PROVE  /\ Head(t) = "checkActive" => Tail(t) \in Claiming
             /\ Head(t) = "create" => Tail(t) \in Created
             /\ Head(t) \in {"checkActive", "create"} /\ Len(t) # 1
  <2>1. /\ Head(t) = "checkActive" => t = <<"checkActive", "create", "initCluster", "IN_PROGRESS">>
        /\ Head(t) = "create" => t = <<"create", "initCluster", "IN_PROGRESS">>
        /\ Head(t) \in {"checkActive", "create"} /\ Len(t) # 1
    BY <1>2 DEF Claiming
  <2>2. QED
    BY <1>1, <2>1 DEF Claiming, Created
<1>3. ASSUME NEW t \in Created
      PROVE  Head(t) \notin VisitStatuses /\ (Len(t) = 1 \/ Tail(t) \in Created)
  <2>1. Head(t) \notin VisitStatuses /\ (Len(t) = 1 \/ t = <<"initCluster", "IN_PROGRESS">>)
    BY <1>3 DEF Created, VisitStatuses
  <2>2. QED
    BY <1>1, <2>1 DEF Created
<1>4. ASSUME NEW t \in Rejecting
      PROVE  Head(t) = "REJECTED" /\ Tail(t) = <<"AVAILABLE">> /\ Len(t) # 1
  <2>1. t = <<"REJECTED", "AVAILABLE">>
    BY <1>4 DEF Rejecting
  <2>2. Head(t) = "REJECTED" /\ Len(t) # 1
    BY <2>1
  <2>3. QED
    BY <1>1, <2>1, <2>2
<1>5. ASSUME NEW t \in Reclaiming PROVE Head(t) \notin VisitStatuses /\ Tail(t) \in Reclaimed
  <2>1. Head(t) \notin VisitStatuses
    BY <1>5 DEF Reclaiming, VisitStatuses
  <2>2. QED
    BY <1>1, <1>5, <2>1 DEF Reclaiming, Reclaimed
<1>6. ASSUME NEW t \in Approving
      PROVE  /\ Head(t) \in Approved /\ Tail(t) \in Completing /\ Len(t) # 1
             /\ Tail(t) = <<"countBaOpens", "createBaOpen", "createFromBaOpen", "COMPLETED">>
  <2>1. Head(t) \in Approved /\ Len(t) # 1
    BY <1>6 DEF Approving, Approved
  <2>2. QED
    BY <1>1, <1>6, <2>1 DEF Approving, Completing
<1>7. ASSUME NEW t \in Completing
      PROVE  Head(t) \notin VisitStatuses /\ (Len(t) = 1 \/ Tail(t) \in Completing)
  <2>1. Head(t) \notin VisitStatuses /\ (Len(t) = 1 \/ t # <<"COMPLETED">>)
    BY <1>7 DEF Completing, VisitStatuses
  <2>2. QED
    BY <1>1, <1>7, <2>1 DEF Completing
<1>8. ASSUME NEW t \in Regenerating
      PROVE  Head(t) \notin VisitStatuses /\ (Len(t) = 1 \/ Tail(t) \in Regenerating)
  <2>1. Head(t) \notin VisitStatuses /\ (Len(t) = 1 \/ t # <<"createFromBaOpen">>)
    BY <1>8 DEF Regenerating, VisitStatuses
  <2>2. QED
    BY <1>1, <1>8, <2>1 DEF Regenerating
<1>9. QED
  BY <1>2, <1>3, <1>4, <1>5, <1>6, <1>7, <1>8

(* The steps of a plan, in their order.                                    *)
LEMMA TodoFacts ==
  ASSUME NEW seen \in VisitStatuses, NEW t \in Left(seen)
  PROVE  /\ t # <<>> /\ Head(t) = t[1]
         /\ Head(t) \notin {"checkActive", "create"}
         /\ Head(t) \notin VisitStatuses => Len(t) = 1 \/ Tail(t) \in Left(seen)
         /\ Head(t) \in VisitStatuses => Len(t) = 1 \/ Tail(t) \in Left(Head(t))
<1> DEFINE Single == { <<"PM_REVIEW_VISIT">>, <<"DRAFT">>, <<"PM_REVIEW_SURVEY">>,
                       <<"ADMIN_REVIEW">>, <<"AVAILABLE">>, <<"patch">> }
<1>1. \/ t \in Single
      \/ seen = "DRAFT" /\ t \in Created
      \/ t \in Rejecting
      \/ seen = "ADMIN_REVIEW" /\ t \in Approving
      \/ seen = "REJECTED" /\ t \in Reclaiming
      \/ seen \in Approved /\ t \in Completing
      \/ seen = "EXISTING_FIBER" /\ t \in Regenerating
  BY DEF Left, Reclaimed, VisitStatuses, Approved
<1>2. CASE t \in Single
  BY <1>2
<1>3. CASE seen = "DRAFT" /\ t \in Created
  <2>1. t # <<>> /\ Head(t) = t[1] /\ Head(t) \notin {"checkActive", "create"}
    BY <1>3 DEF Created
  <2>2. QED
    BY <1>3, <2>1, TailsOf DEF Left
<1>4. CASE t \in Rejecting
  <2>1. t # <<>> /\ Head(t) = t[1] /\ Head(t) \notin {"checkActive", "create"}
    BY <1>4 DEF Rejecting
  <2>2. QED
    BY <1>4, <2>1, TailsOf DEF Left, VisitStatuses
<1>5. CASE seen = "ADMIN_REVIEW" /\ t \in Approving
  <2>1. t # <<>> /\ Head(t) = t[1] /\ Head(t) \notin {"checkActive", "create"}
    BY <1>5 DEF Approving
  <2>2. QED
    BY <1>5, <2>1, TailsOf DEF Left, VisitStatuses, Approved
<1>6. CASE seen = "REJECTED" /\ t \in Reclaiming
  <2>1. t # <<>> /\ Head(t) = t[1] /\ Head(t) \notin {"checkActive", "create"}
    BY <1>6 DEF Reclaiming
  <2>2. QED
    BY <1>6, <2>1, TailsOf DEF Left
<1>7. CASE seen \in Approved /\ t \in Completing
  <2>1. t # <<>> /\ Head(t) = t[1] /\ Head(t) \notin {"checkActive", "create"}
    BY <1>7 DEF Completing
  <2>2. QED
    BY <1>7, <2>1, TailsOf DEF Left, Approved
<1>8. CASE seen = "EXISTING_FIBER" /\ t \in Regenerating
  <2>1. t # <<>> /\ Head(t) = t[1] /\ Head(t) \notin {"checkActive", "create"}
    BY <1>8 DEF Regenerating
  <2>2. QED
    BY <1>8, <2>1, TailsOf DEF Left
<1>9. QED
  BY <1>1, <1>2, <1>3, <1>4, <1>5, <1>6, <1>7, <1>8

(* A plan that comes to resubmit a survey was made to.                     *)
LEMMA ResubmitsFromTheStart ==
  ASSUME NEW seen \in VisitStatuses, NEW t \in Left(seen), Len(t) # 1, Resubmits(Tail(t))
  PROVE  Resubmits(t)
<1>1. \/ t \in Created \/ t \in Rejecting \/ t \in Approving \/ t \in Reclaiming
      \/ t \in Completing \/ t \in Regenerating
  BY DEF Left, Reclaimed, VisitStatuses
<1>2. \A u \in Created \cup Completing \cup Regenerating \cup { <<"AVAILABLE">> } : ~Resubmits(u)
  BY DEF Created, Completing, Regenerating, Resubmits
<1>3. CASE t \in Reclaiming
  <2>1. CASE t = <<"IN_PROGRESS", "PM_REVIEW_VISIT">>
    <3>1. Tail(t) = <<"PM_REVIEW_VISIT">>
      BY <2>1
    <3>2. ~Resubmits(<<"PM_REVIEW_VISIT">>)
      BY DEF Resubmits
    <3>3. QED
      BY <3>1, <3>2
  <2>2. CASE t = <<"IN_PROGRESS", "PM_REVIEW_SURVEY">>
    BY <2>2 DEF Resubmits
  <2>3. QED
    BY <1>3, <2>1, <2>2 DEF Reclaiming
<1>4. CASE t \in Created \cup Rejecting \cup Approving \cup Completing \cup Regenerating
  BY <1>2, <1>4, TailsOf
<1>5. QED
  BY <1>1, <1>3, <1>4

(* What is left to do, by the next step.                                   *)
LEMMA NextSteps ==
  ASSUME NEW seen \in VisitStatuses, NEW t \in Left(seen)
  PROVE  /\ Head(t) = "patch" => t = <<"patch">>
         /\ Head(t) = "initCluster" => t = <<"initCluster", "IN_PROGRESS">> /\ seen = "DRAFT"
         /\ Head(t) \in {"countBaOpens", "createBaOpen", "createFromBaOpen"} =>
              seen \in Approved /\ t \in Completing \cup Regenerating
         /\ Head(t) \in AreaStatuses =>
              \/ seen = "DRAFT" /\ t = <<"IN_PROGRESS">>
              \/ seen = "REJECTED" /\ t \in Reclaiming \cup { <<"AVAILABLE">> }
              \/ seen \in Approved /\ t = <<"COMPLETED">>
         /\ Head(t) \in VisitStatuses =>
              \/ t = <<"PM_REVIEW_VISIT">> /\ seen \in {"DRAFT", "REJECTED"}
              \/ t = <<"DRAFT">> /\ seen = "PM_REVIEW_VISIT"
              \/ t = <<"PM_REVIEW_SURVEY">> /\ seen \in {"APPROVED_PENDING_DATA", "REJECTED"}
              \/ t = <<"ADMIN_REVIEW">> /\ seen = "PM_REVIEW_SURVEY"
              \/ /\ t = <<"REJECTED", "AVAILABLE">>
                 /\ seen \in {"APPROVED_PENDING_DATA", "PM_REVIEW_SURVEY", "ADMIN_REVIEW"}
              \/ t \in Approving /\ seen = "ADMIN_REVIEW"
<1>1. CASE seen = "DRAFT"
  BY <1>1 DEF Left, Created, VisitStatuses, AreaStatuses
<1>2. CASE seen = "PM_REVIEW_VISIT"
  BY <1>2 DEF Left, VisitStatuses, AreaStatuses
<1>3. CASE seen = "APPROVED_PENDING_DATA"
  BY <1>3 DEF Left, Rejecting, VisitStatuses, AreaStatuses
<1>4. CASE seen = "PM_REVIEW_SURVEY"
  BY <1>4 DEF Left, Rejecting, VisitStatuses, AreaStatuses
<1>5. CASE seen = "ADMIN_REVIEW"
  BY <1>5 DEF Left, Rejecting, Approving, VisitStatuses, AreaStatuses
<1>6. CASE seen = "REJECTED"
  BY <1>6 DEF Left, Reclaiming, Reclaimed, VisitStatuses, AreaStatuses
<1>7. CASE seen \in {"APPROVED", "EXISTING_FIBER"} /\ t \in Completing
  BY <1>7 DEF Completing, VisitStatuses, AreaStatuses, Approved
<1>8. CASE seen = "EXISTING_FIBER" /\ t \in Regenerating
  BY <1>8 DEF Regenerating, VisitStatuses, AreaStatuses, Approved
<1>9. QED
  BY <1>1, <1>2, <1>3, <1>4, <1>5, <1>6, <1>7, <1>8 DEF Left, VisitStatuses

(* What a desk has planned.                                                *)
LEMMA PlanOf ==
  ASSUME GateInv, NEW d \in Desks, NEW p, p = plan[d], p # NoPlan
  PROVE  /\ p \in Plan /\ p.todo # <<>> /\ p.todo \in Seq(VisitSteps) /\ p.area \in Areas
         /\ p.seen \in VisitStatuses /\ PlanInv(p)
<1>1. p \in Plan /\ p.todo # <<>> /\ PlanInv(p)
  BY DEF GateInv, VisitTypeOK
<1>2. QED
  BY <1>1 DEF Plan

(* A plan that still has steps of a visit's is about it.                   *)
LEMMA AboutItsVisit ==
  ASSUME GateInv, NEW d \in Desks, NEW p, p = plan[d], p # NoPlan,
         Head(p.todo) \notin {"checkActive", "create"}
  PROVE  AboutVisit(p) /\ visit[p.visit] \in VisitRow
<1>1. PlanInv(p)
  BY PlanOf
<1>2. p.todo \notin Claiming
  BY DEF Claiming
<1>3. AboutVisit(p)
  BY <1>1, <1>2 DEF PlanInv
<1>4. QED
  BY <1>3 DEF AboutVisit, GateInv, VisitTypeOK

(* A desk goes on.                                                         *)
LEMMA ProceedsFacts ==
  ASSUME VisitTypeOK, NEW d \in Desks, NEW p \in Plan, p.todo # <<>>, Proceeds(d, p)
  PROVE  /\ plan' \in [Desks -> Plan \cup {NoPlan}]
         /\ \A e \in Desks \ {d} : plan'[e] = plan[e]
         /\ Len(p.todo) = 1 => plan'[d] = NoPlan
         /\ Len(p.todo) # 1 =>
              /\ plan'[d] \in Plan /\ plan'[d] # NoPlan
              /\ plan'[d].area = p.area /\ plan'[d].visit = p.visit /\ plan'[d].seen = p.seen
              /\ plan'[d].todo = Tail(p.todo) /\ plan'[d].todo # <<>>
<1> DEFINE q == [p EXCEPT !.todo = Tail(p.todo)]
<1>1. p.todo \in Seq(VisitSteps)
  BY DEF Plan
<1>2. Tail(p.todo) \in Seq(VisitSteps) /\ (Len(p.todo) # 1 => Tail(p.todo) # <<>>)
  <2>1. Tail(p.todo) \in Seq(VisitSteps) /\ Len(Tail(p.todo)) = Len(p.todo) - 1
    BY <1>1
  <2>2. Len(p.todo) \in Nat /\ Len(p.todo) # 0
    BY <1>1
  <2>3. Len(p.todo) # 1 => Len(Tail(p.todo)) # 0
    BY <2>1, <2>2
  <2>4. \A t \in Seq(VisitSteps) : Len(t) # 0 => t # <<>>
    OBVIOUS
  <2>5. QED
    BY <2>1, <2>3, <2>4
<1>3. /\ q \in Plan /\ q.area = p.area /\ q.visit = p.visit /\ q.seen = p.seen
      /\ q.todo = Tail(p.todo)
  BY <1>2 DEF Plan
<1>4. plan' = [plan EXCEPT ![d] = IF Len(p.todo) = 1 THEN NoPlan ELSE q]
  BY DEF Proceeds
<1> HIDE DEF q
<1>5. q # NoPlan
  BY <1>3, VisitAssumption
<1>6. QED
  BY <1>2, <1>3, <1>4, <1>5 DEF VisitTypeOK

(* A desk's step leaves the others' plans as they are: gates passed stay   *)
(* passed.                                                                 *)
LEMMA GateStep ==
  ASSUME GateInv, VisitTypeOK', NEW d \in Desks,
         \A v \in Visits : /\ visit[v] # NoVisit =>
                                visit'[v] # NoVisit /\ visit'[v].area = visit[v].area
                           /\ approvals[v] \subseteq approvals'[v]
                           /\ visit'[v] # NoVisit => RowInv(v)',
         \A e \in Desks \ {d} : plan'[e] = plan[e],
         plan'[d] = NoPlan \/ PlanInv(plan[d])'
  PROVE  GateInv'
<1>1. ASSUME NEW e \in Desks, plan'[e] # NoPlan PROVE PlanInv(plan[e])'
  <2>1. CASE e = d
    BY <1>1, <2>1
  <2>2. CASE e # d
    <3>1. plan'[e] = plan[e] /\ PlanInv(plan[e])
      BY <1>1, <2>2 DEF GateInv
    <3>2. CASE AboutVisit(plan[e])
      BY <3>1, <3>2 DEF PlanInv, AboutVisit
    <3>3. CASE ~AboutVisit(plan[e])
      BY <3>1, <3>3 DEF PlanInv
    <3>4. QED
      BY <3>2, <3>3
  <2>3. QED
    BY <2>1, <2>2
<1>2. QED
  BY <1>1 DEF GateInv

-----------------------------------------------------------------------------
(* Handlers that start: what each finds and leaves to do.                  *)

Starts(d, v) ==
  \/ Submit(d, v)
  \/ PmVisitReject(d, v)
  \/ \E ok \in BOOLEAN, fiber \in {"none", "existing"} : SubmitSurveyData(d, v, ok, fiber)
  \/ \E ok \in BOOLEAN : PmReview(d, v, ok)
  \/ \E ok \in BOOLEAN : AdminApprove(d, v, ok)
  \/ RegenerateBaOpen(d, v)
  \/ \E fiber \in {"none", "existing"} : PatchBySurveyor(d, v, fiber)

First(seen, t) ==
  /\ t \in Left(seen) /\ t \in Seq(VisitSteps)
  /\ t \notin Created \cup Completing \cup { <<"AVAILABLE">> }
  /\ seen = "REJECTED" => t \notin Reclaimed

(* The writes of an approval, in their order.                              *)
LEMMA ApprovalSteps ==
  ASSUME NEW s
  PROVE  <<s>> \o GenerateBaOpen \o <<"COMPLETED">>
           = <<s, "countBaOpens", "createBaOpen", "createFromBaOpen", "COMPLETED">>
<1> DEFINE l == <<s>> \o GenerateBaOpen \o <<"COMPLETED">>
           r == <<s, "countBaOpens", "createBaOpen", "createFromBaOpen", "COMPLETED">>
           S == {s, "countBaOpens", "createBaOpen", "createFromBaOpen", "COMPLETED"}
<1>1. <<s>> \in Seq(S) /\ GenerateBaOpen \in Seq(S) /\ <<"COMPLETED">> \in Seq(S) /\ r \in Seq(S)
  BY DEF GenerateBaOpen
<1>2. Len(l) = 5 /\ Len(r) = 5 /\ l \in Seq(S)
  BY <1>1 DEF GenerateBaOpen
<1>3. \A i \in 1..5 : l[i] = r[i]
  BY <1>1 DEF GenerateBaOpen
<1> HIDE DEF l, r
<1>4. \A i \in 1..Len(l) : l[i] = r[i]
  BY <1>2, <1>3
<1>5. l = r
  BY <1>1, <1>2, <1>4, SeqEqual
<1>6. QED
  BY <1>5 DEF l, r

(* What the handlers plan is what the statuses they look for allow.        *)
LEMMA FirstTodos ==
  /\ First("DRAFT", <<"PM_REVIEW_VISIT">>)
  /\ First("PM_REVIEW_VISIT", <<"DRAFT">>)
  /\ First("APPROVED_PENDING_DATA", <<"PM_REVIEW_SURVEY">>)
  /\ First("APPROVED_PENDING_DATA", <<"REJECTED", "AVAILABLE">>)
  /\ First("PM_REVIEW_SURVEY", <<"REJECTED", "AVAILABLE">>)
  /\ First("PM_REVIEW_SURVEY", <<"ADMIN_REVIEW">>)
  /\ First("ADMIN_REVIEW", <<"REJECTED", "AVAILABLE">>)
  /\ First("REJECTED", <<"IN_PROGRESS", "PM_REVIEW_VISIT">>)
  /\ First("REJECTED", <<"IN_PROGRESS", "PM_REVIEW_SURVEY">>)
  /\ First("REJECTED", <<"patch">>)
  /\ First("EXISTING_FIBER", <<"countBaOpens", "createBaOpen", "createFromBaOpen">>)
  /\ \A s \in Approved :
       First("ADMIN_REVIEW", <<s, "countBaOpens", "createBaOpen", "createFromBaOpen", "COMPLETED">>)
<1> USE DEF First, Left, VisitSteps, VisitStatuses, AreaStatuses, Created, Completing
<1>1. First("DRAFT", <<"PM_REVIEW_VISIT">>)
  OBVIOUS
<1>2. First("PM_REVIEW_VISIT", <<"DRAFT">>)
  OBVIOUS
<1>3. First("APPROVED_PENDING_DATA", <<"PM_REVIEW_SURVEY">>)
  OBVIOUS
<1>4. First("APPROVED_PENDING_DATA", <<"REJECTED", "AVAILABLE">>)
  BY DEF Rejecting
<1>5. First("PM_REVIEW_SURVEY", <<"REJECTED", "AVAILABLE">>)
  BY DEF Rejecting
<1>6. First("PM_REVIEW_SURVEY", <<"ADMIN_REVIEW">>)
  OBVIOUS
<1>7. First("ADMIN_REVIEW", <<"REJECTED", "AVAILABLE">>)
  BY DEF Rejecting
<1>8. First("REJECTED", <<"IN_PROGRESS", "PM_REVIEW_VISIT">>)
  BY DEF Reclaiming, Reclaimed
<1>9. First("REJECTED", <<"IN_PROGRESS", "PM_REVIEW_SURVEY">>)
  BY DEF Reclaiming, Reclaimed
<1>10. First("REJECTED", <<"patch">>)
  BY DEF Reclaimed
<1>11. First("EXISTING_FIBER", <<"countBaOpens", "createBaOpen", "createFromBaOpen">>)
  BY DEF Regenerating
<1>12. ASSUME NEW s \in Approved
       PROVE  First("ADMIN_REVIEW",
                    <<s, "countBaOpens", "createBaOpen", "createFromBaOpen", "COMPLETED">>)
  BY <1>12 DEF Approving, Approved
<1>13. QED
  BY <1>1, <1>2, <1>3, <1>4, <1>5, <1>6, <1>7, <1>8, <1>9, <1>10, <1>11, <1>12

(* A handler that starts plans what the status of its visit allows, and    *)
(* resubmits a survey only after the visit was agreed.                     *)
LEMMA StartsFirst ==
  ASSUME GateInv, NEW d \in Desks, NEW v \in Visits, Starts(d, v)
  PROVE  \E t, fiber : /\ Plans(d, v, t, fiber) /\ fiber \in {"none", "existing", "unknown"}
                       /\ First(visit[v].status, t)
                       /\ Resubmits(t) => "visit" \in approvals[v]
<1>1. ASSUME visit[v] # NoVisit
      PROVE  visit[v].status \in {"APPROVED_PENDING_DATA", "PM_REVIEW_SURVEY"} \/ visit[v].gate
                 => "visit" \in approvals[v]
  BY <1>1 DEF GateInv, RowInv, Owed
<1>2. CASE Submit(d, v)
  <2> DEFINE t == Submits(visit[v])
  <2>1. Plans(d, v, t, "unknown") /\ visit[v] # NoVisit
        /\ visit[v].status \in {"DRAFT", "REJECTED"}
    BY <1>2 DEF Submit, Is
  <2>2. CASE visit[v].status = "DRAFT"
    <3>1. t = <<"PM_REVIEW_VISIT">>
      BY <2>2 DEF Submits
    <3>2. First(visit[v].status, t) /\ ~Resubmits(t)
      BY <2>2, <3>1, FirstTodos DEF Resubmits
    <3>3. QED
      BY <2>1, <3>2
  <2>3. CASE visit[v].status = "REJECTED" /\ visit[v].gate
    <3>1. t = <<"IN_PROGRESS", "PM_REVIEW_SURVEY">>
      BY <2>3 DEF Submits
    <3>2. First(visit[v].status, t)
      BY <2>3, <3>1, FirstTodos
    <3>3. QED
      BY <1>1, <2>1, <2>3, <3>2
  <2>4. CASE visit[v].status = "REJECTED" /\ ~visit[v].gate
    <3>1. t = <<"IN_PROGRESS", "PM_REVIEW_VISIT">>
      BY <2>4 DEF Submits
    <3>2. First(visit[v].status, t) /\ ~Resubmits(t)
      BY <2>4, <3>1, FirstTodos DEF Resubmits
    <3>3. QED
      BY <2>1, <3>2
  <2>5. QED
    BY <2>1, <2>2, <2>3, <2>4
<1>3. CASE PmVisitReject(d, v)
  <2>1. Plans(d, v, <<"DRAFT">>, "unknown") /\ visit[v].status = "PM_REVIEW_VISIT"
    BY <1>3 DEF PmVisitReject, Is
  <2>2. First(visit[v].status, <<"DRAFT">>) /\ ~Resubmits(<<"DRAFT">>)
    BY <2>1, FirstTodos DEF Resubmits
  <2>3. QED
    BY <2>1, <2>2
<1>4. ASSUME NEW ok \in BOOLEAN, NEW fiber \in {"none", "existing"},
             SubmitSurveyData(d, v, ok, fiber)
      PROVE  \E t : /\ Plans(d, v, t, fiber) /\ First(visit[v].status, t)
                    /\ "visit" \in approvals[v]
  <2>1. /\ Plans(d, v, IF ok THEN <<"PM_REVIEW_SURVEY">> ELSE <<"REJECTED", "AVAILABLE">>, fiber)
        /\ visit[v] # NoVisit /\ visit[v].status = "APPROVED_PENDING_DATA"
    BY <1>4 DEF SubmitSurveyData, Is
  <2>2. First(visit[v].status, IF ok THEN <<"PM_REVIEW_SURVEY">> ELSE <<"REJECTED", "AVAILABLE">>)
    BY <2>1, FirstTodos
  <2>3. QED
    BY <1>1, <2>1, <2>2
<1>5. ASSUME NEW ok \in BOOLEAN, PmReview(d, v, ok)
      PROVE  \E t : /\ Plans(d, v, t, "unknown") /\ First(visit[v].status, t)
                    /\ "visit" \in approvals[v]
  <2>1. /\ Plans(d, v, IF ok THEN <<"ADMIN_REVIEW">> ELSE <<"REJECTED", "AVAILABLE">>, "unknown")
        /\ visit[v] # NoVisit /\ visit[v].status = "PM_REVIEW_SURVEY"
    BY <1>5 DEF PmReview, Is
  <2>2. First(visit[v].status, IF ok THEN <<"ADMIN_REVIEW">> ELSE <<"REJECTED", "AVAILABLE">>)
    BY <2>1, FirstTodos
  <2>3. QED
    BY <1>1, <2>1, <2>2
<1>6. ASSUME NEW ok \in BOOLEAN, AdminApprove(d, v, ok)
      PROVE  \E t : Plans(d, v, t, "unknown") /\ First(visit[v].status, t) /\ ~Resubmits(t)
  <2>0. PICK s : s = IF visit[v].fiber = "existing" THEN "EXISTING_FIBER" ELSE "APPROVED"
    OBVIOUS
  <2> DEFINE a == <<s, "countBaOpens", "createBaOpen", "createFromBaOpen", "COMPLETED">>
  <2>1. /\ Plans(d, v, IF ok THEN a ELSE <<"REJECTED", "AVAILABLE">>, "unknown")
        /\ visit[v].status = "ADMIN_REVIEW"
    <3>1. <<s>> \o GenerateBaOpen \o <<"COMPLETED">> = a
      BY ApprovalSteps
    <3>2. QED
      BY <1>6, <2>0, <3>1 DEF AdminApprove, Is
  <2>2. s \in Approved
    BY <2>0 DEF Approved
  <2>3. First(visit[v].status, IF ok THEN a ELSE <<"REJECTED", "AVAILABLE">>)
    BY <2>1, <2>2, FirstTodos
  <2>4. ~Resubmits(a) /\ ~Resubmits(<<"REJECTED", "AVAILABLE">>)
    BY <2>2 DEF Resubmits, Approved
  <2>5. QED
    BY <2>1, <2>3, <2>4
<1>7. CASE RegenerateBaOpen(d, v)
  <2>1. Plans(d, v, GenerateBaOpen, "unknown") /\ visit[v].status = "EXISTING_FIBER"
    BY <1>7 DEF RegenerateBaOpen, IsLegacy, Is
  <2>2. First(visit[v].status, GenerateBaOpen) /\ ~Resubmits(GenerateBaOpen)
    BY <2>1, FirstTodos DEF GenerateBaOpen, Resubmits
  <2>3. QED
    BY <2>1, <2>2
<1>8. ASSUME NEW fiber \in {"none", "existing"}, PatchBySurveyor(d, v, fiber)
      PROVE  \E t : Plans(d, v, t, fiber) /\ First(visit[v].status, t) /\ ~Resubmits(t)
  <2>1. Plans(d, v, <<"patch">>, fiber) /\ visit[v].status = "REJECTED"
    BY <1>8 DEF PatchBySurveyor, Is
  <2>2. First(visit[v].status, <<"patch">>) /\ ~Resubmits(<<"patch">>)
    BY <2>1, FirstTodos DEF Resubmits
  <2>3. QED
    BY <2>1, <2>2
<1>9. QED
  BY <1>2, <1>3, <1>4, <1>5, <1>6, <1>7, <1>8 DEF Starts

(* A desk without a plan makes one of a visit, with its gates passed.      *)
LEMMA PlansKeepGates ==
  ASSUME GateInv, NEW d \in Desks, NEW v \in Visits, NEW t, NEW fiber,
         Plans(d, v, t, fiber), fiber \in {"none", "existing", "unknown"},
         First(visit[v].status, t), Resubmits(t) => "visit" \in approvals[v]
  PROVE  /\ GateInv' /\ plan[d] = NoPlan /\ plan'[d] # NoPlan
         /\ plan'[d].area = visit[v].area /\ plan'[d].seen = visit[v].status
         /\ plan'[d].todo = t
         /\ \A e \in Desks \ {d} : plan'[e] = plan[e]
         /\ UNCHANGED <<visit, area, intake, baOpen, approvals, troubled>>
<1> DEFINE p == [area |-> visit[v].area, visit |-> v, seen |-> visit[v].status,
                 fiber |-> fiber, count |-> 0, todo |-> t]
<1>1. /\ VisitTypeOK /\ plan[d] = NoPlan /\ visit[v] # NoVisit /\ plan' = [plan EXCEPT ![d] = p]
      /\ UNCHANGED <<visit, area, intake, baOpen, approvals, troubled>>
  BY DEF GateInv, Plans
<1>2. visit[v] \in VisitRow /\ RowInv(v)
  BY <1>1 DEF GateInv, VisitTypeOK
<1>3. visit[v].area \in Areas /\ visit[v].status \in VisitStatuses
  BY <1>2 DEF VisitRow
<1>4. t \in Left(visit[v].status) /\ t \in Seq(VisitSteps) /\ t # <<>>
  BY <1>3, TodoFacts DEF First
<1>5. p \in Plan
  BY <1>3, <1>4 DEF Plan
<1>6. /\ p.area = visit[v].area /\ p.visit = v /\ p.seen = visit[v].status /\ p.todo = t
  OBVIOUS
<1> HIDE DEF p
<1>7. p # NoPlan
  BY <1>5, VisitAssumption
<1>8. plan'[d] = p /\ \A e \in Desks \ {d} : plan'[e] = plan[e]
  BY <1>1 DEF VisitTypeOK
<1>9. VisitTypeOK'
  <2>1. plan' \in [Desks -> Plan \cup {NoPlan}]
    BY <1>1, <1>5 DEF VisitTypeOK
  <2>2. \A e \in Desks : plan'[e] # NoPlan => plan'[e].todo # <<>>
    BY <1>1, <1>4, <1>6, <1>8 DEF VisitTypeOK
  <2>3. QED
    BY <1>1, <2>1, <2>2 DEF VisitTypeOK
<1>10. PlanInv(plan[d])'
  <2>1. AboutVisit(plan[d])'
    BY <1>1, <1>2, <1>4, <1>6, <1>8 DEF AboutVisit, RowInv
  <2>2. QED
    BY <2>1 DEF PlanInv
<1>11. \A w \in Visits : visit'[w] # NoVisit => RowInv(w)'
  BY <1>1 DEF GateInv, RowInv
<1>12. GateInv'
  BY <1>1, <1>8, <1>9, <1>10, <1>11, GateStep
<1>13. QED
  BY <1>1, <1>6, <1>7, <1>8, <1>12

(* A desk claims an area that is available.                                *)
LEMMA CreateKeepsGates ==
  ASSUME GateInv, NEW d \in Desks, NEW a \in Areas, Create(d, a)
  PROVE  /\ GateInv' /\ plan[d] = NoPlan /\ area[a] = "AVAILABLE"
         /\ plan'[d].area = a /\ plan'[d].seen = "DRAFT" /\ plan'[d].todo \in Claiming
         /\ \A e \in Desks \ {d} : plan'[e] = plan[e]
         /\ UNCHANGED <<visit, area, intake, baOpen, approvals, troubled>>
<1> DEFINE t == <<"checkActive", "create", "initCluster", "IN_PROGRESS">>
           p == [area |-> a, visit |-> NoVisit, seen |-> "DRAFT", fiber |-> "unknown",
                 count |-> 0, todo |-> t]
<1>1. /\ VisitTypeOK /\ plan[d] = NoPlan /\ area[a] = "AVAILABLE"
      /\ plan' = [plan EXCEPT ![d] = p]
      /\ UNCHANGED <<visit, area, intake, baOpen, approvals, troubled>>
  BY DEF GateInv, Create
<1>2. t \in Seq(VisitSteps) /\ t # <<>> /\ t \in Claiming
  BY DEF VisitSteps, AreaStatuses, Claiming
<1> HIDE DEF t
<1>3. p \in Plan
  BY <1>2 DEF Plan, VisitStatuses
<1>4. p.area = a /\ p.seen = "DRAFT" /\ p.todo = t
  OBVIOUS
<1> HIDE DEF p
<1>5. plan'[d] = p /\ \A e \in Desks \ {d} : plan'[e] = plan[e]
  BY <1>1 DEF VisitTypeOK
<1>6. VisitTypeOK'
  <2>1. plan' \in [Desks -> Plan \cup {NoPlan}]
    BY <1>1, <1>3 DEF VisitTypeOK
  <2>2. \A e \in Desks : plan'[e] # NoPlan => plan'[e].todo # <<>>
    BY <1>1, <1>2, <1>4, <1>5 DEF VisitTypeOK
  <2>3. QED
    BY <1>1, <2>1, <2>2 DEF VisitTypeOK
<1>7. PlanInv(plan[d])'
  BY <1>2, <1>4, <1>5 DEF PlanInv
<1>8. \A w \in Visits : visit'[w] # NoVisit => RowInv(w)'
  BY <1>1 DEF GateInv, RowInv
<1>9. GateInv'
  BY <1>1, <1>5, <1>6, <1>7, <1>8, GateStep
<1>10. QED
  BY <1>1, <1>2, <1>4, <1>5, <1>9

(* The schedule of a visit is approved.                                    *)
LEMMA PmVisitApproveKeepsGates ==
  ASSUME GateInv, NEW v \in Visits, PmVisitApprove(v)
  PROVE  /\ GateInv' /\ visit[v] # NoVisit /\ visit[v].status = "PM_REVIEW_VISIT"
         /\ visit'[v] # NoVisit /\ visit'[v].area = visit[v].area
         /\ visit'[v].status = "APPROVED_PENDING_DATA"
         /\ \A w \in Visits \ {v} : visit'[w] = visit[w] /\ approvals'[w] = approvals[w]
         /\ approvals'[v] = approvals[v] \cup {"visit"}
<1> DEFINE row == [visit[v] EXCEPT !.status = "APPROVED_PENDING_DATA", !.gate = TRUE]
<1>1. /\ VisitTypeOK /\ visit[v] # NoVisit /\ visit[v].status = "PM_REVIEW_VISIT"
      /\ visit' = [visit EXCEPT ![v].status = "APPROVED_PENDING_DATA", ![v].gate = TRUE]
      /\ approvals' = [approvals EXCEPT ![v] = approvals[v] \cup {"visit"}]
      /\ UNCHANGED <<area, intake, baOpen, plan, troubled>>
  BY DEF GateInv, PmVisitApprove, Is
<1>2. visit[v] \in VisitRow
  BY <1>1 DEF VisitTypeOK
<1>3. row \in VisitRow /\ row.area = visit[v].area /\ row.status = "APPROVED_PENDING_DATA"
  BY <1>2 DEF VisitRow, VisitStatuses
<1>4. visit' = [visit EXCEPT ![v] = row]
  BY <1>1, <1>2 DEF VisitTypeOK, VisitRow
<1> HIDE DEF row
<1>5. row # NoVisit
  BY <1>3, VisitAssumption
<1>6. /\ visit'[v] = row /\ approvals'[v] = approvals[v] \cup {"visit"}
      /\ \A w \in Visits \ {v} : visit'[w] = visit[w] /\ approvals'[w] = approvals[w]
  BY <1>1, <1>4 DEF VisitTypeOK
<1>7. VisitTypeOK'
  <2>1. visit' \in [Visits -> VisitRow \cup {NoVisit}]
    BY <1>1, <1>3, <1>4 DEF VisitTypeOK
  <2>2. approvals' \in [Visits -> SUBSET {"visit", "survey", "admin"}]
    BY <1>1 DEF VisitTypeOK
  <2>3. QED
    BY <1>1, <2>1, <2>2 DEF VisitTypeOK
<1>8. ASSUME NEW w \in Visits, visit'[w] # NoVisit PROVE RowInv(w)'
  <2>1. CASE w = v
    <3>1. Owed(visit[w].status)' = {"visit"}
      BY <1>3, <1>6, <2>1 DEF Owed, Approved
    <3>2. QED
      BY <1>6, <2>1, <3>1 DEF RowInv
  <2>2. CASE w # v
    <3>1. visit'[w] = visit[w] /\ approvals'[w] = approvals[w] /\ RowInv(w)
      BY <1>6, <1>8, <2>2 DEF GateInv
    <3>2. QED
      BY <3>1 DEF RowInv
  <2>3. QED
    BY <2>1, <2>2
<1>9. \A e \in Desks : plan'[e] # NoPlan => PlanInv(plan[e])'
  <2>1. \A w \in Visits : /\ visit[w] # NoVisit =>
                               visit'[w] # NoVisit /\ visit'[w].area = visit[w].area
                          /\ approvals[w] \subseteq approvals'[w]
    BY <1>3, <1>5, <1>6
  <2>2. QED
    BY <1>1, <2>1 DEF GateInv, PlanInv, AboutVisit
<1>10. GateInv'
  BY <1>7, <1>8, <1>9 DEF GateInv
<1>11. QED
  BY <1>1, <1>3, <1>5, <1>6, <1>10

(* A desk drops its plan, or goes on after a step that is no write to a    *)
(* visit.                                                                  *)
Continues(d) ==
  \/ Fails(d)
  \/ /\ Head(plan[d].todo) \notin VisitStatuses \cup {"create"}
     /\ \E q \in Plan : /\ q.todo = plan[d].todo /\ q.seen = plan[d].seen
                        /\ q.area = plan[d].area /\ q.visit = plan[d].visit
                        /\ Proceeds(d, q)

(* What is left of its plan.                                               *)
LEMMA ContinuesFacts ==
  ASSUME GateInv, NEW d \in Desks, NEW p, p = plan[d], p # NoPlan, Continues(d)
  PROVE  /\ plan' \in [Desks -> Plan \cup {NoPlan}]
         /\ \A e \in Desks \ {d} : plan'[e] = plan[e]
         /\ plan'[d] # NoPlan =>
              /\ Head(p.todo) \notin VisitStatuses \cup {"create"} /\ Len(p.todo) # 1
              /\ plan'[d].area = p.area /\ plan'[d].visit = p.visit /\ plan'[d].seen = p.seen
              /\ plan'[d].todo = Tail(p.todo) /\ plan'[d].todo # <<>>
<1>1. VisitTypeOK /\ p \in Plan /\ p.todo # <<>>
  BY PlanOf DEF GateInv
<1>2. CASE Fails(d)
  BY <1>1, <1>2 DEF Fails, VisitTypeOK
<1>3. ASSUME Head(p.todo) \notin VisitStatuses \cup {"create"},
             NEW q \in Plan, q.todo = p.todo, q.seen = p.seen, q.area = p.area,
             q.visit = p.visit, Proceeds(d, q)
      PROVE  /\ plan' \in [Desks -> Plan \cup {NoPlan}]
             /\ \A e \in Desks \ {d} : plan'[e] = plan[e]
             /\ plan'[d] # NoPlan =>
                  /\ Len(p.todo) # 1
                  /\ plan'[d].area = p.area /\ plan'[d].visit = p.visit
                  /\ plan'[d].seen = p.seen
                  /\ plan'[d].todo = Tail(p.todo) /\ plan'[d].todo # <<>>
  BY <1>1, <1>3, ProceedsFacts
<1>4. QED
  BY <1>2, <1>3 DEF Continues

(* The gates are kept.                                                     *)
LEMMA ContinuesKeepsGates ==
  ASSUME GateInv, NEW d \in Desks, plan[d] # NoPlan, Continues(d),
         UNCHANGED <<approvals>>,
         \A v \in Visits : /\ visit[v] # NoVisit =>
                                /\ visit'[v] # NoVisit /\ visit'[v].area = visit[v].area
                                /\ visit'[v].status = visit[v].status
                                /\ visit'[v].gate = visit[v].gate
                           /\ visit[v] = NoVisit => visit'[v] = NoVisit,
         visit' \in [Visits -> VisitRow \cup {NoVisit}],
         area' \in [Areas -> AreaStatuses],
         intake' \in [Visits -> {"none", "CLUSTER_INTAKE", "SITE_VISIT"}],
         baOpen' \subseteq Visits, IsFiniteSet(baOpen')
  PROVE  GateInv'
<1>1. PICK p : p = plan[d]
  OBVIOUS
<1>2. VisitTypeOK /\ p # NoPlan /\ p \in Plan /\ p.todo # <<>> /\ PlanInv(p)
      /\ p.seen \in VisitStatuses
  BY <1>1, PlanOf DEF GateInv
<1>3. \A v \in Visits : /\ visit[v] # NoVisit =>
                             visit'[v] # NoVisit /\ visit'[v].area = visit[v].area
                        /\ approvals[v] \subseteq approvals'[v]
                        /\ visit'[v] # NoVisit => RowInv(v)'
  BY DEF GateInv, RowInv
<1>4. /\ plan' \in [Desks -> Plan \cup {NoPlan}]
      /\ \A e \in Desks \ {d} : plan'[e] = plan[e]
      /\ plan'[d] # NoPlan =>
           /\ Head(p.todo) \notin VisitStatuses \cup {"create"} /\ Len(p.todo) # 1
           /\ plan'[d].area = p.area /\ plan'[d].visit = p.visit /\ plan'[d].seen = p.seen
           /\ plan'[d].todo = Tail(p.todo) /\ plan'[d].todo # <<>>
  BY <1>1, <1>2, ContinuesFacts
<1>5. VisitTypeOK'
  BY <1>2, <1>4 DEF VisitTypeOK
<1>6. ASSUME plan'[d] # NoPlan PROVE PlanInv(plan[d])'
  <2>1. CASE p.seen = "DRAFT" /\ p.todo \in Claiming
    <3>1. Head(p.todo) = "checkActive" /\ Tail(p.todo) \in Claiming
      BY <1>4, <1>6, <2>1, TailsOf
    <3>2. QED
      BY <1>4, <1>6, <2>1, <3>1 DEF PlanInv
  <2>2. CASE AboutVisit(p)
    <3>1. Tail(p.todo) \in Left(p.seen)
      BY <1>2, <1>4, <1>6, <2>2, TodoFacts DEF AboutVisit
    <3>2. Resubmits(Tail(p.todo)) => Resubmits(p.todo)
      BY <1>2, <1>4, <1>6, <2>2, ResubmitsFromTheStart DEF AboutVisit
    <3>3. AboutVisit(plan[d])'
      BY <1>3, <1>4, <1>6, <2>2, <3>1, <3>2 DEF AboutVisit
    <3>4. QED
      BY <3>3 DEF PlanInv
  <2>3. QED
    BY <1>2, <2>1, <2>2 DEF PlanInv
<1>7. QED
  BY <1>3, <1>4, <1>5, <1>6, GateStep

(* What is written to a visit, with the gates it owes.                     *)
LEMMA WriteVisitFacts ==
  ASSUME GateInv, NEW d \in Desks, NEW p, p = plan[d], WriteVisit(d)
  PROVE  \E to, row, gates :
           /\ to = Head(p.todo) /\ to \in VisitStatuses /\ AboutVisit(p)
           /\ row \in VisitRow /\ row # NoVisit /\ row.area = p.area /\ row.status = to
           /\ row.gate => visit[p.visit].gate
           /\ visit' = [visit EXCEPT ![p.visit] = row]
           /\ gates = Granted(to)
           /\ approvals' = [approvals EXCEPT ![p.visit] = approvals[p.visit] \cup gates]
           /\ Owed(to) \subseteq approvals[p.visit] \cup gates
           /\ UNCHANGED <<area, intake, baOpen>>
<1> DEFINE to == Head(p.todo)
           v == p.visit
           row0 == [visit[v] EXCEPT !.status = to, !.gate = visit[v].gate /\ to # "DRAFT"]
           row == WithFiber(row0, p.fiber)
<1>1. /\ p # NoPlan /\ to \in VisitStatuses
      /\ visit' = [visit EXCEPT ![v] = row]
      /\ approvals' = [approvals EXCEPT ![v] = approvals[v] \cup Granted(to)]
      /\ UNCHANGED <<area, intake, baOpen>>
  <2>1. p # NoPlan /\ to \in VisitStatuses /\ UNCHANGED <<area, intake, baOpen>>
    BY DEF WriteVisit, Writing
  <2>2. visit' = [visit EXCEPT ![v] = row]
    BY DEF WriteVisit, MovedTo
  <2>3. approvals' = [approvals EXCEPT ![v] = approvals[v] \cup Granted(to)]
    BY DEF WriteVisit
  <2>4. QED
    BY <2>1, <2>2, <2>3
<1>2. to \notin {"checkActive", "create"}
  BY <1>1 DEF VisitStatuses
<1>3. AboutVisit(p) /\ visit[v] \in VisitRow
  BY <1>1, <1>2, AboutItsVisit
<1>4. p \in Plan /\ p.seen \in VisitStatuses /\ p.fiber \in {"none", "existing", "unknown"}
  BY <1>1, PlanOf DEF Plan
<1>5. row0 \in VisitRow /\ row0.area = visit[v].area /\ row0.status = to
      /\ (row0.gate => visit[v].gate)
  BY <1>1, <1>3 DEF VisitRow
<1> HIDE DEF row0
<1>6. row \in VisitRow /\ row.area = visit[v].area /\ row.status = to /\ (row.gate => visit[v].gate)
  BY <1>4, <1>5 DEF WithFiber, VisitRow
<1> HIDE DEF row
<1>7. row # NoVisit
  BY <1>6, VisitAssumption
<1>8. Owed(to) \subseteq approvals[v] \cup Granted(to)
  <2>1. p.todo \in Left(p.seen) /\ Owed(p.seen) \subseteq approvals[v]
        /\ (Resubmits(p.todo) => "visit" \in approvals[v])
    BY <1>3 DEF AboutVisit
  <2>2. CASE to \in {"PM_REVIEW_VISIT", "DRAFT", "REJECTED"}
    BY <2>2 DEF Owed, Approved
  <2>3. CASE to = "PM_REVIEW_SURVEY"
    <3>1. p.todo[1] = to
      BY <1>4, <2>1, TodoFacts
    <3>2. QED
      BY <2>1, <2>3, <3>1 DEF Resubmits, Owed, Approved
  <2>4. CASE to = "ADMIN_REVIEW"
    <3>1. p.seen = "PM_REVIEW_SURVEY"
      BY <1>1, <1>4, <2>1, <2>4, NextSteps, TailsOf DEF Approved
    <3>2. QED
      BY <2>1, <2>4, <3>1 DEF Owed, Granted, Approved
  <2>5. CASE to \in Approved
    <3>1. p.seen = "ADMIN_REVIEW"
      BY <1>1, <1>4, <2>1, <2>5, NextSteps DEF Approved
    <3>2. QED
      BY <2>1, <2>5, <3>1 DEF Owed, Granted, Approved
  <2>6. CASE to = "APPROVED_PENDING_DATA"
    BY <1>1, <1>4, <2>1, <2>6, NextSteps, TailsOf DEF Approved
  <2>7. QED
    BY <1>1, <2>2, <2>3, <2>4, <2>5, <2>6 DEF VisitStatuses, Approved
<1>9. row.area = p.area
  BY <1>3, <1>6 DEF AboutVisit
<1>10. QED
  BY <1>1, <1>3, <1>6, <1>7, <1>8, <1>9

(* A write to a visit gives it the gates its new status owes.              *)
LEMMA WriteVisitKeepsGates ==
  ASSUME GateInv, NEW d \in Desks, WriteVisit(d)
  PROVE  GateInv'
<1>1. PICK p : p = plan[d]
  OBVIOUS
<1>2. PICK to, row, gates :
        /\ to = Head(p.todo) /\ to \in VisitStatuses /\ AboutVisit(p)
        /\ row \in VisitRow /\ row # NoVisit /\ row.area = p.area /\ row.status = to
        /\ row.gate => visit[p.visit].gate
        /\ visit' = [visit EXCEPT ![p.visit] = row]
        /\ gates = Granted(to)
        /\ approvals' = [approvals EXCEPT ![p.visit] = approvals[p.visit] \cup gates]
        /\ Owed(to) \subseteq approvals[p.visit] \cup gates
        /\ UNCHANGED <<area, intake, baOpen>>
  BY <1>1, WriteVisitFacts
<1>3. p # NoPlan
  BY <1>1 DEF WriteVisit, Writing
<1>4. VisitTypeOK /\ p \in Plan /\ p.todo # <<>> /\ p.seen \in VisitStatuses /\ p.todo \in Left(p.seen)
  BY <1>1, <1>2, <1>3, PlanOf DEF GateInv, AboutVisit
<1>5. p.visit \in Visits /\ visit[p.visit] # NoVisit /\ visit[p.visit].area = p.area
  BY <1>2 DEF AboutVisit
<1>6. gates \subseteq {"visit", "survey", "admin"}
  BY <1>2 DEF Granted
<1>7. /\ visit'[p.visit] = row /\ approvals'[p.visit] = approvals[p.visit] \cup gates
      /\ \A v \in Visits \ {p.visit} : visit'[v] = visit[v] /\ approvals'[v] = approvals[v]
  BY <1>2, <1>4, <1>5 DEF VisitTypeOK
<1>8. PICK q : q = [p EXCEPT !.seen = to]
  OBVIOUS
<1>9. q \in Plan /\ q.todo = p.todo /\ q.seen = to /\ q.area = p.area /\ q.visit = p.visit
  BY <1>2, <1>4, <1>8 DEF Plan
<1>10. Proceeds(d, q)
  BY <1>1, <1>2, <1>8 DEF WriteVisit
<1>11. /\ plan' \in [Desks -> Plan \cup {NoPlan}]
       /\ \A e \in Desks \ {d} : plan'[e] = plan[e]
       /\ Len(q.todo) = 1 => plan'[d] = NoPlan
       /\ Len(q.todo) # 1 =>
            /\ plan'[d] \in Plan /\ plan'[d] # NoPlan
            /\ plan'[d].area = q.area /\ plan'[d].visit = q.visit /\ plan'[d].seen = q.seen
            /\ plan'[d].todo = Tail(q.todo) /\ plan'[d].todo # <<>>
  BY <1>4, <1>9, <1>10, ProceedsFacts
<1>12. VisitTypeOK'
  <2>1. visit' \in [Visits -> VisitRow \cup {NoVisit}]
    BY <1>2, <1>4 DEF VisitTypeOK
  <2>2. approvals' \in [Visits -> SUBSET {"visit", "survey", "admin"}]
    BY <1>2, <1>4, <1>6 DEF VisitTypeOK
  <2>3. \A e \in Desks : plan'[e] # NoPlan => plan'[e].todo # <<>>
    BY <1>4, <1>11 DEF VisitTypeOK
  <2>4. QED
    BY <1>2, <1>4, <1>11, <2>1, <2>2, <2>3 DEF VisitTypeOK
<1>13. ASSUME NEW v \in Visits
       PROVE  /\ visit[v] # NoVisit => visit'[v] # NoVisit /\ visit'[v].area = visit[v].area
              /\ approvals[v] \subseteq approvals'[v]
              /\ visit'[v] # NoVisit => RowInv(v)'
  <2>1. CASE v = p.visit
    <3>1. RowInv(v)
      BY <1>5, <2>1 DEF GateInv
    <3>2. RowInv(v)'
      BY <1>2, <1>7, <2>1, <3>1 DEF RowInv
    <3>3. QED
      BY <1>2, <1>5, <1>7, <2>1, <3>2
  <2>2. CASE v # p.visit
    <3>1. visit'[v] = visit[v] /\ approvals'[v] = approvals[v]
      BY <1>7, <2>2
    <3>2. visit[v] # NoVisit => RowInv(v)
      BY DEF GateInv
    <3>3. QED
      BY <3>1, <3>2 DEF RowInv
  <2>3. QED
    BY <2>1, <2>2
<1>14. ASSUME plan'[d] # NoPlan PROVE PlanInv(plan[d])'
  <2>1. /\ Len(p.todo) # 1 /\ plan'[d].area = p.area /\ plan'[d].visit = p.visit
        /\ plan'[d].seen = to /\ plan'[d].todo = Tail(p.todo)
    BY <1>9, <1>11, <1>14
  <2>2. Tail(p.todo) \in Left(to)
    BY <1>2, <1>4, <2>1, TodoFacts
  <2>3. Resubmits(Tail(p.todo)) => "visit" \in approvals[p.visit]
    BY <1>2, <1>4, <2>1, ResubmitsFromTheStart DEF AboutVisit
  <2>4. AboutVisit(plan[d])'
    BY <1>2, <1>5, <1>7, <2>1, <2>2, <2>3 DEF AboutVisit
  <2>5. QED
    BY <2>4 DEF PlanInv
<1>15. QED
  BY <1>11, <1>12, <1>13, <1>14, GateStep

(* A desk makes the visit v, with this row, as it had planned.             *)
MakesVisit(d, p, v, row) ==
  /\ visit[v] = NoVisit /\ row # NoVisit /\ row.area = p.area /\ row.status = "DRAFT"
  /\ row.gate = FALSE /\ visit' = [visit EXCEPT ![v] = row]
  /\ p.todo \in Claiming /\ p \in Plan /\ p # NoPlan
  /\ plan'[d] \in Plan /\ plan'[d] # NoPlan
  /\ plan'[d].area = p.area /\ plan'[d].visit = v /\ plan'[d].seen = "DRAFT"
  /\ plan'[d].todo \in Created /\ plan'[d].todo # <<>>
  /\ \A e \in Desks \ {d} : plan'[e] = plan[e]
  /\ plan' \in [Desks -> Plan \cup {NoPlan}]
  /\ UNCHANGED <<area, intake, baOpen, approvals>>

(* The visit that a claim comes to, made for its area.                     *)
LEMMA CreateVisitFacts ==
  ASSUME GateInv, NEW d \in Desks, NEW p, p = plan[d], CreateVisit(d)
  PROVE  \E v \in Visits, row \in VisitRow : MakesVisit(d, p, v, row)
<1>1. /\ p # NoPlan /\ Head(p.todo) = "create" /\ VisitTypeOK
      /\ UNCHANGED <<area, intake, baOpen, approvals>>
  BY DEF CreateVisit, Writing, GateInv
<1>2. p \in Plan /\ p.todo # <<>> /\ p.seen \in VisitStatuses /\ PlanInv(p) /\ p.area \in Areas
  BY <1>1, PlanOf
<1>3. p.seen = "DRAFT" /\ p.todo \in Claiming
  BY <1>1, <1>2, TodoFacts DEF PlanInv, AboutVisit
<1>4. Tail(p.todo) \in Created /\ Len(p.todo) # 1
  BY <1>1, <1>3, TailsOf
<1>5. PICK v \in Visits : /\ visit[v] = NoVisit /\ visit' = [visit EXCEPT ![v] = NewVisit(p.area)]
                          /\ Proceeds(d, [p EXCEPT !.visit = v])
  BY DEF CreateVisit
<1>6. PICK row : row = NewVisit(p.area)
  OBVIOUS
<1>7. row \in VisitRow /\ row.area = p.area /\ row.status = "DRAFT" /\ row.gate = FALSE
  BY <1>2, <1>6 DEF NewVisit, VisitRow, VisitStatuses
<1>8. row # NoVisit
  BY <1>7, VisitAssumption
<1>9. PICK q : q = [p EXCEPT !.visit = v]
  OBVIOUS
<1>10. q \in Plan /\ q.todo = p.todo /\ q.seen = p.seen /\ q.area = p.area /\ q.visit = v
  BY <1>2, <1>9 DEF Plan
<1>11. /\ plan' \in [Desks -> Plan \cup {NoPlan}]
       /\ \A e \in Desks \ {d} : plan'[e] = plan[e]
       /\ Len(q.todo) # 1 =>
            /\ plan'[d] \in Plan /\ plan'[d] # NoPlan
            /\ plan'[d].area = q.area /\ plan'[d].visit = q.visit /\ plan'[d].seen = q.seen
            /\ plan'[d].todo = Tail(q.todo) /\ plan'[d].todo # <<>>
  BY <1>1, <1>2, <1>5, <1>9, <1>10, ProceedsFacts
<1>12. QED
  <2>1. MakesVisit(d, p, v, row)
    BY <1>1, <1>2, <1>3, <1>4, <1>5, <1>6, <1>7, <1>8, <1>10, <1>11 DEF MakesVisit
  <2>2. QED
    BY <1>7, <2>1

(* A visit is made.                                                        *)
LEMMA CreateVisitKeepsGates ==
  ASSUME GateInv, NEW d \in Desks, CreateVisit(d)
  PROVE  GateInv'
<1>1. PICK p : p = plan[d]
  OBVIOUS
<1>0. PICK v \in Visits, row \in VisitRow : MakesVisit(d, p, v, row)
  BY <1>1, CreateVisitFacts
<1>2. /\ visit[v] = NoVisit /\ row # NoVisit /\ row.area = p.area /\ row.status = "DRAFT"
      /\ row.gate = FALSE /\ visit' = [visit EXCEPT ![v] = row]
      /\ p.todo \in Claiming /\ p \in Plan /\ p # NoPlan
      /\ plan'[d] \in Plan /\ plan'[d] # NoPlan
      /\ plan'[d].area = p.area /\ plan'[d].visit = v /\ plan'[d].seen = "DRAFT"
      /\ plan'[d].todo \in Created /\ plan'[d].todo # <<>>
      /\ \A e \in Desks \ {d} : plan'[e] = plan[e]
      /\ plan' \in [Desks -> Plan \cup {NoPlan}]
      /\ UNCHANGED <<area, intake, baOpen, approvals>>
  BY <1>0 DEF MakesVisit
<1>3. VisitTypeOK
  BY DEF GateInv
<1>4. visit'[v] = row /\ \A w \in Visits \ {v} : visit'[w] = visit[w]
  BY <1>2, <1>3 DEF VisitTypeOK
<1>5. VisitTypeOK'
  <2>1. visit' \in [Visits -> VisitRow \cup {NoVisit}]
    BY <1>2, <1>3 DEF VisitTypeOK
  <2>2. \A e \in Desks : plan'[e] # NoPlan => plan'[e].todo # <<>>
    BY <1>2, <1>3 DEF VisitTypeOK
  <2>3. QED
    BY <1>2, <1>3, <2>1, <2>2 DEF VisitTypeOK
<1>6. RowInv(v)'
  BY <1>2, <1>4 DEF RowInv, Owed, Approved
<1>7. \A w \in Visits : /\ visit[w] # NoVisit =>
                             visit'[w] # NoVisit /\ visit'[w].area = visit[w].area
                        /\ approvals[w] \subseteq approvals'[w]
                        /\ visit'[w] # NoVisit => RowInv(w)'
  BY <1>2, <1>4, <1>6 DEF GateInv, RowInv
<1>8. AboutVisit(plan[d])'
  <2>1. plan'[d].todo \in Left("DRAFT") /\ ~Resubmits(plan'[d].todo)
    <3>1. \A t \in Created : t \in Left("DRAFT") /\ ~Resubmits(t)
      BY DEF Left, Created, Resubmits
    <3>2. QED
      BY <1>2, <3>1
  <2>2. Owed("DRAFT") = {}
    BY DEF Owed, Approved
  <2>3. QED
    BY <1>2, <1>4, <2>1, <2>2 DEF AboutVisit
<1>9. QED
  BY <1>2, <1>5, <1>7, <1>8, GateStep DEF PlanInv

(* The handlers' other steps.                                              *)
OtherStep(d) ==
  \/ WritePatch(d) \/ WriteArea(d) \/ CheckActive(d) \/ InitCluster(d)
  \/ CountBaOpens(d) \/ CreateBaOpen(d) \/ CreateFromBaOpen(d) \/ GiveUp(d)

(* A handler goes on by them, or fails.                                    *)
LEMMA OtherStepsContinue ==
  ASSUME GateInv, NEW d \in Desks, OtherStep(d)
  PROVE  plan[d] # NoPlan /\ Continues(d) /\ UNCHANGED approvals
<1>1. plan[d] # NoPlan
  BY DEF OtherStep, WritePatch, WriteArea, CheckActive, InitCluster, CountBaOpens,
         CreateBaOpen, CreateFromBaOpen, GiveUp, Writing
<1>2. PICK p : p = plan[d]
  OBVIOUS
<1>3. p \in Plan /\ IsFiniteSet(baOpen)
  BY <1>1, <1>2, PlanOf DEF GateInv, VisitTypeOK
<1>4. ASSUME Writing(d, {"patch", "checkActive", "initCluster", "countBaOpens",
                         "createBaOpen", "createFromBaOpen"} \cup AreaStatuses)
      PROVE  Head(p.todo) \notin VisitStatuses \cup {"create"}
  BY <1>2, <1>4 DEF Writing, VisitStatuses, AreaStatuses
<1>5. CASE CountBaOpens(d)
  <2>1. PICK q : q = [p EXCEPT !.count = Cardinality(baOpen)]
    OBVIOUS
  <2>2. q \in Plan /\ q.todo = p.todo /\ q.seen = p.seen /\ q.area = p.area
        /\ q.visit = p.visit
    BY <1>3, <2>1, FS_CardinalityType DEF Plan
  <2>3. Proceeds(d, q) /\ UNCHANGED approvals
    BY <1>2, <1>5, <2>1 DEF CountBaOpens
  <2>4. Head(p.todo) \notin VisitStatuses \cup {"create"}
    BY <1>4, <1>5 DEF CountBaOpens, Writing
  <2>5. QED
    BY <1>1, <1>2, <2>2, <2>3, <2>4 DEF Continues
<1>6. CASE GiveUp(d)
  BY <1>1, <1>6 DEF GiveUp, Continues
<1>7. CASE WritePatch(d) \/ WriteArea(d) \/ CheckActive(d) \/ InitCluster(d) \/ CreateBaOpen(d)
           \/ CreateFromBaOpen(d)
  <2>1. Fails(d) \/ Proceeds(d, p)
    BY <1>2, <1>7 DEF WritePatch, WriteArea, CheckActive, InitCluster, CreateBaOpen,
                      CreateFromBaOpen
  <2>2. UNCHANGED approvals
    BY <1>7 DEF WritePatch, WriteArea, CheckActive, InitCluster, CreateBaOpen, CreateFromBaOpen
  <2>3. Head(p.todo) \notin VisitStatuses \cup {"create"}
    BY <1>4, <1>7 DEF WritePatch, WriteArea, CheckActive, InitCluster, CreateBaOpen,
                      CreateFromBaOpen, Writing
  <2>4. QED
    BY <1>1, <1>2, <1>3, <2>1, <2>2, <2>3 DEF Continues
<1>8. QED
  BY <1>5, <1>6, <1>7 DEF OtherStep

(* They leave the visits' statuses and gates as they are.                  *)
LEMMA OtherStepsKeepVisits ==
  ASSUME GateInv, NEW d \in Desks, OtherStep(d)
  PROVE  /\ visit' \in [Visits -> VisitRow \cup {NoVisit}]
         /\ \A v \in Visits : /\ visit[v] # NoVisit =>
                                   /\ visit'[v] # NoVisit /\ visit'[v].area = visit[v].area
                                   /\ visit'[v].status = visit[v].status
                                   /\ visit'[v].gate = visit[v].gate
                              /\ visit[v] = NoVisit => visit'[v] = NoVisit
<1>1. VisitTypeOK
  BY DEF GateInv
<1>2. CASE WritePatch(d)
  <2>1. PICK p : p = plan[d]
    OBVIOUS
  <2>2. p # NoPlan /\ Head(p.todo) = "patch"
    BY <1>2, <2>1 DEF WritePatch, Writing
  <2>3. visit[p.visit] \in VisitRow /\ p.visit \in Visits /\ p \in Plan
    BY <2>1, <2>2, AboutItsVisit, PlanOf DEF AboutVisit
  <2>4. PICK row : row = WithFiber(visit[p.visit], p.fiber)
    OBVIOUS
  <2>5. row \in VisitRow /\ row.area = visit[p.visit].area /\ row.gate = visit[p.visit].gate
        /\ row.status = visit[p.visit].status
    BY <2>3, <2>4 DEF WithFiber, VisitRow, Plan
  <2>6. visit' = [visit EXCEPT ![p.visit] = row]
    BY <1>2, <2>1, <2>4 DEF WritePatch
  <2>7. row # NoVisit
    BY <2>5, VisitAssumption
  <2>8. QED
    BY <1>1, <2>3, <2>5, <2>6, <2>7, VisitAssumption DEF VisitTypeOK
<1>3. CASE ~WritePatch(d)
  <2>1. UNCHANGED visit
    BY <1>3 DEF OtherStep, WriteArea, CheckActive, InitCluster, CountBaOpens, CreateBaOpen,
                CreateFromBaOpen, GiveUp
  <2>2. QED
    BY <1>1, <2>1 DEF VisitTypeOK
<1>4. QED
  BY <1>2, <1>3

(* And the gates.                                                          *)
LEMMA OtherStepsKeepGates ==
  ASSUME GateInv, NEW d \in Desks, OtherStep(d)
  PROVE  GateInv'
<1>1. PICK p : p = plan[d]
  OBVIOUS
<1>2. VisitTypeOK /\ p # NoPlan /\ p \in Plan /\ p.area \in Areas
  BY <1>1, OtherStepsContinue, PlanOf DEF GateInv
<1>3. Head(p.todo) \notin {"checkActive", "create"} => p.visit \in Visits
  BY <1>1, <1>2, AboutItsVisit DEF AboutVisit
<1>4. area' \in [Areas -> AreaStatuses]
  <2>1. CASE WriteArea(d)
    <3>1. Head(p.todo) \in AreaStatuses /\ area' = [area EXCEPT ![p.area] = Head(p.todo)]
      BY <1>1, <2>1 DEF WriteArea, Writing
    <3>2. QED
      BY <1>2, <3>1 DEF VisitTypeOK
  <2>2. CASE ~WriteArea(d)
    <3>1. UNCHANGED area
      BY <2>2 DEF OtherStep, WritePatch, CheckActive, InitCluster, CountBaOpens,
                  CreateBaOpen, CreateFromBaOpen, GiveUp
    <3>2. QED
      BY <1>2, <3>1 DEF VisitTypeOK
  <2>3. QED
    BY <2>1, <2>2
<1>5. intake' \in [Visits -> {"none", "CLUSTER_INTAKE", "SITE_VISIT"}]
  <2>1. \/ UNCHANGED intake
        \/ intake' = [intake EXCEPT ![p.visit] = "CLUSTER_INTAKE"]
        \/ intake' = [intake EXCEPT ![p.visit] = "SITE_VISIT"]
    BY <1>1 DEF OtherStep, WritePatch, WriteArea, CheckActive, InitCluster, CountBaOpens,
                CreateBaOpen, CreateFromBaOpen, GiveUp
  <2>2. QED
    BY <1>2, <2>1 DEF VisitTypeOK
<1>6. baOpen' \subseteq Visits /\ IsFiniteSet(baOpen')
  <2>1. \/ UNCHANGED baOpen
        \/ Head(p.todo) = "createBaOpen" /\ baOpen' = baOpen \cup {p.visit}
    BY <1>1 DEF OtherStep, WritePatch, WriteArea, CheckActive, InitCluster, CountBaOpens,
                CreateBaOpen, CreateFromBaOpen, GiveUp, Writing
  <2>2. IsFiniteSet(baOpen) /\ baOpen \subseteq Visits
    BY <1>2 DEF VisitTypeOK
  <2>3. IsFiniteSet(baOpen \cup {p.visit})
    BY <2>2, FS_AddElement
  <2>4. QED
    BY <1>3, <2>1, <2>2, <2>3
<1>7. QED
  BY <1>1, <1>2, <1>4, <1>5, <1>6, OtherStepsContinue, OtherStepsKeepVisits, ContinuesKeepsGates

(* What a step may be.                                                     *)
LEMMA VisitStepKinds ==
  ASSUME VisitNext
  PROVE  \/ \E v \in Visits : PmVisitApprove(v)
         \/ \E a \in Areas : MarkExistingFiber(a)
         \/ \E d \in Desks, a \in Areas : Create(d, a)
         \/ \E d \in Desks, v \in Visits : Starts(d, v)
         \/ \E d \in Desks : WriteVisit(d) \/ CreateVisit(d) \/ OtherStep(d)
  BY DEF VisitNext, Starts, OtherStep

(* Whatever the handlers' races, what a visit's status owes was passed.    *)
THEOREM VisitGates == VisitSpec => []GateInv
<1>1. VisitInit => GateInv
  <2> SUFFICES ASSUME VisitInit PROVE GateInv
    OBVIOUS
  <2>1. VisitTypeOK
    BY FS_EmptySet DEF VisitInit, VisitTypeOK, AreaStatuses
  <2>2. QED
    BY <2>1 DEF VisitInit, GateInv
<1>2. GateInv /\ [VisitNext]_visitVars => GateInv'
  <2> SUFFICES ASSUME GateInv, [VisitNext]_visitVars PROVE GateInv'
    OBVIOUS
  <2>1. CASE UNCHANGED visitVars
    BY <2>1 DEF visitVars, GateInv, VisitTypeOK, RowInv, PlanInv, AboutVisit
  <2>2. ASSUME NEW v \in Visits, PmVisitApprove(v) PROVE GateInv'
    BY <2>2, PmVisitApproveKeepsGates
  <2>3. ASSUME NEW a \in Areas, MarkExistingFiber(a) PROVE GateInv'
    <3>1. VisitTypeOK'
      BY <2>3 DEF GateInv, VisitTypeOK, MarkExistingFiber, AreaStatuses
    <3>2. QED
      BY <2>3, <3>1 DEF MarkExistingFiber, GateInv, RowInv, PlanInv, AboutVisit
  <2>4. ASSUME NEW d \in Desks, NEW a \in Areas, Create(d, a) PROVE GateInv'
    BY <2>4, CreateKeepsGates
  <2>5. ASSUME NEW d \in Desks, NEW v \in Visits, Starts(d, v) PROVE GateInv'
    BY <2>5, StartsFirst, PlansKeepGates
  <2>6. ASSUME NEW d \in Desks, WriteVisit(d) \/ CreateVisit(d) \/ OtherStep(d) PROVE GateInv'
    BY <2>6, WriteVisitKeepsGates, CreateVisitKeepsGates, OtherStepsKeepGates
  <2>7. QED
    BY <2>1, <2>2, <2>3, <2>4, <2>5, <2>6, VisitStepKinds
<1>3. QED
  BY <1>1, <1>2, PTL DEF VisitSpec

(* A step of the visits passes a gate, issues a BA Open, or does neither.  *)
LEMMA VisitStepsPassTheGates ==
  ASSUME GateInv, [VisitNext]_visitVars
  PROVE  [Gate!GateNext]_(Gate!gateVars)
<1>1. CASE UNCHANGED <<approvals, baOpen>>
  BY <1>1 DEF Gate!gateVars
<1>2. ASSUME NEW v \in Visits, PmVisitApprove(v) PROVE Gate!Pass(v, "visit")
  BY <1>2 DEF PmVisitApprove, Gate!Pass, Gate!Before
<1>3. ASSUME NEW d \in Desks, WriteVisit(d)
      PROVE  UNCHANGED <<approvals, baOpen>> \/ \E v \in Visits, g \in Gate!Gates : Gate!Pass(v, g)
  <2>1. PICK p : p = plan[d]
    OBVIOUS
  <2>2. PICK to, row, gates :
          /\ to = Head(p.todo) /\ to \in VisitStatuses /\ AboutVisit(p)
          /\ row \in VisitRow /\ row # NoVisit /\ row.area = p.area /\ row.status = to
          /\ row.gate => visit[p.visit].gate
          /\ visit' = [visit EXCEPT ![p.visit] = row]
          /\ gates = Granted(to)
          /\ approvals' = [approvals EXCEPT ![p.visit] = approvals[p.visit] \cup gates]
          /\ Owed(to) \subseteq approvals[p.visit] \cup gates
          /\ UNCHANGED <<area, intake, baOpen>>
    BY <1>3, <2>1, WriteVisitFacts
  <2>3. p.visit \in Visits /\ approvals \in [Visits -> SUBSET {"visit", "survey", "admin"}]
    BY <2>2 DEF AboutVisit, GateInv, VisitTypeOK
  <2>4. CASE gates = {}
    <3>1. approvals' = approvals
      BY <2>2, <2>3, <2>4
    <3>2. QED
      BY <2>2, <3>1
  <2>5. CASE to = "ADMIN_REVIEW"
    <3>1. gates = {"survey"} /\ "visit" \in approvals[p.visit]
      BY <2>2, <2>5 DEF Granted, Owed, Approved
    <3>2. Gate!Pass(p.visit, "survey")
      BY <2>2, <2>3, <3>1 DEF Gate!Pass, Gate!Before
    <3>3. QED
      BY <2>3, <3>2 DEF Gate!Gates
  <2>6. CASE to \in Approved
    <3>1. gates = {"admin"} /\ {"visit", "survey"} \subseteq approvals[p.visit]
      BY <2>2, <2>6 DEF Granted, Owed, Approved
    <3>2. Gate!Pass(p.visit, "admin")
      BY <2>2, <2>3, <3>1 DEF Gate!Pass, Gate!Before
    <3>3. QED
      BY <2>3, <3>2 DEF Gate!Gates
  <2>7. QED
    BY <2>2, <2>4, <2>5, <2>6 DEF Granted
<1>4. ASSUME NEW d \in Desks, CreateBaOpen(d)
      PROVE  UNCHANGED <<approvals, baOpen>> \/ \E v \in Visits : Gate!Issue(v)
  <2>1. PICK p : p = plan[d]
    OBVIOUS
  <2>2. p # NoPlan /\ Head(p.todo) = "createBaOpen" /\ UNCHANGED approvals
    BY <1>4, <2>1 DEF CreateBaOpen, Writing
  <2>3. AboutVisit(p) /\ p.seen \in VisitStatuses
    BY <2>1, <2>2, AboutItsVisit, PlanOf
  <2>4. p.seen \in Approved
    BY <2>2, <2>3, NextSteps DEF AboutVisit
  <2>5. p.visit \in Visits /\ approvals[p.visit] = {"visit", "survey", "admin"}
    BY <2>3, <2>4 DEF AboutVisit, Owed, Approved, GateInv, VisitTypeOK
  <2>6. CASE UNCHANGED baOpen
    BY <2>2, <2>6
  <2>7. CASE baOpen' = baOpen \cup {p.visit} /\ p.visit \notin baOpen
    BY <2>2, <2>5, <2>7 DEF Gate!Issue, Gate!Gates
  <2>8. QED
    BY <1>4, <2>1, <2>6, <2>7 DEF CreateBaOpen
<1>5. CASE UNCHANGED visitVars
  BY <1>1, <1>5 DEF visitVars
<1>6. ASSUME NEW a \in Areas, MarkExistingFiber(a) PROVE UNCHANGED <<approvals, baOpen>>
  BY <1>6 DEF MarkExistingFiber
<1>7. ASSUME NEW d \in Desks, NEW a \in Areas, Create(d, a) PROVE UNCHANGED <<approvals, baOpen>>
  BY <1>7 DEF Create
<1>8. ASSUME NEW d \in Desks, NEW v \in Visits, Starts(d, v) PROVE UNCHANGED <<approvals, baOpen>>
  BY <1>8, StartsFirst, PlansKeepGates
<1>9. ASSUME NEW d \in Desks, CreateVisit(d) PROVE UNCHANGED <<approvals, baOpen>>
  BY <1>9 DEF CreateVisit
<1>10. ASSUME NEW d \in Desks, OtherStep(d), ~CreateBaOpen(d)
       PROVE  UNCHANGED <<approvals, baOpen>>
  BY <1>10 DEF OtherStep, WritePatch, WriteArea, CheckActive, InitCluster, CountBaOpens,
              CreateFromBaOpen, GiveUp
<1>11. CASE VisitNext
  BY <1>1, <1>2, <1>3, <1>4, <1>6, <1>7, <1>8, <1>9, <1>10, <1>11, VisitStepKinds
     DEF Gate!GateNext, Gate!Gates
<1>12. QED
  BY <1>5, <1>1, <1>11

(* VisitRequestService implements the gate: a BA Open is issued once per   *)
(* visit, and only to a visit whose schedule, survey and file were         *)
(* approved, in this order, whatever handlers race or stop half-way.       *)
THEOREM VisitsImplementTheGate == VisitSpec => VisitsPassTheGates
<1>1. VisitInit => Gate!GateInit
  BY DEF VisitInit, Gate!GateInit
<1>2. GateInv /\ [VisitNext]_visitVars => [Gate!GateNext]_(Gate!gateVars)
  BY VisitStepsPassTheGates
<1>3. QED
  BY <1>1, <1>2, VisitGates, PTL DEF VisitSpec, VisitsPassTheGates, Gate!GateSpec

-----------------------------------------------------------------------------
(* The area of the visits.                                                 *)

(* The kinds of plans are told apart.                                      *)
LEMMA KindsOfTodos ==
  /\ \A t \in Claiming \cup Regenerating \cup Reclaiming \cup Rejecting \cup Approving
              \cup { <<"patch">> } :
       t \notin Created \cup Completing \cup Reclaimed \cup { <<"AVAILABLE">> }
  /\ \A t \in Reclaimed \cup { <<"DRAFT">>, <<"ADMIN_REVIEW">> } :
       t \notin Created \cup Completing \cup { <<"AVAILABLE">> } /\ Len(t) = 1
  /\ \A t \in Created \cup Completing \cup Reclaimed \cup { <<"AVAILABLE">> } : t \notin Claiming
  /\ \A t \in Created \cup Completing : t \notin Reclaimed \cup { <<"AVAILABLE">> }
  /\ \A t \in Created : t \notin Completing
  /\ <<"AVAILABLE">> \notin Reclaimed
<1> USE DEF Claiming, Regenerating, Reclaiming, Rejecting, Approving, Created, Completing, Reclaimed
<1> DEFINE Mid == Created \cup Completing \cup Reclaimed \cup { <<"AVAILABLE">> }
<1>1. \A t \in Claiming : t \notin Mid
  OBVIOUS
<1>2. \A t \in Regenerating : t \notin Mid
  OBVIOUS
<1>3. \A t \in Reclaiming \cup Rejecting \cup { <<"patch">> } : t \notin Mid
  OBVIOUS
<1>4. \A t \in Approving : t \notin Mid
  OBVIOUS
<1>5. \A t \in Created \cup Completing : t \notin Reclaimed \cup { <<"AVAILABLE">> }
  OBVIOUS
<1>6. \A t \in Created : t \notin Completing
  OBVIOUS
<1>7. <<"AVAILABLE">> \notin Reclaimed
  OBVIOUS
<1>8. \A t \in Reclaimed \cup { <<"DRAFT">>, <<"ADMIN_REVIEW">> } :
        t \notin Created \cup Completing \cup { <<"AVAILABLE">> } /\ Len(t) = 1
  OBVIOUS
<1>9. QED
  BY <1>1, <1>2, <1>3, <1>4, <1>5, <1>6, <1>7, <1>8

(* Where nothing happens to an area but that its handlers get on.          *)
LEMMA AreaKept ==
  ASSUME GateInv, NEW a \in Areas, AreaInv(a),
         Live(a)' = Live(a), Closed(a)' = Closed(a), area'[a] = area[a],
         baOpen \subseteq baOpen',
         \A v \in Visits : intake[v] = "SITE_VISIT" => intake'[v] = "SITE_VISIT",
         \A d \in Desks : MidOn(d, a)' <=> MidOn(d, a),
         \A d \in Desks : MidOn(d, a) => plan'[d] = plan[d] \/ MidInv(plan[d])',
         \A d \in Desks : ClaimsOn(d, a)' => ClaimsOn(d, a) \/ area[a] = "AVAILABLE"
  PROVE  AreaInv(a)'
<1>1. ASSUME NEW d \in Desks, MidOn(d, a) PROVE MidInv(plan[d])'
  <2>1. CASE plan'[d] = plan[d]
    <3>1. PICK p : p = plan[d]
      OBVIOUS
    <3>2. p # NoPlan /\ p.area = a /\ MidInv(p) /\ p = plan'[d]
      BY <1>1, <2>1, <3>1 DEF MidOn, PlanOn, AreaInv
    <3>3. ASSUME p.todo = <<"COMPLETED">> PROVE p.visit \in Visits
      <4>1. Head(p.todo) = "COMPLETED"
        BY <3>3
      <4>2. QED
        BY <3>1, <3>2, <4>1, AboutItsVisit DEF AboutVisit
    <3>4. area[a] = "IN_PROGRESS" /\ (\A e \in Desks : ~ClaimsOn(e, a)) =>
            \A e \in Desks : ~ClaimsOn(e, a)'
      OBVIOUS
    <3>5. QED
      BY <3>2, <3>3, <3>4 DEF MidInv
  <2>2. QED
    BY <1>1, <2>1
<1>2. (\A d \in Desks : ~MidOn(d, a)') => Settled(a)'
  <2>1. Closed(a) \subseteq Visits
    BY DEF Closed, Of
  <2>2. QED
    BY <2>1 DEF AreaInv, Settled
<1>3. /\ \A v, w \in Live(a)' : v = w
      /\ \A d, e \in Desks : MidOn(d, a)' /\ MidOn(e, a)' => d = e
  BY DEF AreaInv
<1>4. QED
  BY <1>1, <1>2, <1>3 DEF AreaInv

(* A step after which no handler is about the area, or only one is.        *)
LEMMA AreaLeftTo ==
  ASSUME NEW a \in Areas, NEW d \in Desks,
         \A v, w \in Live(a)' : v = w,
         \A e \in Desks \ {d} : ~MidOn(e, a)',
         MidOn(d, a)' => MidInv(plan[d])',
         ~MidOn(d, a)' => Settled(a)'
  PROVE  AreaInv(a)'
  BY DEF AreaInv

(* The approval of a schedule leaves every area as it is.                  *)
LEMMA PmVisitApproveKeepsAreas ==
  ASSUME GateInv, NEW a \in Areas, AreaInv(a), NEW v \in Visits, PmVisitApprove(v)
  PROVE  AreaInv(a)'
<1>1. /\ visit[v] # NoVisit /\ visit[v].status = "PM_REVIEW_VISIT"
      /\ visit'[v] # NoVisit /\ visit'[v].area = visit[v].area
      /\ visit'[v].status = "APPROVED_PENDING_DATA"
      /\ \A w \in Visits \ {v} : visit'[w] = visit[w]
  BY PmVisitApproveKeepsGates
<1>2. UNCHANGED <<area, intake, baOpen, plan>>
  BY DEF PmVisitApprove
<1>3. Live(a)' = Live(a) /\ Closed(a)' = Closed(a)
  BY <1>1 DEF Live, Closed, Of, Approved
<1>4. QED
  BY <1>2, <1>3, AreaKept DEF MidOn, ClaimsOn, PlanOn, Midway

(* An area is not changed by a handler that only starts.                   *)
LEMMA StartKeepsAreas ==
  ASSUME GateInv, NEW a \in Areas, AreaInv(a), NEW d \in Desks, plan[d] = NoPlan,
         \A e \in Desks \ {d} : plan'[e] = plan[e],
         UNCHANGED <<visit, area, intake, baOpen>>,
         ~MidOn(d, a)', ClaimsOn(d, a)' => area[a] = "AVAILABLE"
  PROVE  AreaInv(a)'
<1>1. Live(a)' = Live(a) /\ Closed(a)' = Closed(a)
  BY DEF Live, Closed, Of
<1>2. \A e \in Desks \ {d} : /\ MidOn(e, a)' <=> MidOn(e, a)
                             /\ ClaimsOn(e, a)' <=> ClaimsOn(e, a)
  BY DEF MidOn, ClaimsOn, PlanOn, Midway
<1>3. ~MidOn(d, a)
  BY DEF MidOn, PlanOn
<1>4. QED
  BY <1>1, <1>2, <1>3, AreaKept

(* A handler that claims an area finds it available.                       *)
LEMMA CreateKeepsAreas ==
  ASSUME GateInv, NEW a \in Areas, AreaInv(a), NEW d \in Desks, NEW b \in Areas, Create(d, b)
  PROVE  AreaInv(a)'
<1>1. /\ plan[d] = NoPlan /\ area[b] = "AVAILABLE"
      /\ plan'[d].area = b /\ plan'[d].seen = "DRAFT" /\ plan'[d].todo \in Claiming
      /\ \A e \in Desks \ {d} : plan'[e] = plan[e]
      /\ UNCHANGED <<visit, area, intake, baOpen>>
  BY CreateKeepsGates
<1>2. ~MidOn(d, a)'
  BY <1>1, KindsOfTodos DEF MidOn, Midway
<1>3. ClaimsOn(d, a)' => area[a] = "AVAILABLE"
  BY <1>1 DEF ClaimsOn, PlanOn
<1>4. QED
  BY <1>1, <1>2, <1>3, StartKeepsAreas

(* A handler of a visit claims no area when it starts.                     *)
LEMMA StartsKeepAreas ==
  ASSUME GateInv, NEW a \in Areas, AreaInv(a), NEW d \in Desks, NEW v \in Visits, Starts(d, v)
  PROVE  AreaInv(a)'
<1>1. PICK t, fiber : /\ Plans(d, v, t, fiber) /\ fiber \in {"none", "existing", "unknown"}
                      /\ First(visit[v].status, t)
                      /\ Resubmits(t) => "visit" \in approvals[v]
  BY StartsFirst
<1>2. /\ plan[d] = NoPlan /\ plan'[d].seen = visit[v].status /\ plan'[d].todo = t
      /\ \A e \in Desks \ {d} : plan'[e] = plan[e]
      /\ UNCHANGED <<visit, area, intake, baOpen>>
  BY <1>1, PlansKeepGates
<1>3. visit[v].status \in VisitStatuses
  BY <1>1 DEF Plans, GateInv, VisitTypeOK, VisitRow
<1>4. t \notin Claiming
  BY <1>1, <1>3, TodoFacts, TailsOf DEF First
<1>5. ~MidOn(d, a)' /\ ~ClaimsOn(d, a)'
  BY <1>1, <1>2, <1>4 DEF MidOn, ClaimsOn, Midway, First
<1>6. QED
  BY <1>2, <1>5, StartKeepsAreas

(* Where no other handler is about an area, none of the others holds it.   *)
LEMMA AloneOn ==
  ASSUME NEW d \in Desks, NEW a, plan[d].area = a, Alone(d),
         \A e \in Desks \ {d} : plan'[e] = plan[e]
  PROVE  \A e \in Desks \ {d} : /\ ~MidOn(e, a) /\ ~MidOn(e, a)'
                                /\ ~ClaimsOn(e, a) /\ ~ClaimsOn(e, a)'
  BY DEF Alone, MidOn, ClaimsOn, PlanOn

(* The visits of an area, when one of them is written.                     *)
LEMMA WrittenVisits ==
  ASSUME NEW v \in Visits, NEW row, row # NoVisit, visit[v] # NoVisit,
         visit'[v] = row, \A w \in Visits \ {v} : visit'[w] = visit[w],
         row.area = visit[v].area, NEW a
  PROVE  /\ a # row.area => Live(a)' = Live(a) /\ Closed(a)' = Closed(a)
         /\ a = row.area =>
              /\ Live(a)' = IF row.status = "REJECTED" THEN Live(a) \ {v} ELSE Live(a) \cup {v}
              /\ Closed(a)' = IF row.status \in Approved THEN Closed(a) \cup {v}
                              ELSE Closed(a) \ {v}
  BY DEF Live, Closed, Of

(* Approved visits are live.                                               *)
LEMMA ClosedAreLive == \A a \in Areas : Closed(a) \subseteq Live(a)
  BY DEF Closed, Live, Approved

(* A visit's write leaves the other areas alone.                           *)
LEMMA WriteVisitElsewhere ==
  ASSUME GateInv, NEW a \in Areas, AreaInv(a), NEW d \in Desks, WriteVisit(d), plan[d].area # a
  PROVE  AreaInv(a)'
<1>1. PICK p : p = plan[d]
  OBVIOUS
<1>2. PICK to, row, gates :
        /\ to = Head(p.todo) /\ to \in VisitStatuses /\ AboutVisit(p)
        /\ row \in VisitRow /\ row # NoVisit /\ row.area = p.area /\ row.status = to
        /\ row.gate => visit[p.visit].gate
        /\ visit' = [visit EXCEPT ![p.visit] = row]
        /\ gates = Granted(to)
        /\ approvals' = [approvals EXCEPT ![p.visit] = approvals[p.visit] \cup gates]
        /\ Owed(to) \subseteq approvals[p.visit] \cup gates
        /\ UNCHANGED <<area, intake, baOpen>>
  BY <1>1, WriteVisitFacts
<1>3. /\ p.visit \in Visits /\ visit[p.visit] # NoVisit /\ visit[p.visit].area = p.area
      /\ p # NoPlan /\ VisitTypeOK /\ VisitTypeOK'
  BY <1>1, <1>2, WriteVisitKeepsGates DEF AboutVisit, GateInv, WriteVisit, Writing
<1>4. visit'[p.visit] = row /\ \A v \in Visits \ {p.visit} : visit'[v] = visit[v]
  BY <1>2, <1>3 DEF VisitTypeOK
<1>5. Live(a)' = Live(a) /\ Closed(a)' = Closed(a)
  <2>1. row.area = visit[p.visit].area /\ a # row.area
    BY <1>1, <1>2, <1>3
  <2>2. QED
    BY <1>2, <1>3, <1>4, <2>1, WrittenVisits
<1>6. p \in Plan /\ p.todo # <<>>
  BY <1>1, <1>3, PlanOf
<1>7. PICK q : q = [p EXCEPT !.seen = to]
  OBVIOUS
<1>8. q \in Plan /\ q.todo = p.todo /\ q.area = p.area
  BY <1>2, <1>6, <1>7 DEF Plan
<1>9. Proceeds(d, q)
  BY <1>1, <1>2, <1>7 DEF WriteVisit
<1>10. /\ \A e \in Desks \ {d} : plan'[e] = plan[e]
       /\ plan'[d] = NoPlan \/ plan'[d].area = p.area
  BY <1>3, <1>6, <1>8, <1>9, ProceedsFacts
<1>11. ~MidOn(d, a) /\ ~MidOn(d, a)' /\ ~ClaimsOn(d, a)'
  BY <1>1, <1>10 DEF MidOn, ClaimsOn, PlanOn
<1>12. \A e \in Desks \ {d} : /\ MidOn(e, a)' <=> MidOn(e, a)
                              /\ ClaimsOn(e, a)' <=> ClaimsOn(e, a)
  BY <1>10 DEF MidOn, ClaimsOn, PlanOn, Midway
<1>13. QED
  BY <1>2, <1>5, <1>10, <1>11, <1>12, AreaKept

(* A write to a visit of an area that no other handler is about, and that  *)
(* found the visit as it was seen.                                         *)
LEMMA WriteVisitHere ==
  ASSUME GateInv, NEW d \in Desks, NEW a \in Areas, AreaInv(a), WriteVisit(d),
         plan[d].area = a, a \notin troubled'
  PROVE  AreaInv(a)'
<1>1. PICK p : p = plan[d]
  OBVIOUS
<1>2. PICK to, row, gates :
        /\ to = Head(p.todo) /\ to \in VisitStatuses /\ AboutVisit(p)
        /\ row \in VisitRow /\ row # NoVisit /\ row.area = p.area /\ row.status = to
        /\ row.gate => visit[p.visit].gate
        /\ visit' = [visit EXCEPT ![p.visit] = row]
        /\ gates = Granted(to)
        /\ approvals' = [approvals EXCEPT ![p.visit] = approvals[p.visit] \cup gates]
        /\ Owed(to) \subseteq approvals[p.visit] \cup gates
        /\ UNCHANGED <<area, intake, baOpen>>
  BY <1>1, WriteVisitFacts
<1>3. PICK v \in Visits : v = p.visit
  BY <1>2 DEF AboutVisit
<1>4. /\ visit[v] # NoVisit /\ visit[v].area = a /\ p.todo \in Left(p.seen) /\ p.area = a
      /\ p # NoPlan /\ VisitTypeOK /\ VisitTypeOK'
  BY <1>1, <1>2, <1>3, WriteVisitKeepsGates DEF AboutVisit, GateInv, WriteVisit, Writing
<1>5. visit'[v] = row /\ \A w \in Visits \ {v} : visit'[w] = visit[w]
  BY <1>2, <1>3, <1>4 DEF VisitTypeOK
<1>6. /\ Live(a)' = IF to = "REJECTED" THEN Live(a) \ {v} ELSE Live(a) \cup {v}
      /\ Closed(a)' = IF to \in Approved THEN Closed(a) \cup {v} ELSE Closed(a) \ {v}
  <2>1. row.area = visit[v].area /\ row.area = a /\ row.status = to /\ row # NoVisit
    BY <1>2, <1>4
  <2>2. QED
    BY <1>4, <1>5, <2>1, WrittenVisits
<1>7. /\ Alone(d) /\ visit[v].status = p.seen
      /\ to # "REJECTED" => Live(a) \subseteq {v}
  BY <1>1, <1>2, <1>3, <1>4 DEF WriteVisit, Is
<1>8. p \in Plan /\ p.todo # <<>> /\ p.seen \in VisitStatuses
  BY <1>1, <1>4, PlanOf
<1>9. PICK q : q = [p EXCEPT !.seen = to]
  OBVIOUS
<1>10. q \in Plan /\ q.todo = p.todo /\ q.area = p.area /\ q.seen = to /\ q.visit = p.visit
  BY <1>2, <1>8, <1>9 DEF Plan
<1>11. Proceeds(d, q)
  BY <1>1, <1>2, <1>9 DEF WriteVisit
<1>12. /\ \A e \in Desks \ {d} : plan'[e] = plan[e]
       /\ Len(p.todo) = 1 => plan'[d] = NoPlan
       /\ Len(p.todo) # 1 =>
            /\ plan'[d] # NoPlan /\ plan'[d].area = a /\ plan'[d].visit = v
            /\ plan'[d].seen = to /\ plan'[d].todo = Tail(p.todo)
  BY <1>3, <1>4, <1>8, <1>10, <1>11, ProceedsFacts
<1>13. \A e \in Desks \ {d} : /\ ~MidOn(e, a) /\ ~MidOn(e, a)'
                              /\ ~ClaimsOn(e, a) /\ ~ClaimsOn(e, a)'
  BY <1>1, <1>4, <1>7, <1>12, AloneOn
<1>14. Closed(a) \subseteq Live(a) /\ (v \in Live(a) <=> p.seen # "REJECTED")
       /\ (v \in Closed(a) <=> p.seen \in Approved) /\ (\A w, u \in Live(a) : w = u)
  BY <1>4, <1>7, ClosedAreLive DEF Live, Closed, Of, AreaInv
<1>15. CASE /\ Len(p.todo) = 1 /\ to \notin Approved \cup {"REJECTED"}
            /\ p.seen \notin Approved \cup {"REJECTED"} /\ ~Midway(p)
  <2>1. Settled(a)
    <3>1. ~MidOn(d, a)
      BY <1>1, <1>15 DEF MidOn
    <3>2. QED
      BY <1>13, <3>1 DEF AreaInv
  <2>2. Live(a) = {v} /\ Live(a)' = {v} /\ Closed(a)' = {} /\ Closed(a) = {}
    BY <1>6, <1>7, <1>14, <1>15
  <2>3. Settled(a)' /\ ~MidOn(d, a)'
    BY <1>2, <1>12, <1>15, <2>1, <2>2 DEF Settled, MidOn, PlanOn
  <2>4. QED
    BY <1>13, <2>2, <2>3, AreaLeftTo
<1>16. CASE Len(p.todo) = 1 /\ p.seen = "REJECTED" /\ p.todo \in Reclaimed
  <2>1. area[a] = "IN_PROGRESS"
    <3>1. MidInv(p)
      BY <1>1, <1>4, <1>16 DEF AreaInv, MidOn, PlanOn, Midway
    <3>2. QED
      BY <1>4, <1>16, <3>1 DEF MidInv
  <2>2. to \notin Approved \cup {"REJECTED"}
    BY <1>2, <1>16 DEF Reclaimed, Approved
  <2>3. Live(a)' = {v} /\ Closed(a)' = {}
    BY <1>6, <1>7, <1>14, <1>16, <2>2
  <2>4. Settled(a)' /\ ~MidOn(d, a)'
    BY <1>2, <1>12, <1>16, <2>1, <2>3 DEF Settled, MidOn, PlanOn
  <2>5. QED
    BY <1>13, <2>3, <2>4, AreaLeftTo
<1>17. CASE p.todo \in Rejecting /\ p.seen \notin Approved \cup {"REJECTED"}
  <2>1. Tail(p.todo) = <<"AVAILABLE">> /\ to = "REJECTED" /\ Len(p.todo) # 1 /\ ~Midway(p)
    BY <1>2, <1>17, TailsOf, KindsOfTodos DEF Midway
  <2>2. Settled(a)
    <3>1. ~MidOn(d, a)
      BY <1>1, <2>1 DEF MidOn
    <3>2. QED
      BY <1>13, <3>1 DEF AreaInv
  <2>3. Live(a) = {v} /\ Closed(a) = {} /\ Live(a)' = {}
    BY <1>6, <1>14, <1>17, <2>1
  <2>4. area'[a] = "IN_PROGRESS"
    BY <1>2, <2>2, <2>3 DEF Settled
  <2>5. PICK t : t = plan'[d].todo
    OBVIOUS
  <2>6. t = <<"AVAILABLE">> /\ plan'[d] # NoPlan /\ plan'[d].area = a
    BY <1>12, <2>1, <2>5
  <2>7. t \notin Created \cup Completing \cup Claiming /\ t # <<"COMPLETED">>
        /\ t # <<"createFromBaOpen", "COMPLETED">>
    BY <2>6, KindsOfTodos DEF Completing
  <2>8. \A e \in Desks : ~ClaimsOn(e, a)'
    BY <1>13, <2>5, <2>7 DEF ClaimsOn
  <2>9. MidInv(plan[d])' /\ MidOn(d, a)'
    BY <2>3, <2>4, <2>5, <2>6, <2>7, <2>8 DEF MidInv, MidOn, PlanOn, Midway
  <2>10. QED
    BY <1>13, <2>3, <2>9, AreaLeftTo
<1>18. CASE p.todo \in Approving /\ p.seen = "ADMIN_REVIEW"
  <2>1. PICK t : t = plan'[d].todo
    OBVIOUS
  <2>2. to \in Approved /\ Tail(p.todo) \in Completing /\ Len(p.todo) # 1
        /\ Tail(p.todo) = <<"countBaOpens", "createBaOpen", "createFromBaOpen", "COMPLETED">>
    BY <1>2, <1>18, TailsOf
  <2>3. t = <<"countBaOpens", "createBaOpen", "createFromBaOpen", "COMPLETED">>
    BY <1>12, <2>1, <2>2
  <2>4. Live(a)' = {v}
    BY <1>6, <1>7, <2>2 DEF Approved
  <2>5. plan'[d] # NoPlan /\ plan'[d].area = a /\ plan'[d].visit = v
    BY <1>12, <2>2
  <2>6. t \in Completing /\ t \notin Reclaimed \cup { <<"AVAILABLE">> } /\ t # <<"COMPLETED">>
        /\ t # <<"createFromBaOpen", "COMPLETED">>
    BY <2>3, KindsOfTodos DEF Completing
  <2>7. MidInv(plan[d])' /\ MidOn(d, a)'
    BY <2>1, <2>4, <2>5, <2>6 DEF MidInv, MidOn, PlanOn, Midway
  <2>8. QED
    BY <1>13, <2>4, <2>7, AreaLeftTo
<1>19. \/ p.todo = <<"PM_REVIEW_VISIT">> /\ p.seen \in {"DRAFT", "REJECTED"}
       \/ p.todo = <<"DRAFT">> /\ p.seen = "PM_REVIEW_VISIT"
       \/ p.todo = <<"PM_REVIEW_SURVEY">> /\ p.seen \in {"APPROVED_PENDING_DATA", "REJECTED"}
       \/ p.todo = <<"ADMIN_REVIEW">> /\ p.seen = "PM_REVIEW_SURVEY"
       \/ /\ p.todo = <<"REJECTED", "AVAILABLE">>
          /\ p.seen \in {"APPROVED_PENDING_DATA", "PM_REVIEW_SURVEY", "ADMIN_REVIEW"}
       \/ p.todo \in Approving /\ p.seen = "ADMIN_REVIEW"
  BY <1>2, <1>4, <1>8, NextSteps
<1>20. CASE p.todo \in Reclaimed \cup { <<"DRAFT">>, <<"ADMIN_REVIEW">> } /\ p.seen # "REJECTED"
            /\ p.seen \notin Approved
  <2>1. Len(p.todo) = 1 /\ ~Midway(p)
    BY <1>20, KindsOfTodos DEF Midway
  <2>2. to \notin Approved \cup {"REJECTED"}
    BY <1>2, <1>20 DEF Reclaimed, Approved
  <2>3. QED
    BY <1>15, <1>20, <2>1, <2>2
<1>21. CASE p.todo \in Reclaimed /\ p.seen = "REJECTED"
  BY <1>16, <1>21, KindsOfTodos
<1>22. QED
  BY <1>17, <1>18, <1>19, <1>20, <1>21 DEF Reclaimed, Rejecting, Approved

(* A visit is made for an area that no live visit holds.                   *)
LEMMA CreateVisitKeepsAreas ==
  ASSUME GateInv, NEW d \in Desks, NEW a \in Areas, AreaInv(a), CreateVisit(d), a \notin troubled'
  PROVE  AreaInv(a)'
<1>1. PICK p : p = plan[d]
  OBVIOUS
<1>2. PICK v \in Visits, row \in VisitRow : MakesVisit(d, p, v, row)
  BY <1>1, CreateVisitFacts
<1>3. /\ visit[v] = NoVisit /\ row # NoVisit /\ row.area = p.area /\ row.status = "DRAFT"
      /\ visit' = [visit EXCEPT ![v] = row] /\ p.todo \in Claiming /\ p # NoPlan
      /\ plan'[d] # NoPlan /\ plan'[d].area = p.area /\ plan'[d].visit = v
      /\ plan'[d].seen = "DRAFT" /\ plan'[d].todo \in Created
      /\ \A e \in Desks \ {d} : plan'[e] = plan[e]
      /\ UNCHANGED <<area, intake, baOpen>>
  BY <1>2 DEF MakesVisit
<1>4. visit'[v] = row /\ \A w \in Visits \ {v} : visit'[w] = visit[w]
  BY <1>3 DEF GateInv, VisitTypeOK
<1>5. CASE p.area # a
  <2>1. Live(a)' = Live(a) /\ Closed(a)' = Closed(a)
    BY <1>3, <1>4, <1>5 DEF Live, Closed, Of
  <2>2. ~MidOn(d, a) /\ ~MidOn(d, a)' /\ ~ClaimsOn(d, a)'
    BY <1>1, <1>3, <1>5 DEF MidOn, ClaimsOn, PlanOn
  <2>3. \A e \in Desks \ {d} : /\ MidOn(e, a)' <=> MidOn(e, a)
                               /\ ClaimsOn(e, a)' <=> ClaimsOn(e, a)
    BY <1>3 DEF MidOn, ClaimsOn, PlanOn, Midway
  <2>4. QED
    BY <1>3, <2>1, <2>2, <2>3, AreaKept
<1>6. CASE p.area = a
  <2>1. Live(a) = {}
    BY <1>1, <1>6 DEF CreateVisit
  <2>2. Live(a)' = {v}
    BY <1>3, <1>4, <1>6, <2>1 DEF Live, Of
  <2>3. ClaimsOn(d, a)
    BY <1>1, <1>3, <1>6 DEF ClaimsOn, PlanOn
  <2>4. ASSUME NEW e \in Desks, MidOn(e, a) PROVE FALSE
    <3>1. PICK q : q = plan[e]
      OBVIOUS
    <3>2. q.area = a /\ MidInv(q) /\ Midway(q)
      BY <2>4, <3>1 DEF AreaInv, MidOn, PlanOn
    <3>3. QED
      BY <2>1, <2>3, <3>2 DEF MidInv, Midway
  <2>5. \A e \in Desks \ {d} : ~MidOn(e, a)'
    BY <1>3, <2>4 DEF MidOn, PlanOn, Midway
  <2>6. PICK t : t = plan'[d].todo
    OBVIOUS
  <2>7. t \in Created /\ t \notin Completing \cup Reclaimed \cup { <<"AVAILABLE">> }
    BY <1>3, <2>6, KindsOfTodos
  <2>8. t # <<"COMPLETED">> /\ t # <<"createFromBaOpen", "COMPLETED">>
    BY <2>7 DEF Completing
  <2>9. MidInv(plan[d])' /\ MidOn(d, a)'
    BY <1>3, <1>6, <2>2, <2>6, <2>7, <2>8 DEF MidInv, MidOn, PlanOn, Midway
  <2>10. QED
    BY <2>2, <2>5, <2>9, AreaLeftTo
<1>7. QED
  BY <1>5, <1>6

(* The other steps take no BA Open away, and no cluster back.              *)
LEMMA OtherStepsOnlyAdd ==
  ASSUME GateInv, NEW d \in Desks, OtherStep(d)
  PROVE  /\ baOpen \subseteq baOpen'
         /\ \A v \in Visits : intake[v] = "SITE_VISIT" => intake'[v] = "SITE_VISIT"
         /\ \A a \in Areas : a # plan[d].area \/ ~WriteArea(d) => area'[a] = area[a]
         /\ \A a \in Areas : Live(a)' = Live(a) /\ Closed(a)' = Closed(a)
<1>1. VisitTypeOK
  BY DEF GateInv
<1>2. baOpen \subseteq baOpen'
  BY DEF OtherStep, WritePatch, WriteArea, CheckActive, InitCluster, CountBaOpens, CreateBaOpen,
         CreateFromBaOpen, GiveUp
<1>3. \/ UNCHANGED intake
      \/ /\ intake[plan[d].visit] = "none"
         /\ intake' = [intake EXCEPT ![plan[d].visit] = "CLUSTER_INTAKE"]
      \/ intake' = [intake EXCEPT ![plan[d].visit] = "SITE_VISIT"]
  BY DEF OtherStep, WritePatch, WriteArea, CheckActive, InitCluster, CountBaOpens, CreateBaOpen,
         CreateFromBaOpen, GiveUp
<1>4. \A v \in Visits : intake[v] = "SITE_VISIT" => intake'[v] = "SITE_VISIT"
  BY <1>1, <1>3 DEF VisitTypeOK
<1>5. ~WriteArea(d) => UNCHANGED area
  BY DEF OtherStep, WritePatch, CheckActive, InitCluster, CountBaOpens, CreateBaOpen,
         CreateFromBaOpen, GiveUp
<1>6. \A a \in Areas : a # plan[d].area \/ ~WriteArea(d) => area'[a] = area[a]
  BY <1>1, <1>5 DEF WriteArea, VisitTypeOK
<1>7. \A v \in Visits : /\ visit[v] # NoVisit =>
                             /\ visit'[v] # NoVisit /\ visit'[v].area = visit[v].area
                             /\ visit'[v].status = visit[v].status
                        /\ visit[v] = NoVisit => visit'[v] = NoVisit
  BY OtherStepsKeepVisits
<1>8. \A a \in Areas : Live(a)' = Live(a) /\ Closed(a)' = Closed(a)
  BY <1>7 DEF Live, Closed, Of
<1>9. QED
  BY <1>2, <1>4, <1>6, <1>8

(* Elsewhere than in its area, a handler changes nothing.                  *)
LEMMA OtherStepsElsewhere ==
  ASSUME GateInv, NEW d \in Desks, NEW a \in Areas, AreaInv(a), OtherStep(d), plan[d].area # a
  PROVE  AreaInv(a)'
<1>1. PICK p : p = plan[d]
  OBVIOUS
<1>2. /\ \A e \in Desks \ {d} : plan'[e] = plan[e]
      /\ plan'[d] # NoPlan => plan'[d].area = p.area
  BY <1>1, OtherStepsContinue, ContinuesFacts
<1>3. ~MidOn(d, a) /\ ~MidOn(d, a)' /\ ~ClaimsOn(d, a)'
  BY <1>1, <1>2 DEF MidOn, ClaimsOn, PlanOn
<1>4. \A e \in Desks \ {d} : /\ MidOn(e, a)' <=> MidOn(e, a)
                             /\ ClaimsOn(e, a)' <=> ClaimsOn(e, a)
  BY <1>2 DEF MidOn, ClaimsOn, PlanOn, Midway
<1>5. QED
  BY <1>2, <1>3, <1>4, OtherStepsOnlyAdd, AreaKept

(* What completes an approval, step by step.                               *)
LEMMA CompletingSteps ==
  \A t \in Completing :
    /\ Head(t) \in {"countBaOpens", "createBaOpen", "createFromBaOpen"} =>
         Len(t) # 1 /\ Tail(t) \in Completing
    /\ Head(t) = "countBaOpens" =>
         Tail(t) # <<"COMPLETED">> /\ Tail(t) # <<"createFromBaOpen", "COMPLETED">>
    /\ Head(t) = "createBaOpen" => Tail(t) # <<"COMPLETED">>
    /\ Head(t) = "createFromBaOpen" => t = <<"createFromBaOpen", "COMPLETED">>
<1>1. Tail(<<"createFromBaOpen", "COMPLETED">>) = <<"COMPLETED">>
  OBVIOUS
<1>2. Tail(<<"createBaOpen", "createFromBaOpen", "COMPLETED">>)
        = <<"createFromBaOpen", "COMPLETED">>
  OBVIOUS
<1>3. Tail(<<"countBaOpens", "createBaOpen", "createFromBaOpen", "COMPLETED">>)
        = <<"createBaOpen", "createFromBaOpen", "COMPLETED">>
  OBVIOUS
<1>4. ASSUME NEW t \in Completing
      PROVE  /\ Head(t) = "countBaOpens" =>
                  t = <<"countBaOpens", "createBaOpen", "createFromBaOpen", "COMPLETED">>
             /\ Head(t) = "createBaOpen" =>
                  t = <<"createBaOpen", "createFromBaOpen", "COMPLETED">>
             /\ Head(t) = "createFromBaOpen" => t = <<"createFromBaOpen", "COMPLETED">>
             /\ t # <<"COMPLETED">> => Len(t) # 1
             /\ t = <<"COMPLETED">> => Head(t) = "COMPLETED"
  BY <1>4 DEF Completing
<1>5. <<"createBaOpen", "createFromBaOpen", "COMPLETED">> # <<"COMPLETED">>
      /\ <<"createFromBaOpen", "COMPLETED">> # <<"COMPLETED">>
      /\ <<"createBaOpen", "createFromBaOpen", "COMPLETED">>
           # <<"createFromBaOpen", "COMPLETED">>
  OBVIOUS
<1>6. { <<"createBaOpen", "createFromBaOpen", "COMPLETED">>,
        <<"createFromBaOpen", "COMPLETED">>, <<"COMPLETED">> } \subseteq Completing
  BY DEF Completing
<1>7. QED
  BY <1>1, <1>2, <1>3, <1>4, <1>5, <1>6

(* A step that troubles no area goes on to what is left, unless it only    *)
(* looked whether the area is claimed.                                     *)
LEMMA OtherStepsGoOn ==
  ASSUME GateInv, NEW d \in Desks, NEW p, p = plan[d], OtherStep(d), p.area \notin troubled',
         ~CheckActive(d)
  PROVE  /\ p # NoPlan /\ ~GiveUp(d)
         /\ \A e \in Desks \ {d} : plan'[e] = plan[e]
         /\ Len(p.todo) = 1 => plan'[d] = NoPlan
         /\ Len(p.todo) # 1 =>
              /\ plan'[d] # NoPlan /\ plan'[d].area = p.area /\ plan'[d].visit = p.visit
              /\ plan'[d].seen = p.seen /\ plan'[d].todo = Tail(p.todo)
<1>1. p # NoPlan
  BY OtherStepsContinue
<1>2. p \in Plan /\ p.todo # <<>> /\ VisitTypeOK /\ Cardinality(baOpen) \in Nat
  BY <1>1, PlanOf, FS_CardinalityType DEF GateInv, VisitTypeOK
<1>3. ~GiveUp(d)
  BY DEF GiveUp
<1>4. CASE CountBaOpens(d)
  <2>1. PICK q : q = [p EXCEPT !.count = Cardinality(baOpen)]
    OBVIOUS
  <2>2. q \in Plan /\ q.todo = p.todo /\ q.seen = p.seen /\ q.area = p.area
        /\ q.visit = p.visit
    BY <1>2, <2>1 DEF Plan
  <2>3. Proceeds(d, q)
    BY <1>4, <2>1 DEF CountBaOpens
  <2>4. QED
    BY <1>1, <1>2, <1>3, <2>2, <2>3, ProceedsFacts
<1>5. CASE WritePatch(d) \/ WriteArea(d) \/ InitCluster(d) \/ CreateBaOpen(d) \/ CreateFromBaOpen(d)
  <2>1. Proceeds(d, p)
    BY <1>5 DEF WritePatch, WriteArea, InitCluster, CreateBaOpen, CreateFromBaOpen
  <2>2. QED
    BY <1>1, <1>2, <1>3, <2>1, ProceedsFacts
<1>6. QED
  BY <1>3, <1>4, <1>5 DEF OtherStep

(* A handler of the area that gets on with what it holds.                  *)
LEMMA GoesOnHere ==
  ASSUME GateInv, NEW d \in Desks, NEW a \in Areas, AreaInv(a), OtherStep(d), ~WriteArea(d),
         MidOn(d, a)' <=> MidOn(d, a), MidOn(d, a) => MidInv(plan[d])',
         ClaimsOn(d, a)' => ClaimsOn(d, a)
  PROVE  AreaInv(a)'
<1>1. \A e \in Desks \ {d} : plan'[e] = plan[e]
  BY OtherStepsContinue, ContinuesFacts
<1>2. \A e \in Desks \ {d} : /\ MidOn(e, a)' <=> MidOn(e, a)
                             /\ ClaimsOn(e, a)' <=> ClaimsOn(e, a)
  BY <1>1 DEF MidOn, ClaimsOn, PlanOn, Midway
<1>3. QED
  BY <1>1, <1>2, OtherStepsOnlyAdd, AreaKept

(* Looking whether an area is claimed changes nothing.                     *)
LEMMA CheckActiveHere ==
  ASSUME GateInv, NEW d \in Desks, NEW a \in Areas, AreaInv(a), CheckActive(d), plan[d].area = a
  PROVE  AreaInv(a)'
<1>1. PICK p : p = plan[d]
  OBVIOUS
<1>2. p # NoPlan /\ Head(p.todo) = "checkActive" /\ p.seen \in VisitStatuses /\ PlanInv(p)
      /\ OtherStep(d)
  BY <1>1, PlanOf DEF CheckActive, Writing, OtherStep
<1>3. p.todo \in Claiming
  BY <1>2, TodoFacts DEF PlanInv, AboutVisit
<1>4. plan'[d] # NoPlan => plan'[d].todo \in Claiming
  BY <1>1, <1>2, <1>3, OtherStepsContinue, ContinuesFacts, TailsOf
<1>5. ~Midway(p) /\ ClaimsOn(d, a)
  BY <1>1, <1>2, <1>3, KindsOfTodos DEF Midway, ClaimsOn, PlanOn
<1>6. ~MidOn(d, a) /\ ~MidOn(d, a)'
  BY <1>1, <1>4, <1>5, KindsOfTodos DEF MidOn, PlanOn, Midway
<1>7. ~WriteArea(d)
  BY <1>1, <1>2 DEF WriteArea, Writing, AreaStatuses
<1>8. QED
  BY <1>2, <1>5, <1>6, <1>7, GoesOnHere

(* A plan whose steps claim nothing claims nothing.                        *)
LEMMA ClaimsNothing ==
  ASSUME NEW d \in Desks, NEW a, plan'[d] # NoPlan => plan'[d].todo \notin Claiming
  PROVE  ~ClaimsOn(d, a)'
  BY DEF ClaimsOn, PlanOn

(* A patch of a rejected visit.                                            *)
LEMMA WritePatchHere ==
  ASSUME GateInv, NEW d \in Desks, NEW a \in Areas, AreaInv(a), WritePatch(d), plan[d].area = a,
         a \notin troubled'
  PROVE  AreaInv(a)'
<1>1. PICK p : p = plan[d]
  OBVIOUS
<1>2. Head(p.todo) = "patch" /\ OtherStep(d) /\ p # NoPlan
  BY <1>1 DEF WritePatch, Writing, OtherStep
<1>3. p.todo = <<"patch">>
  BY <1>1, <1>2, PlanOf, AboutItsVisit, NextSteps DEF AboutVisit
<1>4. ~CheckActive(d) /\ ~WriteArea(d)
  BY <1>1, <1>2 DEF CheckActive, WriteArea, Writing, AreaStatuses
<1>5. plan'[d] = NoPlan
  BY <1>1, <1>2, <1>3, <1>4, OtherStepsGoOn
<1>6. ~MidOn(d, a) /\ ~MidOn(d, a)' /\ ~ClaimsOn(d, a)'
  BY <1>1, <1>3, <1>5, KindsOfTodos DEF MidOn, PlanOn, Midway, ClaimsOn
<1>7. QED
  BY <1>2, <1>4, <1>6, GoesOnHere

(* The cluster of a new visit.                                             *)
LEMMA InitClusterHere ==
  ASSUME GateInv, NEW d \in Desks, NEW a \in Areas, AreaInv(a), InitCluster(d), plan[d].area = a,
         a \notin troubled'
  PROVE  AreaInv(a)'
<1>1. PICK p : p = plan[d]
  OBVIOUS
<1>2. Head(p.todo) = "initCluster" /\ OtherStep(d) /\ p # NoPlan
  BY <1>1 DEF InitCluster, Writing, OtherStep
<1>3. p.todo = <<"initCluster", "IN_PROGRESS">>
  BY <1>1, <1>2, PlanOf, AboutItsVisit, NextSteps DEF AboutVisit
<1>4. ~CheckActive(d) /\ ~WriteArea(d)
  BY <1>1, <1>2 DEF CheckActive, WriteArea, Writing, AreaStatuses
<1>5. Tail(p.todo) = <<"IN_PROGRESS">> /\ Len(p.todo) # 1
  BY <1>3
<1>6. PICK t : t = plan'[d].todo
  OBVIOUS
<1>7. plan'[d] # NoPlan /\ plan'[d].area = a /\ plan'[d].visit = p.visit /\ t = <<"IN_PROGRESS">>
  BY <1>1, <1>2, <1>4, <1>5, <1>6, OtherStepsGoOn
<1>8. t \in Created /\ t \notin Completing \cup Reclaimed \cup Claiming \cup { <<"AVAILABLE">> }
  BY <1>7, KindsOfTodos DEF Created
<1>9. t # <<"COMPLETED">> /\ t # <<"createFromBaOpen", "COMPLETED">>
  BY <1>8 DEF Completing
<1>10. MidOn(d, a) /\ p.todo \in Created
  BY <1>1, <1>2, <1>3 DEF MidOn, PlanOn, Midway, Created
<1>11. Live(a)' = {p.visit}
  <2>1. MidInv(p)
    BY <1>1, <1>10 DEF AreaInv
  <2>2. QED
    BY <1>1, <1>2, <1>10, <2>1, OtherStepsOnlyAdd DEF MidInv
<1>12. MidOn(d, a)' /\ ~ClaimsOn(d, a)' /\ MidInv(plan[d])'
  BY <1>6, <1>7, <1>8, <1>9, <1>11 DEF MidInv, MidOn, PlanOn, Midway, ClaimsOn
<1>13. QED
  BY <1>2, <1>4, <1>10, <1>12, GoesOnHere

(* The BA Open of an approved visit: what it takes to issue it, and what   *)
(* issuing it again takes.                                                 *)
LEMMA BaOpenHere ==
  ASSUME GateInv, NEW d \in Desks, NEW a \in Areas, AreaInv(a),
         CountBaOpens(d) \/ CreateBaOpen(d) \/ CreateFromBaOpen(d), plan[d].area = a,
         a \notin troubled'
  PROVE  AreaInv(a)'
<1>1. PICK p : p = plan[d]
  OBVIOUS
<1>2. /\ Head(p.todo) \in {"countBaOpens", "createBaOpen", "createFromBaOpen"}
      /\ OtherStep(d) /\ p # NoPlan /\ VisitTypeOK
  BY <1>1 DEF CountBaOpens, CreateBaOpen, CreateFromBaOpen, Writing, OtherStep, GateInv
<1>3. p.todo \in Completing \cup Regenerating /\ p.visit \in Visits
  BY <1>1, <1>2, PlanOf, AboutItsVisit, NextSteps DEF AboutVisit
<1>4. ~CheckActive(d) /\ ~WriteArea(d)
  BY <1>1, <1>2 DEF CheckActive, WriteArea, Writing, AreaStatuses
<1>5. PICK t : t = plan'[d].todo
  OBVIOUS
<1>6. /\ Len(p.todo) = 1 => plan'[d] = NoPlan
      /\ Len(p.todo) # 1 =>
           /\ plan'[d] # NoPlan /\ plan'[d].area = a /\ plan'[d].visit = p.visit
           /\ t = Tail(p.todo)
  BY <1>1, <1>2, <1>4, <1>5, OtherStepsGoOn
<1>7. CASE p.todo \in Regenerating
  <2>1. ~MidOn(d, a)
    BY <1>1, <1>7, KindsOfTodos DEF MidOn, Midway
  <2>2. plan'[d] # NoPlan => t \in Regenerating
    BY <1>6, <1>7, TailsOf
  <2>3. ~MidOn(d, a)' /\ ~ClaimsOn(d, a)'
    <3>1. t \in Regenerating => t \notin Created \cup Completing \cup Reclaimed \cup { <<"AVAILABLE">> }
      BY KindsOfTodos
    <3>2. t \in Regenerating => t \notin Claiming
      BY DEF Regenerating, Claiming
    <3>3. QED
      BY <1>5, <2>2, <3>1, <3>2 DEF MidOn, PlanOn, Midway, ClaimsOn
  <2>4. QED
    BY <1>2, <1>4, <2>1, <2>3, GoesOnHere
<1>8. CASE p.todo \in Completing
  <2>1. MidOn(d, a)
    BY <1>1, <1>2, <1>8 DEF MidOn, PlanOn, Midway
  <2>2. MidInv(p)
    BY <1>1, <2>1 DEF AreaInv
  <2>3. t \in Completing /\ plan'[d] # NoPlan /\ plan'[d].area = a /\ plan'[d].visit = p.visit
    BY <1>2, <1>6, <1>8, CompletingSteps
  <2>4. t \notin Claiming \cup Reclaimed \cup { <<"AVAILABLE">> }
    BY <2>3, KindsOfTodos
  <2>5. Live(a)' = {p.visit} /\ baOpen \subseteq baOpen'
    BY <1>1, <1>2, <1>8, <2>2, OtherStepsOnlyAdd DEF MidInv
  <2>6. t \in { <<"createFromBaOpen", "COMPLETED">>, <<"COMPLETED">> } => p.visit \in baOpen'
    <3>1. CASE CountBaOpens(d)
      <4>1. Head(p.todo) = "countBaOpens"
        BY <1>1, <3>1 DEF CountBaOpens, Writing
      <4>2. QED
        BY <1>2, <1>6, <1>8, <4>1, CompletingSteps
    <3>2. CASE CreateBaOpen(d)
      BY <1>1, <1>2, <3>2 DEF CreateBaOpen
    <3>3. CASE CreateFromBaOpen(d)
      <4>1. Head(p.todo) = "createFromBaOpen"
        BY <1>1, <3>3 DEF CreateFromBaOpen, Writing
      <4>2. p.todo = <<"createFromBaOpen", "COMPLETED">>
        BY <1>8, <4>1, CompletingSteps
      <4>3. QED
        BY <2>2, <2>5, <4>2 DEF MidInv
    <3>4. QED
      BY <3>1, <3>2, <3>3
  <2>7. t = <<"COMPLETED">> => intake'[p.visit] = "SITE_VISIT"
    <3>1. CASE CreateFromBaOpen(d)
      BY <1>1, <1>2, <1>3, <3>1 DEF CreateFromBaOpen, VisitTypeOK
    <3>2. CASE CountBaOpens(d) \/ CreateBaOpen(d)
      <4>1. Head(p.todo) \in {"countBaOpens", "createBaOpen"}
        BY <1>1, <3>2 DEF CountBaOpens, CreateBaOpen, Writing
      <4>2. QED
        BY <1>2, <1>6, <1>8, <4>1, CompletingSteps
    <3>3. QED
      BY <3>1, <3>2
  <2>8. MidOn(d, a)' /\ ~ClaimsOn(d, a)' /\ MidInv(plan[d])'
    BY <1>5, <2>3, <2>4, <2>5, <2>6, <2>7 DEF MidInv, MidOn, PlanOn, Midway, ClaimsOn
  <2>9. QED
    BY <1>2, <1>4, <2>1, <2>8, GoesOnHere
<1>9. QED
  BY <1>3, <1>7, <1>8

(* The area's own status, written by the only handler of the area, about   *)
(* the visit as it was seen.                                               *)
LEMMA WriteAreaHere ==
  ASSUME GateInv, NEW d \in Desks, NEW a \in Areas, AreaInv(a), WriteArea(d), plan[d].area = a,
         a \notin troubled'
  PROVE  AreaInv(a)'
<1>1. PICK p : p = plan[d]
  OBVIOUS
<1>2. /\ Head(p.todo) \in AreaStatuses /\ OtherStep(d) /\ p # NoPlan /\ VisitTypeOK
      /\ Is(p.visit, p.seen) /\ Alone(d) /\ area' = [area EXCEPT ![a] = Head(p.todo)]
      /\ UNCHANGED <<intake, baOpen>>
  BY <1>1 DEF WriteArea, Writing, OtherStep, GateInv
<1>3. p.seen \in VisitStatuses /\ AboutVisit(p) /\ p.todo # <<>>
  <2>1. Head(p.todo) \notin {"checkActive", "create"}
    BY <1>2 DEF AreaStatuses
  <2>2. QED
    BY <1>1, <1>2, <2>1, PlanOf, AboutItsVisit
<1>4. PICK v \in Visits : v = p.visit
  BY <1>3 DEF AboutVisit
<1>5. /\ visit[v] # NoVisit /\ visit[v].area = a /\ visit[v].status = p.seen
      /\ p.todo \in Left(p.seen) /\ area'[a] = Head(p.todo)
  BY <1>1, <1>2, <1>3, <1>4 DEF AboutVisit, Is, VisitTypeOK
<1>6. ~CheckActive(d)
  BY <1>1, <1>2 DEF CheckActive, Writing, AreaStatuses
<1>7. /\ \A e \in Desks \ {d} : plan'[e] = plan[e]
      /\ Len(p.todo) = 1 => plan'[d] = NoPlan
      /\ Len(p.todo) # 1 =>
           /\ plan'[d] # NoPlan /\ plan'[d].area = a /\ plan'[d].visit = v
           /\ plan'[d].seen = p.seen /\ plan'[d].todo = Tail(p.todo)
  BY <1>1, <1>2, <1>4, <1>6, OtherStepsGoOn
<1>8. \A e \in Desks \ {d} : ~MidOn(e, a) /\ ~MidOn(e, a)' /\ ~ClaimsOn(e, a)'
  BY <1>2, <1>7, AloneOn
<1>9. Live(a)' = Live(a) /\ Closed(a)' = Closed(a)
  BY <1>2, OtherStepsOnlyAdd
<1>10. /\ Closed(a) \subseteq Live(a) /\ (v \in Live(a) <=> p.seen # "REJECTED")
       /\ (v \in Closed(a) <=> p.seen \in Approved) /\ (\A w, u \in Live(a) : w = u)
  BY <1>5, ClosedAreLive DEF Live, Closed, Of, AreaInv
<1>11. Midway(p) => MidInv(p)
  BY <1>1, <1>2 DEF AreaInv, MidOn, PlanOn
<1>12. \A w, u \in Live(a)' : w = u
  BY <1>9, <1>10
<1>13. CASE p.seen = "DRAFT" /\ p.todo = <<"IN_PROGRESS">>
  <2>1. Live(a) = {v} /\ Closed(a) = {}
    BY <1>10, <1>13 DEF Approved
  <2>2. plan'[d] = NoPlan /\ area'[a] = "IN_PROGRESS"
    BY <1>5, <1>7, <1>13
  <2>3. Settled(a)' /\ ~MidOn(d, a)'
    BY <1>9, <2>1, <2>2 DEF Settled, MidOn, PlanOn
  <2>4. QED
    BY <1>8, <1>12, <2>3, AreaLeftTo
<1>14. CASE p.seen = "REJECTED" /\ p.todo = <<"AVAILABLE">>
  <2>1. Live(a) = {} /\ Closed(a) = {}
    BY <1>1, <1>10, <1>11, <1>14 DEF Midway, MidInv
  <2>2. plan'[d] = NoPlan /\ area'[a] = "AVAILABLE"
    BY <1>5, <1>7, <1>14
  <2>3. Settled(a)' /\ ~MidOn(d, a)'
    BY <1>9, <2>1, <2>2 DEF Settled, MidOn, PlanOn
  <2>4. QED
    BY <1>8, <1>12, <2>3, AreaLeftTo
<1>15. CASE p.seen \in Approved /\ p.todo = <<"COMPLETED">>
  <2>1. p.todo \in Completing
    BY <1>15 DEF Completing
  <2>2. MidInv(p)
    BY <1>11, <2>1 DEF Midway
  <2>3. Live(a) = {v} /\ v \in baOpen /\ intake[v] = "SITE_VISIT"
    BY <1>1, <1>4, <1>15, <2>1, <2>2 DEF MidInv
  <2>4. Closed(a) = {v}
    BY <1>10, <1>15, <2>3
  <2>5. plan'[d] = NoPlan /\ area'[a] = "COMPLETED"
    BY <1>5, <1>7, <1>15
  <2>6. Settled(a)' /\ ~MidOn(d, a)'
    BY <1>2, <1>9, <2>3, <2>4, <2>5 DEF Settled, MidOn, PlanOn
  <2>7. QED
    BY <1>8, <1>12, <2>6, AreaLeftTo
<1>16. CASE p.seen = "REJECTED" /\ p.todo \in Reclaiming
  <2>1. PICK t : t = plan'[d].todo
    OBVIOUS
  <2>2. Head(p.todo) = "IN_PROGRESS" /\ Len(p.todo) # 1 /\ Tail(p.todo) \in Reclaimed
    <3>1. Head(p.todo) = "IN_PROGRESS" /\ Len(p.todo) # 1
      BY <1>16 DEF Reclaiming
    <3>2. QED
      BY <1>16, <3>1, TailsOf
  <2>3. /\ plan'[d] # NoPlan /\ plan'[d].area = a /\ plan'[d].seen = "REJECTED"
        /\ t \in Reclaimed /\ area'[a] = "IN_PROGRESS"
    BY <1>5, <1>7, <1>16, <2>1, <2>2
  <2>4. t \notin Created \cup Completing \cup Claiming /\ t # <<"AVAILABLE">>
    BY <2>3, KindsOfTodos
  <2>5. t # <<"COMPLETED">> /\ t # <<"createFromBaOpen", "COMPLETED">>
    BY <2>4 DEF Completing
  <2>6. \A e \in Desks : ~ClaimsOn(e, a)'
    BY <1>8, <2>1, <2>4 DEF ClaimsOn
  <2>7. MidInv(plan[d])' /\ MidOn(d, a)'
    BY <2>1, <2>3, <2>4, <2>5, <2>6 DEF MidInv, MidOn, PlanOn, Midway
  <2>8. QED
    BY <1>8, <1>12, <2>7, AreaLeftTo
<1>17. QED
  BY <1>2, <1>3, <1>5, <1>13, <1>14, <1>15, <1>16, NextSteps

(* The other steps, in the handler's own area.                             *)
LEMMA OtherStepsHere ==
  ASSUME GateInv, NEW d \in Desks, NEW a \in Areas, AreaInv(a), OtherStep(d), plan[d].area = a,
         a \notin troubled'
  PROVE  AreaInv(a)'
<1>1. ~GiveUp(d)
  BY DEF GiveUp
<1>2. QED
  BY <1>1, CheckActiveHere, WritePatchHere, InitClusterHere, BaOpenHere, WriteAreaHere
     DEF OtherStep

(* Trouble is never forgotten.                                             *)
LEMMA TroubleStays ==
  ASSUME [VisitNext]_visitVars
  PROVE  troubled \subseteq troubled'
<1>1. CASE UNCHANGED visitVars
  BY <1>1 DEF visitVars
<1>2. ASSUME NEW v \in Visits, PmVisitApprove(v) PROVE troubled \subseteq troubled'
  BY <1>2 DEF PmVisitApprove
<1>3. ASSUME NEW a \in Areas, MarkExistingFiber(a) PROVE troubled \subseteq troubled'
  BY <1>3 DEF MarkExistingFiber
<1>4. ASSUME NEW d \in Desks, NEW a \in Areas, Create(d, a) PROVE troubled \subseteq troubled'
  BY <1>4 DEF Create
<1>5. ASSUME NEW d \in Desks, NEW v \in Visits, Starts(d, v) PROVE troubled \subseteq troubled'
  BY <1>5 DEF Starts, Submit, PmVisitReject, SubmitSurveyData, PmReview, AdminApprove,
              RegenerateBaOpen, PatchBySurveyor, Plans
<1>6. ASSUME NEW d \in Desks, WriteVisit(d) \/ CreateVisit(d) PROVE troubled \subseteq troubled'
  BY <1>6 DEF WriteVisit, CreateVisit
<1>7. ASSUME NEW d \in Desks, OtherStep(d) PROVE troubled \subseteq troubled'
  BY <1>7 DEF OtherStep, WritePatch, WriteArea, CheckActive, InitCluster, CountBaOpens,
              CreateBaOpen, CreateFromBaOpen, GiveUp
<1>8. QED
  BY <1>1, <1>2, <1>3, <1>4, <1>5, <1>6, <1>7, VisitStepKinds

(* An area keeps what is due to it in every step that brings no trouble.   *)
LEMMA AreaStep ==
  ASSUME GateInv, [VisitNext]_visitVars, NEW a \in Areas, AreaInv(a), a \notin troubled'
  PROVE  AreaInv(a)'
<1>1. CASE UNCHANGED visitVars
  BY <1>1 DEF visitVars, AreaInv, MidOn, PlanOn, Midway, MidInv, ClaimsOn, Settled, Live, Closed, Of
<1>2. ASSUME NEW v \in Visits, PmVisitApprove(v) PROVE AreaInv(a)'
  BY <1>2, PmVisitApproveKeepsAreas
<1>3. ASSUME NEW b \in Areas, MarkExistingFiber(b) PROVE AreaInv(a)'
  <2>1. area'[a] = area[a] /\ UNCHANGED <<visit, intake, baOpen, plan>>
    BY <1>3 DEF MarkExistingFiber, GateInv, VisitTypeOK
  <2>2. QED
    BY <2>1 DEF AreaInv, MidOn, PlanOn, Midway, MidInv, ClaimsOn, Settled, Live, Closed, Of
<1>4. ASSUME NEW d \in Desks, NEW b \in Areas, Create(d, b) PROVE AreaInv(a)'
  BY <1>4, CreateKeepsAreas
<1>5. ASSUME NEW d \in Desks, NEW v \in Visits, Starts(d, v) PROVE AreaInv(a)'
  BY <1>5, StartsKeepAreas
<1>6. ASSUME NEW d \in Desks, WriteVisit(d) PROVE AreaInv(a)'
  BY <1>6, WriteVisitElsewhere, WriteVisitHere
<1>7. ASSUME NEW d \in Desks, CreateVisit(d) PROVE AreaInv(a)'
  BY <1>7, CreateVisitKeepsAreas
<1>8. ASSUME NEW d \in Desks, OtherStep(d) PROVE AreaInv(a)'
  BY <1>8, OtherStepsElsewhere, OtherStepsHere
<1>9. QED
  BY <1>1, <1>2, <1>3, <1>4, <1>5, <1>6, <1>7, <1>8, VisitStepKinds

(* While no trouble came to an area, it has at most one live visit and at  *)
(* most one handler between its first write and its last, and what that    *)
(* handler has left to write is what the area still lacks.                 *)
THEOREM VisitInvariant == VisitSpec => []VisitInv
<1>1. VisitInit => \A a \in Areas \ troubled : AreaInv(a)
  BY DEF VisitInit, AreaInv, MidOn, PlanOn, Settled, Live, Closed, Of
<1>2. /\ GateInv /\ (\A a \in Areas \ troubled : AreaInv(a)) /\ [VisitNext]_visitVars
      => (\A a \in Areas \ troubled : AreaInv(a))'
  <2> SUFFICES ASSUME GateInv, \A a \in Areas \ troubled : AreaInv(a), [VisitNext]_visitVars,
                      NEW a \in Areas, a \notin troubled'
               PROVE  AreaInv(a)'
    OBVIOUS
  <2>1. AreaInv(a)
    BY TroubleStays
  <2>2. QED
    BY <2>1, AreaStep
<1>3. QED
  BY <1>1, <1>2, VisitGates, PTL DEF VisitSpec, VisitInv

(* Once nobody is at work on an area that no trouble came to, its status   *)
(* tells what became of its visits.                                        *)
THEOREM AreasFollowTheirVisits == VisitSpec => []AreaFollowsVisits
<1>1. VisitInv => AreaFollowsVisits
  <2> SUFFICES ASSUME VisitInv, NEW a \in Areas \ troubled,
                      \A d \in Desks : plan[d] = NoPlan \/ plan[d].area # a
               PROVE  LET done == {v \in Of(a) : visit[v].status \in Approved} IN
                      /\ area[a] = IF done # {} THEN "COMPLETED"
                                   ELSE IF Live(a) # {} THEN "IN_PROGRESS" ELSE "AVAILABLE"
                      /\ \A v \in done : v \in baOpen /\ intake[v] = "SITE_VISIT"
    BY DEF AreaFollowsVisits
  <2>1. \A d \in Desks : ~MidOn(d, a)
    BY DEF MidOn, PlanOn
  <2>2. Settled(a)
    BY <2>1 DEF VisitInv, AreaInv
  <2>3. QED
    BY <2>2 DEF Settled, Closed
<1>2. QED
  BY <1>1, VisitInvariant, PTL

-----------------------------------------------------------------------------
(* A permit cluster and its documents.                                     *)

(* Steps that need nothing to have happened before: what completes a file, *)
(* sends it to the ISP or issues a request is not among them.              *)
Simple(s) ==
  /\ s \in ClusterStep /\ s.do \notin {"finish", "enter"}
  /\ s.doc = "bakp" =>
       s.to # "SUBMITTED_TO_ISP" /\ (s.to = "SUBMITTED_TO_ADMIN" => s.do = "write")
  /\ s.doc \in {"pr", "br"} => s.to # "ISSUED"

Simples(t) == t \in Seq(ClusterStep) /\ t # <<>> /\ \A i \in DOMAIN t : Simple(t[i])

(* The others, each in the only list of steps it occurs in.                *)
Paying == <<Write("invoice", "PAID"), Finish>>
Issuing == { <<Write(doc, "ISSUED"), CountIssued>> : doc \in {"pr", "br"} }
ToIsp == <<Write("bakp", "SUBMITTED_TO_ISP")>>

(* A phase is entered, and then the record it works on is opened.          *)
OpeningStep(o) == [do |-> "init", doc |-> o[1], to |-> o[2]]
Entering(t) ==
  /\ t \in Seq(ClusterStep) /\ t # <<>> /\ t[1].do = "enter"
  /\ \A i \in DOMAIN t : i # 1 => Simple(t[i])
  /\ Opening(t[1].to) # <<>> => Len(t) > 1 /\ t[2] = OpeningStep(Opening(t[1].to))

(* What a clerk may have to do when S are the seals.                       *)
TaskInv(t, S) ==
  \/ Simples(t)
  \/ Entering(t)
  \/ t = Paying
  \/ t = <<Finish>> /\ "paid" \in S
  \/ t \in Issuing
  \/ t = ToIsp /\ "pm" \in S

TasksInv == \A c \in Clerks : clerk[c] # NoTask => TaskInv(clerk[c], seals)

SealInv ==
  /\ record.bakp = "SUBMITTED_TO_ADMIN" => "pm" \in seals
  /\ record.bakp = "SUBMITTED_TO_ISP" => {"pm", "admin"} \subseteq seals

ClusterInv == ClusterTypeOK /\ SealInv /\ PermitsEndReviewed /\ TasksInv

(* A clerk is still going to open a document of this kind.                 *)
GoingToOpen(t, doc) == \E i \in DOMAIN t : t[i].doc = doc /\ t[i].do \in {"init", "insert"}
Opened(doc) ==
  \/ record[doc] # "absent"
  \/ \E c \in Clerks : clerk[c] # NoTask /\ GoingToOpen(clerk[c], doc)

(* The phase at hand works on a record of this kind.                       *)
WorksOn(ph, doc) == Opening(ph) # <<>> /\ Opening(ph)[1] = doc
PhaseInv == \A doc \in Documents \ {"bak"} : WorksOn(cluster.phase, doc) => Opened(doc)

(* A clerk is still going to count what is issued, or did and moves on.    *)
GoingToMove(t) == \E i \in DOMAIN t : t[i] \in {CountIssued, Advance("CONTRACT_MANAGEMENT")}
Counting == \E c \in Clerks : clerk[c] # NoTask /\ GoingToMove(clerk[c])
IssueInv == BothIssued => Opened("contract") \/ Counting

RecordsInv == ClusterInv /\ (jumped \/ cut \/ (PhaseInv /\ IssueInv))

(* The steps that the handlers are made of.                                *)
LEMMA SimpleSteps ==
  /\ \A doc \in Documents \ {"bakp", "pr", "br"}, to \in RecordStatuses \ {"absent"} :
       Simple(Write(doc, to)) /\ Simple(Ensure(doc, to)) /\ Simple(Insert(doc, to))
  /\ \A doc \in {"bakp", "pr", "br"} :
       Simple(Ensure(doc, "DRAFT")) /\ Simple(Insert(doc, "DRAFT"))
  /\ \A to \in RecordStatuses \ {"absent", "SUBMITTED_TO_ISP"} : Simple(Write("bakp", to))
  /\ \A to \in ClusterPhases : Simple(Advance(to)) /\ Simple(Set(to))
  /\ Simple(Hold) /\ Simple(CountIssued)
<1> USE DEF Simple, ClusterStep
<1>1. ASSUME NEW doc \in Documents \ {"bakp", "pr", "br"}, NEW to \in RecordStatuses \ {"absent"}
      PROVE  Simple(Write(doc, to)) /\ Simple(Ensure(doc, to)) /\ Simple(Insert(doc, to))
  BY DEF Write, Ensure, Insert
<1>2. ASSUME NEW doc \in {"bakp", "pr", "br"}
      PROVE  Simple(Ensure(doc, "DRAFT")) /\ Simple(Insert(doc, "DRAFT"))
  BY DEF Ensure, Insert, Documents, RecordStatuses, SUBMIT_STATES
<1>3. ASSUME NEW to \in RecordStatuses \ {"absent", "SUBMITTED_TO_ISP"} PROVE Simple(Write("bakp", to))
  BY DEF Write, Documents
<1>4. ASSUME NEW to \in ClusterPhases PROVE Simple(Advance(to)) /\ Simple(Set(to))
  BY DEF Advance, Set
<1>5. Simple(Hold) /\ Simple(CountIssued)
  BY DEF Hold, CountIssued
<1>6. QED
  BY <1>1, <1>2, <1>3, <1>4, <1>5

(* And lists of them.                                                      *)
LEMMA SimpleTodos ==
  /\ \A a : Simple(a) => Simples(<<a>>)
  /\ \A a, b : Simple(a) /\ Simple(b) => Simples(<<a, b>>)
  /\ \A a, b, c : Simple(a) /\ Simple(b) /\ Simple(c) => Simples(<<a, b, c>>)
  /\ \A a, b, c, d :
       Simple(a) /\ Simple(b) /\ Simple(c) /\ Simple(d) => Simples(<<a, b, c, d>>)
<1>1. \A a : Simple(a) => a \in ClusterStep
  BY DEF Simple
<1>2. QED
  BY <1>1 DEF Simples

(* And what is put together of such lists.                                 *)
LEMMA SimpleJoin ==
  ASSUME NEW s \in Seq(ClusterStep), NEW t \in Seq(ClusterStep),
         Simples(s), t = <<>> \/ Simples(t)
  PROVE  Simples(s \o t)
BY DEF Simples

(* What the handlers leave to do: the documents on the way to the designs. *)
LEMMA EarlyHandlers ==
  /\ \A h \in SurveySteps \cup SipDrafts \cup SipDecisions \cup PackageHandlers
             \cup {GenerateBaSurvey, SipSubmit} : Simples(h.todo)
  /\ \A h \in HldDrafts \cup HldReviews \cup HldDecisions \cup {HldSubmit} : Simples(h.todo)
  /\ \A h \in LldDrafts \cup LldDecisions \cup LldReviews : Simples(h.todo)
  /\ \A h \in ApdHandlers \cup AbdHandlers : Simples(h.todo)
<1> DEFINE D == Documents \ {"bakp", "pr", "br"}
           S == RecordStatuses \ {"absent"}
<1> USE SimpleSteps, SimpleTodos DEF Handler, Opens, Moves, MovesOn
<1>1. {"survey", "sip", "package", "hld", "lld", "apd", "abd"} \subseteq D
  BY DEF Documents
<1>2. {"IN_PROGRESS", "COMPLETED", "DRAFT", "FILLED", "SUBMITTED", "APPROVED",
       "ISP_REVISION", "REJECTED", "ASSEMBLING", "PM_APPROVED", "PM_REJECTED",
       "ADMIN_APPROVED", "ADMIN_REJECTED", "WAITING_INPUT", "PENDING_ISP",
       "SUBMITTED_FOR_REVIEW", "ISP_APPROVED", "SUBMITTED_FOR_DRM", "REVISION_REQUIRED",
       "SUBMITTED_TO_ISP", "ISP_REVISION_REQUIRED"} \subseteq S
  BY DEF RecordStatuses, SUBMIT_STATES, ContractStates, BakpStatuses
<1>3. {"SITE_VISIT", "SURVEY_INPUT", "ROUTE_SURVEY", "BA_SURVEY", "SIP_REQUEST",
       "HLD_SUBMISSION", "LLD_SUBMISSION", "PR_BR_ISSUANCE"} \subseteq ClusterPhases
  BY DEF ClusterPhases
<1>4. \A h \in SurveySteps : Simples(h.todo)
  BY <1>1, <1>2, <1>3 DEF SurveySteps
<1>5. \A h \in SipDrafts \cup SipDecisions : Simples(h.todo)
  BY <1>1, <1>2, <1>3 DEF SipDrafts, SipDecisions
<1>6. \A h \in PackageHandlers : Simples(h.todo)
  BY <1>1, <1>2, <1>3 DEF PackageHandlers
<1>7. \A h \in HldDrafts \cup HldReviews \cup HldDecisions : Simples(h.todo)
  BY <1>1, <1>2, <1>3 DEF HldDrafts, HldReviews, HldDecisions
<1>8. \A h \in LldDrafts \cup LldDecisions \cup LldReviews : Simples(h.todo)
  BY <1>1, <1>2, <1>3 DEF LldDrafts, LldDecisions, LldReviews
<1>9. \A h \in ApdHandlers \cup AbdHandlers : Simples(h.todo)
  BY <1>1, <1>2, <1>3 DEF ApdHandlers, AbdHandlers
<1>10. Simples(GenerateBaSurvey.todo) /\ Simples(SipSubmit.todo) /\ Simples(HldSubmit.todo)
  BY <1>1, <1>2, <1>3 DEF GenerateBaSurvey, SipSubmit, HldSubmit
<1>11. QED
  BY <1>4, <1>5, <1>6, <1>7, <1>8, <1>9, <1>10

(* From the requests to the residents' agreement.                          *)
LEMMA MiddleHandlers ==
  /\ \A h \in Requests \cup UploadPrBr \cup ReviewPrBr \cup WorkflowPo : Simples(h.todo)
  /\ \A h \in ContractHandlers \cup SkomReviews \cup SkomGmReview \cup SkomDisbursements :
       Simples(h.todo)
  /\ \A h \in SocializationHandlers \cup CompensationHandlers : Simples(h.todo)
  /\ \A h \in ApproveBak \cup {ValidateSignature} \cup ScomHandlers : Simples(h.todo)
<1> DEFINE D == Documents \ {"bakp", "pr", "br"}
           S == RecordStatuses \ {"absent"}
<1> USE SimpleSteps, SimpleTodos DEF Handler, Opens, Moves, MovesOn
<1>1. {"workflow", "contract", "skom", "socialization", "compensation", "bak", "scom"} \subseteq D
  BY DEF Documents
<1>2. {"DRAFT", "PENDING_UPLOAD", "UPLOADED", "ADMIN_APPROVED", "ADMIN_REJECTED", "PO_CREATED",
       "OPS_APPROVED", "OPS_REJECTED", "PENDING_OPS_MANAGER", "PENDING_GM", "APPROVED",
       "REJECTED", "PENDING_OPS_APPROVAL", "PENDING_GM_APPROVAL", "GM_APPROVED",
       "GM_REJECTED", "DISBURSED", "PENDING", "AGREED", "NEGOTIATING", "AUTO_APPROVED",
       "PENDING_APPROVAL", "SIGNATURES_VALID", "OPEN", "COMPLETE"} \subseteq S
  BY DEF RecordStatuses, SUBMIT_STATES, ContractStates, BakpStatuses
<1>3. {"PR_BR_ISSUANCE", "CONTRACT_MANAGEMENT", "SKOM_BUDGET", "MANAGEMENT_APPROVAL",
       "FUND_DISBURSEMENT", "BAK_GENERATION", "BAKP_COMPILATION"} \subseteq ClusterPhases
  BY DEF ClusterPhases
<1>4. \A h \in Requests : Simples(h.todo)
  BY <1>3 DEF Requests
<1>5. \A h \in UploadPrBr \cup ReviewPrBr : Simples(h.todo)
  BY <1>1, <1>2, <1>3 DEF UploadPrBr, ReviewPrBr
<1>6. \A h \in WorkflowPo : Simples(h.todo)
  BY <1>1, <1>2, <1>3 DEF WorkflowPo
<1>7. \A h \in ContractHandlers : Simples(h.todo)
  BY <1>1, <1>2, <1>3 DEF ContractHandlers, ContractStates
<1>8. \A h \in SkomReviews : Simples(h.todo)
  BY <1>1, <1>2, <1>3 DEF SkomReviews
<1>9. \A h \in SkomGmReview \cup SkomDisbursements : Simples(h.todo)
  BY <1>1, <1>2, <1>3 DEF SkomGmReview, SkomDisbursements
<1>10. \A h \in SocializationHandlers : Simples(h.todo)
  BY <1>1, <1>2, <1>3 DEF SocializationHandlers
<1>11. \A h \in CompensationHandlers : Simples(h.todo)
  <2> DEFINE Asks(s) == Handler("compensation", Existing,
                                <<Write("compensation", "AGREED")>> \o GenerateBak(s))
             Makes(s) == Handler("compensation", {"AGREED"}, GenerateBak(s))
             Begins == Opens("compensation", {"CONTRACT_MANAGEMENT"},
                             <<Insert("compensation", "NEGOTIATING")>>)
  <2>1. Simples(Begins.todo)
    BY <1>1, <1>2
  <2>2. ASSUME NEW s \in {"AUTO_APPROVED", "PENDING_APPROVAL"}
        PROVE  Simples(Asks(s).todo) /\ Simples(Makes(s).todo)
    <3>1. Simples(GenerateBak(s))
      BY <1>1, <1>2, <1>3 DEF GenerateBak
    <3>2. Simples(<<Write("compensation", "AGREED")>>)
      BY <1>1, <1>2
    <3>3. Simples(<<Write("compensation", "AGREED")>> \o GenerateBak(s))
      BY <3>1, <3>2, SimpleJoin DEF Simples
    <3>4. QED
      BY <3>1, <3>3
  <2>3. CompensationHandlers = {Begins} \cup
          UNION { {Asks(s), Makes(s)} : s \in {"AUTO_APPROVED", "PENDING_APPROVAL"} }
    BY DEF CompensationHandlers
  <2> HIDE DEF Asks, Makes, Begins
  <2>4. QED
    BY <2>1, <2>2, <2>3
<1>12. \A h \in ApproveBak \cup {ValidateSignature} \cup ScomHandlers : Simples(h.todo)
  BY <1>1, <1>2, <1>3 DEF ApproveBak, ValidateSignature, ScomHandlers
<1>13. QED
  BY <1>4, <1>5, <1>6, <1>7, <1>8, <1>9, <1>10, <1>11, <1>12

(* The agreement, the BAKP, the claim and the invoice; only what ends in   *)
(* completion, or at the ISP, is not simple.                               *)
LEMMA LateHandlers ==
  /\ \A h \in AgreementForms \cup AgreementUploads \cup AgreementReviews : Simples(h.todo)
  /\ \A h \in BakpPmReview \cup BakpAdminReview \cup UploadPaymentProof :
       \/ Simples(h.todo)
       \/ /\ h.todo = ToIsp /\ h.doc = "bakp"
          /\ h.from \in { {"SUBMITTED_TO_ADMIN"}, {"SUBMITTED_TO_ISP"} }
  /\ \A h \in ValidateBakp \cup {InitBakp} : Simples(h.todo)
  /\ \A h \in ClaimDrafts \cup ClaimReviews \cup InvoiceReviews \cup {CheckAllApprovedAndAdvance} :
       Simples(h.todo)
<1> DEFINE D == Documents \ {"bakp", "pr", "br"}
           S == RecordStatuses \ {"absent"}
           B == BakpStatuses \ {"SUBMITTED_TO_ISP"}
<1> USE SimpleSteps, SimpleTodos DEF Handler, Opens, Moves, MovesOn
<1>1. {"agreement", "claim", "invoice"} \subseteq D
  BY DEF Documents
<1>2. {"DRAFT", "FORM_COMPLETE", "PDF_GENERATED", "PM_REVIEW", "ADMIN_REVIEW", "PM_REJECTED",
       "ADMIN_REJECTED", "APPROVED", "SUBMITTED_FOR_REVIEW", "REVISION_REQUIRED",
       "SUBMITTED"} \subseteq S
  BY DEF RecordStatuses, SUBMIT_STATES, ContractStates, BakpStatuses
<1>3. {"BAKP_COMPILATION", "CLAIM_SUBMISSION", "INVOICE_PACKAGE"} \subseteq ClusterPhases
  BY DEF ClusterPhases
<1>4. \A to \in B : Simple(Write("bakp", to))
  BY DEF RecordStatuses, BakpStatuses
<1>5. {"SUBMITTED_TO_PM", "SUBMITTED_TO_ADMIN", "REJECTED_BY_PM", "REJECTED_BY_ADMIN",
       "DONE"} \subseteq B
  BY DEF BakpStatuses
<1>6. \A h \in AgreementForms \cup AgreementUploads : Simples(h.todo)
  BY <1>1, <1>2, <1>3 DEF AgreementForms, AgreementUploads
<1>7. \A h \in AgreementReviews : Simples(h.todo)
  BY <1>1, <1>2, <1>3 DEF AgreementReviews
<1>8. \A h \in BakpPmReview : Simples(h.todo)
  BY <1>4, <1>5 DEF BakpPmReview
<1>9. \A h \in BakpAdminReview :
        \/ Simples(h.todo)
        \/ h.todo = ToIsp /\ h.doc = "bakp" /\ h.from = {"SUBMITTED_TO_ADMIN"}
  BY <1>4, <1>5 DEF BakpAdminReview, ToIsp
<1>10. \A h \in UploadPaymentProof :
         \/ Simples(h.todo)
         \/ h.todo = ToIsp /\ h.doc = "bakp" /\ h.from = {"SUBMITTED_TO_ISP"}
  BY <1>4 DEF UploadPaymentProof, ToIsp
<1>11. \A h \in ValidateBakp \cup {InitBakp} : Simples(h.todo)
  BY <1>3, <1>4, <1>5 DEF ValidateBakp, InitBakp
<1>12. \A h \in ClaimDrafts \cup ClaimReviews \cup InvoiceReviews : Simples(h.todo)
  BY <1>1, <1>2, <1>3 DEF ClaimDrafts, ClaimReviews, InvoiceReviews
<1>13. Simples(CheckAllApprovedAndAdvance.todo)
  BY <1>1, <1>2, <1>3 DEF CheckAllApprovedAndAdvance
<1>14. QED
  BY <1>6, <1>7, <1>8, <1>9, <1>10, <1>11, <1>12, <1>13

(* What a handler leaves to do.                                            *)
Fine(h) ==
  \/ Simples(h.todo) \/ h.todo = Paying \/ h.todo \in Issuing
  \/ /\ h.todo = ToIsp /\ h.doc = "bakp"
     /\ h.from \in { {"SUBMITTED_TO_ADMIN"}, {"SUBMITTED_TO_ISP"} }

(* Every handler does.                                                     *)
LEMMA TodosOfHandlers == \A h \in Handlers : Fine(h)
<1> DEFINE Sets ==
      { SurveySteps, SipDrafts, SipDecisions, PackageHandlers, HldDrafts, HldReviews,
        HldDecisions, LldDrafts, LldDecisions, LldReviews, ApdHandlers, AbdHandlers,
        Requests, UploadPrBr, ReviewPrBr, WorkflowPo, ContractHandlers, SkomReviews,
        SkomGmReview, SkomDisbursements, SocializationHandlers, CompensationHandlers,
        ApproveBak, ScomHandlers, AgreementForms, AgreementUploads, AgreementReviews,
        BakpPmReview, BakpAdminReview, UploadPaymentProof, ValidateBakp, ClaimDrafts,
        ClaimReviews, InvoiceReviews }
           Others ==
      { GenerateBaSurvey, SipSubmit, HldSubmit, MarkIssued("pr"), MarkIssued("br"),
        ValidateSignature, InitBakp, CheckAllApprovedAndAdvance, RecordPayment }
<1>1. Handlers = (UNION Sets) \cup Others
  BY DEF Handlers
<1>2. \A S \in Sets : \A h \in S : Fine(h)
  BY EarlyHandlers, MiddleHandlers, LateHandlers DEF Fine
<1>3. \A h \in Others : Fine(h)
  <2>1. MarkIssued("pr").todo \in Issuing /\ MarkIssued("br").todo \in Issuing
    BY DEF MarkIssued, Handler, Issuing
  <2>2. RecordPayment.todo = Paying
    BY DEF RecordPayment, Handler, Paying
  <2>3. QED
    BY <2>1, <2>2, EarlyHandlers, MiddleHandlers, LateHandlers DEF Fine
<1> HIDE DEF Sets, Others
<1>4. SUFFICES ASSUME NEW h \in Handlers PROVE Fine(h)
  OBVIOUS
<1>5. CASE h \in Others
  BY <1>3, <1>5
<1>6. CASE h \in UNION Sets
  <2>1. PICK S \in Sets : h \in S
    BY <1>6
  <2>2. QED
    BY <1>2, <2>1
<1>7. QED
  BY <1>1, <1>5, <1>6

(* The steps of a cluster's handlers are of their kind.                    *)
LEMMA TasksAreSteps ==
  ASSUME NEW t, NEW S, TaskInv(t, S)
  PROVE  t \in Seq(ClusterStep) /\ t # <<>>
<1>1. CASE Simples(t)
  BY <1>1 DEF Simples
<1>2. CASE Entering(t)
  BY <1>2 DEF Entering
<1>3. Finish \in ClusterStep /\ CountIssued \in ClusterStep
  BY DEF Finish, ClusterStep, ClusterPhases
<1>4. /\ Write("invoice", "PAID") \in ClusterStep
      /\ \A doc \in {"pr", "br"} : Write(doc, "ISSUED") \in ClusterStep
      /\ Write("bakp", "SUBMITTED_TO_ISP") \in ClusterStep
  BY DEF Write, ClusterStep, Documents, RecordStatuses, BakpStatuses
<1>5. CASE t = Paying
  BY <1>3, <1>4, <1>5 DEF Paying
<1>6. CASE t = <<Finish>>
  BY <1>3, <1>6
<1>7. CASE t \in Issuing
  <2>1. PICK doc \in {"pr", "br"} : t = <<Write(doc, "ISSUED"), CountIssued>>
    BY <1>7 DEF Issuing
  <2>2. Write(doc, "ISSUED") \in ClusterStep
    BY <1>4
  <2>3. QED
    BY <1>3, <2>1, <2>2
<1>8. CASE t = ToIsp
  BY <1>4, <1>8 DEF ToIsp
<1>9. QED
  BY <1>1, <1>2, <1>5, <1>6, <1>7, <1>8 DEF TaskInv

(* What is left of simple steps is simple.                                 *)
LEMMA SimpleRest ==
  ASSUME NEW t, Simples(t)
  PROVE  /\ Simple(Head(t)) /\ Head(t) = t[1]
         /\ Tail(t) \in Seq(ClusterStep) /\ (Tail(t) = <<>> \/ Simples(Tail(t)))
<1>1. t \in Seq(ClusterStep) /\ t # <<>>
  BY DEF Simples
<1>2. Tail(t) \in Seq(ClusterStep) /\ \A i \in DOMAIN Tail(t) : i + 1 \in DOMAIN t /\ Tail(t)[i] = t[i + 1]
  BY <1>1
<1>3. QED
  BY <1>1, <1>2 DEF Simples

(* A write: of an approved BAKP sent to the ISP only with the PM's seal.   *)
LEMMA WritesOfTasks ==
  ASSUME NEW t, NEW S, TaskInv(t, S), Head(t).do = "write"
  PROVE  /\ Head(t).doc \in Documents /\ Head(t).to \in RecordStatuses \ {"absent"}
         /\ Head(t).doc = "bakp" /\ Head(t).to = "SUBMITTED_TO_ISP" => "pm" \in S
         /\ \/ Tail(t) = <<>>
            \/ TaskInv(Tail(t), S \cup Seal(Head(t).doc, Head(t).to))
         /\ Head(t).doc \in {"pr", "br"} /\ Head(t).to = "ISSUED" => Tail(t) = <<CountIssued>>
<1>1. CASE Simples(t)
  BY <1>1, SimpleRest DEF Simple, ClusterStep, Hold, CountIssued, TaskInv
<1>2. CASE Entering(t)
  BY <1>2 DEF Entering
<1>3. CASE t = Paying
  <2>1. Head(t) = Write("invoice", "PAID") /\ Tail(t) = <<Finish>>
    BY <1>3 DEF Paying
  <2>2. QED
    BY <2>1 DEF Write, Seal, TaskInv, Documents, RecordStatuses
<1>4. CASE t = <<Finish>>
  BY <1>4 DEF Finish
<1>5. CASE t \in Issuing
  <2>1. PICK doc \in {"pr", "br"} : t = <<Write(doc, "ISSUED"), CountIssued>>
    BY <1>5 DEF Issuing
  <2>2. Head(t) = Write(doc, "ISSUED") /\ Tail(t) = <<CountIssued>>
    BY <2>1
  <2>3. Simples(<<CountIssued>>)
    BY SimpleSteps, SimpleTodos
  <2>4. TaskInv(Tail(t), S \cup Seal(Head(t).doc, Head(t).to))
    BY <2>2, <2>3 DEF TaskInv
  <2>5. Head(t).doc = doc /\ Head(t).to = "ISSUED"
    BY <2>2 DEF Write
  <2>6. QED
    BY <2>2, <2>4, <2>5 DEF Documents, RecordStatuses
<1>6. CASE t = ToIsp /\ "pm" \in S
  <2>1. Head(t) = Write("bakp", "SUBMITTED_TO_ISP") /\ Tail(t) = <<>>
    BY <1>6 DEF ToIsp
  <2>2. QED
    BY <1>6, <2>1 DEF Write, Documents, RecordStatuses, BakpStatuses
<1>7. QED
  BY <1>1, <1>2, <1>3, <1>4, <1>5, <1>6 DEF TaskInv

(* Every other step but the entering of a phase and the completion is      *)
(* simple, and so is what follows it.                                      *)
LEMMA StepsOfTasks ==
  ASSUME NEW t, NEW S, TaskInv(t, S), Head(t).do # "write"
  PROVE  /\ Tail(t) \in Seq(ClusterStep) /\ (Tail(t) = <<>> \/ Simples(Tail(t)))
         /\ \/ Head(t).do = "enter" /\ Entering(t)
            \/ t = <<Finish>> /\ "paid" \in S
            \/ Simple(Head(t)) /\ Simples(t)
<1>1. CASE Simples(t)
  BY <1>1, SimpleRest
<1>2. CASE Entering(t)
  <2>1. t \in Seq(ClusterStep) /\ t # <<>>
    BY <1>2 DEF Entering
  <2>2. Tail(t) \in Seq(ClusterStep) /\ \A i \in DOMAIN Tail(t) : i + 1 \in DOMAIN t /\ i + 1 # 1 /\ Tail(t)[i] = t[i + 1]
    BY <2>1
  <2>3. Head(t) = t[1]
    BY <2>1
  <2>4. QED
    BY <1>2, <2>1, <2>2, <2>3 DEF Entering, Simples
<1>3. CASE t = Paying
  BY <1>3 DEF Paying, Write
<1>4. CASE t = <<Finish>> /\ "paid" \in S
  BY <1>4
<1>5. CASE t \in Issuing
  BY <1>5 DEF Issuing, Write
<1>6. CASE t = ToIsp
  BY <1>6 DEF ToIsp, Write
<1>7. QED
  BY <1>1, <1>2, <1>3, <1>4, <1>5, <1>6 DEF TaskInv

(* Seals that were put stay, and tasks that rest on them with them.        *)
LEMMA SealsStay ==
  ASSUME NEW t, NEW S, NEW R, S \subseteq R, TaskInv(t, S)
  PROVE  TaskInv(t, R)
BY DEF TaskInv

(* A clerk that goes on, or begins, with a task keeps all tasks in order.  *)
LEMMA ClerkGoesOn ==
  ASSUME ClusterTypeOK, TasksInv, NEW c \in Clerks, NEW t, t = <<>> \/ TaskInv(t, seals'),
         seals \subseteq seals', Goes(c, t)
  PROVE  /\ clerk' \in [Clerks -> Seq(ClusterStep) \cup {NoTask}]
         /\ \A d \in Clerks : clerk'[d] # <<>>
         /\ TasksInv'
<1> DEFINE new == IF t = <<>> THEN NoTask ELSE t
<1>1. clerk' = [clerk EXCEPT ![c] = new]
  BY DEF Goes
<1>2. new = NoTask \/ (new \in Seq(ClusterStep) /\ new # <<>> /\ TaskInv(new, seals'))
  BY TasksAreSteps
<1>3. NoTask # <<>>
  <2>1. <<>> \in Seq(ClusterStep)
    OBVIOUS
  <2>2. QED
    BY <2>1, ClusterAssumption
<1>4. /\ clerk \in [Clerks -> Seq(ClusterStep) \cup {NoTask}]
      /\ \A d \in Clerks : clerk[d] # <<>>
  BY DEF ClusterTypeOK
<1> HIDE DEF new
<1>5. \A d \in Clerks : clerk'[d] = IF d = c THEN new ELSE clerk[d]
  BY <1>1, <1>4
<1>6. clerk' \in [Clerks -> Seq(ClusterStep) \cup {NoTask}]
  BY <1>1, <1>2, <1>4
<1>7. \A d \in Clerks : clerk'[d] # <<>>
  BY <1>2, <1>3, <1>4, <1>5
<1>8. ASSUME NEW d \in Clerks, clerk'[d] # NoTask PROVE TaskInv(clerk'[d], seals')
  <2>1. CASE d = c
    BY <1>2, <1>5, <1>8, <2>1
  <2>2. CASE d # c
    BY <1>5, <1>8, <2>2, SealsStay DEF TasksInv
  <2>3. QED
    BY <2>1, <2>2
<1>9. QED
  BY <1>6, <1>7, <1>8 DEF TasksInv

(* A clerk that stops leaves the others as they were.                      *)
LEMMA ClerkStops ==
  ASSUME ClusterTypeOK, TasksInv, NEW c \in Clerks, UNCHANGED seals,
         clerk' = [clerk EXCEPT ![c] = NoTask]
  PROVE  /\ clerk' \in [Clerks -> Seq(ClusterStep) \cup {NoTask}]
         /\ \A d \in Clerks : clerk'[d] # <<>>
         /\ TasksInv'
BY ClerkGoesOn DEF Goes

(* Who is at a step has one, and it is of his task.                        *)
LEMMA ClerkAtStep ==
  ASSUME ClusterTypeOK, TasksInv, NEW c \in Clerks, clerk[c] # NoTask
  PROVE  /\ TaskInv(clerk[c], seals)
         /\ clerk[c] \in Seq(ClusterStep) /\ clerk[c] # <<>>
         /\ Head(clerk[c]) \in ClusterStep
BY TasksAreSteps DEF TasksInv

(* A handler starts only on a document in a status it accepts.             *)
LEMMA StartHandlerKeeps ==
  ASSUME ClusterInv, NEW c \in Clerks, StartHandler(c)
  PROVE  ClusterInv'
<1> USE DEF ClusterInv
<1>1. PICK d \in file : \E h \in HandlersOf[d] : Accepts(h) /\ clerk' = [clerk EXCEPT ![c] = h.todo]
  BY DEF StartHandler
<1>2. d \in Documents
  BY ClusterAssumption DEF ClusterTypeOK
<1>3. PICK h \in HandlersOf[d] : Accepts(h) /\ clerk' = [clerk EXCEPT ![c] = h.todo]
  BY <1>1
<1>4. h \in Handlers
  BY <1>2, <1>3 DEF HandlersOf
<1>5. Fine(h)
  BY <1>4, TodosOfHandlers
<1>6. h.todo = ToIsp => "pm" \in seals
  BY <1>3, <1>5 DEF Fine, Accepts, SealInv, Existing, ToIsp, Simples, Simple, Paying, Issuing, Write
<1>7. TaskInv(h.todo, seals)
  BY <1>5, <1>6 DEF Fine, TaskInv
<1>8. UNCHANGED <<cluster, record, file, seals, jumped, cut>>
  BY DEF StartHandler
<1>9. Goes(c, h.todo)
  BY <1>3, <1>7, TasksAreSteps DEF Goes
<1>10. /\ clerk' \in [Clerks -> Seq(ClusterStep) \cup {NoTask}]
       /\ \A e \in Clerks : clerk'[e] # <<>>
       /\ TasksInv'
  BY <1>7, <1>8, <1>9, ClerkGoesOn
<1>11. QED
  BY <1>8, <1>10 DEF ClusterTypeOK, SealInv, PermitsEndReviewed

(* Writing a document puts the seal the writing is worth.                  *)
LEMMA WriteRecordKeeps ==
  ASSUME ClusterInv, NEW c \in Clerks, WriteRecord(c)
  PROVE  ClusterInv'
<1> USE DEF ClusterInv
<1> DEFINE s == Head(clerk[c])
<1>1. /\ clerk[c] # NoTask /\ s.do = "write"
      /\ record' = [record EXCEPT ![s.doc] = s.to]
      /\ seals' = seals \cup Seal(s.doc, s.to)
      /\ Goes(c, Tail(clerk[c]))
      /\ UNCHANGED <<cluster, file, jumped, cut>>
  BY DEF WriteRecord, At, Rest
<1>2. TaskInv(clerk[c], seals)
  BY <1>1, ClerkAtStep
<1>3. /\ s.doc \in Documents /\ s.to \in RecordStatuses \ {"absent"}
      /\ s.doc = "bakp" /\ s.to = "SUBMITTED_TO_ISP" => "pm" \in seals
      /\ Tail(clerk[c]) = <<>> \/ TaskInv(Tail(clerk[c]), seals \cup Seal(s.doc, s.to))
  BY <1>1, <1>2, WritesOfTasks
<1> HIDE DEF s
<1>4. seals \subseteq seals' /\ seals' \subseteq {"pm", "admin", "paid"}
  BY <1>1 DEF ClusterTypeOK, Seal
<1>5. /\ clerk' \in [Clerks -> Seq(ClusterStep) \cup {NoTask}]
      /\ \A e \in Clerks : clerk'[e] # <<>>
      /\ TasksInv'
  BY <1>1, <1>3, <1>4, ClerkGoesOn
<1>6. record' \in [Documents -> RecordStatuses]
  BY <1>1, <1>3 DEF ClusterTypeOK
<1>7. SealInv'
  <2>1. "bakp" \in Documents
    BY DEF Documents
  <2>2. CASE s.doc = "bakp"
    <3>1. record'.bakp = s.to
      BY <1>1, <2>1, <2>2 DEF ClusterTypeOK
    <3>2. QED
      BY <1>1, <1>3, <2>2, <3>1 DEF SealInv, Seal
  <2>3. CASE s.doc # "bakp"
    <3>1. record'.bakp = record.bakp
      BY <1>1, <2>1, <2>3 DEF ClusterTypeOK
    <3>2. QED
      BY <1>4, <3>1 DEF SealInv
  <2>4. QED
    BY <2>2, <2>3
<1>8. QED
  BY <1>1, <1>4, <1>5, <1>6, <1>7 DEF ClusterTypeOK, PermitsEndReviewed

(* What a simple step that creates a document creates.                     *)
LEMMA CreatedSimply ==
  ASSUME NEW s, Simple(s), s.do \in {"ensure", "insert", "init"}
  PROVE  /\ s.doc \in Documents /\ s.to \in RecordStatuses \ {"absent"}
         /\ s.doc = "bakp" => s.to \notin {"SUBMITTED_TO_ADMIN", "SUBMITTED_TO_ISP"}
         /\ s.doc \in {"pr", "br"} => s.to # "ISSUED"
BY DEF Simple, ClusterStep, Hold, CountIssued

(* Creating a document that needs no seal.                                 *)
LEMMA CreationKeepsSeals ==
  ASSUME ClusterTypeOK, SealInv, NEW s, Simple(s), s.do \in {"ensure", "insert", "init"},
         UNCHANGED seals,
         record' = [record EXCEPT ![s.doc] = IF @ = "absent" THEN s.to ELSE @]
  PROVE  record' \in [Documents -> RecordStatuses] /\ SealInv'
<1>1. /\ s.doc \in Documents /\ s.to \in RecordStatuses
      /\ s.doc = "bakp" => s.to \notin {"SUBMITTED_TO_ADMIN", "SUBMITTED_TO_ISP"}
  BY CreatedSimply
<1>2. record \in [Documents -> RecordStatuses] /\ "bakp" \in Documents
  BY DEF ClusterTypeOK, Documents
<1>3. record' = [record EXCEPT ![s.doc] = IF record[s.doc] = "absent" THEN s.to ELSE record[s.doc]]
  OBVIOUS
<1>4. record' \in [Documents -> RecordStatuses]
  BY <1>1, <1>2, <1>3
<1>5. record'.bakp = record.bakp \/ (s.doc = "bakp" /\ record'.bakp = s.to)
  BY <1>1, <1>2, <1>3
<1>6. QED
  BY <1>1, <1>4, <1>5 DEF SealInv

(* A document is created if it is missing.                                 *)
LEMMA EnsureRecordKeeps ==
  ASSUME ClusterInv, NEW c \in Clerks, EnsureRecord(c)
  PROVE  ClusterInv'
<1> USE DEF ClusterInv
<1> DEFINE s == Head(clerk[c])
<1>1. /\ clerk[c] # NoTask /\ s.do = "ensure"
      /\ record' = [record EXCEPT ![s.doc] = IF @ = "absent" THEN s.to ELSE @]
      /\ Goes(c, Tail(clerk[c]))
      /\ UNCHANGED <<cluster, file, seals, jumped, cut>>
  BY DEF EnsureRecord, At, Rest
<1>2. TaskInv(clerk[c], seals)
  BY <1>1, ClerkAtStep
<1>3. Simple(s) /\ (Tail(clerk[c]) = <<>> \/ Simples(Tail(clerk[c])))
  BY <1>1, <1>2, StepsOfTasks DEF Finish
<1>4. /\ clerk' \in [Clerks -> Seq(ClusterStep) \cup {NoTask}]
      /\ \A e \in Clerks : clerk'[e] # <<>>
      /\ TasksInv'
  BY <1>1, <1>3, ClerkGoesOn DEF TaskInv
<1>5. record' \in [Documents -> RecordStatuses] /\ SealInv'
  BY <1>1, <1>3, CreationKeepsSeals
<1>6. QED
  BY <1>1, <1>4, <1>5 DEF ClusterTypeOK, PermitsEndReviewed

(* Or inserted, unless somebody else inserted it.                          *)
LEMMA InsertRecordKeeps ==
  ASSUME ClusterInv, NEW c \in Clerks, InsertRecord(c)
  PROVE  ClusterInv'
<1> USE DEF ClusterInv
<1> DEFINE s == Head(clerk[c])
<1>1. /\ clerk[c] # NoTask /\ s.do = "insert"
      /\ UNCHANGED <<cluster, file, seals, jumped>>
  BY DEF InsertRecord, At
<1>2. TaskInv(clerk[c], seals)
  BY <1>1, ClerkAtStep
<1>3. Simple(s) /\ (Tail(clerk[c]) = <<>> \/ Simples(Tail(clerk[c])))
  BY <1>1, <1>2, StepsOfTasks DEF Finish
<1>4. CASE record[s.doc] = "absent"
  <2>1. /\ record' = [record EXCEPT ![s.doc] = s.to]
        /\ Goes(c, Tail(clerk[c])) /\ UNCHANGED cut
    BY <1>4 DEF InsertRecord, Rest
  <2>2. record' = [record EXCEPT ![s.doc] = IF @ = "absent" THEN s.to ELSE @]
    BY <1>4, <2>1
  <2>3. /\ clerk' \in [Clerks -> Seq(ClusterStep) \cup {NoTask}]
        /\ \A e \in Clerks : clerk'[e] # <<>>
        /\ TasksInv'
    BY <1>1, <1>3, <2>1, ClerkGoesOn DEF TaskInv
  <2>4. record' \in [Documents -> RecordStatuses] /\ SealInv'
    BY <1>1, <1>3, <2>2, CreationKeepsSeals
  <2>5. QED
    BY <1>1, <2>1, <2>3, <2>4 DEF ClusterTypeOK, PermitsEndReviewed
<1>5. CASE record[s.doc] # "absent"
  <2>1. clerk' = [clerk EXCEPT ![c] = NoTask] /\ cut' \in BOOLEAN /\ UNCHANGED record
    BY <1>5 DEF InsertRecord, Throws, ClusterTypeOK
  <2>2. /\ clerk' \in [Clerks -> Seq(ClusterStep) \cup {NoTask}]
        /\ \A e \in Clerks : clerk'[e] # <<>>
        /\ TasksInv'
    BY <1>1, <2>1, ClerkStops
  <2>3. QED
    BY <1>1, <2>1, <2>2 DEF ClusterTypeOK, PermitsEndReviewed, SealInv
<1>6. QED
  BY <1>4, <1>5

(* The records of the phases.                                              *)
LEMMA OpeningsAreSimple ==
  ASSUME NEW to, Opening(to) # <<>>
  PROVE  /\ OpensRecord(to) = <<OpeningStep(Opening(to))>>
         /\ Simple(OpeningStep(Opening(to)))
         /\ OpeningStep(Opening(to)).doc = Opening(to)[1]
         /\ OpeningStep(Opening(to)).do = "init"
<1>1. OpensRecord(to) = <<OpeningStep(Opening(to))>>
  BY DEF OpensRecord, OpeningStep
<1>2. /\ Opening(to)[1] \in {"hld", "lld", "bak", "bakp", "workflow", "contract", "skom",
                             "claim", "invoice"}
      /\ Opening(to)[2] \in {"WAITING_INPUT", "DRAFT", "PENDING_UPLOAD"}
  BY DEF Opening
<1>3. Simple(OpeningStep(Opening(to)))
  BY <1>2 DEF Simple, OpeningStep, ClusterStep, Documents, RecordStatuses, SUBMIT_STATES
<1>4. QED
  BY <1>1, <1>3 DEF OpeningStep

(* Entering a phase, and what follows it.                                  *)
LEMMA EnteringAPhase ==
  ASSUME NEW to \in ClusterPhases, NEW t \in Seq(ClusterStep), t = <<>> \/ Simples(t)
  PROVE  Entering(<<[do |-> "enter", doc |-> "cluster", to |-> to]>> \o OpensRecord(to) \o t)
<1> DEFINE e == [do |-> "enter", doc |-> "cluster", to |-> to]
           o == OpeningStep(Opening(to))
<1>1. e \in ClusterStep /\ e.do = "enter" /\ e.to = to
  BY DEF ClusterStep
<1>2. \A i \in DOMAIN t : Simple(t[i])
  BY DEF Simples
<1>3. CASE Opening(to) = <<>>
  <2>1. <<e>> \o OpensRecord(to) \o t = <<e>> \o t
    BY <1>1, <1>3 DEF OpensRecord
  <2> HIDE DEF e
  <2>2. Entering(<<e>> \o t)
    BY <1>1, <1>2, <1>3 DEF Entering
  <2>3. QED
    BY <2>1, <2>2 DEF e
<1>4. CASE Opening(to) # <<>>
  <2>1. OpensRecord(to) = <<o>> /\ Simple(o)
    BY <1>4, OpeningsAreSimple
  <2>2. o \in ClusterStep
    BY <2>1 DEF Simple
  <2> HIDE DEF e, o
  <2>3. Entering(<<e>> \o <<o>> \o t)
    <3>1. <<e>> \o <<o>> \o t \in Seq(ClusterStep)
      BY <1>1, <2>2
    <3>2. /\ (<<e>> \o <<o>> \o t)[1] = e /\ (<<e>> \o <<o>> \o t)[2] = o
          /\ Len(<<e>> \o <<o>> \o t) = Len(t) + 2
      BY <1>1, <2>2
    <3>3. \A i \in DOMAIN (<<e>> \o <<o>> \o t) : i > 2 => i - 2 \in DOMAIN t /\ (<<e>> \o <<o>> \o t)[i] = t[i - 2]
      BY <1>1, <2>2
    <3> DEFINE u == <<e>> \o <<o>> \o t
    <3> HIDE DEF u
    <3>4. Entering(u)
      BY <1>1, <1>2, <2>1, <3>1, <3>2, <3>3 DEF Entering, u, o
    <3>5. QED
      BY <3>4 DEF u
  <2>4. QED
    BY <2>1, <2>3 DEF e
<1>5. QED
  BY <1>3, <1>4

(* advancePhaseInternal reads the phase, and enters it with its record.    *)
LEMMA ReadPhaseKeeps ==
  ASSUME ClusterInv, NEW c \in Clerks, ReadPhase(c)
  PROVE  ClusterInv'
<1> USE DEF ClusterInv
<1> DEFINE s == Head(clerk[c])
           rest == Tail(clerk[c])
           enter == <<[do |-> "enter", doc |-> "cluster", to |-> s.to]>> \o OpensRecord(s.to) \o rest
<1>1. /\ clerk[c] # NoTask /\ s.do = "advance"
      /\ Goes(c, IF cluster.phase = s.to THEN rest ELSE enter)
      /\ UNCHANGED <<cluster, record, file, seals, jumped, cut>>
  BY DEF ReadPhase, At, Rest
<1>2. TaskInv(clerk[c], seals)
  BY <1>1, ClerkAtStep
<1>3. Simple(s) /\ rest \in Seq(ClusterStep) /\ (rest = <<>> \/ Simples(rest))
  BY <1>1, <1>2, StepsOfTasks DEF Finish
<1>4. s.to \in ClusterPhases
  BY <1>1, <1>3 DEF Simple, ClusterStep, Hold, CountIssued
<1>5. Entering(enter)
  BY <1>3, <1>4, EnteringAPhase
<1> DEFINE next == IF cluster.phase = s.to THEN rest ELSE enter
<1>6. next = <<>> \/ TaskInv(next, seals')
  BY <1>1, <1>3, <1>5 DEF TaskInv
<1>7. Goes(c, next)
  BY <1>1
<1> HIDE DEF next
<1>8. /\ clerk' \in [Clerks -> Seq(ClusterStep) \cup {NoTask}]
      /\ \A e \in Clerks : clerk'[e] # <<>>
      /\ TasksInv'
  BY <1>1, <1>6, <1>7, ClerkGoesOn
<1>9. QED
  BY <1>1, <1>8 DEF ClusterTypeOK, SealInv, PermitsEndReviewed

(* The cluster is finished only behind a payment.                          *)
LEMMA WriteClusterKeeps ==
  ASSUME ClusterInv, NEW c \in Clerks, WriteCluster(c)
  PROVE  ClusterInv'
<1> USE DEF ClusterInv
<1> DEFINE s == Head(clerk[c])
           rest == Tail(clerk[c])
<1>1. /\ clerk[c] # NoTask /\ s.do \in {"enter", "set", "hold", "finish"}
      /\ cluster' = [phase |-> IF s.do = "hold" THEN cluster.phase ELSE s.to,
                     status |-> CASE s.do = "hold" -> "ON_HOLD"
                                  [] s.do = "finish" -> "COMPLETED"
                                  [] OTHER -> cluster.status]
      /\ jumped' = (jumped \/ s.do = "set")
      /\ Goes(c, rest)
      /\ UNCHANGED <<record, file, seals, cut>>
  BY DEF WriteCluster, At, Rest
<1>2. TaskInv(clerk[c], seals) /\ s \in ClusterStep
  BY <1>1, ClerkAtStep
<1>3. /\ rest = <<>> \/ Simples(rest)
      /\ s.do = "finish" => "paid" \in seals
  BY <1>1, <1>2, StepsOfTasks DEF Finish, Simple
<1>4. s.do # "hold" => s.to \in ClusterPhases
  BY <1>1, <1>2 DEF ClusterStep, Hold, CountIssued
<1>5. /\ clerk' \in [Clerks -> Seq(ClusterStep) \cup {NoTask}]
      /\ \A e \in Clerks : clerk'[e] # <<>>
      /\ TasksInv'
  BY <1>1, <1>3, ClerkGoesOn DEF TaskInv
<1> HIDE DEF s
<1>6. /\ cluster' \in [phase : ClusterPhases, status : {"IN_PROGRESS", "ON_HOLD", "COMPLETED"}]
      /\ cluster'.status = "COMPLETED" => cluster.status = "COMPLETED" \/ s.do = "finish"
  BY <1>1, <1>4 DEF ClusterTypeOK
<1>7. jumped' \in BOOLEAN
  BY <1>1
<1>8. QED
  BY <1>1, <1>3, <1>5, <1>6, <1>7 DEF ClusterTypeOK, SealInv, PermitsEndReviewed

(* initHldForCluster and its siblings decide whether to insert.            *)
LEMMA InitRecordKeeps ==
  ASSUME ClusterInv, NEW c \in Clerks, InitRecord(c)
  PROVE  ClusterInv'
<1> USE DEF ClusterInv
<1> DEFINE s == Head(clerk[c])
           rest == Tail(clerk[c])
           found == record[s.doc] # "absent" \/ (s.doc = "bak" /\ record.compensation = "absent")
           next == IF found THEN rest ELSE <<Insert(s.doc, s.to)>> \o rest
<1>1. /\ clerk[c] # NoTask /\ s.do = "init"
      /\ Goes(c, next)
      /\ UNCHANGED <<cluster, record, file, seals, jumped, cut>>
  BY DEF InitRecord, At, Rest
<1>2. TaskInv(clerk[c], seals)
  BY <1>1, ClerkAtStep
<1>3. Simple(s) /\ rest \in Seq(ClusterStep) /\ (rest = <<>> \/ Simples(rest))
  BY <1>1, <1>2, StepsOfTasks DEF Finish
<1>4. Simple(Insert(s.doc, s.to))
  BY <1>1, <1>3, CreatedSimply DEF Insert, Simple, ClusterStep
<1>5. <<Insert(s.doc, s.to)>> \o rest = <<Insert(s.doc, s.to)>> \/ Simples(<<Insert(s.doc, s.to)>> \o rest)
  <2>1. Simples(<<Insert(s.doc, s.to)>>) /\ Insert(s.doc, s.to) \in ClusterStep
    BY <1>4, SimpleTodos DEF Simple
  <2>2. <<Insert(s.doc, s.to)>> \in Seq(ClusterStep)
    BY <2>1
  <2>3. QED
    BY <1>3, <2>1, <2>2, SimpleJoin
<1>6. next = <<>> \/ TaskInv(next, seals')
  BY <1>3, <1>4, <1>5, SimpleTodos DEF TaskInv
<1> HIDE DEF next
<1>7. /\ clerk' \in [Clerks -> Seq(ClusterStep) \cup {NoTask}]
      /\ \A e \in Clerks : clerk'[e] # <<>>
      /\ TasksInv'
  BY <1>1, <1>6, ClerkGoesOn
<1>8. QED
  BY <1>1, <1>7 DEF ClusterTypeOK, SealInv, PermitsEndReviewed

(* Whoever issued a request counts what is issued.                         *)
LEMMA GroupIssuedKeeps ==
  ASSUME ClusterInv, NEW c \in Clerks, GroupIssued(c)
  PROVE  ClusterInv'
<1> USE DEF ClusterInv
<1> DEFINE rest == Tail(clerk[c])
           move == Advance("CONTRACT_MANAGEMENT")
           next == (IF BothIssued THEN <<move>> ELSE <<>>) \o rest
<1>1. /\ clerk[c] # NoTask /\ Head(clerk[c]).do = "countIssued"
      /\ Goes(c, next)
      /\ UNCHANGED <<cluster, record, file, seals, jumped, cut>>
  BY DEF GroupIssued, At, Rest
<1>2. TaskInv(clerk[c], seals)
  BY <1>1, ClerkAtStep
<1>3. rest \in Seq(ClusterStep) /\ (rest = <<>> \/ Simples(rest))
  BY <1>1, <1>2, StepsOfTasks DEF Finish
<1>4. Simple(move) /\ Simples(<<move>>)
  BY SimpleSteps, SimpleTodos DEF ClusterPhases
<1>5. <<move>> \in Seq(ClusterStep)
  BY <1>4 DEF Simples
<1>6. Simples(<<move>> \o rest)
  BY <1>3, <1>4, <1>5, SimpleJoin
<1>7. next = <<>> \/ TaskInv(next, seals')
  <2>1. <<>> \o rest = rest
    BY <1>3
  <2>2. QED
    BY <1>3, <1>6, <2>1 DEF TaskInv
<1> HIDE DEF next
<1>8. /\ clerk' \in [Clerks -> Seq(ClusterStep) \cup {NoTask}]
      /\ \A e \in Clerks : clerk'[e] # <<>>
      /\ TasksInv'
  BY <1>1, <1>7, ClerkGoesOn
<1>9. QED
  BY <1>1, <1>8 DEF ClusterTypeOK, SealInv, PermitsEndReviewed

(* A handler dies.                                                         *)
LEMMA StopKeeps ==
  ASSUME ClusterInv, NEW c \in Clerks, Stop(c)
  PROVE  ClusterInv'
<1>1. /\ clerk' = [clerk EXCEPT ![c] = NoTask] /\ cut' = TRUE
      /\ UNCHANGED <<cluster, record, file, seals, jumped>>
  BY DEF Stop
<1>2. QED
  BY <1>1, ClerkStops DEF ClusterInv, ClusterTypeOK, SealInv, PermitsEndReviewed

(* The ISP's answer and the manual override, in one transaction each.      *)
LEMMA RecordIspDecisionKeeps ==
  ASSUME ClusterInv, NEW accept \in BOOLEAN, RecordIspDecision(accept)
  PROVE  ClusterInv'
<1>1. /\ record.bakp = "SUBMITTED_TO_ISP"
      /\ record' = [record EXCEPT !.bakp = IF accept THEN "DONE" ELSE "REJECTED_BY_ISP"]
      /\ cluster' = IF accept THEN [phase |-> "PERMIT_DONE", status |-> "COMPLETED"] ELSE cluster
      /\ UNCHANGED <<file, clerk, seals, jumped, cut>>
  BY DEF RecordIspDecision, ReachedIsp
<1>2. "bakp" \in Documents /\ {"DONE", "REJECTED_BY_ISP"} \subseteq RecordStatuses
      /\ "PERMIT_DONE" \in ClusterPhases
  BY DEF Documents, RecordStatuses, BakpStatuses, ClusterPhases
<1>3. record' \in [Documents -> RecordStatuses] /\ record'.bakp \in {"DONE", "REJECTED_BY_ISP"}
  BY <1>1, <1>2 DEF ClusterInv, ClusterTypeOK
<1>4. QED
  BY <1>1, <1>2, <1>3 DEF ClusterInv, ClusterTypeOK, SealInv, PermitsEndReviewed, TasksInv

(* Setting the phase by hand touches no seal and completes nothing.        *)
LEMMA OverridePhaseKeeps ==
  ASSUME ClusterInv, NEW ph \in Overrides, OverridePhase(ph)
  PROVE  ClusterInv'
<1>1. /\ cluster' = [cluster EXCEPT !.phase = ph]
      /\ record' = [record EXCEPT !.workflow =
                      IF ph = "PR_BR_ISSUANCE" /\ record.workflow = "absent"
                      THEN "PENDING_UPLOAD" ELSE record.workflow]
      /\ jumped' = TRUE
      /\ UNCHANGED <<file, clerk, seals, cut>>
  BY DEF OverridePhase
<1>2. ph \in ClusterPhases /\ "PENDING_UPLOAD" \in RecordStatuses
      /\ {"workflow", "bakp"} \subseteq Documents
  BY ClusterAssumption DEF RecordStatuses, Documents
<1>3. record' \in [Documents -> RecordStatuses] /\ record'.bakp = record.bakp
  BY <1>1, <1>2 DEF ClusterInv, ClusterTypeOK
<1>4. QED
  BY <1>1, <1>2, <1>3 DEF ClusterInv, ClusterTypeOK, SealInv, PermitsEndReviewed, TasksInv

(* Initially nobody is at work.                                            *)
LEMMA ClusterInitially == ClusterInit => ClusterInv
<1> SUFFICES ASSUME ClusterInit PROVE ClusterInv
  OBVIOUS
<1>2. NoTask # <<>>
  <2>1. <<>> \in Seq(ClusterStep)
    OBVIOUS
  <2>2. QED
    BY <2>1, ClusterAssumption
<1>3. "SITE_VISIT" \in ClusterPhases /\ "absent" \in RecordStatuses
      /\ "bakp" \in Documents
  BY DEF ClusterPhases, RecordStatuses, Documents
<1>4. ClusterTypeOK
  BY <1>2, <1>3 DEF ClusterInit, ClusterTypeOK
<1>5. QED
  BY <1>3, <1>4 DEF ClusterInit, ClusterInv, SealInv, PermitsEndReviewed, TasksInv

(* Every step keeps the invariant.                                         *)
LEMMA ClusterInvIsInductive == ClusterInv /\ [ClusterNext]_clusterVars => ClusterInv'
<1> SUFFICES ASSUME ClusterInv, [ClusterNext]_clusterVars PROVE ClusterInv'
  OBVIOUS
<1>1. ASSUME NEW c \in Clerks,
             \/ StartHandler(c) \/ WriteRecord(c) \/ EnsureRecord(c) \/ InsertRecord(c)
             \/ ReadPhase(c) \/ WriteCluster(c) \/ InitRecord(c) \/ GroupIssued(c) \/ Stop(c)
      PROVE  ClusterInv'
  BY <1>1, StartHandlerKeeps, WriteRecordKeeps, EnsureRecordKeeps, InsertRecordKeeps,
     ReadPhaseKeeps, WriteClusterKeeps, InitRecordKeeps, GroupIssuedKeeps, StopKeeps
<1>2. ASSUME NEW accept \in BOOLEAN, RecordIspDecision(accept) PROVE ClusterInv'
  BY <1>2, RecordIspDecisionKeeps
<1>3. ASSUME NEW ph \in Overrides, OverridePhase(ph) PROVE ClusterInv'
  BY <1>3, OverridePhaseKeeps
<1>4. CASE UNCHANGED clusterVars
  BY <1>4 DEF clusterVars, ClusterInv, ClusterTypeOK, SealInv, PermitsEndReviewed, TasksInv
<1>5. QED
  BY <1>1, <1>2, <1>3, <1>4 DEF ClusterNext

(* The invariant holds whatever handlers overlap, throw or die.            *)
THEOREM ClusterInvariant == ClusterSpec => []ClusterInv
BY ClusterInitially, ClusterInvIsInductive, PTL DEF ClusterSpec

(* A cluster is completed only behind the PM's and the administration's    *)
(* approval of its BAKP, or behind the payment of its invoice.             *)
THEOREM PermitsAreReviewed == ClusterSpec => []PermitsEndReviewed
<1>1. ClusterInv => PermitsEndReviewed
  BY DEF ClusterInv
<1>2. QED
  BY <1>1, ClusterInvariant, PTL

-----------------------------------------------------------------------------
(* What a clerk was going to do is done, or still to be done.              *)

(* A step is the first of a list or among the rest.                        *)
LEMMA GoingOn ==
  ASSUME NEW t \in Seq(ClusterStep), t # <<>>, NEW p \in Seq(ClusterStep)
  PROVE  /\ \A doc : \/ GoingToOpen(t, doc) => GoingToOpen(p \o Tail(t), doc)
                     \/ Head(t).doc = doc /\ Head(t).do \in {"init", "insert"}
         /\ \/ GoingToMove(t) => GoingToMove(p \o Tail(t))
            \/ Head(t) \in {CountIssued, Advance("CONTRACT_MANAGEMENT")}
         /\ \A doc : GoingToOpen(p, doc) => GoingToOpen(p \o Tail(t), doc)
         /\ GoingToMove(p) => GoingToMove(p \o Tail(t))
<1> DEFINE u == p \o Tail(t)
<1>1. Head(t) = t[1]
  OBVIOUS
<1>2. \A i \in DOMAIN t : i # 1 => Len(p) + i - 1 \in DOMAIN u /\ u[Len(p) + i - 1] = t[i]
  OBVIOUS
<1>3. \A i \in DOMAIN p : i \in DOMAIN u /\ u[i] = p[i]
  OBVIOUS
<1> HIDE DEF u
<1>4. ASSUME NEW doc, GoingToOpen(t, doc), ~ (Head(t).doc = doc /\ Head(t).do \in {"init", "insert"})
      PROVE  GoingToOpen(u, doc)
  <2>1. PICK i \in DOMAIN t : t[i].doc = doc /\ t[i].do \in {"init", "insert"}
    BY <1>4 DEF GoingToOpen
  <2>2. i # 1
    BY <1>1, <1>4, <2>1
  <2>3. QED
    BY <1>2, <2>1, <2>2 DEF GoingToOpen
<1>5. ASSUME GoingToMove(t), Head(t) \notin {CountIssued, Advance("CONTRACT_MANAGEMENT")}
      PROVE  GoingToMove(u)
  <2>1. PICK i \in DOMAIN t : t[i] \in {CountIssued, Advance("CONTRACT_MANAGEMENT")}
    BY <1>5 DEF GoingToMove
  <2>2. i # 1
    BY <1>1, <1>5, <2>1
  <2>3. QED
    BY <1>2, <2>1, <2>2 DEF GoingToMove
<1>6. \A doc : GoingToOpen(p, doc) => GoingToOpen(u, doc)
  BY <1>3 DEF GoingToOpen
<1>7. GoingToMove(p) => GoingToMove(u)
  BY <1>3 DEF GoingToMove
<1>8. QED
  BY <1>4, <1>5, <1>6, <1>7 DEF u

(* A clerk does a step and puts others before the rest.                    *)
LEMMA PendingStays ==
  ASSUME ClusterInv, NEW c \in Clerks, clerk[c] # NoTask, NEW p \in Seq(ClusterStep),
         Goes(c, p \o Tail(clerk[c])),
         \A doc \in Documents : record[doc] # "absent" => record'[doc] # "absent"
  PROVE  /\ \A doc \in Documents :
              \/ Opened(doc) => Opened(doc)'
              \/ Head(clerk[c]).doc = doc /\ Head(clerk[c]).do \in {"init", "insert"}
         /\ \/ Counting => Counting'
            \/ Head(clerk[c]) \in {CountIssued, Advance("CONTRACT_MANAGEMENT")}
         /\ \A doc : GoingToOpen(p, doc) => Opened(doc)'
         /\ GoingToMove(p) => Counting'
<1> DEFINE t == clerk[c]
           u == p \o Tail(t)
           new == IF u = <<>> THEN NoTask ELSE u
<1>1. clerk \in [Clerks -> Seq(ClusterStep) \cup {NoTask}]
  BY DEF ClusterInv, ClusterTypeOK
<1>2. t \in Seq(ClusterStep) /\ t # <<>>
  BY ClerkAtStep DEF ClusterInv
<1>3. clerk' = [clerk EXCEPT ![c] = new]
  BY DEF Goes
<1>4. \A d \in Clerks : clerk'[d] = IF d = c THEN new ELSE clerk[d]
  <2> HIDE DEF new
  <2>1. QED
    BY <1>1, <1>3
<1>5. u \in Seq(ClusterStep)
  BY <1>2
<1>6. /\ \A doc : GoingToOpen(u, doc) => u # <<>>
      /\ GoingToMove(u) => u # <<>>
  BY <1>5 DEF GoingToOpen, GoingToMove
<1>7. u # <<>> => new = u /\ new # NoTask
  BY <1>5, ClusterAssumption
<1>8. /\ \A doc : GoingToOpen(u, doc) => Opened(doc)'
      /\ GoingToMove(u) => Counting'
  <2> HIDE DEF u, new
  <2>1. clerk'[c] = new
    BY <1>4
  <2>2. QED
    BY <1>6, <1>7, <2>1 DEF Opened, Counting
<1>9. /\ \A doc : \/ GoingToOpen(t, doc) => GoingToOpen(u, doc)
                  \/ Head(t).doc = doc /\ Head(t).do \in {"init", "insert"}
      /\ \/ GoingToMove(t) => GoingToMove(u)
         \/ Head(t) \in {CountIssued, Advance("CONTRACT_MANAGEMENT")}
      /\ \A doc : GoingToOpen(p, doc) => GoingToOpen(u, doc)
      /\ GoingToMove(p) => GoingToMove(u)
  BY <1>2, GoingOn
<1> HIDE DEF u, new, t
<1>10. ASSUME NEW doc \in Documents, Opened(doc),
              ~ (Head(t).doc = doc /\ Head(t).do \in {"init", "insert"})
       PROVE  Opened(doc)'
  <2>1. CASE record[doc] # "absent"
    BY <2>1 DEF Opened
  <2>2. CASE \E d \in Clerks : clerk[d] # NoTask /\ GoingToOpen(clerk[d], doc)
    <3>1. PICK d \in Clerks : clerk[d] # NoTask /\ GoingToOpen(clerk[d], doc)
      BY <2>2
    <3>2. CASE d = c
      BY <1>8, <1>9, <1>10, <3>1, <3>2 DEF t
    <3>3. CASE d # c
      <4>1. clerk'[d] = clerk[d]
        BY <1>4, <3>3
      <4>2. QED
        BY <3>1, <4>1 DEF Opened
    <3>4. QED
      BY <3>2, <3>3
  <2>3. QED
    BY <1>10, <2>1, <2>2 DEF Opened
<1>11. ASSUME Counting, Head(t) \notin {CountIssued, Advance("CONTRACT_MANAGEMENT")}
       PROVE  Counting'
  <2>1. PICK d \in Clerks : clerk[d] # NoTask /\ GoingToMove(clerk[d])
    BY <1>11 DEF Counting
  <2>2. CASE d = c
    BY <1>8, <1>9, <1>11, <2>1, <2>2 DEF t
  <2>3. CASE d # c
    <3>1. clerk'[d] = clerk[d]
      BY <1>4, <2>3
    <3>2. QED
      BY <2>1, <3>1 DEF Counting
  <2>4. QED
    BY <2>2, <2>3
<1>12. QED
  BY <1>8, <1>9, <1>10, <1>11 DEF t

(* What a step must keep for the records to follow the phase.              *)
LEMMA RecordsKept ==
  ASSUME PhaseInv, IssueInv,
         \A doc \in Documents \ {"bak"} : Opened(doc) => Opened(doc)',
         \/ cluster'.phase = cluster.phase
         \/ \A doc \in Documents \ {"bak"} : WorksOn(cluster'.phase, doc) => Opened(doc)',
         BothIssued' => BothIssued \/ Counting',
         Counting => Counting' \/ ~ BothIssued' \/ Opened("contract")'
  PROVE  PhaseInv' /\ IssueInv'
<1>1. PhaseInv'
  BY DEF PhaseInv
<1>2. "contract" \in Documents \ {"bak"}
  BY DEF Documents
<1>3. IssueInv'
  BY <1>2 DEF IssueInv
<1>4. QED
  BY <1>1, <1>3

(* A document that exists is written, not taken away.                      *)
LEMMA DocumentsStay ==
  ASSUME ClusterTypeOK, NEW doc \in Documents, NEW to \in RecordStatuses \ {"absent"},
         \/ record' = [record EXCEPT ![doc] = to]
         \/ record' = [record EXCEPT ![doc] = IF @ = "absent" THEN to ELSE @]
  PROVE  /\ record'[doc] # "absent"
         /\ \A d \in Documents : record[d] # "absent" => record'[d] # "absent"
         /\ \A d \in Documents : record'[d] = record[d] \/ (d = doc /\ record'[d] = to)
<1>1. record \in [Documents -> RecordStatuses]
  BY DEF ClusterTypeOK
<1>2. CASE record' = [record EXCEPT ![doc] = to]
  BY <1>1, <1>2
<1>3. CASE record' = [record EXCEPT ![doc] = IF @ = "absent" THEN to ELSE @]
  <2>1. record' = [record EXCEPT ![doc] = IF record[doc] = "absent" THEN to ELSE record[doc]]
    BY <1>3
  <2>2. QED
    BY <1>1, <2>1
<1>4. QED
  BY <1>2, <1>3

(* Whoever starts was at rest.                                             *)
LEMMA StartHandlerKeepsRecords ==
  ASSUME ClusterInv, PhaseInv, IssueInv, NEW c \in Clerks, StartHandler(c)
  PROVE  PhaseInv' /\ IssueInv'
<1>1. PICK new : clerk' = [clerk EXCEPT ![c] = new]
  BY DEF StartHandler
<1>2. clerk[c] = NoTask /\ UNCHANGED <<cluster, record>>
  BY DEF StartHandler
<1>3. clerk \in [Clerks -> Seq(ClusterStep) \cup {NoTask}]
  BY DEF ClusterInv, ClusterTypeOK
<1>4. \A d \in Clerks : clerk[d] # NoTask => clerk'[d] = clerk[d]
  BY <1>1, <1>2, <1>3
<1>5. \A doc \in Documents \ {"bak"} : Opened(doc) => Opened(doc)'
  BY <1>2, <1>4 DEF Opened
<1>6. Counting => Counting'
  BY <1>4 DEF Counting
<1>7. BothIssued' => BothIssued
  BY <1>2 DEF BothIssued
<1>8. QED
  BY <1>2, <1>5, <1>6, <1>7, RecordsKept

(* Whoever issues a request counts afterwards.                             *)
LEMMA WriteRecordKeepsRecords ==
  ASSUME ClusterInv, PhaseInv, IssueInv, NEW c \in Clerks, WriteRecord(c)
  PROVE  PhaseInv' /\ IssueInv'
<1> DEFINE s == Head(clerk[c])
           rest == Tail(clerk[c])
<1>1. /\ clerk[c] # NoTask /\ s.do = "write"
      /\ record' = [record EXCEPT ![s.doc] = s.to]
      /\ Goes(c, rest)
      /\ UNCHANGED cluster
  BY DEF WriteRecord, At, Rest
<1>2. TaskInv(clerk[c], seals) /\ clerk[c] \in Seq(ClusterStep) /\ clerk[c] # <<>>
  BY <1>1, ClerkAtStep DEF ClusterInv
<1>3. /\ s.doc \in Documents /\ s.to \in RecordStatuses \ {"absent"}
      /\ s.doc \in {"pr", "br"} /\ s.to = "ISSUED" => rest = <<CountIssued>>
  BY <1>1, <1>2, WritesOfTasks
<1>4. /\ \A d \in Documents : record[d] # "absent" => record'[d] # "absent"
      /\ \A d \in Documents : record'[d] = record[d] \/ (d = s.doc /\ record'[d] = s.to)
  BY <1>1, <1>3, DocumentsStay DEF ClusterInv
<1>5. s \notin {CountIssued, Advance("CONTRACT_MANAGEMENT")}
  BY <1>1 DEF CountIssued, Advance
<1>6. <<>> \in Seq(ClusterStep) /\ <<>> \o rest = rest
  BY <1>2
<1>7. Goes(c, <<>> \o rest)
  BY <1>1, <1>6
<1>8. /\ \A doc \in Documents : Opened(doc) => Opened(doc)'
      /\ Counting => Counting'
  BY <1>1, <1>4, <1>5, <1>6, <1>7, PendingStays
<1>9. ASSUME BothIssued', ~ BothIssued PROVE Counting'
  <2>1. {"pr", "br"} \subseteq Documents
    BY DEF Documents
  <2>2. s.doc \in {"pr", "br"} /\ s.to = "ISSUED"
    BY <1>4, <1>9, <2>1 DEF BothIssued
  <2>3. rest = <<CountIssued>> /\ rest # <<>>
    BY <1>3, <2>2
  <2>4. clerk' = [clerk EXCEPT ![c] = rest]
    BY <1>1, <2>3 DEF Goes
  <2>5. clerk'[c] = rest
    BY <2>4 DEF ClusterInv, ClusterTypeOK
  <2>6. rest # NoTask
    BY <1>2, ClusterAssumption
  <2>7. GoingToMove(rest)
    <3>1. 1 \in DOMAIN <<CountIssued>> /\ <<CountIssued>>[1] = CountIssued
      OBVIOUS
    <3>2. QED
      BY <2>3, <3>1 DEF GoingToMove
  <2>8. QED
    BY <2>5, <2>6, <2>7 DEF Counting
<1>10. QED
  BY <1>1, <1>8, <1>9, RecordsKept

(* A document that is made sure of is never issued by it.                  *)
LEMMA EnsureRecordKeepsRecords ==
  ASSUME ClusterInv, PhaseInv, IssueInv, NEW c \in Clerks, EnsureRecord(c)
  PROVE  PhaseInv' /\ IssueInv'
<1> DEFINE s == Head(clerk[c])
           rest == Tail(clerk[c])
<1>1. /\ clerk[c] # NoTask /\ s.do = "ensure"
      /\ record' = [record EXCEPT ![s.doc] = IF @ = "absent" THEN s.to ELSE @]
      /\ Goes(c, rest)
      /\ UNCHANGED cluster
  BY DEF EnsureRecord, At, Rest
<1>2. TaskInv(clerk[c], seals) /\ clerk[c] \in Seq(ClusterStep) /\ clerk[c] # <<>>
  BY <1>1, ClerkAtStep DEF ClusterInv
<1>3. /\ s.doc \in Documents /\ s.to \in RecordStatuses \ {"absent"}
      /\ s.doc \in {"pr", "br"} => s.to # "ISSUED"
  BY <1>1, <1>2, StepsOfTasks, CreatedSimply DEF Finish
<1>4. /\ \A d \in Documents : record[d] # "absent" => record'[d] # "absent"
      /\ \A d \in Documents : record'[d] = record[d] \/ (d = s.doc /\ record'[d] = s.to)
  BY <1>1, <1>3, DocumentsStay DEF ClusterInv
<1>5. s \notin {CountIssued, Advance("CONTRACT_MANAGEMENT")}
  BY <1>1 DEF CountIssued, Advance
<1>6. <<>> \in Seq(ClusterStep) /\ <<>> \o rest = rest
  BY <1>2
<1>7. Goes(c, <<>> \o rest)
  BY <1>1, <1>6
<1>8. /\ \A doc \in Documents : Opened(doc) => Opened(doc)'
      /\ Counting => Counting'
  BY <1>1, <1>4, <1>5, <1>6, <1>7, PendingStays
<1>9. BothIssued' => BothIssued
  <2>1. {"pr", "br"} \subseteq Documents
    BY DEF Documents
  <2>2. QED
    BY <1>3, <1>4, <2>1 DEF BothIssued
<1>10. QED
  BY <1>1, <1>8, <1>9, RecordsKept

(* Whoever fails to insert found the document there.                       *)
LEMMA InsertRecordKeepsRecords ==
  ASSUME ClusterInv, PhaseInv, IssueInv, NEW c \in Clerks, InsertRecord(c), ~ cut'
  PROVE  PhaseInv' /\ IssueInv'
<1> DEFINE s == Head(clerk[c])
           rest == Tail(clerk[c])
<1>1. /\ clerk[c] # NoTask /\ s.do = "insert"
      /\ IF record[s.doc] = "absent"
         THEN record' = [record EXCEPT ![s.doc] = s.to] /\ Goes(c, rest)
         ELSE clerk' = [clerk EXCEPT ![c] = NoTask] /\ rest = <<>> /\ UNCHANGED record
      /\ UNCHANGED cluster
  BY DEF InsertRecord, At, Rest, Throws
<1>2. TaskInv(clerk[c], seals) /\ clerk[c] \in Seq(ClusterStep) /\ clerk[c] # <<>>
  BY <1>1, ClerkAtStep DEF ClusterInv
<1>3. /\ s.doc \in Documents /\ s.to \in RecordStatuses \ {"absent"}
      /\ s.doc \in {"pr", "br"} => s.to # "ISSUED"
  BY <1>1, <1>2, StepsOfTasks, CreatedSimply DEF Finish
<1>4. record' = [record EXCEPT ![s.doc] = s.to] \/ (UNCHANGED record /\ record[s.doc] # "absent")
  BY <1>1
<1>5. /\ \A d \in Documents : record[d] # "absent" => record'[d] # "absent"
      /\ \A d \in Documents : record'[d] = record[d] \/ (d = s.doc /\ record'[d] = s.to)
      /\ record'[s.doc] # "absent"
  BY <1>3, <1>4, DocumentsStay DEF ClusterInv
<1>6. s \notin {CountIssued, Advance("CONTRACT_MANAGEMENT")}
  BY <1>1 DEF CountIssued, Advance
<1>7. <<>> \in Seq(ClusterStep) /\ <<>> \o rest = rest
  BY <1>2
<1>8. Goes(c, <<>> \o rest)
  BY <1>1, <1>7 DEF Goes
<1>9. /\ \A doc \in Documents : (Opened(doc) => Opened(doc)') \/ s.doc = doc
      /\ Counting => Counting'
  BY <1>1, <1>5, <1>6, <1>7, <1>8, PendingStays
<1>10. \A doc \in Documents : Opened(doc) => Opened(doc)'
  BY <1>5, <1>9 DEF Opened
<1>11. BothIssued' => BothIssued
  <2>1. {"pr", "br"} \subseteq Documents
    BY DEF Documents
  <2>2. QED
    BY <1>3, <1>5, <2>1 DEF BothIssued
<1>12. QED
  BY <1>1, <1>9, <1>10, <1>11, RecordsKept

(* Whoever finds the phase set relies on who set it; whoever enters it is  *)
(* going to open its record.                                               *)
LEMMA ReadPhaseKeepsRecords ==
  ASSUME ClusterInv, PhaseInv, IssueInv, NEW c \in Clerks, ReadPhase(c)
  PROVE  PhaseInv' /\ IssueInv'
<1> DEFINE s == Head(clerk[c])
           rest == Tail(clerk[c])
           e == [do |-> "enter", doc |-> "cluster", to |-> s.to]
           p == IF cluster.phase = s.to THEN <<>> ELSE <<e>> \o OpensRecord(s.to)
<1>1. /\ clerk[c] # NoTask /\ s.do = "advance"
      /\ Goes(c, IF cluster.phase = s.to THEN rest ELSE <<e>> \o OpensRecord(s.to) \o rest)
      /\ UNCHANGED <<cluster, record>>
  BY DEF ReadPhase, At, Rest
<1>2. TaskInv(clerk[c], seals) /\ clerk[c] \in Seq(ClusterStep) /\ clerk[c] # <<>>
  BY <1>1, ClerkAtStep DEF ClusterInv
<1>3. s \in ClusterStep /\ rest \in Seq(ClusterStep)
  BY <1>2
<1>4. e \in ClusterStep
  <2>1. s.to \in ClusterPhases
    BY <1>1, <1>3 DEF ClusterStep, Hold, CountIssued
  <2>2. QED
    BY <2>1 DEF ClusterStep
<1>5. OpensRecord(s.to) \in Seq(ClusterStep)
  <2>1. CASE Opening(s.to) = <<>>
    BY <2>1 DEF OpensRecord
  <2>2. CASE Opening(s.to) # <<>>
    <3>1. /\ OpensRecord(s.to) = <<OpeningStep(Opening(s.to))>>
          /\ OpeningStep(Opening(s.to)) \in ClusterStep
      BY <2>2, OpeningsAreSimple DEF Simple
    <3>2. \A x \in ClusterStep : <<x>> \in Seq(ClusterStep)
      OBVIOUS
    <3> HIDE DEF s
    <3>3. QED
      BY <3>1, <3>2
  <2>3. QED
    BY <2>1, <2>2
<1>6. p \in Seq(ClusterStep) /\ Goes(c, p \o rest)
  <2>1. <<>> \o rest = rest /\ <<e>> \in Seq(ClusterStep)
    BY <1>3, <1>4
  <2>2. CASE cluster.phase = s.to
    BY <1>1, <2>1, <2>2
  <2>3. CASE cluster.phase # s.to
    <3>1. Goes(c, <<e>> \o OpensRecord(s.to) \o rest)
      BY <1>1, <2>3
    <3>2. p = <<e>> \o OpensRecord(s.to)
      BY <2>3
    <3> HIDE DEF e, p
    <3>3. <<e>> \o OpensRecord(s.to) \in Seq(ClusterStep)
      BY <1>5, <2>1
    <3>4. QED
      BY <3>1, <3>2, <3>3
  <2>4. QED
    BY <2>2, <2>3
<1>7. /\ \A doc \in Documents : Opened(doc) => Opened(doc)'
      /\ \/ Counting => Counting'
         \/ s \in {CountIssued, Advance("CONTRACT_MANAGEMENT")}
      /\ \A doc : GoingToOpen(p, doc) => Opened(doc)'
  BY <1>1, <1>6, PendingStays
<1>8. BothIssued' <=> BothIssued
  BY <1>1 DEF BothIssued
<1>9. CASE s.to = "CONTRACT_MANAGEMENT"
  <2>1. /\ Opening("CONTRACT_MANAGEMENT") # <<>>
        /\ Opening("CONTRACT_MANAGEMENT")[1] = "contract"
        /\ "contract" \in Documents \ {"bak"}
    BY DEF Opening, Documents
  <2>2. ASSUME cluster.phase = "CONTRACT_MANAGEMENT" PROVE Opened("contract")'
    BY <1>7, <2>1, <2>2 DEF PhaseInv, WorksOn
  <2>3. ASSUME cluster.phase # "CONTRACT_MANAGEMENT" PROVE Opened("contract")'
    <3> DEFINE o == OpeningStep(Opening("CONTRACT_MANAGEMENT"))
    <3>1. OpensRecord(s.to) = <<o>> /\ o.doc = "contract" /\ o.do = "init"
      BY <1>9, <2>1, OpeningsAreSimple
    <3> HIDE DEF e, o
    <3>2. p = <<e>> \o <<o>>
      BY <1>9, <2>3, <3>1
    <3>3. 2 \in DOMAIN (<<e>> \o <<o>>) /\ (<<e>> \o <<o>>)[2] = o
      OBVIOUS
    <3> HIDE DEF p
    <3>4. GoingToOpen(p, "contract")
      BY <3>1, <3>2, <3>3 DEF GoingToOpen
    <3>5. QED
      BY <1>7, <3>4
  <2>4. Opened("contract")'
    BY <2>2, <2>3
  <2>5. QED
    BY <1>1, <1>7, <1>8, <2>4, RecordsKept
<1>10. CASE s.to # "CONTRACT_MANAGEMENT"
  <2>1. s \notin {CountIssued, Advance("CONTRACT_MANAGEMENT")}
    BY <1>1, <1>10 DEF CountIssued, Advance
  <2>2. QED
    BY <1>1, <1>7, <1>8, <2>1, RecordsKept
<1>11. QED
  BY <1>9, <1>10

(* The record of the phase entered comes next.                             *)
LEMMA WriteClusterKeepsRecords ==
  ASSUME ClusterInv, PhaseInv, IssueInv, NEW c \in Clerks, WriteCluster(c), ~ jumped'
  PROVE  PhaseInv' /\ IssueInv'
<1> DEFINE s == Head(clerk[c])
           rest == Tail(clerk[c])
<1>1. /\ clerk[c] # NoTask /\ s.do \in {"enter", "hold", "finish"}
      /\ cluster'.phase = IF s.do = "hold" THEN cluster.phase ELSE s.to
      /\ Goes(c, rest)
      /\ UNCHANGED record
  BY DEF WriteCluster, At, Rest
<1>2. TaskInv(clerk[c], seals) /\ clerk[c] \in Seq(ClusterStep) /\ clerk[c] # <<>>
  BY <1>1, ClerkAtStep DEF ClusterInv
<1>3. <<>> \in Seq(ClusterStep) /\ <<>> \o rest = rest
  BY <1>2
<1>4. Goes(c, <<>> \o rest)
  BY <1>1, <1>3
<1>5. s \notin {CountIssued, Advance("CONTRACT_MANAGEMENT")}
  BY <1>1 DEF CountIssued, Advance
<1>6. /\ \A doc \in Documents : Opened(doc) => Opened(doc)'
      /\ Counting => Counting'
  BY <1>1, <1>3, <1>4, <1>5, PendingStays
<1>7. BothIssued' <=> BothIssued
  BY <1>1 DEF BothIssued
<1>8. CASE s.do = "hold"
  BY <1>1, <1>6, <1>7, <1>8, RecordsKept
<1>9. CASE s.do = "finish"
  <2>1. s = Finish
    BY <1>1, <1>2, <1>9, StepsOfTasks DEF Simple
  <2>2. cluster'.phase = "PERMIT_DONE"
    BY <1>1, <2>1 DEF Finish
  <2>3. \A doc : ~ WorksOn(cluster'.phase, doc)
    BY <2>2 DEF WorksOn, Opening
  <2>4. QED
    BY <1>6, <1>7, <2>3, RecordsKept
<1>10. CASE s.do = "enter"
  <2>1. Entering(clerk[c])
    BY <1>1, <1>2, <1>10, StepsOfTasks DEF Simple, Finish
  <2>2. ASSUME NEW doc \in Documents \ {"bak"}, WorksOn(cluster'.phase, doc)
        PROVE  Opened(doc)'
    <3>1. s = clerk[c][1] /\ cluster'.phase = s.to
      BY <1>1, <1>2, <1>10
    <3>2. Opening(s.to) # <<>> /\ Opening(s.to)[1] = doc
      BY <2>2, <3>1 DEF WorksOn
    <3>3. Len(clerk[c]) > 1 /\ clerk[c][2] = OpeningStep(Opening(s.to))
      BY <2>1, <3>1, <3>2 DEF Entering
    <3>4. rest # <<>> /\ 1 \in DOMAIN rest /\ rest[1] = clerk[c][2]
      <4>1. Len(rest) = Len(clerk[c]) - 1 /\ \A i \in 1 .. Len(rest) : rest[i] = clerk[c][i + 1]
        BY <1>2
      <4>2. 1 \in 1 .. Len(rest) /\ 1 .. Len(rest) = DOMAIN rest /\ rest \in Seq(ClusterStep)
        BY <1>2, <3>3, <4>1
      <4> HIDE DEF rest
      <4>3. rest # <<>>
        BY <4>2
      <4>4. rest[1] = clerk[c][1 + 1]
        BY <4>1, <4>2
      <4>5. QED
        BY <4>2, <4>3, <4>4
    <3>5. rest[1].doc = doc /\ rest[1].do = "init"
      BY <3>2, <3>3, <3>4 DEF OpeningStep
    <3>6. GoingToOpen(rest, doc)
      BY <3>4, <3>5 DEF GoingToOpen
    <3>7. clerk' = [clerk EXCEPT ![c] = rest]
      BY <1>1, <3>4 DEF Goes
    <3>8. clerk'[c] = rest /\ rest # NoTask
      BY <1>2, <3>7, ClusterAssumption DEF ClusterInv, ClusterTypeOK
    <3>9. QED
      BY <3>6, <3>8 DEF Opened
  <2>3. QED
    BY <1>6, <1>7, <2>2, RecordsKept
<1>11. QED
  BY <1>1, <1>8, <1>9, <1>10

(* Whoever finds no record is going to insert it.                          *)
LEMMA InitRecordKeepsRecords ==
  ASSUME ClusterInv, PhaseInv, IssueInv, NEW c \in Clerks, InitRecord(c)
  PROVE  PhaseInv' /\ IssueInv'
<1> DEFINE s == Head(clerk[c])
           rest == Tail(clerk[c])
           found == record[s.doc] # "absent" \/ (s.doc = "bak" /\ record.compensation = "absent")
           p == IF found THEN <<>> ELSE <<Insert(s.doc, s.to)>>
<1>1. /\ clerk[c] # NoTask /\ s.do = "init"
      /\ Goes(c, IF found THEN rest ELSE <<Insert(s.doc, s.to)>> \o rest)
      /\ UNCHANGED <<cluster, record>>
  BY DEF InitRecord, At, Rest
<1>2. TaskInv(clerk[c], seals) /\ clerk[c] \in Seq(ClusterStep) /\ clerk[c] # <<>>
  BY <1>1, ClerkAtStep DEF ClusterInv
<1>3. Simple(s)
  BY <1>1, <1>2, StepsOfTasks DEF Finish
<1>4. Insert(s.doc, s.to) \in ClusterStep
  BY <1>1, <1>3, CreatedSimply DEF Insert, ClusterStep
<1>5. p \in Seq(ClusterStep) /\ Goes(c, p \o rest)
  <2>1. <<>> \o rest = rest /\ <<Insert(s.doc, s.to)>> \in Seq(ClusterStep)
    BY <1>2, <1>4
  <2> HIDE DEF found, s
  <2>2. CASE found
    BY <1>1, <2>1, <2>2
  <2>3. CASE ~ found
    BY <1>1, <2>1, <2>3
  <2>4. QED
    BY <2>2, <2>3
<1>6. s \notin {CountIssued, Advance("CONTRACT_MANAGEMENT")}
  BY <1>1 DEF CountIssued, Advance
<1>7. /\ \A doc \in Documents : (Opened(doc) => Opened(doc)') \/ s.doc = doc
      /\ Counting => Counting'
      /\ \A doc : GoingToOpen(p, doc) => Opened(doc)'
  BY <1>1, <1>5, <1>6, PendingStays
<1>8. ASSUME NEW doc \in Documents \ {"bak"}, s.doc = doc PROVE Opened(doc)'
  <2>1. CASE record[doc] # "absent"
    BY <1>1, <2>1 DEF Opened
  <2>2. CASE record[doc] = "absent"
    <3>1. p = <<Insert(s.doc, s.to)>>
      BY <1>8, <2>2
    <3>2. 1 \in DOMAIN <<Insert(s.doc, s.to)>> /\ <<Insert(s.doc, s.to)>>[1] = Insert(s.doc, s.to)
      OBVIOUS
    <3>3. Insert(s.doc, s.to).doc = s.doc /\ Insert(s.doc, s.to).do = "insert"
      BY DEF Insert
    <3> HIDE DEF p, s
    <3>4. GoingToOpen(p, doc)
      BY <1>8, <3>1, <3>2, <3>3 DEF GoingToOpen
    <3>5. QED
      BY <1>7, <3>4
  <2>3. QED
    BY <2>1, <2>2
<1>9. \A doc \in Documents \ {"bak"} : Opened(doc) => Opened(doc)'
  BY <1>7, <1>8
<1>10. BothIssued' => BothIssued
  BY <1>1 DEF BothIssued
<1>11. QED
  BY <1>1, <1>7, <1>9, <1>10, RecordsKept

(* Whoever counts both as issued is going to move on.                      *)
LEMMA GroupIssuedKeepsRecords ==
  ASSUME ClusterInv, PhaseInv, IssueInv, NEW c \in Clerks, GroupIssued(c)
  PROVE  PhaseInv' /\ IssueInv'
<1> DEFINE s == Head(clerk[c])
           rest == Tail(clerk[c])
           move == Advance("CONTRACT_MANAGEMENT")
           p == IF BothIssued THEN <<move>> ELSE <<>>
<1>1. /\ clerk[c] # NoTask /\ s.do = "countIssued"
      /\ Goes(c, p \o rest)
      /\ UNCHANGED <<cluster, record>>
  BY DEF GroupIssued, At, Rest
<1>2. p \in Seq(ClusterStep)
  BY SimpleSteps DEF Simple, ClusterPhases
<1>3. /\ \A doc \in Documents : Opened(doc) => Opened(doc)'
      /\ GoingToMove(p) => Counting'
  BY <1>1, <1>2, PendingStays
<1>4. BothIssued' <=> BothIssued
  BY <1>1 DEF BothIssued
<1>5. BothIssued => Counting'
  <2>1. 1 \in DOMAIN <<move>> /\ <<move>>[1] = move
    OBVIOUS
  <2>2. BothIssued => GoingToMove(p)
    BY <2>1 DEF GoingToMove
  <2>3. QED
    BY <1>3, <2>2
<1>6. QED
  BY <1>1, <1>3, <1>4, <1>5, RecordsKept

(* The ISP decides about the BAKP only.                                    *)
LEMMA RecordIspDecisionKeepsRecords ==
  ASSUME ClusterInv, PhaseInv, IssueInv, NEW accept \in BOOLEAN, RecordIspDecision(accept)
  PROVE  PhaseInv' /\ IssueInv'
<1>1. /\ record.bakp # "absent"
      /\ record' = [record EXCEPT !.bakp = IF accept THEN "DONE" ELSE "REJECTED_BY_ISP"]
      /\ cluster' = IF accept THEN [phase |-> "PERMIT_DONE", status |-> "COMPLETED"] ELSE cluster
      /\ UNCHANGED clerk
  BY DEF RecordIspDecision, ReachedIsp
<1>2. record \in [Documents -> RecordStatuses] /\ {"bakp", "pr", "br"} \subseteq Documents
  BY DEF ClusterInv, ClusterTypeOK, Documents
<1>3. \A d \in Documents : record[d] # "absent" => record'[d] # "absent"
  BY <1>1, <1>2
<1>4. /\ \A doc \in Documents \ {"bak"} : Opened(doc) => Opened(doc)'
      /\ Counting => Counting'
  BY <1>1, <1>3 DEF Opened, Counting
<1>5. BothIssued' => BothIssued
  BY <1>1, <1>2 DEF BothIssued
<1>6. cluster'.phase = cluster.phase \/ Opening(cluster'.phase) = <<>>
  BY <1>1 DEF Opening
<1>7. QED
  BY <1>4, <1>5, <1>6, RecordsKept DEF WorksOn

(* What was cut short or set by hand remains so.                           *)
LEMMA CutsStay ==
  ASSUME ClusterInv, ClusterNext, jumped \/ cut
  PROVE  jumped' \/ cut'
<1>1. ASSUME NEW c \in Clerks,
             \/ StartHandler(c) \/ WriteRecord(c) \/ EnsureRecord(c) \/ ReadPhase(c)
             \/ InitRecord(c) \/ GroupIssued(c)
      PROVE  jumped' \/ cut'
  BY <1>1 DEF StartHandler, WriteRecord, EnsureRecord, ReadPhase, InitRecord, GroupIssued
<1>2. ASSUME NEW c \in Clerks, InsertRecord(c) PROVE jumped' \/ cut'
  BY <1>2 DEF InsertRecord, Throws
<1>3. ASSUME NEW c \in Clerks, WriteCluster(c) \/ Stop(c) PROVE jumped' \/ cut'
  BY <1>3 DEF WriteCluster, Stop
<1>4. ASSUME NEW accept \in BOOLEAN, RecordIspDecision(accept) PROVE jumped' \/ cut'
  BY <1>4 DEF RecordIspDecision
<1>5. ASSUME NEW ph \in Overrides, OverridePhase(ph) PROVE jumped' \/ cut'
  BY <1>5 DEF OverridePhase
<1>6. QED
  BY <1>1, <1>2, <1>3, <1>4, <1>5 DEF ClusterNext

(* Every step keeps the records in pace with the phase.                    *)
LEMMA RecordsKeepPace ==
  ASSUME ClusterInv, PhaseInv, IssueInv, ClusterNext, ~ jumped', ~ cut'
  PROVE  PhaseInv' /\ IssueInv'
<1>1. ASSUME NEW c \in Clerks,
             \/ StartHandler(c) \/ WriteRecord(c) \/ EnsureRecord(c) \/ InsertRecord(c)
             \/ ReadPhase(c) \/ WriteCluster(c) \/ InitRecord(c) \/ GroupIssued(c)
      PROVE  PhaseInv' /\ IssueInv'
  BY <1>1, StartHandlerKeepsRecords, WriteRecordKeepsRecords, EnsureRecordKeepsRecords,
     InsertRecordKeepsRecords, ReadPhaseKeepsRecords, WriteClusterKeepsRecords,
     InitRecordKeepsRecords, GroupIssuedKeepsRecords
<1>2. ASSUME NEW c \in Clerks, Stop(c) PROVE FALSE
  BY <1>2 DEF Stop
<1>3. ASSUME NEW accept \in BOOLEAN, RecordIspDecision(accept) PROVE PhaseInv' /\ IssueInv'
  BY <1>3, RecordIspDecisionKeepsRecords
<1>4. ASSUME NEW ph \in Overrides, OverridePhase(ph) PROVE FALSE
  BY <1>4 DEF OverridePhase
<1>5. QED
  BY <1>1, <1>2, <1>3, <1>4 DEF ClusterNext

(* Unless a handler is cut short or the phase set by hand, every record    *)
(* the phase works on is there or on its way.                              *)
THEOREM RecordsInvariant == ClusterSpec => []RecordsInv
<1>1. ClusterInit => RecordsInv
  <2> SUFFICES ASSUME ClusterInit PROVE RecordsInv
    OBVIOUS
  <2>1. ClusterInv
    BY ClusterInitially
  <2>2. PhaseInv
    <3>1. Opening(cluster.phase) = <<>>
      BY DEF ClusterInit, Opening
    <3>2. QED
      BY <3>1 DEF PhaseInv, WorksOn
  <2>3. IssueInv
    <3>1. "pr" \in Documents
      BY DEF Documents
    <3>2. QED
      BY <3>1 DEF ClusterInit, IssueInv, BothIssued
  <2>4. QED
    BY <2>1, <2>2, <2>3 DEF RecordsInv
<1>2. RecordsInv /\ [ClusterNext]_clusterVars => RecordsInv'
  <2> SUFFICES ASSUME RecordsInv, [ClusterNext]_clusterVars PROVE RecordsInv'
    OBVIOUS
  <2>1. ClusterInv'
    BY ClusterInvIsInductive DEF RecordsInv
  <2>2. CASE ClusterNext
    BY <2>1, <2>2, CutsStay, RecordsKeepPace DEF RecordsInv
  <2>3. CASE UNCHANGED clusterVars
    BY <2>1, <2>3 DEF RecordsInv, clusterVars, PhaseInv, IssueInv, Opened, Counting, BothIssued
  <2>4. QED
    BY <2>2, <2>3
<1>3. QED
  BY <1>1, <1>2, PTL DEF ClusterSpec

(* When nobody is at work, the phase has the record it works on, although  *)
(* whoever finds the phase already set returns without creating it.        *)
THEOREM PhasesHaveTheirRecords == ClusterSpec => []PhaseHasItsRecord
<1>1. RecordsInv => PhaseHasItsRecord
  <2> SUFFICES ASSUME RecordsInv, AtRest, Opening(cluster.phase) # <<>>,
                      Opening(cluster.phase)[1] # "bak"
               PROVE  record[Opening(cluster.phase)[1]] # "absent"
    BY DEF PhaseHasItsRecord
  <2>1. PhaseInv /\ \A c \in Clerks : clerk[c] = NoTask
    BY DEF RecordsInv, AtRest
  <2>2. Opening(cluster.phase)[1] \in Documents \ {"bak"}
    BY DEF Opening, Documents
  <2>3. QED
    BY <2>1, <2>2 DEF PhaseInv, WorksOn, Opened
<1>2. QED
  BY <1>1, RecordsInvariant, PTL

(* Of two requests issued at once the later count sees both, and the       *)
(* contract is opened.                                                     *)
THEOREM IssuedRequestsAdvance == ClusterSpec => []BothIssuedAdvances
<1>1. RecordsInv => BothIssuedAdvances
  BY DEF RecordsInv, BothIssuedAdvances, AtRest, IssueInv, Opened, Counting
<1>2. QED
  BY <1>1, RecordsInvariant, PTL
-----------------------------------------------------------------------------
(* The phases of an FTTT project.                                          *)

(* The parent never leaves its first two phases, a site never sees them.   *)
Initial == {"INITIATION", "SITE_INITIATION"}
PhasesOf(co, p) == IF p = Parent THEN Initial ELSE Range(Lifecycle[co]) \ Initial
ProgressStates == {"absent", "LOCKED", "ACTIVE", "COMPLETED", "SKIPPED"}

(* The two properties, of one project: its phase, status and progress, and *)
(* the phases it was ready in.                                             *)
OrderedAs(co, p, ph, st, prog) ==
  LET here == Position[co][ph]
      over == prog[ph] = "COMPLETED" IN
  \A k \in Range(Lifecycle[co]) :
    CASE Position[co][k] < here -> prog[k] = "COMPLETED"
      [] Position[co][k] = here ->
           \/ prog[k] = "ACTIVE"
           \/ over /\ IF p = Parent THEN k = "SITE_INITIATION"
                      ELSE k = "CLOSING" /\ st = "COMPLETED"
      [] OTHER -> IF p = Parent /\ over THEN prog[k] = "SKIPPED"
                  ELSE prog[k] \in {"LOCKED", "absent"}

ReadyAs(co, p, prog, m) ==
  \A k \in Range(Lifecycle[co]) :
    prog[k] = "COMPLETED" => k \in m \/ (p \in Sites /\ k \notin Operational)

(* The rows of a new site.                                                 *)
NewRows(co) ==
  [k \in Range(Lifecycle[co]) |->
     IF Position[co][k] < 3 THEN "COMPLETED"
     ELSE IF k = "SURVEY" THEN "ACTIVE"
     ELSE IF k = "PROCUREMENT" THEN "absent" ELSE "LOCKED"]

ProjectInv(co, p, ph, st, prog, m, slid) ==
  /\ ph \in PhasesOf(co, p)
  /\ st \in {"none", "ACTIVE", "CLOSED", "COMPLETED"}
  /\ prog \in [Range(Lifecycle[co]) -> ProgressStates]
  /\ st = "none" => p \in Sites /\ ~ slid /\ ph = "SURVEY" /\ prog = NewRows(co)
  /\ st # "none" /\ ~ slid => OrderedAs(co, p, ph, st, prog) /\ ReadyAs(co, p, prog, m)

(* What a call has judged was ready at a time when it was current; only a  *)
(* site is deleted.                                                        *)
CallInv(c, co, st, m, slid) ==
  /\ c.do \in {"advance", "complete"} =>
       /\ c.project \in Projects /\ st[c.project] # "none"
       /\ c.seen \in PhasesOf(co, c.project)
       /\ c.seen \in m[c.project] \/ (c.do = "complete" /\ c.project \in slid)
  /\ c.do = "deleteSite" => c.project \in Sites

FtttInv ==
  /\ scenario \in Scenarios
  /\ DOMAIN phase = Projects /\ DOMAIN status = Projects /\ DOMAIN progress = Projects
  /\ DOMAIN call = Hands
  /\ \A p \in Projects :
       ProjectInv(scenario.company, p, phase[p], status[p], progress[p], met[p], p \in slipped)
  /\ \A h \in Hands : call[h] # NoCall => CallInv(call[h], scenario.company, status, met, slipped)

(* Positions in a lifecycle and phases are the same thing.                 *)
LEMMA LifecycleShape ==
  ASSUME NEW c \in Companies
  PROVE  /\ Len(Lifecycle[c]) \in {8, 9} /\ DOMAIN Lifecycle[c] = 1 .. Len(Lifecycle[c])
         /\ Lifecycle[c][1] = "INITIATION" /\ Lifecycle[c][2] = "SITE_INITIATION"
         /\ Lifecycle[c][3] = "SURVEY" /\ Lifecycle[c][Len(Lifecycle[c])] = "CLOSING"
         /\ \A i, j \in 1 .. Len(Lifecycle[c]) :
              i # j => Lifecycle[c][i] # Lifecycle[c][j]
         /\ Range(Lifecycle[c]) \subseteq AllPhases
<1> DEFINE pst == <<"INITIATION", "SITE_INITIATION", "SURVEY", "PREPARATION", "PROCUREMENT",
                    "IMPLEMENTATION", "DOCUMENTATION", "RECONCILIATION", "CLOSING">>
           other == <<"INITIATION", "SITE_INITIATION", "SURVEY", "PREPARATION",
                      "IMPLEMENTATION", "DOCUMENTATION", "RECONCILIATION", "CLOSING">>
<1>1. Lifecycle[c] = IF c = "PST" THEN pst ELSE other
  BY DEF Lifecycle
<1>2. AllPhases = Range(pst)
  BY DEF AllPhases, Lifecycle, Companies
<1>3. Len(pst) = 9 /\ DOMAIN pst = 1 .. 9 /\ Len(other) = 8 /\ DOMAIN other = 1 .. 8
  OBVIOUS
<1>4. /\ \A i, j \in 1 .. 9 : i # j => pst[i] # pst[j]
      /\ \A i, j \in 1 .. 8 : i # j => other[i] # other[j]
  OBVIOUS
<1>5. Range(other) \subseteq Range(pst)
  <2>1. \A i \in 1 .. 8 : other[i] = pst[IF i < 5 THEN i ELSE i + 1]
    OBVIOUS
  <2>2. \A i \in 1 .. 8 : (IF i < 5 THEN i ELSE i + 1) \in 1 .. 9
    OBVIOUS
  <2> HIDE DEF pst, other
  <2>3. QED
    BY <1>3, <2>1, <2>2 DEF Range
<1>6. pst[1] = "INITIATION" /\ pst[2] = "SITE_INITIATION" /\ pst[3] = "SURVEY" /\ pst[9] = "CLOSING"
  OBVIOUS
<1>7. other[1] = "INITIATION" /\ other[2] = "SITE_INITIATION" /\ other[3] = "SURVEY" /\ other[8] = "CLOSING"
  OBVIOUS
<1> HIDE DEF pst, other
<1>8. QED
  BY <1>1, <1>2, <1>3, <1>4, <1>5, <1>6, <1>7

(* The index of a phase is where it stands.                                *)
LEMMA Positions ==
  ASSUME NEW c \in Companies
  PROVE  /\ \A i \in 1 .. Len(Lifecycle[c]) : Position[c][Lifecycle[c][i]] = i
         /\ \A k \in Range(Lifecycle[c]) :
              /\ Position[c][k] \in 1 .. Len(Lifecycle[c])
              /\ Lifecycle[c][Position[c][k]] = k
<1> DEFINE L == Lifecycle[c]
<1>1. /\ DOMAIN L = 1 .. Len(L)
      /\ \A i, j \in 1 .. Len(L) : i # j => L[i] # L[j]
  BY LifecycleShape
<1>2. Position[c] = [k \in Range(L) |-> CHOOSE i \in DOMAIN L : L[i] = k]
  BY DEF Position
<1> HIDE DEF L
<1>3. ASSUME NEW k \in Range(L)
      PROVE  Position[c][k] \in 1 .. Len(L) /\ L[Position[c][k]] = k
  <2>1. \E i \in DOMAIN L : L[i] = k
    BY DEF Range
  <2>2. Position[c][k] = CHOOSE i \in DOMAIN L : L[i] = k
    BY <1>2
  <2>3. QED
    BY <1>1, <2>1, <2>2
<1>4. ASSUME NEW i \in 1 .. Len(L) PROVE Position[c][L[i]] = i
  <2>1. L[i] \in Range(L)
    BY <1>1 DEF Range
  <2>2. QED
    BY <1>1, <1>3, <2>1
<1>5. QED
  BY <1>3, <1>4 DEF L

(* Where the phases stand that the code names.                             *)
LEMMA Landmarks ==
  ASSUME NEW c \in Companies
  PROVE  LET R == Range(Lifecycle[c]) P == Position[c] n == Len(Lifecycle[c]) IN
         /\ n \in {8, 9}
         /\ {"INITIATION", "SITE_INITIATION", "SURVEY", "CLOSING"} \subseteq R
         /\ P["INITIATION"] = 1 /\ P["SITE_INITIATION"] = 2 /\ P["SURVEY"] = 3 /\ P["CLOSING"] = n
         /\ \A k \in R : P[k] \in 1 .. n
         /\ \A k, l \in R : P[k] = P[l] => k = l
         /\ \A k \in R : k \in Initial <=> k \notin Operational
         /\ \A k \in R : k \in Initial <=> P[k] < 3
         /\ \A i \in 1 .. n : Lifecycle[c][i] \in R /\ P[Lifecycle[c][i]] = i
<1> DEFINE L == Lifecycle[c]
           R == Range(L)
           P == Position[c]
           n == Len(L)
<1>1. /\ n \in {8, 9} /\ DOMAIN L = 1 .. n
      /\ L[1] = "INITIATION" /\ L[2] = "SITE_INITIATION" /\ L[3] = "SURVEY" /\ L[n] = "CLOSING"
      /\ R \subseteq AllPhases
  BY LifecycleShape
<1>2. /\ \A i \in 1 .. n : P[L[i]] = i
      /\ \A k \in R : P[k] \in 1 .. n /\ L[P[k]] = k
  BY Positions
<1> HIDE DEF L, P
<1>3. \A i \in 1 .. n : L[i] \in R
  BY <1>1 DEF Range
<1> HIDE DEF R
<1>4. {1, 2, 3, n} \subseteq 1 .. n
  BY <1>1
<1> HIDE DEF n
<1>5. /\ {"INITIATION", "SITE_INITIATION", "SURVEY", "CLOSING"} \subseteq R
      /\ P["INITIATION"] = 1 /\ P["SITE_INITIATION"] = 2 /\ P["SURVEY"] = 3 /\ P["CLOSING"] = n
  BY <1>1, <1>2, <1>3, <1>4
<1>6. \A k, l \in R : P[k] = P[l] => k = l
  BY <1>2
<1>7. \A k \in R : k \in Initial <=> k \notin Operational
  BY <1>1 DEF Initial, Operational
<1>8. n \in Nat
  BY <1>1
<1>9. ASSUME NEW k \in R PROVE k \in Initial <=> P[k] < 3
  <2>1. P[k] \in 1 .. n
    BY <1>2
  <2>2. P[k] < 3 => P[k] = 1 \/ P[k] = 2
    BY <1>8, <2>1
  <2>3. P[k] < 3 => k \in Initial
    BY <1>5, <1>6, <2>2 DEF Initial
  <2>4. QED
    BY <1>5, <2>3 DEF Initial
<1>10. QED
  BY <1>1, <1>2, <1>3, <1>5, <1>6, <1>7, <1>9 DEF L, P, R, n

(* The two initiations of a new site are done, its survey is open.         *)
LEMMA NewSites ==
  ASSUME NEW co \in Companies, NEW p \in Sites, NEW st, NEW m, NEW slid \in BOOLEAN,
         st \in {"none", "ACTIVE"}, st = "none" => ~ slid
  PROVE  ProjectInv(co, p, "SURVEY", st, NewRows(co), m, slid)
<1> DEFINE R == Range(Lifecycle[co])
           P == Position[co]
           rows == NewRows(co)
<1>1. p # Parent
  BY FtttAssumption
<1>2. /\ "SURVEY" \in R /\ P["SURVEY"] = 3
      /\ \A k \in R : P[k] \in Nat
      /\ \A k \in R : P[k] = P["SURVEY"] => k = "SURVEY"
      /\ \A k \in R : k \in Initial <=> k \notin Operational
      /\ \A k \in R : k \in Initial <=> P[k] < 3
  BY Landmarks
<1>3. rows = [k \in R |-> IF P[k] < 3 THEN "COMPLETED"
                          ELSE IF k = "SURVEY" THEN "ACTIVE"
                          ELSE IF k = "PROCUREMENT" THEN "absent" ELSE "LOCKED"]
  BY DEF NewRows
<1> HIDE DEF R, P, rows
<1>4. rows \in [R -> ProgressStates]
  BY <1>3 DEF ProgressStates
<1>5. \A k \in R : CASE P[k] < P["SURVEY"] -> rows[k] = "COMPLETED"
                     [] P[k] = P["SURVEY"] -> rows[k] = "ACTIVE"
                     [] OTHER -> rows[k] \in {"LOCKED", "absent"}
  BY <1>2, <1>3
<1>6. OrderedAs(co, p, "SURVEY", st, rows)
  BY <1>1, <1>2, <1>5 DEF OrderedAs, R, P
<1>7. \A k \in R : rows[k] = "COMPLETED" => k \notin Operational
  BY <1>2, <1>3
<1>8. ReadyAs(co, p, rows, m)
  BY <1>7 DEF ReadyAs, R
<1>9. "SURVEY" \in PhasesOf(co, p)
  BY <1>1, <1>2 DEF PhasesOf, Initial, R
<1>10. QED
  BY <1>4, <1>6, <1>8, <1>9 DEF ProjectInv, R, rows

(* What an advance writes into the rows of a project.                      *)
AdvancedRows(co, p, seen, prog) ==
  [k \in Range(Lifecycle[co]) |->
     IF k = seen THEN "COMPLETED"
     ELSE IF p = Parent /\ seen = "SITE_INITIATION" /\ k \in Operational THEN "SKIPPED"
     ELSE IF Position[co][k] = Position[co][seen] + 1 THEN "ACTIVE" ELSE prog[k]]

(* The phase after the one it has seen, if it goes on.                     *)
AdvancedPhase(co, p, seen, ph) ==
  IF seen = "CLOSING" \/ (p = Parent /\ seen = "SITE_INITIATION") THEN ph
  ELSE Lifecycle[co][Position[co][seen] + 1]

(* An advance that finds the phase it has judged keeps the order, and      *)
(* completes what was ready; whatever it finds, the phase stays of its     *)
(* kind.                                                                   *)
LEMMA Advances ==
  ASSUME NEW co \in Companies, NEW p \in Projects, NEW ph, NEW st, NEW prog, NEW m, NEW m2,
         NEW slid \in BOOLEAN, NEW slid2 \in BOOLEAN, NEW seen \in PhasesOf(co, p),
         ProjectInv(co, p, ph, st, prog, m, slid), st # "none", m \subseteq m2,
         ~ slid2 => ~ slid /\ ph = seen /\ seen \in m
  PROVE  ProjectInv(co, p, AdvancedPhase(co, p, seen, ph),
                    IF seen = "CLOSING" THEN "COMPLETED" ELSE st,
                    AdvancedRows(co, p, seen, prog), m2, slid2)
<1> DEFINE R == Range(Lifecycle[co])
           P == Position[co]
           n == Len(Lifecycle[co])
           ph2 == AdvancedPhase(co, p, seen, ph)
           st2 == IF seen = "CLOSING" THEN "COMPLETED" ELSE st
           prog2 == AdvancedRows(co, p, seen, prog)
           skips == p = Parent /\ seen = "SITE_INITIATION"
<1>1. /\ n \in {8, 9}
      /\ {"INITIATION", "SITE_INITIATION", "SURVEY", "CLOSING"} \subseteq R
      /\ P["INITIATION"] = 1 /\ P["SITE_INITIATION"] = 2 /\ P["SURVEY"] = 3 /\ P["CLOSING"] = n
      /\ \A k \in R : P[k] \in 1 .. n
      /\ \A k, l \in R : P[k] = P[l] => k = l
      /\ \A k \in R : k \in Initial <=> k \notin Operational
      /\ \A k \in R : k \in Initial <=> P[k] < 3
      /\ \A i \in 1 .. n : Lifecycle[co][i] \in R /\ P[Lifecycle[co][i]] = i
  BY Landmarks
<1>2. p = Parent \/ (p # Parent /\ p \in Sites)
  BY DEF Projects
<1>3. /\ ph \in PhasesOf(co, p) /\ prog \in [R -> ProgressStates]
      /\ st \in {"none", "ACTIVE", "CLOSED", "COMPLETED"}
      /\ ~ slid => OrderedAs(co, p, ph, st, prog) /\ ReadyAs(co, p, prog, m)
  BY DEF ProjectInv
<1>4. /\ p = Parent => ph \in Initial /\ seen \in Initial
      /\ p # Parent => ph \in R \ Initial /\ seen \in R \ Initial
      /\ ph \in R /\ seen \in R
  BY <1>1, <1>3 DEF PhasesOf, Initial
<1>5. prog2 = [k \in R |-> IF k = seen THEN "COMPLETED"
                          ELSE IF skips /\ k \in Operational THEN "SKIPPED"
                          ELSE IF P[k] = P[seen] + 1 THEN "ACTIVE" ELSE prog[k]]
  BY DEF AdvancedRows
<1>6. ph2 = IF seen = "CLOSING" \/ skips THEN ph ELSE Lifecycle[co][P[seen] + 1]
  BY DEF AdvancedPhase
<1> HIDE DEF R, P, n, ph2, prog2, skips, st2
<1>7. prog2 \in [R -> ProgressStates]
  BY <1>3, <1>5 DEF ProgressStates
<1>8. seen # "CLOSING" => P[seen] + 1 \in 1 .. n
  <2>1. seen # "CLOSING" => P[seen] # n
    BY <1>1, <1>4
  <2>2. P[seen] \in 1 .. n /\ n \in Nat
    BY <1>1, <1>4
  <2>3. QED
    BY <2>1, <2>2
<1>9. ph2 \in PhasesOf(co, p)
  <2>1. CASE seen = "CLOSING" \/ skips
    BY <1>3, <1>6, <2>1
  <2>2. CASE seen # "CLOSING" /\ ~ skips
    <3>1. ph2 \in R /\ P[ph2] = P[seen] + 1
      BY <1>1, <1>6, <1>8, <2>2
    <3>2. CASE p = Parent
      <4>1. seen = "INITIATION"
        BY <1>4, <2>2, <3>2 DEF skips, Initial
      <4>2. P[ph2] = P["SITE_INITIATION"]
        BY <1>1, <3>1, <4>1
      <4>3. ph2 = "SITE_INITIATION"
        BY <1>1, <3>1, <4>2
      <4>4. QED
        BY <3>2, <4>3 DEF PhasesOf, Initial
    <3>3. CASE p # Parent
      <4>1. ~ (P[seen] < 3) /\ P[seen] \in Nat
        BY <1>1, <1>4, <3>3
      <4>2. ph2 \notin Initial
        BY <1>1, <3>1, <4>1
      <4>3. QED
        BY <3>1, <3>3, <4>2 DEF PhasesOf, R
    <3>4. QED
      BY <3>2, <3>3
  <2>3. QED
    BY <2>1, <2>2
<1>10. ASSUME ~ slid2
       PROVE  /\ seen \in m /\ ph = seen
              /\ \A k \in R : P[k] < P[seen] => prog[k] = "COMPLETED"
              /\ \A k \in R : P[k] > P[seen] => prog[k] \in {"LOCKED", "absent"} \/ skips
  <2>1. ~ slid /\ ph = seen /\ seen \in m /\ OrderedAs(co, p, seen, st, prog)
    BY <1>3, <1>10
  <2>2. ASSUME NEW k \in R, P[k] < P[seen] PROVE prog[k] = "COMPLETED"
    <3>1. P[k] # P[seen]
      BY <1>1, <1>4, <2>2
    <3>2. QED
      BY <2>1, <2>2, <3>1 DEF OrderedAs, R, P
  <2>3. ASSUME NEW k \in R, P[k] > P[seen], ~ skips PROVE prog[k] \in {"LOCKED", "absent"}
    <3>1. ~ (P[k] < P[seen]) /\ P[k] # P[seen]
      BY <1>1, <1>4, <2>3
    <3>2. p = Parent => prog[seen] # "COMPLETED"
      <4>1. CASE p = Parent
        <5>1. \/ prog[seen] = "ACTIVE"
              \/ prog[seen] = "COMPLETED" /\ seen = "SITE_INITIATION"
          BY <1>1, <1>4, <2>1, <4>1 DEF OrderedAs, R, P
        <5>2. QED
          BY <2>3, <4>1, <5>1 DEF skips
      <4>2. QED
        BY <4>1
    <3>3. QED
      BY <2>1, <2>3, <3>1, <3>2 DEF OrderedAs, R, P
  <2>4. QED
    BY <2>1, <2>2, <2>3
<1>11. prog2[seen] = "COMPLETED"
  BY <1>4, <1>5
<1>12. ASSUME ~ slid2, NEW k \in R, P[k] < P[seen] PROVE prog2[k] = "COMPLETED"
  <2>1. k # seen /\ P[k] # P[seen] + 1 /\ prog[k] = "COMPLETED"
    BY <1>1, <1>4, <1>10, <1>12
  <2>2. skips => k \notin Operational
    BY <1>1, <1>12 DEF skips
  <2>3. QED
    BY <1>5, <2>1, <2>2
<1>13. ASSUME ~ slid2, seen = "CLOSING" \/ skips PROVE OrderedAs(co, p, ph2, st2, prog2)
  <2>1. ph2 = seen
    BY <1>6, <1>10, <1>13
  <2>2. ASSUME NEW k \in R, P[k] = P[seen] PROVE k = seen
    BY <1>1, <1>4, <2>2
  <2>3. ASSUME NEW k \in R, ~ (P[k] < P[seen]), P[k] # P[seen]
        PROVE  p = Parent /\ prog2[k] = "SKIPPED"
    <3>1. P[k] > P[seen]
      BY <1>1, <1>4, <2>3
    <3>2. skips
      <4>1. P[k] \in 1 .. n /\ n \in Nat
        BY <1>1, <2>3
      <4>2. seen # "CLOSING"
        BY <1>1, <3>1, <4>1
      <4>3. QED
        BY <1>13, <4>2
    <3>3. P[k] > 2 /\ k # seen
      BY <1>1, <1>4, <2>3, <3>1, <3>2 DEF skips
    <3>4. k \in Operational
      BY <1>1, <2>3, <3>3
    <3>5. QED
      BY <1>5, <3>2, <3>3, <3>4 DEF skips
  <2>4. IF p = Parent THEN seen = "SITE_INITIATION" ELSE seen = "CLOSING" /\ st2 = "COMPLETED"
    BY <1>1, <1>4, <1>13 DEF skips, st2, Initial
  <2>5. QED
    BY <1>11, <1>12, <1>13, <2>1, <2>2, <2>3, <2>4 DEF OrderedAs, R, P
<1>14. ASSUME ~ slid2, seen # "CLOSING", ~ skips PROVE OrderedAs(co, p, ph2, st2, prog2)
  <2>1. ph2 \in R /\ P[ph2] = P[seen] + 1
    BY <1>1, <1>6, <1>8, <1>14
  <2>2. P[seen] \in Nat /\ \A k \in R : P[k] \in Nat
    BY <1>1, <1>4
  <2>3. prog2[ph2] = "ACTIVE"
    <3>1. ph2 # seen
      BY <2>1, <2>2
    <3>2. QED
      BY <1>5, <1>14, <2>1, <3>1
  <2>4. ASSUME NEW k \in R, P[k] < P[ph2] PROVE prog2[k] = "COMPLETED"
    <3>1. P[k] < P[seen] \/ P[k] = P[seen]
      BY <2>1, <2>2, <2>4
    <3>2. P[k] = P[seen] => k = seen
      BY <1>1, <1>4, <2>4
    <3>3. QED
      BY <1>11, <1>12, <1>14, <2>4, <3>1, <3>2
  <2>5. ASSUME NEW k \in R, P[k] = P[ph2] PROVE k = ph2
    BY <1>1, <2>1, <2>5
  <2>6. ASSUME NEW k \in R, ~ (P[k] < P[ph2]), P[k] # P[ph2] PROVE prog2[k] \in {"LOCKED", "absent"}
    <3>1. P[k] > P[seen] /\ P[k] # P[seen] + 1 /\ k # seen
      BY <2>1, <2>2, <2>6
    <3>2. prog[k] \in {"LOCKED", "absent"}
      BY <1>10, <1>14, <2>6, <3>1
    <3>3. QED
      BY <1>5, <1>14, <2>6, <3>1, <3>2
  <2>7. QED
    BY <2>3, <2>4, <2>5, <2>6 DEF OrderedAs, R, P
<1>15. ASSUME ~ slid2 PROVE ReadyAs(co, p, prog2, m2)
  <2>1. ASSUME NEW k \in R, prog2[k] = "COMPLETED"
        PROVE  k \in m2 \/ (p \in Sites /\ k \notin Operational)
    <3>1. CASE k = seen
      BY <1>10, <1>15, <3>1
    <3>2. CASE k # seen
      <4>1. prog[k] = "COMPLETED"
        BY <1>5, <2>1, <3>2
      <4>2. ReadyAs(co, p, prog, m)
        BY <1>3, <1>15
      <4>3. QED
        BY <2>1, <4>1, <4>2 DEF ReadyAs, R
    <3>3. QED
      BY <3>1, <3>2
  <2>2. QED
    BY <2>1 DEF ReadyAs, R
<1>16. st2 \in {"ACTIVE", "CLOSED", "COMPLETED"}
  BY <1>3 DEF st2
<1>17. ~ slid2 => OrderedAs(co, p, ph2, st2, prog2)
  BY <1>13, <1>14
<1>18. ProjectInv(co, p, ph2, st2, prog2, m2, slid2)
  BY <1>7, <1>9, <1>15, <1>16, <1>17 DEF ProjectInv, R
<1>19. QED
  BY <1>18 DEF ph2, st2, prog2

-----------------------------------------------------------------------------
(* The steps of the FTTT projects.                                         *)

(* What was ready is remembered, as long as the project is there.          *)
LEMMA Remembered ==
  ASSUME Remember
  PROVE  \A p \in Projects : status'[p] # "none" =>
           met[p] \subseteq met'[p] /\ (ReadyNow(p)' => phase'[p] \in met'[p])
BY DEF Remember

(* A call is as well founded as before while its project is there.         *)
LEMMA CallsStayFounded ==
  ASSUME NEW c, NEW co, CallInv(c, co, status, met, slipped), slipped \subseteq slipped',
         c.project \in Projects /\ status[c.project] # "none" =>
           status'[c.project] # "none" /\ met[c.project] \subseteq met'[c.project]
  PROVE  CallInv(c, co, status', met', slipped')
BY DEF CallInv

(* Sites that are made, and projects that are closed, leave the phases     *)
(* alone; nothing else touches a status.                                   *)
LEMMA QuietSteps ==
  ASSUME FtttInv, Remember, UNCHANGED <<scenario, phase, progress, slipped>>,
         DOMAIN status' = Projects, DOMAIN call' = Hands,
         \A p \in Projects :
           \/ status'[p] = status[p]
           \/ status[p] = "none" /\ status'[p] = "ACTIVE"
           \/ status'[p] = "CLOSED" /\ status[p] # "none" /\ (p = Parent \/ status[p] = "ACTIVE"),
         \A h \in Hands : call'[h] # NoCall =>
           call'[h] = call[h] \/ CallInv(call'[h], scenario.company, status', met', slipped')
  PROVE  FtttInv'
<1> DEFINE co == scenario.company
<1>1. co \in Companies
  BY FtttAssumption DEF FtttInv
<1>2. \A p \in Projects : status[p] # "none" => status'[p] # "none" /\ met[p] \subseteq met'[p]
  BY Remembered
<1>3. ASSUME NEW p \in Projects
      PROVE  ProjectInv(co, p, phase[p], status'[p], progress[p], met'[p], p \in slipped)
  <2>1. ProjectInv(co, p, phase[p], status[p], progress[p], met[p], p \in slipped)
    BY DEF FtttInv
  <2>2. CASE status'[p] = status[p]
    BY <1>2, <2>1, <2>2 DEF ProjectInv, ReadyAs
  <2>3. CASE status[p] = "none" /\ status'[p] = "ACTIVE"
    <3>1. /\ p \in Sites /\ phase[p] = "SURVEY" /\ progress[p] = NewRows(co)
      BY <2>1, <2>3 DEF ProjectInv
    <3>2. (p \in slipped) \in BOOLEAN
      OBVIOUS
    <3> HIDE DEF co
    <3>3. QED
      BY <1>1, <2>3, <3>1, <3>2, NewSites
  <2>4. CASE status'[p] = "CLOSED" /\ status[p] # "none" /\ (p = Parent \/ status[p] = "ACTIVE")
    <3>1. OrderedAs(co, p, phase[p], status[p], progress[p])
            => OrderedAs(co, p, phase[p], "CLOSED", progress[p])
      BY <2>4 DEF OrderedAs
    <3>2. QED
      BY <1>2, <2>1, <2>4, <3>1 DEF ProjectInv, ReadyAs
  <2>5. QED
    BY <2>2, <2>3, <2>4
<1>4. ASSUME NEW h \in Hands, call'[h] # NoCall
      PROVE  CallInv(call'[h], co, status', met', slipped')
  <2>1. CASE call'[h] = call[h]
    <3>1. CallInv(call[h], co, status, met, slipped)
      BY <1>4, <2>1 DEF FtttInv
    <3>2. CallInv(call[h], co, status', met', slipped')
      BY <1>2, <3>1, CallsStayFounded
    <3>3. QED
      BY <2>1, <3>2
  <2>2. QED
    BY <1>4, <2>1
<1>5. QED
  BY <1>3, <1>4 DEF FtttInv

(* A call begins.                                                          *)
LEMMA CallBegins ==
  ASSUME FtttInv, Remember, UNCHANGED scenario, NEW h \in Hands, NEW what, Calls(h, what),
         CallInv(what, scenario.company, status', met', slipped')
  PROVE  FtttInv'
<1>1. /\ call' = [call EXCEPT ![h] = what]
      /\ UNCHANGED <<phase, status, progress, papers, group, slipped>>
  BY DEF Calls
<1>2. DOMAIN call' = Hands /\ \A i \in Hands : call'[i] = call[i] \/ call'[i] = what
  BY <1>1 DEF FtttInv
<1>3. DOMAIN status' = Projects
  BY <1>1 DEF FtttInv
<1>4. QED
  BY <1>1, <1>2, <1>3, QuietSteps

(* A call returns, and may have made sites or closed projects.             *)
LEMMA CallReturns ==
  ASSUME FtttInv, Remember, UNCHANGED <<scenario, phase, progress, slipped>>, NEW lost,
         Fail(lost), DOMAIN status' = Projects,
         \A p \in Projects :
           \/ status'[p] = status[p]
           \/ status[p] = "none" /\ status'[p] = "ACTIVE"
           \/ status'[p] = "CLOSED" /\ status[p] # "none" /\ (p = Parent \/ status[p] = "ACTIVE")
  PROVE  FtttInv'
<1>1. DOMAIN call' = Hands /\ \A i \in Hands : call'[i] = call[i] \/ call'[i] = NoCall
  BY DEF Fail
<1>2. QED
  BY <1>1, QuietSteps

(* To return is to lose one's own call only.                               *)
LEMMA ReturnsAlone ==
  ASSUME FtttInv, NEW h \in Hands, Returns(h)
  PROVE  Fail({h})
BY DEF FtttInv, Returns, Fail

(* The handlers that only look.                                            *)
LEMMA BeginningsKeep ==
  ASSUME FtttInv, Remember, UNCHANGED scenario, NEW h \in Hands,
         \/ \E s \in Sites : \/ \E x : BeginPaper(h, s, x)
                             \/ BeginAddSite(h, s) \/ BeginDeleteEnding(h, s)
                             \/ BeginDeleteSite(h, s)
         \/ BeginClose(h) \/ BeginAddGroup(h) \/ BeginDeleteGroup(h)
         \/ \E S : BeginEndings(h, S)
  PROVE  FtttInv'
<1>1. \A what : /\ Calls(h, what) /\ what.do \notin {"advance", "complete"}
                /\ what.do = "deleteSite" => what.project \in Sites
                => FtttInv'
  BY CallBegins DEF CallInv
<1>2. ASSUME NEW s \in Sites, NEW x, BeginPaper(h, s, x) PROVE FtttInv'
  <2>1. PICK t \in Turns(x) : Calls(h, [project |-> s, do |-> "paper", paper |-> x, to |-> t.to])
    BY <1>2 DEF BeginPaper
  <2>2. QED
    BY <1>1, <2>1
<1>3. ASSUME NEW s \in Sites, BeginAddSite(h, s) PROVE FtttInv'
  BY <1>1, <1>3 DEF BeginAddSite
<1>4. ASSUME NEW s \in Sites, BeginDeleteEnding(h, s) PROVE FtttInv'
  BY <1>1, <1>4 DEF BeginDeleteEnding
<1>5. ASSUME NEW s \in Sites, BeginDeleteSite(h, s) PROVE FtttInv'
  BY <1>1, <1>5 DEF BeginDeleteSite
<1>6. ASSUME BeginClose(h) \/ BeginAddGroup(h) \/ BeginDeleteGroup(h) PROVE FtttInv'
  BY <1>1, <1>6 DEF BeginClose, BeginAddGroup, BeginDeleteGroup
<1>7. ASSUME NEW S, BeginEndings(h, S) PROVE FtttInv'
  BY <1>1, <1>7 DEF BeginEndings
<1>8. QED
  BY <1>2, <1>3, <1>4, <1>5, <1>6, <1>7

(* Readiness depends on what is stored only.                               *)
LEMMA ReadyStays ==
  ASSUME UNCHANGED <<scenario, phase, status, papers, group>>, NEW p, ReadyNow(p)
  PROVE  ReadyNow(p)'
BY DEF ReadyNow, HasSites, Missing

(* An advance judges, and the judgement is remembered.                     *)
LEMMA AdvanceCheckKeeps ==
  ASSUME FtttInv, Remember, UNCHANGED scenario, NEW h \in Hands, NEW p \in Projects,
         AdvanceCheck(h, p)
  PROVE  FtttInv'
<1> DEFINE what == [project |-> p, do |-> "advance", seen |-> phase[p]]
<1>1. status[p] # "none" /\ ReadyNow(p) /\ Calls(h, what)
  BY DEF AdvanceCheck, CheckPhaseReadiness
<1>2. UNCHANGED <<phase, status, papers, group>>
  BY <1>1 DEF Calls
<1>3. phase[p] \in met'[p] /\ status'[p] # "none"
  BY <1>1, <1>2, ReadyStays, Remembered
<1>4. phase[p] \in PhasesOf(scenario.company, p)
  BY DEF FtttInv, ProjectInv
<1>5. CallInv(what, scenario.company, status', met', slipped')
  BY <1>3, <1>4 DEF CallInv
<1> HIDE DEF what
<1>6. QED
  BY <1>1, <1>5, CallBegins

(* The calls that write anything but a phase.                              *)
LEMMA ReturnsKeep ==
  ASSUME FtttInv, Remember, UNCHANGED scenario, NEW h \in Hands,
         \/ EndPaper(h) \/ CloseParent(h) \/ AddSite(h) \/ AddBeginningGroup(h)
         \/ CompleteBeginningEndings(h) \/ DeleteSiteEnding(h) \/ DeleteBeginningGroup(h)
  PROVE  FtttInv'
<1>1. DOMAIN status = Projects
  BY DEF FtttInv
<1>2. CASE EndPaper(h) \/ AddBeginningGroup(h) \/ DeleteSiteEnding(h)
  <2>1. Fail({h}) /\ UNCHANGED <<phase, progress, slipped, status>>
    BY <1>2, ReturnsAlone DEF EndPaper, AddBeginningGroup, DeleteSiteEnding
  <2>2. QED
    BY <1>1, <2>1, CallReturns
<1>3. CASE DeleteBeginningGroup(h)
  <2>1. PICK lost : Fail(lost)
    BY <1>3 DEF DeleteBeginningGroup
  <2>2. UNCHANGED <<phase, progress, slipped, status>>
    BY <1>3 DEF DeleteBeginningGroup
  <2>3. QED
    BY <1>1, <2>1, <2>2, CallReturns
<1>4. CASE CloseParent(h)
  <2>1. /\ Fail({h}) /\ UNCHANGED <<phase, progress, slipped>>
        /\ status' = [p \in Projects |->
             IF p = Parent \/ status[p] = "ACTIVE" THEN "CLOSED" ELSE status[p]]
    BY <1>4, ReturnsAlone DEF CloseParent
  <2>2. status[Parent] # "none"
    BY FtttAssumption DEF FtttInv, ProjectInv, Projects
  <2>3. QED
    BY <2>1, <2>2, CallReturns
<1>5. CASE AddSite(h) \/ CompleteBeginningEndings(h)
  <2>1. Fail({h}) /\ UNCHANGED <<phase, progress, slipped>> /\ CreateSites(call[h].sites)
    BY <1>5, ReturnsAlone DEF AddSite, CompleteBeginningEndings
  <2>2. status' = [p \in Projects |->
          IF p \in {s \in call[h].sites : status[s] = "none"} THEN "ACTIVE" ELSE status[p]]
    BY <2>1 DEF CreateSites
  <2>3. QED
    BY <2>1, <2>2, CallReturns
<1>6. QED
  BY <1>2, <1>3, <1>4, <1>5

(* An advance reads the project again; if it has moved, the advance slips. *)
LEMMA AdvanceReadKeeps ==
  ASSUME FtttInv, Remember, UNCHANGED scenario, NEW h \in Hands, AdvanceRead(h)
  PROVE  FtttInv'
<1> DEFINE p == call[h].project
           co == scenario.company
           what == [project |-> p, do |-> "complete", seen |-> phase[p]]
<1>1. /\ call[h] # NoCall /\ call[h].do = "advance"
      /\ call' = [call EXCEPT ![h] = IF Mutable(p) THEN what ELSE NoCall]
      /\ slipped' = IF Mutable(p) /\ phase[p] # call[h].seen THEN slipped \cup {p} ELSE slipped
      /\ UNCHANGED <<phase, status, progress>>
  BY DEF AdvanceRead, Calling
<1>2. /\ p \in Projects /\ status[p] # "none" /\ call[h].seen \in met[p]
  BY <1>1 DEF FtttInv, CallInv
<1>3. \A q \in Projects : status[q] # "none" => status'[q] # "none" /\ met[q] \subseteq met'[q]
  BY <1>1, Remembered
<1>4. slipped \subseteq slipped' /\ \A q : q \in slipped' => q \in slipped \/ q = p
  BY <1>1
<1>5. CallInv(what, co, status', met', slipped') \/ ~ Mutable(p)
  <2>1. phase[p] \in PhasesOf(co, p)
    BY <1>2 DEF FtttInv, ProjectInv
  <2>2. Mutable(p) => phase[p] \in met'[p] \/ p \in slipped'
    BY <1>1, <1>2, <1>3
  <2>3. QED
    BY <1>2, <1>3, <2>1, <2>2 DEF CallInv
<1> HIDE DEF what
<1>6. ASSUME NEW i \in Hands, call'[i] # NoCall
      PROVE  CallInv(call'[i], co, status', met', slipped')
  <2>1. call'[i] = call[i] \/ (call'[i] = what /\ Mutable(p))
    BY <1>1, <1>6 DEF FtttInv
  <2>2. CASE call'[i] = call[i]
    <3>1. CallInv(call[i], co, status, met, slipped)
      BY <1>6, <2>2 DEF FtttInv
    <3>2. CallInv(call[i], co, status', met', slipped')
      BY <1>3, <1>4, <3>1, CallsStayFounded
    <3>3. QED
      BY <2>2, <3>2
  <2>3. QED
    BY <1>5, <2>1, <2>2
<1>7. ASSUME NEW q \in Projects
      PROVE  ProjectInv(co, q, phase[q], status[q], progress[q], met'[q], q \in slipped')
  <2>1. ProjectInv(co, q, phase[q], status[q], progress[q], met[q], q \in slipped)
    BY DEF FtttInv
  <2>2. status[q] = "none" => q \notin slipped'
    BY <1>2, <1>4, <2>1 DEF ProjectInv
  <2>3. QED
    BY <1>1, <1>3, <1>4, <2>1, <2>2 DEF ProjectInv, ReadyAs
<1>8. DOMAIN call' = Hands
  BY <1>1 DEF FtttInv
<1>9. QED
  BY <1>1, <1>6, <1>7, <1>8 DEF FtttInv

(* An advance writes what the project was when it read it.                 *)
LEMMA AdvanceWriteKeeps ==
  ASSUME FtttInv, Remember, UNCHANGED scenario, NEW h \in Hands, AdvanceWrite(h)
  PROVE  FtttInv'
<1> DEFINE p == call[h].project
           seen == call[h].seen
           co == scenario.company
           skips == p = Parent /\ seen = "SITE_INITIATION"
<1>1. /\ call[h] # NoCall /\ call[h].do = "complete"
      /\ progress' = [progress EXCEPT ![p] = Completes(p, seen)]
      /\ phase' = IF seen = "CLOSING" \/ skips THEN phase
                  ELSE [phase EXCEPT ![p] = Phases[Index(seen) + 1]]
      /\ status' = IF seen = "CLOSING" THEN [status EXCEPT ![p] = "COMPLETED"] ELSE status
      /\ slipped' = IF phase[p] # seen THEN slipped \cup {p} ELSE slipped
      /\ call' = [call EXCEPT ![h] = NoCall]
  BY DEF AdvanceWrite, Calling, Returns
<1>2. /\ p \in Projects /\ status[p] # "none" /\ seen \in PhasesOf(co, p)
      /\ seen \in met[p] \/ p \in slipped
  BY <1>1 DEF FtttInv, CallInv
<1>3. co \in Companies
  BY FtttAssumption DEF FtttInv
<1>4. /\ DOMAIN phase = Projects /\ DOMAIN status = Projects /\ DOMAIN progress = Projects
      /\ DOMAIN call = Hands
      /\ \A q \in Projects :
           ProjectInv(co, q, phase[q], status[q], progress[q], met[q], q \in slipped)
  BY DEF FtttInv
<1>5. Completes(p, seen) = AdvancedRows(co, p, seen, progress[p])
  <2>1. DOMAIN progress[p] = Range(Lifecycle[co])
    BY <1>2, <1>4 DEF ProjectInv
  <2>2. Skipped(p, seen) = IF skips THEN Operational \cap Range(Lifecycle[co]) ELSE {}
    BY DEF Skipped, Phases
  <2>3. "SITE_INITIATION" \notin Operational
    BY DEF Operational
  <2>4. \A k : Index(k) = Position[co][k]
    BY DEF Index
  <2>5. DOMAIN progress[p] \cup Skipped(p, seen) = Range(Lifecycle[co])
    BY <2>1, <2>2
  <2>6. \A k \in Range(Lifecycle[co]) : k \in Skipped(p, seen) <=> skips /\ k \in Operational
    BY <2>2
  <2>7. skips => seen \notin Skipped(p, seen)
    BY <2>2, <2>3
  <2>8. ~ skips => Skipped(p, seen) = {}
    BY <2>2
  <2> HIDE DEF p, seen, co
  <2>9. QED
    BY <2>4, <2>5, <2>6, <2>7, <2>8 DEF Completes, AdvancedRows, skips
<1>6. Phases[Index(seen) + 1] = Lifecycle[co][Position[co][seen] + 1]
  BY DEF Phases, Index
<1> HIDE DEF p, seen, co, skips
<1>7. /\ phase'[p] = AdvancedPhase(co, p, seen, phase[p])
      /\ status'[p] = IF seen = "CLOSING" THEN "COMPLETED" ELSE status[p]
      /\ progress'[p] = AdvancedRows(co, p, seen, progress[p])
  BY <1>1, <1>2, <1>4, <1>5, <1>6 DEF AdvancedPhase, skips
<1>8. \A q \in Projects \ {p} :
        phase'[q] = phase[q] /\ status'[q] = status[q] /\ progress'[q] = progress[q]
  BY <1>1, <1>2, <1>4
<1>9. /\ DOMAIN phase' = Projects /\ DOMAIN status' = Projects /\ DOMAIN progress' = Projects
      /\ DOMAIN call' = Hands
  BY <1>1, <1>4
<1>10. slipped \subseteq slipped' /\ \A q : q \in slipped' => q \in slipped \/ q = p
  BY <1>1
<1>11. \A q \in Projects : status[q] # "none" => status'[q] # "none" /\ met[q] \subseteq met'[q]
  <2>1. \A q \in Projects : status[q] # "none" => status'[q] # "none"
    BY <1>7, <1>8
  <2>2. QED
    BY <2>1, Remembered
<1>12. ProjectInv(co, p, phase'[p], status'[p], progress'[p], met'[p], p \in slipped')
  <2>1. p \notin slipped' => p \notin slipped /\ phase[p] = seen /\ seen \in met[p]
    BY <1>1, <1>2
  <2>2. (p \in slipped) \in BOOLEAN /\ (p \in slipped') \in BOOLEAN /\ met[p] \subseteq met'[p]
    BY <1>2, <1>11
  <2>3. ProjectInv(co, p, phase[p], status[p], progress[p], met[p], p \in slipped)
    BY <1>2, <1>4
  <2>4. ProjectInv(co, p, AdvancedPhase(co, p, seen, phase[p]),
                   IF seen = "CLOSING" THEN "COMPLETED" ELSE status[p],
                   AdvancedRows(co, p, seen, progress[p]), met'[p], p \in slipped')
    BY <1>2, <1>3, <2>1, <2>2, <2>3, Advances, ZenonT(60)
  <2>5. QED
    BY <1>7, <2>4
<1>13. ASSUME NEW q \in Projects \ {p}
       PROVE  ProjectInv(co, q, phase'[q], status'[q], progress'[q], met'[q], q \in slipped')
  BY <1>4, <1>8, <1>10, <1>11 DEF ProjectInv, ReadyAs
<1>14. ASSUME NEW i \in Hands, call'[i] # NoCall
       PROVE  CallInv(call'[i], co, status', met', slipped')
  <2>1. call'[i] = call[i]
    BY <1>1, <1>4, <1>14
  <2>2. CallInv(call[i], co, status, met, slipped)
    BY <1>14, <2>1 DEF FtttInv, co
  <2>3. CallInv(call[i], co, status', met', slipped')
    BY <1>10, <1>11, <2>2, CallsStayFounded
  <2>4. QED
    BY <2>1, <2>3
<1>15. QED
  BY <1>9, <1>12, <1>13, <1>14 DEF FtttInv, co

(* A deleted site leaves nothing behind, and no call about it.             *)
LEMMA DeleteSiteKeeps ==
  ASSUME FtttInv, Remember, UNCHANGED scenario, NEW h \in Hands, DeleteSite(h)
  PROVE  FtttInv'
<1> DEFINE gone == call[h].project
           co == scenario.company
           lost == {i \in Busy : call[i].project = gone}
<1>1. /\ call[h] # NoCall /\ call[h].do = "deleteSite"
      /\ status' = [status EXCEPT ![gone] = "none"]
      /\ phase' = [phase EXCEPT ![gone] = "SURVEY"]
      /\ progress' = [progress EXCEPT ![gone] = Rows(gone)]
      /\ slipped' = slipped \ {gone}
      /\ Fail(lost)
  BY DEF DeleteSite, Calling
<1>2. gone \in Sites
  BY <1>1 DEF FtttInv, CallInv
<1>3. gone # Parent /\ gone \in Projects /\ co \in Companies
  BY <1>2, FtttAssumption DEF Projects, FtttInv
<1>4. /\ DOMAIN phase = Projects /\ DOMAIN status = Projects /\ DOMAIN progress = Projects
      /\ \A q \in Projects :
           ProjectInv(co, q, phase[q], status[q], progress[q], met[q], q \in slipped)
  BY DEF FtttInv
<1>5. Rows(gone) = NewRows(co)
  <2> HIDE DEF gone
  <2>1. QED
    BY <1>2, <1>3 DEF Rows, NewRows, Phases, Index
<1>6. ASSUME NEW i \in Hands, call'[i] # NoCall
      PROVE  call'[i] = call[i] /\ call[i].project # gone
  BY <1>1, <1>6 DEF Fail, Busy
<1>7. DOMAIN call' = Hands
  BY <1>1 DEF Fail
<1> HIDE DEF gone, co, lost
<1>8. /\ phase'[gone] = "SURVEY" /\ status'[gone] = "none" /\ progress'[gone] = NewRows(co)
      /\ gone \notin slipped'
  BY <1>1, <1>3, <1>4, <1>5
<1>9. /\ \A q \in Projects \ {gone} :
           /\ phase'[q] = phase[q] /\ status'[q] = status[q] /\ progress'[q] = progress[q]
           /\ q \in slipped' <=> q \in slipped
      /\ DOMAIN phase' = Projects /\ DOMAIN status' = Projects /\ DOMAIN progress' = Projects
  BY <1>1, <1>3, <1>4
<1>10. \A q \in Projects \ {gone} : status[q] # "none" => met[q] \subseteq met'[q]
  BY <1>9, Remembered
<1>11. ProjectInv(co, gone, phase'[gone], status'[gone], progress'[gone], met'[gone], gone \in slipped')
  <2>1. ProjectInv(co, gone, "SURVEY", "none", NewRows(co), met'[gone], FALSE)
    BY <1>2, <1>3, NewSites
  <2>2. (gone \in slipped') = FALSE
    BY <1>8
  <2>3. QED
    BY <1>8, <2>1, <2>2
<1>12. ASSUME NEW q \in Projects \ {gone}
       PROVE  ProjectInv(co, q, phase'[q], status'[q], progress'[q], met'[q], q \in slipped')
  BY <1>4, <1>9, <1>10 DEF ProjectInv, ReadyAs
<1>13. ASSUME NEW i \in Hands, call'[i] # NoCall
       PROVE  CallInv(call'[i], co, status', met', slipped')
  <2>1. call'[i] = call[i] /\ call[i].project # gone
    BY <1>6, <1>13
  <2>2. CallInv(call[i], co, status, met, slipped)
    BY <1>13, <2>1 DEF FtttInv, co
  <2>3. CallInv(call[i], co, status', met', slipped')
    BY <1>9, <1>10, <2>1, <2>2 DEF CallInv
  <2>4. QED
    BY <2>1, <2>3
<1>14. QED
  BY <1>7, <1>9, <1>11, <1>12, <1>13 DEF FtttInv, co

(* A parent begins in its initiation; there are no sites.                  *)
LEMMA FtttInitially == FtttInit => FtttInv
<1> SUFFICES ASSUME FtttInit PROVE FtttInv
  OBVIOUS
<1> DEFINE co == scenario.company
           R == Range(Lifecycle[co])
           P == Position[co]
           rows == Rows(Parent)
<1>1. co \in Companies
  BY FtttAssumption DEF FtttInit
<1>2. Parent \notin Sites /\ Parent \in Projects
  BY FtttAssumption DEF Projects
<1>3. /\ "INITIATION" \in R /\ P["INITIATION"] = 1
      /\ \A k \in R : P[k] \in 1 .. Len(Lifecycle[co])
      /\ \A k \in R : P[k] = P["INITIATION"] => k = "INITIATION"
  BY <1>1, Landmarks
<1>4. rows = [k \in R |-> IF k = "INITIATION" THEN "ACTIVE"
                          ELSE IF k = "PROCUREMENT" THEN "absent" ELSE "LOCKED"]
  BY <1>2 DEF Rows, Phases
<1> HIDE DEF rows, P, R
<1>5. rows \in [R -> ProgressStates] /\ rows["INITIATION"] = "ACTIVE"
  BY <1>3, <1>4 DEF ProgressStates
<1>6. OrderedAs(co, Parent, "INITIATION", "ACTIVE", rows)
  <2>1. ASSUME NEW k \in R, P[k] < P["INITIATION"] PROVE FALSE
    BY <1>3, <2>1
  <2>2. ASSUME NEW k \in R, P[k] # P["INITIATION"] PROVE rows[k] \in {"LOCKED", "absent"}
    BY <1>3, <1>4, <2>2
  <2>3. QED
    BY <1>3, <1>5, <2>1, <2>2 DEF OrderedAs, R, P
<1>7. ReadyAs(co, Parent, rows, {})
  BY <1>4 DEF ReadyAs, R
<1>8. ProjectInv(co, Parent, "INITIATION", "ACTIVE", rows, {}, FALSE)
  BY <1>5, <1>6, <1>7 DEF ProjectInv, PhasesOf, Initial, R
<1>9. ASSUME NEW s \in Sites PROVE ProjectInv(co, s, "SURVEY", "none", Rows(s), {}, FALSE)
  <2>1. Rows(s) = NewRows(co)
    BY <1>2 DEF Rows, NewRows, Phases, Index
  <2>2. QED
    BY <1>1, <2>1, NewSites
<1>10. ASSUME NEW p \in Projects
       PROVE  ProjectInv(co, p, phase[p], status[p], progress[p], met[p], p \in slipped)
  <2>1. met[p] = {} /\ (p \in slipped) = FALSE
    BY DEF FtttInit
  <2>2. CASE p = Parent
    <3>1. phase[p] = "INITIATION" /\ status[p] = "ACTIVE" /\ progress[p] = rows
      BY <2>2 DEF FtttInit, rows
    <3>2. QED
      BY <1>8, <2>1, <2>2, <3>1
  <2>3. CASE p # Parent
    <3>1. p \in Sites
      BY <2>3 DEF Projects
    <3>2. phase[p] = "SURVEY" /\ status[p] = "none" /\ progress[p] = Rows(p)
      BY <2>3 DEF FtttInit
    <3>3. QED
      BY <1>9, <2>1, <3>1, <3>2
  <2>4. QED
    BY <2>2, <2>3
<1>11. /\ scenario \in Scenarios
       /\ DOMAIN phase = Projects /\ DOMAIN status = Projects /\ DOMAIN progress = Projects
       /\ DOMAIN call = Hands /\ \A h \in Hands : call[h] = NoCall
  BY DEF FtttInit
<1>12. QED
  BY <1>10, <1>11 DEF FtttInv, co

(* Every step keeps the invariant.                                         *)
LEMMA FtttInvIsInductive == FtttInv /\ [FtttNext]_ftttVars => FtttInv'
<1> SUFFICES ASSUME FtttInv, [FtttNext]_ftttVars PROVE FtttInv'
  OBVIOUS
<1>1. CASE FtttNext
  <2>1. FtttStep /\ UNCHANGED scenario /\ Remember
    BY <1>1 DEF FtttNext
  <2>2. PICK h \in Hands :
          \/ \E s \in Sites :
               \/ \E x \in scenario.slow \cup (Flags \cap DOMAIN papers[s]) : BeginPaper(h, s, x)
               \/ BeginAddSite(h, s)
          \/ \E p \in Projects : AdvanceCheck(h, p)
          \/ BeginClose(h)
          \/ /\ scenario.groups
             /\ \/ \E s \in Sites : BeginDeleteEnding(h, s) \/ BeginDeleteSite(h, s)
                \/ \E S \in SUBSET Sites : BeginEndings(h, S)
                \/ BeginAddGroup(h) \/ BeginDeleteGroup(h)
          \/ EndPaper(h) \/ AdvanceRead(h) \/ AdvanceWrite(h) \/ CloseParent(h)
          \/ AddSite(h) \/ AddBeginningGroup(h) \/ CompleteBeginningEndings(h)
          \/ DeleteSiteEnding(h) \/ DeleteBeginningGroup(h) \/ DeleteSite(h)
    BY <2>1 DEF FtttStep
  <2>3. CASE \/ \E s \in Sites : \/ \E x : BeginPaper(h, s, x)
                                 \/ BeginAddSite(h, s) \/ BeginDeleteEnding(h, s)
                                 \/ BeginDeleteSite(h, s)
             \/ BeginClose(h) \/ BeginAddGroup(h) \/ BeginDeleteGroup(h)
             \/ \E S : BeginEndings(h, S)
    BY <2>1, <2>3, BeginningsKeep
  <2>4. ASSUME NEW p \in Projects, AdvanceCheck(h, p) PROVE FtttInv'
    BY <2>1, <2>4, AdvanceCheckKeeps
  <2>5. CASE \/ EndPaper(h) \/ CloseParent(h) \/ AddSite(h) \/ AddBeginningGroup(h)
             \/ CompleteBeginningEndings(h) \/ DeleteSiteEnding(h) \/ DeleteBeginningGroup(h)
    BY <2>1, <2>5, ReturnsKeep
  <2>6. CASE AdvanceRead(h)
    BY <2>1, <2>6, AdvanceReadKeeps
  <2>7. CASE AdvanceWrite(h)
    BY <2>1, <2>7, AdvanceWriteKeeps
  <2>8. CASE DeleteSite(h)
    BY <2>1, <2>8, DeleteSiteKeeps
  <2>9. QED
    BY <2>2, <2>3, <2>4, <2>5, <2>6, <2>7, <2>8
<1>2. CASE UNCHANGED ftttVars
  BY <1>2 DEF ftttVars, FtttInv
<1>3. QED
  BY <1>1, <1>2

(* The invariant holds however advances, closings and deletions overlap.   *)
THEOREM FtttInvariant == FtttSpec => []FtttInv
BY FtttInitially, FtttInvIsInductive, PTL DEF FtttSpec

(* A project that no advance slipped in goes through its phases in order.  *)
THEOREM ProjectsAdvanceInOrder == FtttSpec => []PhasesInOrder
<1>1. FtttInv => PhasesInOrder
  BY DEF FtttInv, ProjectInv, OrderedAs, PhasesInOrder, Started, Phases, Index
<1>2. QED
  BY <1>1, FtttInvariant, PTL

(* And completes a phase only after it was ready while it was current.     *)
THEOREM CompletedPhasesWereReady == FtttSpec => []PhasesWereReady
<1>1. FtttInv => PhasesWereReady
  BY DEF FtttInv, ProjectInv, ReadyAs, PhasesWereReady, Started, Phases
<1>2. QED
  BY <1>1, FtttInvariant, PTL

(* The papers of the sites and the one group, whoever writes them last.    *)
PaperStates == {"absent", "FILED", "PENDING_PM", "APPROVED", "REJECTED"}
FilesInv ==
  /\ papers \in [Sites -> [Papers[scenario.company] -> PaperStates]]
  /\ group \in [state : {"none", "DRAFT", "COMPLETED"}, endings : SUBSET Sites]
  /\ \A h \in Hands : call[h] # NoCall =>
       /\ call[h].do = "paper" => call[h].to \in PaperStates
       /\ call[h].do = "endings" => call[h].sites \subseteq Sites

(* What a turn of a paper writes is a status of papers.                    *)
LEMMA TurnsWriteStates ==
  ASSUME NEW x, NEW t \in Turns(x)
  PROVE  t.to \in PaperStates
<1>1. \A u \in UploadDocument \cup UpsertReconDoc \cup Reviewed : u.to \in PaperStates
  BY DEF UploadDocument, UpsertReconDoc, Reviewed, Turn, PaperStates
<1>2. QED
  BY <1>1 DEF Turns, Turn, PaperStates

(* Sites begin with papers of their company's.                             *)
LEMMA CreatedPapers ==
  ASSUME FilesInv, UNCHANGED scenario, NEW S, CreateSites(S)
  PROVE  papers' \in [Sites -> [Papers[scenario.company] -> PaperStates]]
<1>1. \A x : Given(x) \in PaperStates
  BY DEF Given, PaperStates
<1>2. \A s \in Sites : papers[s] \in [Papers[scenario.company] -> PaperStates]
  BY DEF FilesInv
<1> DEFINE new == {s \in S : status[s] = "none"}
           of(s) == IF s \in new
                    THEN [x \in DOMAIN papers[s] |->
                            IF x \in scenario.slow \cup Flags THEN "absent" ELSE Given(x)]
                    ELSE papers[s]
<1>3. papers' = [s \in Sites |-> of(s)]
  BY DEF CreateSites
<1>4. ASSUME NEW s \in Sites PROVE of(s) \in [Papers[scenario.company] -> PaperStates]
  BY <1>1, <1>2 DEF PaperStates
<1> HIDE DEF of
<1>5. QED
  BY <1>3, <1>4

(* The calls that stay keep what they will write.                          *)
LEMMA FilesKeep ==
  ASSUME FtttInv, FilesInv, FtttStep, UNCHANGED scenario
  PROVE  FilesInv'
<1>1. /\ papers \in [Sites -> [Papers[scenario.company] -> PaperStates]]
      /\ group \in [state : {"none", "DRAFT", "COMPLETED"}, endings : SUBSET Sites]
      /\ DOMAIN call = Hands
  BY DEF FilesInv, FtttInv
<1> DEFINE Writes(c) == /\ c.do = "paper" => c.to \in PaperStates
                        /\ c.do = "endings" => c.sites \subseteq Sites
<1>2. \A h \in Hands : call[h] # NoCall => Writes(call[h])
  BY DEF FilesInv
<1>3. SUFFICES /\ papers' \in [Sites -> [Papers[scenario.company] -> PaperStates]]
               /\ group' \in [state : {"none", "DRAFT", "COMPLETED"}, endings : SUBSET Sites]
               /\ \A h \in Hands : call'[h] # NoCall => Writes(call'[h])
  BY DEF FilesInv
<1>4. ASSUME NEW h \in Hands, NEW what, Calls(h, what), Writes(what)
      PROVE  /\ UNCHANGED <<papers, group>>
             /\ \A i \in Hands : call'[i] # NoCall => Writes(call'[i])
  <2> HIDE DEF Writes
  <2>1. QED
    BY <1>1, <1>2, <1>4 DEF Calls
<1>5. ASSUME NEW h \in Hands, Returns(h)
      PROVE  \A i \in Hands : call'[i] # NoCall => Writes(call'[i])
  <2> HIDE DEF Writes
  <2>1. QED
    BY <1>1, <1>2, <1>5 DEF Returns
<1>6. ASSUME NEW lost, Fail(lost)
      PROVE  \A i \in Hands : call'[i] # NoCall => Writes(call'[i])
  <2> HIDE DEF Writes
  <2>1. QED
    BY <1>1, <1>2, <1>6 DEF Fail
<1>7. ASSUME NEW h \in Hands, NEW s \in Sites, NEW x, BeginPaper(h, s, x)
      PROVE  \E what : Calls(h, what) /\ Writes(what)
  <2>1. PICK t \in Turns(x) : Calls(h, [project |-> s, do |-> "paper", paper |-> x, to |-> t.to])
    BY <1>7 DEF BeginPaper
  <2>2. t.to \in PaperStates
    BY TurnsWriteStates
  <2>3. QED
    BY <2>1, <2>2
<1>8. ASSUME NEW h \in Hands, NEW S \in SUBSET Sites, BeginEndings(h, S)
      PROVE  \E what : Calls(h, what) /\ Writes(what)
  BY <1>8 DEF BeginEndings
<1>9. ASSUME NEW h \in Hands,
             \/ \E s \in Sites : BeginAddSite(h, s) \/ BeginDeleteEnding(h, s) \/ BeginDeleteSite(h, s)
             \/ \E p \in Projects : AdvanceCheck(h, p)
             \/ BeginClose(h) \/ BeginAddGroup(h) \/ BeginDeleteGroup(h)
      PROVE  \E what : Calls(h, what) /\ Writes(what)
  <2>1. ASSUME NEW s, BeginAddSite(h, s) PROVE \E what : Calls(h, what) /\ Writes(what)
    BY <2>1 DEF BeginAddSite
  <2>2. ASSUME NEW s, BeginDeleteEnding(h, s) PROVE \E what : Calls(h, what) /\ Writes(what)
    BY <2>2 DEF BeginDeleteEnding
  <2>3. ASSUME NEW s, BeginDeleteSite(h, s) PROVE \E what : Calls(h, what) /\ Writes(what)
    BY <2>3 DEF BeginDeleteSite
  <2>4. ASSUME NEW p, AdvanceCheck(h, p) PROVE \E what : Calls(h, what) /\ Writes(what)
    BY <2>4 DEF AdvanceCheck
  <2>5. BeginClose(h) => \E what : Calls(h, what) /\ Writes(what)
    BY DEF BeginClose
  <2>6. BeginAddGroup(h) => \E what : Calls(h, what) /\ Writes(what)
    BY DEF BeginAddGroup
  <2>7. BeginDeleteGroup(h) => \E what : Calls(h, what) /\ Writes(what)
    BY DEF BeginDeleteGroup
  <2> HIDE DEF Writes
  <2>8. QED
    BY <1>9, <2>1, <2>2, <2>3, <2>4, <2>5, <2>6, <2>7
<1> HIDE DEF Writes
<1>10. ASSUME NEW h \in Hands, AdvanceRead(h)
       PROVE  /\ UNCHANGED <<papers, group>>
              /\ \A i \in Hands : call'[i] # NoCall => Writes(call'[i])
  <2> DEFINE what == [project |-> call[h].project, do |-> "complete", seen |-> phase[call[h].project]]
  <2>1. Writes(what)
    BY DEF Writes
  <2> HIDE DEF what
  <2>2. UNCHANGED <<papers, group>> /\ (call' = [call EXCEPT ![h] = what] \/ call' = [call EXCEPT ![h] = NoCall])
    BY <1>10 DEF AdvanceRead, what
  <2>3. QED
    BY <1>1, <1>2, <2>1, <2>2
<1>11. ASSUME NEW h \in Hands, EndPaper(h)
       PROVE  UNCHANGED group /\ papers' \in [Sites -> [Papers[scenario.company] -> PaperStates]]
  <2> DEFINE s == call[h].project
             x == call[h].paper
             to == call[h].to
  <2>1. UNCHANGED group /\ papers' = [papers EXCEPT ![s][x] = to]
    BY <1>11 DEF EndPaper
  <2>2. to \in PaperStates
    BY <1>2, <1>11 DEF EndPaper, Calling, Writes
  <2> HIDE DEF s, x, to
  <2>3. QED
    BY <1>1, <2>1, <2>2
<1>12. ASSUME NEW h \in Hands, AddSite(h)
       PROVE  UNCHANGED group /\ papers' \in [Sites -> [Papers[scenario.company] -> PaperStates]]
  BY <1>12, CreatedPapers DEF AddSite
<1>13. ASSUME NEW h \in Hands, CompleteBeginningEndings(h)
       PROVE  /\ papers' \in [Sites -> [Papers[scenario.company] -> PaperStates]]
              /\ group' \in [state : {"none", "DRAFT", "COMPLETED"}, endings : SUBSET Sites]
  <2>1. call[h].sites \subseteq Sites
    BY <1>2, <1>13 DEF CompleteBeginningEndings, Calling, Writes
  <2>2. QED
    BY <1>1, <1>13, <2>1, CreatedPapers DEF CompleteBeginningEndings
<1>14. ASSUME NEW h \in Hands, DeleteSite(h)
       PROVE  UNCHANGED group /\ papers' \in [Sites -> [Papers[scenario.company] -> PaperStates]]
  <2> DEFINE s == call[h].project
  <2>1. /\ UNCHANGED group
        /\ papers' = [papers EXCEPT ![s] = [x \in DOMAIN papers[s] |-> "absent"]]
    BY <1>14 DEF DeleteSite
  <2>2. s \in Sites
    BY <1>14 DEF DeleteSite, Calling, FtttInv, CallInv
  <2> HIDE DEF s
  <2>3. [x \in DOMAIN papers[s] |-> "absent"] \in [Papers[scenario.company] -> PaperStates]
    BY <1>1, <2>2 DEF PaperStates
  <2>4. QED
    BY <1>1, <2>1, <2>2, <2>3
<1>15. ASSUME NEW h \in Hands,
              AdvanceWrite(h) \/ CloseParent(h) \/ AddBeginningGroup(h) \/ DeleteSiteEnding(h)
              \/ DeleteBeginningGroup(h)
       PROVE  UNCHANGED papers
              /\ group' \in [state : {"none", "DRAFT", "COMPLETED"}, endings : SUBSET Sites]
  BY <1>1, <1>15 DEF AdvanceWrite, CloseParent, AddBeginningGroup, DeleteSiteEnding, DeleteBeginningGroup
<1>16. PICK h \in Hands :
          \/ \E s \in Sites : \E x : BeginPaper(h, s, x)
          \/ \E S \in SUBSET Sites : BeginEndings(h, S)
          \/ \E s \in Sites : BeginAddSite(h, s) \/ BeginDeleteEnding(h, s) \/ BeginDeleteSite(h, s)
          \/ \E p \in Projects : AdvanceCheck(h, p)
          \/ BeginClose(h) \/ BeginAddGroup(h) \/ BeginDeleteGroup(h)
          \/ AdvanceRead(h) \/ EndPaper(h) \/ AddSite(h) \/ CompleteBeginningEndings(h)
          \/ DeleteSite(h)
          \/ AdvanceWrite(h) \/ CloseParent(h) \/ AddBeginningGroup(h) \/ DeleteSiteEnding(h)
          \/ DeleteBeginningGroup(h)
  BY DEF FtttStep
<1>17. CASE \E what : Calls(h, what) /\ Writes(what)
  BY <1>1, <1>4, <1>17
<1>18. CASE AdvanceRead(h)
  BY <1>1, <1>10, <1>18
<1>19. CASE EndPaper(h) \/ AddSite(h) \/ CompleteBeginningEndings(h)
  <2>1. Returns(h)
    BY <1>19 DEF EndPaper, AddSite, CompleteBeginningEndings
  <2>2. QED
    BY <1>1, <1>5, <1>11, <1>12, <1>13, <1>19, <2>1
<1>20. CASE AdvanceWrite(h) \/ CloseParent(h) \/ AddBeginningGroup(h) \/ DeleteSiteEnding(h)
            \/ DeleteBeginningGroup(h)
  <2>1. Returns(h) \/ \E lost : Fail(lost)
    BY <1>20 DEF AdvanceWrite, CloseParent, AddBeginningGroup, DeleteSiteEnding,
                DeleteBeginningGroup
  <2>2. \A i \in Hands : call'[i] # NoCall => Writes(call'[i])
    BY <1>5, <1>6, <2>1
  <2>3. QED
    BY <1>1, <1>15, <1>20, <2>2
<1>21. CASE DeleteSite(h)
  <2>1. \E lost : Fail(lost)
    BY <1>21 DEF DeleteSite
  <2>2. QED
    BY <1>1, <1>6, <1>14, <1>21, <2>1
<1>22. QED
  BY <1>7, <1>8, <1>9, <1>16, <1>17, <1>18, <1>19, <1>20, <1>21

(* The rows of the projects are tables of them.                            *)
Tabled(f) == f = [p \in Projects |-> f[p]]
(* Phases, statuses and progress stay rows of their tables.                *)
LEMMA RowsStayTabled ==
  ASSUME Tabled(phase), Tabled(status), Tabled(progress), FtttStep
  PROVE  Tabled(phase') /\ Tabled(status') /\ Tabled(progress')
<1>1. ASSUME NEW f, NEW p, NEW x, Tabled(f) PROVE Tabled([f EXCEPT ![p] = x])
  BY <1>1 DEF Tabled
<1>2. ASSUME NEW f, NEW g(_), f = [p \in Projects |-> g(p)] PROVE Tabled(f)
  BY <1>2 DEF Tabled
<1>3. PICK h \in Hands :
        \/ UNCHANGED <<phase, status, progress>>
        \/ AdvanceWrite(h) \/ DeleteSite(h)
        \/ /\ CloseParent(h) \/ AddSite(h) \/ CompleteBeginningEndings(h)
           /\ UNCHANGED <<phase, progress>>
  BY DEF FtttStep, BeginPaper, BeginAddSite, AdvanceCheck, BeginClose, BeginDeleteEnding,
         BeginDeleteSite, BeginEndings, BeginAddGroup, BeginDeleteGroup, EndPaper,
         AdvanceRead, CloseParent, AddSite, AddBeginningGroup, CompleteBeginningEndings,
         DeleteSiteEnding, DeleteBeginningGroup, Calls
<1>4. CASE AdvanceWrite(h)
  BY <1>1, <1>4 DEF AdvanceWrite
<1>5. CASE DeleteSite(h)
  BY <1>1, <1>5 DEF DeleteSite
<1>6. CASE CloseParent(h) \/ AddSite(h) \/ CompleteBeginningEndings(h)
  BY <1>6, <1>2 DEF CloseParent, AddSite, CompleteBeginningEndings, CreateSites, Tabled
<1>7. QED
  BY <1>3, <1>4, <1>5, <1>6

(* Every row of a project, of its papers and of its group has its type.    *)
THEOREM ProjectsKeepTheirType == FtttSpec => []FtttTypeOK
<1> DEFINE TypeInv == FilesInv /\ Tabled(phase) /\ Tabled(status) /\ Tabled(progress)
<1>1. FtttInit => TypeInv
  <2> SUFFICES ASSUME FtttInit PROVE TypeInv
    OBVIOUS
  <2>1. papers = [s \in Sites |-> [x \in Papers[scenario.company] |-> "absent"]]
    BY DEF FtttInit
  <2>2. papers \in [Sites -> [Papers[scenario.company] -> PaperStates]]
    BY <2>1 DEF PaperStates
  <2>3. FilesInv
    BY <2>2 DEF FtttInit, FilesInv
  <2>4. QED
    BY <2>3 DEF FtttInit, Tabled
<1>2. FtttInv /\ TypeInv /\ [FtttNext]_ftttVars => TypeInv'
  <2>1. FtttInv /\ TypeInv /\ FtttNext => TypeInv'
    BY FilesKeep, RowsStayTabled DEF FtttNext
  <2>2. TypeInv /\ UNCHANGED ftttVars => TypeInv'
    BY DEF ftttVars, FilesInv, Tabled
  <2>3. QED
    BY <2>1, <2>2
<1>3. FtttInv /\ TypeInv => FtttTypeOK
  <2> SUFFICES ASSUME FtttInv, TypeInv PROVE FtttTypeOK
    OBVIOUS
  <2>1. ASSUME NEW p \in Projects
        PROVE  /\ phase[p] \in Range(Phases)
               /\ status[p] \in {"none", "ACTIVE", "CLOSED", "COMPLETED"}
               /\ progress[p] \in [Range(Phases) -> ProgressStates]
    <3>1. scenario.company \in Companies
      BY FtttAssumption DEF FtttInv
    <3>2. {"INITIATION", "SITE_INITIATION"} \subseteq Range(Lifecycle[scenario.company])
      BY <3>1, Landmarks
    <3>3. PhasesOf(scenario.company, p) \subseteq Range(Phases)
      BY <3>2 DEF PhasesOf, Initial, Phases
    <3>4. QED
      BY <3>3 DEF FtttInv, ProjectInv, Phases
  <2>2. phase \in [Projects -> Range(Phases)]
    BY <2>1 DEF Tabled
  <2>3. status \in [Projects -> {"none", "ACTIVE", "CLOSED", "COMPLETED"}]
    BY <2>1 DEF Tabled
  <2>4. progress \in [Projects -> [Range(Phases) -> ProgressStates]]
    BY <2>1 DEF Tabled
  <2>5. QED
    BY <2>2, <2>3, <2>4 DEF FtttInv, FilesInv, FtttTypeOK, PaperStates, ProgressStates
<1>4. QED
  BY <1>1, <1>2, <1>3, FtttInvariant, PTL DEF FtttSpec

-----------------------------------------------------------------------------
(* The departments beside one another.                                     *)

(* A behaviour of the field run is a behaviour of each department, so that *)
(* what is proved of a department alone holds in their company.            *)
THEOREM DepartmentsRunApart ==
  FieldSpec => VisitSpec /\ ClusterSpec /\ FtttSpec /\ FundSpec /\ EditorSpec /\ ClaimSpec
<1>1. FieldInit => VisitInit /\ ClusterInit /\ FtttInit /\ FundInit /\ EditorInit /\ ClaimInit
  BY DEF FieldInit
<1>2. [FieldNext]_fieldVars => [VisitNext]_visitVars
  BY DEF FieldNext, fieldVars
<1>3. [FieldNext]_fieldVars => [ClusterNext]_clusterVars
  BY DEF FieldNext, fieldVars
<1>4. [FieldNext]_fieldVars => [FtttNext]_ftttVars
  BY DEF FieldNext, fieldVars
<1>5. [FieldNext]_fieldVars => [FundNext]_fundVars
  BY DEF FieldNext, fieldVars
<1>6. [FieldNext]_fieldVars => [EditorNext]_editorVars
  BY DEF FieldNext, fieldVars
<1>7. [FieldNext]_fieldVars => [ClaimNext]_claimVars
  BY DEF FieldNext, fieldVars
<1>8. QED
  BY <1>1, <1>2, <1>3, <1>4, <1>5, <1>6, <1>7, PTL
     DEF FieldSpec, VisitSpec, ClusterSpec, FtttSpec, FundSpec, EditorSpec, ClaimSpec

(* Each department's tables keep their types in the company of the others. *)
THEOREM FieldKeepsItsTypes == FieldSpec => []FieldTypeOK
<1> DEFINE Departments == {"visits", "cluster", "fttt", "funds", "editor", "claims"}
<1>1. FieldSpec => [](focus \in Departments)
  <2>1. FieldInit => focus \in Departments
    BY DEF FieldInit
  <2>2. focus \in Departments /\ [FieldNext]_fieldVars => (focus \in Departments)'
    BY DEF FieldNext, fieldVars
  <2>3. QED
    BY <2>1, <2>2, PTL DEF FieldSpec
<1>2. GateInv => VisitTypeOK
  BY DEF GateInv
<1>3. ClusterInv => ClusterTypeOK
  BY DEF ClusterInv
<1>4. FundInv => FundTypeOK
  BY DEF FundInv
<1>5. ClaimInv => ClaimTypeOK
  BY DEF ClaimInv
<1>6. DrawingInv => EditorTypeOK
  BY DEF DrawingInv
<1>7. focus \in Departments /\ VisitTypeOK /\ ClusterTypeOK /\ FtttTypeOK /\ FundTypeOK
        /\ ClaimTypeOK /\ EditorTypeOK => FieldTypeOK
  BY DEF FieldTypeOK
<1>8. QED
  BY <1>1, <1>2, <1>3, <1>4, <1>5, <1>6, <1>7, DepartmentsRunApart, VisitGates, ClusterInvariant,
     ProjectsKeepTheirType, FundInvariant, ClaimInvariant, DrawingInvariant, PTL
=============================================================================
