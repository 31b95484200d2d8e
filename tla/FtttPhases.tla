----------------------------- MODULE FtttPhases -----------------------------
(***************************************************************************)
(* FtttProjectService: the lifecycle of an FTTT project, a parent (Bulky)  *)
(* and the sites under it.                                                 *)
(*                                                                         *)
(* advancePhase first judges whether the current phase is ready, then      *)
(* reads the project again, then writes, in a transaction that checks      *)
(* nothing, what this second read told it.  Papers, the parent's closing   *)
(* and the creation and deletion of sites are checked and written in the   *)
(* same way.  A Hand is one such call.  A site's papers are its uploads,   *)
(* documents, logs and flags; one row stands for all the documents of a    *)
(* type.                                                                   *)
(***************************************************************************)
EXTENDS Naturals, FiniteSets, SequencesExt

CONSTANTS
  Parent,
  Sites,      \* bound: the finance sites of the parent's segment
  Hands,      \* bound: calls under way at once
  Scenarios,  \* bound: a company; the papers that are slow: the others are
              \* on file from the day the site is made, which the code allows
              \* of every paper but the flags; whether sites also come and
              \* go with the group
  NoCall

VARIABLES
  scenario,   \* one of Scenarios
  phase,      \* FtttProject.currentPhase
  status,     \* FtttProject.status, "none" while there is no such row
  progress,   \* FtttPhaseProgress.status of each phase
  papers,     \* each site's papers
  group,      \* one FtttBeginningGroup and its endings
  call,       \* what each hand has read and will write
  met,        \* history: phases that were ready at a time when current
  slipped     \* history: projects where an advance found, or left, another
              \* phase than the one it had judged

ftttVars == <<scenario, phase, status, progress, papers, group, call, met, slipped>>

Projects == {Parent} \cup Sites
Started == {p \in Projects : status[p] # "none"}

Companies == {"TELKOM_INFRA", "PST", "IFORTE"}

(* A project is a parent or a site, and each company has its lifecycle.    *)
ASSUME FtttAssumption == Parent \notin Sites /\ \A s \in Scenarios : s.company \in Companies

Lifecycle ==
  [company \in Companies |->
     IF company = "PST"
     THEN <<"INITIATION", "SITE_INITIATION", "SURVEY", "PREPARATION", "PROCUREMENT",
            "IMPLEMENTATION", "DOCUMENTATION", "RECONCILIATION", "CLOSING">>
     ELSE <<"INITIATION", "SITE_INITIATION", "SURVEY", "PREPARATION",
            "IMPLEMENTATION", "DOCUMENTATION", "RECONCILIATION", "CLOSING">>]

Phases == Lifecycle[scenario.company]
Position ==
  [company \in Companies |-> [k \in Range(Lifecycle[company]) |->
     CHOOSE i \in DOMAIN Lifecycle[company] : Lifecycle[company][i] = k]]
Index(k) == Position[scenario.company][k]
AllPhases == Range(Lifecycle["PST"])
Operational == AllPhases \ {"INITIATION", "SITE_INITIATION"}

-----------------------------------------------------------------------------
(* What each phase asks for.                                               *)

DocRequired ==
  [company \in Companies |->
     IF company = "IFORTE" THEN {} ELSE {"BACT", "BAUT", "BAUT_REKONSILIASI"}]

RECON_REQUIRED ==
  [TELKOM_INFRA |->
     {"RISALAH_RAPAT_MOM", "BOQ_REKONSILIASI", "BA_PENUTUPAN", "BAPP_TI", "BAST_1_TI",
      "NOTA_DINAS", "NOTA_DINAS_TIM_UJI_TERIMA", "PO_TI", "AMANDEMEN_1_TI", "AMANDEMEN_2_TI"},
   PST |-> {"REKONSILIASI", "BAST", "GOOD_RECEIPT_PST"},
   IFORTE |-> {"ENDORSEMENT", "BAST_TERMIN_MCV"}]

PreparationRequired ==
  [TELKOM_INFRA |-> {"JAMINAN_UANG_MUKA", "JAMINAN_PELAKSANAAN"},
   PST |-> {"BOQ_INITIAL", "DRM_RESULT"},
   IFORTE |-> {}]

ClosingRequired ==
  [TELKOM_INFRA |-> {"JAMINAN_PEMELIHARAAN", "INVOICE_FINAL", "MAINTENANCE"},
   PST |-> {"INVOICE_PST_CLOSING", "JAMINAN_PEMELIHARAAN_PST", "JAMINAN_PELAKSANAAN_PST",
            "MAINTENANCE"},
   IFORTE |-> {"INVOICE_IFORTE", "PAID"}]

Required ==
  [company \in Companies |-> [k \in AllPhases |->
     CASE k = "PREPARATION" -> PreparationRequired[company]
       [] k = "PROCUREMENT" -> {"PO_PROCUREMENT"}
       [] k = "IMPLEMENTATION" ->
            {"LAPANGAN", "TYPE", IF company = "IFORTE" THEN "RFSD" ELSE "MONITORING_DOC"}
       [] k = "DOCUMENTATION" -> DocRequired[company]
       [] k = "RECONCILIATION" -> RECON_REQUIRED[company]
       [] k = "CLOSING" -> ClosingRequired[company]
       [] OTHER -> {}]]

Evidence == {"SURVEY_UPLOAD", "SURVEY_SITE"}
Optional(company) == IF company = "IFORTE" THEN {"BA_JUSTIFIKASI"} ELSE {}

Papers ==
  [company \in Companies |->
     Evidence \cup Optional(company)
     \cup UNION {Required[company][k] : k \in Range(Lifecycle[company])}]

(* What keeps a site's current phase from being ready.                     *)
Missing(s) ==
  LET held == {x \in DOMAIN papers[s] : papers[s][x] \in {"FILED", "APPROVED"}} IN
  CASE phase[s] = "SURVEY" -> IF held \cap Evidence = {} THEN Evidence ELSE {}
    [] phase[s] = "RECONCILIATION" ->
         { x \in Required[scenario.company][phase[s]] \cup Optional(scenario.company) :
             x \notin held /\ (x \in Optional(scenario.company) => papers[s][x] # "absent") }
    [] OTHER -> Required[scenario.company][phase[s]] \ held

HasSites ==
  \/ group.state = "COMPLETED" /\ group.endings # {}
  \/ \E s \in Sites : status[s] # "none"

ReadyNow(p) ==
  IF p = Parent THEN phase[p] = "SITE_INITIATION" => HasSites ELSE Missing(p) = {}

(* Mutant: one paper of those required lets the phase pass.                *)
PassesWithSome(p) ==
  \/ ReadyNow(p)
  \/ p # Parent /\ ~ (Required[scenario.company][phase[p]] \subseteq Missing(p))

CheckPhaseReadiness(p) == ReadyNow(p)

-----------------------------------------------------------------------------
(* How papers come on file: a call finds the paper in one of the statuses  *)
(* from, the site in one of the phases during, and later writes to.        *)

Turn(from, during, to) == [from |-> from, during |-> during, to |-> to]

Reports == {"BACT", "BAUT", "BAUT_REKONSILIASI"}
Reconciled ==
  UNION {RECON_REQUIRED[c] \cup Optional(c) : c \in Companies}

Reviewed ==
  {Turn({"PENDING_PM"}, Operational, "APPROVED"), Turn({"PENDING_PM"}, Operational, "REJECTED")}

UploadDocument == {Turn({"absent", "REJECTED"}, Operational, "PENDING_PM")}

UpsertReconDoc ==
  {Turn({"absent", "PENDING_PM", "APPROVED", "REJECTED"}, Operational, "PENDING_PM")}

Flags == {"LAPANGAN", "TYPE", "MAINTENANCE"}
FlagPhase(x) == IF x = "MAINTENANCE" THEN "CLOSING" ELSE "IMPLEMENTATION"

Turns(x) ==
  CASE x \in Reports -> UploadDocument \cup Reviewed
    [] x \in Reconciled -> UpsertReconDoc \cup Reviewed
    [] x \in Flags -> {Turn({"absent"}, {FlagPhase(x)}, "FILED")}
    [] x \in Evidence \cup {"PAID"} ->
         {Turn({"absent"}, Operational, "FILED"), Turn({"FILED"}, Operational, "absent")}
    [] OTHER -> {Turn({"absent"}, Operational, "FILED")}

Given(x) == IF x \in Reports \cup Reconciled THEN "APPROVED" ELSE "FILED"

-----------------------------------------------------------------------------
Rows(p) ==
  [k \in Range(Phases) |->
     IF p \in Sites /\ Index(k) < 3 THEN "COMPLETED"
     ELSE IF k = (IF p = Parent THEN "INITIATION" ELSE "SURVEY") THEN "ACTIVE"
     ELSE IF k = "PROCUREMENT" THEN "absent" ELSE "LOCKED"]

FtttInit ==
  /\ scenario \in Scenarios
  /\ phase = [p \in Projects |-> IF p = Parent THEN "INITIATION" ELSE "SURVEY"]
  /\ status = [p \in Projects |-> IF p = Parent THEN "ACTIVE" ELSE "none"]
  /\ progress = [p \in Projects |-> Rows(p)]
  /\ papers = [s \in Sites |-> [x \in Papers[scenario.company] |-> "absent"]]
  /\ group = [state |-> "none", endings |-> {}]
  /\ call = [h \in Hands |-> NoCall]
  /\ met = [p \in Projects |-> {}]
  /\ slipped = {}

Mutable(p) == status[p] \in {"ACTIVE", "ON_HOLD"}

(* A call finds what it asks for, and will act on a project.               *)
Calls(h, what) ==
  /\ call[h] = NoCall
  /\ call' = [call EXCEPT ![h] = what]
  /\ UNCHANGED <<phase, status, progress, papers, group, slipped>>

Calling(h, what) == call[h] # NoCall /\ call[h].do = what
Returns(h) == call' = [call EXCEPT ![h] = NoCall]

(* A row is gone: the calls about it fail when they come to write.         *)
Busy == {h \in Hands : call[h] # NoCall}
Fail(lost) == call' = [h \in Hands |-> IF h \in lost THEN NoCall ELSE call[h]]

-----------------------------------------------------------------------------
BeginPaper(h, s, x) ==
  /\ status[s] # "none"
  /\ \E t \in Turns(x) :
       /\ papers[s][x] \in t.from /\ phase[s] \in t.during
       /\ x = "SURVEY_UPLOAD" /\ t.to = "FILED" => status[s] = "ACTIVE"
       /\ Calls(h, [project |-> s, do |-> "paper", paper |-> x, to |-> t.to])

EndPaper(h) ==
  /\ Calling(h, "paper")
  /\ papers' = [papers EXCEPT ![call[h].project][call[h].paper] = call[h].to]
  /\ Returns(h)
  /\ UNCHANGED <<phase, status, progress, group, slipped>>

-----------------------------------------------------------------------------
(* advancePhase: judge, read again, write.                                 *)

AdvanceCheck(h, p) ==
  /\ status[p] # "none" /\ CheckPhaseReadiness(p)
  /\ Calls(h, [project |-> p, do |-> "advance", seen |-> phase[p]])

AdvanceRead(h) ==
  LET p == call[h].project IN
  /\ Calling(h, "advance")
  /\ call' = [call EXCEPT ![h] =
                IF Mutable(p) THEN [project |-> p, do |-> "complete", seen |-> phase[p]]
                ELSE NoCall]
  /\ slipped' = IF Mutable(p) /\ phase[p] # call[h].seen THEN slipped \cup {p} ELSE slipped
  /\ UNCHANGED <<phase, status, progress, papers, group>>

(* Mutant: phases of other companies get a row too.                        *)
SkippedOfAll(p, seen) ==
  IF p = Parent /\ seen = "SITE_INITIATION" THEN Operational ELSE {}

(* What a parent leaves to its sites.                                      *)
Skipped(p, seen) ==
  IF p = Parent /\ seen = "SITE_INITIATION" THEN Operational \cap Range(Phases) ELSE {}

(* Mutant: the phase that follows is entered but not unlocked.             *)
CompletesOnly(p, seen) == [progress[p] EXCEPT ![seen] = "COMPLETED"]

Completes(p, seen) ==
  [k \in DOMAIN progress[p] \cup Skipped(p, seen) |->
     CASE k = seen -> "COMPLETED"
       [] k \in Skipped(p, seen) -> "SKIPPED"
       [] k # seen /\ k \notin Skipped(p, seen) ->
            IF Index(k) = Index(seen) + 1 THEN "ACTIVE" ELSE progress[p][k]]

AdvanceWrite(h) ==
  LET p == call[h].project
      seen == call[h].seen IN
  /\ Calling(h, "complete")
  /\ progress' = [progress EXCEPT ![p] = Completes(p, seen)]
  /\ phase' = IF seen = "CLOSING" \/ (p = Parent /\ seen = "SITE_INITIATION") THEN phase
              ELSE [phase EXCEPT ![p] = Phases[Index(seen) + 1]]
  /\ status' = IF seen = "CLOSING" THEN [status EXCEPT ![p] = "COMPLETED"] ELSE status
  /\ slipped' = IF phase[p] # seen THEN slipped \cup {p} ELSE slipped
  /\ Returns(h)
  /\ UNCHANGED <<papers, group>>

-----------------------------------------------------------------------------
(* The parent, its sites and its one group.                                *)

BeginClose(h) == status[Parent] = "ACTIVE" /\ Calls(h, [project |-> Parent, do |-> "close"])

CloseParent(h) ==
  /\ Calling(h, "close")
  /\ status' = [p \in Projects |->
       IF p = Parent \/ status[p] = "ACTIVE" THEN "CLOSED" ELSE status[p]]
  /\ Returns(h)
  /\ UNCHANGED <<phase, progress, papers, group, slipped>>

OpenForSites == Mutable(Parent) /\ phase[Parent] = "SITE_INITIATION"

BeginAddSite(h, s) ==
  /\ OpenForSites /\ status[s] = "none"
  /\ Calls(h, [project |-> Parent, do |-> "site", sites |-> {s}])

BeginAddGroup(h) ==
  /\ OpenForSites /\ group.state = "none"
  /\ Calls(h, [project |-> Parent, do |-> "group"])

BeginEndings(h, S) ==
  /\ OpenForSites /\ group.state = "DRAFT" /\ S # {}
  /\ Calls(h, [project |-> Parent, do |-> "endings", sites |-> S])

BeginDeleteEnding(h, s) ==
  /\ Mutable(Parent) /\ s \in group.endings
  /\ Calls(h, [project |-> Parent, do |-> "deleteEnding", sites |-> {s}])

BeginDeleteGroup(h) ==
  /\ Mutable(Parent) /\ group.state # "none" /\ group.endings = {}
  /\ Calls(h, [project |-> Parent, do |-> "deleteGroup"])

BeginDeleteSite(h, s) ==
  /\ Mutable(s) /\ Mutable(Parent) /\ phase[s] = "SURVEY"
  /\ \A x \in DOMAIN papers[s] \cap {"SURVEY_UPLOAD", "RFSD", "MONITORING_DOC"} :
       papers[s][x] = "absent"
  /\ Calls(h, [project |-> s, do |-> "deleteSite"])

(* The rows of those sites that are not there.  A second row of the same   *)
(* finance site, which a concurrent addSite would make, is not followed.   *)
CreateSites(S) ==
  LET new == {s \in S : status[s] = "none"} IN
  /\ status' = [p \in Projects |-> IF p \in new THEN "ACTIVE" ELSE status[p]]
  /\ papers' = [s \in Sites |->
       IF s \in new
       THEN [x \in DOMAIN papers[s] |->
               IF x \in scenario.slow \cup Flags THEN "absent" ELSE Given(x)]
       ELSE papers[s]]

AddSite(h) ==
  /\ Calling(h, "site")
  /\ CreateSites(call[h].sites)
  /\ Returns(h)
  /\ UNCHANGED <<phase, progress, group, slipped>>

AddBeginningGroup(h) ==
  /\ Calling(h, "group")
  /\ group' = IF group.state = "none" THEN [group EXCEPT !.state = "DRAFT"] ELSE group
  /\ Returns(h)
  /\ UNCHANGED <<phase, status, progress, papers, slipped>>

CompleteBeginningEndings(h) ==
  /\ Calling(h, "endings")
  /\ CreateSites(call[h].sites)
  /\ group' = [state |-> "COMPLETED", endings |-> group.endings \cup call[h].sites]
  /\ Returns(h)
  /\ UNCHANGED <<phase, progress, slipped>>

DeleteSiteEnding(h) ==
  /\ Calling(h, "deleteEnding")
  /\ group' = [group EXCEPT !.endings = @ \ call[h].sites]
  /\ Returns(h)
  /\ UNCHANGED <<phase, status, progress, papers, slipped>>

(* The endings go with their group.                                        *)
DeleteBeginningGroup(h) ==
  /\ Calling(h, "deleteGroup")
  /\ group' = [state |-> "none", endings |-> {}]
  /\ Fail({i \in Busy : call[i].do \in {"deleteGroup", "endings", "deleteEnding"}})
  /\ UNCHANGED <<phase, status, progress, papers, slipped>>

DeleteSite(h) ==
  LET gone == call[h].project IN
  /\ Calling(h, "deleteSite")
  /\ status' = [status EXCEPT ![gone] = "none"]
  /\ phase' = [phase EXCEPT ![gone] = "SURVEY"]
  /\ progress' = [progress EXCEPT ![gone] = Rows(gone)]
  /\ papers' = [papers EXCEPT ![gone] = [x \in DOMAIN papers[gone] |-> "absent"]]
  /\ slipped' = slipped \ {gone}
  /\ Fail({i \in Busy : call[i].project = gone})
  /\ UNCHANGED group

FtttStep ==
  \E h \in Hands :
    \/ \E s \in Sites :
         \/ \E x \in scenario.slow \cup (Flags \cap DOMAIN papers[s]) : BeginPaper(h, s, x)
         \/ BeginAddSite(h, s)
    \/ \E p \in Projects : AdvanceCheck(h, p)
    \/ BeginClose(h)
    \/ /\ scenario.groups
       /\ \/ \E s \in Sites : BeginDeleteEnding(h, s) \/ BeginDeleteSite(h, s)
          \/ \E S \in SUBSET Sites : BeginEndings(h, S)
          \/ BeginAddGroup(h) \/ BeginDeleteGroup(h)
    \/ EndPaper(h) \/ AdvanceRead(h) \/ AdvanceWrite(h) \/ CloseParent(h)
    \/ AddSite(h) \/ AddBeginningGroup(h) \/ CompleteBeginningEndings(h)
    \/ DeleteSiteEnding(h) \/ DeleteBeginningGroup(h) \/ DeleteSite(h)

Remember ==
  met' = [p \in Projects |->
    CASE status'[p] = "none" -> {}
      [] status'[p] # "none" /\ ReadyNow(p)' -> met[p] \cup {phase'[p]}
      [] OTHER -> met[p]]

FtttNext == FtttStep /\ UNCHANGED scenario /\ Remember

FtttSpec == FtttInit /\ [][FtttNext]_ftttVars

-----------------------------------------------------------------------------
FtttTypeOK ==
  /\ scenario \in Scenarios
  /\ phase \in [Projects -> Range(Phases)]
  /\ status \in [Projects -> {"none", "ACTIVE", "CLOSED", "COMPLETED"}]
  /\ progress \in [Projects -> [Range(Phases) ->
                     {"absent", "LOCKED", "ACTIVE", "COMPLETED", "SKIPPED"}]]
  /\ \A s \in Sites : papers[s] \in
       [Papers[scenario.company] -> {"absent", "FILED", "PENDING_PM", "APPROVED", "REJECTED"}]
  /\ group.endings \subseteq Sites

(* The phases before the current one are completed, those after it locked; *)
(* only the last one may be completed and current, and a parent that has   *)
(* completed its site initiation skips the rest; unless an advance slipped *)
(* past another.                                                           *)
PhasesInOrder ==
  \A p \in Started \ slipped :
    LET here == Index(phase[p])
        over == progress[p][phase[p]] = "COMPLETED" IN
    \A k \in Range(Phases) :
      CASE Index(k) < here -> progress[p][k] = "COMPLETED"
        [] Index(k) = here ->
             \/ progress[p][k] = "ACTIVE"
             \/ over /\ IF p = Parent THEN k = "SITE_INITIATION"
                        ELSE k = "CLOSING" /\ status[p] = "COMPLETED"
        [] OTHER -> IF p = Parent /\ over THEN progress[p][k] = "SKIPPED"
                    ELSE progress[p][k] \in {"LOCKED", "absent"}

(* A phase is completed only if everything it asks for was there at some   *)
(* moment while it was current, whatever is withdrawn, replaced or closed  *)
(* between the judgement and the write; unless an advance slipped.  A      *)
(* site's two initiations are completed when it is made.                   *)
PhasesWereReady ==
  \A p \in Started \ slipped : \A k \in Range(Phases) :
    progress[p][k] = "COMPLETED" =>
      k \in met[p] \/ (p \in Sites /\ k \notin Operational)
=============================================================================
