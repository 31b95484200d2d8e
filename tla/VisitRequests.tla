--------------------------- MODULE VisitRequests ---------------------------
(***************************************************************************)
(* VisitRequestService with the parts of BaOpenService, PermitCluster-     *)
(* Service and CleanListService it calls: how an area of the clean list is *)
(* claimed by a visit, how the visit passes its reviews, and what its      *)
(* approval creates.                                                       *)
(*                                                                         *)
(* A handler reads and checks the visit, then awaits one write after       *)
(* another, none of them in a transaction: here it leaves a plan of writes *)
(* that it carries out one at a time, whatever the others do meanwhile.    *)
(* Only the approval of a schedule is a conditional update.                *)
(***************************************************************************)
EXTENDS Naturals, FiniteSets, Sequences

CONSTANTS
  Areas,       \* entries of the clean list
  Visits,      \* bound: visit requests that may ever be made
  Desks,       \* bound: handlers at work at once
  NoVisit, NoPlan

VARIABLES
  visit,       \* VisitRequest rows
  area,        \* CleanList.status
  intake,      \* PermitCluster of a visit: its phase, "none" before it exists
  baOpen,      \* visits with a BA Open
  plan,        \* what each desk has read and is still to write
  approvals,   \* history: the gates each visit was ever let through
  troubled     \* history: areas where a handler wrote over another's work,
               \* died half-way, or two visits ran at once, or an operator's
               \* fiber was marked by hand

visitVars == <<visit, area, intake, baOpen, plan, approvals, troubled>>

VisitStatuses ==
  {"DRAFT", "PM_REVIEW_VISIT", "APPROVED_PENDING_DATA", "PM_REVIEW_SURVEY",
   "ADMIN_REVIEW", "APPROVED", "EXISTING_FIBER", "REJECTED"}
AreaStatuses == {"AVAILABLE", "IN_PROGRESS", "COMPLETED", "HAS_EXISTING_FIBER"}
Approved == {"APPROVED", "EXISTING_FIBER"}

VisitInit ==
  /\ visit = [v \in Visits |-> NoVisit]
  /\ area = [a \in Areas |-> "AVAILABLE"]
  /\ intake = [v \in Visits |-> "none"]
  /\ baOpen = {}
  /\ plan = [d \in Desks |-> NoPlan]
  /\ approvals = [v \in Visits |-> {}]
  /\ troubled = {}

Of(a) == {v \in Visits : visit[v] # NoVisit /\ visit[v].area = a}

(* Visits that keep their area.                                            *)
Live(a) == {v \in Of(a) : visit[v].status # "REJECTED"}

(* A desk starts a handler that found the visit v as it wanted it; fiber   *)
(* is what the handler is told of another operator's network, if anything. *)
Plans(d, v, todo, fiber) ==
  /\ plan[d] = NoPlan /\ visit[v] # NoVisit
  /\ plan' = [plan EXCEPT ![d] =
       [area |-> visit[v].area, visit |-> v, seen |-> visit[v].status,
        fiber |-> fiber, count |-> 0, todo |-> todo]]
  /\ UNCHANGED <<visit, area, intake, baOpen, approvals, troubled>>

Is(v, status) == visit[v] # NoVisit /\ visit[v].status = status

-----------------------------------------------------------------------------
(* The handlers: what they ask of the visit and what they are going to     *)
(* write, in order.                                                        *)

Create(d, a) ==
  /\ plan[d] = NoPlan /\ area[a] = "AVAILABLE"
  /\ plan' = [plan EXCEPT ![d] =
       [area |-> a, visit |-> NoVisit, seen |-> "DRAFT", fiber |-> "unknown",
        count |-> 0,
        todo |-> <<"checkActive", "create", "initCluster", "IN_PROGRESS">>]]
  /\ UNCHANGED <<visit, area, intake, baOpen, approvals, troubled>>

(* Mutant: a resubmitted visit does not claim its area again.              *)
SubmitsKeepingArea(row) ==
  IF row.status = "DRAFT" \/ ~ row.gate THEN <<"PM_REVIEW_VISIT">> ELSE <<"PM_REVIEW_SURVEY">>

Submits(row) ==
  IF row.status = "DRAFT" THEN <<"PM_REVIEW_VISIT">>
  ELSE <<"IN_PROGRESS", IF row.gate THEN "PM_REVIEW_SURVEY" ELSE "PM_REVIEW_VISIT">>

Submit(d, v) ==
  /\ Is(v, "DRAFT") \/ Is(v, "REJECTED")
  /\ Plans(d, v, Submits(visit[v]), "unknown")

PmVisitApprove(v) ==
  /\ Is(v, "PM_REVIEW_VISIT")
  /\ visit' = [visit EXCEPT ![v].status = "APPROVED_PENDING_DATA", ![v].gate = TRUE]
  /\ approvals' = [approvals EXCEPT ![v] = @ \cup {"visit"}]
  /\ UNCHANGED <<area, intake, baOpen, plan, troubled>>

PmVisitReject(d, v) ==
  Is(v, "PM_REVIEW_VISIT") /\ Plans(d, v, <<"DRAFT">>, "unknown")

SubmitSurveyData(d, v, allowed, fiber) ==
  /\ Is(v, "APPROVED_PENDING_DATA")
  /\ Plans(d, v, IF allowed THEN <<"PM_REVIEW_SURVEY">> ELSE <<"REJECTED", "AVAILABLE">>,
           fiber)

PmReview(d, v, approve) ==
  /\ Is(v, "PM_REVIEW_SURVEY")
  /\ Plans(d, v, IF approve THEN <<"ADMIN_REVIEW">> ELSE <<"REJECTED", "AVAILABLE">>,
           "unknown")

GenerateBaOpen == <<"countBaOpens", "createBaOpen", "createFromBaOpen">>

AdminApprove(d, v, approve) ==
  /\ Is(v, "ADMIN_REVIEW")
  /\ Plans(d, v,
           IF approve
           THEN <<IF visit[v].fiber = "existing" THEN "EXISTING_FIBER" ELSE "APPROVED">>
                \o GenerateBaOpen \o <<"COMPLETED">>
           ELSE <<"REJECTED", "AVAILABLE">>,
           "unknown")

(* Mutant: any visit may be given its BA Open again.                       *)
LacksBaOpenOnly(v) == visit[v] # NoVisit /\ v \notin baOpen

IsLegacy(v) == Is(v, "EXISTING_FIBER") /\ v \notin baOpen

RegenerateBaOpen(d, v) == IsLegacy(v) /\ Plans(d, v, GenerateBaOpen, "unknown")

PatchBySurveyor(d, v, fiber) ==
  Is(v, "REJECTED") /\ visit[v].gate /\ Plans(d, v, <<"patch">>, fiber)

MarkExistingFiber(a) ==
  /\ area' = [area EXCEPT ![a] = "HAS_EXISTING_FIBER"]
  /\ troubled' = troubled \cup {a}
  /\ UNCHANGED <<visit, intake, baOpen, plan, approvals>>

-----------------------------------------------------------------------------
(* The writes.                                                             *)

Writing(d, what) == plan[d] # NoPlan /\ Head(plan[d].todo) \in what

(* The desk goes on to its next write, having left the visit as seen.      *)
Proceeds(d, p) ==
  plan' = [plan EXCEPT ![d] =
    IF Len(p.todo) = 1 THEN NoPlan ELSE [p EXCEPT !.todo = Tail(@)]]

Fails(d) == plan' = [plan EXCEPT ![d] = NoPlan]

WithFiber(row, fiber) == IF fiber = "unknown" THEN row ELSE [row EXCEPT !.fiber = fiber]

(* No other handler is at work on the same area.                           *)
Alone(d) == \A e \in Desks \ {d} : plan[e] = NoPlan \/ plan[e].area # plan[d].area

Granted(to) ==
  CASE to = "ADMIN_REVIEW" -> {"survey"} [] to \in Approved -> {"admin"} [] OTHER -> {}

(* A visit sent back to draft has its gate closed again.                   *)
MovedTo(row, to) == [row EXCEPT !.status = to, !.gate = row.gate /\ to # "DRAFT"]

WriteVisit(d) ==
  LET p == plan[d]
      to == Head(p.todo) IN
  /\ Writing(d, VisitStatuses)
  /\ visit' = [visit EXCEPT ![p.visit] = WithFiber(MovedTo(@, to), p.fiber)]
  /\ approvals' = [approvals EXCEPT ![p.visit] = @ \cup Granted(to)]
  /\ troubled' =
       IF Alone(d) /\ Is(p.visit, p.seen) /\ (to # "REJECTED" => Live(p.area) \subseteq {p.visit})
       THEN troubled ELSE troubled \cup {p.area}
  /\ Proceeds(d, [p EXCEPT !.seen = to])
  /\ UNCHANGED <<area, intake, baOpen>>

WritePatch(d) ==
  LET p == plan[d] IN
  /\ Writing(d, {"patch"})
  /\ visit' = [visit EXCEPT ![p.visit] = WithFiber(@, p.fiber)]
  /\ Proceeds(d, p)
  /\ UNCHANGED <<area, intake, baOpen, approvals, troubled>>

WriteArea(d) ==
  LET p == plan[d] IN
  /\ Writing(d, AreaStatuses)
  /\ area' = [area EXCEPT ![p.area] = Head(p.todo)]
  /\ troubled' = IF Is(p.visit, p.seen) /\ Alone(d) THEN troubled
                 ELSE troubled \cup {p.area}
  /\ Proceeds(d, p)
  /\ UNCHANGED <<visit, intake, baOpen, approvals>>

CheckActive(d) ==
  LET p == plan[d] IN
  /\ Writing(d, {"checkActive"})
  /\ IF \A v \in Of(p.area) : visit[v].status \in {"REJECTED", "EXISTING_FIBER"}
     THEN Proceeds(d, p) ELSE Fails(d)
  /\ UNCHANGED <<visit, area, intake, baOpen, approvals, troubled>>

NewVisit(a) == [area |-> a, status |-> "DRAFT", gate |-> FALSE, fiber |-> "none"]

CreateVisit(d) ==
  LET p == plan[d] IN
  /\ Writing(d, {"create"})
  /\ \E v \in Visits :
       /\ visit[v] = NoVisit
       /\ visit' = [visit EXCEPT ![v] = NewVisit(p.area)]
       /\ Proceeds(d, [p EXCEPT !.visit = v])
  /\ troubled' = IF Live(p.area) = {} THEN troubled ELSE troubled \cup {p.area}
  /\ UNCHANGED <<area, intake, baOpen, approvals>>

(* initClusterForVisitRequest: an error is logged and the handler goes on. *)
InitCluster(d) ==
  LET p == plan[d] IN
  /\ Writing(d, {"initCluster"})
  /\ \/ UNCHANGED intake
     \/ intake[p.visit] = "none" /\ intake' = [intake EXCEPT ![p.visit] = "CLUSTER_INTAKE"]
  /\ Proceeds(d, p)
  /\ UNCHANGED <<visit, area, baOpen, approvals, troubled>>

(* generateBaOpen: numbered by a count read before, of one visit only;     *)
(* both columns are unique.                                                *)
CountBaOpens(d) ==
  LET p == plan[d] IN
  /\ Writing(d, {"countBaOpens"})
  /\ Proceeds(d, [p EXCEPT !.count = Cardinality(baOpen)])
  /\ UNCHANGED <<visit, area, intake, baOpen, approvals, troubled>>

CreateBaOpen(d) ==
  LET p == plan[d] IN
  /\ Writing(d, {"createBaOpen"})
  /\ IF p.count = Cardinality(baOpen) /\ p.visit \notin baOpen
     THEN /\ baOpen' = baOpen \cup {p.visit}
          /\ Proceeds(d, p)
          /\ UNCHANGED troubled
     ELSE /\ Fails(d)
          /\ troubled' = troubled \cup {p.area}
          /\ UNCHANGED baOpen
  /\ UNCHANGED <<visit, area, intake, approvals>>

CreateFromBaOpen(d) ==
  LET p == plan[d] IN
  /\ Writing(d, {"createFromBaOpen"})
  /\ intake' = [intake EXCEPT ![p.visit] = "SITE_VISIT"]
  /\ Proceeds(d, p)
  /\ UNCHANGED <<visit, area, baOpen, approvals, troubled>>

(* The handler throws, or the process stops, before its next write.        *)
GiveUp(d) ==
  /\ plan[d] # NoPlan
  /\ troubled' = troubled \cup {plan[d].area}
  /\ Fails(d)
  /\ UNCHANGED <<visit, area, intake, baOpen, approvals>>

VisitNext ==
  \/ \E v \in Visits : PmVisitApprove(v)
  \/ \E a \in Areas : MarkExistingFiber(a)
  \/ \E d \in Desks :
       \/ \E a \in Areas : Create(d, a)
       \/ \E v \in Visits :
            \/ Submit(d, v)
            \/ PmVisitReject(d, v)
            \/ \E ok \in BOOLEAN, fiber \in {"none", "existing"} :
                 SubmitSurveyData(d, v, ok, fiber)
            \/ \E ok \in BOOLEAN : PmReview(d, v, ok)
            \/ \E ok \in BOOLEAN : AdminApprove(d, v, ok)
            \/ RegenerateBaOpen(d, v)
            \/ \E fiber \in {"none", "existing"} : PatchBySurveyor(d, v, fiber)
       \/ WriteVisit(d)
       \/ WritePatch(d)
       \/ WriteArea(d)
       \/ CheckActive(d)
       \/ CreateVisit(d)
       \/ InitCluster(d)
       \/ CountBaOpens(d)
       \/ CreateBaOpen(d)
       \/ CreateFromBaOpen(d)
       \/ GiveUp(d)

VisitSpec == VisitInit /\ [][VisitNext]_visitVars

-----------------------------------------------------------------------------
VisitRow == [area : Areas, status : VisitStatuses, gate : BOOLEAN, fiber : {"none", "existing"}]

VisitSteps ==
  VisitStatuses \cup AreaStatuses
  \cup {"checkActive", "create", "initCluster", "countBaOpens", "createBaOpen",
        "createFromBaOpen", "patch"}

Plan ==
  [area : Areas, visit : Visits \cup {NoVisit}, seen : VisitStatuses,
   fiber : {"none", "existing", "unknown"}, count : Nat, todo : Seq(VisitSteps)]

(* No visit is no row, and a desk without a plan has none.                 *)
ASSUME VisitAssumption == NoVisit \notin VisitRow /\ NoPlan \notin Plan

(* Every row has its shape, and a plan is never empty.                     *)
VisitTypeOK ==
  /\ visit \in [Visits -> VisitRow \cup {NoVisit}]
  /\ area \in [Areas -> AreaStatuses]
  /\ intake \in [Visits -> {"none", "CLUSTER_INTAKE", "SITE_VISIT"}]
  /\ baOpen \subseteq Visits /\ IsFiniteSet(baOpen)
  /\ plan \in [Desks -> Plan \cup {NoPlan}]
  /\ \A d \in Desks : plan[d] # NoPlan => plan[d].todo # <<>>
  /\ approvals \in [Visits -> SUBSET {"visit", "survey", "admin"}]

(* Once nobody is at work on an area, its status tells what became of its  *)
(* visits, and an approved visit has its BA Open and its cluster at the    *)
(* site visit; unless two handlers ran over each other, one died half-way, *)
(* two visits claimed the area, or its fiber was marked by hand.           *)
AreaFollowsVisits ==
  \A a \in Areas \ troubled :
    (\A d \in Desks : plan[d] = NoPlan \/ plan[d].area # a) =>
      LET done == {v \in Of(a) : visit[v].status \in Approved} IN
      /\ area[a] = IF done # {} THEN "COMPLETED"
                   ELSE IF Live(a) # {} THEN "IN_PROGRESS" ELSE "AVAILABLE"
      /\ \A v \in done : v \in baOpen /\ intake[v] = "SITE_VISIT"

Gate == INSTANCE PermitGate WITH passed <- approvals, issued <- baOpen

(* A BA Open is issued once per visit, and only to a visit whose schedule, *)
(* survey and file were approved, in this order, whatever handlers race.   *)
VisitsPassTheGates == Gate!GateSpec
=============================================================================
