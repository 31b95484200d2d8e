----------------------------- MODULE PermitGate -----------------------------
(***************************************************************************)
(* What the field team is promised about an area: its permit file, the     *)
(* BA Open, is issued once, and only after the visit was agreed, then its  *)
(* survey, then the whole by administration.  VisitRequests is shown to    *)
(* implement it whatever its handlers' races.                              *)
(***************************************************************************)
CONSTANT Visits

VARIABLES
  passed,   \* the gates a visit has passed at some time
  issued    \* the visits whose permit file was issued

gateVars == <<passed, issued>>

Gates == {"visit", "survey", "admin"}

Before(g) == CASE g = "visit" -> {} [] g = "survey" -> {"visit"} [] g = "admin" -> {"visit", "survey"}

GateInit ==
  /\ passed = [v \in Visits |-> {}]
  /\ issued = {}

Pass(v, g) ==
  /\ Before(g) \subseteq passed[v]
  /\ passed' = [passed EXCEPT ![v] = @ \cup {g}]
  /\ UNCHANGED issued

Issue(v) ==
  /\ passed[v] = Gates /\ v \notin issued
  /\ issued' = issued \cup {v}
  /\ UNCHANGED passed

GateNext == \E v \in Visits : Issue(v) \/ \E g \in Gates : Pass(v, g)

GateSpec == GateInit /\ [][GateNext]_gateVars
=============================================================================
