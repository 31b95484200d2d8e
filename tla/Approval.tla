------------------------------ MODULE Approval ------------------------------
(***************************************************************************)
(* What every approval chain of the system promises, whatever its roles    *)
(* and documents: a request is opened once, ends once, either granted or   *)
(* withdrawn, and what it asks for is done exactly when it is granted,     *)
(* never twice.  FinanceProjects shows that budget transfers implement it. *)
(***************************************************************************)
EXTENDS Naturals

CONSTANT Requests

VARIABLES
  outcome,    \* how far each request is
  effects     \* how often what it asks for was done

approvalVars == <<outcome, effects>>

Outcomes == {"none", "open", "granted", "withdrawn"}

ApprovalInit ==
  /\ outcome = [r \in Requests |-> "none"]
  /\ effects = [r \in Requests |-> 0]

Open(r) ==
  /\ outcome[r] = "none"
  /\ outcome' = [outcome EXCEPT ![r] = "open"]
  /\ UNCHANGED effects

Grant(r) ==
  /\ outcome[r] = "open"
  /\ outcome' = [outcome EXCEPT ![r] = "granted"]
  /\ effects' = [effects EXCEPT ![r] = @ + 1]

Withdraw(r) ==
  /\ outcome[r] = "open"
  /\ outcome' = [outcome EXCEPT ![r] = "withdrawn"]
  /\ UNCHANGED effects

ApprovalNext == \E r \in Requests : Open(r) \/ Grant(r) \/ Withdraw(r)

ApprovalSpec == ApprovalInit /\ [][ApprovalNext]_approvalVars
=============================================================================
