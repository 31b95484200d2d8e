----------------------------- MODULE FtttFunds -----------------------------
(***************************************************************************)
(* FtttProjectService: the financial requests of an FTTT site, from the    *)
(* project manager's request to the funds released by finance.             *)
(*                                                                         *)
(* Every handler reads the request, checks it, and writes it by id later;  *)
(* a release uploads its proofs and files them before it writes the        *)
(* request.  A Teller is one such handler.                                 *)
(***************************************************************************)
EXTENDS Naturals, FiniteSets

CONSTANTS
  FundRequests,   \* bound: requests that may ever be made
  Tellers,        \* bound: handlers at work at once
  NoRequest, Deleted, NoErrand

VARIABLES
  request,    \* FtttTransaction: whether its reason is more than blanks,
              \* requestStatus, disbursedAt, its batches of proofs
  errand,     \* what each teller has checked and will write
  passed,     \* history: requests ever accepted
  released,   \* history: releases written, by request
  contested,  \* history: requests two handlers were about at once
  dropped     \* history: requests whose handler stopped half-way

fundVars == <<request, errand, passed, released, contested, dropped>>

Statuses == {"PENDING_REVIEW", "ACCEPTED", "DECLINED"}
Filed == {r \in FundRequests : request[r] \notin {NoRequest, Deleted}}

FundInit ==
  /\ request = [r \in FundRequests |-> NoRequest]
  /\ errand = [t \in Tellers |-> NoErrand]
  /\ passed = {} /\ contested = {} /\ dropped = {}
  /\ released = [r \in FundRequests |-> 0]

About(r) == {t \in Tellers : errand[t] # NoErrand /\ errand[t].request = r}

(* A reason is asked for, and stored trimmed: it may be empty.             *)
AddTransaction(r, reason) ==
  /\ request[r] = NoRequest
  /\ request' = [request EXCEPT ![r] =
       [reason |-> reason, requestStatus |-> "PENDING_REVIEW", disbursed |-> FALSE, proofs |-> 0]]
  /\ UNCHANGED <<errand, passed, released, contested, dropped>>

(* A teller finds the request as it wants it.                              *)
Takes(t, r, what) ==
  /\ errand[t] = NoErrand /\ r \in Filed
  /\ errand' = [errand EXCEPT ![t] = [request |-> r, do |-> what]]
  /\ contested' = IF About(r) = {} THEN contested ELSE contested \cup {r}
  /\ UNCHANGED <<request, passed, released, dropped>>

BeginReview(t, r, to) ==
  /\ r \in Filed /\ request[r].requestStatus = "PENDING_REVIEW"
  /\ Takes(t, r, to)

(* Mutant: funds may go out before finance has accepted the request.       *)
UndisbursedOnly(row) == ~ row.disbursed

(* Requests without a reason are taken for older ones, which finance never *)
(* reviewed.                                                               *)
MayDisburse(row) == ~ row.disbursed /\ (row.reason => row.requestStatus = "ACCEPTED")

BeginDisburse(t, r) == r \in Filed /\ MayDisburse(request[r]) /\ Takes(t, r, "prove")

BeginDelete(t, r) == r \in Filed /\ ~ request[r].disbursed /\ Takes(t, r, "delete")

On(t, what) == errand[t] # NoErrand /\ errand[t].do \in what
Done(t) == errand' = [errand EXCEPT ![t] = NoErrand]

WriteReview(t) ==
  LET r == errand[t].request IN
  /\ On(t, {"ACCEPTED", "DECLINED"})
  /\ request' = [request EXCEPT ![r].requestStatus = errand[t].do]
  /\ passed' = IF errand[t].do = "ACCEPTED" THEN passed \cup {r} ELSE passed
  /\ Done(t)
  /\ UNCHANGED <<released, contested, dropped>>

FileProofs(t) ==
  LET r == errand[t].request IN
  /\ On(t, {"prove"})
  /\ request' = [request EXCEPT ![r].proofs = @ + 1]
  /\ errand' = [errand EXCEPT ![t].do = "release"]
  /\ UNCHANGED <<passed, released, contested, dropped>>

WriteRelease(t) ==
  LET r == errand[t].request IN
  /\ On(t, {"release"})
  /\ request' = [request EXCEPT ![r].disbursed = TRUE]
  /\ released' = [released EXCEPT ![r] = @ + 1]
  /\ Done(t)
  /\ UNCHANGED <<passed, contested, dropped>>

(* The proofs go with the request, and what the others meant to write to   *)
(* it throws.                                                              *)
DeleteTransaction(t) ==
  LET r == errand[t].request IN
  /\ On(t, {"delete"})
  /\ request' = [request EXCEPT ![r] = Deleted]
  /\ errand' = [u \in Tellers |-> IF u \in About(r) THEN NoErrand ELSE errand[u]]
  /\ UNCHANGED <<passed, released, contested, dropped>>

(* The database refuses, or the process stops.                             *)
Drop(t) ==
  /\ errand[t] # NoErrand
  /\ dropped' = dropped \cup {errand[t].request}
  /\ Done(t)
  /\ UNCHANGED <<request, passed, released, contested>>

FundNext ==
  \/ \E r \in FundRequests, reason \in BOOLEAN : AddTransaction(r, reason)
  \/ \E t \in Tellers, r \in FundRequests :
       \/ \E to \in {"ACCEPTED", "DECLINED"} : BeginReview(t, r, to)
       \/ BeginDisburse(t, r)
       \/ BeginDelete(t, r)
  \/ \E t \in Tellers :
       WriteReview(t) \/ FileProofs(t) \/ WriteRelease(t) \/ DeleteTransaction(t) \/ Drop(t)

FundSpec == FundInit /\ [][FundNext]_fundVars

-----------------------------------------------------------------------------
RequestRow ==
  [reason : BOOLEAN, requestStatus : Statuses, disbursed : BOOLEAN, proofs : Nat]

Errand == [request : FundRequests, do : {"ACCEPTED", "DECLINED", "prove", "release", "delete"}]

(* No request and a deleted one are no rows, and no errand is none.        *)
ASSUME FundAssumption ==
  /\ NoRequest # Deleted /\ NoRequest \notin RequestRow /\ Deleted \notin RequestRow
  /\ NoErrand \notin Errand

FundTypeOK ==
  /\ request \in [FundRequests -> RequestRow \cup {NoRequest, Deleted}]
  /\ errand \in [Tellers -> Errand \cup {NoErrand}]
  /\ \A t \in Tellers : errand[t] # NoErrand => errand[t].request \in Filed
  /\ released \in [FundRequests -> Nat]

(* Whatever races, funds only go out for a request finance once accepted,  *)
(* if its reason is not blank.  And where handlers did not overlap, a      *)
(* released request was released once and never deleted, and such a one is *)
(* accepted; unless a release stopped half-way, with the one batch of      *)
(* proofs of its one release.                                              *)
FundsReleasedAsReviewed ==
  \A r \in FundRequests :
    released[r] > 0 =>
      /\ r \in Filed /\ request[r].reason => r \in passed
      /\ r \notin contested =>
           /\ r \in Filed /\ released[r] = 1 /\ request[r].disbursed
           /\ request[r].reason => request[r].requestStatus = "ACCEPTED"
           /\ r \notin dropped => request[r].proofs = 1
=============================================================================
