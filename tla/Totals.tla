------------------------------- MODULE Totals -------------------------------
(* Sums over the rows of a table.                                          *)
EXTENDS Integers, FiniteSets

(* net[1] + ... + net[n], as a recursive function.                         *)
Total(net, n) ==
  LET sum[i \in 0..n] == IF i = 0 THEN 0 ELSE sum[i - 1] + net[i]
  IN  sum[n]

(* The elements of a finite set, each once.                                *)
Listing(S) ==
  CHOOSE e \in [1..Cardinality(S) -> S] :
    /\ \A x \in S : \E k \in DOMAIN e : e[k] = x
    /\ \A k, l \in DOMAIN e : e[k] = e[l] => k = l

(* The sum of net[x] over the elements x of S.                             *)
Sum(net, S) == Total([k \in 1..Cardinality(S) |-> net[Listing(S)[k]]], Cardinality(S))
=============================================================================
