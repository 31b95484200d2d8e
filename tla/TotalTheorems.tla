---------------------------- MODULE TotalTheorems ---------------------------
(***************************************************************************)
(* Facts about Total(net, n) = net[1] + ... + net[n], for every n, and the *)
(* sum over a finite set.  Inductions are on the least counterexample.     *)
(***************************************************************************)
EXTENDS Totals, FiniteSetTheorems, WellFoundedInduction, TLAPS

LOCAL LessThanOnNat == {ij \in Nat \X Nat : ij[1] < ij[2]}

(* A nonempty set of naturals has a least element.                         *)
LEMMA LeastElement ==
  ASSUME NEW T, T \subseteq Nat, T # {}
  PROVE  \E m \in T : \A k \in T : m <= k
<1>1. IsWellFoundedOn(LessThanOnNat, Nat)
  BY NatLessThanWellFounded DEF OpToRel, LessThanOnNat
<1>2. \E m \in T : \A k \in T : <<k, m>> \notin LessThanOnNat
  BY <1>1, WFMin, Zenon
<1>3. ASSUME NEW k \in Nat, NEW m \in Nat, <<k, m>> \notin LessThanOnNat
      PROVE  m <= k
  <2>1. ~(k < m)
    BY <1>3 DEF LessThanOnNat
  <2>2. QED
    BY <2>1
<1>4. QED
  BY <1>2, <1>3

(* f lists the partial sums of net up to n.                                *)
IsPartialSums(f, net, n) ==
  f = [i \in 0..n |-> IF i = 0 THEN 0 ELSE f[i - 1] + net[i]]

PartialSums(net, n) ==
  CHOOSE f : f = [i \in 0..n |-> IF i = 0 THEN 0 ELSE f[i - 1] + net[i]]

(* Total is the last entry of the function its definition recurses on.     *)
LEMMA TotalIsLastPartialSum ==
  ASSUME NEW net, NEW n
  PROVE  Total(net, n) = PartialSums(net, n)[n]
  BY Zenon DEF Total, PartialSums

(* Partial sums exist, so the recursive definition defines them.           *)
LEMMA PartialSumsExist ==
  ASSUME NEW n \in Nat, NEW net \in [1..n -> Int]
  PROVE  \E g \in [0..n -> Int] : IsPartialSums(g, net, n)
<1> DEFINE HasSums(k) == \E g \in [0..k -> Int] : IsPartialSums(g, net, k)
           T == {k \in 0..n : ~HasSums(k)}
<1>1. SUFFICES ASSUME T # {} PROVE FALSE
  <2>1. n \in 0..n
    OBVIOUS
  <2>2. QED
    BY <2>1
<1>2. PICK m \in T : \A k \in T : m <= k
  <2>1. T \subseteq Nat
    OBVIOUS
  <2> HIDE DEF T
  <2>2. QED
    BY <1>1, <2>1, LeastElement
<1>3. HasSums(0)
  <2> DEFINE g == [i \in 0..0 |-> 0]
  <2>1. g \in [0..0 -> Int] /\ IsPartialSums(g, net, 0)
    BY DEF IsPartialSums
  <2>2. QED
    BY <2>1
<1>4. m \in 1..n /\ m - 1 \in 0..n /\ m - 1 \notin T
  <2> HIDE DEF HasSums
  <2>1. m \in 0..n /\ m # 0
    BY <1>3
  <2>2. QED
    BY <1>2, <2>1
<1>5. PICK f \in [0..(m - 1) -> Int] : IsPartialSums(f, net, m - 1)
  BY <1>4
<1> DEFINE h == [i \in 0..m |-> IF i = m THEN f[m - 1] + net[m] ELSE f[i]]
<1>6. h \in [0..m -> Int]
  BY <1>4, <1>5
<1>7. IsPartialSums(h, net, m)
  <2>1. ASSUME NEW i \in 0..m
        PROVE  h[i] = IF i = 0 THEN 0 ELSE h[i - 1] + net[i]
    <3>1. CASE i = m
      BY <3>1, <1>4
    <3>2. CASE i # m
      <4>1. i \in 0..(m - 1)
        BY <3>2, <1>4
      <4>2. f[i] = IF i = 0 THEN 0 ELSE f[i - 1] + net[i]
        BY <4>1, <1>5 DEF IsPartialSums
      <4>3. QED
        BY <4>1, <4>2, <1>4
    <3>3. QED
      BY <3>1, <3>2
  <2> HIDE DEF h
  <2>2. h = [i \in 0..m |-> h[i]]
    BY <1>6
  <2>3. QED
    BY <2>1, <2>2 DEF IsPartialSums
<1>8. HasSums(m)
  BY <1>6, <1>7
<1>9. QED
  BY <1>2, <1>8

(* Two functions with the recursion of partial sums are the same.          *)
LEMMA PartialSumsUnique ==
  ASSUME NEW n \in Nat, NEW net \in [1..n -> Int],
         NEW f, IsPartialSums(f, net, n),
         NEW g, IsPartialSums(g, net, n)
  PROVE  f = g
<1> DEFINE T == {i \in 0..n : f[i] # g[i]}
<1>1. SUFFICES ASSUME T # {} PROVE FALSE
  <2>1. f = [i \in 0..n |-> f[i]] /\ g = [i \in 0..n |-> g[i]]
    BY DEF IsPartialSums
  <2>2. QED
    BY <2>1
<1>2. PICK m \in T : \A k \in T : m <= k
  <2>1. T \subseteq Nat
    OBVIOUS
  <2> HIDE DEF T
  <2>2. QED
    BY <1>1, <2>1, LeastElement
<1>3. m # 0
  BY DEF IsPartialSums
<1>4. m - 1 \in 0..n /\ m - 1 \notin T
  BY <1>2, <1>3
<1>5. QED
  BY <1>3, <1>4 DEF IsPartialSums

(* PartialSums satisfies its recursion and is integer-valued.              *)
LEMMA PartialSumsDefined ==
  ASSUME NEW n \in Nat, NEW net \in [1..n -> Int]
  PROVE  /\ PartialSums(net, n) \in [0..n -> Int]
         /\ IsPartialSums(PartialSums(net, n), net, n)
<1>1. PICK g \in [0..n -> Int] : IsPartialSums(g, net, n)
  BY PartialSumsExist
<1>2. IsPartialSums(PartialSums(net, n), net, n)
  <2>1. g = [i \in 0..n |-> IF i = 0 THEN 0 ELSE g[i - 1] + net[i]]
    BY <1>1 DEF IsPartialSums
  <2>2. QED
    BY <2>1, Zenon DEF PartialSums, IsPartialSums
<1>3. PartialSums(net, n) = g
  BY <1>1, <1>2, PartialSumsUnique
<1>4. QED
  BY <1>1, <1>2, <1>3

(* Whoever exhibits the partial sums knows the total.                      *)
LEMMA TotalFromPartialSums ==
  ASSUME NEW n \in Nat, NEW net \in [1..n -> Int],
         NEW g, IsPartialSums(g, net, n)
  PROVE  Total(net, n) = g[n]
  BY TotalIsLastPartialSum, PartialSumsDefined, PartialSumsUnique, Zenon

(* A total is an integer.                                                  *)
LEMMA TotalType ==
  ASSUME NEW n \in Nat, NEW net \in [1..n -> Int]
  PROVE  Total(net, n) \in Int
  BY TotalIsLastPartialSum, PartialSumsDefined

(* Nothing outstanding anywhere adds up to 0.                              *)
LEMMA TotalOfZeroes ==
  ASSUME NEW n \in Nat
  PROVE  Total([i \in 1..n |-> 0], n) = 0
<1> DEFINE g == [i \in 0..n |-> 0]
           net == [i \in 1..n |-> 0]
<1>1. IsPartialSums(g, net, n)
  BY DEF IsPartialSums
<1>2. net \in [1..n -> Int]
  OBVIOUS
<1>3. g[n] = 0
  OBVIOUS
<1> HIDE DEF g, net
<1>4. Total(net, n) = g[n]
  BY <1>1, <1>2, TotalFromPartialSums
<1>5. QED
  BY <1>3, <1>4 DEF net

(* Changing one entry by d changes the total by d.                         *)
LEMMA TotalUpdate ==
  ASSUME NEW n \in Nat, NEW net \in [1..n -> Int], NEW k \in 1..n, NEW d \in Int,
         NEW net2 \in [1..n -> Int], net2[k] = net[k] + d,
         \A i \in 1..n : i # k => net2[i] = net[i]
  PROVE  Total(net2, n) = Total(net, n) + d
<1> DEFINE f == PartialSums(net, n)
           g == [i \in 0..n |-> IF i < k THEN f[i] ELSE f[i] + d]
<1>1. f \in [0..n -> Int] /\ IsPartialSums(f, net, n)
  BY PartialSumsDefined
<1> HIDE DEF f
<1>2. IsPartialSums(g, net2, n)
  <2>1. ASSUME NEW i \in 0..n
        PROVE  g[i] = IF i = 0 THEN 0 ELSE g[i - 1] + net2[i]
    <3>1. f[i] = IF i = 0 THEN 0 ELSE f[i - 1] + net[i]
      BY <1>1 DEF IsPartialSums
    <3>2. CASE i = 0
      BY <3>1, <3>2
    <3>3. CASE i # 0
      <4>1. i - 1 \in 0..n /\ i \in 1..n
        BY <3>3
      <4>2. f[i] \in Int /\ f[i - 1] \in Int /\ net[i] \in Int
        BY <4>1, <1>1
      <4>3. CASE i < k
        BY <4>1, <4>2, <4>3, <3>1
      <4>4. CASE i = k
        BY <4>1, <4>2, <4>4, <3>1
      <4>5. CASE i > k
        <5>1. net2[i] = net[i] /\ ~(i < k) /\ ~(i - 1 < k)
          BY <4>1, <4>5
        <5>2. g[i] = f[i] + d /\ g[i - 1] = f[i - 1] + d
          BY <4>1, <5>1
        <5>3. QED
          BY <4>1, <4>2, <5>1, <5>2, <3>1, <3>3
      <4>6. QED
        BY <4>3, <4>4, <4>5
    <3>4. QED
      BY <3>2, <3>3
  <2>2. g = [i \in 0..n |-> g[i]]
    OBVIOUS
  <2> HIDE DEF g
  <2>3. QED
    BY <2>1, <2>2 DEF IsPartialSums
<1>3. g[n] = f[n] + d
  OBVIOUS
<1> HIDE DEF g
<1>4. Total(net2, n) = g[n]
  BY <1>2, TotalFromPartialSums
<1>5. Total(net, n) = f[n]
  BY <1>1, TotalFromPartialSums
<1>6. QED
  BY <1>3, <1>4, <1>5

(* A total of naturals is at least each of its entries.                    *)
LEMMA TotalCovers ==
  ASSUME NEW n \in Nat, NEW net \in [1..n -> Nat], NEW k \in 1..n
  PROVE  Total(net, n) >= net[k]
<1> DEFINE f == PartialSums(net, n)
           T == {i \in 0..n : f[i] < 0 \/ (k <= i /\ f[i] < net[k])}
<1>1. net \in [1..n -> Int]
  OBVIOUS
<1>2. f \in [0..n -> Int] /\ IsPartialSums(f, net, n)
  BY <1>1, PartialSumsDefined
<1> HIDE DEF f
<1>3. T = {}
  <2>1. SUFFICES ASSUME T # {} PROVE FALSE
    OBVIOUS
  <2>2. PICK m \in T : \A i \in T : m <= i
    <3>1. T \subseteq Nat
      OBVIOUS
    <3> HIDE DEF T
    <3>2. QED
      BY <2>1, <3>1, LeastElement
  <2>3. m \in 0..n /\ f[m] = IF m = 0 THEN 0 ELSE f[m - 1] + net[m]
    BY <1>2 DEF IsPartialSums
  <2>4. m # 0
    BY <2>3
  <2>5. m - 1 \in 0..n /\ m - 1 \notin T /\ m \in 1..n
    BY <2>2, <2>3, <2>4
  <2>6. f[m - 1] \in Int /\ f[m] \in Int /\ net[m] \in Nat /\ net[k] \in Nat
    BY <2>3, <2>5, <1>2
  <2>7. f[m - 1] >= 0 /\ (k <= m - 1 => f[m - 1] >= net[k])
    BY <2>5, <2>6
  <2>8. CASE m = k
    BY <2>3, <2>4, <2>6, <2>7, <2>8
  <2>9. CASE m # k
    BY <2>3, <2>4, <2>6, <2>7, <2>9
  <2>10. QED
    BY <2>8, <2>9
<1>4. n \in 0..n /\ n \notin T
  BY <1>3
<1>5. f[n] >= net[k]
  BY <1>4, <1>2
<1>6. Total(net, n) = f[n]
  BY <1>1, <1>2, TotalFromPartialSums
<1>7. QED
  BY <1>5, <1>6
-----------------------------------------------------------------------------
(* Sums over finite sets are totals of their listings.                     *)

(* A finite set has a listing: each of its elements, once.                 *)
LEMMA ListingListsAll ==
  ASSUME NEW S, IsFiniteSet(S)
  PROVE  /\ Cardinality(S) \in Nat
         /\ Listing(S) \in [1..Cardinality(S) -> S]
         /\ \A x \in S : \E k \in 1..Cardinality(S) : Listing(S)[k] = x
         /\ \A k, l \in 1..Cardinality(S) : Listing(S)[k] = Listing(S)[l] => k = l
<1> DEFINE n == Cardinality(S)
           Lists(e) == /\ \A x \in S : \E k \in DOMAIN e : e[k] = x
                       /\ \A k, l \in DOMAIN e : e[k] = e[l] => k = l
<1>1. n \in Nat /\ ExistsBijection(1..n, S)
  BY FS_CardinalityType
<1>2. PICK f \in Bijection(1..n, S) : TRUE
  BY <1>1 DEF ExistsBijection
<1>3. f \in [1..n -> S] /\ Lists(f)
  BY <1>2 DEF Bijection, Injection, Surjection, IsInjective
<1>4. Listing(S) = CHOOSE e \in [1..n -> S] : Lists(e)
  BY DEF Listing
<1>5. Listing(S) \in [1..n -> S] /\ Lists(Listing(S))
  BY <1>3, <1>4
<1>6. QED
  BY <1>1, <1>5

(* A sum of integers is one.                                               *)
LEMMA SumType ==
  ASSUME NEW S, IsFiniteSet(S), NEW net \in [S -> Int]
  PROVE  Sum(net, S) \in Int
<1> DEFINE n == Cardinality(S)
           row == [k \in 1..n |-> net[Listing(S)[k]]]
<1>1. n \in Nat /\ row \in [1..n -> Int]
  BY ListingListsAll
<1> HIDE DEF n, row
<1>2. QED
  BY <1>1, TotalType DEF Sum, n, row

(* Nothing anywhere adds up to 0.                                          *)
LEMMA SumOfZeroes ==
  ASSUME NEW S, IsFiniteSet(S), NEW net \in [S -> Int], \A x \in S : net[x] = 0
  PROVE  Sum(net, S) = 0
<1> DEFINE n == Cardinality(S)
           row == [k \in 1..n |-> net[Listing(S)[k]]]
<1>1. n \in Nat /\ row = [k \in 1..n |-> 0]
  BY ListingListsAll
<1> HIDE DEF n, row
<1>2. QED
  BY <1>1, TotalOfZeroes DEF Sum, n, row

(* Changing one summand by d changes the sum by d.                         *)
LEMMA SumUpdate ==
  ASSUME NEW S, IsFiniteSet(S), NEW net \in [S -> Int], NEW x \in S, NEW d \in Int,
         NEW net2 \in [S -> Int], net2[x] = net[x] + d,
         \A y \in S : y # x => net2[y] = net[y]
  PROVE  Sum(net2, S) = Sum(net, S) + d
<1> DEFINE n == Cardinality(S)
           row == [k \in 1..n |-> net[Listing(S)[k]]]
           row2 == [k \in 1..n |-> net2[Listing(S)[k]]]
<1>1. n \in Nat /\ row \in [1..n -> Int] /\ row2 \in [1..n -> Int]
  BY ListingListsAll
<1>2. PICK k \in 1..n : Listing(S)[k] = x
  BY ListingListsAll
<1>3. row2[k] = row[k] + d
  BY <1>2
<1>4. ASSUME NEW i \in 1..n, i # k PROVE row2[i] = row[i]
  <2>1. Listing(S)[i] \in S /\ Listing(S)[i] # x
    BY <1>2, <1>4, ListingListsAll
  <2>2. QED
    BY <2>1
<1> HIDE DEF n, row, row2
<1>5. Total(row2, n) = Total(row, n) + d
  BY <1>1, <1>3, <1>4, TotalUpdate
<1>6. QED
  BY <1>5 DEF Sum, n, row, row2
=============================================================================
