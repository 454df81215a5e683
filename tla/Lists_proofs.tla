----------------------------- MODULE Lists_proofs -----------------------------
(***************************************************************************)
(* What the operators of Lists return, and the arguments that take the place *)
(* of an induction: the smallest of some numbers, and recursion over numbers. *)
(***************************************************************************)
EXTENDS Lists, FiniteSetTheorems, TLAPS

-----------------------------------------------------------------------------
(* The places of a list *)

Rank(places, i) == Cardinality({j \in places : j <= i})

(* Places are finite in number. *)
LEMMA Numbered ==
  ASSUME NEW n \in Nat
  PROVE  IsFiniteSet(1..n) /\ Cardinality(1..n) = n
BY FS_Interval

LEMMA PlacesFinite ==
  ASSUME NEW n \in Nat, NEW places \in SUBSET (1..n)
  PROVE  /\ IsFiniteSet(places) /\ Cardinality(places) \in Nat
         /\ Cardinality(places) <= n
<1>1. IsFiniteSet(1..n) /\ Cardinality(1..n) = n
  BY Numbered
<1>2. IsFiniteSet(places) /\ Cardinality(places) <= Cardinality(1..n)
  BY <1>1, FS_Subset
<1> QED
  BY <1>1, <1>2, FS_CardinalityType

(* Every place has a rank of its own, between one and their number. *)
LEMMA RanksDiffer ==
  ASSUME NEW places \in SUBSET Int, IsFiniteSet(places)
  PROVE  /\ \A i \in places : Rank(places, i) \in 1..Cardinality(places)
         /\ \A i, j \in places : Rank(places, i) = Rank(places, j) => i = j
<1> DEFINE Upto(i) == {j \in places : j <= i}
<1>0. \A i \in places : i \in Int
  OBVIOUS
<1>1. IsFiniteSet(places) /\ Cardinality(places) \in Nat
  BY FS_CardinalityType
<1>2. ASSUME NEW i \in places
      PROVE  /\ IsFiniteSet(Upto(i)) /\ Cardinality(Upto(i)) \in Nat
             /\ Cardinality(Upto(i)) <= Cardinality(places)
             /\ Cardinality(Upto(i)) # 0
  <2>1. Upto(i) \in SUBSET places
    OBVIOUS
  <2>2. IsFiniteSet(Upto(i)) /\ Cardinality(Upto(i)) <= Cardinality(places)
    BY <1>1, <2>1, FS_Subset
  <2>3. i \in Upto(i)
    OBVIOUS
  <2>4. Cardinality(Upto(i)) # 0
    BY <2>2, <2>3, FS_EmptySet
  <2> QED
    BY <2>2, <2>4, FS_CardinalityType
<1>3. ASSUME NEW i \in places, NEW j \in places, i < j
      PROVE  Cardinality(Upto(i)) # Cardinality(Upto(j))
  <2>a. i \in Int /\ j \in Int
    BY <1>0
  <2>b. \A k \in places : k <= i => k <= j
    BY <1>0, <1>3, <2>a
  <2>1. Upto(i) \in SUBSET Upto(j)
    BY <2>b
  <2>2. j \in Upto(j) /\ j \notin Upto(i)
    BY <1>3, <2>a
  <2> HIDE DEF Upto
  <2> QED
    BY <1>2, <2>1, <2>2, FS_Subset
<1>4. ASSUME NEW i \in places, NEW j \in places, Cardinality(Upto(i)) = Cardinality(Upto(j))
      PROVE  i = j
  <2> HIDE DEF Upto
  <2> QED
    BY <1>3, <1>4
<1>5. \A i \in places : Rank(places, i) = Cardinality(Upto(i))
  BY DEF Rank
<1> HIDE DEF Upto
<1> QED
  BY <1>1, <1>2, <1>4, <1>5

(* Nth finds the place of each rank, and by its rank every place. *)
LEMMA NthFinds ==
  ASSUME NEW places \in SUBSET Int, IsFiniteSet(places)
  PROVE  /\ \A k \in 1..Cardinality(places) : Nth(places, k) \in places /\ Rank(places, Nth(places, k)) = k
         /\ \A i \in places : Rank(places, i) \in 1..Cardinality(places) /\ Nth(places, Rank(places, i)) = i
<1> DEFINE count == Cardinality(places)
           rank == [i \in places |-> Rank(places, i)]
<1>1. IsFiniteSet(places) /\ count \in Nat
  BY FS_CardinalityType
<1>2. /\ \A i \in places : Rank(places, i) \in 1..count
      /\ \A i, j \in places : Rank(places, i) = Rank(places, j) => i = j
  BY RanksDiffer
<1>3. rank \in Injection(places, 1..count)
  BY <1>2 DEF Injection, IsInjective
<1>4. IsFiniteSet(1..count) /\ Cardinality(1..count) = count
  BY <1>1, FS_Interval
<1>5. rank \in Surjection(places, 1..count)
  BY <1>1, <1>3, <1>4, FS_Injection
<1>6. \A k \in 1..count : \E i \in places : Rank(places, i) = k
  BY <1>5 DEF Surjection
<1>7. ASSUME NEW k \in 1..count
      PROVE  Nth(places, k) \in places /\ Rank(places, Nth(places, k)) = k
  <2>1. \E i \in places : Cardinality({j \in places : j <= i}) = k
    BY <1>6, <1>7 DEF Rank
  <2> QED
    BY <2>1 DEF Nth, Rank
<1> QED
  BY <1>2, <1>7

(* A place of the smallest rank has none before it. *)
LEMMA Smallest ==
  ASSUME NEW n \in Nat, NEW places \in SUBSET (1..n), places # {}
  PROVE  \E i \in places : \A j \in places : i <= j
<1>0. \A i \in places : i \in Int
  OBVIOUS
<1>1. /\ places \in SUBSET Int /\ IsFiniteSet(places)
      /\ Cardinality(places) \in Nat /\ Cardinality(places) # 0
  BY PlacesFinite, FS_EmptySet
<1>2. 1 \in 1..Cardinality(places)
  BY <1>1
<1> DEFINE first == Nth(places, 1)
           upto(i) == {j \in places : j <= i}
<1>3. first \in places /\ Rank(places, first) = 1
  BY <1>1, <1>2, NthFinds
<1>4. ASSUME NEW j \in places, ~(first <= j)
      PROVE  FALSE
  <2>a. j \in Int /\ first \in Int
    BY <1>0, <1>3
  <2> HIDE DEF first
  <2>1. j < first
    BY <1>4, <2>a
  <2>b. \A k \in places : k <= j => k <= first
    BY <1>0, <2>a, <2>1
  <2>2. upto(j) \in SUBSET upto(first) /\ upto(first) \in SUBSET places
    BY <2>b
  <2>3. IsFiniteSet(upto(first))
    BY <1>1, <2>2, FS_Subset
  <2>4. Cardinality(upto(j)) <= Cardinality(upto(first))
    BY <2>2, <2>3, FS_Subset
  <2>5. Rank(places, j) \in 1..Cardinality(places) /\ Rank(places, j) <= 1
    BY <1>1, <1>3, <2>4, RanksDiffer DEF Rank
  <2>6. Rank(places, j) = Rank(places, first)
    BY <1>1, <1>3, <2>5
  <2>7. j = first
    BY <1>1, <1>3, <2>6, RanksDiffer
  <2> QED
    BY <2>a, <2>1, <2>7
<1> QED
  BY <1>3, <1>4

-----------------------------------------------------------------------------
(* Entries and Capped *)

LEMMA EntriesAre ==
  ASSUME NEW T, NEW list \in Seq(T), NEW places \in SUBSET (DOMAIN list)
  PROVE  /\ Entries(list, places) \in Seq(T) /\ Len(Entries(list, places)) = Cardinality(places)
         /\ Cardinality(places) \in Nat /\ Cardinality(places) <= Len(list)
         /\ \A k \in 1..Cardinality(places) :
              Nth(places, k) \in places /\ Entries(list, places)[k] = list[Nth(places, k)]
         /\ \A i \in places : \E k \in 1..Cardinality(places) : Entries(list, places)[k] = list[i]
         /\ \A k, l \in 1..Cardinality(places) : k # l => Nth(places, k) # Nth(places, l)
<1>1. Len(list) \in Nat /\ places \in SUBSET (1..Len(list))
  OBVIOUS
<1>2. /\ Cardinality(places) \in Nat /\ Cardinality(places) <= Len(list)
      /\ places \in SUBSET Int /\ IsFiniteSet(places)
  BY <1>1, PlacesFinite
<1>3. /\ \A k \in 1..Cardinality(places) : Nth(places, k) \in places /\ Rank(places, Nth(places, k)) = k
      /\ \A i \in places : Rank(places, i) \in 1..Cardinality(places) /\ Nth(places, Rank(places, i)) = i
  BY <1>2, NthFinds
<1>4. \A k \in 1..Cardinality(places) : list[Nth(places, k)] \in T
  BY <1>1, <1>3
<1>5. Entries(list, places) \in [1..Cardinality(places) -> T]
  BY <1>4 DEF Entries
<1>6. Entries(list, places) \in Seq(T) /\ Len(Entries(list, places)) = Cardinality(places)
  BY <1>2, <1>5
<1>7. \A k \in 1..Cardinality(places) : Entries(list, places)[k] = list[Nth(places, k)]
  BY DEF Entries
<1>8. \A i \in places : \E k \in 1..Cardinality(places) : Entries(list, places)[k] = list[i]
  BY <1>3, <1>7
<1> QED
  BY <1>2, <1>3, <1>6, <1>7, <1>8

LEMMA CappedIs ==
  ASSUME NEW T, NEW list \in Seq(T), NEW most \in Nat
  PROVE  /\ Capped(list, most) \in Seq(T) /\ Len(Capped(list, most)) <= most
         /\ Len(Capped(list, most)) <= Len(list)
         /\ \A i \in DOMAIN Capped(list, most) : i \in DOMAIN list /\ Capped(list, most)[i] = list[i]
         /\ Len(Capped(list, most)) < most => Capped(list, most) = list
<1>1. CASE Len(list) < most
  <2>1. Capped(list, most) = list
    BY <1>1 DEF Capped
  <2> QED
    BY <1>1, <2>1
<1>2. CASE ~(Len(list) < most)
  <2>1. most <= Len(list) /\ Len(list) \in Nat
    BY <1>2
  <2>2. Capped(list, most) = SubSeq(list, 1, most)
    BY <1>2 DEF Capped
  <2> QED
    BY <2>1, <2>2
<1> QED
  BY <1>1, <1>2

LEMMA ElementsAre ==
  ASSUME NEW T, NEW list \in Seq(T)
  PROVE  /\ \A i \in DOMAIN list : list[i] \in T
         /\ list # <<>> => Head(list) \in T
  OBVIOUS

-----------------------------------------------------------------------------
(* Induction and recursion up to a number *)

(* A property, given as the set of numbers that have it, that goes from each *)
(* number to the next.                                                      *)
LEMMA Climb ==
  ASSUME NEW n \in Nat, NEW holds, 0 \in holds, \A k \in 1..n : k - 1 \in holds => k \in holds
  PROVE  \A k \in 0..n : k \in holds
<1> DEFINE bad == {k \in 1..n : k \notin holds}
<1>1. SUFFICES ASSUME bad # {} PROVE FALSE
  OBVIOUS
<1>2. PICK k \in bad : \A j \in bad : k <= j
  BY <1>1, Smallest
<1>3. k \in 1..n /\ k \notin holds
  BY <1>2
<1>4. k - 1 \notin holds
  BY <1>3
<1>5. k - 1 \in 1..n
  BY <1>3, <1>4
<1> QED
  BY <1>2, <1>3, <1>4, <1>5

(* A function defined from one number to the next, and that there is one. *)
Recursive(f, n, S, base, step) ==
  f \in [0..n -> S] /\ f[0] = base /\ \A k \in 1..n : f[k] = step[k][f[k - 1]]

LEMMA Recursion ==
  ASSUME NEW n \in Nat, NEW S, NEW base \in S, NEW step \in [1..n -> [S -> S]]
  PROVE  \E f : Recursive(f, n, S, base, step)
<1> DEFINE holds == {m \in 0..n : \E f : Recursive(f, m, S, base, step)}
<1>1. 0 \in holds
  <2> DEFINE first == [k \in 0..0 |-> base]
  <2>1. Recursive(first, 0, S, base, step)
    BY DEF Recursive
  <2>2. 0 \in 0..n
    OBVIOUS
  <2> HIDE DEF first
  <2> QED
    BY <2>1, <2>2
<1>2. ASSUME NEW m \in 1..n, m - 1 \in holds
      PROVE  m \in holds
  <2>1. PICK f : Recursive(f, m - 1, S, base, step)
    BY <1>2
  <2> DEFINE g == [k \in 0..m |-> IF k = m THEN step[m][f[m - 1]] ELSE f[k]]
  <2>2. m - 1 \in 0..(m - 1) /\ \A k \in 0..m : k = m \/ k \in 0..(m - 1)
    OBVIOUS
  <2>3. f[m - 1] \in S /\ step[m][f[m - 1]] \in S
    BY <2>1, <2>2 DEF Recursive
  <2>4. g \in [0..m -> S]
    BY <2>1, <2>2, <2>3 DEF Recursive
  <2>5. g[0] = base
    BY <2>1 DEF Recursive
  <2>6. ASSUME NEW k \in 1..m
        PROVE  g[k] = step[k][g[k - 1]]
    <3>1. k - 1 \in 0..m /\ k - 1 # m /\ g[k - 1] = f[k - 1]
      OBVIOUS
    <3>2. CASE k = m
      BY <3>1, <3>2
    <3>3. CASE k # m
      <4>1. k \in 1..(m - 1) /\ g[k] = f[k]
        BY <3>3
      <4> QED
        BY <2>1, <3>1, <4>1 DEF Recursive
    <3> QED
      BY <3>2, <3>3
  <2> HIDE DEF g
  <2>7. Recursive(g, m, S, base, step)
    BY <2>4, <2>5, <2>6 DEF Recursive
  <2>8. m \in 0..n
    OBVIOUS
  <2> QED
    BY <2>7, <2>8
<1>3. n \in holds
  <2>1. n \in 0..n
    OBVIOUS
  <2> HIDE DEF holds
  <2>2. \A k \in 1..n : k - 1 \in holds => k \in holds
    BY <1>2
  <2>3. \A k \in 0..n : k \in holds
    BY <1>1, <2>2, Climb
  <2> QED
    BY <2>1, <2>3
<1> QED
  BY <1>3
=============================================================================
