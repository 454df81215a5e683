-------------------------- MODULE PlayerDiff_proofs --------------------------
(***************************************************************************)
(* What diff_players makes of any two lists: who leaves and who stays are  *)
(* the list known, who joins and who stays the list answered, player by    *)
(* player; a list misread by the clock alone joins and removes nobody; and *)
(* of namesakes, the one that went is the one that leaves.                 *)
(***************************************************************************)
EXTENDS PlayerDiffCases, Lists_proofs

-----------------------------------------------------------------------------
(* The difference of two lists *)

(* A gap is a distance, none to oneself. *)
LEMMA GapIsNatural ==
  ASSUME NEW p, NEW q, p.since \in Int, q.since \in Int
  PROVE  Gap(p, q) \in Nat /\ Gap(p, p) = 0
BY DEF Gap

(* The nearest of the free entries is one of them: their gaps have a *)
(* smallest, and that one a first.                                   *)
LEMMA NearestIsFree ==
  ASSUME NEW T, \A q \in T : q.since \in Int,
         NEW long \in Seq(T), NEW free \in SUBSET (DOMAIN long), free # {}, NEW p \in T
  PROVE  /\ Nearest(long, free, p) \in free
         /\ \A j \in free : Gap(long[Nearest(long, free, p)], p) <= Gap(long[j], p)
<1> DEFINE gap(i) == Gap(long[i], p)
<1>1. \A i \in free : gap(i) \in Nat
  <2>1. \A i \in free : long[i] \in T
    BY ElementsAre
  <2> QED
    BY <2>1, GapIsNatural
<1>2. PICK some \in free : TRUE
  OBVIOUS
<1> DEFINE most == gap(some) + 1
           gaps == {g \in 1..most : \E i \in free : gap(i) + 1 = g}
<1>3. most \in Nat /\ most \in gaps
  BY <1>1, <1>2
<1> HIDE DEF gap
<1>4. PICK least \in gaps : \A g \in gaps : least <= g
  <2> HIDE DEF most
  <2>1. gaps \in SUBSET (1..most) /\ gaps # {}
    BY <1>3
  <2> HIDE DEF gaps
  <2> QED
    BY <1>3, <2>1, Smallest
<1>5. \A i \in free : least <= gap(i) + 1
  <2> SUFFICES ASSUME NEW i \in free PROVE least <= gap(i) + 1
    OBVIOUS
  <2>1. least \in 1..most /\ gap(i) + 1 \in Nat \ {0}
    BY <1>1, <1>4
  <2>2. CASE gap(i) + 1 \in 1..most
    BY <1>4, <2>2
  <2>3. CASE gap(i) + 1 \notin 1..most
    BY <1>3, <2>1, <2>3
  <2> QED
    BY <2>2, <2>3
<1> DEFINE ties == {i \in free : gap(i) + 1 = least}
<1>6. ties \in SUBSET (1..Len(long)) /\ ties # {} /\ Len(long) \in Nat
  BY <1>4
<1>7. PICK first \in ties : \A i \in ties : first <= i
  <2> HIDE DEF ties
  <2> QED
    BY <1>6, Smallest
<1>8. \A i \in free : gap(first) < gap(i) \/ (gap(first) = gap(i) /\ first <= i)
  BY <1>1, <1>4, <1>5, <1>7
<1>9. \E i \in free : \A j \in free :
        Gap(long[i], p) < Gap(long[j], p) \/ (Gap(long[i], p) = Gap(long[j], p) /\ i <= j)
  BY <1>7, <1>8 DEF gap
<1> DEFINE near == Nearest(long, free, p)
<1>10. /\ near \in free
       /\ \A j \in free : Gap(long[near], p) < Gap(long[j], p)
                            \/ (Gap(long[near], p) = Gap(long[j], p) /\ near <= j)
  BY <1>9 DEF Nearest
<1>11. \A j \in free : Gap(long[j], p) \in Nat
  BY <1>1 DEF gap
<1> HIDE DEF near
<1>12. \A j \in free : Gap(long[near], p) <= Gap(long[j], p)
  BY <1>10, <1>11
<1> QED
  BY <1>10, <1>12 DEF near

(* One of the longer side after another is taken. *)
TakenInTurn(free, short, long) ==
  /\ free \in [0..Len(short) -> SUBSET (DOMAIN long)]
  /\ free[0] = DOMAIN long
  /\ \A k \in 1..Len(short) : free[k] = free[k - 1] \ {Nearest(long, free[k - 1], short[k])}

(* Free is what its definition says. *)
LEMMA FreeIs ==
  ASSUME NEW T, NEW long \in Seq(T), NEW short \in Seq(T)
  PROVE  TakenInTurn(Free(short, long), short, long)
<1> DEFINE S == SUBSET (DOMAIN long)
           n == Len(short)
           base == DOMAIN long
           step == [k \in 1..n |-> [left \in S |-> left \ {Nearest(long, left, short[k])}]]
           body(f) == [k \in 0..n |-> IF k = 0 THEN base ELSE f[k - 1] \ {Nearest(long, f[k - 1], short[k])}]
<1>1. n \in Nat /\ base \in S
  OBVIOUS
<1>2. step \in [1..n -> [S -> S]]
  OBVIOUS
<1>3. \E f : Recursive(f, n, S, base, step)
  <2> HIDE DEF S, n, base, step
  <2> QED
    BY <1>1, <1>2, Recursion
<1>4. PICK f \in [0..n -> S] : f[0] = base /\ \A k \in 1..n : f[k] = step[k][f[k - 1]]
  BY <1>3 DEF Recursive
<1>5. f = body(f)
  <2>1. \A k \in 1..n : k - 1 \in 0..n
    OBVIOUS
  <2>2. \A k \in 1..n : f[k - 1] \in S
    BY <1>4, <2>1
  <2>3. \A k \in 1..n : step[k][f[k - 1]] = f[k - 1] \ {Nearest(long, f[k - 1], short[k])}
    BY <2>2
  <2>4. \A k \in 0..n : k = 0 \/ k \in 1..n
    BY <1>1
  <2> HIDE DEF step, S, base, n
  <2> QED
    BY <1>4, <2>3, <2>4
<1> DEFINE free == Free(short, long)
<1>6. free = body(free)
  BY <1>5 DEF Free
<1>7. free[0] = base /\ \A k \in 1..n : free[k] = free[k - 1] \ {Nearest(long, free[k - 1], short[k])}
  <2>1. 0 \in 0..n /\ \A k \in 1..n : k \in 0..n /\ k # 0
    BY <1>1
  <2> HIDE DEF free, base, n
  <2> QED
    BY <1>6, <2>1
<1>8. \A k \in 0..n : free[k] \in S
  <2> DEFINE holds == {k \in 0..n : free[k] \in S}
  <2>1. 0 \in holds
    BY <1>1, <1>7
  <2>2. \A k \in 1..n : k - 1 \in holds => k \in holds
    <3>1. \A k \in 1..n : k \in 0..n
      BY <1>1
    <3> HIDE DEF free, n
    <3> QED
      BY <1>7, <3>1
  <2>3. \A k \in 0..n : k \in holds
    <3> HIDE DEF holds, n
    <3> QED
      BY <1>1, <2>1, <2>2, Climb
  <2> QED
    BY <2>3
<1>9. free \in [0..n -> S]
  <2> HIDE DEF n, free, S, base
  <2> QED
    BY <1>6, <1>8
<1> QED
  BY <1>7, <1>9 DEF TakenInTurn

-----------------------------------------------------------------------------
(* How many players of a list carry a name *)

CountOf(list, n) == Cardinality(Carriers(list, n))

(* The places at which a name stands in a list, and how many they are. *)
LEMMA CarriersAre ==
  ASSUME NEW T, NEW list \in Seq(T), NEW n
  PROVE  /\ Carriers(list, n) \in SUBSET (1..Len(list)) /\ IsFiniteSet(Carriers(list, n))
         /\ CountOf(list, n) \in Nat /\ CountOf(list, n) <= Len(list)
<1>1. Len(list) \in Nat /\ Carriers(list, n) \in SUBSET (1..Len(list))
  BY DEF Carriers
<1> QED
  BY <1>1, PlacesFinite DEF CountOf

(* Nobody carries a name in the empty list. *)
LEMMA NobodyCounts ==
  ASSUME NEW n
  PROVE  CountOf(<<>>, n) = 0
<1>1. Carriers(<<>>, n) = {}
  BY DEF Carriers
<1> QED
  BY <1>1, FS_EmptySet DEF CountOf

(* Where names agree, so do their numbers. *)
LEMMA SameNames ==
  ASSUME NEW S, NEW T, NEW a \in Seq(S), NEW b \in Seq(T), NEW n, Len(a) = Len(b),
         \A i \in 1..Len(a) : a[i].name = b[i].name
  PROVE  CountOf(a, n) = CountOf(b, n)
<1>1. Carriers(a, n) = Carriers(b, n)
  BY DEF Carriers
<1> QED
  BY <1>1 DEF CountOf

(* A list of namesakes counts for their name alone. *)
LEMMA OneName ==
  ASSUME NEW T, NEW list \in Seq(T), NEW n, \A p \in T : p.name = n
  PROVE  CountOf(list, n) = Len(list) /\ \A m : m # n => CountOf(list, m) = 0
<1>1. Len(list) \in Nat /\ \A i \in 1..Len(list) : list[i].name = n
  BY ElementsAre
<1>2. Carriers(list, n) = 1..Len(list) /\ \A m : m # n => Carriers(list, m) = {}
  BY <1>1 DEF Carriers
<1> QED
  BY <1>1, <1>2, Numbered, FS_EmptySet DEF CountOf

(* Sets that correspond one to one. *)
LEMMA OneToOne ==
  ASSUME NEW S, NEW T, IsFiniteSet(S), NEW f \in [S -> T],
         \A x, y \in S : f[x] = f[y] => x = y, \A y \in T : \E x \in S : f[x] = y
  PROVE  IsFiniteSet(T) /\ Cardinality(T) = Cardinality(S)
<1>1. f \in Bijection(S, T)
  BY DEF Bijection, Injection, Surjection, IsInjective
<1>2. ExistsBijection(S, T)
  BY <1>1 DEF ExistsBijection
<1> QED
  BY <1>2, FS_Bijection

(* Moving places does not change their number. *)
LEMMA MovedCounts ==
  ASSUME NEW m \in Nat, NEW places \in SUBSET (1..m), NEW by \in Nat
  PROVE  LET moved == {by + i : i \in places}
         IN  IsFiniteSet(moved) /\ Cardinality(moved) = Cardinality(places)
<1> DEFINE moved == {by + i : i \in places}
           f == [i \in places |-> by + i]
<1>1. IsFiniteSet(places)
  BY PlacesFinite
<1>2. \A i \in places : i \in Int
  OBVIOUS
<1>3. IsFiniteSet(moved) /\ Cardinality(moved) = Cardinality(places)
  <2>1. f \in [places -> moved]
    OBVIOUS
  <2>2. \A i, j \in places : f[i] = f[j] => i = j
    BY <1>2
  <2>3. \A k \in moved : \E i \in places : f[i] = k
    OBVIOUS
  <2> HIDE DEF f, moved
  <2> QED
    BY <1>1, <2>1, <2>2, <2>3, OneToOne
<1> QED
  BY <1>3

(* Two sets apart count for as much as both together. *)
LEMMA DisjointCounts ==
  ASSUME NEW S, NEW T, IsFiniteSet(S), IsFiniteSet(T), S \intersect T = {}
  PROVE  Cardinality(S \union T) = Cardinality(S) + Cardinality(T)
<1>1. Cardinality(S \intersect T) = 0
  BY FS_EmptySet
<1>2. Cardinality(S) \in Nat /\ Cardinality(T) \in Nat
  BY FS_CardinalityType
<1>3. Cardinality(S \union T) = Cardinality(S) + Cardinality(T) - Cardinality(S \intersect T)
  BY FS_Union
<1> QED
  BY <1>1, <1>2, <1>3

(* Where a list has entries of a kind, given as a set, and how many. *)
Where(list, S) == {i \in DOMAIN list : list[i] \in S}
CountIn(list, S) == Cardinality(Where(list, S))

(* A kind has places in a list, which can be counted. *)
LEMMA WhereIs ==
  ASSUME NEW T, NEW list \in Seq(T), NEW S
  PROVE  /\ Where(list, S) \in SUBSET (1..Len(list)) /\ IsFiniteSet(Where(list, S))
         /\ CountIn(list, S) \in Nat /\ Len(list) \in Nat
<1>1. Len(list) \in Nat /\ Where(list, S) \in SUBSET (1..Len(list))
  BY DEF Where
<1> QED
  BY <1>1, PlacesFinite DEF CountIn

(* Who carries a name is of a kind. *)
LEMMA CarriersOfAKind ==
  ASSUME NEW T, NEW list \in Seq(T), NEW n
  PROVE  Carriers(list, n) = Where(list, {p \in T : p.name = n})
<1>1. \A i \in DOMAIN list : list[i] \in T
  BY ElementsAre
<1> QED
  BY <1>1 DEF Carriers, Where

(* A kind counts in two lists, one after the other, as in both. *)
LEMMA KindJoin ==
  ASSUME NEW T, NEW a \in Seq(T), NEW b \in Seq(T), NEW S
  PROVE  CountIn(a \o b, S) = CountIn(a, S) + CountIn(b, S)
<1> DEFINE moved == {Len(a) + i : i \in Where(b, S)}
<1>1. /\ Len(a) \in Nat /\ Len(b) \in Nat /\ Len(a \o b) = Len(a) + Len(b)
      /\ DOMAIN a = 1..Len(a) /\ DOMAIN b = 1..Len(b) /\ DOMAIN (a \o b) = 1..(Len(a) + Len(b))
      /\ \A i \in 1..Len(a) : (a \o b)[i] = a[i]
      /\ \A i \in 1..Len(b) : (a \o b)[Len(a) + i] = b[i]
  OBVIOUS
<1>2. /\ Where(a, S) \in SUBSET (1..Len(a)) /\ IsFiniteSet(Where(a, S))
      /\ Where(b, S) \in SUBSET (1..Len(b))
  BY WhereIs
<1>3. IsFiniteSet(moved) /\ Cardinality(moved) = Cardinality(Where(b, S))
  BY <1>1, <1>2, MovedCounts
<1>4. Where(a, S) \intersect moved = {}
  BY <1>1, <1>2
<1>5. ASSUME NEW i \in 1..(Len(a) + Len(b))
      PROVE  (a \o b)[i] \in S <=> i \in Where(a, S) \union moved
  <2>1. CASE i \in 1..Len(a)
    <3>1. i \notin moved
      BY <1>1, <1>2, <2>1
    <3>2. (a \o b)[i] = a[i]
      BY <1>1, <2>1
    <3>3. a[i] \in S <=> i \in Where(a, S)
      BY <1>1, <2>1 DEF Where
    <3> QED
      BY <3>1, <3>2, <3>3
  <2>2. CASE i \notin 1..Len(a)
    <3> DEFINE k == i - Len(a)
    <3>1. k \in 1..Len(b) /\ i = Len(a) + k
      BY <1>1, <2>2
    <3>2. (a \o b)[i] = b[k]
      BY <1>1, <3>1
    <3> HIDE DEF k
    <3>3. \A j \in Where(b, S) : j \in Int /\ (i = Len(a) + j => j = k)
      BY <1>1, <1>2, <3>1
    <3>4. i \in moved <=> k \in Where(b, S)
      BY <3>1, <3>3
    <3>5. i \notin Where(a, S)
      BY <1>2, <2>2
    <3>6. b[k] \in S <=> k \in Where(b, S)
      BY <1>1, <3>1 DEF Where
    <3> QED
      BY <3>2, <3>4, <3>5, <3>6
  <2> QED
    BY <2>1, <2>2
<1>6. Where(a \o b, S) = Where(a, S) \union moved
  <2>1. Where(a, S) \union moved \subseteq 1..(Len(a) + Len(b))
    BY <1>1, <1>2
  <2> HIDE DEF moved
  <2> QED
    BY <1>1, <1>5, <2>1 DEF Where
<1> HIDE DEF moved
<1> QED
  BY <1>2, <1>3, <1>4, <1>6, DisjointCounts DEF CountIn

(* A kind counts, in the entries taken from a list, at the places taken. *)
LEMMA KindEntries ==
  ASSUME NEW T, NEW list \in Seq(T), NEW places \in SUBSET (DOMAIN list), NEW S
  PROVE  CountIn(Entries(list, places), S) = Cardinality({i \in places : list[i] \in S})
<1> DEFINE es == Entries(list, places)
           those == {i \in places : list[i] \in S}
           f == [k \in Where(es, S) |-> Nth(places, k)]
<1>1. /\ es \in Seq(T) /\ Len(es) = Cardinality(places) /\ Cardinality(places) \in Nat
      /\ \A k \in 1..Cardinality(places) : Nth(places, k) \in places /\ es[k] = list[Nth(places, k)]
      /\ \A k, l \in 1..Cardinality(places) : k # l => Nth(places, k) # Nth(places, l)
  BY EntriesAre
<1>2. /\ places \in SUBSET Int /\ IsFiniteSet(places)
  BY PlacesFinite
<1>3. \A i \in places : Rank(places, i) \in 1..Cardinality(places) /\ Nth(places, Rank(places, i)) = i
  BY <1>2, NthFinds
<1>4. DOMAIN es = 1..Cardinality(places)
  BY <1>1
<1>5. Where(es, S) \in SUBSET (1..Len(es)) /\ IsFiniteSet(Where(es, S))
  BY <1>1, WhereIs
<1> HIDE DEF es
<1>6. Cardinality(those) = Cardinality(Where(es, S))
  <2>1. f \in [Where(es, S) -> those]
    BY <1>1, <1>4 DEF Where
  <2>2. \A k, l \in Where(es, S) : f[k] = f[l] => k = l
    BY <1>1, <1>5
  <2>3. ASSUME NEW i \in those
        PROVE  \E k \in Where(es, S) : f[k] = i
    <3>1. Rank(places, i) \in 1..Cardinality(places) /\ es[Rank(places, i)] = list[i]
      BY <1>1, <1>3
    <3>2. Rank(places, i) \in Where(es, S)
      BY <1>4, <3>1 DEF Where
    <3> QED
      BY <1>3, <3>2
  <2> HIDE DEF f, those
  <2> QED
    BY <1>5, <2>1, <2>2, <2>3, OneToOne
<1> QED
  BY <1>6 DEF es, those, CountIn

(* Names count so. *)
LEMMA CountJoin ==
  ASSUME NEW S, NEW T, NEW a \in Seq(S), NEW b \in Seq(T), NEW n
  PROVE  CountOf(a \o b, n) = CountOf(a, n) + CountOf(b, n)
<1> DEFINE U == S \union T
           kind == {p \in U : p.name = n}
<1>1. a \in Seq(U) /\ b \in Seq(U)
  OBVIOUS
<1> HIDE DEF U
<1>2. a \o b \in Seq(U)
  BY <1>1
<1>3. CountIn(a \o b, kind) = CountIn(a, kind) + CountIn(b, kind)
  BY <1>1, KindJoin
<1> QED
  BY <1>1, <1>2, <1>3, CarriersOfAKind DEF CountOf, CountIn

(* A name counts, in the entries taken from a list, at the places taken. *)
LEMMA CountEntries ==
  ASSUME NEW T, NEW list \in Seq(T), NEW places \in SUBSET (DOMAIN list), NEW n
  PROVE  CountOf(Entries(list, places), n) = Cardinality({i \in places : list[i].name = n})
<1> DEFINE kind == {p \in T : p.name = n}
<1>1. Entries(list, places) \in Seq(T)
  BY EntriesAre
<1>2. CountIn(Entries(list, places), kind) = Cardinality({i \in places : list[i] \in kind})
  BY KindEntries
<1>3. {i \in places : list[i] \in kind} = {i \in places : list[i].name = n}
  BY ElementsAre
<1>4. CountOf(Entries(list, places), n) = CountIn(Entries(list, places), kind)
  BY <1>1, CarriersOfAKind DEF CountOf, CountIn
<1> HIDE DEF kind
<1> QED
  BY <1>2, <1>3, <1>4

Namesakes(n) == [name : {n}, since : Int]

Timed(T) == \A q \in T : q.since \in Int

(* Each of the shorter side takes one away that is free. *)
LEMMA FreeCounts ==
  ASSUME NEW T, Timed(T),
         NEW long \in Seq(T), NEW short \in Seq(T), Len(short) <= Len(long),
         NEW free, TakenInTurn(free, short, long)
  PROVE  /\ \A k \in 0..Len(short) : free[k] \in SUBSET (DOMAIN long) /\ Cardinality(free[k]) = Len(long) - k
         /\ \A k \in 1..Len(short) : Nearest(long, free[k - 1], short[k]) \in free[k - 1]
<1> DEFINE taken(k) == Nearest(long, free[k - 1], short[k])
           holds == {k \in 0..Len(short) : Cardinality(free[k]) = Len(long) - k}
<1>1. /\ Len(long) \in Nat /\ Len(short) \in Nat /\ DOMAIN long = 1..Len(long)
      /\ \A k \in 1..Len(short) : short[k] \in T /\ k - 1 \in 0..Len(short)
      /\ \A k \in 1..Len(short) : k \in 0..Len(short)
      /\ 0 \in 0..Len(short)
  BY ElementsAre
<1>2. /\ \A k \in 0..Len(short) : free[k] \in SUBSET (DOMAIN long)
      /\ free[0] = DOMAIN long
      /\ \A k \in 1..Len(short) : free[k] = free[k - 1] \ {taken(k)}
  BY DEF TakenInTurn
<1>3. ASSUME NEW k \in 1..Len(short), k - 1 \in holds
      PROVE  taken(k) \in free[k - 1]
  <2>1. Cardinality(free[k - 1]) = Len(long) - (k - 1)
    BY <1>3
  <2>2. Cardinality(free[k - 1]) # 0
    BY <1>1, <2>1
  <2>3. free[k - 1] \in SUBSET (DOMAIN long) /\ free[k - 1] # {}
    BY <1>1, <1>2, <2>2, FS_EmptySet
  <2> QED
    BY <1>1, <2>3, NearestIsFree DEF Timed
<1>4. \A k \in 1..Len(short) : k - 1 \in holds => k \in holds
  <2> SUFFICES ASSUME NEW k \in 1..Len(short), k - 1 \in holds PROVE k \in holds
    OBVIOUS
  <2>1. Cardinality(free[k - 1]) = Len(long) - (k - 1)
    OBVIOUS
  <2>2. taken(k) \in free[k - 1] /\ free[k] = free[k - 1] \ {taken(k)}
    BY <1>2, <1>3
  <2>3. free[k - 1] \in SUBSET (1..Len(long))
    BY <1>1, <1>2
  <2> HIDE DEF taken
  <2>4. IsFiniteSet(free[k - 1])
    BY <1>1, <2>3, PlacesFinite
  <2>5. Cardinality(free[k]) = Cardinality(free[k - 1]) - 1
    BY <2>2, <2>4, FS_RemoveElement
  <2> QED
    BY <1>1, <2>1, <2>5
<1>5. \A k \in 0..Len(short) : k \in holds
  <2>1. 0 \in holds
    BY <1>1, <1>2, Numbered
  <2> HIDE DEF holds
  <2> QED
    BY <1>1, <1>4, <2>1, Climb
<1>6. \A k \in 1..Len(short) : taken(k) \in free[k - 1]
  BY <1>1, <1>3, <1>5
<1> QED
  BY <1>2, <1>5, <1>6

(* The pairs are of the shorter side's length, and the rest of the longer is free. *)
Pairing(r, T, short, long) ==
  /\ r.pairs \in Seq(T \X T) /\ Len(r.pairs) = Len(short)
  /\ \A k \in 1..Len(short) : r.pairs[k][1] = short[k] /\ \E i \in DOMAIN long : r.pairs[k][2] = long[i]
  /\ r.free \in SUBSET (DOMAIN long)
  /\ Cardinality(r.free) = Len(long) - Len(short)

(* pair_up leaves each of the shorter list with one of the longer, and the *)
(* rest free.                                                              *)
LEMMA PairUpIs ==
  ASSUME NEW T, Timed(T), NEW long \in Seq(T), NEW short \in Seq(T), Len(short) <= Len(long)
  PROVE  Pairing(PairUp(short, long), T, short, long)
<1> DEFINE free == Free(short, long)
           taken(k) == Nearest(long, free[k - 1], short[k])
           pairs == [k \in 1..Len(short) |-> <<short[k], long[taken(k)]>>]
<1> DEFINE r == PairUp(short, long)
<1>1. r.pairs = pairs /\ r.free = free[Len(short)]
  BY DEF PairUp
<1> HIDE DEF r
<1>2. /\ Len(short) \in Nat /\ Len(short) \in 0..Len(short)
      /\ \A k \in 1..Len(short) : short[k] \in T /\ k - 1 \in 0..Len(short)
      /\ \A i \in DOMAIN long : long[i] \in T
  BY ElementsAre
<1>a. TakenInTurn(free, short, long)
  BY FreeIs
<1> HIDE DEF free
<1>3. /\ \A k \in 0..Len(short) : free[k] \in SUBSET (DOMAIN long) /\ Cardinality(free[k]) = Len(long) - k
      /\ \A k \in 1..Len(short) : taken(k) \in free[k - 1]
  BY <1>a, FreeCounts
<1>4. \A k \in 1..Len(short) : taken(k) \in DOMAIN long
  BY <1>2, <1>3
<1> HIDE DEF taken
<1>5. pairs \in [1..Len(short) -> T \X T]
  BY <1>2, <1>4
<1>6. pairs \in Seq(T \X T) /\ Len(pairs) = Len(short)
  BY <1>2, <1>5
<1>7. \A k \in 1..Len(short) : pairs[k][1] = short[k] /\ \E i \in DOMAIN long : pairs[k][2] = long[i]
  BY <1>4
<1> HIDE DEF pairs
<1>8. Pairing(r, T, short, long)
  BY <1>1, <1>2, <1>3, <1>6, <1>7 DEF Pairing
<1> QED
  BY <1>8 DEF r

(* Of one name: the pairs and who is apart make up either list. *)
Matching(m, T, olds, news) ==
  /\ m.pairs \in Seq(T \X T) /\ m.gone \in Seq(T) /\ m.new \in Seq(T)
  /\ Len(m.pairs) + Len(m.gone) = Len(olds)
  /\ Len(m.pairs) + Len(m.new) = Len(news)

(* The longer of the two lists gives the free ones: those who left, or those *)
(* who joined.                                                               *)
LEMMA MatchUpIs ==
  ASSUME NEW T, Timed(T), NEW olds \in Seq(T), NEW news \in Seq(T)
  PROVE  Matching(MatchUp(olds, news), T, olds, news)
<1> PICK m : m = MatchUp(olds, news)
  OBVIOUS
<1>0. Len(olds) \in Nat /\ Len(news) \in Nat /\ <<>> \in Seq(T) /\ Len(<<>>) = 0
  OBVIOUS
<1>1. CASE Len(olds) <= Len(news)
  <2> PICK r : r = PairUp(olds, news)
    OBVIOUS
  <2>1. /\ r.pairs \in Seq(T \X T) /\ Len(r.pairs) = Len(olds)
        /\ r.free \in SUBSET (DOMAIN news) /\ Cardinality(r.free) = Len(news) - Len(olds)
    <3>1. Pairing(PairUp(olds, news), T, olds, news)
      BY <1>1, PairUpIs
    <3> QED
      BY <3>1 DEF Pairing
  <2>2. m.pairs = r.pairs /\ m.gone = <<>> /\ m.new = Entries(news, r.free)
    BY <1>1 DEF MatchUp, Grown
  <2>3. Entries(news, r.free) \in Seq(T) /\ Len(Entries(news, r.free)) = Cardinality(r.free)
    BY <2>1, EntriesAre
  <2>4. Len(m.pairs) = Len(olds) /\ Len(m.gone) = 0 /\ Len(m.new) = Len(news) - Len(olds)
    BY <1>0, <2>1, <2>2, <2>3
  <2>5. m.pairs \in Seq(T \X T) /\ m.gone \in Seq(T) /\ m.new \in Seq(T)
    BY <1>0, <2>1, <2>2, <2>3
  <2>6. Len(m.pairs) + Len(m.gone) = Len(olds) /\ Len(m.pairs) + Len(m.new) = Len(news)
    BY <1>0, <2>4
  <2> QED
    BY <2>5, <2>6 DEF Matching
<1>2. CASE ~(Len(olds) <= Len(news))
  <2> PICK r : r = PairUp(news, olds)
    OBVIOUS
  <2> DEFINE pairs == [i \in DOMAIN r.pairs |-> <<r.pairs[i][2], r.pairs[i][1]>>]
  <2>0. Len(news) <= Len(olds)
    BY <1>0, <1>2
  <2>1. /\ r.pairs \in Seq(T \X T) /\ Len(r.pairs) = Len(news)
        /\ r.free \in SUBSET (DOMAIN olds) /\ Cardinality(r.free) = Len(olds) - Len(news)
    <3>1. Pairing(PairUp(news, olds), T, news, olds)
      BY <2>0, PairUpIs
    <3> QED
      BY <3>1 DEF Pairing
  <2>2. m.pairs = pairs /\ m.gone = Entries(olds, r.free) /\ m.new = <<>>
    BY <1>2 DEF MatchUp, Shrunk
  <2>3. Entries(olds, r.free) \in Seq(T) /\ Len(Entries(olds, r.free)) = Cardinality(r.free)
    BY <2>1, EntriesAre
  <2>4. \A i \in DOMAIN r.pairs : r.pairs[i] \in T \X T
    BY <2>1, ElementsAre
  <2>5. DOMAIN r.pairs = 1..Len(news)
    BY <2>1
  <2>6. pairs \in [1..Len(news) -> T \X T]
    BY <2>4, <2>5
  <2> HIDE DEF pairs
  <2>7. pairs \in Seq(T \X T) /\ Len(pairs) = Len(news)
    BY <1>0, <2>6
  <2>8. Len(m.pairs) = Len(news) /\ Len(m.gone) = Len(olds) - Len(news) /\ Len(m.new) = 0
    BY <1>0, <2>1, <2>2, <2>3, <2>7
  <2> QED
    BY <1>0, <2>1, <2>2, <2>3, <2>7, <2>8 DEF Matching
<1> QED
  BY <1>1, <1>2

(* Every pair stays or parts. *)
LEMMA PairsSplit ==
  ASSUME NEW T, Timed(T), NEW pairs \in Seq(T \X T)
  PROVE  /\ Parted(pairs) \in Seq(T \X T) /\ Near(pairs) \in Seq(T \X T)
         /\ Len(Parted(pairs)) + Len(Near(pairs)) = Len(pairs)
<1> DEFINE far == {k \in DOMAIN pairs : Gap(pairs[k][1], pairs[k][2]) > Drift}
           close == {k \in DOMAIN pairs : Gap(pairs[k][1], pairs[k][2]) <= Drift}
<1>1. \A k \in DOMAIN pairs : Gap(pairs[k][1], pairs[k][2]) \in Nat
  <2>1. \A k \in DOMAIN pairs : pairs[k] \in T \X T
    BY ElementsAre
  <2>2. \A k \in DOMAIN pairs : pairs[k][1].since \in Int /\ pairs[k][2].since \in Int
    BY <2>1 DEF Timed
  <2> QED
    BY <2>2, GapIsNatural
<1>2. Drift \in Nat
  BY DiffAssumption
<1>3. far \intersect close = {} /\ far \union close = DOMAIN pairs
  <2> DEFINE gap(k) == Gap(pairs[k][1], pairs[k][2])
  <2>1. \A k \in DOMAIN pairs : gap(k) \in Nat
    BY <1>1
  <2>2. far = {k \in DOMAIN pairs : gap(k) > Drift} /\ close = {k \in DOMAIN pairs : gap(k) <= Drift}
    OBVIOUS
  <2> HIDE DEF gap, far, close
  <2>3. \A k \in DOMAIN pairs : ~(gap(k) > Drift /\ gap(k) <= Drift) /\ (gap(k) > Drift \/ gap(k) <= Drift)
    BY <1>2, <2>1
  <2> QED
    BY <2>2, <2>3
<1>4. Len(pairs) \in Nat /\ DOMAIN pairs = 1..Len(pairs)
  OBVIOUS
<1>5. far \in SUBSET (DOMAIN pairs) /\ close \in SUBSET (DOMAIN pairs)
  OBVIOUS
<1> HIDE DEF far, close
<1>6. IsFiniteSet(far) /\ IsFiniteSet(close)
  BY <1>4, <1>5, PlacesFinite
<1>7. Cardinality(far) + Cardinality(close) = Len(pairs)
  <2>1. Cardinality(far \union close) = Cardinality(far) + Cardinality(close)
    BY <1>3, <1>6, DisjointCounts
  <2> QED
    BY <1>3, <1>4, <2>1, Numbered
<1>8. Parted(pairs) = Entries(pairs, far) /\ Near(pairs) = Entries(pairs, close)
  BY DEF Parted, Near, far, close
<1> QED
  BY <1>5, <1>7, <1>8, EntriesAre

(* One side of a list of pairs. *)
LEMMA SideIs ==
  ASSUME NEW T, NEW pairs \in Seq(T \X T), NEW s \in {1, 2}
  PROVE  /\ [i \in DOMAIN pairs |-> pairs[i][s]] \in Seq(T)
         /\ Len([i \in DOMAIN pairs |-> pairs[i][s]]) = Len(pairs)
<1>1. DOMAIN pairs = 1..Len(pairs) /\ Len(pairs) \in Nat
  OBVIOUS
<1>2. \A i \in DOMAIN pairs : pairs[i] \in T \X T
  BY ElementsAre
<1>3. [i \in DOMAIN pairs |-> pairs[i][s]] \in [1..Len(pairs) -> T]
  BY <1>1, <1>2
<1> QED
  BY <1>1, <1>3

(* Two lists, one after the other, are a list. *)
LEMMA ConcatIs ==
  ASSUME NEW T, NEW a \in Seq(T), NEW b \in Seq(T)
  PROVE  a \o b \in Seq(T) /\ Len(a \o b) = Len(a) + Len(b)
  OBVIOUS

(* Of one name: who stays and who left make up the old list, who stays and *)
(* who joined the new one.                                                   *)
Differing(d, T, olds, news) ==
  /\ d \in [left : Seq(T), joined : Seq(T), kept : Seq(T), moved : Nat, pairs : Nat]
  /\ Len(d.kept) + Len(d.left) = Len(olds)
  /\ Len(d.kept) + Len(d.joined) = Len(news)

(* The part that diff_players makes of one name. *)
LEMMA PartIs ==
  ASSUME NEW T, Timed(T), NEW olds \in Seq(T), NEW news \in Seq(T)
  PROVE  Differing(PartOf(MatchUp(olds, news)), T, olds, news)
<1> PICK m : m = MatchUp(olds, news)
  OBVIOUS
<1> PICK d : d = PartOf(m)
  OBVIOUS
<1> DEFINE apart == Parted(m.pairs)
           near == Near(m.pairs)
           was == [i \in DOMAIN apart |-> apart[i][1]]
           now == [i \in DOMAIN apart |-> apart[i][2]]
           kept == [i \in DOMAIN near |-> near[i][1]]
<1>1. /\ m.pairs \in Seq(T \X T) /\ m.gone \in Seq(T) /\ m.new \in Seq(T)
      /\ Len(m.pairs) + Len(m.gone) = Len(olds)
      /\ Len(m.pairs) + Len(m.new) = Len(news)
  <2>1. Matching(MatchUp(olds, news), T, olds, news)
    BY MatchUpIs
  <2> QED
    BY <2>1 DEF Matching
<1>2. d = [left |-> was \o m.gone, joined |-> now \o m.new, kept |-> kept,
           moved |-> Len(apart), pairs |-> Len(m.pairs)]
  BY DEF PartOf, Part, Kept
<1>3. apart \in Seq(T \X T) /\ near \in Seq(T \X T) /\ Len(apart) + Len(near) = Len(m.pairs)
  BY <1>1, PairsSplit
<1> HIDE DEF apart, near
<1>4. /\ was \in Seq(T) /\ Len(was) = Len(apart)
      /\ now \in Seq(T) /\ Len(now) = Len(apart)
      /\ kept \in Seq(T) /\ Len(kept) = Len(near)
  BY <1>3, SideIs
<1> HIDE DEF was, now, kept
<1>5. was \o m.gone \in Seq(T) /\ Len(was \o m.gone) = Len(apart) + Len(m.gone)
  <2>1. was \in Seq(T) /\ m.gone \in Seq(T) /\ Len(was) = Len(apart)
    BY <1>1, <1>4
  <2>2. was \o m.gone \in Seq(T) /\ Len(was \o m.gone) = Len(was) + Len(m.gone)
    BY <2>1, ConcatIs
  <2> QED
    BY <2>1, <2>2
<1>6. now \o m.new \in Seq(T) /\ Len(now \o m.new) = Len(apart) + Len(m.new)
  <2>1. now \in Seq(T) /\ m.new \in Seq(T) /\ Len(now) = Len(apart)
    BY <1>1, <1>4
  <2>2. now \o m.new \in Seq(T) /\ Len(now \o m.new) = Len(now) + Len(m.new)
    BY <2>1, ConcatIs
  <2> QED
    BY <2>1, <2>2
<1>7. Len(apart) \in Nat /\ Len(m.pairs) \in Nat /\ Len(near) \in Nat /\ Len(m.gone) \in Nat /\ Len(m.new) \in Nat
  BY <1>1, <1>3
<1>8. d \in [left : Seq(T), joined : Seq(T), kept : Seq(T), moved : Nat, pairs : Nat]
  BY <1>2, <1>4, <1>5, <1>6, <1>7
<1>9. d.left = was \o m.gone /\ d.joined = now \o m.new /\ d.kept = kept
  BY <1>2
<1> DEFINE parted == Len(apart)
           stay == Len(near)
           gone == Len(m.gone)
           come == Len(m.new)
<1>10. Len(d.left) = parted + gone /\ Len(d.joined) = parted + come /\ Len(d.kept) = stay
  BY <1>4, <1>5, <1>6, <1>9
<1>11. parted \in Nat /\ stay \in Nat /\ gone \in Nat /\ come \in Nat
  BY <1>7
<1>12. (parted + stay) + gone = Len(olds) /\ (parted + stay) + come = Len(news)
  BY <1>1, <1>3
<1> HIDE DEF parted, stay, gone, come
<1>13. Len(d.kept) + Len(d.left) = Len(olds) /\ Len(d.kept) + Len(d.joined) = Len(news)
  BY <1>10, <1>11, <1>12
<1> QED
  BY <1>8, <1>13 DEF Differing

Parts == [left : Seq(Players), joined : Seq(Players), kept : Seq(Players), moved : Nat, pairs : Nat]

(* What the players with one name contribute. *)
PartFor(old, new, n) == PartOf(MatchUp(Named(old, n), Named(new, n)))

(* Namesakes are players, and a list of them is a list of players. *)
LEMMA NamesakesArePlayers ==
  ASSUME NEW n \in Names
  PROVE  /\ Namesakes(n) \subseteq Players /\ Timed(Namesakes(n))
         /\ \A p \in Namesakes(n) : p.name = n
         /\ Seq(Namesakes(n)) \subseteq Seq(Players)
<1>1. Namesakes(n) \subseteq Players /\ Timed(Namesakes(n)) /\ \A p \in Namesakes(n) : p.name = n
  BY DEF Namesakes, Players, Timed
<1>2. ASSUME NEW s \in Seq(Namesakes(n))
      PROVE  s \in Seq(Players)
  BY <1>1
<1> QED
  BY <1>1, <1>2

(* The players with a name, in the list's order. *)
LEMMA NamedAre ==
  ASSUME NEW list \in Seq(Players), NEW n \in Names
  PROVE  /\ Named(list, n) \in Seq(Namesakes(n)) /\ Len(Named(list, n)) = CountOf(list, n)
         /\ \A k \in 1..Len(Named(list, n)) : \E i \in Carriers(list, n) : Named(list, n)[k] = list[i]
<1>1. Carriers(list, n) \in SUBSET (DOMAIN list)
  BY DEF Carriers
<1>2. /\ Len(Entries(list, Carriers(list, n))) = Cardinality(Carriers(list, n))
      /\ Cardinality(Carriers(list, n)) \in Nat
      /\ \A k \in 1..Cardinality(Carriers(list, n)) :
           /\ Nth(Carriers(list, n), k) \in Carriers(list, n)
           /\ Entries(list, Carriers(list, n))[k] = list[Nth(Carriers(list, n), k)]
  BY <1>1, EntriesAre
<1> DEFINE es == Entries(list, Carriers(list, n))
           count == Cardinality(Carriers(list, n))
<1>3. \A k \in 1..count : \E i \in Carriers(list, n) : es[k] = list[i]
  BY <1>2
<1>4. \A i \in Carriers(list, n) : list[i] \in Namesakes(n)
  <2> SUFFICES ASSUME NEW i \in Carriers(list, n) PROVE list[i] \in Namesakes(n)
    OBVIOUS
  <2>1. list[i] \in Players /\ list[i].name = n
    BY ElementsAre DEF Carriers
  <2> QED
    BY <2>1 DEF Players, Namesakes
<1>5. es \in [1..count -> Namesakes(n)]
  <2>1. \A k \in 1..count : es[k] \in Namesakes(n)
    BY <1>3, <1>4
  <2>2. es = [k \in 1..count |-> es[k]]
    BY DEF Entries
  <2> HIDE DEF es, count
  <2> QED
    BY <2>1, <2>2
<1>6. es \in Seq(Namesakes(n))
  <2> HIDE DEF es
  <2> QED
    BY <1>2, <1>5
<1> QED
  BY <1>2, <1>3, <1>6 DEF Named, CountOf

(* The part of one name counts for that name alone. *)
CountsFor(d, old, new, n) ==
  /\ CountOf(d.kept, n) + CountOf(d.left, n) = CountOf(old, n)
  /\ CountOf(d.kept, n) + CountOf(d.joined, n) = CountOf(new, n)
  /\ \A m : m # n => CountOf(d.kept, m) = 0 /\ CountOf(d.left, m) = 0 /\ CountOf(d.joined, m) = 0

(* How often any name occurs in one name's part. *)
LEMMA PartCounts ==
  ASSUME NEW old \in Seq(Players), NEW new \in Seq(Players), NEW n \in Names
  PROVE  PartFor(old, new, n) \in Parts /\ CountsFor(PartFor(old, new, n), old, new, n)
<1> PICK d : d = PartFor(old, new, n)
  OBVIOUS
<1>1. /\ Named(old, n) \in Seq(Namesakes(n)) /\ Len(Named(old, n)) = CountOf(old, n)
      /\ Named(new, n) \in Seq(Namesakes(n)) /\ Len(Named(new, n)) = CountOf(new, n)
  BY NamedAre
<1>2. Differing(d, Namesakes(n), Named(old, n), Named(new, n))
  <2>1. Timed(Namesakes(n))
    BY NamesakesArePlayers
  <2>2. Differing(PartOf(MatchUp(Named(old, n), Named(new, n))), Namesakes(n), Named(old, n), Named(new, n))
    BY <1>1, <2>1, PartIs
  <2> QED
    BY <2>2 DEF PartFor
<1>3. /\ d \in [left : Seq(Namesakes(n)), joined : Seq(Namesakes(n)), kept : Seq(Namesakes(n)), moved : Nat, pairs : Nat]
      /\ Len(d.kept) + Len(d.left) = CountOf(old, n)
      /\ Len(d.kept) + Len(d.joined) = CountOf(new, n)
  BY <1>1, <1>2 DEF Differing
<1>4. d \in Parts
  BY <1>3, NamesakesArePlayers DEF Parts
<1>5. d.left \in Seq(Namesakes(n)) /\ d.joined \in Seq(Namesakes(n)) /\ d.kept \in Seq(Namesakes(n))
  BY <1>3
<1>6. \A p \in Namesakes(n) : p.name = n
  BY NamesakesArePlayers
<1>7. \A s \in Seq(Namesakes(n)) : CountOf(s, n) = Len(s) /\ \A m : m # n => CountOf(s, m) = 0
  BY <1>6, OneName
<1>8. CountsFor(d, old, new, n)
  BY <1>3, <1>5, <1>7 DEF CountsFor
<1> QED
  BY <1>4, <1>8

Sums(j, a, d) ==
  \A m : /\ CountOf(j.left, m) = CountOf(a.left, m) + CountOf(d.left, m)
         /\ CountOf(j.joined, m) = CountOf(a.joined, m) + CountOf(d.joined, m)
         /\ CountOf(j.kept, m) = CountOf(a.kept, m) + CountOf(d.kept, m)

(* The parts of two names, one after the other, count as both. *)
LEMMA JoinedIs ==
  ASSUME NEW a \in Parts, NEW d \in Parts
  PROVE  /\ Joined(a, d) \in Parts
         /\ Joined(a, d).left = a.left \o d.left
         /\ Joined(a, d).joined = a.joined \o d.joined
         /\ Joined(a, d).kept = a.kept \o d.kept
         /\ Sums(Joined(a, d), a, d)
<1> DEFINE j == Joined(a, d)
<1>1. j = [left |-> a.left \o d.left, joined |-> a.joined \o d.joined, kept |-> a.kept \o d.kept,
           moved |-> a.moved + d.moved, pairs |-> a.pairs + d.pairs]
  BY DEF Joined
<1>2. /\ a.left \in Seq(Players) /\ a.joined \in Seq(Players) /\ a.kept \in Seq(Players)
      /\ d.left \in Seq(Players) /\ d.joined \in Seq(Players) /\ d.kept \in Seq(Players)
      /\ a.moved \in Nat /\ d.moved \in Nat /\ a.pairs \in Nat /\ d.pairs \in Nat
  BY DEF Parts
<1>3. /\ a.left \o d.left \in Seq(Players) /\ a.joined \o d.joined \in Seq(Players)
      /\ a.kept \o d.kept \in Seq(Players) /\ a.moved + d.moved \in Nat /\ a.pairs + d.pairs \in Nat
  BY <1>2
<1> HIDE DEF j
<1>4. j \in Parts
  BY <1>1, <1>3 DEF Parts
<1>5. j.left = a.left \o d.left /\ j.joined = a.joined \o d.joined /\ j.kept = a.kept \o d.kept
  BY <1>1
<1>6. \A m : /\ CountOf(a.left \o d.left, m) = CountOf(a.left, m) + CountOf(d.left, m)
             /\ CountOf(a.joined \o d.joined, m) = CountOf(a.joined, m) + CountOf(d.joined, m)
             /\ CountOf(a.kept \o d.kept, m) = CountOf(a.kept, m) + CountOf(d.kept, m)
  BY <1>2, CountJoin
<1>7. Sums(j, a, d)
  BY <1>5, <1>6 DEF Sums
<1> QED
  BY <1>4, <1>5, <1>7 DEF j

(* Name after name, in the order of their ranks. *)
NameAfterName(u, old, new) ==
  /\ u \in [0..Cardinality(Names) -> Parts]
  /\ u[0] = Nothing
  /\ \A k \in 1..Cardinality(Names) : u[k] = Joined(u[k - 1], PartFor(old, new, Nth(Names, k)))

(* Every name has its turn, and only one. *)
LEMMA NamesAreRanked ==
  /\ Cardinality(Names) \in Nat
  /\ \A k \in 1..Cardinality(Names) : Nth(Names, k) \in Names /\ Rank(Names, Nth(Names, k)) = k
  /\ \A n \in Names : Rank(Names, n) \in 1..Cardinality(Names) /\ Nth(Names, Rank(Names, n)) = n
<1>1. Names \in SUBSET Int /\ IsFiniteSet(Names)
  BY DiffAssumption
<1> QED
  BY <1>1, NthFinds, FS_CardinalityType

(* The difference up to a name is one part after another. *)
LEMMA UpToIs ==
  ASSUME NEW old \in Seq(Players), NEW new \in Seq(Players)
  PROVE  NameAfterName(UpTo(old, new), old, new)
<1> DEFINE count == Cardinality(Names)
           part == [k \in 1..count |-> PartFor(old, new, Nth(Names, k))]
           step == [k \in 1..count |-> [a \in Parts |-> Joined(a, part[k])]]
           body(f) == [k \in 0..count |-> IF k = 0 THEN Nothing ELSE Joined(f[k - 1], part[k])]
<1>1. count \in Nat /\ \A k \in 1..count : Nth(Names, k) \in Names
  BY NamesAreRanked
<1>2. \A k \in 1..count : part[k] \in Parts
  <2>1. \A n \in Names : PartFor(old, new, n) \in Parts
    BY PartCounts
  <2> QED
    BY <1>1, <2>1
<1>3. Nothing \in Parts
  BY DEF Nothing, Parts
<1>4. step \in [1..count -> [Parts -> Parts]]
  <2> HIDE DEF part, count
  <2>1. \A k \in 1..count : \A a \in Parts : Joined(a, part[k]) \in Parts
    BY <1>2, JoinedIs
  <2> QED
    BY <2>1
<1>5. \E f : Recursive(f, count, Parts, Nothing, step)
  <2> HIDE DEF count, step
  <2> QED
    BY <1>1, <1>3, <1>4, Recursion
<1>6. PICK f \in [0..count -> Parts] : f[0] = Nothing /\ \A k \in 1..count : f[k] = step[k][f[k - 1]]
  BY <1>5 DEF Recursive
<1>7. f = body(f)
  <2>1. \A k \in 1..count : k - 1 \in 0..count
    BY <1>1
  <2>2. \A k \in 1..count : f[k - 1] \in Parts
    BY <1>6, <2>1
  <2> HIDE DEF part
  <2>3. \A k \in 1..count : step[k][f[k - 1]] = Joined(f[k - 1], part[k])
    BY <2>2
  <2>4. \A k \in 0..count : k = 0 \/ k \in 1..count
    BY <1>1
  <2> HIDE DEF step, count
  <2> QED
    BY <1>6, <2>3, <2>4
<1> DEFINE u == UpTo(old, new)
<1>8. u = body(u)
  <2> DEFINE plain(g) == [k \in 0..count |-> IF k = 0 THEN Nothing
                ELSE Joined(g[k - 1], PartOf(MatchUp(Named(old, Nth(Names, k)), Named(new, Nth(Names, k)))))]
  <2>1. \A g : plain(g) = body(g)
    <3>1. \A k \in 0..count : k # 0 => part[k] = PartOf(MatchUp(Named(old, Nth(Names, k)), Named(new, Nth(Names, k))))
      BY <1>1 DEF PartFor
    <3> HIDE DEF part, count
    <3> QED
      BY <3>1
  <2>2. f = plain(f)
    BY <1>7, <2>1
  <2>3. u = plain(u)
    <3> HIDE DEF part
    <3> QED
      BY <2>2 DEF UpTo
  <2> HIDE DEF u, plain, body
  <2> QED
    BY <2>1, <2>3
<1>9. u[0] = Nothing /\ \A k \in 1..count : u[k] = Joined(u[k - 1], part[k])
  <2>1. 0 \in 0..count /\ \A k \in 1..count : k \in 0..count /\ k # 0
    BY <1>1
  <2> HIDE DEF u, count, part
  <2> QED
    BY <1>8, <2>1
<1>10. \A k \in 0..count : u[k] \in Parts
  <2> DEFINE holds == {k \in 0..count : u[k] \in Parts}
  <2>1. 0 \in holds
    BY <1>1, <1>3, <1>9
  <2>2. \A k \in 1..count : k - 1 \in holds => k \in holds
    <3>1. \A k \in 1..count : k \in 0..count
      BY <1>1
    <3> HIDE DEF u, count, part
    <3>2. \A k \in 1..count : u[k - 1] \in Parts => Joined(u[k - 1], part[k]) \in Parts
      BY <1>2, JoinedIs
    <3> QED
      BY <1>9, <3>1, <3>2
  <2>3. \A k \in 0..count : k \in holds
    <3> HIDE DEF holds, count
    <3> QED
      BY <1>1, <2>1, <2>2, Climb
  <2> QED
    BY <2>3
<1>11. u \in [0..count -> Parts]
  <2> HIDE DEF u, count, part
  <2> QED
    BY <1>8, <1>10
<1>12. \A k \in 1..count : part[k] = PartFor(old, new, Nth(Names, k))
  OBVIOUS
<1> HIDE DEF u, part
<1>13. NameAfterName(u, old, new)
  BY <1>9, <1>11, <1>12 DEF NameAfterName
<1> QED
  BY <1>13 DEF u

(* The lists balance, for one name. *)
Balanced(d, old, new, n) ==
  /\ CountOf(d.kept, n) + CountOf(d.left, n) = CountOf(old, n)
  /\ CountOf(d.kept, n) + CountOf(d.joined, n) = CountOf(new, n)

Untouched(d, n) == CountOf(d.kept, n) = 0 /\ CountOf(d.left, n) = 0 /\ CountOf(d.joined, n) = 0

(* A name's part balances it, and the other names' parts leave it alone. *)
LEMMA PartBalances ==
  ASSUME NEW old \in Seq(Players), NEW new \in Seq(Players),
         NEW a \in Parts, NEW n \in Names, NEW m \in Names,
         NEW b, b = Joined(a, PartFor(old, new, m))
  PROVE  /\ n = m /\ Untouched(a, n) => Balanced(b, old, new, n)
         /\ n # m /\ Untouched(a, n) => Untouched(b, n)
         /\ n # m /\ Balanced(a, old, new, n) => Balanced(b, old, new, n)
<1> PICK d : d = PartFor(old, new, m)
  OBVIOUS
<1>1. d \in Parts /\ CountsFor(d, old, new, m)
  BY PartCounts
<1>2. /\ CountOf(b.left, n) = CountOf(a.left, n) + CountOf(d.left, n)
      /\ CountOf(b.joined, n) = CountOf(a.joined, n) + CountOf(d.joined, n)
      /\ CountOf(b.kept, n) = CountOf(a.kept, n) + CountOf(d.kept, n)
  <2>1. Sums(Joined(a, d), a, d)
    BY <1>1, JoinedIs
  <2>2. Sums(b, a, d)
    BY <2>1
  <2> QED
    BY <2>2 DEF Sums
<1>3. /\ CountOf(a.left, n) \in Nat /\ CountOf(a.joined, n) \in Nat /\ CountOf(a.kept, n) \in Nat
      /\ CountOf(d.left, n) \in Nat /\ CountOf(d.joined, n) \in Nat /\ CountOf(d.kept, n) \in Nat
  <2>1. \A s \in Seq(Players) : CountOf(s, n) \in Nat
    BY CarriersAre
  <2> QED
    BY <1>1, <2>1 DEF Parts
<1> DEFINE al == CountOf(a.left, n)
           aj == CountOf(a.joined, n)
           ak == CountOf(a.kept, n)
           dl == CountOf(d.left, n)
           dj == CountOf(d.joined, n)
           dk == CountOf(d.kept, n)
<1>4. /\ CountOf(b.left, n) = al + dl /\ CountOf(b.joined, n) = aj + dj /\ CountOf(b.kept, n) = ak + dk
      /\ al \in Nat /\ aj \in Nat /\ ak \in Nat /\ dl \in Nat /\ dj \in Nat /\ dk \in Nat
  BY <1>2, <1>3
<1>5. /\ n = m => dk + dl = CountOf(old, n) /\ dk + dj = CountOf(new, n)
      /\ n # m => dk = 0 /\ dl = 0 /\ dj = 0
  BY <1>1 DEF CountsFor
<1>6. /\ Untouched(a, n) <=> ak = 0 /\ al = 0 /\ aj = 0
      /\ Balanced(a, old, new, n) <=> ak + al = CountOf(old, n) /\ ak + aj = CountOf(new, n)
  BY DEF Untouched, Balanced
<1> HIDE DEF al, aj, ak, dl, dj, dk
<1>7. ASSUME n = m, Untouched(a, n)
      PROVE  Balanced(b, old, new, n)
  <2>1. CountOf(b.left, n) = dl /\ CountOf(b.joined, n) = dj /\ CountOf(b.kept, n) = dk
    BY <1>4, <1>6, <1>7
  <2> QED
    BY <1>5, <1>7, <2>1 DEF Balanced
<1>8. ASSUME n # m
      PROVE  CountOf(b.left, n) = al /\ CountOf(b.joined, n) = aj /\ CountOf(b.kept, n) = ak
  BY <1>4, <1>5, <1>8
<1>9. n # m /\ Untouched(a, n) => Untouched(b, n)
  BY <1>6, <1>8 DEF Untouched
<1>10. n # m /\ Balanced(a, old, new, n) => Balanced(b, old, new, n)
  BY <1>6, <1>8 DEF Balanced
<1> QED
  BY <1>7, <1>9, <1>10

(* Once a name had its turn it balances, and nothing after it touches it. *)
LEMMA UpToBalances ==
  ASSUME NEW old \in Seq(Players), NEW new \in Seq(Players), NEW u, NameAfterName(u, old, new)
  PROVE  \A n \in Names : Balanced(u[Cardinality(Names)], old, new, n)
<1> DEFINE count == Cardinality(Names)
           fits(k) == \A n \in Names : IF Rank(Names, n) <= k THEN Balanced(u[k], old, new, n)
                                                            ELSE Untouched(u[k], n)
           holds == {k \in 0..count : fits(k)}
<1>1. /\ count \in Nat
      /\ \A k \in 1..count : Nth(Names, k) \in Names /\ Rank(Names, Nth(Names, k)) = k
      /\ \A n \in Names : Rank(Names, n) \in 1..count /\ Nth(Names, Rank(Names, n)) = n
  BY NamesAreRanked
<1>2. /\ u \in [0..count -> Parts] /\ u[0] = Nothing
      /\ \A k \in 1..count : u[k] = Joined(u[k - 1], PartFor(old, new, Nth(Names, k)))
  BY DEF NameAfterName
<1>3. 0 \in holds
  <2>1. \A n \in Names : Untouched(u[0], n)
    BY <1>2, NobodyCounts DEF Untouched, Nothing
  <2>2. \A n \in Names : ~(Rank(Names, n) <= 0)
    BY <1>1
  <2> QED
    BY <1>1, <2>1, <2>2
<1>4. ASSUME NEW k \in 1..count, k - 1 \in holds
      PROVE  k \in holds
  <2>1. k \in 0..count /\ k - 1 \in 0..count /\ fits(k - 1)
    BY <1>1, <1>4
  <2> DEFINE m == Nth(Names, k)
  <2>2. m \in Names /\ Rank(Names, m) = k
    BY <1>1
  <2>3. u[k - 1] \in Parts /\ u[k] = Joined(u[k - 1], PartFor(old, new, m))
    BY <1>2, <2>1
  <2> HIDE DEF m
  <2>4. ASSUME NEW n \in Names
        PROVE  IF Rank(Names, n) <= k THEN Balanced(u[k], old, new, n) ELSE Untouched(u[k], n)
    <3>0. IF Rank(Names, n) <= k - 1 THEN Balanced(u[k - 1], old, new, n) ELSE Untouched(u[k - 1], n)
      BY <2>1
    <3>1. Rank(Names, n) \in Int /\ k \in Int
      BY <1>1
    <3>2. n = m <=> Rank(Names, n) = k
      BY <1>1, <2>2
    <3>3. /\ n = m /\ Untouched(u[k - 1], n) => Balanced(u[k], old, new, n)
          /\ n # m /\ Untouched(u[k - 1], n) => Untouched(u[k], n)
          /\ n # m /\ Balanced(u[k - 1], old, new, n) => Balanced(u[k], old, new, n)
      BY <2>2, <2>3, PartBalances
    <3>4. /\ Rank(Names, n) = k => ~(Rank(Names, n) <= k - 1) /\ Rank(Names, n) <= k
          /\ Rank(Names, n) # k => (Rank(Names, n) <= k - 1 <=> Rank(Names, n) <= k)
      BY <3>1
    <3> QED
      BY <3>0, <3>2, <3>3, <3>4, Zenon
  <2> QED
    BY <2>1, <2>4
<1>5. fits(count)
  <2> HIDE DEF holds
  <2>1. \A k \in 0..count : k \in holds
    BY <1>1, <1>3, <1>4, Climb
  <2>2. count \in 0..count
    BY <1>1
  <2> QED
    BY <2>1, <2>2 DEF holds
<1> QED
  BY <1>1, <1>5

(* What diff_players returns. *)
Difference(d, old, new) ==
  /\ d.left \in Seq(Players) /\ d.joined \in Seq(Players) /\ d.kept \in Seq(Players)
  /\ d.drifted \in BOOLEAN
  /\ \A n \in Names : Balanced(d, old, new, n)

(* By name, who stays and who left make up the old list, who stays and who *)
(* joined the new one (diff_players, slot_watch.rs).                       *)
LEMMA DiffBalances ==
  ASSUME NEW old \in Seq(Players), NEW new \in Seq(Players)
  PROVE  Difference(Diff(old, new), old, new)
<1> PICK u : u = UpTo(old, new)
  OBVIOUS
<1> DEFINE last == u[Cardinality(Names)]
           d == Diff(old, new)
<1>1. NameAfterName(u, old, new)
  BY UpToIs
<1>2. \A n \in Names : Balanced(last, old, new, n)
  BY <1>1, UpToBalances
<1>3. last \in Parts
  BY <1>1, NamesAreRanked DEF NameAfterName
<1>4. d = Judged(last)
  BY DEF Diff
<1> HIDE DEF last, d
<1>5. d.left = last.left /\ d.joined = last.joined /\ d.kept = last.kept /\ d.drifted \in BOOLEAN
  BY <1>4 DEF Judged
<1>6. Difference(d, old, new)
  BY <1>2, <1>3, <1>5 DEF Difference, Balanced, Parts
<1> QED
  BY <1>6 DEF d

-----------------------------------------------------------------------------
(* Players alone with their name *)

(* Of one player on each list: they are the same, or told apart by time. *)
LEMMA SolePair ==
  ASSUME NEW T, Timed(T), NEW olds \in Seq(T), NEW news \in Seq(T), Len(olds) = 1, Len(news) = 1,
         NEW d, d = PartOf(MatchUp(olds, news)), Len(d.left) # 0
  PROVE  \A i \in DOMAIN d.joined : Gap(olds[1], d.joined[i]) > Drift
<1> PICK m : m = MatchUp(olds, news)
  OBVIOUS
<1> PICK r : r = PairUp(olds, news)
  OBVIOUS
<1>1. /\ r.pairs \in Seq(T \X T) /\ Len(r.pairs) = 1
      /\ r.free \in SUBSET (DOMAIN news) /\ Cardinality(r.free) = 0
      /\ \A k \in 1..Len(olds) : r.pairs[k][1] = olds[k]
  <2>1. Pairing(PairUp(olds, news), T, olds, news)
    BY PairUpIs
  <2> QED
    BY <2>1 DEF Pairing
<1>2. m.pairs = r.pairs /\ m.gone = <<>> /\ m.new = Entries(news, r.free)
  BY DEF MatchUp, Grown
<1>3. m.new = <<>>
  <2>1. m.new \in Seq(T) /\ Len(m.new) = 0
    BY <1>1, <1>2, EntriesAre
  <2> QED
    BY <2>1
<1> DEFINE pairs == r.pairs
           far == {k \in DOMAIN pairs : Gap(pairs[k][1], pairs[k][2]) > Drift}
           apart == Entries(pairs, far)
           was == [i \in DOMAIN apart |-> apart[i][1]]
           now == [i \in DOMAIN apart |-> apart[i][2]]
<1>4. d.left = was \o <<>> /\ d.joined = now \o <<>>
  BY <1>2, <1>3 DEF PartOf, Part, Parted
<1>5. pairs \in Seq(T \X T) /\ Len(pairs) = 1 /\ pairs[1][1] = olds[1]
  BY <1>1
<1> HIDE DEF pairs
<1>6. far \in SUBSET (DOMAIN pairs) /\ \A k \in far : k = 1 /\ Gap(pairs[k][1], pairs[k][2]) > Drift
  BY <1>5
<1> HIDE DEF far
<1>7. /\ apart \in Seq(T \X T)
      /\ \A k \in DOMAIN apart : Nth(far, k) \in far /\ apart[k] = pairs[Nth(far, k)]
  BY <1>5, <1>6, EntriesAre
<1>8. \A k \in DOMAIN apart : apart[k] = pairs[1] /\ Gap(pairs[1][1], pairs[1][2]) > Drift
  BY <1>6, <1>7
<1> HIDE DEF apart
<1>9. now \in Seq(T) /\ DOMAIN now = DOMAIN apart
  BY <1>7, SideIs
<1>10. \A k \in DOMAIN now : now[k] = pairs[1][2] /\ Gap(pairs[1][1], pairs[1][2]) > Drift
  BY <1>8, <1>9
<1> HIDE DEF now, was
<1>11. d.joined = now
  BY <1>4, <1>9
<1> QED
  BY <1>5, <1>10, <1>11

(* A name that counts for nothing stands nowhere. *)
LEMMA NoCarrier ==
  ASSUME NEW list \in Seq(Players), NEW n, CountOf(list, n) = 0
  PROVE  \A i \in DOMAIN list : list[i].name # n
<1> SUFFICES ASSUME NEW i \in DOMAIN list, list[i].name = n
             PROVE  FALSE
  OBVIOUS
<1>1. i \in Carriers(list, n) /\ IsFiniteSet(Carriers(list, n)) /\ Cardinality(Carriers(list, n)) = 0
  BY CarriersAre DEF Carriers, CountOf
<1> QED
  BY <1>1, FS_EmptySet

(* Told apart: whoever joined under a name is not the one who had it. *)
ToldApart(d, old, n) ==
  CountOf(d.left, n) # 0 =>
    \A i \in DOMAIN d.joined, p \in Carriers(old, n) :
      d.joined[i].name = n => Gap(old[p], d.joined[i]) > Drift

(* In one name's part, a sole player who left and the sole one who joined *)
(* are apart in time.                                                     *)
LEMMA PartIsApart ==
  ASSUME NEW old \in Seq(Players), NEW new \in Seq(Players), NEW n \in Names,
         CountOf(old, n) = 1, CountOf(new, n) = 1, NEW d, d = PartFor(old, new, n)
  PROVE  ToldApart(d, old, n)
<1> DEFINE olds == Named(old, n)
           news == Named(new, n)
<1>1. /\ olds \in Seq(Namesakes(n)) /\ Len(olds) = 1
      /\ news \in Seq(Namesakes(n)) /\ Len(news) = 1
      /\ \A k \in 1..Len(olds) : \E i \in Carriers(old, n) : olds[k] = old[i]
  BY NamedAre
<1>2. Timed(Namesakes(n))
  BY NamesakesArePlayers
<1>3. d \in Parts /\ d = PartOf(MatchUp(olds, news))
  BY PartCounts DEF PartFor
<1>4. \A p \in Carriers(old, n) : olds[1] = old[p]
  <2>1. PICK i \in Carriers(old, n) : olds[1] = old[i]
    BY <1>1
  <2>2. \A p \in Carriers(old, n) : p = i
    <3>1. IsFiniteSet(Carriers(old, n)) /\ Cardinality(Carriers(old, n)) = 1
      BY CarriersAre DEF CountOf
    <3>2. PICK x : Carriers(old, n) = {x}
      BY <3>1, FS_Singleton
    <3> QED
      BY <3>2
  <2> QED
    BY <2>1, <2>2
<1> HIDE DEF olds, news
<1>5. ASSUME CountOf(d.left, n) # 0
      PROVE  \A i \in DOMAIN d.joined : Gap(olds[1], d.joined[i]) > Drift
  <2>1. Len(d.left) # 0
    <3>1. d.left \in Seq(Players)
      BY <1>3 DEF Parts
    <3>2. Len(d.left) = 0 => d.left = <<>>
      BY <3>1
    <3> QED
      BY <1>5, <3>2, NobodyCounts
  <2> QED
    BY <1>1, <1>2, <1>3, <2>1, SolePair
<1> QED
  BY <1>4, <1>5 DEF ToldApart

(* That stays so when other names have their turn. *)
LEMMA ApartAfterName ==
  ASSUME NEW old \in Seq(Players), NEW new \in Seq(Players), NEW n \in Names,
         CountOf(old, n) = 1, CountOf(new, n) = 1,
         NEW a \in Parts, NEW m \in Names, NEW b, b = Joined(a, PartFor(old, new, m))
  PROVE  /\ n = m /\ Untouched(a, n) => ToldApart(b, old, n)
         /\ n # m /\ ToldApart(a, old, n) => ToldApart(b, old, n)
<1> PICK d : d = PartFor(old, new, m)
  OBVIOUS
<1>1. d \in Parts /\ CountsFor(d, old, new, m)
  BY PartCounts
<1>2. /\ CountOf(b.left, n) = CountOf(a.left, n) + CountOf(d.left, n)
      /\ b.joined = a.joined \o d.joined
  <2>1. Sums(Joined(a, d), a, d) /\ Joined(a, d).joined = a.joined \o d.joined
    BY <1>1, JoinedIs
  <2>2. Sums(b, a, d)
    BY <2>1
  <2> QED
    BY <2>1, <2>2 DEF Sums
<1> DEFINE aj == a.joined
           dj == d.joined
           bj == b.joined
<1>3. aj \in Seq(Players) /\ dj \in Seq(Players) /\ bj = aj \o dj /\ a.left \in Seq(Players) /\ d.left \in Seq(Players)
  BY <1>1, <1>2 DEF Parts
<1>4. CountOf(a.left, n) \in Nat /\ CountOf(d.left, n) \in Nat
  BY <1>3, CarriersAre
<1> HIDE DEF aj, dj, bj
<1>5. \A i \in DOMAIN bj : (\E j \in DOMAIN aj : bj[i] = aj[j]) \/ (\E j \in DOMAIN dj : bj[i] = dj[j])
  <2> SUFFICES ASSUME NEW i \in DOMAIN bj
               PROVE  (\E j \in DOMAIN aj : bj[i] = aj[j]) \/ (\E j \in DOMAIN dj : bj[i] = dj[j])
    OBVIOUS
  <2>1. CASE i <= Len(aj)
    <3>1. i \in DOMAIN aj /\ bj[i] = aj[i]
      BY <1>3, <2>1
    <3> QED
      BY <3>1
  <2>2. CASE ~(i <= Len(aj))
    <3>1. i - Len(aj) \in DOMAIN dj /\ bj[i] = dj[i - Len(aj)]
      BY <1>3, <2>2
    <3> QED
      BY <3>1
  <2> QED
    BY <2>1, <2>2
<1>6. \A list \in Seq(Players) : CountOf(list, n) = 0 => \A i \in DOMAIN list : list[i].name # n
  BY NoCarrier
<1>7. ASSUME n = m, Untouched(a, n)
      PROVE  ToldApart(b, old, n)
  <2>1. ToldApart(d, old, n)
    BY <1>7, PartIsApart
  <2>2. CountOf(a.left, n) = 0 /\ CountOf(aj, n) = 0
    BY <1>7 DEF Untouched, aj
  <2>3. CountOf(b.left, n) = CountOf(d.left, n)
    BY <1>2, <1>4, <2>2
  <2>4. \A i \in DOMAIN aj : aj[i].name # n
    BY <1>3, <1>6, <2>2
  <2> QED
    BY <1>5, <2>1, <2>3, <2>4 DEF ToldApart, dj, bj
<1>8. ASSUME n # m, ToldApart(a, old, n)
      PROVE  ToldApart(b, old, n)
  <2>2. CountOf(d.left, n) = 0 /\ CountOf(dj, n) = 0
    BY <1>1, <1>8 DEF CountsFor, dj
  <2>3. CountOf(b.left, n) = CountOf(a.left, n)
    BY <1>2, <1>4, <2>2
  <2>4. \A i \in DOMAIN dj : dj[i].name # n
    BY <1>3, <1>6, <2>2
  <2> QED
    BY <1>5, <1>8, <2>3, <2>4 DEF ToldApart, aj, bj
<1> QED
  BY <1>7, <1>8

(* A player who left and one who joined under the same name, where it was and *)
(* is the only one, are told apart.                                          *)
LEMMA DiffIsApart ==
  ASSUME NEW old \in Seq(Players), NEW new \in Seq(Players), NEW n \in Names,
         CountOf(old, n) = 1, CountOf(new, n) = 1
  PROVE  ToldApart(Diff(old, new), old, n)
<1> PICK u : u = UpTo(old, new)
  OBVIOUS
<1> DEFINE count == Cardinality(Names)
           fits(k) == IF Rank(Names, n) <= k THEN ToldApart(u[k], old, n) ELSE Untouched(u[k], n)
           holds == {k \in 0..count : fits(k)}
<1>1. /\ count \in Nat
      /\ \A k \in 1..count : Nth(Names, k) \in Names /\ Rank(Names, Nth(Names, k)) = k
      /\ Rank(Names, n) \in 1..count /\ Nth(Names, Rank(Names, n)) = n
  BY NamesAreRanked
<1>2. /\ u \in [0..count -> Parts] /\ u[0] = Nothing
      /\ \A k \in 1..count : u[k] = Joined(u[k - 1], PartFor(old, new, Nth(Names, k)))
  BY UpToIs DEF NameAfterName
<1>3. 0 \in holds
  <2>1. Untouched(u[0], n)
    BY <1>2, NobodyCounts DEF Untouched, Nothing
  <2>2. ~(Rank(Names, n) <= 0)
    BY <1>1
  <2> QED
    BY <1>1, <2>1, <2>2
<1>4. ASSUME NEW k \in 1..count, k - 1 \in holds
      PROVE  k \in holds
  <2>1. k \in 0..count /\ k - 1 \in 0..count /\ fits(k - 1)
    BY <1>1, <1>4
  <2> DEFINE m == Nth(Names, k)
  <2>2. m \in Names /\ Rank(Names, m) = k
    BY <1>1
  <2>3. u[k - 1] \in Parts /\ u[k] = Joined(u[k - 1], PartFor(old, new, m))
    BY <1>2, <2>1
  <2>4. n = m <=> Rank(Names, n) = k
    BY <1>1, <2>2
  <2> HIDE DEF m
  <2>5. /\ n = m /\ Untouched(u[k - 1], n) => ToldApart(u[k], old, n)
        /\ n # m /\ ToldApart(u[k - 1], old, n) => ToldApart(u[k], old, n)
    BY <2>2, <2>3, ApartAfterName
  <2>6. n # m /\ Untouched(u[k - 1], n) => Untouched(u[k], n)
    BY <2>2, <2>3, PartBalances
  <2>7. Rank(Names, n) \in Int /\ k \in Int
    BY <1>1
  <2>8. /\ Rank(Names, n) = k => ~(Rank(Names, n) <= k - 1) /\ Rank(Names, n) <= k
        /\ Rank(Names, n) # k => (Rank(Names, n) <= k - 1 <=> Rank(Names, n) <= k)
    BY <2>7
  <2>9. IF Rank(Names, n) <= k - 1 THEN ToldApart(u[k - 1], old, n) ELSE Untouched(u[k - 1], n)
    BY <2>1
  <2>10. IF Rank(Names, n) <= k THEN ToldApart(u[k], old, n) ELSE Untouched(u[k], n)
    BY <2>4, <2>5, <2>6, <2>8, <2>9, Zenon
  <2> QED
    BY <2>1, <2>10
<1>5. ToldApart(u[count], old, n)
  <2> HIDE DEF holds
  <2>1. \A k \in 0..count : k \in holds
    BY <1>1, <1>3, <1>4, Climb
  <2>2. count \in 0..count /\ Rank(Names, n) <= count
    BY <1>1
  <2> QED
    BY <2>1, <2>2 DEF holds
<1>6. /\ Diff(old, new).left = u[count].left /\ Diff(old, new).joined = u[count].joined
  BY DEF Diff, Judged
<1> QED
  BY <1>5, <1>6 DEF ToldApart

-----------------------------------------------------------------------------
(* Counting entries of a kind *)

(* A kind counts in two complementary parts of a list as in the list. *)
LEMMA KindSplit ==
  ASSUME NEW T, NEW list \in Seq(T), NEW A \in SUBSET (DOMAIN list), NEW B \in SUBSET (DOMAIN list),
         A \intersect B = {}, A \union B = DOMAIN list, NEW S
  PROVE  CountIn(Entries(list, A), S) + CountIn(Entries(list, B), S) = CountIn(list, S)
<1> DEFINE a == {i \in A : list[i] \in S}
           b == {i \in B : list[i] \in S}
<1>1. CountIn(Entries(list, A), S) = Cardinality(a) /\ CountIn(Entries(list, B), S) = Cardinality(b)
  BY KindEntries
<1>2. Where(list, S) = a \union b /\ a \intersect b = {}
  BY DEF Where
<1>3. IsFiniteSet(Where(list, S))
  BY WhereIs
<1> HIDE DEF a, b
<1>4. IsFiniteSet(a) /\ IsFiniteSet(b)
  BY <1>2, <1>3, FS_Subset
<1> QED
  BY <1>1, <1>2, <1>4, DisjointCounts DEF CountIn

(* No entries, of whatever kind. *)
LEMMA KindOfNone ==
  ASSUME NEW S
  PROVE  CountIn(<<>>, S) = 0
<1>1. Where(<<>>, S) = {}
  BY DEF Where
<1> QED
  BY <1>1, FS_EmptySet DEF CountIn

(* Where entries are of corresponding kinds, the kinds count the same. *)
LEMMA KindsAgree ==
  ASSUME NEW S, NEW R, NEW T, NEW U, NEW a \in Seq(T), NEW b \in Seq(U), Len(a) = Len(b),
         \A i \in 1..Len(a) : a[i] \in S <=> b[i] \in R
  PROVE  CountIn(a, S) = CountIn(b, R)
<1>1. DOMAIN a = 1..Len(a) /\ DOMAIN b = 1..Len(a)
  OBVIOUS
<1>2. Where(a, S) = Where(b, R)
  BY <1>1 DEF Where
<1> QED
  BY <1>2 DEF CountIn

(* A kind that does not count has no entry, and one that counts has one. *)
LEMMA KindIsThere ==
  ASSUME NEW T, NEW list \in Seq(T), NEW S
  PROVE  CountIn(list, S) = 0 <=> \A i \in DOMAIN list : list[i] \notin S
<1>1. IsFiniteSet(Where(list, S))
  BY WhereIs
<1>2. CountIn(list, S) = 0 <=> Where(list, S) = {}
  BY <1>1, FS_EmptySet DEF CountIn
<1> QED
  BY <1>2 DEF Where

(* A list of none is empty. *)
LEMMA KindOfAll ==
  ASSUME NEW T, NEW list \in Seq(T), CountIn(list, T) = 0
  PROVE  list = <<>>
<1>1. \A i \in DOMAIN list : list[i] \notin T
  BY KindIsThere
<1>2. \A i \in DOMAIN list : list[i] \in T
  BY ElementsAre
<1> QED
  BY <1>1, <1>2

(* A kind that counts once is at one place. *)
LEMMA KindOfOne ==
  ASSUME NEW T, NEW list \in Seq(T), NEW S, CountIn(list, S) = 1
  PROVE  \E i \in DOMAIN list : Where(list, S) = {i}
<1>1. PICK i : Where(list, S) = {i}
  BY WhereIs, FS_Singleton DEF CountIn
<1> QED
  BY <1>1 DEF Where

(* A kind that is at one place at most counts so. *)
LEMMA KindAtMostOne ==
  ASSUME NEW T, NEW list \in Seq(T), NEW S
  PROVE  CountIn(list, S) <= 1 <=> \A i, j \in Where(list, S) : i = j
<1> DEFINE W == Where(list, S)
<1>1. IsFiniteSet(W) /\ Cardinality(W) \in Nat /\ CountIn(list, S) = Cardinality(W)
  BY WhereIs DEF CountIn
<1> HIDE DEF W
<1>2. ASSUME Cardinality(W) <= 1
      PROVE  \A i, j \in W : i = j
  <2>1. CASE Cardinality(W) = 0
    BY <1>1, <2>1, FS_EmptySet
  <2>2. CASE Cardinality(W) = 1
    <3>1. PICK x : W = {x}
      BY <1>1, <2>2, FS_Singleton
    <3> QED
      BY <3>1
  <2> QED
    BY <1>1, <1>2, <2>1, <2>2
<1>3. ASSUME \A i, j \in W : i = j
      PROVE  Cardinality(W) <= 1
  <2>1. CASE W = {}
    <3>1. Cardinality({}) = 0
      BY FS_EmptySet
    <3> QED
      BY <2>1, <3>1
  <2>2. CASE W # {}
    <3>1. PICK x \in W : TRUE
      BY <2>2
    <3>2. W = {x}
      BY <1>3, <3>1
    <3>3. Cardinality({x}) = 1
      BY FS_Singleton
    <3> QED
      BY <3>2, <3>3
  <2> QED
    BY <2>1, <2>2
<1> QED
  BY <1>1, <1>2, <1>3 DEF W

-----------------------------------------------------------------------------
(* Whom the pairing chooses *)

(* Each of the shorter side is paired with one of the longer, no two with the *)
(* same, and the rest is free.                                               *)
PairedBy(r, f, short, long) ==
  /\ f \in [1..Len(short) -> DOMAIN long]
  /\ \A j, k \in 1..Len(short) : f[j] = f[k] => j = k
  /\ r.pairs = [k \in 1..Len(short) |-> <<short[k], long[f[k]]>>]
  /\ r.free \in SUBSET (DOMAIN long)
  /\ \A i \in DOMAIN long : i \in r.free <=> \A k \in 1..Len(short) : f[k] # i

(* One entry of a set after another is taken. *)
OneByOne(free, S, f, n) == free[0] = S /\ \A k \in 1..n : free[k] = free[k - 1] \ {f[k]}

(* What is free after each turn is what was not taken before. *)
LEMMA FreeIsTheRest ==
  ASSUME NEW n \in Nat, NEW S, NEW free, NEW f, OneByOne(free, S, f, n)
  PROVE  \A k \in 0..n : \A i \in S : i \in free[k] <=> \A j \in 1..k : f[j] # i
<1> DEFINE rest(k) == \A i \in S : i \in free[k] <=> \A j \in 1..k : f[j] # i
           holds == {k \in 0..n : rest(k)}
<1>1. 0 \in holds
  <2>1. 0 \in 0..n /\ 1..0 = {} /\ free[0] = S
    BY DEF OneByOne
  <2> QED
    BY <2>1
<1>2. ASSUME NEW k \in 1..n, k - 1 \in holds
      PROVE  k \in holds
  <2>1. k \in 0..n /\ rest(k - 1)
    BY <1>2
  <2>2. \A j : j \in 1..k <=> j \in 1..(k - 1) \/ j = k
    OBVIOUS
  <2>3. free[k] = free[k - 1] \ {f[k]}
    BY DEF OneByOne
  <2>4. ASSUME NEW i \in S
        PROVE  i \in free[k] <=> \A j \in 1..k : f[j] # i
    <3>1. i \in free[k - 1] <=> \A j \in 1..(k - 1) : f[j] # i
      BY <2>1
    <3>2. i \in free[k] <=> i \in free[k - 1] /\ f[k] # i
      BY <2>3
    <3> QED
      BY <2>2, <3>1, <3>2
  <2> QED
    BY <2>1, <2>4
<1>3. \A k \in 0..n : k \in holds
  <2> HIDE DEF holds
  <2> QED
    BY <1>1, <1>2, Climb
<1> QED
  BY <1>3

(* A player is recognised in a longer list within some gap: it has an entry so *)
(* near, only one, and that one is nobody else's.                            *)
Recognised(short, long, g) ==
  /\ \A k \in DOMAIN short : \E i \in DOMAIN long : Gap(long[i], short[k]) <= g
  /\ \A k \in DOMAIN short, i, j \in DOMAIN long :
       Gap(long[i], short[k]) <= g /\ Gap(long[j], short[k]) <= g => i = j
  /\ \A j, k \in DOMAIN short, i \in DOMAIN long :
       Gap(long[i], short[j]) <= g /\ Gap(long[i], short[k]) <= g => j = k

(* The pairing takes the nearest of those left, so everybody recognisable is *)
(* recognised: its one entry is never taken before its turn.                 *)
LEMMA PairUpChooses ==
  ASSUME NEW T, Timed(T), NEW long \in Seq(T), NEW short \in Seq(T), Len(short) <= Len(long)
  PROVE  \E f : /\ PairedBy(PairUp(short, long), f, short, long)
                /\ \A g \in Nat : Recognised(short, long, g) =>
                     \A k \in 1..Len(short) : Gap(long[f[k]], short[k]) <= g
<1> DEFINE free == Free(short, long)
           n == Len(short)
           f == [k \in 1..n |-> Nearest(long, free[k - 1], short[k])]
           r == PairUp(short, long)
<1>1. /\ n \in Nat /\ n \in 0..n /\ DOMAIN short = 1..n /\ \A k \in 1..n : k - 1 \in 0..n
      /\ \A k \in 1..n : short[k] \in T
      /\ \A i \in DOMAIN long : long[i] \in T
  BY ElementsAre
<1>2. TakenInTurn(free, short, long)
  BY FreeIs
<1>3. r = [free |-> free[n], pairs |-> [k \in 1..n |-> <<short[k], long[Nearest(long, free[k - 1], short[k])]>>]]
  BY DEF PairUp
<1> HIDE DEF free, r
<1>4. /\ \A k \in 0..n : free[k] \in SUBSET (DOMAIN long)
      /\ \A k \in 1..n : f[k] \in free[k - 1]
  BY <1>2, FreeCounts
<1>5. /\ free[0] = DOMAIN long
      /\ \A k \in 1..n : free[k] = free[k - 1] \ {f[k]}
  BY <1>2 DEF TakenInTurn
<1>6. r.free = free[n] /\ r.pairs = [k \in 1..n |-> <<short[k], long[f[k]]>>]
  BY <1>3
<1>7. f \in [1..n -> DOMAIN long]
  BY <1>1, <1>4
<1>8. \A k \in 1..n : \A i \in free[k - 1] : Gap(long[f[k]], short[k]) <= Gap(long[i], short[k])
  <2> SUFFICES ASSUME NEW k \in 1..n
               PROVE  \A i \in free[k - 1] : Gap(long[f[k]], short[k]) <= Gap(long[i], short[k])
    OBVIOUS
  <2>1. /\ free[k - 1] \in SUBSET (DOMAIN long) /\ free[k - 1] # {} /\ short[k] \in T
        /\ f[k] = Nearest(long, free[k - 1], short[k])
    BY <1>1, <1>4
  <2> HIDE DEF f, n
  <2>2. \A i \in free[k - 1] :
          Gap(long[Nearest(long, free[k - 1], short[k])], short[k]) <= Gap(long[i], short[k])
    BY <2>1, NearestIsFree DEF Timed
  <2> QED
    BY <2>1, <2>2
<1> HIDE DEF f, n
<1>9. \A k \in 0..n : \A i \in DOMAIN long : i \in free[k] <=> \A j \in 1..k : f[j] # i
  <2>1. OneByOne(free, DOMAIN long, f, n)
    BY <1>5 DEF OneByOne
  <2> QED
    BY <1>1, <2>1, FreeIsTheRest
<1>10. ASSUME NEW j \in 1..n, NEW k \in 1..n, j < k
       PROVE  f[j] # f[k]
  <2>1. f[k] \in free[k - 1] /\ k - 1 \in 0..n /\ f[k] \in DOMAIN long
    BY <1>1, <1>4, <1>7
  <2>2. \A i \in 1..(k - 1) : f[i] # f[k]
    BY <1>9, <2>1
  <2>3. j \in 1..(k - 1)
    BY <1>1, <1>10
  <2> QED
    BY <2>2, <2>3
<1>11. \A j, k \in 1..n : f[j] = f[k] => j = k
  <2>1. \A j, k \in 1..n : j < k \/ k < j \/ j = k
    BY <1>1
  <2> QED
    BY <1>10, <2>1
<1>12. PairedBy(r, f, short, long)
  <2>1. r.free \in SUBSET (DOMAIN long)
    BY <1>1, <1>4, <1>6
  <2>2. \A i \in DOMAIN long : i \in r.free <=> \A k \in 1..n : f[k] # i
    BY <1>1, <1>6, <1>9
  <2> QED
    BY <1>6, <1>7, <1>11, <2>1, <2>2 DEF PairedBy, n
<1>13. ASSUME NEW g \in Nat, Recognised(short, long, g)
       PROVE  \A k \in 1..n : Gap(long[f[k]], short[k]) <= g
  <2> DEFINE near(k) == Gap(long[f[k]], short[k]) <= g
             holds == {k \in 0..n : \A j \in 1..k : near(j)}
  <2>1. 0 \in holds
    <3>1. 0 \in 0..n /\ 1..0 = {}
      BY <1>1
    <3> QED
      BY <3>1
  <2>2. ASSUME NEW k \in 1..n, k - 1 \in holds
        PROVE  k \in holds
    <3>1. PICK i \in DOMAIN long : Gap(long[i], short[k]) <= g
      BY <1>1, <1>13 DEF Recognised
    <3>2. k \in 0..n /\ k - 1 \in 0..n /\ \A j \in 1..(k - 1) : j \in 1..n /\ j # k
      BY <1>1
    <3>3. \A j \in 1..(k - 1) : near(j)
      BY <2>2
    <3>4. \A j \in 1..(k - 1) : f[j] # i
      <4> SUFFICES ASSUME NEW j \in 1..(k - 1), f[j] = i PROVE FALSE
        OBVIOUS
      <4>1. Gap(long[i], short[j]) <= g /\ j \in 1..n /\ j # k
        BY <3>2, <3>3
      <4> QED
        BY <1>1, <1>13, <3>1, <4>1 DEF Recognised
    <3>5. i \in free[k - 1]
      BY <1>9, <3>2, <3>4
    <3>6. Gap(long[f[k]], short[k]) <= Gap(long[i], short[k])
      BY <1>8, <3>5
    <3>7. Gap(long[f[k]], short[k]) \in Nat /\ Gap(long[i], short[k]) \in Nat
      <4>1. f[k] \in DOMAIN long
        BY <1>7
      <4> QED
        BY <1>1, <4>1, GapIsNatural DEF Timed
    <3>8. near(k)
      BY <3>1, <3>6, <3>7
    <3>9. \A j \in 1..k : j \in 1..(k - 1) \/ j = k
      BY <1>1
    <3> HIDE DEF near
    <3> QED
      BY <3>2, <3>3, <3>8, <3>9
  <2>3. \A k \in 0..n : k \in holds
    <3> HIDE DEF holds
    <3> QED
      BY <1>1, <2>1, <2>2, Climb
  <2> HIDE DEF near
  <2>4. n \in 0..n /\ \A j \in 1..n : near(j)
    BY <1>1, <2>3
  <2> QED
    BY <2>4 DEF near
<1>14. \A g \in Nat : Recognised(short, long, g) => \A k \in 1..Len(short) : Gap(long[f[k]], short[k]) <= g
  BY <1>13 DEF n
<1> QED
  BY <1>12, <1>14 DEF r

Side(pairs, s) == [i \in DOMAIN pairs |-> pairs[i][s]]

(* Of every kind, two lists have together what one has. *)
Shares(a, b, list) == \A S : CountIn(a, S) + CountIn(b, S) = CountIn(list, S)

(* A distance is the same both ways. *)
LEMMA GapIsMutual ==
  ASSUME NEW p, NEW q, p.since \in Int, q.since \in Int
  PROVE  Gap(p, q) = Gap(q, p)
BY DEF Gap

(* Entries of a list chosen one to one, and the places not chosen. *)
Choice(f, n, long, free) ==
  /\ f \in [1..n -> DOMAIN long]
  /\ \A j, k \in 1..n : f[j] = f[k] => j = k
  /\ free \in SUBSET (DOMAIN long)
  /\ \A i \in DOMAIN long : i \in free <=> \A k \in 1..n : f[k] # i

(* The entries chosen and those not chosen are the list. *)
LEMMA ChosenAndRest ==
  ASSUME NEW T, NEW long \in Seq(T), NEW n \in Nat, NEW f, NEW free, Choice(f, n, long, free),
         NEW side, side = [k \in 1..n |-> long[f[k]]]
  PROVE  Shares(side, Entries(long, free), long)
<1>0. /\ f \in [1..n -> DOMAIN long]
      /\ \A j, k \in 1..n : f[j] = f[k] => j = k
      /\ free \in SUBSET (DOMAIN long)
      /\ \A i \in DOMAIN long : i \in free <=> \A k \in 1..n : f[k] # i
  BY DEF Choice
<1> DEFINE taken == {i \in DOMAIN long : i \notin free}
<1> SUFFICES ASSUME NEW S
             PROVE  CountIn(side, S) + CountIn(Entries(long, free), S) = CountIn(long, S)
  BY DEF Shares
<1> DEFINE those == {i \in taken : long[i] \in S}
           g == [k \in Where(side, S) |-> f[k]]
<1>1. /\ side \in Seq(T) /\ DOMAIN side = 1..n
      /\ \A k \in 1..n : side[k] = long[f[k]] /\ f[k] \in DOMAIN long
  <2>1. \A k \in 1..n : long[f[k]] \in T /\ f[k] \in DOMAIN long
    BY <1>0, ElementsAre
  <2>2. side \in [1..n -> T]
    BY <2>1
  <2> QED
    BY <2>1, <2>2
<1>2. IsFiniteSet(Where(side, S))
  BY <1>1, WhereIs
<1>a. \A k : k \in Where(side, S) <=> k \in 1..n /\ side[k] \in S
  BY <1>1 DEF Where
<1>3. Cardinality(those) = Cardinality(Where(side, S))
  <2>1. g \in [Where(side, S) -> those]
    <3>1. \A k \in Where(side, S) : f[k] \in those
      BY <1>0, <1>1, <1>a
    <3> QED
      BY <3>1
  <2>2. \A j, k \in Where(side, S) : g[j] = g[k] => j = k
    BY <1>0, <1>a
  <2>3. ASSUME NEW i \in those
        PROVE  \E k \in Where(side, S) : g[k] = i
    <3>1. PICK k \in 1..n : f[k] = i
      BY <1>0
    <3>2. k \in Where(side, S)
      BY <1>1, <1>a, <3>1
    <3> QED
      BY <3>1, <3>2
  <2> HIDE DEF g, those
  <2> QED
    BY <1>2, <2>1, <2>2, <2>3, OneToOne
<1>4. taken \in SUBSET (DOMAIN long) /\ taken \intersect free = {} /\ taken \union free = DOMAIN long
      /\ free \in SUBSET (DOMAIN long)
  BY <1>0
<1> HIDE DEF taken
<1>5. CountIn(Entries(long, taken), S) = Cardinality(those)
  BY <1>4, KindEntries
<1>6. CountIn(Entries(long, taken), S) + CountIn(Entries(long, free), S) = CountIn(long, S)
  BY <1>4, KindSplit
<1> HIDE DEF those
<1> QED
  BY <1>3, <1>5, <1>6 DEF CountIn

(* Either side of the pairs, and the rest of the longer list. *)
LEMMA PairUpCounts ==
  ASSUME NEW T, Timed(T), NEW long \in Seq(T), NEW short \in Seq(T), Len(short) <= Len(long),
         NEW r, r = PairUp(short, long)
  PROVE  /\ Side(r.pairs, 1) = short
         /\ Shares(Side(r.pairs, 2), Entries(long, r.free), long)
         /\ r.free \in SUBSET (DOMAIN long)
         /\ \A g \in Nat : Recognised(short, long, g) =>
              \A k \in DOMAIN r.pairs : Gap(r.pairs[k][1], r.pairs[k][2]) <= g
<1> DEFINE n == Len(short)
<1>1. PICK f : /\ PairedBy(r, f, short, long)
               /\ \A g \in Nat : Recognised(short, long, g) => \A k \in 1..n : Gap(long[f[k]], short[k]) <= g
  BY PairUpChooses
<1>2. n \in Nat /\ DOMAIN short = 1..n /\ short = [k \in 1..n |-> short[k]]
  OBVIOUS
<1>3. /\ f \in [1..n -> DOMAIN long]
      /\ \A j, k \in 1..n : f[j] = f[k] => j = k
      /\ r.pairs = [k \in 1..n |-> <<short[k], long[f[k]]>>]
      /\ r.free \in SUBSET (DOMAIN long)
      /\ \A i \in DOMAIN long : i \in r.free <=> \A k \in 1..n : f[k] # i
  BY <1>1 DEF PairedBy
<1> HIDE DEF n
<1>4. /\ DOMAIN r.pairs = 1..n
      /\ \A k \in 1..n : r.pairs[k][1] = short[k] /\ r.pairs[k][2] = long[f[k]]
  BY <1>3
<1>5. Side(r.pairs, 1) = short
  BY <1>2, <1>4 DEF Side
<1>6. Side(r.pairs, 2) = [k \in 1..n |-> long[f[k]]]
  BY <1>4 DEF Side
<1> DEFINE side == Side(r.pairs, 2)
           free == r.free
<1>7. Shares(side, Entries(long, free), long)
  <2>1. side = [k \in 1..n |-> long[f[k]]] /\ Choice(f, n, long, free)
    BY <1>3, <1>6 DEF Choice
  <2> HIDE DEF side, free
  <2> QED
    BY <1>2, <2>1, ChosenAndRest
<1>8. ASSUME NEW g \in Nat, Recognised(short, long, g), NEW k \in 1..n
      PROVE  Gap(r.pairs[k][1], r.pairs[k][2]) <= g
  <2>1. Gap(long[f[k]], short[k]) <= g
    BY <1>1, <1>8
  <2>2. long[f[k]] \in T /\ short[k] \in T
    BY <1>2, <1>3, ElementsAre
  <2>3. Gap(short[k], long[f[k]]) = Gap(long[f[k]], short[k])
    BY <2>2, GapIsMutual DEF Timed
  <2> QED
    BY <1>4, <2>1, <2>3
<1> QED
  BY <1>3, <1>4, <1>5, <1>7, <1>8

(* The shorter of two lists is recognised in the longer. *)
BothRecognised(olds, news, g) ==
  /\ Len(olds) <= Len(news) => Recognised(olds, news, g)
  /\ ~(Len(olds) <= Len(news)) => Recognised(news, olds, g)

(* Of one name: pairs and rest make up both lists, of every kind. *)
MatchCounts(m, T, olds, news) ==
  /\ m.pairs \in Seq(T \X T) /\ m.gone \in Seq(T) /\ m.new \in Seq(T)
  /\ Shares(Side(m.pairs, 1), m.gone, olds)
  /\ Shares(Side(m.pairs, 2), m.new, news)
  /\ \A g \in Nat : BothRecognised(olds, news, g) =>
       \A k \in DOMAIN m.pairs : Gap(m.pairs[k][1], m.pairs[k][2]) <= g

(* Nobody is apart. *)
LEMMA SharesAll ==
  ASSUME NEW T, NEW list \in Seq(T)
  PROVE  Shares(list, <<>>, list)
<1> SUFFICES ASSUME NEW S PROVE CountIn(list, S) + CountIn(<<>>, S) = CountIn(list, S)
  BY DEF Shares
<1>1. CountIn(list, S) \in Nat
  BY WhereIs
<1> QED
  BY <1>1, KindOfNone

(* Whatever the lengths, nobody is lost or invented. *)
LEMMA MatchUpCounts ==
  ASSUME NEW T, Timed(T), NEW olds \in Seq(T), NEW news \in Seq(T),
         NEW m, m = MatchUp(olds, news)
  PROVE  MatchCounts(m, T, olds, news)
<1>0. m.pairs \in Seq(T \X T) /\ m.gone \in Seq(T) /\ m.new \in Seq(T)
  BY MatchUpIs DEF Matching
<1>1. CASE Len(olds) <= Len(news)
  <2> PICK r : r = PairUp(olds, news)
    OBVIOUS
  <2>1. m.pairs = r.pairs /\ m.gone = <<>> /\ m.new = Entries(news, r.free)
    BY <1>1 DEF MatchUp, Grown
  <2>2. /\ Side(r.pairs, 1) = olds
        /\ Shares(Side(r.pairs, 2), Entries(news, r.free), news)
        /\ \A g \in Nat : Recognised(olds, news, g) =>
             \A k \in DOMAIN r.pairs : Gap(r.pairs[k][1], r.pairs[k][2]) <= g
    BY <1>1, PairUpCounts
  <2>3. Shares(olds, <<>>, olds)
    BY SharesAll
  <2> QED
    BY <1>0, <1>1, <2>1, <2>2, <2>3 DEF MatchCounts, BothRecognised
<1>2. CASE ~(Len(olds) <= Len(news))
  <2> PICK r : r = PairUp(news, olds)
    OBVIOUS
  <2>0. Len(news) <= Len(olds)
    BY <1>2
  <2>1. /\ m.pairs = [i \in DOMAIN r.pairs |-> <<r.pairs[i][2], r.pairs[i][1]>>]
        /\ m.gone = Entries(olds, r.free) /\ m.new = <<>>
    BY <1>2 DEF MatchUp, Shrunk
  <2>2. /\ Side(r.pairs, 1) = news
        /\ Shares(Side(r.pairs, 2), Entries(olds, r.free), olds)
        /\ \A g \in Nat : Recognised(news, olds, g) =>
             \A k \in DOMAIN r.pairs : Gap(r.pairs[k][1], r.pairs[k][2]) <= g
    BY <2>0, PairUpCounts
  <2>3. Shares(news, <<>>, news)
    BY SharesAll
  <2>4. /\ DOMAIN m.pairs = DOMAIN r.pairs
        /\ \A k \in DOMAIN r.pairs : m.pairs[k][1] = r.pairs[k][2] /\ m.pairs[k][2] = r.pairs[k][1]
    BY <2>1
  <2>5. Side(m.pairs, 1) = Side(r.pairs, 2) /\ Side(m.pairs, 2) = news
    BY <2>2, <2>4 DEF Side
  <2>6. Shares(Side(m.pairs, 1), m.gone, olds) /\ Shares(Side(m.pairs, 2), m.new, news)
    BY <2>1, <2>2, <2>3, <2>5
  <2>7. ASSUME NEW g \in Nat, BothRecognised(olds, news, g), NEW k \in DOMAIN m.pairs
        PROVE  Gap(m.pairs[k][1], m.pairs[k][2]) <= g
    <3>1. Gap(m.pairs[k][2], m.pairs[k][1]) <= g
      BY <1>2, <2>2, <2>4, <2>7 DEF BothRecognised
    <3>2. m.pairs[k] \in T \X T
      BY <1>0, <2>7, ElementsAre
    <3>3. m.pairs[k][1] \in T /\ m.pairs[k][2] \in T
      BY <3>2
    <3>4. Gap(m.pairs[k][1], m.pairs[k][2]) = Gap(m.pairs[k][2], m.pairs[k][1])
      BY <3>3, GapIsMutual DEF Timed
    <3> QED
      BY <3>1, <3>4
  <2> QED
    BY <1>0, <2>6, <2>7 DEF MatchCounts
<1> QED
  BY <1>1, <1>2

(* What one list shares with another is shared on. *)
LEMMA SharesOn ==
  ASSUME NEW T, NEW a \in Seq(T), NEW b \in Seq(T), NEW c \in Seq(T), NEW both, NEW list,
         Shares(a, b, both), Shares(both, c, list)
  PROVE  Shares(a, b \o c, list)
<1> SUFFICES ASSUME NEW S PROVE CountIn(a, S) + CountIn(b \o c, S) = CountIn(list, S)
  BY DEF Shares
<1>1. CountIn(b \o c, S) = CountIn(b, S) + CountIn(c, S)
  BY KindJoin
<1>2. CountIn(a, S) \in Nat /\ CountIn(b, S) \in Nat /\ CountIn(c, S) \in Nat
  BY WhereIs
<1>3. CountIn(a, S) + CountIn(b, S) = CountIn(both, S) /\ CountIn(both, S) + CountIn(c, S) = CountIn(list, S)
  BY DEF Shares
<1> QED
  BY <1>1, <1>2, <1>3

(* The sides of a pair: the old player and the new. *)
Sides == {1, 2}

(* A side of a list of pairs is a list. *)
LEMMA SideOf ==
  ASSUME NEW T, NEW pairs \in Seq(T \X T), NEW at \in Sides
  PROVE  /\ Side(pairs, at) \in Seq(T) /\ Len(Side(pairs, at)) = Len(pairs)
         /\ \A i \in 1..Len(pairs) : Side(pairs, at)[i] = pairs[i][at]
<1>1. DOMAIN pairs = 1..Len(pairs)
  OBVIOUS
<1> QED
  BY <1>1, SideIs DEF Side, Sides

(* The pairs with a player of some kind on a side. *)
PairsWith(T, at, kind) == {x \in T \X T : x[at] \in kind}

(* A side's kind is a kind of pairs. *)
LEMMA SideCounts ==
  ASSUME NEW T, NEW pairs \in Seq(T \X T), NEW at \in Sides, NEW kind
  PROVE  CountIn(Side(pairs, at), kind) = CountIn(pairs, PairsWith(T, at, kind))
<1> DEFINE side == Side(pairs, at)
           R == PairsWith(T, at, kind)
<1>1. side \in Seq(T) /\ Len(side) = Len(pairs) /\ \A i \in 1..Len(pairs) : side[i] = pairs[i][at]
  BY SideOf
<1>2. \A i \in 1..Len(pairs) : pairs[i] \in T \X T
  BY ElementsAre
<1>3. \A i \in 1..Len(side) : side[i] \in kind <=> pairs[i] \in R
  BY <1>1, <1>2 DEF PairsWith
<1> HIDE DEF side, R
<1>4. CountIn(side, kind) = CountIn(pairs, R)
  BY <1>1, <1>3, KindsAgree
<1> QED
  BY <1>4 DEF side, R

(* Pairs told apart into two kinds make up either side together. *)
LEMMA SideSplits ==
  ASSUME NEW T, NEW pairs \in Seq(T \X T), NEW at \in Sides,
         NEW A \in SUBSET (DOMAIN pairs), NEW B \in SUBSET (DOMAIN pairs),
         A \intersect B = {}, A \union B = DOMAIN pairs
  PROVE  Shares(Side(Entries(pairs, A), at), Side(Entries(pairs, B), at), Side(pairs, at))
<1> SUFFICES ASSUME NEW S
             PROVE  CountIn(Side(Entries(pairs, A), at), S) + CountIn(Side(Entries(pairs, B), at), S)
                      = CountIn(Side(pairs, at), S)
  BY DEF Shares
<1> DEFINE R == PairsWith(T, at, S)
<1>1. Entries(pairs, A) \in Seq(T \X T) /\ Entries(pairs, B) \in Seq(T \X T)
  BY EntriesAre
<1>2. /\ CountIn(Side(Entries(pairs, A), at), S) = CountIn(Entries(pairs, A), R)
      /\ CountIn(Side(Entries(pairs, B), at), S) = CountIn(Entries(pairs, B), R)
      /\ CountIn(Side(pairs, at), S) = CountIn(pairs, R)
  BY <1>1, SideCounts
<1> HIDE DEF R
<1>3. CountIn(Entries(pairs, A), R) + CountIn(Entries(pairs, B), R) = CountIn(pairs, R)
  BY KindSplit
<1> QED
  BY <1>2, <1>3

(* Who stays stands again, within some gap, on the new list, which he shares *)
(* with those who joined.                                                    *)
Again(d, again, T, news, g) ==
  /\ again \in Seq(T) /\ Len(again) = Len(d.kept)
  /\ \A i \in 1..Len(d.kept) : Gap(d.kept[i], again[i]) <= g
  /\ Shares(again, d.joined, news)

(* Everybody who could be recognised was. *)
AllRecognised(d, again, T, olds, news, g) ==
  /\ d.moved = 0
  /\ Len(olds) <= Len(news) => d.left = <<>>
  /\ Len(news) <= Len(olds) => d.joined = <<>>
  /\ Again(d, again, T, news, g)

PartShares(d, again, T, olds, news) ==
  /\ Shares(d.kept, d.left, olds)
  /\ Again(d, again, T, news, Drift)
  /\ \A g \in 0..Drift : BothRecognised(olds, news, g) => AllRecognised(d, again, T, olds, news, g)

(* The part of one name: every kind of player, not only the name, balances. *)
LEMMA PartIsShared ==
  ASSUME NEW T, Timed(T), NEW olds \in Seq(T), NEW news \in Seq(T),
         NEW d, d = PartOf(MatchUp(olds, news))
  PROVE  \E again : PartShares(d, again, T, olds, news)
<1> PICK m : m = MatchUp(olds, news)
  OBVIOUS
<1> DEFINE pairs == m.pairs
           far == {k \in DOMAIN pairs : Gap(pairs[k][1], pairs[k][2]) > Drift}
           close == {k \in DOMAIN pairs : Gap(pairs[k][1], pairs[k][2]) <= Drift}
           apart == Entries(pairs, far)
           near == Entries(pairs, close)
           was == Side(apart, 1)
           now == Side(apart, 2)
           kept == Side(near, 1)
           again == Side(near, 2)
<1>1. MatchCounts(m, T, olds, news) /\ Matching(m, T, olds, news)
  BY MatchUpCounts, MatchUpIs
<1>2. /\ pairs \in Seq(T \X T) /\ m.gone \in Seq(T) /\ m.new \in Seq(T)
      /\ Shares(Side(pairs, 1), m.gone, olds) /\ Shares(Side(pairs, 2), m.new, news)
      /\ \A g \in Nat : BothRecognised(olds, news, g) =>
           \A k \in DOMAIN pairs : Gap(pairs[k][1], pairs[k][2]) <= g
      /\ Len(pairs) + Len(m.gone) = Len(olds) /\ Len(pairs) + Len(m.new) = Len(news)
  BY <1>1 DEF MatchCounts, Matching
<1>3. /\ d.left = was \o m.gone /\ d.joined = now \o m.new /\ d.kept = kept /\ d.moved = Len(apart)
  BY DEF PartOf, Part, Parted, Kept, Near, Side
<1>a. m.gone = <<>> \/ m.new = <<>>
  BY DEF MatchUp, Grown, Shrunk
<1> PICK gone : gone = m.gone
  OBVIOUS
<1> PICK new : new = m.new
  OBVIOUS
<1> HIDE DEF pairs
<1>4. \A k \in DOMAIN pairs : Gap(pairs[k][1], pairs[k][2]) \in Nat
  <2>1. \A k \in DOMAIN pairs : pairs[k] \in T \X T
    BY <1>2, ElementsAre
  <2>2. \A k \in DOMAIN pairs : pairs[k][1].since \in Int /\ pairs[k][2].since \in Int
    BY <2>1 DEF Timed
  <2> QED
    BY <2>2, GapIsNatural
<1>5. Drift \in Nat
  BY DiffAssumption
<1>6. /\ far \in SUBSET (DOMAIN pairs) /\ close \in SUBSET (DOMAIN pairs)
      /\ close \intersect far = {} /\ close \union far = DOMAIN pairs
      /\ \A k \in close : Gap(pairs[k][1], pairs[k][2]) <= Drift
  <2> DEFINE gap(k) == Gap(pairs[k][1], pairs[k][2])
  <2>1. far = {k \in DOMAIN pairs : gap(k) > Drift} /\ close = {k \in DOMAIN pairs : gap(k) <= Drift}
    OBVIOUS
  <2>2. \A k \in DOMAIN pairs : gap(k) \in Nat
    BY <1>4
  <2>3. \A k \in close : gap(k) <= Drift
    BY <2>1
  <2> HIDE DEF gap, far, close
  <2>4. \A k \in DOMAIN pairs : ~(gap(k) > Drift /\ gap(k) <= Drift) /\ (gap(k) > Drift \/ gap(k) <= Drift)
    BY <1>5, <2>2
  <2>5. /\ far \in SUBSET (DOMAIN pairs) /\ close \in SUBSET (DOMAIN pairs)
        /\ close \intersect far = {} /\ close \union far = DOMAIN pairs
    BY <2>1, <2>4
  <2> QED
    BY <2>3, <2>5 DEF gap
<1>7. \A g \in 0..Drift : (\A k \in DOMAIN pairs : Gap(pairs[k][1], pairs[k][2]) <= g) => far = {}
  <2> SUFFICES ASSUME NEW g \in 0..Drift, \A k \in DOMAIN pairs : Gap(pairs[k][1], pairs[k][2]) <= g,
                      NEW k \in far
               PROVE  FALSE
    OBVIOUS
  <2> DEFINE gap == Gap(pairs[k][1], pairs[k][2])
  <2>1. gap \in Nat /\ gap <= g /\ gap > Drift
    BY <1>4
  <2> HIDE DEF gap
  <2> QED
    BY <1>5, <2>1
<1> HIDE DEF far, close
<1>8. /\ apart \in Seq(T \X T) /\ near \in Seq(T \X T)
      /\ Len(apart) = Cardinality(far) /\ Len(near) = Cardinality(close)
      /\ \A k \in 1..Cardinality(close) : Nth(close, k) \in close /\ near[k] = pairs[Nth(close, k)]
  BY <1>2, <1>6, EntriesAre
<1>s. 1 \in Sides /\ 2 \in Sides
  BY DEF Sides
<1>9. /\ Shares(kept, was, Side(pairs, 1))
      /\ Shares(again, now, Side(pairs, 2))
  BY <1>2, <1>6, <1>s, SideSplits
<1> HIDE DEF apart, near
<1>10. /\ was \in Seq(T) /\ now \in Seq(T) /\ kept \in Seq(T) /\ again \in Seq(T)
       /\ Len(kept) = Len(near) /\ Len(again) = Len(near)
       /\ Len(was) = Len(apart) /\ Len(now) = Len(apart)
       /\ \A i \in 1..Len(near) : kept[i] = near[i][1] /\ again[i] = near[i][2]
  BY <1>8, <1>s, SideOf
<1> HIDE DEF was, now, kept, again
<1>11. Shares(kept, was \o gone, olds) /\ Shares(again, now \o new, news)
  <2>1. gone \in Seq(T) /\ new \in Seq(T) /\ Shares(Side(pairs, 1), gone, olds) /\ Shares(Side(pairs, 2), new, news)
    BY <1>2
  <2> QED
    BY <1>9, <1>10, <2>1, SharesOn
<1>12. ASSUME NEW g, \A k \in close : Gap(pairs[k][1], pairs[k][2]) <= g
       PROVE  Again(d, again, T, news, g)
  <2>1. \A i \in 1..Len(kept) : Gap(kept[i], again[i]) <= g
    BY <1>8, <1>10, <1>12
  <2> QED
    BY <1>3, <1>10, <1>11, <2>1 DEF Again
<1>13. Again(d, again, T, news, Drift)
  BY <1>6, <1>12
<1>14. ASSUME NEW g \in 0..Drift, BothRecognised(olds, news, g)
       PROVE  AllRecognised(d, again, T, olds, news, g)
  <2>1. g \in Nat
    BY <1>5
  <2>2. \A k \in DOMAIN pairs : Gap(pairs[k][1], pairs[k][2]) <= g
    BY <1>2, <1>14, <2>1
  <2>3. far = {}
    BY <1>7, <2>2
  <2>4. Len(apart) = 0
    <3>1. Cardinality({}) = 0
      BY FS_EmptySet
    <3> QED
      BY <1>8, <2>3, <3>1
  <2>5. was = <<>> /\ now = <<>>
    BY <1>10, <2>4
  <2>6. gone \in Seq(T) /\ new \in Seq(T) /\ Len(pairs) \in Nat
        /\ Len(pairs) + Len(gone) = Len(olds) /\ Len(pairs) + Len(new) = Len(news)
        /\ (gone = <<>> \/ new = <<>>)
    BY <1>2, <1>a
  <2>7. d.left = gone /\ d.joined = new /\ d.moved = 0
    BY <1>3, <2>4, <2>5, <2>6
  <2>8. (Len(olds) <= Len(news) => gone = <<>>) /\ (Len(news) <= Len(olds) => new = <<>>)
    <3>1. Len(gone) \in Nat /\ Len(new) \in Nat /\ (Len(gone) = 0 <=> gone = <<>>) /\ (Len(new) = 0 <=> new = <<>>)
      BY <2>6
    <3> QED
      BY <2>6, <3>1
  <2>9. Again(d, again, T, news, g)
    BY <1>6, <1>12, <2>2
  <2> QED
    BY <2>7, <2>8, <2>9 DEF AllRecognised
<1>15. PartShares(d, again, T, olds, news)
  BY <1>3, <1>11, <1>13, <1>14 DEF PartShares
<1> QED
  BY <1>15

(* One name's part lists its namesakes alone. *)
LEMMA PartOfNamesakes ==
  ASSUME NEW old \in Seq(Players), NEW new \in Seq(Players), NEW n \in Names,
         NEW d, d = PartFor(old, new, n)
  PROVE  /\ d.left \in Seq(Namesakes(n)) /\ d.joined \in Seq(Namesakes(n)) /\ d.kept \in Seq(Namesakes(n))
         /\ \E again : PartShares(d, again, Namesakes(n), Named(old, n), Named(new, n))
<1>1. /\ Named(old, n) \in Seq(Namesakes(n)) /\ Named(new, n) \in Seq(Namesakes(n))
      /\ Timed(Namesakes(n))
      /\ d = PartOf(MatchUp(Named(old, n), Named(new, n)))
  BY NamedAre, NamesakesArePlayers DEF PartFor
<1>2. Differing(d, Namesakes(n), Named(old, n), Named(new, n))
  BY <1>1, PartIs
<1>3. d \in [left : Seq(Namesakes(n)), joined : Seq(Namesakes(n)), kept : Seq(Namesakes(n)), moved : Nat, pairs : Nat]
  BY <1>2 DEF Differing
<1>4. \E again : PartShares(d, again, Namesakes(n), Named(old, n), Named(new, n))
  BY <1>1, PartIsShared
<1> QED
  BY <1>3, <1>4

(* A kind counts alike in two differences. *)
CountsLike(a, b, S) ==
  /\ CountIn(a.left, S) = CountIn(b.left, S)
  /\ CountIn(a.joined, S) = CountIn(b.joined, S)
  /\ CountIn(a.kept, S) = CountIn(b.kept, S)

CountsNone(a, S) == CountIn(a.left, S) = 0 /\ CountIn(a.joined, S) = 0 /\ CountIn(a.kept, S) = 0

(* A kind of namesakes counts in its name's part alone. *)
LEMMA KindOfName ==
  ASSUME NEW old \in Seq(Players), NEW new \in Seq(Players), NEW n \in Names, NEW S \in SUBSET Namesakes(n),
         NEW a \in Parts, NEW m \in Names, NEW b, b = Joined(a, PartFor(old, new, m))
  PROVE  /\ n = m /\ CountsNone(a, S) => CountsLike(b, PartFor(old, new, n), S)
         /\ n # m /\ CountsNone(a, S) => CountsNone(b, S)
         /\ n # m /\ CountsLike(a, PartFor(old, new, n), S) => CountsLike(b, PartFor(old, new, n), S)
<1> PICK d : d = PartFor(old, new, m)
  OBVIOUS
<1> PICK dn : dn = PartFor(old, new, n)
  OBVIOUS
<1>1. d \in Parts
  BY PartCounts
<1>2. b.left = a.left \o d.left /\ b.joined = a.joined \o d.joined /\ b.kept = a.kept \o d.kept
  BY <1>1, JoinedIs
<1>3. /\ a.left \in Seq(Players) /\ a.joined \in Seq(Players) /\ a.kept \in Seq(Players)
      /\ d.left \in Seq(Players) /\ d.joined \in Seq(Players) /\ d.kept \in Seq(Players)
  BY <1>1 DEF Parts
<1>4. /\ CountIn(b.left, S) = CountIn(a.left, S) + CountIn(d.left, S)
      /\ CountIn(b.joined, S) = CountIn(a.joined, S) + CountIn(d.joined, S)
      /\ CountIn(b.kept, S) = CountIn(a.kept, S) + CountIn(d.kept, S)
  BY <1>2, <1>3, KindJoin
<1>5. /\ CountIn(a.left, S) \in Nat /\ CountIn(a.joined, S) \in Nat /\ CountIn(a.kept, S) \in Nat
      /\ CountIn(d.left, S) \in Nat /\ CountIn(d.joined, S) \in Nat /\ CountIn(d.kept, S) \in Nat
  BY <1>3, WhereIs
<1>6. ASSUME n # m
      PROVE  CountsNone(d, S)
  <2>1. \A p \in Namesakes(m) : p \notin S
    BY <1>6 DEF Namesakes
  <2>2. d.left \in Seq(Namesakes(m)) /\ d.joined \in Seq(Namesakes(m)) /\ d.kept \in Seq(Namesakes(m))
    BY PartOfNamesakes
  <2>3. ASSUME NEW list \in Seq(Namesakes(m))
        PROVE  CountIn(list, S) = 0
    <3>1. \A i \in DOMAIN list : list[i] \notin S
      BY <2>1, ElementsAre
    <3> QED
      BY <3>1, KindIsThere
  <2> QED
    BY <2>2, <2>3 DEF CountsNone
<1>7. n = m /\ CountsNone(a, S) => CountsLike(b, dn, S)
  BY <1>4, <1>5 DEF CountsNone, CountsLike
<1>8. n # m /\ CountsNone(a, S) => CountsNone(b, S)
  BY <1>4, <1>5, <1>6 DEF CountsNone
<1>9. n # m /\ CountsLike(a, dn, S) => CountsLike(b, dn, S)
  BY <1>4, <1>5, <1>6 DEF CountsNone, CountsLike
<1> QED
  BY <1>7, <1>8, <1>9

(* So the whole difference counts a kind of namesakes as their part does. *)
LEMMA DiffByName ==
  ASSUME NEW old \in Seq(Players), NEW new \in Seq(Players), NEW n \in Names, NEW S \in SUBSET Namesakes(n)
  PROVE  CountsLike(Diff(old, new), PartFor(old, new, n), S)
<1> PICK u : u = UpTo(old, new)
  OBVIOUS
<1> PICK dn : dn = PartFor(old, new, n)
  OBVIOUS
<1> DEFINE count == Cardinality(Names)
           fits(k) == IF Rank(Names, n) <= k THEN CountsLike(u[k], dn, S) ELSE CountsNone(u[k], S)
           holds == {k \in 0..count : fits(k)}
<1>1. /\ count \in Nat
      /\ \A k \in 1..count : Nth(Names, k) \in Names /\ Rank(Names, Nth(Names, k)) = k
      /\ Rank(Names, n) \in 1..count /\ Nth(Names, Rank(Names, n)) = n
  BY NamesAreRanked
<1>2. /\ u \in [0..count -> Parts] /\ u[0] = Nothing
      /\ \A k \in 1..count : u[k] = Joined(u[k - 1], PartFor(old, new, Nth(Names, k)))
  BY UpToIs DEF NameAfterName
<1>3. 0 \in holds
  <2>1. CountsNone(u[0], S)
    BY <1>2, KindOfNone DEF CountsNone, Nothing
  <2>2. ~(Rank(Names, n) <= 0)
    BY <1>1
  <2> QED
    BY <1>1, <2>1, <2>2
<1>4. ASSUME NEW k \in 1..count, k - 1 \in holds
      PROVE  k \in holds
  <2>1. k \in 0..count /\ k - 1 \in 0..count /\ fits(k - 1)
    BY <1>1, <1>4
  <2> DEFINE m == Nth(Names, k)
  <2>2. m \in Names /\ Rank(Names, m) = k
    BY <1>1
  <2>3. u[k - 1] \in Parts /\ u[k] = Joined(u[k - 1], PartFor(old, new, m))
    BY <1>2, <2>1
  <2>4. n = m <=> Rank(Names, n) = k
    BY <1>1, <2>2
  <2> HIDE DEF m
  <2>5. /\ n = m /\ CountsNone(u[k - 1], S) => CountsLike(u[k], dn, S)
        /\ n # m /\ CountsNone(u[k - 1], S) => CountsNone(u[k], S)
        /\ n # m /\ CountsLike(u[k - 1], dn, S) => CountsLike(u[k], dn, S)
    BY <2>2, <2>3, KindOfName
  <2>7. Rank(Names, n) \in Int /\ k \in Int
    BY <1>1
  <2>8. /\ Rank(Names, n) = k => ~(Rank(Names, n) <= k - 1) /\ Rank(Names, n) <= k
        /\ Rank(Names, n) # k => (Rank(Names, n) <= k - 1 <=> Rank(Names, n) <= k)
    BY <2>7
  <2>9. IF Rank(Names, n) <= k - 1 THEN CountsLike(u[k - 1], dn, S) ELSE CountsNone(u[k - 1], S)
    BY <2>1
  <2>10. IF Rank(Names, n) <= k THEN CountsLike(u[k], dn, S) ELSE CountsNone(u[k], S)
    BY <2>4, <2>5, <2>8, <2>9, Zenon
  <2> QED
    BY <2>1, <2>10
<1>5. CountsLike(u[count], dn, S)
  <2> HIDE DEF holds
  <2>1. \A k \in 0..count : k \in holds
    BY <1>1, <1>3, <1>4, Climb
  <2>2. count \in 0..count /\ Rank(Names, n) <= count
    BY <1>1
  <2> QED
    BY <2>1, <2>2 DEF holds
<1> PICK d : d = Diff(old, new)
  OBVIOUS
<1>6. d.left = u[count].left /\ d.joined = u[count].joined /\ d.kept = u[count].kept
  BY DEF Diff, Judged
<1>7. CountsLike(d, dn, S)
  BY <1>5, <1>6 DEF CountsLike
<1> QED
  BY <1>7

(* A kind that is nobody's does not count. *)
LEMMA EmptyByName ==
  ASSUME NEW list \in Seq(Players), \A n \in Names : CountIn(list, Namesakes(n)) = 0
  PROVE  list = <<>>
<1>1. ASSUME NEW i \in DOMAIN list
      PROVE  FALSE
  <2>1. list[i] \in Players
    BY ElementsAre
  <2>2. list[i].name \in Names /\ list[i] \in Namesakes(list[i].name)
    BY <2>1 DEF Players, Namesakes
  <2>3. CountIn(list, Namesakes(list[i].name)) = 0
    BY <2>2
  <2> QED
    BY <2>2, <2>3, KindIsThere
<1>2. DOMAIN list = 1..Len(list) /\ Len(list) \in Nat /\ 1 \notin DOMAIN list
  BY <1>1
<1>3. Len(list) = 0
  BY <1>2
<1> QED
  BY <1>3

(* If nobody moves under any name, the clock did not either. *)
LEMMA NobodyMoves ==
  ASSUME NEW old \in Seq(Players), NEW new \in Seq(Players),
         \A n \in Names : PartFor(old, new, n).moved = 0
  PROVE  ~Diff(old, new).drifted
<1> PICK u : u = UpTo(old, new)
  OBVIOUS
<1> DEFINE count == Cardinality(Names)
           holds == {k \in 0..count : u[k].moved = 0}
<1>1. /\ count \in Nat
      /\ \A k \in 1..count : Nth(Names, k) \in Names
  BY NamesAreRanked
<1>2. /\ u[0] = Nothing
      /\ \A k \in 1..count : u[k] = Joined(u[k - 1], PartFor(old, new, Nth(Names, k)))
  BY UpToIs DEF NameAfterName
<1>3. 0 \in holds
  BY <1>1, <1>2 DEF Nothing
<1>4. ASSUME NEW k \in 1..count, k - 1 \in holds
      PROVE  k \in holds
  <2>1. u[k - 1].moved = 0 /\ PartFor(old, new, Nth(Names, k)).moved = 0
    BY <1>1, <1>4
  <2>2. u[k].moved = u[k - 1].moved + PartFor(old, new, Nth(Names, k)).moved
    <3>1. \A a, b : Joined(a, b).moved = a.moved + b.moved
      BY DEF Joined
    <3> QED
      BY <1>2, <3>1
  <2>3. k \in 0..count
    BY <1>1
  <2> QED
    BY <2>1, <2>2, <2>3
<1>5. u[count].moved = 0
  <2> HIDE DEF holds
  <2>1. \A k \in 0..count : k \in holds
    BY <1>1, <1>3, <1>4, Climb
  <2>2. count \in 0..count
    BY <1>1
  <2> QED
    BY <2>1, <2>2 DEF holds
<1> PICK last : last = u[count]
  OBVIOUS
<1>6. Diff(old, new) = Judged(last) /\ last.moved = 0
  BY <1>5 DEF Diff
<1>7. ~(last.moved > 1)
  BY <1>6
<1>8. Judged(last).drifted = (last.moved > 1 /\ 2 * last.moved > last.pairs)
  BY DEF Judged
<1>9. Diff(old, new).drifted = (last.moved > 1 /\ 2 * last.moved > last.pairs)
  BY <1>6, <1>8
<1> QED
  BY <1>7, <1>9, Zenon

(* No way round is shorter. *)
LEMMA GapTriangle ==
  ASSUME NEW p, NEW q, NEW r, p.since \in Int, q.since \in Int, r.since \in Int
  PROVE  Gap(p, r) <= Gap(p, q) + Gap(q, r)
BY DEF Gap

(* Two within a gap of a third are within twice the gap of one another. *)
LEMMA NearBoth ==
  ASSUME NEW p, NEW q, NEW r, p.since \in Int, q.since \in Int, r.since \in Int, NEW g \in Nat,
         Gap(p, q) <= g, Gap(r, q) <= g
  PROVE  Gap(p, r) <= 2 * g
<1>1. Gap(p, r) <= Gap(p, q) + Gap(q, r) /\ Gap(q, r) = Gap(r, q)
  BY GapTriangle, GapIsMutual
<1>2. Gap(p, q) \in Nat /\ Gap(q, r) \in Nat /\ Gap(p, r) \in Nat
  BY GapIsNatural
<1> QED
  BY <1>1, <1>2

(* The players within some gap of one. *)
Ball(T, q, g) == {p \in T : Gap(p, q) <= g}

(* Where entries of one kind are of another, they count for no more. *)
LEMMA KindsWithin ==
  ASSUME NEW S, NEW R, NEW T, NEW a \in Seq(T), NEW b \in Seq(T), Len(a) = Len(b),
         \A i \in 1..Len(a) : a[i] \in S => b[i] \in R
  PROVE  CountIn(a, S) <= CountIn(b, R)
<1>1. DOMAIN a = 1..Len(a) /\ DOMAIN b = 1..Len(a)
  OBVIOUS
<1>2. Where(a, S) \subseteq Where(b, R)
  BY <1>1 DEF Where
<1>3. IsFiniteSet(Where(b, R))
  BY WhereIs
<1> QED
  BY <1>2, <1>3, FS_Subset DEF CountIn

(* A kind that has an entry counts. *)
LEMMA KindCounts ==
  ASSUME NEW T, NEW list \in Seq(T), NEW S, NEW i \in DOMAIN list, list[i] \in S
  PROVE  CountIn(list, S) # 0
BY KindIsThere

(* A kind of namesakes counts among them as in the whole list. *)
LEMMA NamedCounts ==
  ASSUME NEW list \in Seq(Players), NEW n \in Names, NEW S \in SUBSET Namesakes(n)
  PROVE  CountIn(Named(list, n), S) = CountIn(list, S)
<1>1. Carriers(list, n) \in SUBSET (DOMAIN list)
  BY DEF Carriers
<1>2. CountIn(Entries(list, Carriers(list, n)), S) = Cardinality({i \in Carriers(list, n) : list[i] \in S})
  BY <1>1, KindEntries
<1>3. {i \in Carriers(list, n) : list[i] \in S} = Where(list, S)
  BY DEF Carriers, Where, Namesakes
<1> QED
  BY <1>2, <1>3 DEF Named, CountIn

(* Far apart in the whole list, far apart among their namesakes. *)
LEMMA NamedApart ==
  ASSUME NEW list \in Seq(Players), NEW n \in Names, NEW by, Apart(list, by)
  PROVE  \A i, j \in DOMAIN Named(list, n) : i # j => Gap(Named(list, n)[i], Named(list, n)[j]) > by
<1> DEFINE places == Carriers(list, n)
           named == Named(list, n)
<1>1. places \in SUBSET (DOMAIN list) /\ \A i \in places : list[i].name = n
  BY DEF Carriers
<1> HIDE DEF places
<1>2. /\ Len(Entries(list, places)) = Cardinality(places) /\ Entries(list, places) \in Seq(Players)
      /\ \A k \in 1..Cardinality(places) : Nth(places, k) \in places /\ Entries(list, places)[k] = list[Nth(places, k)]
      /\ \A k, l \in 1..Cardinality(places) : k # l => Nth(places, k) # Nth(places, l)
  BY <1>1, EntriesAre
<1>3. named = Entries(list, places)
  BY DEF Named, places
<1> HIDE DEF named
<1>4. DOMAIN named = 1..Cardinality(places)
  BY <1>2, <1>3
<1>5. ASSUME NEW i \in DOMAIN named, NEW j \in DOMAIN named, i # j
      PROVE  Gap(named[i], named[j]) > by
  <2>1. /\ Nth(places, i) \in places /\ Nth(places, j) \in places /\ Nth(places, i) # Nth(places, j)
        /\ named[i] = list[Nth(places, i)] /\ named[j] = list[Nth(places, j)]
    BY <1>2, <1>3, <1>4, <1>5
  <2> QED
    BY <1>1, <2>1 DEF Apart
<1> QED
  BY <1>5 DEF named

(* A list made of players who stayed, with old times, and of players who just *)
(* joined, against a list that has the same players, none near another.      *)
Regathered(T, g, olds, news, kept, again, joined) ==
  /\ olds \in Seq(T) /\ news \in Seq(T) /\ kept \in Seq(T) /\ again \in Seq(T) /\ joined \in Seq(T)
  /\ Len(kept) = Len(again) /\ \A i \in 1..Len(kept) : Gap(kept[i], again[i]) <= g
  /\ \A S \in SUBSET T : CountIn(olds, S) = CountIn(kept, S) + CountIn(joined, S)
  /\ Shares(again, joined, news)
  /\ \A i, j \in DOMAIN news : i # j => Gap(news[i], news[j]) > 2 * g

(* Of such lists, everybody is recognised. *)
LEMMA StillRecognised ==
  ASSUME NEW T, Timed(T), NEW g \in Nat, NEW olds, NEW news, NEW kept, NEW again, NEW joined,
         Regathered(T, g, olds, news, kept, again, joined)
  PROVE  Recognised(olds, news, g)
<1> USE DEF Regathered
<1>1. /\ DOMAIN kept = 1..Len(kept) /\ DOMAIN again = 1..Len(kept)
      /\ \A i \in 1..Len(kept) : kept[i] \in T /\ again[i] \in T
      /\ \A i \in DOMAIN olds : olds[i] \in T
      /\ \A i \in DOMAIN news : news[i] \in T
      /\ \A i \in DOMAIN joined : joined[i] \in T
  BY ElementsAre
<1>2. \A S : CountIn(kept, S) \in Nat /\ CountIn(again, S) \in Nat /\ CountIn(joined, S) \in Nat
             /\ CountIn(olds, S) \in Nat /\ CountIn(news, S) \in Nat
  BY WhereIs
<1>3. \A p, q \in T : Gap(p, q) \in Nat /\ Gap(p, p) = 0 /\ Gap(p, q) = Gap(q, p)
  BY GapIsNatural, GapIsMutual DEF Timed
<1>4. \A p, q, r \in T : Gap(p, q) <= g /\ Gap(r, q) <= g => Gap(p, r) <= 2 * g
  BY NearBoth DEF Timed
<1>5. ASSUME NEW q \in T
      PROVE  \A i, j \in DOMAIN news : Gap(news[i], q) <= g /\ Gap(news[j], q) <= g => i = j
  <2> SUFFICES ASSUME NEW i \in DOMAIN news, NEW j \in DOMAIN news,
                      Gap(news[i], q) <= g, Gap(news[j], q) <= g, i # j
               PROVE  FALSE
    OBVIOUS
  <2> DEFINE far == Gap(news[i], news[j])
  <2>1. far <= 2 * g /\ far > 2 * g /\ far \in Nat
    BY <1>1, <1>3, <1>4
  <2> HIDE DEF far
  <2> QED
    BY <2>1
<1>6. ASSUME NEW k \in DOMAIN olds
      PROVE  \E i \in DOMAIN news : Gap(news[i], olds[k]) <= g
  <2> DEFINE p == olds[k]
             B == Ball(T, p, g)
  <2>1. p \in T /\ {p} \in SUBSET T
    BY <1>1
  <2>2. CountIn(olds, {p}) # 0
    BY KindCounts
  <2>3. CountIn(kept, {p}) # 0 \/ CountIn(joined, {p}) # 0
    <3>1. CountIn(olds, {p}) = CountIn(kept, {p}) + CountIn(joined, {p})
      BY <2>1
    <3> HIDE DEF p
    <3> QED
      BY <1>2, <2>2, <3>1
  <2> HIDE DEF p
  <2>4. CASE CountIn(kept, {p}) # 0
    <3>1. PICK i \in DOMAIN kept : kept[i] = p
      BY <2>4, KindIsThere
    <3>2. Gap(again[i], p) <= g /\ again[i] \in T /\ i \in DOMAIN again
      BY <1>1, <1>3, <2>1, <3>1
    <3>3. CountIn(again, B) # 0
      <4>1. again[i] \in B
        BY <3>2 DEF Ball
      <4> HIDE DEF B
      <4> QED
        BY <3>2, <4>1, KindCounts
    <3> HIDE DEF B
    <3>4. CountIn(news, B) # 0
      BY <1>2, <3>3 DEF Shares
    <3>5. PICK j \in DOMAIN news : news[j] \in B
      BY <3>4, KindIsThere
    <3> QED
      BY <3>5 DEF B, Ball, p
  <2>5. CASE CountIn(joined, {p}) # 0
    <3>1. PICK i \in DOMAIN joined : joined[i] = p
      BY <2>5, KindIsThere
    <3>2. p \in B
      BY <1>3, <2>1 DEF Ball
    <3> HIDE DEF B
    <3>3. CountIn(joined, B) # 0
      BY <3>1, <3>2, KindCounts
    <3>4. CountIn(news, B) # 0
      BY <1>2, <3>3 DEF Shares
    <3>5. PICK j \in DOMAIN news : news[j] \in B
      BY <3>4, KindIsThere
    <3> QED
      BY <3>5 DEF B, Ball, p
  <2> QED
    BY <2>3, <2>4, <2>5
<1>7. ASSUME NEW i \in DOMAIN news
      PROVE  \A j, k \in DOMAIN olds : Gap(news[i], olds[j]) <= g /\ Gap(news[i], olds[k]) <= g => j = k
  <2> DEFINE q == news[i]
             near == Ball(T, q, g)
             wide == Ball(T, q, 2 * g)
  <2>1. q \in T /\ near \in SUBSET T /\ near \subseteq wide
    <3>1. g <= 2 * g
      OBVIOUS
    <3>2. q \in T
      BY <1>1
    <3> HIDE DEF q
    <3>3. \A p \in T : Gap(p, q) <= g => Gap(p, q) <= 2 * g
      BY <1>3, <3>1, <3>2
    <3> QED
      BY <3>2, <3>3 DEF Ball
  <2>2. \A k \in 1..Len(kept) : kept[k] \in near => again[k] \in wide
    <3> HIDE DEF q
    <3> SUFFICES ASSUME NEW k \in 1..Len(kept), kept[k] \in near PROVE again[k] \in wide
      OBVIOUS
    <3>1. Gap(kept[k], q) <= g /\ Gap(kept[k], again[k]) <= g /\ kept[k] \in T /\ again[k] \in T
      BY <1>1 DEF Ball
    <3>2. Gap(q, kept[k]) <= g /\ Gap(again[k], kept[k]) <= g
      BY <1>3, <2>1, <3>1
    <3>3. Gap(again[k], q) <= 2 * g
      BY <1>4, <2>1, <3>1, <3>2
    <3> QED
      BY <3>1, <3>3 DEF Ball
  <2>3. \A j, k \in Where(news, wide) : j = k
    <3> SUFFICES ASSUME NEW j \in Where(news, wide) PROVE j = i
      OBVIOUS
    <3>1. j \in DOMAIN news /\ Gap(news[j], q) <= 2 * g
      BY DEF Where, Ball
    <3> DEFINE far == Gap(news[j], news[i])
    <3>2. far \in Nat /\ far <= 2 * g /\ (j # i => far > 2 * g)
      BY <1>1, <1>3, <3>1
    <3> HIDE DEF far
    <3> QED
      BY <3>2
  <2>4. \A j \in DOMAIN olds : Gap(news[i], olds[j]) <= g => j \in Where(olds, near)
    BY <1>1, <1>3 DEF Where, Ball
  <2> HIDE DEF near, wide, q
  <2>5. CountIn(news, wide) <= 1
    BY <2>3, KindAtMostOne
  <2>6. CountIn(kept, near) <= CountIn(again, wide)
    BY <2>2, KindsWithin
  <2>7. CountIn(joined, near) <= CountIn(joined, wide)
    BY <2>1, KindsWithin
  <2>8. /\ CountIn(olds, near) = CountIn(kept, near) + CountIn(joined, near)
        /\ CountIn(again, wide) + CountIn(joined, wide) = CountIn(news, wide)
    BY <2>1 DEF Shares
  <2>9. CountIn(olds, near) <= 1
    BY <1>2, <2>5, <2>6, <2>7, <2>8
  <2>10. \A j, k \in Where(olds, near) : j = k
    BY <2>9, KindAtMostOne
  <2> QED
    BY <2>4, <2>10
<1> QED
  BY <1>1, <1>5, <1>6, <1>7 DEF Recognised

(* The list the watch keeps: a kind of namesakes is who stays or joined. *)
LEMMA SettledCounts ==
  ASSUME NEW old \in Seq(Players), NEW new \in Seq(Players), NEW d, d = Diff(old, new),
         NEW n \in Names, NEW p, p = PartFor(old, new, n), NEW S \in SUBSET Namesakes(n)
  PROVE  /\ NewList(d) \in Seq(Players)
         /\ CountIn(Named(NewList(d), n), S) = CountIn(p.kept, S) + CountIn(p.joined, S)
<1>1. d.kept \in Seq(Players) /\ d.joined \in Seq(Players)
  BY DiffBalances DEF Difference
<1>2. NewList(d) \in Seq(Players) /\ NewList(d) = d.kept \o d.joined
  BY <1>1 DEF NewList
<1>3. CountIn(NewList(d), S) = CountIn(d.kept, S) + CountIn(d.joined, S)
  BY <1>1, <1>2, KindJoin
<1>4. CountIn(d.kept, S) = CountIn(p.kept, S) /\ CountIn(d.joined, S) = CountIn(p.joined, S)
  BY DiffByName DEF CountsLike
<1> QED
  BY <1>2, <1>3, <1>4, NamedCounts

(* Of one name: the same list again moves nobody. *)
LEMMA NamesakesAreQuiet ==
  ASSUME NEW old \in Seq(Players), NEW new \in Seq(Players), Apart(new, 2 * Drift),
         NEW settled, settled = NewList(Diff(old, new)), NEW n \in Names
  PROVE  LET q == PartFor(settled, new, n) IN q.moved = 0 /\ q.left = <<>> /\ q.joined = <<>>
<1> PICK d : d = Diff(old, new)
  OBVIOUS
<1> PICK p : p = PartFor(old, new, n)
  OBVIOUS
<1> PICK q : q = PartFor(settled, new, n)
  OBVIOUS
<1> PICK T : T = Namesakes(n)
  OBVIOUS
<1> PICK olds : olds = Named(settled, n)
  OBVIOUS
<1> PICK news : news = Named(new, n)
  OBVIOUS
<1>1. settled \in Seq(Players) /\ \A S \in SUBSET T : CountIn(olds, S) = CountIn(p.kept, S) + CountIn(p.joined, S)
  <2>1. {} \in SUBSET Namesakes(n)
    OBVIOUS
  <2> QED
    BY <2>1, SettledCounts
<1>2. Timed(T) /\ olds \in Seq(T) /\ news \in Seq(T) /\ Len(olds) = CountOf(settled, n) /\ Len(news) = CountOf(new, n)
  BY <1>1, NamedAre, NamesakesArePlayers
<1>3. p.kept \in Seq(T) /\ p.joined \in Seq(T) /\ \E again : PartShares(p, again, T, Named(old, n), news)
  BY PartOfNamesakes
<1>4. PICK again : PartShares(p, again, T, Named(old, n), news)
  BY <1>3
<1>5. /\ again \in Seq(T) /\ Len(again) = Len(p.kept)
      /\ \A i \in 1..Len(p.kept) : Gap(p.kept[i], again[i]) <= Drift
      /\ Shares(again, p.joined, news)
  BY <1>4 DEF PartShares, Again
<1>6. \A i, j \in DOMAIN news : i # j => Gap(news[i], news[j]) > 2 * Drift
  BY NamedApart
<1>7. Drift \in Nat /\ Drift \in 0..Drift
  BY DiffAssumption
<1>8. Recognised(olds, news, Drift)
  <2> PICK kept : kept = p.kept
    OBVIOUS
  <2> PICK joined : joined = p.joined
    OBVIOUS
  <2>1. /\ kept \in Seq(T) /\ joined \in Seq(T) /\ again \in Seq(T)
        /\ Len(kept) = Len(again) /\ \A i \in 1..Len(kept) : Gap(kept[i], again[i]) <= Drift
        /\ \A S \in SUBSET T : CountIn(olds, S) = CountIn(kept, S) + CountIn(joined, S)
        /\ Shares(again, joined, news)
    BY <1>1, <1>3, <1>5
  <2>2. Regathered(T, Drift, olds, news, kept, again, joined)
    BY <1>2, <1>6, <2>1 DEF Regathered
  <2> QED
    BY <1>2, <1>7, <2>2, StillRecognised
<1>9. Len(olds) = Len(news) /\ Len(olds) \in Nat
  <2>1. /\ d.kept \in Seq(Players) /\ d.joined \in Seq(Players)
        /\ CountOf(d.kept, n) + CountOf(d.joined, n) = CountOf(new, n)
    BY DiffBalances DEF Difference, Balanced
  <2>2. CountOf(d.kept \o d.joined, n) = CountOf(d.kept, n) + CountOf(d.joined, n)
    BY <2>1, CountJoin
  <2>3. settled = d.kept \o d.joined
    BY DEF NewList
  <2> QED
    BY <1>2, <2>1, <2>2, <2>3
<1>10. BothRecognised(olds, news, Drift) /\ Len(olds) <= Len(news) /\ Len(news) <= Len(olds)
  BY <1>8, <1>9 DEF BothRecognised
<1>11. \E same : PartShares(q, same, T, olds, news)
  BY <1>1, PartOfNamesakes
<1>12. PICK same : AllRecognised(q, same, T, olds, news, Drift)
  BY <1>7, <1>10, <1>11 DEF PartShares
<1>13. q.moved = 0 /\ q.left = <<>> /\ q.joined = <<>>
  BY <1>10, <1>12 DEF AllRecognised
<1> QED
  BY <1>13

(* Nobody anywhere joins or leaves if nobody does under any name. *)
LEMMA QuietByName ==
  ASSUME NEW old \in Seq(Players), NEW new \in Seq(Players), NEW d, d = Diff(old, new)
  PROVE  /\ (\A n \in Names : PartFor(old, new, n).left = <<>>) => d.left = <<>>
         /\ (\A n \in Names : PartFor(old, new, n).joined = <<>>) => d.joined = <<>>
<1>1. d.left \in Seq(Players) /\ d.joined \in Seq(Players)
  BY DiffBalances DEF Difference
<1>2. ASSUME NEW n \in Names
      PROVE  /\ CountIn(d.left, Namesakes(n)) = CountIn(PartFor(old, new, n).left, Namesakes(n))
             /\ CountIn(d.joined, Namesakes(n)) = CountIn(PartFor(old, new, n).joined, Namesakes(n))
  <2>1. Namesakes(n) \in SUBSET Namesakes(n)
    OBVIOUS
  <2> QED
    BY <2>1, DiffByName DEF CountsLike
<1>3. ASSUME \A n \in Names : PartFor(old, new, n).left = <<>>
      PROVE  d.left = <<>>
  <2>1. \A n \in Names : CountIn(d.left, Namesakes(n)) = 0
    BY <1>2, <1>3, KindOfNone
  <2> QED
    BY <1>1, <2>1, EmptyByName
<1>4. ASSUME \A n \in Names : PartFor(old, new, n).joined = <<>>
      PROVE  d.joined = <<>>
  <2>1. \A n \in Names : CountIn(d.joined, Namesakes(n)) = 0
    BY <1>2, <1>4, KindOfNone
  <2> QED
    BY <1>1, <2>1, EmptyByName
<1> QED
  BY <1>3, <1>4

(* A poll that finds the same players again changes nothing. *)
LEMMA SettledIsQuiet ==
  ASSUME NEW old \in Seq(Players), NEW new \in Seq(Players), Apart(new, 2 * Drift)
  PROVE  Quiet(Diff(NewList(Diff(old, new)), new))
<1> PICK settled : settled = NewList(Diff(old, new))
  OBVIOUS
<1> PICK d : d = Diff(settled, new)
  OBVIOUS
<1>1. settled \in Seq(Players)
  <2>1. Diff(old, new).kept \in Seq(Players) /\ Diff(old, new).joined \in Seq(Players)
    BY DiffBalances DEF Difference
  <2> QED
    BY <2>1 DEF NewList
<1>2. \A n \in Names : /\ PartFor(settled, new, n).moved = 0
                       /\ PartFor(settled, new, n).left = <<>>
                       /\ PartFor(settled, new, n).joined = <<>>
  BY NamesakesAreQuiet
<1>3. d.left = <<>> /\ d.joined = <<>>
  BY <1>1, <1>2, QuietByName
<1>4. ~d.drifted
  BY <1>1, <1>2, NobodyMoves
<1>5. Quiet(d)
  BY <1>3, <1>4 DEF Quiet
<1> QED
  BY <1>5

-----------------------------------------------------------------------------
(* What the page makes of the leaves *)

(* Lists on which every player occurs as often are the same bag. *)
LEMMA SameBag ==
  ASSUME NEW a \in Seq(Players), NEW b \in Seq(Players),
         \A p \in Players : CountIn(a, {p}) = CountIn(b, {p})
  PROVE  Bag(a) = Bag(b)
<1> DEFINE times(list) == [p \in ToSet(list) |-> CountIn(list, {p})]
<1>1. ASSUME NEW list \in Seq(Players)
      PROVE  /\ \A p : p \in ToSet(list) <=> p \in Players /\ CountIn(list, {p}) # 0
             /\ Bag(list) = times(list)
  <2>1. \A i \in DOMAIN list : list[i] \in Players
    BY ElementsAre
  <2>2. \A p : CountIn(list, {p}) # 0 <=> \E i \in DOMAIN list : list[i] = p
    <3> SUFFICES ASSUME NEW p PROVE CountIn(list, {p}) # 0 <=> \E i \in DOMAIN list : list[i] = p
      OBVIOUS
    <3>1. CountIn(list, {p}) = 0 <=> \A i \in DOMAIN list : list[i] \notin {p}
      BY KindIsThere
    <3> QED
      BY <3>1
  <2>3. \A p : {i \in DOMAIN list : list[i] = p} = Where(list, {p})
    BY DEF Where
  <2>4. \A p \in ToSet(list) : Cardinality({i \in DOMAIN list : list[i] = p}) = CountIn(list, {p})
    BY <2>3 DEF CountIn
  <2>5. Bag(list) = times(list)
    BY <2>4 DEF Bag
  <2> QED
    BY <2>1, <2>2, <2>5 DEF ToSet
<1>2. \A p : p \in ToSet(a) <=> p \in ToSet(b)
  BY <1>1
<1>3. ToSet(a) = ToSet(b)
  BY <1>2
<1>4. \A p \in ToSet(a) : CountIn(a, {p}) = CountIn(b, {p})
  BY <1>1
<1>5. times(a) = times(b)
  BY <1>3, <1>4
<1> HIDE DEF times
<1> QED
  BY <1>1, <1>5

(* One more if it is the one. *)
OneIf(p, q) == IF p = q THEN 1 ELSE 0

(* A list without one of its entries. *)
LEMMA WithoutOne ==
  ASSUME NEW list \in Seq(Players), NEW i \in DOMAIN list
  PROVE  /\ Without(list, i) \in Seq(Players)
         /\ \A q : CountIn(Without(list, i), {q}) + OneIf(list[i], q) = CountIn(list, {q})
<1> DEFINE rest == DOMAIN list \ {i}
<1>1. rest \in SUBSET (DOMAIN list) /\ {i} \in SUBSET (DOMAIN list) /\ {i} \intersect rest = {} /\ {i} \union rest = DOMAIN list
  OBVIOUS
<1>2. Without(list, i) = Entries(list, rest)
  BY DEF Without
<1> HIDE DEF rest
<1>3. Entries(list, rest) \in Seq(Players) /\ Entries(list, {i}) \in Seq(Players)
  BY <1>1, EntriesAre
<1>4. ASSUME NEW q
      PROVE  CountIn(Entries(list, rest), {q}) + OneIf(list[i], q) = CountIn(list, {q})
  <2>1. CountIn(Entries(list, {i}), {q}) + CountIn(Entries(list, rest), {q}) = CountIn(list, {q})
    BY <1>1, KindSplit
  <2>2. CountIn(Entries(list, {i}), {q}) = Cardinality({j \in {i} : list[j] \in {q}})
    BY <1>1, KindEntries
  <2>3. Cardinality({j \in {i} : list[j] \in {q}}) = OneIf(list[i], q)
    <3>1. Cardinality({i}) = 1 /\ Cardinality({}) = 0
      BY FS_Singleton, FS_EmptySet
    <3>2. CASE list[i] = q
      <4>1. {j \in {i} : list[j] \in {q}} = {i}
        BY <3>2
      <4> QED
        BY <3>1, <3>2, <4>1 DEF OneIf
    <3>3. CASE list[i] # q
      <4>1. {j \in {i} : list[j] \in {q}} = {}
        BY <3>3
      <4> QED
        BY <3>1, <3>3, <4>1 DEF OneIf
    <3> QED
      BY <3>2, <3>3
  <2>4. CountIn(Entries(list, rest), {q}) \in Nat /\ OneIf(list[i], q) \in Nat
    BY <1>3, WhereIs DEF OneIf
  <2> QED
    BY <2>1, <2>2, <2>3, <2>4
<1> QED
  BY <1>2, <1>3, <1>4

(* A leave of a player who is shown takes just that player. *)
LEMMA RemovedWhich ==
  ASSUME NEW list \in Seq(Players), NEW p \in Players
  PROVE  /\ Removed(list, p) \in Seq(Players)
         /\ CountIn(list, {p}) # 0 =>
              \A q : CountIn(Removed(list, p), {q}) + OneIf(p, q) = CountIn(list, {q})
<1> DEFINE same == Carriers(list, p.name)
           near == Nearest(list, same, p)
<1>1. same \in SUBSET (DOMAIN list) /\ \A i \in DOMAIN list : list[i] \in Players /\ (i \in same <=> list[i].name = p.name)
  BY ElementsAre DEF Carriers
<1>2. Timed(Players)
  BY DEF Timed, Players
<1> HIDE DEF same
<1>3. same # {} => near \in same /\ \A j \in same : Gap(list[near], p) <= Gap(list[j], p)
  BY <1>1, <1>2, NearestIsFree DEF Timed
<1>4. Removed(list, p) = IF same = {} THEN list ELSE Without(list, near)
  BY DEF Removed, same
<1> HIDE DEF near
<1>5. Removed(list, p) \in Seq(Players)
  BY <1>1, <1>3, <1>4, WithoutOne
<1>6. ASSUME CountIn(list, {p}) # 0
      PROVE  \A q : CountIn(Removed(list, p), {q}) + OneIf(p, q) = CountIn(list, {q})
  <2>1. PICK i \in DOMAIN list : list[i] = p
    BY <1>6, KindIsThere
  <2>2. i \in same
    BY <1>1, <2>1
  <2>3. near \in same /\ near \in DOMAIN list /\ Gap(list[near], p) <= Gap(list[i], p)
    BY <1>1, <1>3, <2>2
  <2>4. list[near] = p
    <3> PICK r : r = list[near]
      OBVIOUS
    <3>1. r \in Players /\ r.name = p.name /\ Gap(r, p) <= Gap(p, p)
      BY <1>1, <2>1, <2>3
    <3>2. r.since \in Int /\ p.since \in Int
      BY <1>2, <3>1 DEF Timed
    <3>3. r.since = p.since
      BY <3>1, <3>2 DEF Gap
    <3> QED
      BY <3>1, <3>3 DEF Players
  <2>5. \A q : CountIn(Without(list, near), {q}) + OneIf(list[near], q) = CountIn(list, {q})
    BY <2>3, WithoutOne
  <2>6. Removed(list, p) = Without(list, near)
    BY <1>4, <2>2
  <2> QED
    BY <2>4, <2>5, <2>6
<1> QED
  BY <1>5, <1>6

(* One leave after another, from the list known. *)
LEMMA LeavingIs ==
  ASSUME known \in Seq(Players), NEW gone \in Seq(Players)
  PROVE  /\ Leaving(gone)[0] = known
         /\ \A k \in 1..Len(gone) : Leaving(gone)[k] = Removed(Leaving(gone)[k - 1], gone[k])
         /\ \A k \in 0..Len(gone) : Leaving(gone)[k] \in Seq(Players)
<1> DEFINE n == Len(gone)
           S == Seq(Players)
           step == [k \in 1..n |-> [list \in S |-> Removed(list, gone[k])]]
           body(f) == [k \in 0..n |-> IF k = 0 THEN known ELSE Removed(f[k - 1], gone[k])]
<1>1. n \in Nat /\ \A k \in 1..n : gone[k] \in Players
  BY ElementsAre
<1>2. step \in [1..n -> [S -> S]]
  <2>1. \A k \in 1..n : \A list \in S : Removed(list, gone[k]) \in S
    BY <1>1, RemovedWhich
  <2> HIDE DEF n, S
  <2> QED
    BY <2>1
<1>3. \E f : Recursive(f, n, S, known, step)
  <2> HIDE DEF n, step
  <2> QED
    BY <1>1, <1>2, Recursion
<1>4. PICK f \in [0..n -> S] : f[0] = known /\ \A k \in 1..n : f[k] = step[k][f[k - 1]]
  BY <1>3 DEF Recursive
<1>5. f = body(f)
  <2>1. \A k \in 1..n : k - 1 \in 0..n
    BY <1>1
  <2>2. \A k \in 1..n : f[k - 1] \in S
    BY <1>4, <2>1
  <2>3. \A k \in 1..n : step[k][f[k - 1]] = Removed(f[k - 1], gone[k])
    BY <2>2
  <2>4. \A k \in 0..n : k = 0 \/ k \in 1..n
    BY <1>1
  <2> HIDE DEF step, S, n
  <2> QED
    BY <1>4, <2>3, <2>4
<1> DEFINE shown == Leaving(gone)
<1>6. shown = body(shown)
  BY <1>5 DEF Leaving
<1>7. shown[0] = known /\ \A k \in 1..n : shown[k] = Removed(shown[k - 1], gone[k])
  <2>1. 0 \in 0..n /\ \A k \in 1..n : k \in 0..n /\ k # 0
    BY <1>1
  <2> HIDE DEF shown, n
  <2> QED
    BY <1>6, <2>1
<1>8. \A k \in 0..n : shown[k] \in S
  <2> DEFINE holds == {k \in 0..n : shown[k] \in S}
  <2> HIDE DEF shown
  <2>1. 0 \in holds
    BY <1>1, <1>7
  <2>2. \A k \in 1..n : k - 1 \in holds => k \in holds
    <3>1. \A k \in 1..n : k \in 0..n
      BY <1>1
    <3>2. \A k \in 1..n : shown[k - 1] \in S => Removed(shown[k - 1], gone[k]) \in S
      BY <1>1, RemovedWhich
    <3> HIDE DEF n, S
    <3> QED
      BY <1>7, <3>1, <3>2
  <2>3. \A k \in 0..n : k \in holds
    <3> HIDE DEF holds, n
    <3> QED
      BY <1>1, <2>1, <2>2, Climb
  <2> QED
    BY <2>3
<1> QED
  BY <1>7, <1>8

(* How often a player is among the first of a list. *)
FirstOf(list, k, p) == {i \in 1..k : list[i] = p}

(* Whether the next entry is that player is all the count of the first changes by. *)
LEMMA FirstCounts ==
  ASSUME NEW list \in Seq(Players), NEW k \in 1..Len(list), NEW p
  PROVE  /\ Cardinality(FirstOf(list, 0, p)) = 0
         /\ Cardinality(FirstOf(list, k - 1, p)) \in Nat
         /\ Cardinality(FirstOf(list, k, p)) = Cardinality(FirstOf(list, k - 1, p)) + OneIf(list[k], p)
         /\ Cardinality(FirstOf(list, k, p)) <= CountIn(list, {p})
<1> DEFINE before == FirstOf(list, k - 1, p)
           upto == FirstOf(list, k, p)
<1>0. Len(list) \in Nat /\ DOMAIN list = 1..Len(list)
  OBVIOUS
<1>1. IsFiniteSet(before) /\ Cardinality(before) \in Nat /\ k \notin before
  <2>1. before \in SUBSET (1..(k - 1)) /\ k - 1 \in Nat /\ k \notin 1..(k - 1)
    BY <1>0 DEF FirstOf
  <2> HIDE DEF before
  <2>2. IsFiniteSet(before) /\ Cardinality(before) \in Nat
    BY <2>1, PlacesFinite
  <2> QED
    BY <2>1, <2>2
<1>2. \A i : i \in 1..k <=> i \in 1..(k - 1) \/ i = k
  BY <1>0
<1>3. Cardinality(upto) = Cardinality(before) + OneIf(list[k], p)
  <2>1. CASE list[k] = p
    <3>1. upto = before \union {k}
      BY <1>2, <2>1 DEF FirstOf
    <3> HIDE DEF before, upto
    <3> QED
      BY <1>1, <2>1, <3>1, FS_AddElement DEF OneIf
  <2>2. CASE list[k] # p
    <3>1. upto = before
      BY <1>2, <2>2 DEF FirstOf
    <3> HIDE DEF before, upto
    <3> QED
      BY <1>1, <2>2, <3>1 DEF OneIf
  <2> QED
    BY <2>1, <2>2
<1>4. Cardinality(upto) <= CountIn(list, {p})
  <2>1. upto \subseteq Where(list, {p})
    <3>1. \A i \in 1..k : i \in DOMAIN list
      BY <1>0
    <3> QED
      BY <3>1 DEF FirstOf, Where
  <2>2. IsFiniteSet(Where(list, {p}))
    BY WhereIs
  <2> HIDE DEF upto
  <2> QED
    BY <2>1, <2>2, FS_Subset DEF CountIn
<1>5. Cardinality(FirstOf(list, 0, p)) = 0
  <2>1. FirstOf(list, 0, p) = {}
    BY DEF FirstOf
  <2> QED
    BY <2>1, FS_EmptySet
<1> QED
  BY <1>1, <1>3, <1>4, <1>5

(* Everybody who leaves was shown, so each leave takes just its player, and *)
(* those who stay are left.                                                 *)
LEMMA LeavesAreTaken ==
  ASSUME known \in Seq(Players), NEW gone \in Seq(Players), NEW kept \in Seq(Players),
         \A p \in Players : CountIn(kept, {p}) + CountIn(gone, {p}) = CountIn(known, {p})
  PROVE  \A p \in Players : CountIn(Leaving(gone)[Len(gone)], {p}) = CountIn(kept, {p})
<1> PICK shown : shown = Leaving(gone)
  OBVIOUS
<1> DEFINE n == Len(gone)
           firsts(k, p) == Cardinality(FirstOf(gone, k, p))
           fits(k) == \A p \in Players : CountIn(shown[k], {p}) + firsts(k, p) = CountIn(known, {p})
           holds == {k \in 0..n : fits(k)}
<1>1. /\ shown[0] = known
      /\ \A k \in 1..n : shown[k] = Removed(shown[k - 1], gone[k])
      /\ \A k \in 0..n : shown[k] \in Seq(Players)
  BY LeavingIs
<1>2. n \in Nat /\ \A k \in 1..n : gone[k] \in Players /\ k - 1 \in 0..n /\ k \in 0..n
  BY ElementsAre
<1>3. \A p, S : /\ CountIn(kept, S) \in Nat /\ CountIn(gone, S) \in Nat /\ CountIn(known, S) \in Nat
                /\ \A k \in 0..n : CountIn(shown[k], S) \in Nat
  BY <1>1, WhereIs
<1>4. \A p : FirstOf(gone, 0, p) = {}
  BY DEF FirstOf
<1>5. 0 \in holds
  <2>1. \A p : firsts(0, p) = 0
    BY <1>4, FS_EmptySet
  <2>2. fits(0)
    BY <1>1, <1>3, <2>1
  <2> QED
    BY <1>2, <2>2
<1>6. ASSUME NEW k \in 1..n, k - 1 \in holds
      PROVE  k \in holds
  <2> DEFINE g == gone[k]
             had == shown[k - 1]
             has == shown[k]
  <2>1. /\ g \in Players /\ k - 1 \in 0..n /\ k \in 0..n /\ fits(k - 1)
        /\ had \in Seq(Players) /\ has = Removed(had, g)
    BY <1>1, <1>2, <1>6
  <2>2. \A p : /\ firsts(k - 1, p) \in Nat
               /\ firsts(k, p) = firsts(k - 1, p) + OneIf(g, p)
               /\ firsts(k, p) <= CountIn(gone, {p})
    BY FirstCounts
  <2>3. \A p : OneIf(g, p) \in Nat /\ OneIf(g, g) = 1
    BY DEF OneIf
  <2>4. \A p \in Players : CountIn(had, {p}) + firsts(k - 1, p) = CountIn(known, {p})
    BY <2>1
  <2>5. \A p : CountIn(had, {p}) \in Nat
    BY <1>3, <2>1
  <2> HIDE DEF firsts, g, had, has
  <2>6. CountIn(had, {g}) # 0
    <3>1. /\ firsts(k, g) = firsts(k - 1, g) + 1 /\ firsts(k, g) <= CountIn(gone, {g})
          /\ CountIn(had, {g}) + firsts(k - 1, g) = CountIn(known, {g})
          /\ CountIn(kept, {g}) + CountIn(gone, {g}) = CountIn(known, {g})
          /\ firsts(k - 1, g) \in Nat /\ CountIn(kept, {g}) \in Nat /\ CountIn(gone, {g}) \in Nat
      BY <1>3, <2>1, <2>2, <2>3, <2>4
    <3> QED
      BY <3>1
  <2>7. \A p : CountIn(has, {p}) + OneIf(g, p) = CountIn(had, {p})
    BY <2>1, <2>6, RemovedWhich
  <2>8. \A p : CountIn(has, {p}) \in Nat
    BY <1>3, <2>1 DEF has
  <2>9. \A p \in Players : CountIn(has, {p}) + firsts(k, p) = CountIn(known, {p})
    <3> SUFFICES ASSUME NEW p \in Players
                 PROVE  CountIn(has, {p}) + firsts(k, p) = CountIn(known, {p})
      OBVIOUS
    <3>1. /\ CountIn(had, {p}) + firsts(k - 1, p) = CountIn(known, {p})
          /\ firsts(k, p) = firsts(k - 1, p) + OneIf(g, p)
          /\ CountIn(has, {p}) + OneIf(g, p) = CountIn(had, {p})
          /\ firsts(k - 1, p) \in Nat /\ OneIf(g, p) \in Nat
          /\ CountIn(had, {p}) \in Nat /\ CountIn(has, {p}) \in Nat
      BY <2>2, <2>3, <2>4, <2>5, <2>7, <2>8
    <3> QED
      BY <3>1
  <2> QED
    BY <2>1, <2>9 DEF has
<1>7. fits(n)
  <2> HIDE DEF holds, n
  <2>1. \A k \in 0..n : k \in holds
    BY <1>2, <1>5, <1>6, Climb
  <2>2. n \in 0..n
    BY <1>2
  <2> QED
    BY <2>1, <2>2 DEF holds
<1>8. \A p : FirstOf(gone, n, p) = Where(gone, {p})
  <2>1. DOMAIN gone = 1..n
    OBVIOUS
  <2> QED
    BY <2>1 DEF FirstOf, Where
<1>9. \A p : firsts(n, p) = CountIn(gone, {p})
  BY <1>8 DEF CountIn
<1> HIDE DEF firsts
<1>10. ASSUME NEW p \in Players
       PROVE  CountIn(shown[n], {p}) = CountIn(kept, {p})
  <2>1. /\ CountIn(shown[n], {p}) + CountIn(gone, {p}) = CountIn(known, {p})
        /\ CountIn(kept, {p}) + CountIn(gone, {p}) = CountIn(known, {p})
    BY <1>7, <1>9
  <2>2. CountIn(shown[n], {p}) \in Nat /\ CountIn(kept, {p}) \in Nat /\ CountIn(gone, {p}) \in Nat
    <3>1. n \in 0..n
      BY <1>2
    <3> HIDE DEF n
    <3> QED
      BY <1>3, <3>1
  <2> QED
    BY <2>1, <2>2
<1> QED
  BY <1>10

(* Of every kind of namesakes, not only by name, who stayed and who left are *)
(* the old list.                                                             *)
LEMMA DiffShares ==
  ASSUME NEW old \in Seq(Players), NEW new \in Seq(Players), NEW d, d = Diff(old, new)
  PROVE  \A n \in Names : \A S \in SUBSET Namesakes(n) :
           CountIn(d.kept, S) + CountIn(d.left, S) = CountIn(old, S)
<1> SUFFICES ASSUME NEW n \in Names, NEW S \in SUBSET Namesakes(n)
             PROVE  CountIn(d.kept, S) + CountIn(d.left, S) = CountIn(old, S)
  OBVIOUS
<1> PICK p : p = PartFor(old, new, n)
  OBVIOUS
<1>1. PICK again : PartShares(p, again, Namesakes(n), Named(old, n), Named(new, n))
  BY PartOfNamesakes
<1>2. Shares(p.kept, p.left, Named(old, n))
  BY <1>1 DEF PartShares
<1>3. CountIn(p.kept, S) + CountIn(p.left, S) = CountIn(Named(old, n), S)
  BY <1>2 DEF Shares
<1>4. CountIn(d.kept, S) = CountIn(p.kept, S) /\ CountIn(d.left, S) = CountIn(p.left, S)
  BY DiffByName DEF CountsLike
<1> QED
  BY <1>3, <1>4, NamedCounts

(* So of every player. *)
LEMMA PlayersShared ==
  ASSUME NEW old \in Seq(Players), NEW new \in Seq(Players), NEW d, d = Diff(old, new)
  PROVE  \A p \in Players : CountIn(d.kept, {p}) + CountIn(d.left, {p}) = CountIn(old, {p})
<1> SUFFICES ASSUME NEW p \in Players
             PROVE  CountIn(d.kept, {p}) + CountIn(d.left, {p}) = CountIn(old, {p})
  OBVIOUS
<1>1. p.name \in Names /\ {p} \in SUBSET Namesakes(p.name)
  BY DEF Players, Namesakes
<1> QED
  BY <1>1, DiffShares

(* The page that takes the leaves and appends the joins holds what the watch *)
(* holds.                                                                    *)
LEMMA PageFollowsDiff ==
  ASSUME known \in Seq(Players), polled \in Seq(Players), NEW d, d = Diff(known, polled)
  PROVE  PageFollows(d)
<1>1. d.left \in Seq(Players) /\ d.joined \in Seq(Players) /\ d.kept \in Seq(Players)
  BY DiffBalances DEF Difference
<1> PICK gone : gone = d.left
  OBVIOUS
<1> PICK kept : kept = d.kept
  OBVIOUS
<1> PICK shown : shown = Leaving(gone)[Len(gone)]
  OBVIOUS
<1>2. \A p \in Players : CountIn(kept, {p}) + CountIn(gone, {p}) = CountIn(known, {p})
  BY PlayersShared
<1>3. gone \in Seq(Players) /\ kept \in Seq(Players)
  BY <1>1
<1>4. \A p \in Players : CountIn(shown, {p}) = CountIn(kept, {p})
  BY <1>2, <1>3, LeavesAreTaken
<1>5. shown \in Seq(Players)
  <2>1. Len(gone) \in 0..Len(gone)
    BY <1>3
  <2> QED
    BY <1>3, <2>1, LeavingIs
<1>6. shown \o d.joined \in Seq(Players) /\ kept \o d.joined \in Seq(Players)
  BY <1>1, <1>3, <1>5
<1>7. \A p \in Players : CountIn(shown \o d.joined, {p}) = CountIn(kept \o d.joined, {p})
  BY <1>1, <1>3, <1>4, <1>5, KindJoin
<1>8. Bag(shown \o d.joined) = Bag(kept \o d.joined)
  BY <1>6, <1>7, SameBag
<1> QED
  BY <1>8 DEF PageFollows, PageAfter, NewList

(* By name the lists balance. *)
LEMMA NamesBalance ==
  ASSUME known \in Seq(Players), polled \in Seq(Players), NEW d, d = Diff(known, polled)
  PROVE  Balances(d)
<1>1. \A n \in Names : /\ CountOf(d.kept, n) + CountOf(d.left, n) = CountOf(known, n)
                       /\ CountOf(d.kept, n) + CountOf(d.joined, n) = CountOf(polled, n)
  BY DiffBalances DEF Difference, Balanced
<1>2. \A list : \A n \in Names : NameCount(list)[n] = CountOf(list, n)
  BY DEF NameCount, CountOf
<1>3. \A list : NameCount(list) = [n \in Names |-> CountOf(list, n)]
  BY DEF NameCount, CountOf
<1> QED
  BY <1>1, <1>2, <1>3 DEF Balances, Sum

(* Where, of some places, a list has entries of a kind. *)
Hits(list, places, S) == {i \in places : list[i] \in S}

(* A poll that finds some of the players again, each within a gap of the time *)
(* known, on a list where namesakes are far enough apart.                    *)
Reread(old, now, new, rest, g) ==
  /\ g \in 0..Drift /\ Apart(old, 2 * g)
  /\ now \in Seq(Players) /\ Len(now) = Len(old)
  /\ \A i \in DOMAIN old : now[i].name = old[i].name /\ Gap(now[i], old[i]) <= g
  /\ rest \in SUBSET (DOMAIN old)
  /\ \A S : CountIn(new, S) = Cardinality(Hits(now, rest, S))

(* A list counts all its entries. *)
LEMMA AllCount ==
  ASSUME NEW T, NEW list \in Seq(T)
  PROVE  CountIn(list, T) = Len(list)
<1>1. Where(list, T) = 1..Len(list) /\ Len(list) \in Nat
  BY ElementsAre DEF Where
<1> QED
  BY <1>1, Numbered DEF CountIn

(* The facts about a poll that the next lemmas start from. *)
LEMMA RereadFacts ==
  ASSUME NEW old \in Seq(Players), NEW new \in Seq(Players), NEW now, NEW rest, NEW g,
         Reread(old, now, new, rest, g)
  PROVE  /\ g \in Nat /\ g \in 0..Drift
         /\ now \in Seq(Players) /\ rest \in SUBSET (DOMAIN old) /\ DOMAIN now = DOMAIN old
         /\ \A i \in DOMAIN old : /\ old[i] \in Players /\ now[i] \in Players
                                  /\ now[i].name = old[i].name
                                  /\ Gap(now[i], old[i]) <= g /\ Gap(old[i], now[i]) <= g
         /\ \A S : IsFiniteSet(Hits(now, rest, S)) /\ CountIn(new, S) = Cardinality(Hits(now, rest, S))
         /\ \A S : CountIn(new, S) # 0 <=> \E i \in rest : now[i] \in S
         /\ \A i, j \in DOMAIN old : old[i].name = old[j].name /\ Gap(now[i], old[j]) <= g => i = j
<1>1. Drift \in Nat
  BY DiffAssumption
<1>2. g \in Nat /\ g \in 0..Drift
  BY <1>1 DEF Reread
<1>3. /\ now \in Seq(Players) /\ rest \in SUBSET (DOMAIN old) /\ DOMAIN now = DOMAIN old
      /\ \A S : CountIn(new, S) = Cardinality(Hits(now, rest, S))
  BY DEF Reread
<1>4. /\ \A i \in DOMAIN old : old[i] \in Players /\ now[i] \in Players
      /\ \A p \in Players : p.since \in Int
  BY <1>3, ElementsAre DEF Players
<1>5. \A i \in DOMAIN old : now[i].name = old[i].name /\ Gap(now[i], old[i]) <= g
  BY DEF Reread
<1>6. \A i, j \in DOMAIN old : Gap(now[i], old[j]) = Gap(old[j], now[i])
  BY <1>4, GapIsMutual
<1>7. \A S : IsFiniteSet(Hits(now, rest, S))
  <2>1. Len(old) \in Nat /\ DOMAIN old = 1..Len(old)
    OBVIOUS
  <2>2. \A S : Hits(now, rest, S) \in SUBSET (1..Len(old))
    BY <1>3, <2>1 DEF Hits
  <2> QED
    BY <2>1, <2>2, PlacesFinite
<1>8. \A S : CountIn(new, S) # 0 <=> \E i \in rest : now[i] \in S
  <2> SUFFICES ASSUME NEW S PROVE CountIn(new, S) # 0 <=> \E i \in rest : now[i] \in S
    OBVIOUS
  <2> DEFINE hits == Hits(now, rest, S)
  <2>1. CountIn(new, S) = Cardinality(hits) /\ IsFiniteSet(hits)
    BY <1>3, <1>7
  <2>2. hits = {} <=> ~\E i \in rest : now[i] \in S
    BY DEF Hits
  <2> HIDE DEF hits
  <2>3. Cardinality(hits) = 0 <=> hits = {}
    BY <2>1, FS_EmptySet
  <2> QED
    BY <2>1, <2>2, <2>3
<1>9. ASSUME NEW i \in DOMAIN old, NEW j \in DOMAIN old, old[i].name = old[j].name, Gap(now[i], old[j]) <= g
      PROVE  i = j
  <2>1. Gap(old[i], now[i]) <= g /\ Gap(old[j], now[i]) <= g
    BY <1>5, <1>6, <1>9
  <2>2. Gap(old[i], old[j]) <= 2 * g
    BY <1>2, <1>4, <2>1, NearBoth
  <2>3. i # j => Gap(old[i], old[j]) > 2 * g
    BY <1>9 DEF Reread, Apart
  <2>4. Gap(old[i], old[j]) \in Nat
    BY <1>4, GapIsNatural
  <2> DEFINE far == Gap(old[i], old[j])
  <2>5. far \in Nat /\ far <= 2 * g /\ (i # j => far > 2 * g)
    BY <2>2, <2>3, <2>4
  <2> HIDE DEF far
  <2> QED
    BY <1>2, <2>5
<1> QED
  BY <1>2, <1>3, <1>4, <1>5, <1>6, <1>7, <1>8, <1>9

(* The found are no more than the known, and if as many, all were found. *)
LEMMA FoundAreKnown ==
  ASSUME NEW old \in Seq(Players), NEW new \in Seq(Players), NEW now, NEW rest, NEW g,
         Reread(old, now, new, rest, g), NEW n \in Names
  PROVE  /\ Len(Named(new, n)) <= Len(Named(old, n))
         /\ Len(Named(old, n)) <= Len(Named(new, n)) => Carriers(old, n) \subseteq rest
<1> DEFINE T == Namesakes(n)
           hits == Hits(now, rest, T)
           all == Carriers(old, n)
<1>1. /\ Named(new, n) \in Seq(T) /\ Len(Named(old, n)) = Cardinality(all)
      /\ IsFiniteSet(all) /\ Cardinality(all) \in Nat
  BY NamedAre, CarriersAre DEF CountOf
<1>2. /\ rest \in SUBSET (DOMAIN old) /\ CountIn(new, T) = Cardinality(hits)
      /\ \A i \in DOMAIN old : now[i] \in Players /\ now[i].name = old[i].name
  BY RereadFacts
<1>3. Len(Named(new, n)) = Cardinality(hits)
  <2>1. T \in SUBSET T
    OBVIOUS
  <2>2. CountIn(Named(new, n), T) = CountIn(new, T)
    BY <2>1, NamedCounts
  <2>3. CountIn(Named(new, n), T) = Len(Named(new, n))
    BY <1>1, AllCount
  <2> QED
    BY <1>2, <2>2, <2>3
<1>4. hits \subseteq all /\ hits \subseteq rest
  BY <1>2 DEF Hits, Carriers, Namesakes
<1> HIDE DEF hits, all, T
<1>5. Cardinality(hits) <= Cardinality(all) /\ Cardinality(hits) \in Nat /\ (Cardinality(hits) = Cardinality(all) => hits = all)
  BY <1>1, <1>4, FS_Subset, FS_CardinalityType
<1>6. Cardinality(all) <= Cardinality(hits) => all \subseteq rest
  BY <1>1, <1>4, <1>5
<1> QED
  BY <1>1, <1>3, <1>5, <1>6 DEF all

(* Each name's players are recognised. *)
LEMMA RereadRecognised ==
  ASSUME NEW old \in Seq(Players), NEW new \in Seq(Players), NEW now, NEW rest, NEW g,
         Reread(old, now, new, rest, g), NEW n \in Names
  PROVE  BothRecognised(Named(old, n), Named(new, n), g)
<1> PICK T : T = Namesakes(n)
  OBVIOUS
<1> PICK olds : olds = Named(old, n)
  OBVIOUS
<1> PICK news : news = Named(new, n)
  OBVIOUS
<1>1. /\ g \in Nat /\ rest \in SUBSET (DOMAIN old)
      /\ \A i \in DOMAIN old : /\ old[i] \in Players /\ now[i] \in Players
                               /\ now[i].name = old[i].name
                               /\ Gap(now[i], old[i]) <= g /\ Gap(old[i], now[i]) <= g
      /\ \A S : IsFiniteSet(Hits(now, rest, S)) /\ CountIn(new, S) = Cardinality(Hits(now, rest, S))
      /\ \A S : CountIn(new, S) # 0 <=> \E i \in rest : now[i] \in S
      /\ \A i, j \in DOMAIN old : old[i].name = old[j].name /\ Gap(now[i], old[j]) <= g => i = j
  BY RereadFacts
<1>2. /\ olds \in Seq(T) /\ news \in Seq(T)
      /\ \A k \in DOMAIN olds : olds[k] \in T /\ \E i \in Carriers(old, n) : olds[k] = old[i]
      /\ \A k \in DOMAIN news : news[k] \in T
      /\ \A p \in T : p.name = n /\ p.since \in Int
      /\ \A p \in Players : p.name = n => p \in T
  <2>1. olds \in Seq(T) /\ news \in Seq(T) /\ \A k \in 1..Len(olds) : \E i \in Carriers(old, n) : olds[k] = old[i]
    BY NamedAre
  <2>2. \A p \in T : p.name = n /\ p.since \in Int
    BY DEF Namesakes
  <2>3. \A p \in Players : p.name = n => p \in T
    BY DEF Players, Namesakes
  <2>4. DOMAIN olds = 1..Len(olds)
    BY <2>1
  <2> QED
    BY <2>1, <2>2, <2>3, <2>4, ElementsAre
<1>3. \A p, q \in T : Gap(p, q) \in Nat /\ Gap(p, q) = Gap(q, p)
  BY <1>2, GapIsNatural, GapIsMutual
<1>4. \A S \in SUBSET T : CountIn(olds, S) = CountIn(old, S) /\ CountIn(news, S) = CountIn(new, S)
  BY NamedCounts
<1>5. \A i \in DOMAIN old : i \in Carriers(old, n) <=> old[i].name = n
  BY DEF Carriers
<1>6. ASSUME NEW k \in DOMAIN news
      PROVE  \E i \in DOMAIN olds : Gap(olds[i], news[k]) <= g
  <2> PICK p : p = news[k]
    OBVIOUS
  <2> DEFINE B == Ball(T, p, g)
  <2>1. p \in T /\ {p} \in SUBSET T /\ B \in SUBSET T
    BY <1>2 DEF Ball
  <2>2. CountIn(news, {p}) # 0
    BY <1>2, KindCounts
  <2>3. PICK i \in rest : now[i] = p
    BY <1>1, <1>4, <2>1, <2>2
  <2>4. i \in DOMAIN old /\ old[i] \in B
    BY <1>1, <1>2, <2>1, <2>3 DEF Ball
  <2> HIDE DEF B
  <2>5. CountIn(olds, B) # 0
    BY <1>4, <2>1, <2>4, KindCounts
  <2>6. PICK j \in DOMAIN olds : olds[j] \in B
    BY <1>2, <2>5, KindIsThere
  <2> QED
    BY <2>6 DEF B, Ball
<1>7. ASSUME NEW q \in T
      PROVE  \A i, j \in DOMAIN olds : Gap(olds[i], q) <= g /\ Gap(olds[j], q) <= g => i = j
  <2> SUFFICES ASSUME NEW i \in DOMAIN olds, NEW j \in DOMAIN olds,
                      Gap(olds[i], q) <= g, Gap(olds[j], q) <= g, i # j
               PROVE  FALSE
    OBVIOUS
  <2> DEFINE far == Gap(olds[i], olds[j])
  <2>1. far <= 2 * g
    BY <1>1, <1>2, NearBoth
  <2>2. far > 2 * g
    <3>1. Apart(old, 2 * g)
      BY DEF Reread
    <3> QED
      BY <3>1, NamedApart
  <2>3. far \in Nat
    BY <1>2, <1>3
  <2> HIDE DEF far
  <2> QED
    BY <1>1, <2>1, <2>2, <2>3
<1>8. ASSUME NEW k \in DOMAIN olds
      PROVE  \A i, j \in DOMAIN news : Gap(news[i], olds[k]) <= g /\ Gap(news[j], olds[k]) <= g => i = j
  <2> PICK q : q = olds[k]
    OBVIOUS
  <2> DEFINE B == Ball(T, q, g)
             hits == Hits(now, rest, B)
  <2>1. PICK c \in DOMAIN old : old[c] = q /\ old[c].name = n
    BY <1>2, <1>5 DEF Carriers
  <2>2. \A i \in hits : i = c
    BY <1>1, <1>2, <2>1 DEF Hits, Ball
  <2>3. B \in SUBSET T /\ \A i \in DOMAIN news : Gap(news[i], q) <= g => i \in Where(news, B)
    BY <1>2 DEF Ball, Where
  <2>4. CountIn(news, B) = Cardinality(hits) /\ IsFiniteSet(hits)
    BY <1>1, <1>4, <2>3
  <2> HIDE DEF B, hits
  <2>5. Cardinality(hits) <= 1
    <3>1. Cardinality({c}) = 1 /\ IsFiniteSet({c})
      BY FS_Singleton
    <3>2. hits \subseteq {c}
      BY <2>2
    <3> QED
      BY <3>1, <3>2, FS_Subset
  <2>6. \A i, j \in Where(news, B) : i = j
    BY <1>2, <2>4, <2>5, KindAtMostOne
  <2> QED
    BY <2>3, <2>6
<1>9. Recognised(news, olds, g)
  <2>1. \A j, k \in DOMAIN news, i \in DOMAIN olds :
          Gap(olds[i], news[j]) <= g /\ Gap(olds[i], news[k]) <= g => j = k
    BY <1>2, <1>3, <1>8
  <2> QED
    BY <1>2, <1>6, <1>7, <2>1 DEF Recognised
<1>10. ASSUME Len(olds) <= Len(news)
       PROVE  Recognised(olds, news, g)
  <2>1. Carriers(old, n) \subseteq rest
    BY <1>10, FoundAreKnown
  <2>2. ASSUME NEW k \in DOMAIN olds
        PROVE  \E i \in DOMAIN news : Gap(news[i], olds[k]) <= g
    <3> PICK q : q = olds[k]
      OBVIOUS
    <3> DEFINE B == Ball(T, q, g)
    <3>1. PICK c \in Carriers(old, n) : old[c] = q
      BY <1>2
    <3>2. c \in rest /\ c \in DOMAIN old /\ now[c] \in B
      BY <1>1, <1>2, <2>1, <3>1 DEF Carriers, Ball
    <3>3. B \in SUBSET T
      BY DEF Ball
    <3> HIDE DEF B
    <3>4. CountIn(news, B) # 0
      BY <1>1, <1>4, <3>2, <3>3
    <3>5. PICK j \in DOMAIN news : news[j] \in B
      BY <1>2, <3>4, KindIsThere
    <3> QED
      BY <3>5 DEF B, Ball
  <2>3. \A j, k \in DOMAIN olds, i \in DOMAIN news :
          Gap(news[i], olds[j]) <= g /\ Gap(news[i], olds[k]) <= g => j = k
    BY <1>2, <1>3, <1>7
  <2> QED
    BY <1>2, <1>8, <2>2, <2>3 DEF Recognised
<1> QED
  BY <1>9, <1>10 DEF BothRecognised

(* One name's part of such a poll: nobody joins, and who stays is found. *)
LEMMA RereadPart ==
  ASSUME NEW old \in Seq(Players), NEW new \in Seq(Players), NEW now, NEW rest, NEW g,
         Reread(old, now, new, rest, g), NEW n \in Names, NEW p, p = PartFor(old, new, n)
  PROVE  /\ p.joined = <<>>
         /\ \A q \in Namesakes(n) : CountIn(p.kept, {q}) = Cardinality(Hits(old, rest, {q}))
<1> PICK T : T = Namesakes(n)
  OBVIOUS
<1> PICK olds : olds = Named(old, n)
  OBVIOUS
<1> PICK news : news = Named(new, n)
  OBVIOUS
<1>1. /\ g \in Nat /\ g \in 0..Drift /\ rest \in SUBSET (DOMAIN old)
      /\ \A i \in DOMAIN old : /\ old[i] \in Players /\ now[i] \in Players
                               /\ now[i].name = old[i].name
                               /\ Gap(now[i], old[i]) <= g /\ Gap(old[i], now[i]) <= g
      /\ \A S : CountIn(new, S) = Cardinality(Hits(now, rest, S))
      /\ \A i, j \in DOMAIN old : old[i].name = old[j].name /\ Gap(now[i], old[j]) <= g => i = j
  BY RereadFacts
<1>2. BothRecognised(olds, news, g) /\ Len(news) <= Len(olds)
  BY RereadRecognised, FoundAreKnown
<1>3. /\ p.kept \in Seq(T)
      /\ \E again : PartShares(p, again, T, olds, news)
  BY PartOfNamesakes
<1>4. PICK again : PartShares(p, again, T, olds, news)
  BY <1>3
<1>5. AllRecognised(p, again, T, olds, news, g)
  BY <1>1, <1>2, <1>4 DEF PartShares
<1>6. p.joined = <<>> /\ Again(p, again, T, news, g)
  BY <1>2, <1>5 DEF AllRecognised
<1> PICK kept : kept = p.kept
  OBVIOUS
<1>7. /\ kept \in Seq(T) /\ again \in Seq(T) /\ Len(again) = Len(kept)
      /\ \A i \in 1..Len(kept) : Gap(kept[i], again[i]) <= g
      /\ Shares(again, <<>>, news)
  BY <1>3, <1>6 DEF Again
<1>8. \A S \in SUBSET T : CountIn(again, S) = CountIn(new, S)
  <2> SUFFICES ASSUME NEW S \in SUBSET T PROVE CountIn(again, S) = CountIn(new, S)
    OBVIOUS
  <2>1. CountIn(again, S) + CountIn(<<>>, S) = CountIn(news, S) /\ CountIn(<<>>, S) = 0
    BY <1>7, KindOfNone DEF Shares
  <2>2. CountIn(again, S) \in Nat
    BY <1>7, WhereIs
  <2>3. CountIn(news, S) = CountIn(new, S)
    BY NamedCounts
  <2> QED
    BY <2>1, <2>2, <2>3
<1>9. \A S \in SUBSET T : CountIn(kept, S) + CountIn(p.left, S) = CountIn(old, S)
  <2>1. Shares(kept, p.left, olds)
    BY <1>4 DEF PartShares
  <2>2. \A S \in SUBSET T : CountIn(olds, S) = CountIn(old, S)
    BY NamedCounts
  <2> QED
    BY <2>1, <2>2 DEF Shares
<1>10. /\ \A q \in T : q.name = n /\ q.since \in Int /\ {q} \in SUBSET T
       /\ \A q \in Players : q.name = n => q \in T
       /\ \A i \in 1..Len(kept) : kept[i] \in T /\ again[i] \in T /\ i \in DOMAIN kept
  <2>1. /\ \A q \in T : q.name = n /\ q.since \in Int /\ {q} \in SUBSET T
        /\ \A q \in Players : q.name = n => q \in T
    BY DEF Namesakes, Players
  <2>2. DOMAIN kept = 1..Len(kept) /\ DOMAIN again = 1..Len(kept)
    BY <1>7
  <2>3. \A i \in 1..Len(kept) : kept[i] \in T /\ again[i] \in T
    BY <1>7, <2>2, ElementsAre
  <2> QED
    BY <2>1, <2>2, <2>3
<1>11. \A q, r \in T : Gap(q, r) \in Nat /\ Gap(q, r) = Gap(r, q)
  BY <1>10, GapIsNatural, GapIsMutual
<1>12. \A i \in 1..Len(kept) : \E j \in DOMAIN old : old[j] = kept[i]
  <2> SUFFICES ASSUME NEW i \in 1..Len(kept) PROVE \E j \in DOMAIN old : old[j] = kept[i]
    OBVIOUS
  <2> PICK k : k = kept[i]
    OBVIOUS
  <2>1. k \in T /\ {k} \in SUBSET T /\ i \in DOMAIN kept
    BY <1>10
  <2>2. CountIn(kept, {k}) # 0
    BY <1>7, <2>1, KindCounts
  <2>3. CountIn(kept, {k}) + CountIn(p.left, {k}) = CountIn(old, {k})
    BY <1>9, <2>1
  <2>4. CountIn(kept, {k}) \in Nat /\ CountIn(p.left, {k}) \in Nat
    <3>1. p.left \in Seq(T)
      BY PartOfNamesakes
    <3> QED
      BY <1>7, <3>1, WhereIs
  <2>5. CountIn(old, {k}) # 0
    BY <2>2, <2>3, <2>4
  <2>6. PICK j \in DOMAIN old : old[j] \in {k}
    BY <2>5, KindIsThere
  <2> QED
    BY <2>6
<1>13. ASSUME NEW q \in T, NEW c \in DOMAIN old, old[c] = q
       PROVE  CountIn(kept, {q}) = Cardinality(Hits(old, rest, {q}))
  <2> DEFINE B == Ball(T, q, g)
  <2>1. B \in SUBSET T
    BY DEF Ball
  <2>2. \A i \in DOMAIN old : old[i].name = n /\ Gap(now[i], q) <= g => i = c
    BY <1>1, <1>10, <1>13
  <2>3. \A i \in DOMAIN old : old[i].name = n /\ Gap(old[i], q) <= 2 * g => i = c
    <3> SUFFICES ASSUME NEW i \in DOMAIN old, old[i].name = n, Gap(old[i], q) <= 2 * g, i # c PROVE FALSE
      OBVIOUS
    <3> DEFINE far == Gap(old[i], old[c])
    <3>1. far > 2 * g
      BY <1>10, <1>13 DEF Reread, Apart
    <3>2. far <= 2 * g /\ far \in Nat
      BY <1>1, <1>10, <1>11, <1>13
    <3> HIDE DEF far
    <3> QED
      BY <1>1, <3>1, <3>2
  <2>4. ASSUME NEW i \in 1..Len(kept)
        PROVE  kept[i] \in {q} <=> again[i] \in B
    <3>1. kept[i] \in T /\ again[i] \in T /\ Gap(kept[i], again[i]) <= g /\ Gap(again[i], kept[i]) <= g
      BY <1>7, <1>10, <1>11
    <3>2. kept[i] = q => again[i] \in B
      BY <3>1 DEF Ball
    <3>3. ASSUME again[i] \in B
          PROVE  kept[i] = q
      <4>1. PICK j \in DOMAIN old : old[j] = kept[i]
        BY <1>12
      <4>2. Gap(again[i], q) <= g /\ Gap(q, again[i]) <= g
        BY <1>11, <3>1, <3>3 DEF Ball
      <4>3. Gap(kept[i], q) <= 2 * g
        BY <1>1, <1>10, <3>1, <4>2, NearBoth
      <4>4. j = c
        BY <1>10, <2>3, <3>1, <4>1, <4>3
      <4> QED
        BY <1>13, <4>1, <4>4
    <3> QED
      BY <3>2, <3>3
  <2>5. Hits(now, rest, B) = Hits(old, rest, {q})
    <3>1. ASSUME NEW i \in rest
          PROVE  now[i] \in B <=> old[i] \in {q}
      <4>1. i \in DOMAIN old
        BY <1>1
      <4>2. ASSUME now[i] \in B
            PROVE  old[i] = q
        <5>1. Gap(now[i], q) <= g /\ now[i].name = n
          BY <1>10, <4>2 DEF Ball
        <5>2. i = c
          BY <1>1, <2>2, <4>1, <5>1
        <5> QED
          BY <1>13, <5>2
      <4>3. ASSUME old[i] = q
            PROVE  now[i] \in B
        BY <1>1, <1>10, <4>1, <4>3 DEF Ball
      <4> QED
        BY <4>2, <4>3
    <3> QED
      BY <3>1 DEF Hits
  <2> HIDE DEF B
  <2>6. CountIn(kept, {q}) = CountIn(again, B)
    BY <1>7, <2>4, KindsAgree
  <2>7. CountIn(again, B) = Cardinality(Hits(now, rest, B))
    BY <1>1, <1>8, <2>1
  <2> QED
    BY <2>5, <2>6, <2>7
<1>14. ASSUME NEW q \in T, \A c \in DOMAIN old : old[c] # q
       PROVE  CountIn(kept, {q}) = Cardinality(Hits(old, rest, {q}))
  <2>1. Hits(old, rest, {q}) = {}
    BY <1>1, <1>14 DEF Hits
  <2>2. \A i \in DOMAIN kept : kept[i] \notin {q}
    <3>1. DOMAIN kept = 1..Len(kept)
      BY <1>7
    <3> QED
      BY <1>12, <1>14, <3>1
  <2>3. CountIn(kept, {q}) = 0
    BY <1>7, <2>2, KindIsThere
  <2> QED
    BY <2>1, <2>3, FS_EmptySet
<1> QED
  BY <1>6, <1>13, <1>14

(* The whole difference of such a poll: the found stay, the others leave. *)
LEMMA RereadStays ==
  ASSUME NEW old \in Seq(Players), NEW new \in Seq(Players), NEW now, NEW rest, NEW g,
         Reread(old, now, new, rest, g), NEW d, d = Diff(old, new)
  PROVE  /\ d.joined = <<>>
         /\ Bag(d.kept) = Bag(Entries(old, rest))
         /\ Bag(d.left) = Bag(Entries(old, DOMAIN old \ rest))
<1>1. d.left \in Seq(Players) /\ d.kept \in Seq(Players)
  BY DiffBalances DEF Difference
<1> DEFINE others == DOMAIN old \ rest
<1>2. /\ rest \in SUBSET (DOMAIN old) /\ others \in SUBSET (DOMAIN old)
      /\ rest \intersect others = {} /\ rest \union others = DOMAIN old
  BY RereadFacts
<1>3. d.joined = <<>>
  <2>1. \A n \in Names : PartFor(old, new, n).joined = <<>>
    BY RereadPart
  <2> QED
    BY <2>1, QuietByName
<1> HIDE DEF others
<1>4. Entries(old, rest) \in Seq(Players) /\ Entries(old, others) \in Seq(Players)
  BY <1>2, EntriesAre
<1>5. ASSUME NEW q \in Players
      PROVE  CountIn(d.kept, {q}) = CountIn(Entries(old, rest), {q})
  <2>1. q.name \in Names /\ q \in Namesakes(q.name) /\ {q} \in SUBSET Namesakes(q.name)
    BY DEF Players, Namesakes
  <2>2. CountIn(PartFor(old, new, q.name).kept, {q}) = Cardinality(Hits(old, rest, {q}))
    BY <2>1, RereadPart
  <2>3. CountIn(d.kept, {q}) = CountIn(PartFor(old, new, q.name).kept, {q})
    BY <2>1, DiffByName DEF CountsLike
  <2>4. CountIn(Entries(old, rest), {q}) = Cardinality(Hits(old, rest, {q}))
    BY <1>2, KindEntries DEF Hits
  <2> QED
    BY <2>2, <2>3, <2>4
<1>6. ASSUME NEW q \in Players
      PROVE  CountIn(d.left, {q}) = CountIn(Entries(old, others), {q})
  <2>1. CountIn(d.kept, {q}) + CountIn(d.left, {q}) = CountIn(old, {q})
    BY PlayersShared
  <2>2. CountIn(Entries(old, rest), {q}) + CountIn(Entries(old, others), {q}) = CountIn(old, {q})
    BY <1>2, KindSplit
  <2>3. /\ CountIn(d.kept, {q}) \in Nat /\ CountIn(d.left, {q}) \in Nat
        /\ CountIn(Entries(old, others), {q}) \in Nat
    BY <1>1, <1>4, WhereIs
  <2> QED
    BY <1>5, <2>1, <2>2, <2>3
<1>7. Bag(d.kept) = Bag(Entries(old, rest))
  BY <1>1, <1>4, <1>5, SameBag
<1>8. Bag(d.left) = Bag(Entries(old, others))
  BY <1>1, <1>4, <1>6, SameBag
<1> QED
  BY <1>3, <1>7, <1>8 DEF others

(* A list the other way round counts the same. *)
LEMMA ReverseCounts ==
  ASSUME NEW T, NEW list \in Seq(T)
  PROVE  Reverse(list) \in Seq(T) /\ \A S : CountIn(Reverse(list), S) = CountIn(list, S)
<1> DEFINE back == Reverse(list)
           n == Len(list)
<1>1. n \in Nat /\ DOMAIN list = 1..n /\ \A i \in 1..n : list[i] \in T /\ n - i + 1 \in 1..n /\ n - (n - i + 1) + 1 = i
  BY ElementsAre
<1>2. back = [i \in 1..n |-> list[(n - i) + 1]]
  BY DEF Reverse
<1> HIDE DEF back
<1>3. back \in [1..n -> T]
  BY <1>1, <1>2
<1>4. back \in Seq(T) /\ DOMAIN back = 1..n /\ \A i \in 1..n : back[i] = list[n - i + 1]
  BY <1>1, <1>2, <1>3
<1>5. ASSUME NEW S
      PROVE  CountIn(back, S) = CountIn(list, S)
  <2> DEFINE f == [i \in Where(back, S) |-> n - i + 1]
             X == Where(back, S)
             Y == Where(list, S)
  <2>1. IsFiniteSet(X)
    BY <1>4, WhereIs
  <2>2. /\ \A i : i \in X <=> i \in 1..n /\ list[n - i + 1] \in S
        /\ \A i : i \in Y <=> i \in 1..n /\ list[i] \in S
    BY <1>1, <1>4 DEF Where
  <2>3. f \in [X -> Y]
    <3>1. \A i \in X : n - i + 1 \in Y
      BY <1>1, <2>2
    <3> QED
      BY <3>1
  <2>4. \A i, j \in X : f[i] = f[j] => i = j
    <3>1. \A i \in X : i \in Int
      BY <2>2
    <3> QED
      BY <1>1, <3>1
  <2>5. ASSUME NEW j \in Y
        PROVE  \E i \in X : f[i] = j
    <3> PICK i : i = n - j + 1
      OBVIOUS
    <3>1. j \in 1..n /\ list[j] \in S
      BY <2>2
    <3>2. i \in 1..n /\ n - i + 1 = j
      BY <1>1, <3>1
    <3>3. i \in X
      BY <2>2, <3>1, <3>2
    <3> QED
      BY <3>2, <3>3
  <2> HIDE DEF f, X, Y
  <2>6. Cardinality(Y) = Cardinality(X)
    BY <2>1, <2>3, <2>4, <2>5, OneToOne
  <2> QED
    BY <2>6 DEF CountIn, X, Y
<1> QED
  BY <1>4, <1>5 DEF back

(* All the entries of a list are the list. *)
LEMMA AllEntries ==
  ASSUME NEW T, NEW list \in Seq(T)
  PROVE  Entries(list, DOMAIN list) = list
<1> DEFINE n == Len(list)
<1>1. n \in Nat /\ DOMAIN list = 1..n /\ IsFiniteSet(1..n) /\ Cardinality(1..n) = n /\ 1..n \in SUBSET Int
  BY Numbered
<1>2. ASSUME NEW k \in 1..n
      PROVE  Nth(1..n, k) = k
  <2> PICK i : i = Nth(1..n, k)
    OBVIOUS
  <2>1. i \in 1..n /\ Rank(1..n, i) = k
    BY <1>1, NthFinds
  <2>2. {j \in 1..n : j <= i} = 1..i /\ i \in Nat
    BY <1>1, <2>1
  <2>3. Rank(1..n, i) = i
    BY <2>2, Numbered DEF Rank
  <2> QED
    BY <2>1, <2>3
<1>3. Entries(list, 1..n) = [k \in 1..n |-> list[Nth(1..n, k)]]
  BY <1>1 DEF Entries
<1>4. list = [k \in 1..n |-> list[k]]
  BY <1>1
<1> QED
  BY <1>1, <1>2, <1>3, <1>4

(* A list with its times misreported. *)
Jittered(list, err) == [i \in DOMAIN list |-> [list[i] EXCEPT !.since = @ + err[i]]]

(* A misread list has the same players at shifted times. *)
LEMMA JitteredIs ==
  ASSUME NEW list \in Seq(Players), NEW err \in [DOMAIN list -> Int]
  PROVE  /\ Jittered(list, err) \in Seq(Players) /\ Len(Jittered(list, err)) = Len(list)
         /\ DOMAIN Jittered(list, err) = DOMAIN list
         /\ \A i \in DOMAIN list : /\ Jittered(list, err)[i].name = list[i].name
                                   /\ Jittered(list, err)[i].since = list[i].since + err[i]
<1> DEFINE s == Jittered(list, err)
           n == Len(list)
<1>1. n \in Nat /\ DOMAIN list = 1..n /\ \A i \in 1..n : list[i] \in Players
  BY ElementsAre
<1>2. s = [i \in 1..n |-> [list[i] EXCEPT !.since = @ + err[i]]]
  BY <1>1 DEF Jittered
<1> HIDE DEF s
<1>3. \A i \in 1..n : /\ s[i] \in Players /\ s[i].name = list[i].name
                      /\ s[i].since = list[i].since + err[i]
  <2> SUFFICES ASSUME NEW i \in 1..n
               PROVE  s[i] \in Players /\ s[i].name = list[i].name /\ s[i].since = list[i].since + err[i]
    OBVIOUS
  <2> PICK p : p = list[i]
    OBVIOUS
  <2>1. s[i] = [p EXCEPT !.since = @ + err[i]] /\ p \in [name : Names, since : Int] /\ err[i] \in Int
    BY <1>1, <1>2 DEF Players
  <2> QED
    BY <2>1 DEF Players
<1>4. s \in [1..n -> Players]
  BY <1>2, <1>3
<1>5. s \in Seq(Players) /\ Len(s) = n /\ DOMAIN s = 1..n
  BY <1>1, <1>4
<1> QED
  BY <1>1, <1>3, <1>5 DEF s

(* The page's leave, off by no more than the page's times. *)
LEMMA NearestDespiteJitter ==
  ASSUME NEW g \in Nat, NEW u, NEW v, NEW p, NEW q, NEW r, u.since \in Int, v.since \in Int,
         p.since = u.since \/ p.since = u.since + g,
         q.since = v.since \/ q.since = v.since + g,
         r.since = u.since \/ r.since = u.since + g,
         Gap(u, v) > 2 * g
  PROVE  ~(Gap(q, r) <= Gap(p, r))
<1>1. Gap(p, r) <= g
  BY DEF Gap
<1>2. Gap(q, r) > g
  BY DEF Gap
<1>3. Gap(p, r) \in Nat /\ Gap(q, r) \in Nat
  BY GapIsNatural
<1> DEFINE x == Gap(p, r)
           y == Gap(q, r)
<1>4. x \in Nat /\ y \in Nat /\ x <= g /\ y > g
  BY <1>1, <1>2, <1>3
<1> HIDE DEF x, y
<1>5. ~(y <= x)
  BY <1>4
<1> QED
  BY <1>5 DEF x, y

(* A time is misread by no more than the drift that is forgiven. *)
LEMMA JitterIsNatural ==
  Jitter \in Nat /\ Jitter \in 0..Drift
BY DiffAssumption, CasesAssumption

(* The leave takes the player it names. *)
LEMMA RightOneLeaves ==
  ASSUME known \in Seq(Players), Apart(known, 2 * Jitter), NEW i \in DOMAIN known
  PROVE  RightOneGoes(i)
<1> SUFFICES ASSUME NEW err \in [DOMAIN known -> {0, Jitter}], NEW e \in {0, Jitter}
             PROVE  Removed(Misread(known, DOMAIN known, err), [known[i] EXCEPT !.since = @ + e])
                      = Misread(known, DOMAIN known \ {i}, err)
  BY DEF RightOneGoes
<1> PICK shown : shown = Jittered(known, err)
  OBVIOUS
<1> PICK gone : gone = [known[i] EXCEPT !.since = @ + e]
  OBVIOUS
<1>1. Jitter \in Nat /\ \A j \in DOMAIN known : known[j] \in Players
  BY JitterIsNatural, ElementsAre
<1>2. err \in [DOMAIN known -> Int] /\ e \in Int /\ \A j \in DOMAIN known : err[j] \in {0, Jitter}
  BY <1>1
<1>3. /\ shown \in Seq(Players) /\ DOMAIN shown = DOMAIN known
      /\ \A j \in DOMAIN known : /\ shown[j].name = known[j].name
                                 /\ shown[j].since = known[j].since + err[j]
  BY <1>2, JitteredIs
<1>4. gone \in Players /\ gone.name = known[i].name /\ gone.since = known[i].since + e
  <2> PICK p : p = known[i]
    OBVIOUS
  <2>1. gone = [p EXCEPT !.since = @ + e] /\ p \in [name : Names, since : Int]
    BY <1>1 DEF Players
  <2>2. gone \in [name : Names, since : Int] /\ gone.name = p.name /\ gone.since = p.since + e
    BY <1>2, <2>1
  <2> QED
    BY <2>2 DEF Players
<1> DEFINE same == Carriers(shown, gone.name)
           near == Nearest(shown, same, gone)
<1>5. i \in same /\ same \in SUBSET (DOMAIN shown) /\ \A j \in same : shown[j].name = known[i].name
  BY <1>3, <1>4 DEF Carriers
<1> HIDE DEF same
<1>6. near \in same /\ \A j \in same : Gap(shown[near], gone) <= Gap(shown[j], gone)
  <2>1. same # {} /\ \A p \in Players : p.since \in Int
    BY <1>5 DEF Players
  <2> QED
    BY <1>3, <1>4, <1>5, <2>1, NearestIsFree
<1> HIDE DEF near
<1>7. near = i
  <2> SUFFICES ASSUME near # i PROVE FALSE
    OBVIOUS
  <2>1. near \in DOMAIN known /\ known[near].name = known[i].name
    BY <1>3, <1>5, <1>6
  <2>2. Gap(known[i], known[near]) > 2 * Jitter
    BY <2>1 DEF Apart
  <2>3. known[i].since \in Int /\ known[near].since \in Int
    BY <1>1, <2>1 DEF Players
  <2>4. ~(Gap(shown[near], gone) <= Gap(shown[i], gone))
    <3>1. \A j \in DOMAIN known : known[j].since \in Int =>
            shown[j].since = known[j].since \/ shown[j].since = known[j].since + Jitter
      BY <1>2, <1>3
    <3>2. gone.since = known[i].since \/ gone.since = known[i].since + Jitter
      BY <1>4, <2>3
    <3> QED
      BY <1>1, <2>1, <2>2, <2>3, <3>1, <3>2, NearestDespiteJitter
  <2> QED
    BY <1>5, <1>6, <2>4
<1>8. Removed(shown, gone) = Entries(shown, DOMAIN known \ {i})
  <2>1. Removed(shown, gone) = Without(shown, near)
    BY <1>5 DEF Removed, same, near
  <2> QED
    BY <1>3, <1>7, <2>1 DEF Without
<1>9. \A places : Misread(known, places, err) = Entries(shown, places)
  BY DEF Misread, Jittered
<1>10. Entries(shown, DOMAIN known) = shown
  BY <1>3, AllEntries
<1> QED
  BY <1>8, <1>9, <1>10

(* A poll that misreports the times of those who stay finds just them. *)
LEMMA RightOnesAreKept ==
  ASSUME known \in Seq(Players), Apart(known, 2 * Jitter), NEW rest \in SUBSET (DOMAIN known)
  PROVE  RightOnesStay(rest)
<1> SUFFICES ASSUME NEW err \in [DOMAIN known -> {-Jitter, 0, Jitter}]
             PROVE  OnlyTheRestStay(Diff(known, Reverse(Misread(known, rest, err))), rest)
  BY DEF RightOnesStay
<1> PICK now : now = Jittered(known, err)
  OBVIOUS
<1> PICK found : found = Misread(known, rest, err)
  OBVIOUS
<1> PICK new : new = Reverse(found)
  OBVIOUS
<1> PICK d : d = Diff(known, new)
  OBVIOUS
<1>1. Jitter \in Nat /\ Jitter \in 0..Drift /\ \A j \in DOMAIN known : known[j] \in Players
  BY JitterIsNatural, ElementsAre
<1>2. err \in [DOMAIN known -> Int] /\ \A j \in DOMAIN known : err[j] \in {-Jitter, 0, Jitter}
  BY <1>1
<1>3. /\ now \in Seq(Players) /\ Len(now) = Len(known) /\ DOMAIN now = DOMAIN known
      /\ \A j \in DOMAIN known : now[j].name = known[j].name /\ now[j].since = known[j].since + err[j]
  BY <1>2, JitteredIs
<1>4. \A j \in DOMAIN known : Gap(now[j], known[j]) <= Jitter
  <2> SUFFICES ASSUME NEW j \in DOMAIN known PROVE Gap(now[j], known[j]) <= Jitter
    OBVIOUS
  <2>1. known[j].since \in Int
    BY <1>1 DEF Players
  <2> QED
    BY <1>1, <1>2, <1>3, <2>1 DEF Gap
<1>5. found = Entries(now, rest)
  BY DEF Misread, Jittered
<1>6. found \in Seq(Players) /\ \A S : CountIn(found, S) = Cardinality(Hits(now, rest, S))
  <2>1. rest \in SUBSET (DOMAIN now)
    BY <1>3
  <2>2. \A S : CountIn(Entries(now, rest), S) = Cardinality({j \in rest : now[j] \in S})
    BY <1>3, <2>1, KindEntries
  <2> QED
    BY <1>3, <1>5, <2>1, <2>2, EntriesAre DEF Hits
<1>7. new \in Seq(Players) /\ \A S : CountIn(new, S) = Cardinality(Hits(now, rest, S))
  BY <1>6, ReverseCounts
<1>8. Reread(known, now, new, rest, Jitter)
  BY <1>1, <1>3, <1>4, <1>7 DEF Reread
<1>9. /\ d.joined = <<>>
      /\ Bag(d.kept) = Bag(Entries(known, rest))
      /\ Bag(d.left) = Bag(Entries(known, DOMAIN known \ rest))
  BY <1>7, <1>8, RereadStays
<1>10. OnlyTheRestStay(d, rest)
  BY <1>9 DEF OnlyTheRestStay
<1> QED
  BY <1>10

-----------------------------------------------------------------------------
(* The three properties, of every two lists *)

(* Both are lists of players. *)
PlayerLists == known \in Seq(Players) /\ polled \in Seq(Players)

(* The lists to compare are lists of players. *)
LEMMA StartingLists == DiffInit => PlayerLists
<1> SUFFICES ASSUME DiffInit PROVE PlayerLists
  OBVIOUS
<1>1. PICK shape \in Shapes : known \in Lists(shape) /\ polled \in Lists(shape)
  BY DEF DiffInit
<1>2. shape.names \subseteq Names /\ shape.len \in Nat /\ shape.time \in Nat
  BY CasesAssumption
<1>3. [name : shape.names, since : 0..shape.time] \subseteq Players
  BY <1>2 DEF Players
<1>4. ASSUME NEW list \in Lists(shape)
      PROVE  list \in Seq(Players)
  <2>1. PICK n \in 0..shape.len : list \in [1..n -> [name : shape.names, since : 0..shape.time]]
    BY DEF Lists
  <2>2. n \in Nat /\ list \in [1..n -> Players]
    BY <1>2, <1>3, <2>1
  <2> QED
    BY <2>2
<1> QED
  BY <1>1, <1>4 DEF PlayerLists

(* And so is the list the watch keeps of them. *)
LEMMA StayingLists == PlayerLists /\ [DiffNext]_<<known, polled>> => PlayerLists'
<1> SUFFICES ASSUME PlayerLists, [DiffNext]_<<known, polled>> PROVE PlayerLists'
  OBVIOUS
<1>1. CASE DiffNext
  <2>1. Settled \in Seq(Players)
    <3>1. Diff(known, polled).kept \in Seq(Players) /\ Diff(known, polled).joined \in Seq(Players)
      BY DiffBalances DEF Difference, PlayerLists
    <3> QED
      BY <3>1 DEF Settled, NewList
  <2> QED
    BY <1>1, <2>1 DEF DiffNext, PlayerLists
<1>2. CASE UNCHANGED <<known, polled>>
  BY <1>2 DEF PlayerLists
<1> QED
  BY <1>1, <1>2

(* diff_players loses and invents nobody: by name the lists balance, and a page *)
(* that takes each leave and appends each join holds exactly the players, times *)
(* included, that the watch holds.                                             *)
THEOREM DiffLosesNobody == DiffSpec => []ListsBalance
<1>1. PlayerLists => ListsBalance
  BY PageFollowsDiff, NamesBalance DEF ListsBalance, PlayerLists
<1> QED
  BY <1>1, StartingLists, StayingLists, PTL DEF DiffSpec

(* A server that answers the same list again causes no event, as long as players *)
(* sharing a name connected more than twice the drift apart.                    *)
THEOREM SameAnswerIsQuiet == DiffSpec => []SameListIsQuiet
<1>1. PlayerLists => SameListIsQuiet
  BY SettledIsQuiet DEF SameListIsQuiet, Settled, PlayerLists
<1> QED
  BY <1>1, StartingLists, StayingLists, PTL DEF DiffSpec

(* Duplicates count separately and the right one leaves, on the server and on *)
(* the page, as long as players sharing a name are far enough apart.          *)
THEOREM TheRightOneLeaves == DiffSpec => []NamesakesToldApart
<1>1. PlayerLists => NamesakesToldApart
  BY RightOnesAreKept, RightOneLeaves DEF NamesakesToldApart, PlayerLists
<1> QED
  BY <1>1, StartingLists, StayingLists, PTL DEF DiffSpec
=============================================================================
