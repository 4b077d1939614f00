---------------------------- MODULE NumberLemmas ----------------------------
(***************************************************************************)
(* What the other proofs need of the numbers: least and greatest members,  *)
(* induction over a set of numbers, the listing of a finite set in order,  *)
(* and how many places of a listing hold one of some values.               *)
(***************************************************************************)
EXTENDS Integers, Sequences, FiniteSets, Listings, FiniteSetTheorems, WellFoundedInduction, TLAPS

\* the pairs of numbers of which the first is the smaller
Smaller == {pair \in Nat \X Nat : pair[1] < pair[2]}

\* A set of numbers that is not empty has a least one.
LEMMA LeastNumber ==
  ASSUME NEW T, T \subseteq Nat, T # {}
  PROVE  \E least \in T : \A n \in T : least <= n
<1>1. IsWellFoundedOn(Smaller, Nat)
  BY NatLessThanWellFounded DEF OpToRel, Smaller
<1>2. PICK least \in T : \A n \in T : <<n, least>> \notin Smaller
  BY <1>1, WFMin
<1>3. ASSUME NEW n \in T PROVE least <= n
  <2>1. n \in Nat /\ least \in Nat
    OBVIOUS
  <2>2. ~(n < least)
    BY <1>2, <2>1 DEF Smaller
  <2> QED
    BY <2>1, <2>2
<1> QED
  BY <1>2, <1>3

\* A bounded set of numbers that is not empty has a greatest one.
LEMMA GreatestNumber ==
  ASSUME NEW T, T \subseteq Nat, T # {}, NEW bound \in Nat, \A n \in T : n <= bound
  PROVE  \E greatest \in T : \A n \in T : n <= greatest
<1> DEFINE above == {m \in Nat : \A n \in T : n <= m}
<1>1. PICK least \in above : \A m \in above : least <= m
  <2>1. above \subseteq Nat /\ above # {}
    OBVIOUS
  <2> HIDE DEF above
  <2> QED
    BY <2>1, LeastNumber
<1>2. ASSUME least \notin T PROVE FALSE
  <2>1. PICK n \in T : TRUE
    OBVIOUS
  <2>2. \A m \in T : m < least
    BY <1>1, <1>2
  <2>3. least - 1 \in above
    BY <2>1, <2>2
  <2> QED
    BY <1>1, <2>3
<1> QED
  BY <1>1, <1>2

\* A set that holds 0 and with every number its successor holds all numbers.
LEMMA NumbersByInduction ==
  ASSUME NEW T, 0 \in T, \A n \in Nat : n \in T => n + 1 \in T
  PROVE  Nat \subseteq T
<1> DEFINE rest == Nat \ T
<1> SUFFICES ASSUME rest # {} PROVE FALSE
  OBVIOUS
<1>1. PICK least \in rest : \A n \in rest : least <= n
  <2> HIDE DEF rest
  <2>1. rest \subseteq Nat
    BY DEF rest
  <2> QED
    BY <2>1, LeastNumber
<1>2. least # 0 /\ least - 1 \in Nat /\ ~(least <= least - 1)
  OBVIOUS
<1>3. least - 1 \in T
  BY <1>1, <1>2
<1> QED
  BY <1>2, <1>3

\* A finite set of numbers can be listed in order.
Listing(listed, some) ==
    /\ listed \in [1..Cardinality(some) -> some]
    /\ \A i, j \in 1..Cardinality(some) : i < j => listed[i] < listed[j]

\* A finite set of numbers can be listed in order, each once.
LEMMA FiniteSetsAreListed ==
  ASSUME NEW some \in SUBSET Nat, IsFiniteSet(some)
  PROVE  \E listed : Listing(listed, some) /\ some = {listed[i] : i \in 1..Cardinality(some)}
<1> DEFINE Listable(S) == \E listed : Listing(listed, S) /\ S = {listed[i] : i \in 1..Cardinality(S)}
           sizes == {n \in Nat : \A S \in SUBSET Nat : IsFiniteSet(S) /\ Cardinality(S) = n => Listable(S)}
<1>1. 0 \in sizes
  <2>1. ASSUME NEW S \in SUBSET Nat, IsFiniteSet(S), Cardinality(S) = 0 PROVE Listable(S)
    <3>1. S = {}
      BY <2>1, FS_EmptySet
    <3>2. Listing(<<>>, S) /\ S = {<<>>[i] : i \in 1..Cardinality(S)}
      BY <2>1, <3>1 DEF Listing
    <3> QED
      BY <3>2
  <2> QED
    BY <2>1
<1>2. ASSUME NEW n \in Nat, n \in sizes PROVE n + 1 \in sizes
  <2>1. ASSUME NEW S \in SUBSET Nat, IsFiniteSet(S), Cardinality(S) = n + 1 PROVE Listable(S)
    <3>1. S # {}
      BY <2>1, FS_EmptySet
    <3>2. PICK least \in S : \A m \in S : least <= m
      BY <3>1, LeastNumber
    <3> DEFINE R == S \ {least}
    <3>3. IsFiniteSet(R) /\ Cardinality(R) = n /\ R \in SUBSET Nat
      <4>1. IsFiniteSet(R) /\ Cardinality(R) = Cardinality(S) - 1
        BY <2>1, FS_RemoveElement
      <4> QED
        BY <2>1, <4>1
    <3>4. PICK tail : Listing(tail, R) /\ R = {tail[i] : i \in 1..n}
      BY <1>2, <3>3
    <3>5. \A i \in 1..n : tail[i] \in R /\ \A j \in 1..n : i < j => tail[i] < tail[j]
      BY <3>3, <3>4 DEF Listing
    <3> DEFINE listed == [i \in 1..(n + 1) |-> IF i = 1 THEN least ELSE tail[i - 1]]
    <3>6. \A i \in 1..(n + 1) : listed[i] = IF i = 1 THEN least ELSE tail[i - 1]
      OBVIOUS
    <3>7. \A i \in 1..n : least < tail[i] /\ tail[i] \in Nat
      <4>1. ASSUME NEW i \in 1..n PROVE least < tail[i] /\ tail[i] \in Nat
        <5>1. tail[i] \in S /\ tail[i] # least
          BY <3>5
        <5>2. least \in Nat /\ tail[i] \in Nat /\ least <= tail[i]
          BY <3>2, <5>1
        <5> QED
          BY <5>1, <5>2
      <4> HIDE DEF R
      <4> QED
        BY <4>1
    <3>8. Listing(listed, S)
      <4>1. \A i \in 1..(n + 1) : i # 1 => i - 1 \in 1..n
        OBVIOUS
      <4>2. listed \in [1..(n + 1) -> S]
        BY <3>5, <3>6, <4>1
      <4>3. \A i, j \in 1..(n + 1) : i < j => listed[i] < listed[j]
        <5> SUFFICES ASSUME NEW i \in 1..(n + 1), NEW j \in 1..(n + 1), i < j PROVE listed[i] < listed[j]
          OBVIOUS
        <5>1. j # 1 /\ j - 1 \in 1..n
          OBVIOUS
        <5>2. CASE i = 1
          BY <3>6, <3>7, <5>1, <5>2
        <5>3. CASE i # 1
          <6>1. i - 1 \in 1..n /\ i - 1 < j - 1
            BY <5>3
          <6> QED
            BY <3>5, <3>6, <5>1, <5>3, <6>1
        <5> QED
          BY <5>2, <5>3
      <4> HIDE DEF listed
      <4> QED
        BY <2>1, <4>2, <4>3 DEF Listing
    <3>9. S = {listed[i] : i \in 1..(n + 1)}
      <4>1. ASSUME NEW m \in S PROVE m \in {listed[i] : i \in 1..(n + 1)}
        <5>1. CASE m = least
          BY <3>6, <5>1
        <5>2. CASE m # least
          <6>1. PICK i \in 1..n : m = tail[i]
            BY <3>4, <5>2
          <6>2. i + 1 \in 1..(n + 1) /\ i + 1 # 1 /\ (i + 1) - 1 = i
            OBVIOUS
          <6> QED
            BY <3>6, <6>1, <6>2
        <5> QED
          BY <5>1, <5>2
      <4>2. ASSUME NEW i \in 1..(n + 1) PROVE listed[i] \in S
        <5>1. i # 1 => i - 1 \in 1..n
          OBVIOUS
        <5> QED
          BY <3>5, <3>6, <5>1
      <4> HIDE DEF listed
      <4> QED
        BY <4>1, <4>2
    <3> HIDE DEF listed
    <3> QED
      BY <2>1, <3>8, <3>9
  <2> HIDE DEF Listable
  <2> QED
    BY <2>1
<1>3. Nat \subseteq sizes
  <2> HIDE DEF sizes
  <2> QED
    BY <1>1, <1>2, NumbersByInduction
<1> HIDE DEF Listable
<1>4. Cardinality(some) \in Nat
  BY FS_CardinalityType
<1>5. Listable(some)
  BY <1>3, <1>4
<1> QED
  BY <1>5 DEF Listable

\* A finite set of numbers is listed in order, each once.
LEMMA InOrderLists ==
  ASSUME NEW some \in SUBSET Nat, IsFiniteSet(some)
  PROVE  /\ InOrder(some) \in Seq(some) /\ Len(InOrder(some)) = Cardinality(some)
         /\ \A i, j \in 1..Len(InOrder(some)) : i < j => InOrder(some)[i] < InOrder(some)[j]
<1>1. Listing(InOrder(some), some)
  <2>1. PICK listed : Listing(listed, some)
    BY FiniteSetsAreListed
  <2> QED
    BY <2>1 DEF Listing, InOrder
<1>2. Cardinality(some) \in Nat
  BY FS_CardinalityType
<1> QED
  BY <1>1, <1>2 DEF Listing

\* A finite set of numbers has an upper bound.
LEMMA FiniteSetsAreBounded ==
  ASSUME NEW some \in SUBSET Nat, IsFiniteSet(some)
  PROVE  \E bound \in Nat : \A n \in some : n <= bound
<1>1. PICK listed : Listing(listed, some) /\ some = {listed[i] : i \in 1..Cardinality(some)}
  BY FiniteSetsAreListed
<1>2. Cardinality(some) \in Nat
  BY FS_CardinalityType
<1>3. CASE Cardinality(some) = 0
  BY <1>3, FS_EmptySet
<1>4. CASE Cardinality(some) # 0
  <2>1. Cardinality(some) \in 1..Cardinality(some)
    BY <1>2, <1>4
  <2>2. \A i \in 1..Cardinality(some) : listed[i] \in Nat /\ listed[i] <= listed[Cardinality(some)]
    <3> SUFFICES ASSUME NEW i \in 1..Cardinality(some) PROVE listed[i] \in Nat /\ listed[i] <= listed[Cardinality(some)]
      OBVIOUS
    <3>1. listed[i] \in Nat /\ listed[Cardinality(some)] \in Nat
      BY <1>1, <2>1 DEF Listing
    <3>2. i = Cardinality(some) \/ i < Cardinality(some)
      BY <1>2
    <3> QED
      BY <1>1, <2>1, <3>1, <3>2 DEF Listing
  <2> QED
    BY <1>1, <2>1, <2>2
<1> QED
  BY <1>3, <1>4

\* A listing of a finite set leaves nothing out.
LEMMA ListingsAreComplete ==
  ASSUME NEW some \in SUBSET Nat, IsFiniteSet(some), NEW listed, Listing(listed, some)
  PROVE  some = {listed[i] : i \in 1..Cardinality(some)}
<1>1. PICK size \in Nat : size = Cardinality(some)
  BY FS_CardinalityType
<1>2. listed \in [1..size -> some] /\ \A i, j \in 1..size : i < j => listed[i] < listed[j]
  BY <1>1 DEF Listing
<1>3. ASSUME NEW i \in 1..size, NEW j \in 1..size, listed[i] = listed[j] PROVE i = j
  <2>1. listed[i] \in some /\ listed[i] \in Nat
    BY <1>2
  <2>2. i < j \/ j < i \/ i = j
    OBVIOUS
  <2> QED
    BY <1>2, <1>3, <2>1, <2>2
<1>4. listed \in Injection(1..size, some)
  BY <1>2, <1>3 DEF Injection, IsInjective
<1>5. IsFiniteSet(1..size) /\ Cardinality(1..size) = size
  BY FS_Interval
<1>6. listed \in Surjection(1..size, some)
  BY <1>1, <1>4, <1>5, FS_Injection
<1> QED
  BY <1>1, <1>2, <1>6 DEF Surjection

\* What stands at some of the places keeps its order.
LEMMA AtPlacesKeepsOrder ==
  ASSUME NEW S, NEW sequence \in Seq(S), NEW places \in SUBSET DOMAIN sequence
  PROVE  /\ AtPlaces(sequence, places) \in Seq(S)
         /\ Cardinality(places) \in Nat
         /\ InOrder(places) \in [1..Cardinality(places) -> places]
         /\ \A k, m \in 1..Cardinality(places) : k < m => InOrder(places)[k] < InOrder(places)[m]
         /\ places = {InOrder(places)[k] : k \in 1..Cardinality(places)}
<1>1. places \in SUBSET Nat /\ places \subseteq 1..Len(sequence) /\ Len(sequence) \in Nat
  OBVIOUS
<1>2. IsFiniteSet(places)
  BY <1>1, FS_Interval, FS_Subset
<1>3. Cardinality(places) \in Nat
  BY <1>2, FS_CardinalityType
<1> DEFINE order == InOrder(places)
           size == Cardinality(places)
<1>4. Listing(order, places)
  <2>1. PICK listed : Listing(listed, places)
    BY <1>1, <1>2, FiniteSetsAreListed
  <2> QED
    BY <2>1 DEF Listing, InOrder
<1>5. places = {order[i] : i \in 1..size}
  <2> HIDE DEF order
  <2> QED
    BY <1>1, <1>2, <1>4, ListingsAreComplete
<1>6. order \in [1..size -> places] /\ \A k, m \in 1..size : k < m => order[k] < order[m]
  BY <1>4 DEF Listing
<1>7. AtPlaces(sequence, places) = [k \in 1..size |-> sequence[order[k]]]
  BY DEF AtPlaces
<1> HIDE DEF order, size
<1>8. [k \in 1..size |-> sequence[order[k]]] \in Seq(S)
  <2>1. \A k \in 1..size : sequence[order[k]] \in S
    BY <1>1, <1>6
  <2> QED
    BY <1>3, <2>1 DEF size
<1> QED
  BY <1>3, <1>5, <1>6, <1>7, <1>8 DEF size, order

\* A list of numbers that grows from one on has no number below its place.
LEMMA IncreasingGrows ==
  ASSUME NEW size \in Nat, NEW f, \A k \in 1..size : f[k] \in Nat \ {0},
         \A k, m \in 1..size : k < m => f[k] < f[m]
  PROVE  \A k \in 1..size : k <= f[k]
<1> DEFINE T == {k \in Nat : k \in 1..size => k <= f[k]}
<1>1. 0 \in T
  OBVIOUS
<1>2. ASSUME NEW k \in Nat, k \in T PROVE k + 1 \in T
  <2> SUFFICES ASSUME k + 1 \in 1..size PROVE k + 1 <= f[k + 1]
    OBVIOUS
  <2>1. CASE k = 0
    BY <2>1
  <2>2. CASE k # 0
    <3>1. k \in 1..size /\ k < k + 1
      BY <2>2
    <3>2. f[k] < f[k + 1] /\ k <= f[k] /\ f[k] \in Nat /\ f[k + 1] \in Nat
      BY <1>2, <3>1
    <3> QED
      BY <3>2
  <2> QED
    BY <2>1, <2>2
<1>3. Nat \subseteq T
  <2> HIDE DEF T
  <2> QED
    BY <1>1, <1>2, NumbersByInduction
<1> QED
  BY <1>3

\* All of a sequence, in order, is the sequence.
LEMMA AllPlacesAreAll ==
  ASSUME NEW S, NEW sequence \in Seq(S)
  PROVE  AtPlaces(sequence, DOMAIN sequence) = sequence
<1>1. PICK size \in Nat : DOMAIN sequence = 1..size /\ size = Len(sequence)
  OBVIOUS
<1>2. Cardinality(1..size) = size
  <2>1. size \in Int /\ 1 \in Int /\ size \in Nat
    BY <1>1
  <2>2. Cardinality(1..size) = IF 1 > size THEN 0 ELSE size - 1 + 1
    BY <2>1, FS_Interval
  <2> QED
    BY <2>1, <2>2
<1> DEFINE order == InOrder(1..size)
           back == [k \in 1..size |-> size + 1 - order[size + 1 - k]]
<1>3. order \in [1..size -> 1..size] /\ \A k, m \in 1..size : k < m => order[k] < order[m]
  BY <1>1, <1>2, AtPlacesKeepsOrder
<1>4. AtPlaces(sequence, 1..size) = [k \in 1..size |-> sequence[order[k]]]
  BY <1>2 DEF AtPlaces
<1> HIDE DEF order
<1>5. \A k \in 1..size : k <= order[k]
  <2>1. \A k \in 1..size : order[k] \in Nat \ {0}
    BY <1>3
  <2> QED
    BY <1>1, <1>3, <2>1, IncreasingGrows
<1>6. \A k \in 1..size : k <= back[k]
  <2>1. \A k \in 1..size : back[k] \in Nat \ {0}
    <3> SUFFICES ASSUME NEW k \in 1..size PROVE back[k] \in Nat \ {0}
      OBVIOUS
    <3>1. size + 1 - k \in 1..size
      BY <1>1
    <3>2. order[size + 1 - k] \in 1..size
      BY <1>3, <3>1
    <3> QED
      BY <1>1, <3>2
  <2>2. ASSUME NEW k \in 1..size, NEW m \in 1..size, k < m PROVE back[k] < back[m]
    <3>1. size + 1 - m \in 1..size /\ size + 1 - k \in 1..size /\ size + 1 - m < size + 1 - k
      BY <2>2
    <3>2. order[size + 1 - m] < order[size + 1 - k]
          /\ order[size + 1 - m] \in 1..size /\ order[size + 1 - k] \in 1..size
      BY <1>3, <3>1
    <3> QED
      BY <3>2
  <2> HIDE DEF back
  <2> QED
    BY <2>1, <2>2, IncreasingGrows
<1>7. ASSUME NEW k \in 1..size PROVE order[k] = k
  <2>1. size + 1 - k \in 1..size /\ size + 1 - (size + 1 - k) = k
    OBVIOUS
  <2>2. size + 1 - k <= size + 1 - order[k]
    BY <1>6, <2>1
  <2> QED
    BY <1>3, <1>5, <2>2
<1>8. [k \in 1..size |-> sequence[order[k]]] = sequence
  BY <1>1, <1>7
<1> QED
  BY <1>1, <1>4, <1>8

-----------------------------------------------------------------------------
\* f sums the parts up to each place
Sums(f, part, size) == f = [n \in 0..size |-> IF n = 0 THEN 0 ELSE f[n - 1] + part[n]]

\* Running sums exist, and each adds its part to the one before.
LEMMA SumsUnfold ==
  ASSUME NEW size \in Nat, NEW part
  PROVE  /\ \E f : Sums(f, part, size)
         /\ \A f : Sums(f, part, size) => f[0] = 0 /\ \A n \in 1..size : f[n] = f[n - 1] + part[n]
<1>1. ASSUME NEW up \in Nat, NEW f, Sums(f, part, up)
      PROVE  \A n \in 0..up : f[n] = IF n = 0 THEN 0 ELSE f[n - 1] + part[n]
  <2> DEFINE g == [n \in 0..up |-> IF n = 0 THEN 0 ELSE f[n - 1] + part[n]]
  <2>1. f = g
    BY <1>1 DEF Sums
  <2>2. \A n \in 0..up : g[n] = IF n = 0 THEN 0 ELSE f[n - 1] + part[n]
    OBVIOUS
  <2> HIDE DEF g
  <2> QED
    BY <2>1, <2>2
<1> DEFINE done == {n \in Nat : \E f : Sums(f, part, n)}
<1>2. 0 \in done
  <2> DEFINE f == [n \in 0..0 |-> 0]
  <2>1. f = [n \in 0..0 |-> IF n = 0 THEN 0 ELSE f[n - 1] + part[n]]
    OBVIOUS
  <2> HIDE DEF f
  <2> QED
    BY <2>1 DEF Sums
<1>3. ASSUME NEW n \in Nat, n \in done PROVE n + 1 \in done
  <2>1. PICK f : Sums(f, part, n)
    BY <1>3
  <2> DEFINE g == [k \in 0..(n + 1) |-> IF k = n + 1 THEN f[n] + part[n + 1] ELSE f[k]]
  <2>2. \A k \in 0..n : f[k] = IF k = 0 THEN 0 ELSE f[k - 1] + part[k]
    BY <1>1, <2>1
  <2>3. \A k \in 0..n : g[k] = f[k]
    OBVIOUS
  <2>4. g[n + 1] = g[n] + part[n + 1]
    OBVIOUS
  <2>5. DOMAIN g = 0..(n + 1) /\ g = [k \in 0..(n + 1) |-> g[k]]
    OBVIOUS
  <2> HIDE DEF g, done
  <2>6. \A k \in 0..(n + 1) : g[k] = IF k = 0 THEN 0 ELSE g[k - 1] + part[k]
    <3> SUFFICES ASSUME NEW k \in 0..(n + 1) PROVE g[k] = IF k = 0 THEN 0 ELSE g[k - 1] + part[k]
      OBVIOUS
    <3>1. CASE k = n + 1
      BY <2>4, <3>1
    <3>2. CASE k # n + 1
      <4>1. k \in 0..n /\ (k # 0 => k - 1 \in 0..n)
        BY <3>2
      <4> QED
        BY <2>2, <2>3, <4>1
    <3> QED
      BY <3>1, <3>2
  <2>7. g = [k \in 0..(n + 1) |-> IF k = 0 THEN 0 ELSE g[k - 1] + part[k]]
    BY <2>5, <2>6
  <2>8. \E h : Sums(h, part, n + 1)
    BY <2>7 DEF Sums
  <2> QED
    BY <2>8 DEF done
<1>4. Nat \subseteq done
  <2> HIDE DEF done
  <2> QED
    BY <1>2, <1>3, NumbersByInduction
<1>5. ASSUME NEW f, Sums(f, part, size) PROVE f[0] = 0 /\ \A n \in 1..size : f[n] = f[n - 1] + part[n]
  <2>1. \A n \in 0..size : f[n] = IF n = 0 THEN 0 ELSE f[n - 1] + part[n]
    BY <1>1, <1>5
  <2> QED
    BY <2>1
<1> QED
  BY <1>4, <1>5

\* Running sums of numbers are numbers.
LEMMA SumsAreNumbers ==
  ASSUME NEW size \in Nat, NEW part, \A n \in 1..size : part[n] \in Nat, NEW f, Sums(f, part, size)
  PROVE  \A n \in 0..size : f[n] \in Nat
<1> DEFINE good == {n \in Nat : n <= size => f[n] \in Nat}
<1>1. f[0] = 0 /\ \A n \in 1..size : f[n] = f[n - 1] + part[n]
  BY SumsUnfold
<1>2. 0 \in good
  BY <1>1
<1>3. ASSUME NEW n \in Nat, n \in good PROVE n + 1 \in good
  <2> SUFFICES ASSUME n + 1 <= size PROVE f[n + 1] \in Nat
    OBVIOUS
  <2>1. n + 1 \in 1..size /\ (n + 1) - 1 = n /\ f[n] \in Nat
    BY <1>3
  <2>2. f[n + 1] = f[n] + part[n + 1] /\ part[n + 1] \in Nat
    BY <1>1, <2>1
  <2> QED
    BY <2>1, <2>2
<1>4. Nat \subseteq good
  <2> HIDE DEF good
  <2> QED
    BY <1>2, <1>3, NumbersByInduction
<1> QED
  BY <1>4

-----------------------------------------------------------------------------
(* Orders and listings *)

\* R puts the numbers from 1 to size in some order
Orders(R, size) ==
    /\ \A i \in 1..size : <<i, i>> \notin R
    /\ \A i, j, k \in 1..size : <<i, j>> \in R /\ <<j, k>> \in R => <<i, k>> \in R
    /\ \A i, j \in 1..size : i # j => <<i, j>> \in R \/ <<j, i>> \in R

\* Whatever order the places of a sequence are put in, it can be written down.
LEMMA OrdersAreListed ==
  ASSUME NEW size \in Nat, NEW R, Orders(R, size)
  PROVE  \E p \in [1..size -> 1..size] : \A k, m \in 1..size : k < m => <<p[k], p[m]>> \in R
<1> DEFINE places == 1..size
           before(i) == {j \in places : <<j, i>> \in R}
           rank == [i \in places |-> Cardinality(before(i))]
           ranks == {rank[i] : i \in places}
<1>1. IsFiniteSet(places) /\ Cardinality(places) = size
  <2>1. size \in Int /\ 1 \in Int
    OBVIOUS
  <2>2. Cardinality(1..size) = IF 1 > size THEN 0 ELSE size - 1 + 1
    BY <2>1, FS_Interval
  <2> QED
    BY <2>1, <2>2, FS_Interval
<1>2. \A i \in places : IsFiniteSet(before(i)) /\ Cardinality(before(i)) \in Nat
  <2> SUFFICES ASSUME NEW i \in places PROVE IsFiniteSet(before(i)) /\ Cardinality(before(i)) \in Nat
    OBVIOUS
  <2>1. before(i) \in SUBSET places
    OBVIOUS
  <2> HIDE DEF before, places
  <2> QED
    BY <1>1, <2>1, FS_Subset, FS_CardinalityType
<1>3. ASSUME NEW i \in places, NEW j \in places, <<i, j>> \in R PROVE Cardinality(before(i)) < Cardinality(before(j))
  <2>1. before(i) \in SUBSET before(j) /\ i \in before(j) /\ i \notin before(i)
    BY <1>3 DEF Orders
  <2> HIDE DEF before, places
  <2>2. Cardinality(before(i)) <= Cardinality(before(j)) /\ Cardinality(before(i)) # Cardinality(before(j))
    BY <1>2, <2>1, FS_Subset
  <2> QED
    BY <1>2, <2>2
<1>4. \A i \in places : rank[i] \in Nat
  <2> HIDE DEF before, places
  <2> QED
    BY <1>2
<1>5. \A i, j \in places : <<i, j>> \in R => rank[i] < rank[j]
  <2> HIDE DEF before, places
  <2> QED
    BY <1>3
<1>6. \A i, j \in places : i # j => <<i, j>> \in R \/ <<j, i>> \in R
  BY DEF Orders
<1>7. rank = [k \in places |-> rank[k]]
  OBVIOUS
<1> HIDE DEF rank, places, before
<1>8. \A i, j \in places : rank[i] = rank[j] => i = j
  <2> SUFFICES ASSUME NEW i \in places, NEW j \in places, i # j PROVE rank[i] # rank[j]
    OBVIOUS
  <2>1. rank[i] \in Nat /\ rank[j] \in Nat /\ (rank[i] < rank[j] \/ rank[j] < rank[i])
    BY <1>4, <1>5, <1>6
  <2> QED
    BY <2>1
<1>9. rank \in Bijection(places, ranks)
  <2>1. rank \in [places -> ranks]
    BY <1>7
  <2> QED
    BY <1>8, <2>1 DEF Bijection, Injection, Surjection, IsInjective
<1>10. IsFiniteSet(ranks) /\ Cardinality(ranks) = size
  <2>1. ExistsBijection(places, ranks)
    BY <1>9 DEF ExistsBijection
  <2> HIDE DEF ranks
  <2> QED
    BY <1>1, <2>1, FS_Bijection
<1>11. PICK listed : Listing(listed, ranks)
  <2>1. ranks \in SUBSET Nat
    BY <1>4
  <2> HIDE DEF ranks
  <2> QED
    BY <1>10, <2>1, FiniteSetsAreListed
<1>12. /\ \A k \in places : listed[k] \in ranks
       /\ \A k, m \in places : k < m => listed[k] < listed[m]
  <2> HIDE DEF ranks
  <2> QED
    BY <1>10, <1>11 DEF Listing, places
<1> DEFINE p == [k \in places |-> CHOOSE m \in places : rank[m] = listed[k]]
<1>13. \A k \in places : p[k] \in places /\ rank[p[k]] = listed[k]
  BY <1>12
<1>14. p \in [places -> places]
  BY <1>13
<1> HIDE DEF p, ranks
<1>15. ASSUME NEW k \in places, NEW m \in places, k < m PROVE <<p[k], p[m]>> \in R
  <2>1. rank[p[k]] < rank[p[m]] /\ p[k] \in places /\ p[m] \in places
    BY <1>12, <1>13, <1>15
  <2>2. rank[p[k]] \in Nat /\ rank[p[m]] \in Nat
    BY <1>4, <2>1
  <2>3. p[k] # p[m] /\ ~(rank[p[m]] < rank[p[k]])
    BY <2>1, <2>2
  <2> QED
    BY <1>5, <1>6, <2>1, <2>3
<1> QED
  BY <1>14, <1>15 DEF places

\* every member of a set stands at one place
ListedOnce(listed, size, some) ==
    /\ \A i, j \in 1..size : listed[i] = listed[j] => i = j
    /\ \A i \in 1..size : listed[i] \in some
    /\ \A m \in some : \E i \in 1..size : listed[i] = m

\* the places up to a last one at which one of some values stands
Held(listed, size, S) == {i \in 1..size : listed[i] \in S}

\* Of the members of a listed set, as many are in some other set as places hold one of it.
LEMMA ListedHeld ==
  ASSUME NEW size \in Nat, NEW some, NEW listed, ListedOnce(listed, size, some), NEW S
  PROVE  Cardinality(Held(listed, size, S)) = Cardinality(some \cap S)
<1> DEFINE A == {i \in 1..size : listed[i] \in S}
           B == some \cap S
           f == [i \in A |-> listed[i]]
<1>1. f \in [A -> B]
  BY DEF ListedOnce
<1>2. \A i, j \in A : f[i] = f[j] => i = j
  BY DEF ListedOnce
<1>3. \A m \in B : \E i \in A : f[i] = m
  BY DEF ListedOnce
<1>4. f \in Bijection(A, B)
  <2> HIDE DEF f, A, B
  <2> QED
    BY <1>1, <1>2, <1>3 DEF Bijection, Injection, Surjection, IsInjective
<1>5. IsFiniteSet(A)
  <2>1. IsFiniteSet(1..size)
    <3>1. size \in Int /\ 1 \in Int
      OBVIOUS
    <3> QED
      BY <3>1, FS_Interval
  <2>2. A \in SUBSET (1..size)
    OBVIOUS
  <2> HIDE DEF A
  <2> QED
    BY <2>1, <2>2, FS_Subset
<1> HIDE DEF A, B, f
<1>6. Cardinality(B) = Cardinality(A)
  BY <1>4, <1>5, FS_Bijection DEF ExistsBijection
<1> QED
  BY <1>6 DEF A, B, Held

\* Some numbers in order are each listed once.
LEMMA InOrderOnce ==
  ASSUME NEW some \in SUBSET Nat, IsFiniteSet(some)
  PROVE  /\ Len(InOrder(some)) \in Nat /\ DOMAIN InOrder(some) = 1..Len(InOrder(some))
         /\ Len(InOrder(some)) = Cardinality(some)
         /\ \A i \in DOMAIN InOrder(some) : InOrder(some)[i] \in some
         /\ ListedOnce(InOrder(some), Len(InOrder(some)), some)
<1> DEFINE listed == InOrder(some)
<1>1. PICK size \in Nat : size = Cardinality(some)
  BY FS_CardinalityType
<1>2. /\ listed \in Seq(some) /\ Len(listed) = size
      /\ \A i, j \in 1..size : i < j => listed[i] < listed[j]
  BY <1>1, InOrderLists
<1>3. \A i \in 1..size : listed[i] \in some /\ listed[i] \in Nat
  <2>1. \A i \in 1..size : listed[i] \in some
    BY <1>2
  <2> QED
    BY <2>1
<1> HIDE DEF listed
<1>4. \A i, j \in 1..size : listed[i] = listed[j] => i = j
  <2> SUFFICES ASSUME NEW i \in 1..size, NEW j \in 1..size, i # j PROVE listed[i] # listed[j]
    OBVIOUS
  <2>1. i < j \/ j < i
    OBVIOUS
  <2> QED
    BY <1>2, <1>3, <2>1
<1>5. \A m \in some : \E i \in 1..size : listed[i] = m
  <2>1. listed \in [1..size -> some]
    BY <1>2
  <2>2. Listing(listed, some)
    BY <1>1, <1>2, <2>1 DEF Listing
  <2>3. some = {listed[i] : i \in 1..Cardinality(some)}
    BY <2>2, ListingsAreComplete
  <2> QED
    BY <1>1, <2>3
<1>6. ListedOnce(listed, size, some)
  BY <1>3, <1>4, <1>5 DEF ListedOnce
<1>7. DOMAIN listed = 1..size
  BY <1>2
<1> QED
  BY <1>1, <1>2, <1>3, <1>6, <1>7 DEF listed
=============================================================================
