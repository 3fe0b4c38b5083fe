---------------------------- MODULE NaturalFacts ----------------------------
(***************************************************************************)
(* Facts about natural numbers that the proofs keep needing, stated for    *)
(* sets: a set of numbers has a least and, if bounded, a greatest element; *)
(* induction; the last of some indices, and the sums a fold takes up to it.*)
(***************************************************************************)
EXTENDS Integers, FiniteSets, FiniteSetTheorems, WellFoundedInduction, TLAPS

\* A set of numbers that is not empty has a least element: the intervals below its elements are
\* well-founded by inclusion.
LEMMA LeastElement ==
    ASSUME NEW S \in SUBSET Nat, S # {}
    PROVE  \E least \in S : \A n \in S : least <= n
<1> DEFINE Below == {0..n : n \in S}
<1>1. Below \subseteq FiniteSubsetsOf(Nat)
  <2> SUFFICES ASSUME NEW n \in S PROVE 0..n \in FiniteSubsetsOf(Nat)
    OBVIOUS
  <2>1. n \in Nat /\ 0..n \in SUBSET Nat
    OBVIOUS
  <2>2. IsFiniteSet(0..n)
    BY <2>1, FS_Interval
  <2> QED BY <2>1, <2>2 DEF FiniteSubsetsOf
<1>2. Below # {}
  OBVIOUS
<1>3. PICK smallest \in Below :
        \A other \in Below : ~(<<other, smallest>> \in StrictSubsetOrdering(Nat))
  <2> HIDE DEF Below
  <2>1. IsWellFoundedOn(StrictSubsetOrdering(Nat), FiniteSubsetsOf(Nat))
    BY FS_StrictSubsetOrderingWellFounded
  <2> QED BY <1>1, <1>2, <2>1, WFMin, Zenon
<1>4. PICK least \in S : smallest = 0..least
  BY <1>3
<1>5. ASSUME NEW n \in S, n < least PROVE FALSE
  <2>1. n \in Nat /\ least \in Nat
    OBVIOUS
  <2>2. least \in 0..least /\ least \notin 0..n
    BY <1>5, <2>1
  <2>3. 0..n \in SUBSET Nat /\ 0..least \in SUBSET Nat /\ 0..n \subseteq 0..least
    BY <1>5, <2>1
  <2>4. <<0..n, 0..least>> \in StrictSubsetOrdering(Nat)
    BY <2>2, <2>3 DEF StrictSubsetOrdering
  <2> QED BY <1>3, <1>4, <2>4
<1>6. \A n \in S : n \in Nat /\ least \in Nat
  OBVIOUS
<1> QED BY <1>5, <1>6

\* A set of numbers that is not empty and has an upper bound has a greatest element.
LEMMA GreatestElement ==
    ASSUME NEW S \in SUBSET Nat, S # {}, NEW bound \in Nat, \A n \in S : n <= bound
    PROVE  \E greatest \in S : \A n \in S : n <= greatest
<1> DEFINE Mirrored == {bound - n : n \in S}
<1>1. \A n \in S : n \in Nat /\ bound - n \in Nat
  OBVIOUS
<1>2. Mirrored \in SUBSET Nat /\ Mirrored # {}
  BY <1>1
<1>3. PICK least \in Mirrored : \A m \in Mirrored : least <= m
  <2> HIDE DEF Mirrored
  <2> QED BY <1>2, LeastElement
<1>4. PICK greatest \in S : least = bound - greatest
  BY <1>3
<1>5. ASSUME NEW n \in S PROVE n <= greatest
  <2>1. bound - greatest <= bound - n
    BY <1>3, <1>4
  <2> QED BY <1>1, <2>1
<1> QED BY <1>5

\* A set of numbers that holds 0 and with every number the next one holds all.
LEMMA SetInduction ==
    ASSUME NEW S, 0 \in S, \A n \in S \cap Nat : n + 1 \in S
    PROVE  Nat \subseteq S
<1> SUFFICES ASSUME Nat \ S # {} PROVE FALSE
  OBVIOUS
<1>1. PICK least \in Nat \ S : \A n \in Nat \ S : least <= n
  BY LeastElement
<1>2. least \in Nat /\ least # 0
  BY <1>1
<1>3. least - 1 \in Nat /\ ~(least <= least - 1) /\ least - 1 + 1 = least
  BY <1>2
<1>4. least - 1 \in S
  BY <1>1, <1>3
<1> QED BY <1>1, <1>3, <1>4

-----------------------------------------------------------------------------
(* Sets of indices *)

\* The last of some indices.
Largest(d) == CHOOSE x \in d : \A y \in d : x >= y

\* The sets of at most n of some indices.
Few(indices, n) == {d \in SUBSET indices : Cardinality(d) <= n}

\* A set of indices has a largest element.
LEMMA LargestIn ==
    ASSUME NEW m \in Nat, NEW d \in SUBSET (1..m), d # {}
    PROVE  Largest(d) \in d /\ \A y \in d : Largest(d) >= y
<1>1. \E x \in d : \A y \in d : y <= x
  <2>1. d \in SUBSET Nat /\ \A n \in d : n <= m
    OBVIOUS
  <2> QED BY <2>1, GreatestElement
<1>2. \E x \in d : \A y \in d : x >= y
  <2>1. PICK x \in d : \A y \in d : y <= x
    BY <1>1
  <2>2. \A y \in d : x >= y
    BY <2>1
  <2> QED BY <2>2
<1> QED BY <1>2 DEF Largest

\* That of an interval is its end.
LEMMA LargestOfInterval == ASSUME NEW n \in Nat PROVE Largest(1..(n + 1)) = n + 1 /\ 1..(n + 1) \ {n + 1} = 1..n
<1>1. n + 1 \in Nat /\ 1..(n + 1) # {} /\ n + 1 \in 1..(n + 1)
  OBVIOUS
<1>2. Largest(1..(n + 1)) \in 1..(n + 1) /\ Largest(1..(n + 1)) >= n + 1
  <2> DEFINE d == 1..(n + 1)
  <2>1. d \in SUBSET (1..(n + 1)) /\ d # {} /\ n + 1 \in d
    BY <1>1
  <2> HIDE DEF d
  <2>2. Largest(d) \in d /\ Largest(d) >= n + 1
    BY <1>1, <2>1, LargestIn
  <2> QED BY <2>2 DEF d
<1>3. ASSUME NEW x \in 1..(n + 1), x >= n + 1 PROVE x = n + 1
  BY <1>3
<1>4. 1..(n + 1) \ {n + 1} = 1..n
  OBVIOUS
<1> QED BY <1>2, <1>3, <1>4

-----------------------------------------------------------------------------
(* Sums *)

\* The partial sums of some numbers, as a fold defines them.
SumsSoFar(sums, v, family) ==
    sums = [d \in family |-> IF d = {} THEN 0 ELSE sums[d \ {Largest(d)}] + v[Largest(d)]]

\* Those of the first m.
SumsTo(sums, v, m) == SumsSoFar(sums, v, SUBSET (1..m))

\* The same numbers so far.
Agree(u, v, m) == \A i \in 1..m : u[i] = v[i]

InputSums(sums, s, family) ==
    sums = [d \in family |-> IF d = {} THEN 0 ELSE sums[d \ {Largest(d)}] + s[Largest(d)].delta.input]
CachedSums(sums, s, family) ==
    sums = [d \in family |-> IF d = {} THEN 0 ELSE sums[d \ {Largest(d)}] + s[Largest(d)].delta.cached]

\* They exist, by induction on size.
LEMMA SumsSoFarExist ==
    ASSUME NEW indices, IsFiniteSet(indices), NEW v,
           \A d \in SUBSET indices : d # {} => Largest(d) \in d
    PROVE  \E sums : SumsSoFar(sums, v, SUBSET indices)
<1> DEFINE G == {n \in Nat : \E sums : SumsSoFar(sums, v, Few(indices, n))}
<1>1. 0 \in G
  <2> DEFINE none == [d \in Few(indices, 0) |-> 0]
  <2>1. \A d \in Few(indices, 0) : d = {}
    BY FS_Subset, FS_EmptySet, FS_CardinalityType DEF Few
  <2>2. SumsSoFar(none, v, Few(indices, 0))
    BY <2>1 DEF SumsSoFar
  <2> QED BY <2>2
<1>2. \A n \in G \cap Nat : n + 1 \in G
  <2> SUFFICES ASSUME NEW n \in Nat, n \in G PROVE n + 1 \in G
    OBVIOUS
  <2>1. PICK sums : SumsSoFar(sums, v, Few(indices, n))
    OBVIOUS
  <2> DEFINE more == [d \in Few(indices, n + 1) |->
                        IF d = {} THEN 0 ELSE sums[d \ {Largest(d)}] + v[Largest(d)]]
  <2>2. ASSUME NEW d \in Few(indices, n + 1), d # {}
        PROVE  d \ {Largest(d)} \in Few(indices, n) /\ d \ {Largest(d)} \in Few(indices, n + 1)
    <3>1. IsFiniteSet(d) /\ Cardinality(d) \in Nat /\ d \in SUBSET indices
      BY FS_Subset, FS_CardinalityType DEF Few
    <3>2. Cardinality(d \ {Largest(d)}) = Cardinality(d) - 1
      BY <2>2, <3>1, FS_RemoveElement
    <3> QED BY <3>1, <3>2 DEF Few
  <2>3. \A d \in Few(indices, n) : more[d] = sums[d]
    <3>1. \A d \in Few(indices, n) : d \in Few(indices, n + 1)
      BY FS_Subset, FS_CardinalityType DEF Few
    <3> QED BY <2>1, <3>1 DEF SumsSoFar
  <2>4. SumsSoFar(more, v, Few(indices, n + 1))
    BY <2>2, <2>3 DEF SumsSoFar
  <2>5. \E any : SumsSoFar(any, v, Few(indices, n + 1))
    BY <2>4
  <2> QED BY <2>5
<1>3. Nat \subseteq G
  <2> HIDE DEF G
  <2> QED BY <1>1, <1>2, SetInduction
<1>4. Cardinality(indices) \in Nat /\ Few(indices, Cardinality(indices)) = SUBSET indices
  BY FS_Subset, FS_CardinalityType DEF Few
<1>5. Cardinality(indices) \in G
  <2> HIDE DEF G
  <2> QED BY <1>3, <1>4
<1>6. \E sums : SumsSoFar(sums, v, Few(indices, Cardinality(indices)))
  BY <1>5
<1> QED BY <1>4, <1>6

\* The sum of the first n + 1 numbers is that of the first n and the next.
LEMMA NextSum ==
    ASSUME NEW m \in Nat, NEW v, NEW sums, SumsTo(sums, v, m)
    PROVE  sums[1..0] = 0 /\ \A n \in 0..(m - 1) : sums[1..(n + 1)] = sums[1..n] + v[n + 1]
<1>1. 1..0 = {} /\ {} \in SUBSET (1..m)
  OBVIOUS
<1>2. sums[1..0] = 0
  BY <1>1 DEF SumsTo, SumsSoFar
<1>3. ASSUME NEW n \in 0..(m - 1) PROVE sums[1..(n + 1)] = sums[1..n] + v[n + 1]
  <2>0. n \in Nat /\ n + 1 <= m
    OBVIOUS
  <2>1. n \in Nat /\ 1..(n + 1) \in SUBSET (1..m) /\ 1..(n + 1) # {}
    <3>1. 1 \in 1..(n + 1)
      BY <2>0
    <3>2. \A i \in 1..(n + 1) : i \in 1..m
      BY <2>0
    <3> QED BY <2>0, <3>1, <3>2
  <2>2. Largest(1..(n + 1)) = n + 1 /\ 1..(n + 1) \ {n + 1} = 1..n
    BY <2>1, LargestOfInterval
  <2> DEFINE d == 1..(n + 1)
  <2>3. d \in SUBSET (1..m) /\ d # {} /\ Largest(d) = n + 1 /\ d \ {n + 1} = 1..n
    BY <2>1, <2>2
  <2> HIDE DEF d
  <2>4. sums[d] = sums[d \ {Largest(d)}] + v[Largest(d)]
    BY <2>3, Zenon DEF SumsTo, SumsSoFar
  <2>5. sums[d] = sums[1..n] + v[n + 1]
    BY <2>3, <2>4
  <2> QED BY <2>5 DEF d
<1> QED BY <1>2, <1>3

\* Sums over two sequences, one of which has one more number, differ by that number.
LEMMA OneMoreNumber ==
    ASSUME NEW m \in Nat, NEW v, NEW u, Agree(u, v, m),
           NEW sums, SumsTo(sums, v, m), NEW more, SumsTo(more, u, m + 1)
    PROVE  more[1..(m + 1)] = sums[1..m] + u[m + 1]
<1> DEFINE G == {n \in Nat : n <= m => more[1..n] = sums[1..n]}
<1>a. sums[1..0] = 0 /\ \A n \in 0..(m - 1) : sums[1..(n + 1)] = sums[1..n] + v[n + 1]
  BY NextSum
<1>b. more[1..0] = 0 /\ \A n \in 0..m : more[1..(n + 1)] = more[1..n] + u[n + 1]
  <2> DEFINE k == m + 1
  <2>1. k \in Nat /\ k - 1 = m /\ SumsTo(more, u, k)
    OBVIOUS
  <2> HIDE DEF k
  <2>2. more[1..0] = 0 /\ \A n \in 0..(k - 1) : more[1..(n + 1)] = more[1..n] + u[n + 1]
    BY <2>1, NextSum
  <2> QED BY <2>1, <2>2
<1>1. 0 \in G
  BY <1>a, <1>b
<1>2. \A n \in G \cap Nat : n + 1 \in G
  <2> SUFFICES ASSUME NEW n \in Nat, n + 1 <= m, more[1..n] = sums[1..n] PROVE more[1..(n + 1)] = sums[1..(n + 1)]
    OBVIOUS
  <2>1. n \in 0..(m - 1) /\ n \in 0..m /\ n + 1 \in 1..m
    OBVIOUS
  <2>2. sums[1..(n + 1)] = sums[1..n] + v[n + 1] /\ more[1..(n + 1)] = more[1..n] + u[n + 1]
    BY <1>a, <1>b, <2>1
  <2> QED BY <2>1, <2>2 DEF Agree
<1>3. Nat \subseteq G
  <2> HIDE DEF G
  <2> QED BY <1>1, <1>2, SetInduction
<1>4. more[1..m] = sums[1..m] /\ m \in 0..m
  BY <1>3
<1> QED BY <1>b, <1>4
=============================================================================
