----------------------------- MODULE RecordsProofs -----------------------------
(***************************************************************************)
(* Records that are made one at a time, for any processes and a crash      *)
(* between any two writes.                                                 *)
(*                                                                         *)
(* The ledger of a study, for any requests and ceilings: what was granted  *)
(* stays within the ceiling, and a report names the grants. The telemetry  *)
(* log, for any receipts and whatever an older version left: what a report *)
(* is made from is all that was recorded, each run once. No crash alone    *)
(* breaks either of them, and up to three files lost by hand are noticed.  *)
(* The receipts themselves: what they count adds up.                       *)
(*                                                                         *)
(* The grants of a worker's edits: what the hook allows is what `done`     *)
(* accepts. Features: a request starts one, with the prompts that were     *)
(* given for it. Skills: what was found harmful stays out.                 *)
(***************************************************************************)
EXTENDS Records, NaturalFacts, SequenceTheorems

-----------------------------------------------------------------------------
(* Sums *)

\* The element that a sum takes first.
First(S) == CHOOSE r \in S : TRUE

\* The subsets of S that have at most n elements.
Small(S, n) == {s \in SUBSET S : Cardinality(s) <= n}

\* The sums of the sets of a family, as the fold defines them.
SumsOf(sums, family) ==
    sums = [s \in family |-> IF s = {} THEN 0 ELSE First(s).maximum + sums[s \ {First(s)}]]

\* The first element is one.
LEMMA FirstIn == ASSUME NEW S, S # {} PROVE First(S) \in S
  BY DEF First

\* The recursive function behind the fold is what its definition says, by induction on size.
LEMMA SumsExist ==
    ASSUME NEW S, IsFiniteSet(S)
    PROVE  \E sums : SumsOf(sums, SUBSET S)
<1> DEFINE G == {n \in Nat : \E sums : SumsOf(sums, Small(S, n))}
<1>1. 0 \in G
  <2> DEFINE sums == [s \in Small(S, 0) |-> 0]
  <2>1. \A s \in Small(S, 0) : s = {}
    BY FS_Subset, FS_EmptySet, FS_CardinalityType DEF Small
  <2>2. SumsOf(sums, Small(S, 0))
    BY <2>1 DEF SumsOf
  <2> QED BY <2>2
<1>2. \A n \in G \cap Nat : n + 1 \in G
  <2> SUFFICES ASSUME NEW n \in Nat, n \in G PROVE n + 1 \in G
    OBVIOUS
  <2>1. PICK sums : SumsOf(sums, Small(S, n))
    OBVIOUS
  <2> DEFINE more == [s \in Small(S, n + 1) |->
                        IF s = {} THEN 0 ELSE First(s).maximum + sums[s \ {First(s)}]]
  <2>2. ASSUME NEW s \in Small(S, n + 1), s # {}
        PROVE  s \ {First(s)} \in Small(S, n) /\ s \ {First(s)} \in Small(S, n + 1)
    <3>1. IsFiniteSet(s) /\ Cardinality(s) \in Nat
      BY FS_Subset, FS_CardinalityType DEF Small
    <3>2. Cardinality(s \ {First(s)}) = Cardinality(s) - 1
      BY <2>2, <3>1, FirstIn, FS_RemoveElement
    <3> QED BY <3>1, <3>2 DEF Small
  <2>3. \A s \in Small(S, n) : more[s] = sums[s]
    <3>1. \A s \in Small(S, n) : s \in Small(S, n + 1)
      BY FS_Subset, FS_CardinalityType DEF Small
    <3> QED BY <2>1, <3>1 DEF SumsOf
  <2>4. SumsOf(more, Small(S, n + 1))
    BY <2>2, <2>3 DEF SumsOf
  <2>5. \E any : SumsOf(any, Small(S, n + 1))
    BY <2>4
  <2> QED BY <2>5
<1>3. Nat \subseteq G
  <2> HIDE DEF G
  <2> QED BY <1>1, <1>2, SetInduction
<1>4. Cardinality(S) \in Nat /\ Small(S, Cardinality(S)) = SUBSET S
  BY FS_Subset, FS_CardinalityType DEF Small
<1> QED BY <1>3, <1>4

\* So a cost is one of these sums.
LEMMA CostIs ==
    ASSUME NEW S, IsFiniteSet(S)
    PROVE  \E sums : SumsOf(sums, SUBSET S) /\ Cost(S) = sums[S]
<1> DEFINE sums == CHOOSE sums : SumsOf(sums, SUBSET S)
<1>1. SumsOf(sums, SUBSET S)
  BY SumsExist, Zenon
<1>2. Cost(S) = sums[S]
  BY DEF Cost, MapThenSumSet, MapThenFoldSet, SumsOf, First
<1> QED BY <1>1, <1>2

\* The sums of a set are those of a larger one.
LEMMA SumsAgree ==
    ASSUME NEW S, NEW T, NEW f, NEW g, IsFiniteSet(S), T \in SUBSET S,
           SumsOf(f, SUBSET S), SumsOf(g, SUBSET T)
    PROVE  f[T] = g[T]
<1> DEFINE G == {n \in Nat : \A s \in Small(T, n) : f[s] = g[s]}
<1>1. ASSUME NEW n \in Nat, NEW s \in Small(T, n), s # {}
      PROVE  /\ s \in SUBSET T /\ s \in SUBSET S /\ s \ {First(s)} \in SUBSET T
             /\ n # 0 /\ s \ {First(s)} \in Small(T, n - 1)
  <2>1. IsFiniteSet(s) /\ Cardinality(s) \in Nat /\ Cardinality(s) # 0
    BY <1>1, FS_Subset, FS_CardinalityType, FS_EmptySet DEF Small
  <2>2. Cardinality(s \ {First(s)}) = Cardinality(s) - 1
    BY <1>1, <2>1, FirstIn, FS_RemoveElement
  <2> QED BY <1>1, <2>1, <2>2 DEF Small
<1>2. f[{}] = 0 /\ g[{}] = 0
  BY DEF SumsOf
<1>3. ASSUME NEW s \in SUBSET T, s # {}
      PROVE  /\ f[s] = First(s).maximum + f[s \ {First(s)}]
             /\ g[s] = First(s).maximum + g[s \ {First(s)}]
  BY <1>3 DEF SumsOf
<1>4. 0 \in G
  BY <1>1, <1>2
<1>a. ASSUME NEW n \in Nat, n \in G, NEW s \in Small(T, n + 1) PROVE f[s] = g[s]
  <2>1. CASE s = {}
    BY <1>2, <2>1
  <2>2. CASE s # {}
    <3>1. n + 1 \in Nat /\ n + 1 - 1 = n
      OBVIOUS
    <3>2. s \ {First(s)} \in Small(T, n) /\ s \in SUBSET T
      BY <1>1, <2>2, <3>1
    <3>3. f[s \ {First(s)}] = g[s \ {First(s)}]
      BY <1>a, <3>2
    <3> QED BY <1>3, <2>2, <3>2, <3>3
  <2> QED BY <2>1, <2>2
<1>5. \A n \in G \cap Nat : n + 1 \in G
  BY <1>a
<1>6. Nat \subseteq G
  <2> HIDE DEF G
  <2> QED BY <1>4, <1>5, SetInduction
<1>7. ASSUME NEW s \in SUBSET T PROVE f[s] = g[s]
  <2>1. IsFiniteSet(s) /\ Cardinality(s) \in Nat /\ s \in Small(T, Cardinality(s))
    BY FS_Subset, FS_CardinalityType DEF Small
  <2> QED BY <1>6, <2>1
<1> QED BY <1>7

\* Requests, as far as their cost is concerned.
Priced(S) == IsFiniteSet(S) /\ \A r \in S : r.maximum \in Nat

\* No requests cost nothing.
LEMMA CostOfNone == Cost({}) = 0
<1>1. IsFiniteSet({})
  BY FS_EmptySet
<1> QED BY <1>1, CostIs DEF SumsOf

\* A cost is what the first request asks for and the cost of the others.
LEMMA CostOfFirst ==
    ASSUME NEW S, Priced(S), S # {}
    PROVE  First(S) \in S /\ Cost(S) = First(S).maximum + Cost(S \ {First(S)})
<1>1. PICK f : SumsOf(f, SUBSET S) /\ Cost(S) = f[S]
  BY CostIs DEF Priced
<1>2. S \ {First(S)} \in SUBSET S /\ IsFiniteSet(S \ {First(S)})
  BY FS_Subset DEF Priced
<1>3. PICK g : SumsOf(g, SUBSET (S \ {First(S)})) /\ Cost(S \ {First(S)}) = g[S \ {First(S)}]
  BY <1>2, CostIs
<1>4. f[S \ {First(S)}] = g[S \ {First(S)}]
  <2> DEFINE T == S \ {First(S)}
  <2>1. IsFiniteSet(S) /\ T \in SUBSET S /\ SumsOf(f, SUBSET S) /\ SumsOf(g, SUBSET T)
    BY <1>1, <1>2, <1>3 DEF Priced
  <2> HIDE DEF T
  <2>2. f[T] = g[T]
    BY <2>1, SumsAgree
  <2> QED BY <2>2 DEF T
<1>5. f[S] = First(S).maximum + f[S \ {First(S)}]
  BY <1>1 DEF SumsOf
<1> QED BY <1>1, <1>3, <1>4, <1>5, FirstIn

\* The order in which a sum is taken does not matter.
LEMMA CostOfAny ==
    ASSUME NEW S, Priced(S)
    PROVE  Cost(S) \in Nat /\ \A r \in S : Cost(S) = r.maximum + Cost(S \ {r})
<1> DEFINE Fine(s) == Cost(s) \in Nat /\ \A r \in s : Cost(s) = r.maximum + Cost(s \ {r})
           G == {n \in Nat : \A s \in Small(S, n) : Fine(s)}
<1>1. Fine({})
  BY CostOfNone
<1>2. \A s \in SUBSET S : Priced(s) /\ Cardinality(s) \in Nat
  BY FS_Subset, FS_CardinalityType DEF Priced
<1>3. 0 \in G
  <2>1. \A s \in Small(S, 0) : s = {}
    BY <1>2, FS_EmptySet DEF Small, Priced
  <2> HIDE DEF Fine
  <2> QED BY <1>1, <2>1
<1>4. ASSUME NEW n \in Nat, n \in G, NEW s \in Small(S, n + 1) PROVE Fine(s)
  <2>1. CASE s = {}
    BY <1>1, <2>1
  <2>2. CASE s # {}
    <3>1. s \in SUBSET S /\ Priced(s)
      BY <1>2 DEF Small
    <3>2. ASSUME NEW r \in s
          PROVE  s \ {r} \in SUBSET S /\ Fine(s \ {r}) /\ r.maximum \in Nat
      <4>1. Cardinality(s \ {r}) = Cardinality(s) - 1
        BY <3>1, FS_RemoveElement DEF Priced
      <4>2. s \ {r} \in Small(S, n)
        BY <1>2, <3>1, <4>1 DEF Small
      <4>3. r.maximum \in Nat
        BY <3>1 DEF Priced
      <4> HIDE DEF Fine
      <4> QED BY <1>4, <4>2, <4>3 DEF Small
    <3> DEFINE c == First(s)
    <3>3. c \in s /\ Cost(s) = c.maximum + Cost(s \ {c})
      BY <2>2, <3>1, CostOfFirst
    <3> HIDE DEF c
    <3>4. Cost(s) \in Nat
      BY <3>2, <3>3
    <3>5. ASSUME NEW r \in s, r # c PROVE Cost(s) = r.maximum + Cost(s \ {r})
      <4>1. Cost(s \ {c}) = r.maximum + Cost((s \ {c}) \ {r})
        BY <3>2, <3>3, <3>5
      <4>2. Cost(s \ {r}) = c.maximum + Cost((s \ {r}) \ {c})
        BY <3>2, <3>3, <3>5
      <4>3. (s \ {c}) \ {r} = (s \ {r}) \ {c}
        OBVIOUS
      <4>4. c.maximum \in Nat /\ r.maximum \in Nat /\ Cost((s \ {r}) \ {c}) \in Nat
        <5>1. Priced((s \ {r}) \ {c}) /\ (s \ {r}) \ {c} \in Small(S, n)
          <6>1. Cardinality((s \ {r}) \ {c}) <= Cardinality(s \ {r})
                /\ Cardinality(s \ {r}) = Cardinality(s) - 1
            BY <1>2, <3>1, <3>2, FS_Subset, FS_RemoveElement DEF Priced
          <6> QED BY <1>2, <3>1, <6>1 DEF Small
        <5> QED BY <1>4, <3>2, <3>3, <5>1
      <4> DEFINE rest == Cost((s \ {r}) \ {c})
      <4>5. rest \in Nat /\ Cost(s \ {r}) = c.maximum + rest /\ Cost(s \ {c}) = r.maximum + rest
        BY <4>1, <4>2, <4>3, <4>4, Zenon
      <4> HIDE DEF Fine, G, rest
      <4> QED BY <3>3, <4>4, <4>5
    <3> QED BY <3>3, <3>4, <3>5
  <2> QED BY <2>1, <2>2
<1>5. \A n \in G \cap Nat : n + 1 \in G
  <2> HIDE DEF Fine
  <2> QED BY <1>4
<1>6. Nat \subseteq G
  <2> HIDE DEF G
  <2> QED BY <1>3, <1>5, SetInduction
<1>7. S \in Small(S, Cardinality(S)) /\ Cardinality(S) \in G
  BY <1>2, <1>6 DEF Small
<1>8. Fine(S)
  <2> HIDE DEF Fine
  <2> QED BY <1>7
<1> QED BY <1>8

\* One more request costs what it asks for.
LEMMA CostOfOneMore ==
    ASSUME NEW S, Priced(S), NEW r, r \notin S, r.maximum \in Nat
    PROVE  /\ Priced(S \cup {r}) /\ Cost(S) \in Nat
           /\ Cost(S \cup {r}) = Cost(S) + r.maximum
<1>1. Priced(S \cup {r})
  BY FS_AddElement DEF Priced
<1>2. Cost(S) \in Nat /\ Cost(S \cup {r}) = r.maximum + Cost((S \cup {r}) \ {r})
  BY <1>1, CostOfAny
<1>3. (S \cup {r}) \ {r} = S
  OBVIOUS
<1>4. Cost(S \cup {r}) = r.maximum + Cost(S)
  BY <1>2, <1>3, Zenon
<1> QED BY <1>1, <1>2, <1>4

-----------------------------------------------------------------------------
(* The chain of records *)

\* An absent file is nothing that the ledger writes.
AbsentIsNoRecord ==
    /\ \A run, approval, maximum, sequence, cumulative, previous :
          [run |-> run, approval |-> approval, maximum |-> maximum, sequence |-> sequence,
           cumulative |-> cumulative, previous |-> previous] # Absent
    /\ \A count, head, allocated : [count |-> count, head |-> head, allocated |-> allocated] # Absent

\* The request a record was made for.
Asked(l) == [run |-> l.run, approval |-> l.approval, maximum |-> l.maximum]

\* What n records add up to.
Top(n, L) == IF n = 0 THEN 0 ELSE L[n].cumulative

\* The record of reservation i names and adds to the one before.
Link(L, i) ==
    /\ L[i] # Absent /\ Asked(L[i]) \in Requests /\ L[i].approval = L[1].approval
    /\ L[i].sequence = i /\ L[i].cumulative \in Nat
    /\ L[i].cumulative = (IF i = 1 THEN 0 ELSE L[i - 1].cumulative) + RoundUp(L[i].maximum)
    /\ L[i].previous = IF i = 1 THEN L[1].approval ELSE L[i - 1]

\* The records of n reservations: of one approval, each of a run of its own, adding up.
Chain(n, L) ==
    /\ n \in 0..MaxReservations
    /\ \A i \in 1..n : Link(L, i)
    /\ \A i, j \in 1..n : L[i].run = L[j].run => i = j
    /\ n > 0 => L[n].cumulative <= RoundDown(CeilingOf[L[1].approval])

\* They are the grants, whose cost they round up.
Grants(n, L, g) ==
    /\ g = {Asked(L[i]) : i \in 1..n}
    /\ Priced(g) /\ Cost(g) <= PerMicro * Top(n, L)

\* What files there are hold them.
Keeps(n, L, d) ==
    /\ d[ApprovalFile] # Absent => n > 0 /\ d[ApprovalFile] = L[1].approval
    /\ d[Projection] # Absent =>
          n > 0 /\ d[Projection] = [count |-> n, head |-> L[n], allocated |-> L[n].cumulative]
    /\ \A i \in Sequence : d[ReservationFile(i)] # Absent => i <= n /\ d[ReservationFile(i)] = L[i]
    /\ \A run \in Runs : d[Copy(run)] # Absent => \E i \in 1..n : L[i].run = run /\ d[Copy(run)] = L[i]

\* No file is missing.
Whole(n, L, d) ==
    n > 0 => /\ d[ApprovalFile] # Absent /\ d[Projection] # Absent
             /\ \A i \in 1..n : d[ReservationFile(i)] # Absent /\ d[Copy(L[i].run)] # Absent

\* Which of the four files of the first reservation are missing.
Lost(L, d) == {f \in {ApprovalFile, Projection, ReservationFile(1), Copy(L[1].run)} : d[f] = Absent}

\* With k files lost, the ledger still stands for what was granted.
Stands(n, L, d, g, k) ==
    /\ Chain(n, L) /\ Grants(n, L, g) /\ Keeps(n, L, d)
    /\ k \in Nat /\ (k = 0 => Whole(n, L, d))
    /\ n > 0 => Cardinality(Lost(L, d)) <= k

-----------------------------------------------------------------------------
(* Amounts *)

\* Rounding up loses nothing, rounding down gains nothing.
LEMMA Rounding ==
    ASSUME NEW m \in Nat
    PROVE  /\ RoundUp(m) \in Nat /\ m <= PerMicro * RoundUp(m)
           /\ RoundDown(m) \in Nat /\ PerMicro * RoundDown(m) <= m
<1>1. PerMicro \in Nat /\ PerMicro > 0
  BY BudgetConstants
<1>2. m + PerMicro - 1 \in Nat
  BY <1>1
<1>3. ASSUME NEW a \in Nat, NEW b \in Nat, b > 0
      PROVE  a \div b \in Nat /\ b * (a \div b) <= a /\ a < b * (a \div b) + b
  BY <1>3
<1>4. /\ RoundUp(m) \in Nat /\ m + PerMicro - 1 < PerMicro * RoundUp(m) + PerMicro
      /\ RoundDown(m) \in Nat /\ PerMicro * RoundDown(m) <= m
  BY <1>1, <1>2, <1>3 DEF RoundUp, RoundDown
<1>5. PerMicro * RoundUp(m) \in Nat
  BY <1>1, <1>4
<1> QED BY <1>1, <1>4, <1>5

\* What is assumed of a request.
LEMMA RequestIs ==
    ASSUME NEW r \in Requests
    PROVE  /\ r.run \in Runs /\ r.approval \in Approvals /\ r.maximum \in Nat
           /\ r = [run |-> r.run, approval |-> r.approval, maximum |-> r.maximum]
           /\ r # Absent /\ r.approval # Absent /\ CeilingOf[r.approval] \in Nat
  BY BudgetConstants DEF Runs

-----------------------------------------------------------------------------
(* A reservation *)

\* The record of the next reservation, and the chain with it.
Record(n, L, r) ==
    [run |-> r.run, approval |-> r.approval, maximum |-> r.maximum, sequence |-> n + 1,
     cumulative |-> Top(n, L) + RoundUp(r.maximum), previous |-> IF n = 0 THEN r.approval ELSE L[n]]

More(n, L, r) == [i \in 1..(n + 1) |-> IF i = n + 1 THEN Record(n, L, r) ELSE L[i]]

\* An agreed record continues the chain.
LEMMA ChainGrows ==
    ASSUME AbsentIsNoRecord, NEW n, NEW L, Chain(n, L), NEW r \in Requests, n < MaxReservations,
           \A i \in 1..n : L[i].run # r.run, n > 0 => L[1].approval = r.approval,
           Top(n, L) + RoundUp(r.maximum) <= RoundDown(CeilingOf[r.approval])
    PROVE  /\ Chain(n + 1, More(n, L, r)) /\ Record(n, L, r) # Absent
           /\ Top(n, L) \in Nat /\ Asked(Record(n, L, r)) = r
<1> DEFINE l == Record(n, L, r)
           M == More(n, L, r)
<1>1. n \in Nat /\ MaxReservations \in Nat /\ n + 1 \in 0..MaxReservations
  BY BudgetConstants DEF Chain
<1>2. Top(n, L) \in Nat
  BY <1>1 DEF Chain, Link, Top
<1>3. /\ l # Absent /\ l.run = r.run /\ l.approval = r.approval /\ l.maximum = r.maximum
      /\ l.sequence = n + 1 /\ l.cumulative = Top(n, L) + RoundUp(r.maximum)
      /\ l.previous = IF n = 0 THEN r.approval ELSE L[n]
  BY DEF Record, AbsentIsNoRecord
<1>4. Asked(l) = r
  BY <1>3, RequestIs DEF Asked
<1>5. l.cumulative \in Nat
  BY <1>2, <1>3, RequestIs, Rounding
<1>6. M[n + 1] = l /\ \A i \in 1..n : M[i] = L[i] /\ i \in 1..(n + 1) /\ i # n + 1
  BY <1>1 DEF More
<1> HIDE DEF l, M
<1>7. M[1].approval = r.approval
  BY <1>1, <1>3, <1>6
<1>8. ASSUME NEW i \in 1..n PROVE Link(M, i)
  <2>1. M[i] = L[i] /\ M[1] = L[1] /\ (i # 1 => M[i - 1] = L[i - 1])
    BY <1>1, <1>6
  <2>2. M[1].approval = L[1].approval
    BY <2>1
  <2> QED BY <2>1, <2>2 DEF Chain, Link
<1>9. Link(M, n + 1)
  <2>1. PICK i : i = n + 1
    OBVIOUS
  <2>2. M[i] = l /\ (i = 1 <=> n = 0) /\ i - 1 = n /\ (n # 0 => M[n] = L[n])
    BY <1>1, <1>6, <2>1
  <2>3. (IF i = 1 THEN 0 ELSE M[i - 1].cumulative) = Top(n, L)
    BY <2>2 DEF Top
  <2>4. (IF i = 1 THEN M[1].approval ELSE M[i - 1]) = IF n = 0 THEN r.approval ELSE L[n]
    BY <1>7, <2>2
  <2>5. /\ M[i] # Absent /\ Asked(M[i]) \in Requests /\ M[i].approval = M[1].approval
        /\ M[i].sequence = i /\ M[i].cumulative \in Nat
    BY <1>3, <1>4, <1>5, <1>7, <2>1, <2>2
  <2>6. /\ M[i].cumulative = (IF i = 1 THEN 0 ELSE M[i - 1].cumulative) + RoundUp(M[i].maximum)
        /\ M[i].previous = IF i = 1 THEN M[1].approval ELSE M[i - 1]
    BY <1>3, <2>2, <2>3, <2>4, Zenon
  <2>7. Link(M, i)
    BY <2>5, <2>6, Zenon DEF Link
  <2> QED BY <2>1, <2>7
<1>10. \A i, j \in 1..(n + 1) : M[i].run = M[j].run => i = j
  <2>1. \A i \in 1..(n + 1) : i \in 1..n \/ i = n + 1
    BY <1>1
  <2>2. M[n + 1].run = r.run /\ \A i \in 1..n : M[i].run = L[i].run
    BY <1>3, <1>6
  <2>3. \A i, j \in 1..n : L[i].run = L[j].run => i = j
    BY DEF Chain
  <2> QED BY <2>1, <2>2, <2>3
<1>11. M[n + 1].cumulative <= RoundDown(CeilingOf[M[1].approval])
  BY <1>3, <1>6, <1>7
<1>12. \A i \in 1..(n + 1) : i \in 1..n \/ i = n + 1
  BY <1>1
<1>13. \A i \in 1..(n + 1) : Link(M, i)
  BY <1>8, <1>9, <1>12
<1>14. Chain(n + 1, M)
  BY <1>1, <1>10, <1>11, <1>13 DEF Chain
<1> QED BY <1>2, <1>3, <1>4, <1>14 DEF l, M

\* What it adds to the chain covers what it grants.
LEMMA GrantsGrow ==
    ASSUME NEW n, NEW L, Chain(n, L), NEW g, Grants(n, L, g), NEW r \in Requests,
           \A i \in 1..n : L[i].run # r.run, Top(n, L) \in Nat, Asked(Record(n, L, r)) = r
    PROVE  Grants(n + 1, More(n, L, r), g \cup {r})
<1> DEFINE l == Record(n, L, r)
           M == More(n, L, r)
<1>1. n \in Nat
  BY DEF Chain
<1>2. M[n + 1] = l /\ \A i \in 1..n : M[i] = L[i]
  BY <1>1 DEF More
<1>3. \A i : i \in 1..(n + 1) <=> i \in 1..n \/ i = n + 1
  BY <1>1
<1>4. l.cumulative = Top(n, L) + RoundUp(r.maximum)
  BY DEF Record
<1> HIDE DEF l, M
<1>5. g \cup {r} = {Asked(M[i]) : i \in 1..(n + 1)}
  BY <1>2, <1>3 DEF Grants, l
<1>6. r \notin g
  <2>1. \A i \in 1..n : Asked(L[i]).run = L[i].run
    BY DEF Asked
  <2> QED BY <2>1 DEF Grants
<1>7. r.maximum \in Nat /\ Priced(g) /\ Cost(g) <= PerMicro * Top(n, L)
  BY RequestIs DEF Grants
<1>8. Priced(g \cup {r}) /\ Cost(g) \in Nat /\ Cost(g \cup {r}) = Cost(g) + r.maximum
  BY <1>6, <1>7, CostOfOneMore
<1>9. RoundUp(r.maximum) \in Nat /\ r.maximum <= PerMicro * RoundUp(r.maximum) /\ PerMicro \in Nat
  BY <1>7, Rounding, BudgetConstants
<1>10. PerMicro * (Top(n, L) + RoundUp(r.maximum)) = PerMicro * Top(n, L) + PerMicro * RoundUp(r.maximum)
  BY <1>9
<1>11. PerMicro * Top(n, L) \in Nat /\ PerMicro * RoundUp(r.maximum) \in Nat
  BY <1>9
<1>12. Cost(g \cup {r}) <= PerMicro * (Top(n, L) + RoundUp(r.maximum))
  BY <1>7, <1>8, <1>9, <1>10, <1>11
<1>13. Top(n + 1, M) = Top(n, L) + RoundUp(r.maximum)
  BY <1>1, <1>2, <1>4 DEF Top
<1>14. Grants(n + 1, M, g \cup {r})
  BY <1>5, <1>8, <1>12, <1>13 DEF Grants
<1> QED BY <1>14 DEF M

-----------------------------------------------------------------------------
(* What a ledger that is not broken says *)

\* The files of the ledger.
LEMMA FilesDiffer ==
    /\ ApprovalFile \in FileNames /\ Projection \in FileNames /\ ApprovalFile # Projection
    /\ \A i \in Sequence : /\ ReservationFile(i) \in FileNames
                           /\ ReservationFile(i) # ApprovalFile /\ ReservationFile(i) # Projection
    /\ \A i, j : ReservationFile(i) = ReservationFile(j) => i = j
    /\ \A run \in Runs : /\ Copy(run) \in FileNames
                         /\ Copy(run) # ApprovalFile /\ Copy(run) # Projection
                         /\ \A i : Copy(run) # ReservationFile(i)
    /\ \A i, j : Copy(i) = Copy(j) => i = j
    /\ \A f \in FileNames :
          f \in {ApprovalFile, Projection} \cup {ReservationFile(i) : i \in Sequence}
                \cup {Copy(run) : run \in Runs}
<1> USE DEF ApprovalFile, Projection, ReservationFile, Copy
<1>1. /\ ApprovalFile \in FileNames /\ Projection \in FileNames
      /\ \A i \in Sequence : ReservationFile(i) \in FileNames
      /\ \A run \in Runs : Copy(run) \in FileNames
  BY Zenon DEF FileNames
<1>2. ApprovalFile # Projection
  OBVIOUS
<1>3. \A i : ReservationFile(i) # ApprovalFile /\ ReservationFile(i) # Projection
  OBVIOUS
<1>4. \A run : /\ Copy(run) # ApprovalFile /\ Copy(run) # Projection
               /\ \A i : Copy(run) # ReservationFile(i)
  OBVIOUS
<1>5. \A i, j : (ReservationFile(i) = ReservationFile(j) => i = j) /\ (Copy(i) = Copy(j) => i = j)
  OBVIOUS
<1>6. \A f \in FileNames :
          f \in {ApprovalFile, Projection} \cup {ReservationFile(i) : i \in Sequence}
                \cup {Copy(run) : run \in Runs}
  BY Zenon DEF FileNames
<1> QED BY <1>1, <1>2, <1>3, <1>4, <1>5, <1>6, Zenon

\* A record of the chain is of a run, and has a file of its own.
LEMMA RunsOf ==
    ASSUME NEW n, NEW L, Chain(n, L), NEW i \in 1..n
    PROVE  L[i].run \in Runs /\ L[i] # Absent /\ i \in Sequence /\ n \in Nat
<1>1. Asked(L[i]) \in Requests /\ L[i] # Absent
  BY DEF Chain, Link
<1>2. Asked(L[i]).run \in Runs
  BY <1>1, RequestIs
<1>3. i \in Sequence /\ n \in Nat
  BY BudgetConstants DEF Chain, Sequence
<1> QED BY <1>1, <1>2, <1>3 DEF Asked

\* All four first files are not lost while fewer are.
LEMMA FourFiles ==
    ASSUME NEW n, NEW L, NEW d, NEW g, NEW k, Stands(n, L, d, g, k), k <= 3, n > 0
    PROVE  \/ d[ApprovalFile] # Absent \/ d[Projection] # Absent
           \/ d[ReservationFile(1)] # Absent \/ d[Copy(L[1].run)] # Absent
<1> DEFINE one == {ApprovalFile}
           two == one \cup {Projection}
           three == two \cup {ReservationFile(1)}
           copy == Copy(L[1].run)
           four == three \cup {copy}
<1>1. L[1].run \in Runs /\ 1 \in Sequence
  BY RunsOf DEF Stands, Chain
<1>2. IsFiniteSet(one) /\ Cardinality(one) = 1
  BY FS_Singleton
<1>3. Projection \notin one /\ ReservationFile(1) \notin two /\ copy \notin three
  BY <1>1, FilesDiffer
<1>4. IsFiniteSet(two) /\ Cardinality(two) = 2
  BY <1>2, <1>3, FS_AddElement
<1>5. IsFiniteSet(three) /\ Cardinality(three) = 3
  <2> HIDE DEF two
  <2> QED BY <1>3, <1>4, FS_AddElement
<1>6. Cardinality(four) = 4
  <2> HIDE DEF three, copy
  <2> QED BY <1>3, <1>5, FS_AddElement
<1>7. SUFFICES ASSUME d[ApprovalFile] = Absent, d[Projection] = Absent,
                      d[ReservationFile(1)] = Absent, d[Copy(L[1].run)] = Absent
               PROVE  FALSE
  OBVIOUS
<1>8. Lost(L, d) = four
  BY <1>7 DEF Lost
<1>9. Cardinality(Lost(L, d)) <= k /\ k \in Nat
  BY DEF Stands
<1> HIDE DEF four
<1> QED BY <1>6, <1>8, <1>9

\* What is read from a ledger that is not broken is what it stands for.
LEMMA Reading ==
    ASSUME NEW n, NEW L, NEW d, NEW g, NEW k, Stands(n, L, d, g, k), k <= 3, Ledger(d) # "broken"
    PROVE  /\ Count(d) = n /\ Allocated(d) = Top(n, L)
           /\ n = 0 => Ledger(d) = "none"
           /\ n > 0 => /\ Ledger(d) = "sound" /\ d[ApprovalFile] = L[1].approval
                       /\ d[Projection].head = L[n] /\ Names(d) = 1..n
                       /\ \A i \in 1..n : d[ReservationFile(i)] = L[i]
           /\ Whole(n, L, d)
<1>1. CASE Ledger(d) = "none"
  <2>1. /\ d[ApprovalFile] = Absent /\ d[Projection] = Absent /\ Names(d) = {}
        /\ \A run \in Runs : d[Copy(run)] = Absent
    BY <1>1 DEF Ledger
  <2>2. ASSUME n > 0 PROVE FALSE
    <3>1. L[1].run \in Runs /\ 1 \in Sequence
      BY <2>2, RunsOf DEF Stands, Chain
    <3>2. d[ReservationFile(1)] = Absent
      BY <2>1, <3>1 DEF Names
    <3> QED BY <2>1, <2>2, <3>1, <3>2, FourFiles
  <2>3. n = 0
    BY <2>2 DEF Stands, Chain
  <2> QED BY <1>1, <2>3 DEF Count, Allocated, Top, Whole
<1>2. CASE Ledger(d) = "sound"
  <2>1. /\ d[ApprovalFile] # Absent /\ d[Projection] # Absent
        /\ Names(d) = 1..d[Projection].count
        /\ \A i \in Names(d) : ReservationSound(d, i)
    BY <1>2 DEF Ledger
  <2>2. /\ n > 0 /\ n \in Nat /\ d[ApprovalFile] = L[1].approval
        /\ d[Projection] = [count |-> n, head |-> L[n], allocated |-> L[n].cumulative]
    BY <2>1 DEF Stands, Keeps, Chain
  <2>3. d[Projection].count = n /\ d[Projection].head = L[n] /\ d[Projection].allocated = L[n].cumulative
    BY <2>2
  <2>4. Names(d) = 1..n
    BY <2>1, <2>3
  <2>5. ASSUME NEW i \in 1..n PROVE d[ReservationFile(i)] = L[i] /\ d[Copy(L[i].run)] # Absent /\ L[i] # Absent
    <3>1. i \in Sequence /\ d[ReservationFile(i)] # Absent
      BY <2>4 DEF Names
    <3>2. d[ReservationFile(i)] = L[i]
      BY <3>1 DEF Stands, Keeps
    <3>3. d[Copy(d[ReservationFile(i)].run)] = d[ReservationFile(i)]
      BY <2>1, <2>4 DEF ReservationSound
    <3> QED BY <3>1, <3>2, <3>3
  <2>6. Whole(n, L, d)
    BY <2>1, <2>5 DEF Whole
  <2>7. Count(d) = n /\ Allocated(d) = Top(n, L)
    BY <1>2, <2>2, <2>3 DEF Count, Allocated, Top
  <2> QED BY <1>2, <2>2, <2>3, <2>4, <2>5, <2>6, <2>7
<1> QED BY <1>1, <1>2 DEF Ledger

-----------------------------------------------------------------------------
(* Granting and losing *)

\* What the code checks of a ledger before it reserves.
Agreed(d, r) == Ledger(d) # "broken" /\ AllocationAvailable(d, r) /\ Fresh(d, r)

\* The files once the mutations have been written.
After(d, r) == [f \in FileNames |-> IF f \in DOMAIN Mutations(d, r) THEN Mutations(d, r)[f] ELSE d[f]]

\* What an agreed reservation writes, file by file.
LEMMA FilesAfter ==
    ASSUME NEW n, NEW L, NEW d, NEW g, NEW k, Stands(n, L, d, g, k), k <= 3,
           NEW r \in Requests, Agreed(d, r)
    PROVE  /\ n \in Nat /\ n < MaxReservations
           /\ After(d, r)[ReservationFile(n + 1)] = Record(n, L, r)
           /\ After(d, r)[Copy(r.run)] = Record(n, L, r)
           /\ After(d, r)[Projection] = [count |-> n + 1, head |-> Record(n, L, r),
                                         allocated |-> Record(n, L, r).cumulative]
           /\ After(d, r)[ApprovalFile] = IF n = 0 THEN r.approval ELSE d[ApprovalFile]
           /\ \A i \in Sequence : i # n + 1 => After(d, r)[ReservationFile(i)] = d[ReservationFile(i)]
           /\ \A run \in Runs : run # r.run => After(d, r)[Copy(run)] = d[Copy(run)]
<1> DEFINE l == Record(n, L, r)
           fresh == IF n = 0 THEN {ApprovalFile} ELSE {}
           changed == {ReservationFile(n + 1), Copy(r.run), Projection} \cup fresh
<1>1. Count(d) = n /\ Allocated(d) = Top(n, L) /\ n \in Nat /\ n < MaxReservations
  <2>1. Count(d) = n /\ Allocated(d) = Top(n, L)
    BY Reading DEF Agreed
  <2>2. n \in Nat
    BY BudgetConstants DEF Stands, Chain
  <2> QED BY <2>1, <2>2 DEF Agreed, AllocationAvailable
<1>2. (Ledger(d) = "none" <=> n = 0) /\ (n # 0 => d[Projection].head = L[n])
  <2>1. n # 0 => n > 0
    BY <1>1
  <2>2. n > 0 => Ledger(d) = "sound" /\ d[Projection].head = L[n]
    BY Reading DEF Agreed
  <2>3. n = 0 => Ledger(d) = "none"
    BY Reading DEF Agreed
  <2> QED BY <2>1, <2>2, <2>3
<1>3. Reservation(d, r) = l
  BY <1>1, <1>2 DEF Reservation, Record
<1>4. l.sequence = n + 1
  BY DEF Record
<1> HIDE DEF l
<1>5. Mutations(d, r) = [f \in changed |-> IF f = ApprovalFile THEN r.approval
                           ELSE IF f = Projection THEN [count |-> n + 1, head |-> l, allocated |-> l.cumulative]
                           ELSE l]
  BY <1>2, <1>3, <1>4 DEF Mutations
<1>6. n + 1 \in Sequence /\ r.run \in Runs
  BY <1>1, BudgetConstants, RequestIs DEF Sequence
<1>7. \A f \in FileNames : After(d, r)[f] =
          IF f \in changed THEN (IF f = ApprovalFile THEN r.approval
                           ELSE IF f = Projection THEN [count |-> n + 1, head |-> l, allocated |-> l.cumulative]
                           ELSE l) ELSE d[f]
  BY <1>5 DEF After
<1>8. /\ After(d, r)[ReservationFile(n + 1)] = l /\ After(d, r)[Copy(r.run)] = l
      /\ After(d, r)[Projection] = [count |-> n + 1, head |-> l, allocated |-> l.cumulative]
  BY <1>6, <1>7, FilesDiffer
<1>9. After(d, r)[ApprovalFile] = IF n = 0 THEN r.approval ELSE d[ApprovalFile]
  BY <1>6, <1>7, FilesDiffer
<1>10. \A i \in Sequence : i # n + 1 => After(d, r)[ReservationFile(i)] = d[ReservationFile(i)]
  BY <1>6, <1>7, FilesDiffer
<1>11. \A run \in Runs : run # r.run => After(d, r)[Copy(run)] = d[Copy(run)]
  BY <1>6, <1>7, FilesDiffer
<1> QED BY <1>1, <1>8, <1>9, <1>10, <1>11 DEF l

\* A grant is one more record of the chain, and every file is there afterwards.
LEMMA GrantStands ==
    ASSUME AbsentIsNoRecord, NEW n, NEW L, NEW d, NEW g, NEW k, Stands(n, L, d, g, k), k <= 3,
           NEW r \in Requests, Agreed(d, r)
    PROVE  Stands(n + 1, More(n, L, r), After(d, r), g \cup {r}, k)
<1> DEFINE l == Record(n, L, r)
           M == More(n, L, r)
           e == After(d, r)
<1>1. /\ n \in Nat /\ n < MaxReservations
      /\ e[ReservationFile(n + 1)] = l /\ e[Copy(r.run)] = l
      /\ e[Projection] = [count |-> n + 1, head |-> l, allocated |-> l.cumulative]
      /\ e[ApprovalFile] = IF n = 0 THEN r.approval ELSE d[ApprovalFile]
      /\ \A i \in Sequence : i # n + 1 => e[ReservationFile(i)] = d[ReservationFile(i)]
      /\ \A run \in Runs : run # r.run => e[Copy(run)] = d[Copy(run)]
  BY FilesAfter
<1>2. /\ Count(d) = n /\ Allocated(d) = Top(n, L) /\ Whole(n, L, d)
      /\ n > 0 => /\ d[ApprovalFile] = L[1].approval /\ Names(d) = 1..n /\ Ledger(d) = "sound"
                  /\ \A i \in 1..n : d[ReservationFile(i)] = L[i]
  BY Reading DEF Agreed
<1>3. \A i \in 1..n : L[i].run # r.run
  <2> TAKE i \in 1..n
  <2>1. n > 0
    BY <1>1
  <2> QED BY <1>2, <2>1 DEF Agreed, AllocationAvailable
<1>4. n > 0 => L[1].approval = r.approval
  BY <1>2 DEF Agreed, AllocationAvailable
<1>5. Top(n, L) + RoundUp(r.maximum) <= RoundDown(CeilingOf[r.approval])
  BY <1>2 DEF Agreed, AllocationAvailable
<1>6. Chain(n, L) /\ Grants(n, L, g) /\ Keeps(n, L, d) /\ k \in Nat
  BY DEF Stands
<1>7. Chain(n + 1, M) /\ l # Absent /\ Top(n, L) \in Nat /\ Asked(l) = r
  BY <1>1, <1>3, <1>4, <1>5, <1>6, ChainGrows
<1>8. Grants(n + 1, M, g \cup {r})
  BY <1>3, <1>6, <1>7, GrantsGrow
<1>9. M[n + 1] = l /\ \A i \in 1..n : M[i] = L[i]
  BY <1>1 DEF More
<1>10. \A i \in 1..(n + 1) : i \in 1..n \/ i = n + 1
  BY <1>1
<1>11. l.run = r.run /\ l.approval = r.approval
  BY DEF Record
<1>12. M[1].approval = r.approval
  <2>1. 1 \in 1..(n + 1)
    BY <1>1
  <2>2. 1 \in 1..n => n > 0
    BY <1>1
  <2> QED BY <1>4, <1>9, <1>10, <1>11, <2>1, <2>2
<1>13. r.run \in Runs /\ r.approval # Absent /\ n + 1 \in Sequence
  BY <1>1, BudgetConstants, RequestIs DEF Sequence
<1> HIDE DEF l, M, e
<1>14. e[ApprovalFile] = r.approval
  <2>1. n # 0 => n > 0
    BY <1>1
  <2> QED BY <1>1, <1>2, <1>4, <2>1
<1>15. /\ e[Projection] = [count |-> n + 1, head |-> M[n + 1], allocated |-> M[n + 1].cumulative]
       /\ e[Projection] # Absent
  BY <1>1, <1>9 DEF AbsentIsNoRecord
<1>16. ASSUME NEW i \in Sequence, e[ReservationFile(i)] # Absent
       PROVE  i <= n + 1 /\ e[ReservationFile(i)] = M[i]
  <2>1. i \in Nat /\ i >= 1
    BY BudgetConstants DEF Sequence
  <2>2. CASE i = n + 1
    BY <1>1, <1>9, <2>1, <2>2
  <2>3. CASE i # n + 1
    <3>1. d[ReservationFile(i)] # Absent /\ e[ReservationFile(i)] = d[ReservationFile(i)]
      BY <1>1, <1>16, <2>3
    <3>2. i <= n /\ d[ReservationFile(i)] = L[i]
      BY <1>6, <3>1 DEF Keeps
    <3> QED BY <1>1, <1>9, <2>1, <3>1, <3>2
  <2> QED BY <2>2, <2>3
<1>17. ASSUME NEW run \in Runs, e[Copy(run)] # Absent
       PROVE  \E i \in 1..(n + 1) : M[i].run = run /\ e[Copy(run)] = M[i]
  <2>1. CASE run = r.run
    <3>1. n + 1 \in 1..(n + 1)
      BY <1>1
    <3> QED BY <1>1, <1>9, <1>11, <2>1, <3>1
  <2>2. CASE run # r.run
    <3>1. d[Copy(run)] # Absent /\ e[Copy(run)] = d[Copy(run)]
      BY <1>1, <1>17, <2>2
    <3>2. PICK i \in 1..n : L[i].run = run /\ d[Copy(run)] = L[i]
      BY <1>6, <3>1 DEF Keeps
    <3>3. i \in 1..(n + 1)
      BY <1>1
    <3> QED BY <1>9, <3>1, <3>2, <3>3
  <2> QED BY <2>1, <2>2
<1>18. Keeps(n + 1, M, e)
  <2>1. n + 1 > 0
    BY <1>1
  <2> QED BY <1>12, <1>14, <1>15, <1>16, <1>17, <2>1 DEF Keeps
<1>19. ASSUME NEW i \in 1..(n + 1)
       PROVE  e[ReservationFile(i)] # Absent /\ e[Copy(M[i].run)] # Absent
  <2>1. CASE i = n + 1
    BY <1>1, <1>7, <1>9, <1>11, <2>1
  <2>2. CASE i \in 1..n
    <3>1. n > 0 /\ i # n + 1
      BY <1>1, <2>2
    <3>2. L[i].run \in Runs /\ i \in Sequence /\ L[i].run # r.run
      BY <1>3, <1>6, <2>2, RunsOf
    <3>3. d[ReservationFile(i)] # Absent /\ d[Copy(L[i].run)] # Absent
      BY <1>2, <2>2, <3>1 DEF Whole
    <3> QED BY <1>1, <1>9, <2>2, <3>1, <3>2, <3>3
  <2> QED BY <1>10, <2>1, <2>2
<1>20. Whole(n + 1, M, e)
  BY <1>13, <1>14, <1>15, <1>19 DEF Whole
<1>21. Cardinality(Lost(M, e)) <= k
  <2>1. 1 \in 1..(n + 1)
    BY <1>1
  <2>2. Lost(M, e) = {}
    BY <1>13, <1>14, <1>15, <1>19, <2>1 DEF Lost
  <2> QED BY <1>6, <2>2, FS_EmptySet
<1>22. Stands(n + 1, M, e, g \cup {r}, k)
  BY <1>6, <1>7, <1>8, <1>18, <1>20, <1>21 DEF Stands
<1> QED BY <1>22 DEF M, e

\* A lost file is one more.
LEMMA LossStands ==
    ASSUME NEW n, NEW L, NEW d, NEW g, NEW k, Stands(n, L, d, g, k), NEW e, NEW lost,
           \A f \in FileNames : e[f] = IF f = lost THEN Absent ELSE d[f]
    PROVE  Stands(n, L, e, g, k + 1)
<1>1. Chain(n, L) /\ Grants(n, L, g) /\ Keeps(n, L, d) /\ k \in Nat
  BY DEF Stands
<1>2. Keeps(n, L, e)
  <2>1. \A f \in FileNames : e[f] # Absent => e[f] = d[f]
    OBVIOUS
  <2>2. /\ ApprovalFile \in FileNames /\ Projection \in FileNames
        /\ \A i \in Sequence : ReservationFile(i) \in FileNames
        /\ \A run \in Runs : Copy(run) \in FileNames
    BY FilesDiffer
  <2> QED BY <1>1, <2>1, <2>2 DEF Keeps
<1>3. ASSUME n > 0 PROVE Cardinality(Lost(L, e)) <= k + 1
  <2>1. 1 \in 1..n
    BY <1>1, <1>3 DEF Chain
  <2>2. L[1].run \in Runs /\ 1 \in Sequence
    BY <1>1, <2>1, RunsOf
  <2>3. {ApprovalFile, Projection, ReservationFile(1), Copy(L[1].run)} \subseteq FileNames
    BY <2>2, FilesDiffer
  <2>4. Lost(L, e) \subseteq Lost(L, d) \cup {lost}
    BY <2>3 DEF Lost
  <2>5. IsFiniteSet(Lost(L, d))
    <3>1. IsFiniteSet({ApprovalFile, Projection, ReservationFile(1), Copy(L[1].run)})
      <4>1. IsFiniteSet({ApprovalFile})
        BY FS_Singleton
      <4>2. IsFiniteSet({ApprovalFile} \cup {Projection})
        BY <4>1, FS_AddElement
      <4>3. IsFiniteSet(({ApprovalFile} \cup {Projection}) \cup {ReservationFile(1)})
        BY <4>2, FS_AddElement
      <4>4. IsFiniteSet((({ApprovalFile} \cup {Projection}) \cup {ReservationFile(1)}) \cup {Copy(L[1].run)})
        BY <4>3, FS_AddElement
      <4>5. (({ApprovalFile} \cup {Projection}) \cup {ReservationFile(1)}) \cup {Copy(L[1].run)}
              = {ApprovalFile, Projection, ReservationFile(1), Copy(L[1].run)}
        OBVIOUS
      <4> QED BY <4>4, <4>5, Zenon
    <3> QED BY <3>1, FS_Subset DEF Lost
  <2>6. /\ IsFiniteSet(Lost(L, d) \cup {lost}) /\ Cardinality(Lost(L, d)) \in Nat
        /\ Cardinality(Lost(L, d) \cup {lost}) <= Cardinality(Lost(L, d)) + 1
    BY <2>5, FS_AddElement, FS_CardinalityType
  <2>7. /\ IsFiniteSet(Lost(L, e)) /\ Cardinality(Lost(L, e)) \in Nat
        /\ Cardinality(Lost(L, e)) <= Cardinality(Lost(L, d) \cup {lost})
        /\ Cardinality(Lost(L, d) \cup {lost}) \in Nat
    BY <2>4, <2>6, FS_Subset, FS_CardinalityType
  <2>8. Cardinality(Lost(L, d)) <= k
    BY <1>3 DEF Stands
  <2> QED BY <1>1, <2>6, <2>7, <2>8
<1> QED BY <1>1, <1>2, <1>3 DEF Stands

-----------------------------------------------------------------------------
(* The invariant *)

\* Types of the files, the requests and the grants.
Types ==
    /\ owner \in Processes \cup {NoOne}
    /\ disk = [f \in FileNames |-> disk[f]]
    /\ request \in [Processes -> Requests \cup {Absent}]
    /\ granted \subseteq Requests /\ losses \in 0..MaxLosses
    /\ owner # NoOne => request[owner] # Absent

\* The journal holds the files before an update, and what the update writes follows from them.
Updates ==
    journal # Absent =>
        /\ journal = [before |-> journal.before, after |-> journal.after, committed |-> journal.committed]
        /\ journal.committed \in BOOLEAN
        /\ DOMAIN journal.before = DOMAIN journal.after
        /\ owner # NoOne /\ ~journal.committed =>
              Agreed(Recovered, request[owner]) /\ journal.after = Mutations(Recovered, request[owner])

\* Whatever was granted so far, the ledger stands for it.
Stood == \E n, L : Stands(n, L, Recovered, granted, losses)

\* The inductive invariant.
IInv == Types /\ Updates /\ Stood

\* The grant whose update is marked.
Granted(p) ==
    /\ owner = p /\ journal # Absent /\ ~journal.committed
    /\ Recovered' = After(Recovered, request[p])
    /\ granted' = granted \cup {request[p]} /\ losses' = losses

\* A file that is lost.
Losing(lost) ==
    /\ losses < MaxLosses /\ losses' = losses + 1 /\ granted' = granted
    /\ Recovered' = [f \in FileNames |-> IF f = lost THEN Absent ELSE Recovered[f]]

\* Between updates the files are what recovery would leave.
LEMMA Settled ==
    ASSUME Types
    PROVE  /\ journal = Absent => Recovered = disk
           /\ Recovered = [f \in FileNames |-> Recovered[f]]
<1>1. DOMAIN disk = FileNames
  BY DEF Types
<1>2. CASE journal # Absent => journal.committed
  BY <1>2 DEF Recovered, Types
<1>3. CASE ~(journal # Absent => journal.committed)
  BY <1>1, <1>3 DEF Recovered
<1> QED BY <1>2, <1>3

\* Only a mark and a loss change what recovery would leave, or what was granted.
LEMMA StepKinds ==
    ASSUME IInv, [Next]_vars
    PROVE  \/ Recovered' = Recovered /\ granted' = granted /\ losses' = losses
           \/ \E p \in Processes : Granted(p)
           \/ \E lost \in FileNames : Losing(lost)
<1>a. Types /\ Updates
  BY DEF IInv
<1>b. DOMAIN disk = FileNames /\ disk = [f \in FileNames |-> disk[f]]
  BY <1>a DEF Types
<1> DEFINE Same == Recovered' = Recovered /\ granted' = granted /\ losses' = losses
<1>1. ASSUME NEW p \in Processes, Ask(p) \/ Die(p) PROVE Same
  BY <1>1 DEF Ask, Die, Crash, files, Recovered
<1>2. ASSUME NEW p \in Processes, Lock(p) PROVE Same
  BY <1>2 DEF Lock, Enter, Recovered
<1>3. ASSUME NEW p \in Processes, Refuse(p) \/ Answer(p) PROVE Same
  BY <1>3 DEF Refuse, Answer, Leave, Recovered
<1>4. ASSUME NEW p \in Processes, Reserve(p) PROVE Same
  <2>1. /\ journal = Absent /\ disk' = disk /\ granted' = granted /\ losses' = losses
        /\ journal' = [before |-> [f \in DOMAIN Mutations(disk, request[p]) |-> disk[f]],
                       after |-> Mutations(disk, request[p]), committed |-> FALSE]
    BY <1>4 DEF Reserve, Stage
  <2>2. Recovered = disk
    BY <1>a, <2>1, Settled
  <2>3. /\ journal'.committed = FALSE
        /\ journal'.before = [f \in DOMAIN Mutations(disk, request[p]) |-> disk[f]]
    BY <2>1
  <2>4. Recovered' = [f \in FileNames |-> disk[f]]
    BY <1>b, <2>1, <2>3 DEF Recovered
  <2> QED BY <1>b, <2>1, <2>2, <2>4
<1>5. ASSUME NEW p \in Processes, Write(p) PROVE Same
  <2>1. PICK f \in DOMAIN journal.after : disk' = [disk EXCEPT ![f] = journal.after[f]]
    BY <1>5 DEF Write, WriteFile
  <2>2. /\ journal # Absent /\ ~journal.committed /\ journal' = journal
        /\ granted' = granted /\ losses' = losses
    BY <1>5 DEF Write, WriteFile
  <2>3. DOMAIN disk' = DOMAIN disk /\ \A g \in DOMAIN disk \ {f} : disk'[g] = disk[g]
    BY <2>1
  <2>4. f \in DOMAIN journal.before
    BY <1>a, <2>2 DEF Updates
  <2>5. Recovered' = Recovered
    BY <2>2, <2>3, <2>4 DEF Recovered
  <2> QED BY <2>2, <2>5
<1>6. ASSUME NEW p \in Processes, Grant(p) PROVE Granted(p)
  <2>1. /\ owner = p /\ journal # Absent /\ ~journal.committed /\ Written
        /\ journal' = [journal EXCEPT !.committed = TRUE] /\ disk' = disk
        /\ granted' = granted \cup {request[p]} /\ losses' = losses
    BY <1>6 DEF Grant, MarkCommitted
  <2>2. journal = [before |-> journal.before, after |-> journal.after, committed |-> journal.committed]
    BY <1>a, <2>1 DEF Updates
  <2>3. journal'.committed
    BY <2>1, <2>2
  <2>4. Recovered' = disk
    BY <2>1, <2>3 DEF Recovered
  <2>5. owner # NoOne
    BY <2>1, BudgetConstants
  <2>6. DOMAIN journal.before = DOMAIN journal.after /\ journal.after = Mutations(Recovered, request[p])
    BY <1>a, <2>1, <2>5 DEF Updates
  <2>7. \A f \in FileNames : Recovered[f] = IF f \in DOMAIN journal.before THEN journal.before[f] ELSE disk[f]
    BY <1>b, <2>1 DEF Recovered
  <2>8. \A f \in DOMAIN journal.after : disk[f] = journal.after[f]
    BY <2>1 DEF Written
  <2>9. \A f \in FileNames : disk[f] = After(Recovered, request[p])[f]
    BY <2>6, <2>7, <2>8 DEF After
  <2>10. disk = After(Recovered, request[p])
    BY <1>b, <2>9 DEF After
  <2> QED BY <2>1, <2>4, <2>10 DEF Granted
<1>7. ASSUME Lose PROVE \E lost \in FileNames : Losing(lost)
  <2>1. PICK lost \in FileNames : disk' = [disk EXCEPT ![lost] = Absent]
    BY <1>7 DEF Lose
  <2>2. /\ losses < MaxLosses /\ losses' = losses + 1 /\ journal = Absent /\ journal' = Absent
        /\ granted' = granted
    BY <1>7 DEF Lose
  <2>3. Recovered = disk
    BY <1>a, <2>2, Settled
  <2>4. Recovered' = disk'
    BY <2>2 DEF Recovered
  <2>5. Recovered' = [f \in FileNames |-> IF f = lost THEN Absent ELSE Recovered[f]]
    BY <1>b, <2>1, <2>3, <2>4
  <2> QED BY <2>2, <2>5 DEF Losing
<1>8. ASSUME UNCHANGED vars PROVE Same
  BY <1>8 DEF vars, files, Recovered
<1> HIDE DEF Same
<1>9. Same \/ (\E p \in Processes : Granted(p)) \/ (\E lost \in FileNames : Losing(lost))
  BY <1>1, <1>2, <1>3, <1>4, <1>5, <1>6, <1>7, <1>8 DEF Next
<1> QED BY <1>9 DEF Same

\* A study starts without files and grants.
LEMMA StoodStart == ASSUME Init PROVE IInv
<1>1. Types
  BY BudgetConstants DEF Init, FilesInit, Types
<1>2. Updates
  BY DEF Init, FilesInit, Updates
<1>3. Recovered = [f \in FileNames |-> Absent] /\ granted = {} /\ losses = 0
  BY DEF Init, FilesInit, Recovered
<1>4. Chain(0, <<>>)
  BY BudgetConstants DEF Chain
<1>5. Grants(0, <<>>, {})
  BY CostOfNone, FS_EmptySet, BudgetConstants DEF Grants, Priced, Top
<1>6. Keeps(0, <<>>, Recovered)
  BY <1>3, FilesDiffer DEF Keeps
<1>7. Stands(0, <<>>, Recovered, granted, losses)
  BY <1>3, <1>4, <1>5, <1>6 DEF Stands, Whole
<1> QED BY <1>1, <1>2, <1>7 DEF IInv, Stood

\* The ledger goes on standing for the grants.
LEMMA StoodStep ==
    ASSUME AbsentIsNoRecord, MaxLosses <= 3, IInv, [Next]_vars
    PROVE  Stood'
<1>1. PICK n, L : Stands(n, L, Recovered, granted, losses)
  BY DEF IInv, Stood
<1>2. CASE Recovered' = Recovered /\ granted' = granted /\ losses' = losses
  <2>1. Stands(n, L, Recovered', granted', losses')
    BY <1>1, <1>2
  <2> QED BY <2>1 DEF Stood
<1>3. ASSUME NEW p \in Processes, Granted(p) PROVE Stood'
  <2>1. owner = p /\ owner # NoOne
    BY <1>3, BudgetConstants DEF Granted
  <2>2. request[p] \in Requests /\ Agreed(Recovered, request[p])
    BY <1>3, <2>1 DEF Granted, IInv, Types, Updates
  <2>3. losses <= 3
    BY BudgetConstants DEF IInv, Types
  <2>4. Stands(n + 1, More(n, L, request[p]), After(Recovered, request[p]), granted \cup {request[p]}, losses)
    BY <1>1, <2>2, <2>3, GrantStands
  <2>5. \E m, M : Stands(m, M, Recovered', granted', losses')
    BY <1>3, <2>4 DEF Granted
  <2> QED BY <2>5 DEF Stood
<1>4. ASSUME NEW lost \in FileNames, Losing(lost) PROVE Stood'
  <2>1. PICK e : e = Recovered'
    OBVIOUS
  <2>2. \A f \in FileNames : e[f] = IF f = lost THEN Absent ELSE Recovered[f]
    BY <1>4, <2>1 DEF Losing
  <2>3. Stands(n, L, e, granted, losses + 1)
    BY <1>1, <2>2, LossStands
  <2>4. \E m, M : Stands(m, M, Recovered', granted', losses')
    BY <1>4, <2>1, <2>3 DEF Losing
  <2> QED BY <2>4 DEF Stood
<1> QED BY <1>2, <1>3, <1>4, StepKinds

\* Types and journals are kept.
LEMMA UpdatesStep == ASSUME Types, Updates, [Next]_vars PROVE Types' /\ Updates'
<1>a. Types /\ Updates
  OBVIOUS
<1>b. DOMAIN disk = FileNames /\ disk = [f \in FileNames |-> disk[f]]
  BY <1>a DEF Types
<1>c. \A p \in Processes : p # NoOne
  BY BudgetConstants
<1>1. ASSUME NEW p \in Processes, Ask(p) PROVE Types' /\ Updates'
  <2>1. PICK r \in Requests : request' = [request EXCEPT ![p] = r]
    BY <1>1 DEF Ask
  <2>2. request[p] = Absent /\ UNCHANGED <<owner, disk, journal, granted, losses>>
    BY <1>1 DEF Ask, files
  <2>3. r # Absent
    BY RequestIs
  <2>4. Types'
    BY <1>a, <2>1, <2>2, <2>3 DEF Types
  <2>5. owner # NoOne => request'[owner] = request[owner]
    BY <1>a, <2>1, <2>2 DEF Types
  <2>6. Recovered' = Recovered
    BY <2>2 DEF Recovered
  <2>7. Updates'
    BY <1>a, <2>2, <2>5, <2>6 DEF Updates
  <2> QED BY <2>4, <2>7
<1>2. ASSUME NEW p \in Processes, Lock(p) PROVE Types' /\ Updates'
  <2>1. /\ owner' = p /\ disk' = Recovered /\ journal' = Absent /\ request[p] # Absent
        /\ UNCHANGED <<request, granted, losses>>
    BY <1>2 DEF Lock, Enter
  <2>2. Types'
    BY <1>a, <2>1, Settled DEF Types
  <2> QED BY <2>1, <2>2 DEF Updates
<1>3. ASSUME NEW p \in Processes, Refuse(p) \/ Answer(p) \/ Die(p) PROVE Types' /\ Updates'
  <2>1. /\ owner' = NoOne /\ disk' = disk /\ journal' \in {journal, Absent}
        /\ request' = [request EXCEPT ![p] = Absent] /\ UNCHANGED <<granted, losses>>
    BY <1>3 DEF Refuse, Answer, Die, Leave, Crash
  <2>2. Types'
    BY <1>a, <2>1 DEF Types
  <2>3. Updates'
    BY <1>a, <2>1 DEF Updates
  <2> QED BY <2>2, <2>3
<1>4. ASSUME NEW p \in Processes, Reserve(p) PROVE Types' /\ Updates'
  <2> DEFINE after == Mutations(disk, request[p])
  <2>1. /\ owner = p /\ journal = Absent /\ Agreed(disk, request[p])
        /\ UNCHANGED <<owner, disk, request, granted, losses>>
        /\ journal' = [before |-> [f \in DOMAIN after |-> disk[f]], after |-> after, committed |-> FALSE]
    BY <1>4 DEF Reserve, Stage, Agreed
  <2>2. Types'
    BY <1>a, <2>1 DEF Types
  <2>3. Recovered = disk
    BY <1>a, <2>1, Settled
  <2> HIDE DEF after
  <2>4. /\ journal' = [before |-> journal'.before, after |-> journal'.after, committed |-> journal'.committed]
        /\ journal'.committed = FALSE /\ journal'.after = after
        /\ journal'.before = [f \in DOMAIN after |-> disk[f]]
    BY <2>1
  <2>5. DOMAIN journal'.before = DOMAIN journal'.after
    BY <2>4
  <2>6. Recovered' = disk
    <3>1. Recovered' = [f \in FileNames |-> disk[f]] \/ Recovered' = disk
      BY <1>b, <2>1, <2>4 DEF Recovered
    <3> QED BY <1>b, <3>1
  <2>7. Updates'
    BY <2>1, <2>4, <2>5, <2>6 DEF Updates, after
  <2> QED BY <2>2, <2>7
<1>5. ASSUME NEW p \in Processes, Write(p) PROVE Types' /\ Updates'
  <2>1. PICK f \in DOMAIN journal.after : disk' = [disk EXCEPT ![f] = journal.after[f]]
    BY <1>5 DEF Write, WriteFile
  <2>2. journal # Absent /\ ~journal.committed /\ UNCHANGED <<owner, journal, request, granted, losses>>
    BY <1>5 DEF Write, WriteFile
  <2>3. disk' = [g \in FileNames |-> disk'[g]]
    BY <1>b, <2>1
  <2>4. Types'
    BY <1>a, <2>2, <2>3 DEF Types
  <2>5. DOMAIN disk' = DOMAIN disk /\ \A g \in DOMAIN disk \ {f} : disk'[g] = disk[g]
    BY <2>1
  <2>6. f \in DOMAIN journal.before
    BY <1>a, <2>2 DEF Updates
  <2>7. Recovered' = Recovered
    BY <2>2, <2>5, <2>6 DEF Recovered
  <2>8. Updates'
    BY <1>a, <2>2, <2>7 DEF Updates
  <2> QED BY <2>4, <2>8
<1>6. ASSUME NEW p \in Processes, Grant(p) PROVE Types' /\ Updates'
  <2>1. /\ owner = p /\ journal # Absent /\ ~journal.committed
        /\ journal' = [journal EXCEPT !.committed = TRUE]
        /\ granted' = granted \cup {request[p]} /\ UNCHANGED <<owner, disk, request, losses>>
    BY <1>6 DEF Grant, MarkCommitted
  <2>2. journal = [before |-> journal.before, after |-> journal.after, committed |-> journal.committed]
    BY <1>a, <2>1 DEF Updates
  <2>3. /\ journal' = [before |-> journal'.before, after |-> journal'.after, committed |-> journal'.committed]
        /\ journal'.committed = TRUE /\ journal'.before = journal.before /\ journal'.after = journal.after
    BY <2>1, <2>2
  <2>4. Types'
    BY <1>a, <1>c, <2>1 DEF Types
  <2>5. Updates'
    BY <1>a, <2>1, <2>3 DEF Updates
  <2> QED BY <2>4, <2>5
<1>7. ASSUME Lose PROVE Types' /\ Updates'
  <2>1. PICK lost \in FileNames : disk' = [disk EXCEPT ![lost] = Absent]
    BY <1>7 DEF Lose
  <2>2. /\ losses < MaxLosses /\ losses' = losses + 1 /\ journal' = Absent
        /\ UNCHANGED <<owner, request, granted>>
    BY <1>7 DEF Lose
  <2>3. disk' = [g \in FileNames |-> disk'[g]]
    BY <1>b, <2>1
  <2>4. losses' \in 0..MaxLosses
    BY <1>a, <2>2, BudgetConstants DEF Types
  <2>5. Types'
    BY <1>a, <2>2, <2>3, <2>4 DEF Types
  <2> QED BY <2>2, <2>5 DEF Updates
<1>8. ASSUME UNCHANGED vars PROVE Types' /\ Updates'
  BY <1>8, <1>a DEF vars, files, Types, Updates, Recovered
<1> QED BY <1>1, <1>2, <1>3, <1>4, <1>5, <1>6, <1>7, <1>8 DEF Next

\* The invariant holds as long as the files of one reservation cannot all be lost.
LEMMA Invariance ==
    ASSUME AbsentIsNoRecord, MaxLosses <= 3
    PROVE  Spec => []IInv
<1>1. Init => IInv
  BY StoodStart
<1>2. IInv /\ [Next]_vars => IInv'
  BY StoodStep, UpdatesStep DEF IInv
<1> QED BY <1>1, <1>2, PTL DEF Spec

\* The chain adds up to at least the cost of the grants and at most the ceiling.
LEMMA CeilingFollows == ASSUME IInv PROVE WithinCeiling
<1>1. PICK n, L : Stands(n, L, Recovered, granted, losses)
  BY DEF IInv, Stood
<1>2. Chain(n, L) /\ Grants(n, L, granted)
  BY <1>1 DEF Stands
<1>3. \A i \in 1..n : /\ Asked(L[i]).run = L[i].run /\ Asked(L[i]).approval = L[1].approval
  BY <1>2 DEF Chain, Link, Asked
<1>4. \A r \in granted : \E i \in 1..n : r = Asked(L[i])
  BY <1>2 DEF Grants
<1>5. ASSUME NEW r \in granted, NEW s \in granted
      PROVE  r.approval = s.approval /\ (r.run = s.run => r = s)
  <2>1. PICK i \in 1..n : r = Asked(L[i])
    BY <1>4
  <2>2. PICK j \in 1..n : s = Asked(L[j])
    BY <1>4
  <2> QED BY <1>2, <1>3, <2>1, <2>2 DEF Chain
<1>6. ASSUME NEW a \in Approvals PROVE Cost({r \in granted : r.approval = a}) <= CeilingOf[a]
  <2>1. CeilingOf[a] \in Nat
    BY BudgetConstants
  <2>2. CASE {r \in granted : r.approval = a} = {}
    BY <2>1, <2>2, CostOfNone
  <2>3. CASE {r \in granted : r.approval = a} # {}
    <3>1. PICK r \in granted : r.approval = a
      BY <2>3
    <3>2. {s \in granted : s.approval = a} = granted
      BY <1>5, <3>1
    <3>3. n > 0 /\ L[1].approval = a
      <4>1. PICK i \in 1..n : r = Asked(L[i])
        BY <1>4
      <4>2. n \in Nat
        BY <1>2, BudgetConstants DEF Chain
      <4> QED BY <1>3, <3>1, <4>1, <4>2
    <3>4. L[n].cumulative <= RoundDown(CeilingOf[a]) /\ L[n].cumulative \in Nat /\ Top(n, L) = L[n].cumulative
      BY <1>2, <3>3 DEF Chain, Link, Top
    <3>5. Cost(granted) <= PerMicro * L[n].cumulative /\ Cost(granted) \in Nat
      BY <1>2, <3>4, CostOfAny DEF Grants
    <3>6. /\ RoundDown(CeilingOf[a]) \in Nat /\ PerMicro \in Nat
          /\ PerMicro * RoundDown(CeilingOf[a]) <= CeilingOf[a]
      BY <2>1, Rounding, BudgetConstants
    <3>7. PerMicro * L[n].cumulative <= PerMicro * RoundDown(CeilingOf[a])
          /\ PerMicro * L[n].cumulative \in Nat /\ PerMicro * RoundDown(CeilingOf[a]) \in Nat
      BY <3>4, <3>6
    <3>8. Cost(granted) <= CeilingOf[a]
      BY <2>1, <3>5, <3>6, <3>7
    <3> QED BY <3>2, <3>8, Zenon
  <2> QED BY <2>2, <2>3
<1> QED BY <1>5, <1>6 DEF WithinCeiling

\* A report made from a sound ledger names its chain, which is the grants.
LEMMA ReportFollows ==
    ASSUME MaxLosses <= 3, IInv
    PROVE  ReportsGrants
<1> SUFFICES ASSUME journal = Absent, Ledger(disk) = "sound"
             PROVE  granted = {[run |-> d.run, approval |-> d.approval, maximum |-> d.maximum] :
                                  d \in {disk[ReservationFile(i)] : i \in Names(disk)}}
  BY DEF ReportsGrants
<1>1. PICK n, L : Stands(n, L, Recovered, granted, losses)
  BY DEF IInv, Stood
<1>2. Recovered = disk /\ losses <= 3
  BY Settled, BudgetConstants DEF IInv, Types
<1>3. n \in Nat
  BY <1>1, BudgetConstants DEF Stands, Chain
<1>4. n = 0 => Ledger(disk) = "none"
  BY <1>1, <1>2, Reading
<1>5. n > 0
  BY <1>3, <1>4
<1>6. Names(disk) = 1..n /\ \A i \in 1..n : disk[ReservationFile(i)] = L[i]
  BY <1>1, <1>2, <1>5, Reading
<1>7. granted = {Asked(L[i]) : i \in 1..n}
  BY <1>1 DEF Stands, Grants
<1> QED BY <1>6, <1>7 DEF Asked

\* With no file lost, every check of the ledger succeeds.
LEMMA LedgerFollows == ASSUME IInv PROVE CrashKeepsLedger
<1> SUFFICES ASSUME losses = 0 PROVE Ledger(Recovered) # "broken"
  BY DEF CrashKeepsLedger
<1> DEFINE d == Recovered
<1>1. PICK n, L : Stands(n, L, d, granted, losses)
  BY DEF IInv, Stood
<1> HIDE DEF d
<1>2. Chain(n, L) /\ Keeps(n, L, d) /\ Whole(n, L, d) /\ n \in Nat
  BY <1>1, BudgetConstants DEF Stands, Chain
<1>3. CASE n = 0
  <2>1. d[ApprovalFile] = Absent /\ d[Projection] = Absent
    BY <1>2, <1>3 DEF Keeps
  <2>2. \A run \in Runs : d[Copy(run)] = Absent
    BY <1>2, <1>3 DEF Keeps
  <2>3. Names(d) = {}
    BY <1>2, <1>3, BudgetConstants DEF Keeps, Names, Sequence
  <2> QED BY <2>1, <2>2, <2>3 DEF Ledger, d
<1>4. CASE n > 0
  <2>1. /\ d[ApprovalFile] # Absent /\ d[ApprovalFile] = L[1].approval
        /\ d[Projection] # Absent
        /\ d[Projection] = [count |-> n, head |-> L[n], allocated |-> L[n].cumulative]
    BY <1>2, <1>4 DEF Keeps, Whole
  <2>2. d[Projection].count = n /\ d[Projection].head = L[n] /\ d[Projection].allocated = L[n].cumulative
    BY <2>1
  <2>3. ASSUME NEW i \in 1..n
        PROVE  i \in Sequence /\ d[ReservationFile(i)] = L[i] /\ d[Copy(L[i].run)] = L[i]
    <3>1. i \in Sequence /\ L[i].run \in Runs
      BY <1>2, RunsOf
    <3>2. d[ReservationFile(i)] # Absent /\ d[Copy(L[i].run)] # Absent
      BY <1>2, <1>4 DEF Whole
    <3>3. d[ReservationFile(i)] = L[i]
      BY <1>2, <3>1, <3>2 DEF Keeps
    <3>4. PICK j \in 1..n : L[j].run = L[i].run /\ d[Copy(L[i].run)] = L[j]
      BY <1>2, <3>1, <3>2 DEF Keeps
    <3>5. i = j
      BY <1>2, <3>4 DEF Chain
    <3> QED BY <3>1, <3>3, <3>4, <3>5
  <2>4. Names(d) = 1..n
    <3>1. \A i \in 1..n : i \in Names(d)
      BY <1>2, <2>3, RunsOf DEF Names
    <3>2. \A i \in Names(d) : i \in Sequence /\ i <= n
      BY <1>2 DEF Names, Keeps
    <3>3. \A i \in Sequence : i \in Nat /\ i >= 1
      BY BudgetConstants DEF Sequence
    <3>4. \A i \in Names(d) : i \in 1..n
      BY <1>2, <3>2, <3>3
    <3> QED BY <3>1, <3>4
  <2>5. ASSUME NEW i \in 1..n PROVE ReservationSound(d, i)
    <3>1. Link(L, i) /\ i <= MaxReservations /\ i \in Nat
      BY <1>2, BudgetConstants DEF Chain
    <3>2. d[ReservationFile(i)] = L[i] /\ d[Copy(L[i].run)] = L[i]
      BY <2>3
    <3>3. i # 1 => i - 1 \in 1..n /\ d[ReservationFile(i - 1)] = L[i - 1]
      <4>1. i # 1 => i - 1 \in 1..n
        BY <1>2
      <4> QED BY <2>3, <4>1
    <3>4. \A m \in 1..(i - 1) : d[ReservationFile(m)].run # L[i].run
      <4> TAKE m \in 1..(i - 1)
      <4>1. m \in 1..n /\ m # i
        BY <1>2
      <4> QED BY <1>2, <2>3, <4>1 DEF Chain
    <3>5. /\ L[i].sequence = i /\ L[i].approval = d[ApprovalFile]
          /\ L[i].cumulative = (IF i = 1 THEN 0 ELSE L[i - 1].cumulative) + RoundUp(L[i].maximum)
          /\ L[i].previous = IF i = 1 THEN d[ApprovalFile] ELSE L[i - 1]
      BY <2>1, <3>1 DEF Link
    <3>6. CASE i = 1
      BY <3>1, <3>2, <3>4, <3>5, <3>6 DEF ReservationSound
    <3>7. CASE i # 1
      BY <3>1, <3>2, <3>3, <3>4, <3>5, <3>7 DEF ReservationSound
    <3> QED BY <3>6, <3>7
  <2>6. L[n] = d[ReservationFile(n)] /\ L[n].cumulative <= RoundDown(CeilingOf[L[1].approval])
    <3>1. n \in 1..n
      BY <1>2, <1>4
    <3> QED BY <1>2, <1>4, <2>3, <3>1 DEF Chain
  <2> QED BY <2>1, <2>2, <2>4, <2>5, <2>6 DEF Ledger, d
<1> QED BY <1>2, <1>3, <1>4

\* The ledger's files, owner and requests keep their types, whoever dies and whatever is lost.
THEOREM TypeCorrect == Spec => []TypeOK
<1>1. Init => Types /\ Updates
  BY StoodStart DEF IInv
<1>2. Types /\ Updates /\ [Next]_vars => (Types /\ Updates)'
  BY UpdatesStep
<1>3. Types /\ Updates => TypeOK
  BY DEF Types, TypeOK
<1> QED BY <1>1, <1>2, <1>3, PTL DEF Spec

\* The exact cost of all grants stays within the one approved ceiling, and every run has at most
\* one, whichever processes die between two writes and whichever three files are lost by hand
\* (budgets.ts:82).
THEOREM CeilingKept ==
    ASSUME AbsentIsNoRecord, MaxLosses <= 3
    PROVE  Spec => []WithinCeiling
<1>1. IInv => WithinCeiling
  BY CeilingFollows
<1> QED BY <1>1, Invariance, PTL

\* What a report is made from names exactly the grants (budgets.ts:108).
THEOREM ReportsAreGrants ==
    ASSUME AbsentIsNoRecord, MaxLosses <= 3
    PROVE  Spec => []ReportsGrants
<1>1. IInv => ReportsGrants
  BY ReportFollows
<1> QED BY <1>1, Invariance, PTL

\* No crash alone leaves a ledger that the next command refuses.
THEOREM CrashLeavesLedger ==
    ASSUME AbsentIsNoRecord, MaxLosses <= 3
    PROVE  Spec => []CrashKeepsLedger
<1>1. IInv => CrashKeepsLedger
  BY LedgerFollows
<1> QED BY <1>1, Invariance, PTL

-----------------------------------------------------------------------------
(* The telemetry log *)

\* What the log may hold: receipts that are imported and those an older version left.
Entries == Receipts \cup (IF Legacy = Absent THEN {} ELSE {Legacy[i] : i \in DOMAIN Legacy})

\* An older telemetry.json is a list with an entry for each of its runs.
LogConstants ==
    /\ Legacy # Absent => /\ Legacy \in Seq(Entries)
                          /\ \A i, j \in DOMAIN Legacy : Legacy[i].run = Legacy[j].run => i = j
    /\ MaxEvents \in Nat /\ MaxLosses \in Nat
    /\ Absent \notin Receipts /\ NoOne \notin Processes

\* An absent file is nothing that the log writes.
AbsentIsNoEntry ==
    /\ Absent \notin Seq(Entries)
    /\ \A sequence, previous, event :
          [sequence |-> sequence, previous |-> previous, event |-> event] # Absent
    /\ \A sequence, hash : [sequence |-> sequence, hash |-> hash] # Absent

\* L holds the records of n events after the baseline b, together all that is recorded.
Continues(b, n, L, all) ==
    /\ b \in Seq(Entries) /\ all \in Seq(Entries) /\ n \in 0..MaxEvents
    /\ Len(all) = Len(b) + n /\ \A i \in 1..Len(b) : all[i] = b[i]
    /\ \A i \in 1..n : L[i] = [sequence |-> i,
                               previous |-> IF i = 1 THEN <<b>> ELSE Log!Hash(L[i - 1]),
                               event |-> all[Len(b) + i]]

\* The head that names the last of them.
HeadOf(n, L) == [sequence |-> n, hash |-> Log!Hash(L[n])]

\* What files there are hold them.
Shows(b, n, L, all, d) ==
    /\ d[Log!Baseline] # Absent => n > 0 /\ d[Log!Baseline] = b
    /\ d[Log!HeadFile] # Absent => n > 0 /\ d[Log!HeadFile] = HeadOf(n, L)
    /\ \A i \in 1..MaxEvents : d[Log!EventFile(i)] # Absent => i <= n /\ d[Log!EventFile(i)] = L[i]
    /\ d[Log!Projection] # Absent => d[Log!Projection] = all
    /\ n = 0 /\ d[Log!Projection] = Absent => all = <<>>

\* No file is missing.
Complete(n, d) ==
    n > 0 => /\ d[Log!Baseline] # Absent /\ d[Log!HeadFile] # Absent /\ d[Log!Projection] # Absent
             /\ \A i \in 1..n : d[Log!EventFile(i)] # Absent

\* Which of the four files that a first event leaves are missing.
Missing(d) ==
    {f \in {Log!Baseline, Log!HeadFile, Log!EventFile(1), Log!Projection} : d[f] = Absent}

\* With k files lost, the log still stands for what was recorded.
Tells(b, n, L, all, d, k) ==
    /\ Continues(b, n, L, all) /\ Shows(b, n, L, all, d)
    /\ k \in Nat /\ (k = 0 => Complete(n, d) /\ b = Log!Current) /\ (n = 0 => k = 0)
    /\ n > 0 => Cardinality(Missing(d)) <= k

\* The files of the log.
LEMMA LogFiles ==
    /\ Log!Baseline \in Log!Directory /\ Log!HeadFile \in Log!Directory
    /\ Log!Baseline # Log!HeadFile /\ Log!Projection \notin Log!Directory
    /\ \A i \in 1..MaxEvents : Log!EventFile(i) \in Log!Directory
    /\ \A i : /\ Log!EventFile(i) # Log!Baseline /\ Log!EventFile(i) # Log!HeadFile
              /\ Log!EventFile(i) # Log!Projection
    /\ \A i, j : Log!EventFile(i) = Log!EventFile(j) => i = j
    /\ \A f \in Log!Directory :
          f \in {Log!Baseline, Log!HeadFile} \cup {Log!EventFile(i) : i \in 1..MaxEvents}
    /\ Log!FileNames = Log!Directory \cup {Log!Projection}
<1> USE DEF Log!Baseline, Log!HeadFile, Log!EventFile, Log!Projection
<1>1. Log!Baseline # Log!HeadFile /\ Log!Baseline # Log!Projection /\ Log!HeadFile # Log!Projection
  OBVIOUS
<1>2. \A i : /\ Log!EventFile(i) # Log!Baseline /\ Log!EventFile(i) # Log!HeadFile
             /\ Log!EventFile(i) # Log!Projection
  OBVIOUS
<1>3. \A i, j : Log!EventFile(i) = Log!EventFile(j) => i = j
  OBVIOUS
<1> HIDE DEF Log!Baseline, Log!HeadFile, Log!EventFile, Log!Projection
<1>4. Log!Projection \notin Log!Directory
  BY <1>1, <1>2, Zenon DEF Log!Directory
<1>5. /\ Log!Baseline \in Log!Directory /\ Log!HeadFile \in Log!Directory
      /\ \A i \in 1..MaxEvents : Log!EventFile(i) \in Log!Directory
      /\ \A f \in Log!Directory :
            f \in {Log!Baseline, Log!HeadFile} \cup {Log!EventFile(i) : i \in 1..MaxEvents}
  BY Zenon DEF Log!Directory
<1>6. Log!FileNames = Log!Directory \cup {Log!Projection}
  BY Zenon DEF Log!FileNames
<1> QED BY <1>1, <1>2, <1>3, <1>4, <1>5, <1>6, Zenon

\* They are at most four.
LEMMA MissingIsFinite ==
    ASSUME NEW d PROVE IsFiniteSet(Missing(d)) /\ Cardinality(Missing(d)) \in Nat
<1> DEFINE two == {Log!Baseline} \cup {Log!HeadFile}
           other == {Log!EventFile(1)} \cup {Log!Projection}
<1>1. IsFiniteSet(two) /\ IsFiniteSet(other)
  BY FS_Singleton, FS_AddElement
<1>2. IsFiniteSet(two \cup other)
  <2> HIDE DEF two, other
  <2> QED BY <1>1, FS_Union
<1>3. Missing(d) \in SUBSET (two \cup other)
  BY DEF Missing
<1> HIDE DEF two, other
<1> QED BY <1>2, <1>3, FS_Subset, FS_CardinalityType

\* All four first files are not lost while fewer are.
LEMMA OneIsLeft ==
    ASSUME NEW b, NEW n, NEW L, NEW all, NEW d, NEW k, Tells(b, n, L, all, d, k), k <= 3, n > 0
    PROVE  \/ d[Log!Baseline] # Absent \/ d[Log!HeadFile] # Absent
           \/ d[Log!EventFile(1)] # Absent \/ d[Log!Projection] # Absent
<1> DEFINE one == {Log!Baseline}
           two == one \cup {Log!HeadFile}
           three == two \cup {Log!EventFile(1)}
           four == three \cup {Log!Projection}
<1>1. Log!HeadFile \notin one /\ Log!EventFile(1) \notin two /\ Log!Projection \notin three
  BY LogFiles
<1>2. IsFiniteSet(one) /\ Cardinality(one) = 1
  BY FS_Singleton
<1>3. IsFiniteSet(two) /\ Cardinality(two) = 2
  BY <1>1, <1>2, FS_AddElement
<1>4. IsFiniteSet(three) /\ Cardinality(three) = 3
  <2> HIDE DEF two
  <2> QED BY <1>1, <1>3, FS_AddElement
<1>5. Cardinality(four) = 4
  <2> HIDE DEF three
  <2> QED BY <1>1, <1>4, FS_AddElement
<1>6. SUFFICES ASSUME d[Log!Baseline] = Absent, d[Log!HeadFile] = Absent,
                      d[Log!EventFile(1)] = Absent, d[Log!Projection] = Absent
               PROVE  FALSE
  OBVIOUS
<1>7. Missing(d) = four
  BY <1>6 DEF Missing
<1>8. Cardinality(Missing(d)) <= k /\ k \in Nat
  BY DEF Tells
<1> HIDE DEF four
<1> QED BY <1>5, <1>7, <1>8

\* The baseline and the events of a whole log are all that was recorded.
LEMMA Concatenates ==
    ASSUME NEW b, NEW n, NEW L, NEW all, Continues(b, n, L, all),
           NEW events, events = [i \in 1..n |-> L[i].event]
    PROVE  b \o events = all
<1>1. b \in Seq(Entries) /\ all \in Seq(Entries) /\ Len(b) \in Nat /\ Len(all) \in Nat /\ n \in Nat
  BY LenProperties DEF Continues
<1>2. ASSUME NEW i \in 1..n PROVE L[i].event = all[Len(b) + i] /\ all[Len(b) + i] \in Entries
  <2>1. Len(b) + i \in 1..Len(all)
    BY <1>1 DEF Continues
  <2>2. all[Len(b) + i] \in Entries
    BY <1>1, <2>1, ElementOfSeq
  <2>3. PICK previous : L[i] = [sequence |-> i, previous |-> previous, event |-> all[Len(b) + i]]
    BY DEF Continues
  <2> QED BY <2>2, <2>3
<1>3. events \in [1..n -> Entries]
  BY <1>2
<1>4. events \in Seq(Entries)
  BY <1>1, <1>3, SeqDef
<1>5. Len(events) = n
  BY <1>1, <1>3, <1>4, LenProperties
<1>6. b \o events \in Seq(Entries) /\ Len(b \o events) = Len(b) + n
      /\ \A i \in 1..(Len(b) + n) : (b \o events)[i] = IF i <= Len(b) THEN b[i] ELSE events[i - Len(b)]
  BY <1>1, <1>4, <1>5, ConcatProperties
<1>7. ASSUME NEW i \in 1..Len(all) PROVE (b \o events)[i] = all[i]
  <2>1. Len(all) = Len(b) + n
    BY DEF Continues
  <2>2. CASE i <= Len(b)
    <3>1. i \in 1..Len(b)
      BY <1>1, <2>2
    <3> QED BY <1>6, <2>1, <2>2, <3>1 DEF Continues
  <2>3. CASE ~(i <= Len(b))
    <3>1. i - Len(b) \in 1..n /\ Len(b) + (i - Len(b)) = i
      BY <1>1, <2>1, <2>3
    <3>2. events[i - Len(b)] = all[Len(b) + (i - Len(b))]
      BY <1>2, <3>1
    <3> QED BY <1>6, <2>1, <2>3, <3>1, <3>2
  <2> QED BY <2>2, <2>3
<1>8. Len(b \o events) = Len(all)
  BY <1>6 DEF Continues
<1> QED BY <1>1, <1>6, <1>7, <1>8, SeqEqual

\* With nothing after it, the baseline is all there is.
LEMMA OnlyBaseline ==
    ASSUME NEW b, NEW L, NEW all, Continues(b, 0, L, all)
    PROVE  all = b
<1>1. b \in Seq(Entries) /\ all \in Seq(Entries) /\ Len(b) \in Nat /\ Len(all) = Len(b)
  BY LenProperties DEF Continues
<1>2. \A i \in 1..Len(all) : all[i] = b[i]
  BY <1>1 DEF Continues
<1> QED BY <1>1, <1>2, SeqEqual

\* A log that may be read says all that was recorded.
LEMMA LogReading ==
    ASSUME LogConstants, AbsentIsNoEntry,
           NEW b, NEW n, NEW L, NEW all, NEW d, NEW k, Tells(b, n, L, all, d, k), k <= 3,
           Log!Readable(d)
    PROVE  IF d[Log!Baseline] = Absent
           THEN /\ Log!Journal(d) = [current |-> all, initialized |-> FALSE, sequence |-> 0, hash |-> <<all>>]
                /\ \A f \in Log!Directory : d[f] = Absent
           ELSE /\ Log!Journal(d) = [current |-> all, initialized |-> TRUE, sequence |-> n,
                                     hash |-> Log!Hash(L[n])]
                /\ n > 0 /\ Log!Events(d) = 1..n /\ d[Log!Baseline] = b
<1>1. Continues(b, n, L, all) /\ Shows(b, n, L, all, d) /\ n \in Nat /\ MaxEvents \in Nat /\ n <= MaxEvents
  BY DEF Tells, Continues, LogConstants
<1>2. CASE d[Log!Baseline] = Absent
  <2>1. \A f \in Log!Directory : d[f] = Absent
    BY <1>2 DEF Log!Readable
  <2>2. (IF d[Log!Projection] = Absent THEN <<>> ELSE d[Log!Projection]) = all
    <3>1. CASE n = 0
      BY <1>1, <3>1 DEF Shows
    <3>2. CASE n > 0
      <4>1. 1 \in 1..MaxEvents
        BY <1>1, <3>2
      <4>2. d[Log!HeadFile] = Absent /\ d[Log!EventFile(1)] = Absent
        BY <2>1, <4>1, LogFiles
      <4>3. d[Log!Projection] # Absent
        BY <1>2, <3>2, <4>2, OneIsLeft
      <4> QED BY <1>1, <4>3 DEF Shows
    <3> QED BY <1>1, <3>1, <3>2
  <2>3. Log!Journal(d) = [current |-> all, initialized |-> FALSE, sequence |-> 0, hash |-> <<all>>]
    BY <1>2, <2>2, Zenon DEF Log!Journal
  <2> QED BY <1>2, <2>1, <2>3
<1>3. CASE d[Log!Baseline] # Absent
  <2>1. Log!Chained(d)
    BY <1>3 DEF Log!Readable
  <2>2. d[Log!HeadFile] = HeadOf(n, L) /\ n > 0 /\ d[Log!Baseline] = b
    BY <1>1, <1>3, <2>1 DEF Log!Chained, Shows
  <2>3. d[Log!HeadFile].sequence = n /\ d[Log!HeadFile].hash = Log!Hash(L[n])
    BY <2>2 DEF HeadOf
  <2>4. n \in Log!Events(d) /\ \A m \in Log!Events(d) : m # 1 => m - 1 \in Log!Events(d)
    BY <1>1, <2>1, <2>2, <2>3 DEF Log!Chained
  <2>5. \A m \in Log!Events(d) : m \in 1..n /\ d[Log!EventFile(m)] = L[m]
    BY <1>1 DEF Log!Events, Shows
  <2>6. ASSUME NEW gap \in (1..n) \ Log!Events(d) PROVE FALSE
    <3> DEFINE Gaps == (1..n) \ Log!Events(d)
    <3>1. Gaps \in SUBSET Nat /\ Gaps # {} /\ \A m \in Gaps : m <= n
      BY <1>1, <2>6
    <3>2. PICK g \in Gaps : \A m \in Gaps : m <= g
      <4> HIDE DEF Gaps
      <4> QED BY <1>1, <3>1, GreatestElement
    <3>3. g \in 1..n /\ g # n /\ g \notin Log!Events(d)
      BY <2>4, <3>2
    <3>4. g + 1 \in 1..n /\ ~(g + 1 <= g) /\ g + 1 # 1 /\ g + 1 - 1 = g
      BY <1>1, <3>3
    <3>5. g + 1 \in Log!Events(d)
      BY <3>2, <3>4
    <3>6. g + 1 - 1 \in Log!Events(d)
      BY <2>4, <3>4, <3>5
    <3> QED BY <3>3, <3>4, <3>6
  <2>7. Log!Events(d) = 1..n
    BY <2>5, <2>6
  <2> DEFINE events == [m \in Log!Events(d) |-> d[Log!EventFile(m)].event]
  <2>8. events = [m \in 1..n |-> L[m].event]
    BY <2>5, <2>7
  <2>9. d[Log!Baseline] \o events = all
    <3> HIDE DEF events
    <3>1. b \o events = all
      BY <1>1, <2>8, Concatenates
    <3> QED BY <2>2, <3>1
  <2>10. Log!Journal(d) = [current |-> all, initialized |-> TRUE, sequence |-> n,
                          hash |-> Log!Hash(L[n])]
    BY <1>3, <2>3, <2>9, Zenon DEF Log!Journal, Log!Replayed
  <2> QED BY <1>3, <2>2, <2>7, <2>10
<1> QED BY <1>2, <1>3

\* With no file lost, every check of the log succeeds.
LEMMA LogIsSound ==
    ASSUME LogConstants, AbsentIsNoEntry,
           NEW b, NEW n, NEW L, NEW all, NEW d, Tells(b, n, L, all, d, 0)
    PROVE  /\ Log!Readable(d) /\ Log!Events(d) = 1..n /\ b = Log!Current
           /\ all # <<>> => d[Log!Projection] = all
<1>1. Continues(b, n, L, all) /\ Shows(b, n, L, all, d) /\ n \in Nat /\ MaxEvents \in Nat /\ n <= MaxEvents
  BY DEF Tells, Continues, LogConstants
<1>2. Complete(n, d) /\ b = Log!Current
  BY DEF Tells
<1>3. Log!Events(d) = 1..n
  <2>1. \A i \in Log!Events(d) : i \in 1..n
    BY <1>1 DEF Log!Events, Shows
  <2>2. \A i \in 1..n : i \in 1..MaxEvents /\ d[Log!EventFile(i)] # Absent
    BY <1>1, <1>2 DEF Complete
  <2> QED BY <2>1, <2>2 DEF Log!Events
<1>4. \A i \in 1..n : d[Log!EventFile(i)] = L[i]
  BY <1>1, <1>3 DEF Log!Events, Shows
<1>5. all # <<>> => d[Log!Projection] = all
  BY <1>1, <1>2 DEF Complete, Shows
<1>6. CASE n = 0
  <2>1. d[Log!Baseline] = Absent /\ d[Log!HeadFile] = Absent
    BY <1>1, <1>6 DEF Shows
  <2>2. \A i \in 1..MaxEvents : d[Log!EventFile(i)] = Absent
    BY <1>1, <1>6 DEF Shows
  <2>3. \A f \in Log!Directory : d[f] = Absent
    BY <2>1, <2>2, LogFiles
  <2> QED BY <1>2, <1>3, <1>5, <2>1, <2>3 DEF Log!Readable
<1>7. CASE n > 0
  <2>1. d[Log!Baseline] = b /\ d[Log!Baseline] # Absent
        /\ d[Log!HeadFile] = HeadOf(n, L) /\ d[Log!HeadFile] # Absent
    BY <1>1, <1>2, <1>7 DEF Complete, Shows
  <2>2. d[Log!HeadFile].sequence = n /\ d[Log!HeadFile].hash = Log!Hash(L[n])
    BY <2>1 DEF HeadOf
  <2>3. \A i \in 1..n : /\ L[i].sequence = i
                         /\ L[i].previous = IF i = 1 THEN <<b>> ELSE Log!Hash(L[i - 1])
    <3> SUFFICES ASSUME NEW i \in 1..n
                 PROVE  /\ L[i].sequence = i
                        /\ L[i].previous = IF i = 1 THEN <<b>> ELSE Log!Hash(L[i - 1])
      OBVIOUS
    <3> DEFINE previous == IF i = 1 THEN <<b>> ELSE Log!Hash(L[i - 1])
    <3>1. L[i] = [sequence |-> i, previous |-> previous, event |-> all[Len(b) + i]]
      BY <1>1, Zenon DEF Continues
    <3> HIDE DEF previous
    <3>2. L[i].sequence = i /\ L[i].previous = previous
      BY <3>1
    <3> QED BY <3>2 DEF previous
  <2>4. ASSUME NEW i \in Log!Events(d)
        PROVE  /\ d[Log!EventFile(i)].sequence = i
               /\ IF i = 1 THEN d[Log!EventFile(i)].previous = <<d[Log!Baseline]>>
                  ELSE /\ i - 1 \in Log!Events(d)
                       /\ d[Log!EventFile(i)].previous = Log!Hash(d[Log!EventFile(i - 1)])
    <3>1. i \in 1..n /\ d[Log!EventFile(i)] = L[i]
      BY <1>3, <1>4
    <3>2. i # 1 => i - 1 \in 1..n
      BY <1>1, <3>1
    <3>3. i # 1 => i - 1 \in Log!Events(d) /\ d[Log!EventFile(i - 1)] = L[i - 1]
      BY <1>3, <1>4, <3>2
    <3> QED BY <2>1, <2>3, <3>1, <3>3
  <2>5. n \in 1..n /\ \A i \in 1..n : i <= n
    BY <1>1, <1>7
  <2>6. Log!Chained(d)
    BY <1>3, <1>4, <1>7, <2>1, <2>2, <2>4, <2>5 DEF Log!Chained
  <2> QED BY <1>2, <1>3, <1>5, <2>1, <2>6 DEF Log!Readable
<1> QED BY <1>1, <1>6, <1>7

\* The record of one more event.
Recording(j, event) == [sequence |-> j.sequence + 1, previous |-> j.hash, event |-> event]

\* The files once an event is recorded.
LogAfter(d, event) ==
    LET changes == Log!Appended(Log!Journal(d), event)
    IN  [f \in Log!FileNames |-> IF f \in DOMAIN changes THEN changes[f] ELSE d[f]]

\* What each file then holds.
LEMMA FilesRecorded ==
    ASSUME NEW d, NEW event, NEW j, j = Log!Journal(d), NEW m, m = j.sequence + 1,
           m \in 1..MaxEvents, NEW d2, d2 = LogAfter(d, event)
    PROVE  /\ d2[Log!EventFile(m)] = Recording(j, event)
           /\ d2[Log!HeadFile] = [sequence |-> m, hash |-> Log!Hash(Recording(j, event))]
           /\ d2[Log!Projection] = Append(j.current, event)
           /\ \A i \in 1..MaxEvents : i # m => d2[Log!EventFile(i)] = d[Log!EventFile(i)]
<1> DEFINE changed == {Log!EventFile(m), Log!HeadFile, Log!Projection}
                        \cup (IF j.initialized THEN {} ELSE {Log!Baseline})
           changes == [f \in changed |->
                         IF f = Log!Baseline THEN j.current
                         ELSE IF f = Log!EventFile(m) THEN Recording(j, event)
                         ELSE IF f = Log!HeadFile
                         THEN [sequence |-> m, hash |-> Log!Hash(Recording(j, event))]
                         ELSE Append(j.current, event)]
<1>1. Log!Appended(j, event) = changes
  BY Zenon DEF Log!Appended, Recording
<1>2. \A f \in Log!FileNames : d2[f] = IF f \in changed THEN changes[f] ELSE d[f]
  <2>1. DOMAIN changes = changed
    OBVIOUS
  <2> HIDE DEF changes, changed
  <2> QED BY <1>1, <2>1 DEF LogAfter
<1> HIDE DEF changes
<1>3. /\ changes[Log!EventFile(m)] = Recording(j, event)
      /\ changes[Log!HeadFile] = [sequence |-> m, hash |-> Log!Hash(Recording(j, event))]
      /\ changes[Log!Projection] = Append(j.current, event)
  <2>1. Log!Projection \notin {Log!Baseline, Log!HeadFile, Log!EventFile(m)}
        /\ Log!HeadFile \notin {Log!Baseline, Log!EventFile(m)} /\ Log!EventFile(m) # Log!Baseline
    BY LogFiles, Zenon
  <2>2. Log!EventFile(m) \in changed /\ Log!HeadFile \in changed /\ Log!Projection \in changed
    OBVIOUS
  <2> HIDE DEF changed
  <2>3. \A f \in changed : changes[f] =
             IF f = Log!Baseline THEN j.current
             ELSE IF f = Log!EventFile(m) THEN Recording(j, event)
             ELSE IF f = Log!HeadFile
             THEN [sequence |-> m, hash |-> Log!Hash(Recording(j, event))]
             ELSE Append(j.current, event)
    BY DEF changes
  <2> QED BY <2>1, <2>2, <2>3
<1>4. /\ Log!EventFile(m) \in Log!FileNames /\ Log!HeadFile \in Log!FileNames
      /\ Log!Projection \in Log!FileNames
      /\ \A i \in 1..MaxEvents : Log!EventFile(i) \in Log!FileNames
  BY LogFiles
<1>5. \A i \in 1..MaxEvents : Log!EventFile(i) \in changed => i = m
  BY LogFiles
<1> QED BY <1>2, <1>3, <1>4, <1>5

\* An initialized log keeps its baseline.
LEMMA BaselineStays ==
    ASSUME NEW d, NEW event, NEW current, NEW sequence, NEW hash,
           Log!Journal(d) = [current |-> current, initialized |-> TRUE, sequence |-> sequence,
                             hash |-> hash],
           NEW d2, d2 = LogAfter(d, event)
    PROVE  d2[Log!Baseline] = d[Log!Baseline]
<1> DEFINE j == Log!Journal(d)
           changes == Log!Appended(j, event)
<1>1. Log!Baseline \in Log!FileNames
      /\ Log!Baseline \notin {Log!EventFile(j.sequence + 1), Log!HeadFile, Log!Projection}
  BY LogFiles
<1>2. j.initialized = TRUE /\ j.current = current
  OBVIOUS
<1> HIDE DEF j
<1>3. Log!Baseline \notin DOMAIN changes
  BY <1>1, <1>2 DEF Log!Appended
<1> QED BY <1>1, <1>3 DEF LogAfter, j

\* With its first event a log gets the baseline.
LEMMA BaselineTaken ==
    ASSUME NEW d, NEW event, NEW current, NEW sequence, NEW hash,
           Log!Journal(d) = [current |-> current, initialized |-> FALSE, sequence |-> sequence,
                             hash |-> hash],
           NEW d2, d2 = LogAfter(d, event)
    PROVE  d2[Log!Baseline] = current
<1> DEFINE j == Log!Journal(d)
           changes == Log!Appended(j, event)
<1>1. Log!Baseline \in Log!FileNames
      /\ Log!Baseline \notin {Log!EventFile(j.sequence + 1), Log!HeadFile, Log!Projection}
  BY LogFiles
<1>2. j.initialized = FALSE /\ j.current = current
  OBVIOUS
<1> HIDE DEF j
<1>3. Log!Baseline \in DOMAIN changes /\ changes[Log!Baseline] = current
  BY <1>1, <1>2 DEF Log!Appended
<1> QED BY <1>1, <1>3 DEF LogAfter, j

\* One more entry.
LEMMA OneMoreEntry ==
    ASSUME NEW s \in Seq(Entries), NEW e \in Entries, NEW t, t = Append(s, e)
    PROVE  t \in Seq(Entries) /\ Len(t) = Len(s) + 1 /\ Len(s) \in Nat /\ t[Len(t)] = e
           /\ \A i \in 1..Len(s) : t[i] = s[i]
<1>1. Len(s) \in Nat
  BY LenProperties
<1>2. /\ t \in Seq(Entries) /\ Len(t) = Len(s) + 1 /\ t[Len(s) + 1] = e
      /\ \A i \in 1..Len(s) : t[i] = s[i]
  BY AppendProperties
<1> QED BY <1>1, <1>2

\* What the command agreed to record.
MayRecord(d, e) ==
    /\ Log!Readable(d) /\ Log!New(Log!Journal(d).current, e) /\ Log!Journal(d).sequence < MaxEvents

\* Some log tells it.
Told(all, d, k) == \E b, n, L : Tells(b, n, L, all, d, k)

\* A recorded event continues the log.
LEMMA RecordStands ==
    ASSUME LogConstants, AbsentIsNoEntry,
           NEW b, NEW n, NEW L, NEW all, NEW d, NEW k, Tells(b, n, L, all, d, k), k <= 3,
           NEW e \in Receipts, MayRecord(d, e), NEW d2, d2 = LogAfter(d, e), NEW more, more = Append(all, e)
    PROVE  Told(more, d2, k)
<1> DEFINE j == Log!Journal(d)
           record == Recording(j, e)
<1>a. Log!Readable(d) /\ Log!Journal(d).sequence < MaxEvents
  BY DEF MayRecord
<1>1. /\ Continues(b, n, L, all) /\ Shows(b, n, L, all, d) /\ n \in Nat /\ MaxEvents \in Nat
      /\ n <= MaxEvents /\ all \in Seq(Entries) /\ b \in Seq(Entries) /\ e \in Entries
      /\ k \in Nat /\ (k = 0 => Complete(n, d) /\ b = Log!Current) /\ (n = 0 => k = 0)
  BY DEF Tells, Continues, LogConstants, Entries
<1>2. /\ more \in Seq(Entries) /\ Len(more) = Len(all) + 1 /\ Len(all) \in Nat /\ more[Len(more)] = e
      /\ \A i \in 1..Len(all) : more[i] = all[i]
  BY <1>1, OneMoreEntry
<1>3. Len(b) \in Nat /\ Len(all) = Len(b) + n
  BY <1>1, LenProperties DEF Continues
<1>4. CASE d[Log!Baseline] = Absent
  <2>1. /\ j = [current |-> all, initialized |-> FALSE, sequence |-> 0, hash |-> <<all>>]
        /\ \A f \in Log!Directory : d[f] = Absent
    BY <1>a, <1>4, LogReading
  <2> HIDE DEF j
  <2>2. j.current = all /\ j.initialized = FALSE /\ j.sequence = 0 /\ j.hash = <<all>>
    BY <2>1
  <2>3. j.sequence < MaxEvents /\ 1 \in 1..MaxEvents /\ j.sequence + 1 = 1
    BY <1>a, <1>1, <2>2 DEF j
  <2>4. /\ d2[Log!EventFile(1)] = record
        /\ d2[Log!HeadFile] = [sequence |-> 1, hash |-> Log!Hash(record)]
        /\ d2[Log!Projection] = more /\ d2[Log!Baseline] = all
        /\ \A i \in 1..MaxEvents : i # 1 => d2[Log!EventFile(i)] = d[Log!EventFile(i)]
    <3> HIDE DEF record
    <3>1. /\ j = Log!Journal(d) /\ 1 = j.sequence + 1 /\ 1 \in 1..MaxEvents
          /\ d2 = LogAfter(d, e)
      BY <2>2, <2>3 DEF j
    <3>2. /\ d2[Log!EventFile(1)] = Recording(j, e)
          /\ d2[Log!HeadFile] = [sequence |-> 1, hash |-> Log!Hash(Recording(j, e))]
          /\ d2[Log!Projection] = Append(j.current, e)
          /\ \A i \in 1..MaxEvents : i # 1 => d2[Log!EventFile(i)] = d[Log!EventFile(i)]
      BY <3>1, FilesRecorded
    <3>3. d2[Log!Baseline] = all
      BY <2>1, BaselineTaken DEF j
    <3> QED BY <2>2, <3>2, <3>3 DEF record
  <2> DEFINE M == [i \in 1..1 |-> record]
  <2>5. record = [sequence |-> 1, previous |-> <<all>>, event |-> e] /\ M[1] = record
    BY <2>2 DEF Recording
  <2>6. Continues(all, 1, M, more)
    <3> HIDE DEF M, record
    <3>1. \A i \in 1..1 : i = 1
      OBVIOUS
    <3>2. M[1] = [sequence |-> 1, previous |-> <<all>>, event |-> more[Len(all) + 1]]
      BY <1>2, <2>5
    <3>3. \A i \in 1..1 : M[i] = [sequence |-> i,
                                  previous |-> IF i = 1 THEN <<all>> ELSE Log!Hash(M[i - 1]),
                                  event |-> more[Len(all) + i]]
      BY <3>1, <3>2, Zenon
    <3>4. 1 \in 0..MaxEvents
      BY <2>3, <1>1
    <3> QED BY <1>1, <1>2, <3>3, <3>4 DEF Continues
  <2>7. Shows(all, 1, M, more, d2)
    <3> HIDE DEF record, M
    <3>1. \A i \in 1..MaxEvents : i # 1 => d2[Log!EventFile(i)] = Absent
      BY <2>1, <2>4, LogFiles
    <3> QED BY <2>4, <2>5, <3>1 DEF Shows, HeadOf
  <2>8. /\ d2[Log!Baseline] # Absent /\ d2[Log!HeadFile] # Absent
        /\ d2[Log!EventFile(1)] # Absent /\ d2[Log!Projection] # Absent
    <3> HIDE DEF record
    <3>1. d2[Log!Baseline] # Absent /\ d2[Log!Projection] # Absent
      BY <1>1, <1>2, <2>4 DEF AbsentIsNoEntry
    <3>2. d2[Log!HeadFile] # Absent
      BY <2>4 DEF AbsentIsNoEntry
    <3>3. d2[Log!EventFile(1)] # Absent
      BY <2>4, <2>5 DEF AbsentIsNoEntry
    <3> QED BY <3>1, <3>2, <3>3
  <2>9. Complete(1, d2)
    BY <2>8 DEF Complete
  <2>10. Cardinality(Missing(d2)) = 0
    <3>1. Missing(d2) = {}
      BY <2>8 DEF Missing
    <3> QED BY <3>1, FS_EmptySet
  <2>11. k = 0 => all = Log!Current
    <3> SUFFICES ASSUME k = 0 PROVE all = Log!Current
      OBVIOUS
    <3>1. n = 0
      BY <1>1, <1>4 DEF Complete
    <3> QED BY <1>1, <3>1, OnlyBaseline
  <2>12. Tells(all, 1, M, more, d2, k)
    <3> HIDE DEF M
    <3> QED BY <1>1, <2>6, <2>7, <2>9, <2>10, <2>11 DEF Tells
  <2> HIDE DEF M
  <2> QED BY <2>12 DEF Told
<1>5. CASE d[Log!Baseline] # Absent
  <2>1. /\ j = [current |-> all, initialized |-> TRUE, sequence |-> n, hash |-> Log!Hash(L[n])]
        /\ n > 0 /\ Log!Events(d) = 1..n /\ d[Log!Baseline] = b
    BY <1>a, <1>5, LogReading
  <2> HIDE DEF j
  <2>2. j.current = all /\ j.initialized = TRUE /\ j.sequence = n /\ j.hash = Log!Hash(L[n])
    BY <2>1
  <2>3. n + 1 \in 1..MaxEvents /\ n < MaxEvents
    <3>1. n < MaxEvents
      BY <1>a, <2>2 DEF j
    <3> QED BY <1>1, <3>1
  <2>4. /\ d2[Log!EventFile(n + 1)] = record
        /\ d2[Log!HeadFile] = [sequence |-> n + 1, hash |-> Log!Hash(record)]
        /\ d2[Log!Projection] = more /\ d2[Log!Baseline] = d[Log!Baseline]
        /\ \A i \in 1..MaxEvents : i # n + 1 => d2[Log!EventFile(i)] = d[Log!EventFile(i)]
    <3> HIDE DEF record
    <3>1. j = Log!Journal(d)
      BY DEF j
    <3>a. PICK m : m = n + 1
      OBVIOUS
    <3>2. /\ m = j.sequence + 1 /\ m \in 1..MaxEvents
          /\ d2 = LogAfter(d, e)
      BY <2>2, <2>3, <3>a
    <3>3. /\ d2[Log!EventFile(m)] = Recording(j, e)
          /\ d2[Log!HeadFile] = [sequence |-> m, hash |-> Log!Hash(Recording(j, e))]
          /\ d2[Log!Projection] = Append(j.current, e)
          /\ \A i \in 1..MaxEvents : i # m => d2[Log!EventFile(i)] = d[Log!EventFile(i)]
      BY <3>1, <3>2, FilesRecorded
    <3>4. d2[Log!Baseline] = d[Log!Baseline]
      BY <2>1, BaselineStays DEF j
    <3> QED BY <2>2, <3>a, <3>3, <3>4 DEF record
  <2> DEFINE M == [i \in 1..(n + 1) |-> IF i = n + 1 THEN record ELSE L[i]]
  <2>5. /\ record = [sequence |-> n + 1, previous |-> Log!Hash(L[n]), event |-> e]
        /\ M[n + 1] = record /\ \A i \in 1..n : M[i] = L[i]
    <3>1. record = [sequence |-> n + 1, previous |-> Log!Hash(L[n]), event |-> e]
      BY <2>2 DEF Recording
    <3> HIDE DEF record
    <3>2. M[n + 1] = record /\ \A i \in 1..n : M[i] = L[i]
      BY <1>1
    <3> QED BY <3>1, <3>2
  <2> HIDE DEF M, record
  <2>6. Continues(b, n + 1, M, more)
    <3>1. ASSUME NEW i \in 1..(n + 1)
          PROVE  M[i] = [sequence |-> i, previous |-> IF i = 1 THEN <<b>> ELSE Log!Hash(M[i - 1]),
                         event |-> more[Len(b) + i]]
      <4>1. CASE i = n + 1
        <5>1. i # 1 /\ i - 1 = n /\ n \in 1..n
          BY <1>1, <2>1, <4>1
        <5>a. Len(b) + i = Len(more)
          BY <1>1, <1>2, <1>3, <4>1
        <5>2. M[i - 1] = L[n] /\ more[Len(b) + i] = e
          BY <1>2, <2>5, <5>1, <5>a
        <5>3. M[i] = [sequence |-> i, previous |-> Log!Hash(L[n]), event |-> e]
          BY <2>5, <4>1
        <5> QED BY <5>1, <5>2, <5>3
      <4>2. CASE i # n + 1
        <5>1. i \in 1..n /\ Len(b) + i \in 1..Len(all)
          BY <1>1, <1>3, <4>2
        <5>2. i # 1 => i - 1 \in 1..n
          BY <1>1, <5>1
        <5>3. M[i] = L[i] /\ (i # 1 => M[i - 1] = L[i - 1]) /\ more[Len(b) + i] = all[Len(b) + i]
          BY <1>2, <2>5, <5>1, <5>2
        <5>4. L[i] = [sequence |-> i, previous |-> IF i = 1 THEN <<b>> ELSE Log!Hash(L[i - 1]),
                      event |-> all[Len(b) + i]]
          BY <1>1, <5>1, Zenon DEF Continues
        <5> QED BY <5>3, <5>4
      <4> QED BY <4>1, <4>2
    <3>2. \A i \in 1..Len(b) : more[i] = b[i]
      <4> TAKE i \in 1..Len(b)
      <4>1. i \in 1..Len(all)
        BY <1>1, <1>3
      <4> QED BY <1>1, <1>2, <4>1 DEF Continues
    <3>3. n + 1 \in 0..MaxEvents /\ Len(more) = Len(b) + (n + 1)
      BY <1>1, <1>2, <1>3, <2>3
    <3> QED BY <1>1, <1>2, <3>1, <3>2, <3>3 DEF Continues
  <2>7. Shows(b, n + 1, M, more, d2)
    <3>1. ASSUME NEW i \in 1..MaxEvents, d2[Log!EventFile(i)] # Absent
          PROVE  i <= n + 1 /\ d2[Log!EventFile(i)] = M[i]
      <4>1. CASE i = n + 1
        BY <1>1, <2>4, <2>5, <4>1
      <4>2. CASE i # n + 1
        <5>1. d[Log!EventFile(i)] = d2[Log!EventFile(i)]
          BY <2>4, <4>2
        <5>2. i <= n /\ d[Log!EventFile(i)] = L[i]
          BY <1>1, <3>1, <5>1 DEF Shows
        <5>3. i \in 1..n /\ i <= n + 1
          BY <1>1, <5>2
        <5> QED BY <2>5, <5>1, <5>2, <5>3
      <4> QED BY <4>1, <4>2
    <3>2. n + 1 > 0 /\ n + 1 # 0
      BY <1>1
    <3> QED BY <2>1, <2>4, <2>5, <3>1, <3>2 DEF Shows, HeadOf
  <2>8. /\ d2[Log!HeadFile] # Absent /\ d2[Log!EventFile(n + 1)] # Absent /\ d2[Log!Projection] # Absent
    <3>1. d2[Log!HeadFile] # Absent
      BY <2>4 DEF AbsentIsNoEntry
    <3>2. d2[Log!EventFile(n + 1)] # Absent
      BY <2>4, <2>5 DEF AbsentIsNoEntry
    <3>3. d2[Log!Projection] # Absent
      BY <1>2, <2>4 DEF AbsentIsNoEntry
    <3> QED BY <3>1, <3>2, <3>3
  <2>9. k = 0 => Complete(n + 1, d2)
    <3> SUFFICES ASSUME k = 0, NEW i \in 1..(n + 1) PROVE d2[Log!EventFile(i)] # Absent
      BY <1>5, <2>4, <2>8 DEF Complete
    <3>1. CASE i = n + 1
      BY <2>8, <3>1
    <3>2. CASE i # n + 1
      <4>1. i \in 1..n /\ i \in 1..MaxEvents
        BY <1>1, <3>2
      <4> QED BY <1>1, <2>1, <2>4, <3>2, <4>1 DEF Complete
    <3> QED BY <3>1, <3>2
  <2>10. Cardinality(Missing(d2)) <= k
    <3>1. 1 \in 1..MaxEvents /\ 1 # n + 1
      BY <1>1, <2>1
    <3>2. d2[Log!EventFile(1)] = d[Log!EventFile(1)]
      BY <2>4, <3>1
    <3>3. Missing(d2) \subseteq Missing(d)
      BY <1>5, <2>4, <2>8, <3>2 DEF Missing
    <3>4. IsFiniteSet(Missing(d)) /\ Cardinality(Missing(d)) \in Nat
      BY MissingIsFinite
    <3>5. Cardinality(Missing(d2)) <= Cardinality(Missing(d)) /\ Cardinality(Missing(d2)) \in Nat
      BY <3>3, <3>4, FS_Subset, FS_CardinalityType
    <3>6. Cardinality(Missing(d)) <= k
      BY <2>1 DEF Tells
    <3> QED BY <1>1, <3>4, <3>5, <3>6
  <2>11. Tells(b, n + 1, M, more, d2, k)
    <3>1. n + 1 # 0
      BY <1>1
    <3> QED BY <1>1, <2>6, <2>7, <2>9, <2>10, <3>1 DEF Tells
  <2> QED BY <2>11 DEF Told
<1> QED BY <1>4, <1>5

\* telemetry.json written again from the log says the same.
LEMMA RebuildStands ==
    ASSUME LogConstants, AbsentIsNoEntry,
           NEW b, NEW n, NEW L, NEW all, NEW d, NEW k, Tells(b, n, L, all, d, k), k <= 3,
           Log!Readable(d), d = [f \in Log!FileNames |-> d[f]],
           NEW d2, d2 = [d EXCEPT ![Log!Projection] = Log!Journal(d).current]
    PROVE  Tells(b, n, L, all, d2, k)
<1>1. Log!Journal(d).current = all
  <2>1. CASE d[Log!Baseline] = Absent
    BY <2>1, LogReading
  <2>2. CASE d[Log!Baseline] # Absent
    BY <2>2, LogReading
  <2> QED BY <2>1, <2>2
<1>2. all \in Seq(Entries) /\ all # Absent
  BY DEF Tells, Continues, AbsentIsNoEntry
<1>3. Log!Projection \in Log!FileNames /\ Log!Projection \notin Log!Directory
  BY LogFiles
<1>4. d2[Log!Projection] = all /\ \A f \in Log!Directory : d2[f] = d[f]
  <2>1. \A f \in Log!Directory : f \in Log!FileNames /\ f # Log!Projection
    BY <1>3, LogFiles
  <2> QED BY <1>1, <1>3, <2>1
<1>5. /\ d2[Log!Baseline] = d[Log!Baseline] /\ d2[Log!HeadFile] = d[Log!HeadFile]
      /\ \A i \in 1..MaxEvents : d2[Log!EventFile(i)] = d[Log!EventFile(i)]
  BY <1>4, LogFiles
<1>6. n \in 0..MaxEvents /\ MaxEvents \in Nat
  BY DEF Tells, Continues, LogConstants
<1>7. Shows(b, n, L, all, d2)
  BY <1>2, <1>4, <1>5 DEF Tells, Shows
<1>8. k = 0 => Complete(n, d2)
  <2>1. \A i \in 1..n : i \in 1..MaxEvents
    BY <1>6
  <2> QED BY <1>2, <1>4, <1>5, <2>1 DEF Tells, Complete
<1>9. n > 0 => Cardinality(Missing(d2)) <= k
  <2> SUFFICES ASSUME n > 0 PROVE Cardinality(Missing(d2)) <= k
    OBVIOUS
  <2>1. 1 \in 1..MaxEvents
    BY <1>6
  <2>2. Missing(d2) \subseteq Missing(d)
    BY <1>2, <1>4, <1>5, <2>1 DEF Missing
  <2>3. IsFiniteSet(Missing(d)) /\ Cardinality(Missing(d)) \in Nat
    BY MissingIsFinite
  <2>4. Cardinality(Missing(d2)) <= Cardinality(Missing(d)) /\ Cardinality(Missing(d2)) \in Nat
    BY <2>2, <2>3, FS_Subset, FS_CardinalityType
  <2>5. Cardinality(Missing(d)) <= k /\ k \in Nat
    BY DEF Tells
  <2> QED BY <2>3, <2>4, <2>5
<1> QED BY <1>7, <1>8, <1>9 DEF Tells

\* A lost file leaves the others.
LEMMA LogLossStands ==
    ASSUME LogConstants, AbsentIsNoEntry,
           NEW b, NEW n, NEW L, NEW all, NEW d, NEW k, Tells(b, n, L, all, d, k),
           n # 0, NEW lost, NEW d2, \A f \in Log!FileNames : d2[f] = IF f = lost THEN Absent ELSE d[f]
    PROVE  Tells(b, n, L, all, d2, k + 1)
<1>1. n \in Nat /\ MaxEvents \in Nat /\ n <= MaxEvents /\ k \in Nat /\ n > 0
  BY DEF Tells, Continues, LogConstants
<1>2. /\ Log!Baseline \in Log!FileNames /\ Log!HeadFile \in Log!FileNames
      /\ Log!Projection \in Log!FileNames
      /\ \A i \in 1..MaxEvents : Log!EventFile(i) \in Log!FileNames
  BY LogFiles
<1>3. Shows(b, n, L, all, d2)
  BY <1>1, <1>2 DEF Tells, Shows
<1>4. 1 \in 1..MaxEvents
  BY <1>1
<1>5. Missing(d2) \subseteq Missing(d) \cup {lost}
  BY <1>2, <1>4 DEF Missing
<1>6. IsFiniteSet(Missing(d)) /\ Cardinality(Missing(d)) \in Nat
  BY MissingIsFinite
<1>7. /\ IsFiniteSet(Missing(d) \cup {lost})
      /\ Cardinality(Missing(d) \cup {lost}) <= Cardinality(Missing(d)) + 1
      /\ Cardinality(Missing(d) \cup {lost}) \in Nat
  <2> DEFINE T == Missing(d)
  <2>1. IsFiniteSet(T) /\ Cardinality(T) \in Nat
    BY <1>6
  <2> HIDE DEF T
  <2>2. /\ IsFiniteSet(T \cup {lost}) /\ Cardinality(T \cup {lost}) \in Nat
        /\ Cardinality(T \cup {lost}) \in {Cardinality(T), Cardinality(T) + 1}
    BY <2>1, FS_AddElement, FS_CardinalityType
  <2> QED BY <2>1, <2>2 DEF T
<1>8. Cardinality(Missing(d2)) <= Cardinality(Missing(d) \cup {lost}) /\ Cardinality(Missing(d2)) \in Nat
  BY <1>5, <1>7, FS_Subset, FS_CardinalityType
<1>9. Cardinality(Missing(d)) <= k
  BY <1>1 DEF Tells
<1>10. Cardinality(Missing(d2)) <= k + 1
  BY <1>1, <1>6, <1>7, <1>8, <1>9
<1>11. k + 1 \in Nat /\ k + 1 # 0
  BY <1>1
<1> QED BY <1>3, <1>10, <1>11 DEF Tells

\* The log's types, but for what its files hold.
LogTypes ==
    /\ logOwner \in Processes \cup {NoOne}
    /\ log = [f \in Log!FileNames |-> log[f]]
    /\ importing \in [Processes -> Receipts \cup {Absent}]
    /\ logLosses \in 0..MaxLosses
    /\ logOwner # NoOne => importing[logOwner] # Absent

\* The journal holds the files before an update, and what the update writes follows from them.
LogUpdates ==
    logJournal # Absent =>
        /\ logJournal = [before |-> logJournal.before, after |-> logJournal.after, committed |-> logJournal.committed]
        /\ logJournal.committed \in BOOLEAN
        /\ DOMAIN logJournal.before = DOMAIN logJournal.after
        /\ logOwner # NoOne /\ ~logJournal.committed =>
              /\ MayRecord(Log!Recovered, importing[logOwner])
              /\ logJournal.after = Log!Appended(Log!Journal(Log!Recovered), importing[logOwner])

\* Whatever was recorded so far, the log tells.
LogTold == Told(recorded, Log!Recovered, logLosses)

\* The inductive invariant.
LogInv == LogTypes /\ LogUpdates /\ LogTold /\ Log!RunsCountedOnce

\* The event whose update is marked.
Recorded(p) ==
    /\ logOwner = p /\ MayRecord(Log!Recovered, importing[p]) /\ importing[p] \in Receipts
    /\ Log!Recovered' = LogAfter(Log!Recovered, importing[p])
    /\ recorded' = Append(recorded, importing[p]) /\ logLosses' = logLosses

\* telemetry.json is written again.
Rebuilt ==
    /\ Log!Readable(Log!Recovered) /\ recorded' = recorded /\ logLosses' = logLosses
    /\ Log!Recovered' = [Log!Recovered EXCEPT ![Log!Projection] = Log!Journal(Log!Recovered).current]

\* A file that is lost.
LogLosing(lost) ==
    /\ logLosses < MaxLosses /\ logLosses' = logLosses + 1 /\ recorded' = recorded /\ recorded # Log!Current
    /\ Log!Recovered' = [f \in Log!FileNames |-> IF f = lost THEN Absent ELSE Log!Recovered[f]]

\* Between updates the files are what recovery would leave.
LEMMA LogSettled ==
    ASSUME LogTypes
    PROVE  /\ logJournal = Absent => Log!Recovered = log
           /\ Log!Recovered = [f \in Log!FileNames |-> Log!Recovered[f]]
<1>1. DOMAIN log = Log!FileNames
  BY DEF LogTypes
<1>2. CASE logJournal # Absent => logJournal.committed
  BY <1>2 DEF Log!Recovered, LogTypes
<1>3. CASE ~(logJournal # Absent => logJournal.committed)
  BY <1>1, <1>3 DEF Log!Recovered
<1> QED BY <1>2, <1>3

\* Only a mark, a rebuild and a loss change what recovery would leave, or what was recorded.
LEMMA LogStepKinds ==
    ASSUME LogConstants, LogTypes, LogUpdates, [Log!Next]_(Log!vars)
    PROVE  \/ Log!Recovered' = Log!Recovered /\ recorded' = recorded /\ logLosses' = logLosses
           \/ \E p \in Processes : Recorded(p)
           \/ Rebuilt
           \/ \E lost \in Log!FileNames : LogLosing(lost)
<1>b. DOMAIN log = Log!FileNames /\ log = [f \in Log!FileNames |-> log[f]]
  BY DEF LogTypes
<1> DEFINE Same == Log!Recovered' = Log!Recovered /\ recorded' = recorded /\ logLosses' = logLosses
<1>1. ASSUME NEW p \in Processes, Log!Import(p) \/ Log!Die(p) PROVE Same
  BY <1>1 DEF Log!Import, Log!Die, Log!Crash, Log!files, Log!Recovered
<1>2. ASSUME NEW p \in Processes, Log!Lock(p) PROVE Same
  BY <1>2 DEF Log!Lock, Log!Enter, Log!Recovered
<1>3. ASSUME NEW p \in Processes, Log!Refuse(p) \/ Log!Answer(p) PROVE Same
  BY <1>3 DEF Log!Refuse, Log!Answer, Log!Leave, Log!Recovered
<1>4. ASSUME NEW p \in Processes, Log!Record(p) PROVE Same
  <2> DEFINE after == Log!Appended(Log!Journal(log), importing[p])
  <2>1. /\ logJournal = Absent /\ log' = log /\ recorded' = recorded /\ logLosses' = logLosses
        /\ logJournal' = [before |-> [f \in DOMAIN after |-> log[f]], after |-> after, committed |-> FALSE]
    BY <1>4 DEF Log!Record, Log!Stage
  <2> HIDE DEF after
  <2>2. Log!Recovered = log
    BY <2>1, LogSettled
  <2>3. logJournal'.committed = FALSE /\ logJournal'.before = [f \in DOMAIN after |-> log[f]]
    BY <2>1
  <2>4. Log!Recovered' = [f \in Log!FileNames |-> log[f]]
    BY <1>b, <2>1, <2>3 DEF Log!Recovered
  <2> QED BY <1>b, <2>1, <2>2, <2>4
<1>5. ASSUME NEW p \in Processes, Log!Write(p) PROVE Same
  <2>1. PICK f \in DOMAIN logJournal.after : log' = [log EXCEPT ![f] = logJournal.after[f]]
    BY <1>5 DEF Log!Write, Log!WriteFile
  <2>2. /\ logJournal # Absent /\ ~logJournal.committed /\ logJournal' = logJournal
        /\ recorded' = recorded /\ logLosses' = logLosses
    BY <1>5 DEF Log!Write, Log!WriteFile
  <2>3. DOMAIN log' = DOMAIN log /\ \A g \in DOMAIN log \ {f} : log'[g] = log[g]
    BY <2>1
  <2>4. f \in DOMAIN logJournal.before
    BY <2>2 DEF LogUpdates
  <2>5. Log!Recovered' = Log!Recovered
    BY <2>2, <2>3, <2>4 DEF Log!Recovered
  <2> QED BY <2>2, <2>5
<1>6. ASSUME NEW p \in Processes, Log!Commit(p) PROVE Recorded(p)
  <2>1. /\ logOwner = p /\ logJournal # Absent /\ ~logJournal.committed /\ Log!Written
        /\ logJournal' = [logJournal EXCEPT !.committed = TRUE] /\ log' = log
        /\ recorded' = Append(recorded, importing[p]) /\ logLosses' = logLosses
    BY <1>6 DEF Log!Commit, Log!MarkCommitted
  <2>2. logJournal = [before |-> logJournal.before, after |-> logJournal.after, committed |-> logJournal.committed]
    BY <2>1 DEF LogUpdates
  <2>3. logJournal'.committed
    BY <2>1, <2>2
  <2>4. Log!Recovered' = log
    BY <2>1, <2>3 DEF Log!Recovered
  <2>5. logOwner # NoOne /\ importing[p] \in Receipts
    BY <2>1 DEF LogConstants, LogTypes
  <2> DEFINE d == Log!Recovered
             after == Log!Appended(Log!Journal(d), importing[p])
  <2>6. MayRecord(d, importing[p]) /\ DOMAIN logJournal.before = DOMAIN logJournal.after /\ logJournal.after = after
    BY <2>1, <2>5 DEF LogUpdates
  <2>7. \A f \in Log!FileNames : d[f] = IF f \in DOMAIN logJournal.before THEN logJournal.before[f] ELSE log[f]
    BY <1>b, <2>1 DEF Log!Recovered
  <2>8. \A f \in DOMAIN logJournal.after : log[f] = logJournal.after[f]
    BY <2>1 DEF Log!Written
  <2> HIDE DEF d, after
  <2>9. \A f \in Log!FileNames : log[f] = IF f \in DOMAIN after THEN after[f] ELSE d[f]
    BY <2>6, <2>7, <2>8
  <2>10. log = LogAfter(d, importing[p])
    BY <1>b, <2>9 DEF LogAfter, after
  <2> QED BY <2>1, <2>4, <2>5, <2>6, <2>10 DEF Recorded, d
<1>7. ASSUME Log!Lose PROVE \E lost \in Log!FileNames : LogLosing(lost)
  <2>1. PICK lost \in Log!FileNames : log' = [log EXCEPT ![lost] = Absent]
    BY <1>7 DEF Log!Lose
  <2>2. /\ logLosses < MaxLosses /\ logLosses' = logLosses + 1 /\ logJournal = Absent /\ logJournal' = Absent
        /\ recorded' = recorded /\ recorded # Log!Current
    BY <1>7 DEF Log!Lose
  <2>3. Log!Recovered = log
    BY <2>2, LogSettled
  <2>4. Log!Recovered' = log'
    BY <2>2 DEF Log!Recovered
  <2>5. Log!Recovered' = [f \in Log!FileNames |-> IF f = lost THEN Absent ELSE Log!Recovered[f]]
    BY <1>b, <2>1, <2>3, <2>4
  <2> QED BY <2>2, <2>5 DEF LogLosing
<1>8. ASSUME NEW p \in Processes, Log!Rebuild(p) PROVE Rebuilt
  <2>1. /\ Log!Readable(Log!Recovered) /\ logJournal' = Absent
        /\ log' = [Log!Recovered EXCEPT ![Log!Projection] = Log!Journal(Log!Recovered).current]
        /\ recorded' = recorded /\ logLosses' = logLosses
    BY <1>8 DEF Log!Rebuild
  <2>2. Log!Recovered' = log'
    BY <2>1 DEF Log!Recovered
  <2> QED BY <2>1, <2>2 DEF Rebuilt
<1>9. ASSUME UNCHANGED Log!vars PROVE Same
  BY <1>9 DEF Log!vars, Log!files, Log!Recovered
<1> HIDE DEF Same
<1>10. Same \/ (\E p \in Processes : Recorded(p)) \/ Rebuilt \/ (\E lost \in Log!FileNames : LogLosing(lost))
  BY <1>1, <1>2, <1>3, <1>4, <1>5, <1>6, <1>7, <1>8, <1>9 DEF Log!Next
<1> QED BY <1>10 DEF Same

\* A log starts with what an older version left.
LEMMA LogStart == ASSUME LogConstants, Log!Init PROVE LogInv
<1>1. LogTypes
  <2>1. logLosses = 0 /\ 0 \in 0..MaxLosses
    BY DEF LogConstants, Log!Init
  <2>2. logOwner = NoOne /\ importing \in [Processes -> Receipts \cup {Absent}]
    BY DEF Log!Init, Log!FilesInit
  <2>3. log = [f \in Log!FileNames |-> log[f]]
    BY DEF Log!Init, Log!FilesInit
  <2> QED BY <2>1, <2>2, <2>3 DEF LogTypes
<1>2. LogUpdates
  BY DEF Log!Init, Log!FilesInit, LogUpdates
<1>3. /\ Log!Recovered = [f \in Log!FileNames |-> IF f = Log!Projection THEN Legacy ELSE Absent]
      /\ recorded = Log!Current /\ logLosses = 0
  BY DEF Log!Init, Log!FilesInit, Log!Recovered
<1>4. recorded \in Seq(Entries) /\ Log!RunsCountedOnce
  <2>1. CASE Legacy = Absent
    <3>1. recorded = <<>> /\ DOMAIN recorded = {}
      BY <1>3, <2>1 DEF Log!Current
    <3> QED BY <3>1, EmptySeq DEF Log!RunsCountedOnce
  <2>2. CASE Legacy # Absent
    <3>1. recorded = Legacy
      BY <1>3, <2>2 DEF Log!Current
    <3> QED BY <2>2, <3>1 DEF Log!RunsCountedOnce, LogConstants
  <2> QED BY <2>1, <2>2
<1>5. Len(recorded) \in Nat
  BY <1>4, LenProperties
<1>6. Continues(recorded, 0, <<>>, recorded)
  BY <1>4, <1>5 DEF Continues, LogConstants
<1> DEFINE d == Log!Recovered
<1>7. /\ d[Log!Baseline] = Absent /\ d[Log!HeadFile] = Absent /\ d[Log!Projection] = Legacy
      /\ \A i \in 1..MaxEvents : d[Log!EventFile(i)] = Absent
  <2>1. /\ \A f \in Log!Directory : f \in Log!FileNames /\ f # Log!Projection
        /\ Log!Projection \in Log!FileNames
    BY LogFiles
  <2>2. \A f \in Log!Directory : d[f] = Absent
    BY <1>3, <2>1
  <2>3. d[Log!Projection] = Legacy
    BY <1>3, <2>1
  <2> QED BY <2>2, <2>3, LogFiles
<1> HIDE DEF d
<1>8. Shows(recorded, 0, <<>>, recorded, d)
  BY <1>3, <1>7 DEF Shows, Log!Current
<1>9. Tells(recorded, 0, <<>>, recorded, d, logLosses)
  BY <1>3, <1>6, <1>8 DEF Tells, Complete
<1>10. LogTold
  BY <1>9 DEF LogTold, Told, d
<1> QED BY <1>1, <1>2, <1>4, <1>10 DEF LogInv

\* The log goes on telling what was recorded.
LEMMA LogToldStep ==
    ASSUME LogConstants, AbsentIsNoEntry, MaxLosses <= 3, LogInv, [Log!Next]_(Log!vars)
    PROVE  LogTold' /\ Log!RunsCountedOnce'
<1>a. LogTypes /\ LogUpdates /\ Log!RunsCountedOnce
  BY DEF LogInv
<1>1. PICK b, n, L : Tells(b, n, L, recorded, Log!Recovered, logLosses)
  BY DEF LogInv, LogTold, Told
<1>2. logLosses <= 3 /\ logLosses \in Nat
  BY <1>a DEF LogTypes, LogConstants
<1>3. CASE Log!Recovered' = Log!Recovered /\ recorded' = recorded /\ logLosses' = logLosses
  <2>1. Tells(b, n, L, recorded', Log!Recovered', logLosses')
    BY <1>1, <1>3
  <2>2. Log!RunsCountedOnce'
    BY <1>a, <1>3 DEF Log!RunsCountedOnce
  <2> QED BY <2>1, <2>2 DEF LogTold, Told
<1>4. ASSUME NEW p \in Processes, Recorded(p) PROVE LogTold' /\ Log!RunsCountedOnce'
  <2> DEFINE d == Log!Recovered
  <2>1. PICK e : e = importing[p]
    OBVIOUS
  <2>2. /\ e \in Receipts /\ MayRecord(d, e)
        /\ Log!Recovered' = LogAfter(d, e) /\ recorded' = Append(recorded, e) /\ logLosses' = logLosses
    BY <1>4, <2>1 DEF Recorded
  <2>3. PICK d2, more : d2 = LogAfter(d, e) /\ more = Append(recorded, e)
    OBVIOUS
  <2> HIDE DEF d
  <2>4. Tells(b, n, L, recorded, d, logLosses)
    BY <1>1 DEF d
  <2>5. Told(more, d2, logLosses)
    BY <1>2, <2>2, <2>3, <2>4, RecordStands
  <2>6. Log!Journal(d).current = recorded
    <3>1. CASE d[Log!Baseline] = Absent
      BY <1>2, <2>2, <2>4, <3>1, LogReading DEF MayRecord
    <3>2. CASE d[Log!Baseline] # Absent
      BY <1>2, <2>2, <2>4, <3>2, LogReading DEF MayRecord
    <3> QED BY <3>1, <3>2
  <2>7. \A i \in DOMAIN recorded : recorded[i].run # e.run
    BY <2>2, <2>6 DEF Log!New, MayRecord
  <2>8. recorded \in Seq(Entries) /\ e \in Entries
    BY <2>2, <2>4 DEF Tells, Continues, Entries
  <2>9. /\ more \in Seq(Entries) /\ Len(more) = Len(recorded) + 1 /\ Len(recorded) \in Nat
        /\ more[Len(more)] = e /\ \A i \in 1..Len(recorded) : more[i] = recorded[i]
    BY <2>3, <2>8, OneMoreEntry
  <2>10. DOMAIN recorded = 1..Len(recorded) /\ DOMAIN more = 1..Len(more)
    BY <2>8, <2>9, LenProperties
  <2>11. \A i \in DOMAIN more : i = Len(more) \/ i \in DOMAIN recorded
    BY <2>9, <2>10
  <2>12. \A i, j \in DOMAIN more : more[i].run = more[j].run => i = j
    BY <1>a, <2>7, <2>9, <2>10, <2>11 DEF Log!RunsCountedOnce
  <2>13. recorded' = more /\ Log!Recovered' = d2 /\ logLosses' = logLosses
    BY <2>2, <2>3
  <2>14. Log!RunsCountedOnce'
    BY <2>12, <2>13 DEF Log!RunsCountedOnce
  <2>15. Told(recorded', Log!Recovered', logLosses')
    BY <2>5, <2>13
  <2> QED BY <2>14, <2>15 DEF LogTold
<1>5. CASE Rebuilt
  <2>1. PICK d, d2 : d = Log!Recovered /\ d2 = [d EXCEPT ![Log!Projection] = Log!Journal(d).current]
    OBVIOUS
  <2>2. Log!Readable(d) /\ recorded' = recorded /\ logLosses' = logLosses /\ Log!Recovered' = d2
    BY <1>5, <2>1 DEF Rebuilt
  <2>3. d = [f \in Log!FileNames |-> d[f]]
    BY <1>a, <2>1, LogSettled
  <2>4. Tells(b, n, L, recorded, d, logLosses)
    BY <1>1, <2>1
  <2>5. Tells(b, n, L, recorded, d2, logLosses)
    BY <1>2, <2>1, <2>2, <2>3, <2>4, RebuildStands
  <2>6. Told(recorded', Log!Recovered', logLosses')
    BY <2>2, <2>5 DEF Told
  <2>7. Log!RunsCountedOnce'
    BY <1>a, <2>2 DEF Log!RunsCountedOnce
  <2> QED BY <2>6, <2>7 DEF LogTold
<1>6. ASSUME NEW lost \in Log!FileNames, LogLosing(lost) PROVE LogTold' /\ Log!RunsCountedOnce'
  <2>1. PICK d, d2 : d = Log!Recovered /\ d2 = Log!Recovered'
    OBVIOUS
  <2>2. /\ \A f \in Log!FileNames : d2[f] = IF f = lost THEN Absent ELSE d[f]
        /\ recorded' = recorded /\ logLosses' = logLosses + 1 /\ recorded # Log!Current
    BY <1>6, <2>1 DEF LogLosing
  <2>3. n # 0
    <3> SUFFICES ASSUME n = 0 PROVE FALSE
      OBVIOUS
    <3>1. b = Log!Current /\ Continues(b, 0, L, recorded)
      BY <1>1 DEF Tells
    <3> QED BY <2>2, <3>1, OnlyBaseline
  <2>4. Tells(b, n, L, recorded, d, logLosses)
    BY <1>1, <2>1
  <2>5. Tells(b, n, L, recorded, d2, logLosses + 1)
    BY <2>2, <2>3, <2>4, LogLossStands
  <2>6. Told(recorded', Log!Recovered', logLosses')
    BY <2>1, <2>2, <2>5 DEF Told
  <2>7. Log!RunsCountedOnce'
    BY <1>a, <2>2 DEF Log!RunsCountedOnce
  <2> QED BY <2>6, <2>7 DEF LogTold
<1> QED BY <1>a, <1>3, <1>4, <1>5, <1>6, LogStepKinds

\* Types and journals are kept.
LEMMA LogUpdatesStep ==
    ASSUME LogConstants, LogTypes, LogUpdates, [Log!Next]_(Log!vars) PROVE LogTypes' /\ LogUpdates'
<1>a. LogTypes /\ LogUpdates
  OBVIOUS
<1>b. DOMAIN log = Log!FileNames /\ log = [f \in Log!FileNames |-> log[f]]
  BY DEF LogTypes
<1>c. \A p \in Processes : p # NoOne
  BY DEF LogConstants
<1>1. ASSUME NEW p \in Processes, Log!Import(p) PROVE LogTypes' /\ LogUpdates'
  <2>1. PICK r \in Receipts : importing' = [importing EXCEPT ![p] = r]
    BY <1>1 DEF Log!Import
  <2>2. importing[p] = Absent /\ UNCHANGED <<logOwner, log, logJournal, recorded, logLosses>>
    BY <1>1 DEF Log!Import, Log!files
  <2>3. r # Absent
    BY DEF LogConstants
  <2>4. LogTypes'
    BY <1>a, <2>1, <2>2, <2>3 DEF LogTypes
  <2>5. logOwner # NoOne => importing'[logOwner] = importing[logOwner]
    BY <1>a, <2>1, <2>2 DEF LogTypes
  <2>6. Log!Recovered' = Log!Recovered
    BY <2>2 DEF Log!Recovered
  <2>7. LogUpdates'
    BY <1>a, <2>2, <2>5, <2>6 DEF LogUpdates
  <2> QED BY <2>4, <2>7
<1>2. ASSUME NEW p \in Processes, Log!Lock(p) PROVE LogTypes' /\ LogUpdates'
  <2>1. /\ logOwner' = p /\ log' = Log!Recovered /\ logJournal' = Absent /\ importing[p] # Absent
        /\ UNCHANGED <<importing, recorded, logLosses>>
    BY <1>2 DEF Log!Lock, Log!Enter
  <2>2. LogTypes'
    BY <1>a, <2>1, LogSettled DEF LogTypes
  <2> QED BY <2>1, <2>2 DEF LogUpdates
<1>3. ASSUME NEW p \in Processes, Log!Refuse(p) \/ Log!Answer(p) \/ Log!Die(p) PROVE LogTypes' /\ LogUpdates'
  <2>1. /\ logOwner' = NoOne /\ log' = log /\ logJournal' \in {logJournal, Absent}
        /\ importing' = [importing EXCEPT ![p] = Absent] /\ UNCHANGED <<recorded, logLosses>>
    BY <1>3 DEF Log!Refuse, Log!Answer, Log!Die, Log!Leave, Log!Crash
  <2>2. LogTypes'
    BY <1>a, <2>1 DEF LogTypes
  <2>3. LogUpdates'
    BY <1>a, <2>1 DEF LogUpdates
  <2> QED BY <2>2, <2>3
<1>4. ASSUME NEW p \in Processes, Log!Record(p) PROVE LogTypes' /\ LogUpdates'
  <2> DEFINE after == Log!Appended(Log!Journal(log), importing[p])
  <2>1. /\ logOwner = p /\ logJournal = Absent /\ MayRecord(log, importing[p])
        /\ UNCHANGED <<logOwner, log, importing, recorded, logLosses>>
        /\ logJournal' = [before |-> [f \in DOMAIN after |-> log[f]], after |-> after, committed |-> FALSE]
    BY <1>4 DEF Log!Record, Log!Stage, MayRecord
  <2>2. LogTypes'
    BY <1>a, <2>1 DEF LogTypes
  <2>3. Log!Recovered = log
    BY <1>a, <2>1, LogSettled
  <2> HIDE DEF after
  <2>4. /\ logJournal' = [before |-> logJournal'.before, after |-> logJournal'.after, committed |-> logJournal'.committed]
        /\ logJournal'.committed = FALSE /\ logJournal'.after = after
        /\ logJournal'.before = [f \in DOMAIN after |-> log[f]]
    BY <2>1
  <2>5. DOMAIN logJournal'.before = DOMAIN logJournal'.after
    BY <2>4
  <2>6. Log!Recovered' = log
    <3>1. Log!Recovered' = [f \in Log!FileNames |-> log[f]] \/ Log!Recovered' = log
      BY <1>b, <2>1, <2>4 DEF Log!Recovered
    <3> QED BY <1>b, <3>1
  <2>7. LogUpdates'
    BY <2>1, <2>4, <2>5, <2>6 DEF LogUpdates, after
  <2> QED BY <2>2, <2>7
<1>5. ASSUME NEW p \in Processes, Log!Write(p) PROVE LogTypes' /\ LogUpdates'
  <2>1. PICK f \in DOMAIN logJournal.after : log' = [log EXCEPT ![f] = logJournal.after[f]]
    BY <1>5 DEF Log!Write, Log!WriteFile
  <2>2. logJournal # Absent /\ ~logJournal.committed /\ UNCHANGED <<logOwner, logJournal, importing, recorded, logLosses>>
    BY <1>5 DEF Log!Write, Log!WriteFile
  <2>3. log' = [g \in Log!FileNames |-> log'[g]]
    BY <1>b, <2>1
  <2>4. LogTypes'
    BY <1>a, <2>2, <2>3 DEF LogTypes
  <2>5. DOMAIN log' = DOMAIN log /\ \A g \in DOMAIN log \ {f} : log'[g] = log[g]
    BY <2>1
  <2>6. f \in DOMAIN logJournal.before
    BY <1>a, <2>2 DEF LogUpdates
  <2>7. Log!Recovered' = Log!Recovered
    BY <2>2, <2>5, <2>6 DEF Log!Recovered
  <2>8. LogUpdates'
    BY <1>a, <2>2, <2>7 DEF LogUpdates
  <2> QED BY <2>4, <2>8
<1>6. ASSUME NEW p \in Processes, Log!Commit(p) PROVE LogTypes' /\ LogUpdates'
  <2>1. /\ logOwner = p /\ logJournal # Absent /\ ~logJournal.committed
        /\ logJournal' = [logJournal EXCEPT !.committed = TRUE]
        /\ UNCHANGED <<logOwner, log, importing, logLosses>>
    BY <1>6 DEF Log!Commit, Log!MarkCommitted
  <2>2. logJournal = [before |-> logJournal.before, after |-> logJournal.after, committed |-> logJournal.committed]
    BY <1>a, <2>1 DEF LogUpdates
  <2>3. /\ logJournal' = [before |-> logJournal'.before, after |-> logJournal'.after, committed |-> logJournal'.committed]
        /\ logJournal'.committed = TRUE /\ logJournal'.before = logJournal.before /\ logJournal'.after = logJournal.after
    BY <2>1, <2>2
  <2>4. LogTypes'
    BY <1>a, <1>c, <2>1 DEF LogTypes
  <2>5. LogUpdates'
    BY <1>a, <2>1, <2>3 DEF LogUpdates
  <2> QED BY <2>4, <2>5
<1>7. ASSUME Log!Lose PROVE LogTypes' /\ LogUpdates'
  <2>1. PICK lost \in Log!FileNames : log' = [log EXCEPT ![lost] = Absent]
    BY <1>7 DEF Log!Lose
  <2>2. /\ logLosses < MaxLosses /\ logLosses' = logLosses + 1 /\ logJournal' = logJournal /\ logJournal = Absent
        /\ UNCHANGED <<logOwner, importing, recorded>>
    BY <1>7 DEF Log!Lose
  <2>3. log' = [g \in Log!FileNames |-> log'[g]]
    BY <1>b, <2>1
  <2>4. logLosses' \in 0..MaxLosses
    BY <1>a, <2>2 DEF LogTypes, LogConstants
  <2>5. LogTypes'
    BY <1>a, <2>2, <2>3, <2>4 DEF LogTypes
  <2> QED BY <2>2, <2>5 DEF LogUpdates
<1>8. ASSUME NEW p \in Processes, Log!Rebuild(p) PROVE LogTypes' /\ LogUpdates'
  <2>1. PICK current : log' = [Log!Recovered EXCEPT ![Log!Projection] = current]
    BY <1>8 DEF Log!Rebuild
  <2>2. logJournal' = Absent /\ UNCHANGED <<logOwner, importing, recorded, logLosses>>
    BY <1>8 DEF Log!Rebuild
  <2>3. log' = [g \in Log!FileNames |-> log'[g]]
    <3>1. DOMAIN Log!Recovered = Log!FileNames
      BY <1>a, LogSettled
    <3> QED BY <2>1, <3>1
  <2>4. LogTypes'
    BY <1>a, <2>2, <2>3 DEF LogTypes
  <2> QED BY <2>2, <2>4 DEF LogUpdates
<1>9. ASSUME UNCHANGED Log!vars PROVE LogTypes' /\ LogUpdates'
  BY <1>9, <1>a DEF Log!vars, Log!files, LogTypes, LogUpdates, Log!Recovered
<1> QED BY <1>1, <1>2, <1>3, <1>4, <1>5, <1>6, <1>7, <1>8, <1>9 DEF Log!Next

\* The invariant holds as long as the files of the first event cannot all be lost.
LEMMA LogInvariance ==
    ASSUME LogConstants, AbsentIsNoEntry, MaxLosses <= 3
    PROVE  Log!Spec => []LogInv
<1>1. Log!Init => LogInv
  BY LogStart
<1>2. LogInv /\ [Log!Next]_(Log!vars) => LogInv'
  BY LogToldStep, LogUpdatesStep DEF LogInv
<1> QED BY <1>1, <1>2, PTL DEF Log!Spec

\* The files of the log are numbered without a gap while none was lost, and only who has something
\* to record is inside.
THEOREM LogTypeCorrect ==
    ASSUME LogConstants, AbsentIsNoEntry, MaxLosses <= 3
    PROVE  Log!Spec => []Log!TypeOK
<1>1. ASSUME LogInv PROVE Log!TypeOK
  <2>1. PICK b, n, L : Tells(b, n, L, recorded, Log!Recovered, logLosses)
    BY <1>1 DEF LogInv, LogTold, Told
  <2>2. ASSUME logLosses = 0 PROVE Log!Events(Log!Recovered) = 1..(Len(recorded) - Len(Log!Current))
    <3>1. Tells(b, n, L, recorded, Log!Recovered, 0)
      BY <2>1, <2>2
    <3>2. Log!Events(Log!Recovered) = 1..n /\ b = Log!Current
      BY <3>1, LogIsSound
    <3>3. Len(recorded) = Len(b) + n /\ b \in Seq(Entries) /\ n \in Nat
      BY <2>1 DEF Tells, Continues, LogConstants
    <3>4. Len(b) \in Nat
      BY <3>3, LenProperties
    <3>5. Len(recorded) - Len(b) = n
      BY <3>3, <3>4
    <3> QED BY <3>2, <3>5
  <2>3. LogTypes /\ DOMAIN log = Log!FileNames
    BY <1>1 DEF LogInv, LogTypes
  <2> QED BY <2>2, <2>3 DEF LogTypes, Log!TypeOK
<1> QED BY <1>1, LogInvariance, PTL

\* A report is made from all that was recorded.
LEMMA LogReportFollows == ASSUME LogConstants, AbsentIsNoEntry, MaxLosses <= 3, LogInv PROVE Log!ReportsRecorded
<1> SUFFICES ASSUME logJournal = Absent, Log!Readable(log)
             PROVE  Log!Journal(log).current = recorded
  BY DEF Log!ReportsRecorded
<1>1. Log!Recovered = log /\ logLosses <= 3
  BY LogSettled DEF LogInv, LogTypes, LogConstants
<1>2. PICK b, n, L : Tells(b, n, L, recorded, Log!Recovered, logLosses)
  BY DEF LogInv, LogTold, Told
<1>3. Tells(b, n, L, recorded, log, logLosses)
  BY <1>1, <1>2
<1>4. CASE log[Log!Baseline] = Absent
  BY <1>1, <1>3, <1>4, LogReading
<1>5. CASE log[Log!Baseline] # Absent
  BY <1>1, <1>3, <1>5, LogReading
<1> QED BY <1>4, <1>5

\* What a report is made from is everything recorded, in order: an interrupted or mutilated log is
\* refused, never reported short (journal.ts:143).
THEOREM ReportsAreComplete ==
    ASSUME LogConstants, AbsentIsNoEntry, MaxLosses <= 3
    PROVE  Log!Spec => []Log!ReportsRecorded
<1>1. LogInv => Log!ReportsRecorded
  BY LogReportFollows
<1> QED BY <1>1, LogInvariance, PTL

\* A crash alone leaves a log that can be read.
LEMMA LogCrashFollows == ASSUME LogConstants, AbsentIsNoEntry, MaxLosses <= 3, LogInv PROVE Log!CrashKeepsLog
<1> SUFFICES ASSUME logLosses = 0
             PROVE  Log!Readable(Log!Recovered)
                    /\ (recorded # <<>> => Log!Recovered[Log!Projection] = recorded)
  BY DEF Log!CrashKeepsLog
<1>1. PICK b, n, L : Tells(b, n, L, recorded, Log!Recovered, logLosses)
  BY DEF LogInv, LogTold, Told
<1>2. Tells(b, n, L, recorded, Log!Recovered, 0)
  BY <1>1
<1> QED BY <1>2, LogIsSound

\* No crash alone leaves a log that is refused, or a telemetry.json that differs from it.
THEOREM CrashLeavesLog ==
    ASSUME LogConstants, AbsentIsNoEntry, MaxLosses <= 3
    PROVE  Log!Spec => []Log!CrashKeepsLog
<1>1. LogInv => Log!CrashKeepsLog
  BY LogCrashFollows
<1> QED BY <1>1, LogInvariance, PTL

\* A run's usage is counted once, whoever imports it again from whatever file, crashes or removes
\* up to three files (store.ts:35).
THEOREM CountedOnce ==
    ASSUME LogConstants, AbsentIsNoEntry, MaxLosses <= 3
    PROVE  Log!Spec => []Log!RunsCountedOnce
<1>1. LogInv => Log!RunsCountedOnce
  BY DEF LogInv
<1> QED BY <1>1, LogInvariance, PTL

-----------------------------------------------------------------------------
(* The edits a grant allows *)

ScopeTypes ==
    /\ content \in [Paths -> {0, 1}] /\ heads \in [Scope!Tracked -> {0, 1}]
    /\ heartbeat \in [Sessions -> {"idle", "recording", "command"}]
    /\ answered \in [Sessions -> Paths \cup {NoOne}]
    /\ IsFiniteSet(hosts)

\* A session whose heartbeat is at work has been recorded; alone, it is also the latest.
HookKnown ==
    \A s \in Sessions :
        /\ heartbeat[s] # "idle" => s \in hosts
        /\ heartbeat[s] = "command" /\ hosts = {s} => latest = s

\* Changed since the grant, and neither committed since nor allowed by it.
Outside(p) ==
    /\ content[p] # grant.baseline[p]
    /\ p \in Scope!Tracked => p \notin Scope!CommittedChangesSince(grant.head)
    /\ p \in grant.blocked \/ p \notin grant.contract

GrantInv ==
    grant # NoOne =>
        /\ grant.session \in {NoOne, granter}
        /\ since = [content |-> grant.baseline, head |-> grant.head, blocked |-> grant.blocked]
        /\ \A p \in Paths : Outside(p) => p \in slipped

ScopeInv == ScopeTypes /\ HookKnown /\ GrantInv

LEMMA AllowedIsInside ==
    ASSUME NEW s, NEW p, Scope!Allowed(s, p), ~waived, grant # NoOne
    PROVE  p \notin grant.blocked /\ p \in grant.contract
<1>1. Scope!ProductAuthorization /\ p \in scope[grant.task] /\ p \notin Scope!ActiveBlockedPaths
  BY DEF Scope!Allowed, Scope!DecideScope, Scope!ProductScopes
<1> QED BY <1>1 DEF Scope!ProductAuthorization, Scope!ActiveBlockedPaths

\* The session whose shell asks is the latest, or cannot be told from the others.
LEMMA CallerKnown ==
    ASSUME ScopeTypes, HookKnown, NEW s \in Sessions, heartbeat[s] = "command"
    PROVE  Scope!CurrentHostSession \in {NoOne, s}
<1>1. s \in hosts /\ (hosts = {s} => latest = s)
  BY DEF HookKnown
<1>2. CASE hosts = {s}
  BY <1>1, <1>2 DEF Scope!CurrentHostSession
<1>3. CASE hosts # {s}
  <2>1. PICK t \in hosts : t # s
    BY <1>1, <1>3
  <2>2. IsFiniteSet({s, t}) /\ Cardinality({s, t}) = 2
    <3>1. IsFiniteSet({s}) /\ Cardinality({s}) = 1
      BY FS_Singleton
    <3>2. IsFiniteSet({s} \cup {t}) /\ Cardinality({s} \cup {t}) = 2
      BY <2>1, <3>1, FS_AddElement
    <3>3. {s} \cup {t} = {s, t}
      OBVIOUS
    <3> QED BY <3>2, <3>3
  <2>3. Cardinality({s, t}) <= Cardinality(hosts) /\ Cardinality(hosts) \in Nat
    BY <1>1, <2>1, FS_Subset, FS_CardinalityType DEF ScopeTypes
  <2>4. Cardinality(hosts) > 1
    BY <2>2, <2>3
  <2>5. Scope!Cardinality(hosts) = Cardinality(hosts)
    BY DEF Scope!Cardinality, Cardinality
  <2> QED BY <2>4, <2>5 DEF Scope!CurrentHostSession
<1> QED BY <1>2, <1>3

LEMMA ScopeSteps == ASSUME ScopeInv, [Scope!Next]_Scope!scopeVars PROVE ScopeInv'
<1> USE DEF Scope!treeVars, Scope!policyVars, Scope!hostVars, Scope!grantVars
<1>0. ScopeTypes /\ HookKnown /\ GrantInv
  BY DEF ScopeInv
<1>a. ASSUME UNCHANGED <<content, heads, grant, granter, since, slipped>> PROVE GrantInv'
  <2>1. \A p : Outside(p)' = Outside(p)
    BY <1>a DEF Outside, Scope!CommittedChangesSince, Scope!Tracked
  <2> QED BY <1>0, <1>a, <2>1 DEF GrantInv
<1>b. ASSUME UNCHANGED <<heartbeat, hosts, latest>> PROVE HookKnown'
  BY <1>0, <1>b DEF HookKnown
<1>1. ASSUME NEW s \in Sessions, NEW p \in Paths, Scope!Ask(s, p) PROVE ScopeInv'
  BY <1>0, <1>1, <1>a, <1>b DEF Scope!Ask, ScopeInv, ScopeTypes, Scope!Tracked
\* Changing one file leaves the others as they were.
<1>c. ASSUME NEW q \in Paths, content' = [content EXCEPT ![q] = 1 - @], UNCHANGED <<heads, grant, granter, since>>,
             slipped \subseteq slipped', grant # NoOne /\ Outside(q)' => q \in slipped'
      PROVE  GrantInv'
  <2>1. \A p \in Paths : p # q => Outside(p)' = Outside(p)
    BY <1>0, <1>c DEF Outside, Scope!CommittedChangesSince, Scope!Tracked, ScopeTypes
  <2>2. \A p \in Paths : grant # NoOne /\ Outside(p)' => p \in slipped'
    BY <1>0, <1>c, <2>1 DEF GrantInv
  <2> QED BY <1>0, <1>c, <2>2 DEF GrantInv
<1>d. \A x \in {0, 1} : 1 - x \in {0, 1}
  OBVIOUS
<1>2. ASSUME NEW s \in Sessions, Scope!Edit(s) PROVE ScopeInv'
  <2>0. PICK q \in Paths : q = answered[s]
    BY <1>0, <1>2 DEF Scope!Edit, ScopeTypes
  <2>1. /\ content' = [content EXCEPT ![q] = 1 - @]
        /\ answered' = [answered EXCEPT ![s] = NoOne]
        /\ UNCHANGED <<heads, grant, granter, since, heartbeat, hosts, latest>>
    BY <1>2, <2>0 DEF Scope!Edit
  <2>2. slipped \subseteq slipped' /\ ((Scope!Allowed(s, q) /\ ~waived) \/ q \in slipped')
    BY <1>2, <2>0 DEF Scope!Edit
  <2>3. grant # NoOne /\ Outside(q)' => q \in slipped'
    <3>1. ASSUME grant # NoOne, Outside(q)', Scope!Allowed(s, q), ~waived PROVE FALSE
      <4>1. q \in grant.blocked \/ q \notin grant.contract
        BY <2>1, <3>1 DEF Outside
      <4> QED BY <3>1, <4>1, AllowedIsInside
    <3> QED BY <2>2, <3>1
  <2>4. ScopeTypes'
    BY <1>0, <1>d, <2>1 DEF ScopeTypes, Scope!Tracked
  <2>5. GrantInv'
    BY <1>c, <2>1, <2>2, <2>3
  <2> QED BY <1>b, <2>1, <2>4, <2>5 DEF ScopeInv
<1>3. ASSUME NEW s \in Sessions, Scope!RecordHost(s) PROVE ScopeInv'
  <2>1. hosts' = hosts \cup {s} /\ heartbeat' = [heartbeat EXCEPT ![s] = "recording"]
    BY <1>3 DEF Scope!RecordHost
  <2>2. IsFiniteSet(hosts')
    BY <1>0, <2>1, FS_AddElement DEF ScopeTypes
  <2>3. ScopeTypes'
    BY <1>0, <1>3, <2>1, <2>2 DEF Scope!RecordHost, ScopeTypes, Scope!Tracked
  <2>4. HookKnown'
    BY <1>0, <1>3, <2>1 DEF HookKnown, ScopeTypes, Scope!RecordHost
  <2> QED BY <1>3, <1>a, <2>3, <2>4 DEF ScopeInv, Scope!RecordHost
<1>4. ASSUME NEW s \in Sessions, Scope!RecordSession(s) PROVE ScopeInv'
  <2>1. PICK next \in {"idle", "command"} : heartbeat' = [heartbeat EXCEPT ![s] = next]
    BY <1>4 DEF Scope!RecordSession
  <2>2. s \in hosts /\ latest' = s /\ hosts' = hosts
    BY <1>0, <1>4 DEF Scope!RecordSession, HookKnown
  <2>3. ScopeTypes'
    BY <1>0, <1>4, <2>1 DEF Scope!RecordSession, ScopeTypes, Scope!Tracked
  <2>4. HookKnown'
    BY <1>0, <2>1, <2>2 DEF HookKnown, ScopeTypes
  <2> QED BY <1>4, <1>a, <2>3, <2>4 DEF ScopeInv, Scope!RecordSession
<1>5. ASSUME NEW s \in Sessions, Scope!Expire(s) PROVE ScopeInv'
  <2>1. IsFiniteSet(hosts')
    BY <1>0, <1>5, FS_RemoveElement DEF ScopeTypes, Scope!Expire
  <2>2. ScopeTypes' /\ HookKnown'
    BY <1>0, <1>5, <2>1 DEF Scope!Expire, ScopeTypes, HookKnown, Scope!Tracked
  <2> QED BY <1>5, <1>a, <2>2 DEF ScopeInv, Scope!Expire
<1>6. ASSUME NEW s \in Sessions, Scope!Return(s) PROVE ScopeInv'
  <2>1. ScopeTypes' /\ HookKnown'
    BY <1>0, <1>6 DEF Scope!Return, ScopeTypes, HookKnown, Scope!Tracked
  <2> QED BY <1>6, <1>a, <2>1 DEF ScopeInv, Scope!Return
<1>7. ASSUME NEW q \in Paths, Scope!ChangeUnasked(q) PROVE ScopeInv'
  <2>1. ScopeTypes'
    BY <1>0, <1>7, <1>d DEF Scope!ChangeUnasked, ScopeTypes, Scope!Tracked
  <2>2. GrantInv'
    BY <1>7, <1>c DEF Scope!ChangeUnasked
  <2> QED BY <1>7, <1>b, <2>1, <2>2 DEF ScopeInv, Scope!ChangeUnasked
<1>8. ASSUME NEW q \in Paths, Scope!Commit(q) PROVE ScopeInv'
  <2>1. /\ q \in Scope!Tracked /\ content[q] # heads[q] /\ heads' = [heads EXCEPT ![q] = content[q]]
        /\ UNCHANGED <<content, grant, granter, since, slipped, heartbeat, hosts, latest, answered>>
    BY <1>8 DEF Scope!Commit
  <2>2. ScopeTypes'
    BY <1>0, <2>1 DEF ScopeTypes, Scope!Tracked
  <2>3. \A p \in Paths : Outside(p)' => Outside(p)
    BY <1>0, <2>1 DEF Outside, Scope!CommittedChangesSince, Scope!Tracked, ScopeTypes
  <2>4. GrantInv'
    BY <1>0, <2>1, <2>3 DEF GrantInv
  <2> QED BY <1>b, <2>1, <2>2, <2>4 DEF ScopeInv
<1>9. ASSUME NEW q \in Paths, Scope!Merge(q) PROVE ScopeInv'
  <2>1. /\ q \in Scope!Tracked /\ content[q] = heads[q] /\ heads' = [heads EXCEPT ![q] = 1 - @]
        /\ content' = [content EXCEPT ![q] = 1 - @]
        /\ UNCHANGED <<grant, granter, since, heartbeat, hosts, latest, answered>>
        /\ slipped \subseteq slipped' /\ (grant # NoOne /\ heads'[q] = grant.head[q] => q \in slipped')
    BY <1>9 DEF Scope!Merge
  <2>2. ScopeTypes' /\ content'[q] = heads'[q]
    BY <1>0, <1>d, <2>1 DEF ScopeTypes, Scope!Tracked
  <2>3. grant # NoOne /\ Outside(q)' => q \in slipped'
    BY <2>1, <2>2 DEF Outside, Scope!CommittedChangesSince, Scope!Tracked
  <2>4. \A p \in Paths : p # q => Outside(p)' = Outside(p)
    BY <1>0, <2>1 DEF Outside, Scope!CommittedChangesSince, Scope!Tracked, ScopeTypes
  <2>5. GrantInv'
    BY <1>0, <2>1, <2>3, <2>4 DEF GrantInv
  <2> QED BY <1>b, <2>1, <2>2, <2>5 DEF ScopeInv
<1>10. ASSUME NEW s \in Sessions, NEW task \in Slices, Scope!Work(s, task) PROVE ScopeInv'
  <2> DEFINE kept == grant # NoOne /\ grant.task = task
             g == Scope!GrantAuthorization(task, Scope!CurrentHostSession)
  <2>1. /\ grant' = g /\ granter' = s /\ heartbeat[s] = "command" /\ heartbeat' = [heartbeat EXCEPT ![s] = "idle"]
        /\ UNCHANGED <<content, heads, hosts, latest, answered>>
        /\ since' = IF kept THEN since ELSE [content |-> content, head |-> heads, blocked |-> config]
    BY <1>10 DEF Scope!Work
  <2>2. /\ ~kept => slipped' = {}
        /\ kept /\ Scope!ProductAuthorization => slipped' = slipped
        /\ kept /\ ~Scope!ProductAuthorization => slipped' = slipped \cup {p \in Paths : content[p] # grant.baseline[p]}
    BY <1>10 DEF Scope!Work
  <2>3. /\ g.session = Scope!CurrentHostSession /\ g.contract = scope[task]
        /\ g.baseline = IF kept THEN grant.baseline ELSE content
        /\ g.head = IF kept THEN grant.head ELSE heads
        /\ g.blocked = IF kept THEN grant.blocked ELSE config
    BY DEF Scope!GrantAuthorization
  <2> HIDE DEF g
  <2>4. g.session \in {NoOne, s}
    BY <1>0, <2>1, <2>3, CallerKnown
  <2>5. since' = [content |-> g.baseline, head |-> g.head, blocked |-> g.blocked]
    BY <1>0, <2>1, <2>3 DEF GrantInv
  <2>6. ASSUME NEW p \in Paths, Outside(p)' PROVE p \in slipped'
    <3>1. content[p] # g.baseline[p] /\ (p \in g.blocked \/ p \notin g.contract)
          /\ (p \in Scope!Tracked => p \notin Scope!CommittedChangesSince(g.head))
      BY <2>1, <2>6 DEF Outside, Scope!CommittedChangesSince, Scope!Tracked
    <3>2. kept
      BY <2>3, <3>1
    <3>3. CASE ~Scope!ProductAuthorization
      BY <2>2, <2>3, <3>1, <3>2, <3>3
    <3>4. CASE Scope!ProductAuthorization
      <4>1. grant.contract = scope[task]
        BY <3>2, <3>4 DEF Scope!ProductAuthorization
      <4>2. Outside(p)
        BY <2>3, <3>1, <3>2, <4>1 DEF Outside
      <4> QED BY <1>0, <2>2, <3>2, <3>4, <4>2 DEF GrantInv
    <3> QED BY <3>3, <3>4
  <2>7. GrantInv'
    BY <2>1, <2>4, <2>5, <2>6 DEF GrantInv
  <2>8. ScopeTypes' /\ HookKnown'
    BY <1>0, <2>1 DEF ScopeTypes, HookKnown, Scope!Tracked
  <2> QED BY <2>7, <2>8 DEF ScopeInv
<1>11. CASE Scope!Done
  <2>1. ScopeTypes' /\ HookKnown' /\ GrantInv'
    BY <1>0, <1>11 DEF Scope!Done, ScopeTypes, HookKnown, GrantInv, Scope!Tracked
  <2> QED BY <2>1 DEF ScopeInv
<1>12. CASE (\E task \in Slices : Scope!Revise(task)) \/ Scope!Configure \/ Scope!Waive \/ Scope!Review
  <2>1. UNCHANGED <<content, heads, grant, granter, since, slipped, heartbeat, hosts, latest, answered>>
    BY <1>12 DEF Scope!Revise, Scope!Configure, Scope!Waive, Scope!Review, Scope!Policy
  <2>2. ScopeTypes'
    BY <1>0, <2>1 DEF ScopeTypes, Scope!Tracked
  <2> QED BY <1>a, <1>b, <2>1, <2>2 DEF ScopeInv
<1>13. CASE UNCHANGED Scope!scopeVars
  <2>1. UNCHANGED <<content, heads, grant, granter, since, slipped, heartbeat, hosts, latest, answered>>
    BY <1>13 DEF Scope!scopeVars
  <2>2. ScopeTypes'
    BY <1>0, <2>1 DEF ScopeTypes, Scope!Tracked
  <2> QED BY <1>a, <1>b, <2>1, <2>2 DEF ScopeInv
<1> QED BY <1>1, <1>2, <1>3, <1>4, <1>5, <1>6, <1>7, <1>8, <1>9, <1>10, <1>11, <1>12, <1>13 DEF Scope!Next

LEMMA ScopeStarts == ASSUME Scope!Init PROVE ScopeInv
<1>1. ScopeTypes
  BY FS_EmptySet DEF Scope!Init, ScopeTypes, Scope!Tracked
<1> QED BY <1>1 DEF Scope!Init, ScopeInv, HookKnown, GrantInv

LEMMA InsideCloses == ASSUME EnvFile \in Paths, ScopeInv PROVE Scope!GrantNamesItsSession /\ Scope!AllowedEditsClose
<1>1. Scope!GrantNamesItsSession
  BY DEF ScopeInv, GrantInv, Scope!GrantNamesItsSession
<1>2. ASSUME Scope!ProductAuthorization, ~waived, NEW p \in Scope!ScopeViolations PROVE p \in slipped
  <2>1. content[p] # grant.baseline[p] /\ (p \in Scope!Tracked => p \notin Scope!CommittedChangesSince(grant.head))
    BY <1>2 DEF Scope!ScopeViolations, Scope!ScopeChanges, Scope!ProductSourceChanges, Scope!ChangedEnv, Scope!Tracked
  <2>2. p \in grant.blocked \/ p \notin scope[grant.task]
    BY <1>2 DEF Scope!ScopeViolations, Scope!DecideScope
  <2>3. p \in Paths
    BY <1>2 DEF Scope!ScopeViolations, Scope!ScopeChanges, Scope!ProductSourceChanges, Scope!ChangedEnv, Scope!Tracked
  <2> QED BY <1>2, <2>1, <2>2, <2>3 DEF ScopeInv, GrantInv, Outside, Scope!ProductAuthorization
<1> QED BY <1>1, <1>2 DEF Scope!AllowedEditsClose

LEMMA DoneIsInside == ASSUME ScopeInv, [Scope!Next]_Scope!scopeVars PROVE Scope!ClosesInScope
<1> SUFFICES ASSUME closed' # closed, NEW p \in Paths
             PROVE  \/ content[p] = since.content[p]
                    \/ p \in Scope!Tracked /\ heads[p] # since.head[p] /\ content[p] = heads[p]
                    \/ p \notin since.blocked /\ (waived \/ p \in scope[grant.task])
  BY DEF Scope!ClosesInScope
<1> USE DEF Scope!treeVars, Scope!policyVars, Scope!hostVars, Scope!grantVars
<1>1. Scope!Done
  BY DEF Scope!Next, Scope!scopeVars, Scope!Ask, Scope!Edit, Scope!RecordHost, Scope!RecordSession, Scope!Expire, Scope!Return, Scope!ChangeUnasked, Scope!Commit, Scope!Merge,
         Scope!Work, Scope!Revise, Scope!Configure, Scope!Waive, Scope!Review, Scope!Policy
<1>2. since = [content |-> grant.baseline, head |-> grant.head, blocked |-> grant.blocked]
  BY <1>1 DEF Scope!Done, Scope!ProductAuthorization, ScopeInv, GrantInv
<1>3. p \notin Scope!ScopeViolations
  BY <1>1 DEF Scope!Done
<1>4. CASE p \in Scope!ScopeChanges
  BY <1>2, <1>3, <1>4 DEF Scope!ScopeViolations, Scope!DecideScope
<1>5. CASE p \notin Scope!ScopeChanges
  BY <1>2, <1>5 DEF Scope!ScopeChanges, Scope!ProductSourceChanges, Scope!CommittedChangesSince, Scope!ChangedEnv, Scope!Tracked
<1> QED BY <1>4, <1>5

\* A grant belongs to the session that asked for it; the edits it allows pass `visp done`, which
\* lets no other change since the first grant through, whatever other sessions, the shell, commits,
\* revisions and the configuration do meanwhile.  What Git ignores is among the files.
THEOREM EditsStayInScope == ASSUME EnvFile \in Paths PROVE RecordsSpec => ChangesStayInScope
<1>1. RecordsInit => ScopeInv
  BY ScopeStarts DEF RecordsInit, ScopeInit
<1>2. [RecordsNext]_<<part, vars, logVars, usageVars, startVars, skillVars, rebaseVars, flipVars, scopeVars>>
      => [Scope!Next]_(Scope!scopeVars)
  BY DEF RecordsNext, BudgetNext, LogNext, UsageNext, StartNext, SkillNext, RebaseNext, FlipNext, ScopeNext,
         scopeVars, Scope!scopeVars
<1>3. ScopeInv /\ [Scope!Next]_(Scope!scopeVars) => ScopeInv' /\ Scope!ClosesInScope
  BY ScopeSteps, DoneIsInside
<1>4. ScopeInv => Scope!GrantNamesItsSession /\ Scope!AllowedEditsClose
  BY InsideCloses
<1>5. ScopeInv /\ [Scope!Next]_(Scope!scopeVars) => [Scope!ClosesInScope]_scopeVars
  BY <1>3
<1> QED BY <1>1, <1>2, <1>3, <1>4, <1>5, PTL DEF RecordsSpec, ChangesStayInScope

-----------------------------------------------------------------------------
(* Sequences without some elements *)

\* What is kept of the elements of s at some indices, as the fold defines it.
KeptOf(kept, s, U, family) ==
    kept = [d \in family |->
              IF d = {} THEN <<>>
              ELSE IF s[Largest(d)] \in U THEN kept[d \ {Largest(d)}]
                   ELSE Append(kept[d \ {Largest(d)}], s[Largest(d)])]

\* The recursive function behind the fold is what its definition says, by induction on size.
LEMMA KeptExists ==
    ASSUME NEW indices, IsFiniteSet(indices), NEW s, NEW U,
           \A d \in SUBSET indices : d # {} => Largest(d) \in d
    PROVE  \E kept : KeptOf(kept, s, U, SUBSET indices)
<1> DEFINE G == {n \in Nat : \E kept : KeptOf(kept, s, U, Few(indices, n))}
<1>1. 0 \in G
  <2> DEFINE none == [d \in Few(indices, 0) |-> <<>>]
  <2>1. \A d \in Few(indices, 0) : d = {}
    BY FS_Subset, FS_EmptySet, FS_CardinalityType DEF Few
  <2>2. KeptOf(none, s, U, Few(indices, 0))
    BY <2>1 DEF KeptOf
  <2> QED BY <2>2
<1>2. \A n \in G \cap Nat : n + 1 \in G
  <2> SUFFICES ASSUME NEW n \in Nat, n \in G PROVE n + 1 \in G
    OBVIOUS
  <2>1. PICK kept : KeptOf(kept, s, U, Few(indices, n))
    OBVIOUS
  <2> DEFINE more == [d \in Few(indices, n + 1) |->
                        IF d = {} THEN <<>>
                        ELSE IF s[Largest(d)] \in U THEN kept[d \ {Largest(d)}]
                             ELSE Append(kept[d \ {Largest(d)}], s[Largest(d)])]
  <2>2. ASSUME NEW d \in Few(indices, n + 1), d # {}
        PROVE  d \ {Largest(d)} \in Few(indices, n) /\ d \ {Largest(d)} \in Few(indices, n + 1)
    <3>1. IsFiniteSet(d) /\ Cardinality(d) \in Nat /\ d \in SUBSET indices
      BY FS_Subset, FS_CardinalityType DEF Few
    <3>2. Cardinality(d \ {Largest(d)}) = Cardinality(d) - 1
      BY <2>2, <3>1, FS_RemoveElement
    <3> QED BY <3>1, <3>2 DEF Few
  <2>3. \A d \in Few(indices, n) : more[d] = kept[d]
    <3>1. \A d \in Few(indices, n) : d \in Few(indices, n + 1)
      BY FS_Subset, FS_CardinalityType DEF Few
    <3> QED BY <2>1, <3>1 DEF KeptOf
  <2>4. KeptOf(more, s, U, Few(indices, n + 1))
    BY <2>2, <2>3 DEF KeptOf
  <2>5. \E any : KeptOf(any, s, U, Few(indices, n + 1))
    BY <2>4
  <2> QED BY <2>5
<1>3. Nat \subseteq G
  <2> HIDE DEF G
  <2> QED BY <1>1, <1>2, SetInduction
<1>4. Cardinality(indices) \in Nat /\ Few(indices, Cardinality(indices)) = SUBSET indices
  BY FS_Subset, FS_CardinalityType DEF Few
<1>5. Cardinality(indices) \in G
  <2> HIDE DEF G
  <2> QED BY <1>3, <1>4
<1>6. \E kept : KeptOf(kept, s, U, Few(indices, Cardinality(indices)))
  BY <1>5
<1> QED BY <1>4, <1>6

\* A sequence without some elements, as the fold defines it.
LEMMA WithoutIs ==
    ASSUME NEW A, NEW s \in Seq(A), NEW U
    PROVE  \E kept : KeptOf(kept, s, U, SUBSET (1..Len(s))) /\ Start!Without(s, U) = kept[1..Len(s)]
<1>1. Len(s) \in Nat /\ DOMAIN s = 1..Len(s)
  BY LenProperties
<1>2. \E kept : KeptOf(kept, s, U, SUBSET (1..Len(s)))
  <2>1. IsFiniteSet(1..Len(s))
    BY <1>1, FS_Interval
  <2>2. \A d \in SUBSET (1..Len(s)) : d # {} => Largest(d) \in d
    BY <1>1, LargestIn
  <2> QED BY <2>1, <2>2, KeptExists
<1> DEFINE the == CHOOSE kept : KeptOf(kept, s, U, SUBSET (1..Len(s)))
<1>3. KeptOf(the, s, U, SUBSET (1..Len(s)))
  BY <1>2
<1>4. Start!Without(s, U) = the[1..Len(s)]
  BY <1>1 DEF Start!Without, Start!MapThenFoldSet, KeptOf, Largest, Start!Max
<1> QED BY <1>3, <1>4

\* Elements outside U stay; a sequence without repetitions stays one.
LEMMA WithoutFacts ==
    ASSUME NEW A, NEW s \in Seq(A), NEW U
    PROVE  /\ Start!Without(s, U) \in Seq(A)
           /\ Start!Range(Start!Without(s, U)) = Start!Range(s) \ U
           /\ Start!IsInjective(s) => Start!IsInjective(Start!Without(s, U))
<1>1. Len(s) \in Nat /\ DOMAIN s = 1..Len(s) /\ \A i \in 1..Len(s) : s[i] \in A
  BY LenProperties, ElementOfSeq
<1>2. PICK kept : KeptOf(kept, s, U, SUBSET (1..Len(s))) /\ Start!Without(s, U) = kept[1..Len(s)]
  BY WithoutIs
<1> DEFINE k(n) == kept[1..n]
           Good(n) == /\ k(n) \in Seq(A)
                      /\ \A x : (\E i \in 1..Len(k(n)) : k(n)[i] = x) <=> x \notin U /\ \E j \in 1..n : s[j] = x
                      /\ Start!IsInjective(s) => \A i, j \in 1..Len(k(n)) : k(n)[i] = k(n)[j] => i = j
           G == {n \in Nat : n <= Len(s) => Good(n)}
<1>3. 0 \in G
  <2>1. k(0) = <<>>
    <3>1. 1..0 = {} /\ {} \in SUBSET (1..Len(s))
      OBVIOUS
    <3> QED BY <1>2, <3>1 DEF KeptOf
  <2>2. Len(<<>>) = 0 /\ 1..0 = {} /\ <<>> \in Seq(A)
    OBVIOUS
  <2> HIDE DEF k
  <2>3. Good(0)
    BY <2>1, <2>2
  <2> QED BY <2>3
<1>4. \A n \in G \cap Nat : n + 1 \in G
  <2> HIDE DEF Good
  <2> SUFFICES ASSUME NEW n \in Nat, n + 1 <= Len(s), Good(n) PROVE Good(n + 1)
    BY <1>1
  <2> USE DEF Good
  <2>1. 1..(n + 1) \in SUBSET (1..Len(s)) /\ 1..(n + 1) # {} /\ n + 1 \in 1..Len(s)
    BY <1>1
  <2>2. k(n + 1) = IF s[n + 1] \in U THEN k(n) ELSE Append(k(n), s[n + 1])
    <3>1. Largest(1..(n + 1)) = n + 1 /\ 1..(n + 1) \ {n + 1} = 1..n
      BY LargestOfInterval
    <3> DEFINE d == 1..(n + 1)
    <3>2. Largest(d) = n + 1 /\ d \ {n + 1} = 1..n /\ d \in SUBSET (1..Len(s)) /\ d # {}
      BY <2>1, <3>1
    <3> HIDE DEF d
    <3>3. kept[d] = IF s[Largest(d)] \in U THEN kept[d \ {Largest(d)}]
                    ELSE Append(kept[d \ {Largest(d)}], s[Largest(d)])
      BY <1>2, <3>2, Zenon DEF KeptOf
    <3>4. kept[d] = IF s[n + 1] \in U THEN kept[1..n] ELSE Append(kept[1..n], s[n + 1])
      BY <3>2, <3>3
    <3> QED BY <3>4 DEF d
  <2>3. \A x : (\E j \in 1..(n + 1) : s[j] = x) <=> (\E j \in 1..n : s[j] = x) \/ s[n + 1] = x
    OBVIOUS
  <2> HIDE DEF k
  <2>4. CASE s[n + 1] \in U
    BY <2>2, <2>3, <2>4
  <2>5. CASE s[n + 1] \notin U
    <3>1. k(n + 1) \in Seq(A) /\ Len(k(n)) \in Nat /\ Len(k(n + 1)) = Len(k(n)) + 1
          /\ (\A i \in 1..Len(k(n)) : k(n + 1)[i] = k(n)[i]) /\ k(n + 1)[Len(k(n)) + 1] = s[n + 1]
      BY <1>1, <2>1, <2>2, <2>5, AppendProperties, LenProperties
    <3>2. \A x : (\E i \in 1..Len(k(n + 1)) : k(n + 1)[i] = x) <=> (\E i \in 1..Len(k(n)) : k(n)[i] = x) \/ s[n + 1] = x
      BY <3>1
    <3>3. \A x : (\E i \in 1..Len(k(n + 1)) : k(n + 1)[i] = x) <=> x \notin U /\ \E j \in 1..(n + 1) : s[j] = x
      BY <2>3, <2>5, <3>2
    <3>4. ASSUME Start!IsInjective(s), NEW i \in 1..Len(k(n + 1)), NEW j \in 1..Len(k(n + 1)), k(n + 1)[i] = k(n + 1)[j]
          PROVE  i = j
      <4>1. ~\E l \in 1..Len(k(n)) : k(n)[l] = s[n + 1]
        <5>1. SUFFICES ASSUME \E l \in 1..n : s[l] = s[n + 1] PROVE FALSE
          OBVIOUS
        <5>2. PICK l \in 1..n : s[l] = s[n + 1]
          BY <5>1
        <5>3. l \in 1..Len(s) /\ l # n + 1
          BY <1>1, <2>1
        <5> QED BY <1>1, <2>1, <3>4, <5>2, <5>3 DEF Start!IsInjective
      <4> QED BY <3>1, <3>4, <4>1
    <3> QED BY <3>1, <3>3, <3>4
  <2> QED BY <2>4, <2>5
<1>5. Len(s) \in G
  <2> HIDE DEF G
  <2>1. Nat \subseteq G
    BY <1>3, <1>4, SetInduction
  <2> QED BY <1>1, <2>1
<1>6. Good(Len(s)) /\ Start!Without(s, U) = k(Len(s))
  BY <1>1, <1>2, <1>5
<1> HIDE DEF k
<1>7. DOMAIN k(Len(s)) = 1..Len(k(Len(s)))
  BY <1>6, LenProperties
<1>8. \A x : x \in Start!Range(Start!Without(s, U)) <=> x \in Start!Range(s) \ U
  BY <1>1, <1>6, <1>7 DEF Start!Range
<1>9. Start!IsInjective(s) => Start!IsInjective(Start!Without(s, U))
  BY <1>6, <1>7 DEF Start!IsInjective
<1> QED BY <1>6, <1>8, <1>9

-----------------------------------------------------------------------------
(* Starting features *)

StartConstants == NoOne \notin Processes /\ Chunks \in Nat

Feature == [id : Nat, claimed : BOOLEAN, request : Nat, takes : SUBSET Nat, heard : SUBSET Nat, branch : BOOLEAN,
            recent : BOOLEAN]
Piece == Nat \X Nat
Busy == [at : {"check", "memory", "tell", "confirm", "create", "list", "claim", "save"},
         request : Nat, prompts : SUBSET Nat, branch : BOOLEAN, removes : BOOLEAN, file : SUBSET Nat,
         before : Seq(Nat), seen : SUBSET Piece, todo : Seq(Piece), added : Seq(Nat), id : Nat,
         claimed : BOOLEAN]

StartTypes ==
    /\ home \in [Processes -> Worktrees] /\ said \in [Worktrees -> Nat]
    /\ prompts \in [Worktrees -> SUBSET Nat] /\ hookReads \in [Worktrees -> (SUBSET Nat) \cup {NoOne}]
    /\ rewritten \in [Worktrees -> SUBSET Nat]
    /\ features \in [Worktrees -> Seq(Feature)]
    /\ refs \in SUBSET Nat /\ 1 \in refs /\ \E bound \in Nat : \A r \in refs : r <= bound
    /\ lock \in [Worktrees -> Processes \cup {NoOne}]
    /\ rules \in [Worktrees -> SUBSET Nat] /\ removed \in [Worktrees -> SUBSET (Nat \X Nat)]
    /\ remembered \in [Worktrees -> Seq(Nat)]
    /\ progress \in [Worktrees -> SUBSET Piece] /\ told \in [Worktrees -> SUBSET Piece]
    /\ call \in [Processes -> Busy \cup {Start!Idle}]

\* Numbers claimed come from the references; those of a worktree have a bound.
IdsReserved ==
    \A w \in Worktrees :
        /\ \A i \in DOMAIN features[w] : features[w][i].claimed => features[w][i].id \in refs
        /\ \E bound \in Nat : \A i \in DOMAIN features[w] : features[w][i].id <= bound

\* A call that has claimed its number is to save it, one that confirms has a chunk to confirm.
Reserved(p) == call[p] # Start!Idle /\ call[p].claimed => call[p].at = "save" /\ call[p].id \in refs
Prepared == \A p \in Processes : Reserved(p) /\ (Start!At(p, "confirm") => call[p].todo # <<>>)

\* Chunk c of the k-th of n features is looked at.
HasPlace(n, k, c) == \E i \in 1..(n * Chunks) : ((i - 1) \div Chunks) + 1 = k /\ ((i - 1) % Chunks) + 1 = c

\* Every one is.
LEMMA ChunkPlace ==
    ASSUME NEW n \in Nat, NEW k \in 1..n, Chunks \in Nat, NEW c \in 1..Chunks
    PROVE  HasPlace(n, k, c)
<1> DEFINE i == (k - 1) * Chunks + c
<1>1. k - 1 \in Nat /\ c - 1 \in Nat /\ c - 1 < Chunks /\ Chunks > 0
  OBVIOUS
<1>2. (k - 1) * Chunks \in Nat /\ (k - 1) * Chunks + Chunks <= n * Chunks
  <2>1. ASSUME NEW a \in Nat, NEW b \in Nat, NEW d \in Nat, a + 1 <= b PROVE a * d \in Nat /\ a * d + d <= b * d
    <3>1. PICK e \in Nat : b = a + 1 + e
      <4>1. b - a - 1 \in Nat /\ b = a + 1 + (b - a - 1)
        BY <2>1
      <4> QED BY <4>1
    <3>2. b * d = a * d + d + e * d /\ e * d \in Nat /\ a * d \in Nat
      BY <3>1
    <3> QED BY <3>2
  <2> QED BY <1>1, <2>1
<1>3. i \in 1..(n * Chunks)
  <2> DEFINE a == (k - 1) * Chunks
             b == n * Chunks
  <2>1. a \in Nat /\ b \in Int /\ a + Chunks <= b
    BY <1>2
  <2> HIDE DEF a, b
  <2>2. a + c \in 1..b
    BY <2>1
  <2> QED BY <2>2 DEF a, b
<1>4. ASSUME NEW q \in Nat, NEW r \in Nat, NEW d \in Nat, r < d PROVE (q * d + r) \div d = q /\ (q * d + r) % d = r
  BY <1>4
<1>5. i - 1 = (k - 1) * Chunks + (c - 1)
  BY <1>1, <1>2
<1>6. (i - 1) \div Chunks = k - 1 /\ (i - 1) % Chunks = c - 1
  BY <1>1, <1>4, <1>5
<1>7. ((i - 1) \div Chunks) + 1 = k /\ ((i - 1) % Chunks) + 1 = c
  BY <1>6
<1> HIDE DEF i
<1> QED BY <1>3, <1>7 DEF HasPlace

\* At first no call has begun.
LEMMA StartTypesInit == ASSUME StartConstants, Start!Init PROVE StartTypes /\ IdsReserved /\ Prepared
<1>1. \A w \in Worktrees : features[w] = <<[id |-> 1, claimed |-> TRUE, request |-> 0, takes |-> {}, heard |-> {}, branch |-> FALSE, recent |-> FALSE]>>
  BY DEF Start!Init
<1>2. features \in [Worktrees -> Seq(Feature)]
  BY DEF Start!Init, Feature
<1>3. 1 \in refs /\ \A r \in refs : r <= 1
  BY DEF Start!Init
<1>4. remembered \in [Worktrees -> Seq(Nat)] /\ call \in [Processes -> Busy \cup {Start!Idle}]
  BY DEF Start!Init
<1>a. /\ prompts = [w \in Worktrees |-> {}] /\ hookReads = [w \in Worktrees |-> NoOne] /\ rewritten = prompts
      /\ rules = prompts /\ removed = prompts /\ progress = prompts /\ told = prompts
  BY DEF Start!Init
<1>b. [w \in Worktrees |-> {}] \in [Worktrees -> SUBSET Nat] /\ [w \in Worktrees |-> {}] \in [Worktrees -> SUBSET Piece]
  OBVIOUS
<1>d. \A X : [w \in Worktrees |-> NoOne] \in [Worktrees -> X \cup {NoOne}]
  OBVIOUS
<1>e. hookReads \in [Worktrees -> (SUBSET Nat) \cup {NoOne}]
  BY <1>a, <1>d
<1>f. prompts \in [Worktrees -> SUBSET Nat] /\ prompts \in [Worktrees -> SUBSET Piece]
  BY <1>a, <1>b
<1>5. /\ prompts \in [Worktrees -> SUBSET Nat] /\ hookReads \in [Worktrees -> (SUBSET Nat) \cup {NoOne}]
      /\ rewritten \in [Worktrees -> SUBSET Nat]
      /\ rules \in [Worktrees -> SUBSET Nat] /\ removed \in [Worktrees -> SUBSET (Nat \X Nat)]
      /\ progress \in [Worktrees -> SUBSET Piece] /\ told \in [Worktrees -> SUBSET Piece]
  BY <1>a, <1>e, <1>f DEF Piece
<1>6. /\ home \in [Processes -> Worktrees] /\ said \in [Worktrees -> Nat]
      /\ lock \in [Worktrees -> Processes \cup {NoOne}] /\ refs = {1}
  BY DEF Start!Init
<1>c. refs \in SUBSET Nat /\ \E bound \in Nat : \A r \in refs : r <= bound
  <2>1. 1 \in Nat /\ \A r \in refs : r <= 1
    BY <1>6
  <2> QED BY <1>6, <2>1
<1>7. StartTypes
  BY <1>2, <1>3, <1>4, <1>5, <1>6, <1>c DEF StartTypes
<1>8. IdsReserved
  <2>1. \A w \in Worktrees : DOMAIN features[w] = {1} /\ features[w][1].id = 1
    BY <1>1
  <2>2. \A w \in Worktrees : \A i \in DOMAIN features[w] : features[w][i].id \in refs /\ features[w][i].id <= 1
    BY <1>3, <2>1
  <2> QED BY <2>2 DEF IdsReserved
<1>9. Prepared
  BY DEF Start!Init, Prepared, Reserved, Start!At, Start!Idle
<1> QED BY <1>7, <1>8, <1>9

\* The numbers of the features of a worktree.
LEMMA IdsAre ==
    ASSUME StartTypes, NEW w \in Worktrees
    PROVE  /\ Start!Ids(w) \in Seq(Nat) /\ Len(Start!Ids(w)) = Len(features[w]) /\ DOMAIN features[w] = 1..Len(features[w])
           /\ Len(features[w]) \in Nat /\ DOMAIN Start!Ids(w) = DOMAIN features[w]
           /\ \A i \in DOMAIN features[w] : Start!Ids(w)[i] = features[w][i].id /\ features[w][i] \in Feature
<1>1. features[w] \in Seq(Feature)
  BY DEF StartTypes
<1>2. Len(features[w]) \in Nat /\ DOMAIN features[w] = 1..Len(features[w])
      /\ \A i \in 1..Len(features[w]) : features[w][i] \in Feature
  BY <1>1, LenProperties, ElementOfSeq
<1>3. Start!Ids(w) \in [1..Len(features[w]) -> Nat]
  BY <1>2 DEF Start!Ids, Feature
<1>4. Start!Ids(w) \in Seq(Nat) /\ Len(Start!Ids(w)) = Len(features[w])
  BY <1>2, <1>3, IsASeq
<1> QED BY <1>2, <1>4 DEF Start!Ids

\* What a call reads is prompts.
LEMMA PromptsAre == ASSUME StartTypes, NEW w \in Worktrees PROVE Start!Prompts(w) \in SUBSET Nat /\ prompts[w] \in SUBSET Nat
  BY DEF StartTypes, Start!Prompts

\* The features that the memory does not have.
LEMMA UnrecordedIs ==
    ASSUME StartTypes, NEW w \in Worktrees
    PROVE  /\ Start!Unrecorded(w) \in Seq(Nat) /\ Start!Range(Start!Unrecorded(w)) \cap Start!Range(remembered[w]) = {}
           /\ Start!IsInjective(Start!Ids(w)) => Start!IsInjective(Start!Unrecorded(w))
<1>1. Start!Ids(w) \in Seq(Nat)
  BY IdsAre
<1> QED BY <1>1, WithoutFacts DEF Start!Unrecorded

\* Every chunk of the features named is confirmed or to be remembered.
LEMMA UnconfirmedIs ==
    ASSUME StartTypes, StartConstants, NEW w \in Worktrees, NEW earlier \in Seq(Nat)
    PROVE  /\ Start!Unconfirmed(w, earlier) \in Seq(Piece)
           /\ \A f \in Start!Range(earlier), c \in 1..Chunks : <<f, c>> \in progress[w] \/ <<f, c>> \in Start!Range(Start!Unconfirmed(w, earlier))
<1> DEFINE n == Len(earlier)
           chunks == [i \in 1..(n * Chunks) |-> <<earlier[((i - 1) \div Chunks) + 1], ((i - 1) % Chunks) + 1>>]
<1>0. n \in Nat /\ Chunks \in Nat /\ n * Chunks \in Nat /\ DOMAIN earlier = 1..n /\ \A k \in 1..n : earlier[k] \in Nat
  BY LenProperties, ElementOfSeq DEF StartConstants
<1> HIDE DEF n
<1>1. ASSUME NEW i \in 1..(n * Chunks)
      PROVE  <<earlier[((i - 1) \div Chunks) + 1], ((i - 1) % Chunks) + 1>> \in Piece
  <2>1. i - 1 \in Nat /\ i - 1 < n * Chunks /\ Chunks > 0
    BY <1>0
  <2>2. ASSUME NEW a \in Nat, NEW m \in Nat, NEW d \in Nat, d > 0, a < m * d PROVE a \div d \in 0..(m - 1) /\ a % d \in Nat
    BY <2>2
  <2>3. (i - 1) \div Chunks \in 0..(n - 1) /\ (i - 1) % Chunks \in Nat
    BY <1>0, <2>1, <2>2
  <2>4. ((i - 1) \div Chunks) + 1 \in 1..n /\ ((i - 1) % Chunks) + 1 \in Nat
    BY <1>0, <2>3
  <2> QED BY <1>0, <2>4 DEF Piece
<1>2. chunks \in Seq(Piece) /\ Len(chunks) = n * Chunks
  <2>1. chunks \in [1..(n * Chunks) -> Piece]
    BY <1>1
  <2> HIDE DEF chunks
  <2> QED BY <1>0, <2>1, IsASeq
<1>3. Start!Unconfirmed(w, earlier) = Start!Without(chunks, progress[w])
  BY DEF Start!Unconfirmed, n
<1>4. ASSUME NEW f \in Start!Range(earlier), NEW c \in 1..Chunks PROVE <<f, c>> \in Start!Range(chunks)
  <2>1. PICK k \in 1..n : earlier[k] = f
    BY <1>0 DEF Start!Range
  <2>2. PICK i \in 1..(n * Chunks) : ((i - 1) \div Chunks) + 1 = k /\ ((i - 1) % Chunks) + 1 = c
    <3>1. n \in Nat /\ k \in 1..n /\ Chunks \in Nat /\ c \in 1..Chunks
      BY <1>0
    <3>2. HasPlace(n, k, c)
      BY <3>1, ChunkPlace
    <3> QED BY <3>2, Zenon DEF HasPlace
  <2>3. chunks[i] = <<f, c>>
    BY <2>1, <2>2
  <2> QED BY <2>3 DEF Start!Range
<1> HIDE DEF chunks
<1>5. Start!Without(chunks, progress[w]) \in Seq(Piece) /\ Start!Range(Start!Without(chunks, progress[w])) = Start!Range(chunks) \ progress[w]
  BY <1>2, WithoutFacts
<1> QED BY <1>3, <1>4, <1>5

\* The next number is greater than those of the worktree.
LEMMA NextIdIs ==
    ASSUME StartTypes, IdsReserved, NEW w \in Worktrees
    PROVE  LET next == 1 + Start!Max(refs \cup Start!Range(Start!Ids(w)))
           IN  next \in Nat /\ \A i \in DOMAIN features[w] : features[w][i].id < next
<1> DEFINE known == refs \cup Start!Range(Start!Ids(w))
<1>1. /\ \A i \in DOMAIN features[w] : features[w][i].id \in known /\ features[w][i].id \in Nat
      /\ \A x \in known : x \in refs \/ \E i \in DOMAIN features[w] : x = features[w][i].id
  BY IdsAre DEF Start!Range, Feature
<1>2. refs \in SUBSET Nat /\ 1 \in refs
  BY DEF StartTypes
<1>3. known \in SUBSET Nat /\ known # {}
  BY <1>1, <1>2
<1>4. \E bound \in Nat : \A x \in known : x <= bound
  <2>1. PICK a \in Nat : \A x \in refs : x <= a
    BY DEF StartTypes
  <2>2. PICK b \in Nat : \A i \in DOMAIN features[w] : features[w][i].id <= b
    BY DEF IdsReserved
  <2>3. \A x \in known : x <= a \/ x <= b
    BY <1>1, <2>1, <2>2
  <2>4. a + b \in Nat /\ \A x \in known : x <= a + b
    BY <1>3, <2>3
  <2> QED BY <2>4
<1> HIDE DEF known
<1>5. PICK last \in known : \A x \in known : x <= last
  BY <1>3, <1>4, GreatestElement
<1>6. \A x \in known : last >= x
  BY <1>3, <1>5
<1>7. Start!Max(known) \in known /\ \A x \in known : Start!Max(known) >= x
  BY <1>6 DEF Start!Max
<1>8. 1 + Start!Max(known) \in Nat /\ \A x \in known : x < 1 + Start!Max(known)
  <2>1. PICK top \in known : top = Start!Max(known)
    BY <1>7
  <2>2. top \in Nat /\ \A x \in known : x \in Nat /\ top >= x
    BY <1>3, <1>7, <2>1
  <2>3. 1 + top \in Nat /\ \A x \in known : x < 1 + top
    BY <2>2
  <2> QED BY <2>1, <2>3
<1> QED BY <1>1, <1>8 DEF known

\* A call goes on as the same asked, ends or is a new one.
LEMMA MoveIs ==
    ASSUME StartTypes, NEW p \in Processes, NEW place, place \in {"memory", "tell", "confirm", "create", "list", "claim", "save"},
           call[p] # Start!Idle, Start!Move(p, place)
    PROVE  /\ call' \in [Processes -> Busy \cup {Start!Idle}] /\ call'[p].at = place
           /\ call'[p] = [call[p] EXCEPT !.at = place]
           /\ \A q \in Processes : q # p => call'[q] = call[q]
<1>1. PICK c \in Busy : call[p] = c
  BY DEF StartTypes
<1>2. [c EXCEPT !.at = place] \in Busy /\ [c EXCEPT !.at = place].at = place
  BY DEF Busy
<1>3. call' = [call EXCEPT ![p] = [c EXCEPT !.at = place]]
  BY <1>1 DEF Start!Move
<1> QED BY <1>1, <1>2, <1>3 DEF StartTypes

\* A call that ends is idle.
LEMMA EndIs ==
    ASSUME StartTypes, NEW p \in Processes, Start!End(p)
    PROVE  /\ call' \in [Processes -> Busy \cup {Start!Idle}] /\ call'[p] = Start!Idle
           /\ \A q \in Processes : q # p => call'[q] = call[q]
  BY DEF StartTypes, Start!End

\* Where a call is.
LEMMA AtIs ==
    ASSUME StartTypes, NEW p \in Processes, ~Start!At(p, "idle")
    PROVE  call[p] \in Busy /\ call[p] # Start!Idle
  BY DEF StartTypes, Start!At, Start!Idle

Unmoved(q) ==
    /\ call'[q].request = call[q].request /\ call'[q].prompts = call[q].prompts /\ call'[q].branch = call[q].branch
    /\ call'[q].removes = call[q].removes /\ call'[q].file = call[q].file

NewCall(q) ==
    /\ call[q] = Start!Idle /\ call'[q] \in Busy /\ call'[q].at = "check"
    /\ call'[q].prompts = Start!Prompts(home[q]) /\ call'[q].file = prompts[home[q]]
    /\ call'[q].removes = (prompts[home[q]] # {})

\* What a step does to a call.
GoesOn(q) ==
    \/ call'[q] = call[q] \/ call'[q] = Start!Idle
    \/ call[q] \in Busy /\ call'[q] \in Busy /\ Unmoved(q)
    \/ NewCall(q)

\* A call that moves on keeps what it knows; the others stay.
LEMMA MoveGoesOn ==
    ASSUME StartTypes, NEW p \in Processes, NEW place, place \in {"memory", "tell", "confirm", "create", "list", "claim", "save"},
           call[p] # Start!Idle, Start!Move(p, place)
    PROVE  \A q \in Processes : GoesOn(q)
<1>1. PICK c \in Busy : call[p] = c
  BY DEF StartTypes
<1>2. [c EXCEPT !.at = place] \in Busy
      /\ [c EXCEPT !.at = place].request = c.request /\ [c EXCEPT !.at = place].prompts = c.prompts
      /\ [c EXCEPT !.at = place].branch = c.branch
      /\ [c EXCEPT !.at = place].removes = c.removes /\ [c EXCEPT !.at = place].file = c.file
  BY DEF Busy
<1>3. call'[p] = [c EXCEPT !.at = place] /\ \A q \in Processes : q # p => call'[q] = call[q]
  BY <1>1, MoveIs
<1> QED BY <1>1, <1>2, <1>3 DEF GoesOn, Unmoved

\* When a call ends, the others stay.
LEMMA EndGoesOn == ASSUME StartTypes, NEW p \in Processes, Start!End(p) PROVE \A q \in Processes : GoesOn(q)
  BY EndIs DEF GoesOn

CallsTyped == call \in [Processes -> Busy \cup {Start!Idle}]
StartSteps == StartTypes' /\ IdsReserved' /\ Prepared' /\ \A q \in Processes : GoesOn(q)

\* Every step keeps the types, takes numbers from the references and reserves them.
LEMMA StartTypesStep == ASSUME StartConstants, StartTypes, IdsReserved, Prepared, [Start!Next]_Start!vars PROVE StartSteps
<1> USE DEF Start!prompts, Start!setting, Start!memory
\* StartSteps of a call that change nothing else.
<1>a. ASSUME UNCHANGED <<home, said, prompts, hookReads, rewritten, features, refs, lock, rules, removed, remembered, progress, told>>,
             CallsTyped'
      PROVE  StartTypes' /\ IdsReserved'
  BY <1>a DEF StartTypes, IdsReserved, CallsTyped
<1>i. ASSUME NEW p \in Processes, call[p] # Start!Idle, call[p].at # "save" PROVE ~call[p].claimed
  BY <1>i DEF Prepared, Reserved
<1>b. ASSUME NEW p \in Processes, \A q \in Processes : q # p => call'[q] = call[q], refs \subseteq refs',
             call'[p] = Start!Idle \/ ~call'[p].claimed, call'[p].at = "confirm" => call'[p].todo # <<>>
      PROVE  Prepared'
  <2>1. \A q \in Processes : Reserved(q)'
    BY <1>b DEF Prepared, Reserved
  <2>2. \A q \in Processes : call'[q].at = "confirm" => call'[q].todo # <<>>
    BY <1>b DEF Prepared, Start!At
  <2> QED BY <2>1, <2>2 DEF Prepared, Start!At
<1>c. Start!Idle.at = "idle"
  BY DEF Start!Idle
<1>1. ASSUME NEW p \in Processes, Start!Call(p) PROVE StartSteps
  <2> DEFINE w == home[p]
  <2>1. w \in Worktrees /\ Start!Prompts(w) \in SUBSET Nat /\ prompts[w] \in SUBSET Nat
    BY PromptsAre DEF StartTypes
  <2>2. PICK asked \in IF Start!Prompts(w) = {} THEN {0} ELSE Start!Prompts(w), branch \in BOOLEAN :
          call' = [call EXCEPT ![p] =
              [at |-> "check", request |-> asked, prompts |-> Start!Prompts(w), branch |-> branch,
               removes |-> prompts[w] # {}, file |-> prompts[w],
               before |-> <<>>, seen |-> {}, todo |-> <<>>, added |-> <<>>, id |-> 0, claimed |-> FALSE]]
    BY <1>1 DEF Start!Call
  <2> DEFINE new == [at |-> "check", request |-> asked, prompts |-> Start!Prompts(w), branch |-> branch,
               removes |-> prompts[w] # {}, file |-> prompts[w],
               before |-> <<>>, seen |-> {}, todo |-> <<>>, added |-> <<>>, id |-> 0, claimed |-> FALSE]
  <2>3. asked \in Nat /\ (prompts[w] # {}) \in BOOLEAN
    BY <2>1
  <2>4. new \in Busy /\ new.at = "check" /\ ~new.claimed /\ new.prompts = Start!Prompts(w) /\ new.file = prompts[w] /\ new.removes = (prompts[w] # {})
    <3>1. ASSUME NEW R, R \in BOOLEAN, NEW P \in SUBSET Nat, NEW F \in SUBSET Nat
          PROVE  [at |-> "check", request |-> asked, prompts |-> P, branch |-> branch, removes |-> R, file |-> F,
                  before |-> <<>>, seen |-> {}, todo |-> <<>>, added |-> <<>>, id |-> 0, claimed |-> FALSE] \in Busy
      BY <2>3, <3>1 DEF Busy
    <3>2. new \in Busy
      BY <2>1, <2>3, <3>1
    <3> QED BY <3>2
  <2> HIDE DEF new
  <2>5. call' = [call EXCEPT ![p] = new]
    BY <2>2 DEF new
  <2>6. CallsTyped' /\ call'[p] = new /\ \A q \in Processes : q # p => call'[q] = call[q]
    BY <2>4, <2>5 DEF StartTypes, CallsTyped
  <2>7. call[p] = Start!Idle
    BY <1>1 DEF Start!Call, Start!At, StartTypes, Busy
  <2>8. \A q \in Processes : GoesOn(q)
    BY <2>4, <2>6, <2>7 DEF GoesOn, NewCall
  <2>9. StartTypes' /\ IdsReserved'
    BY <1>1, <1>a, <2>6 DEF Start!Call
  <2>10. refs' = refs
    BY <1>1 DEF Start!Call
  <2>11. Prepared'
    BY <1>b, <2>4, <2>6, <2>10
  <2> QED BY <2>8, <2>9, <2>11 DEF StartSteps
\* A call that moves, anywhere but to the saving of a feature, or ends.
<1>d. ASSUME NEW p \in Processes, NEW place \in {"memory", "tell", "create", "list", "claim"}, call[p] # Start!Idle,
             call[p].at # "save", Start!Move(p, place),
             UNCHANGED <<home, said, prompts, hookReads, rewritten, features, refs, lock, rules, removed, remembered, progress, told>>
      PROVE  StartSteps
  <2>1. CallsTyped' /\ call'[p].at = place /\ \A q \in Processes : q # p => call'[q] = call[q]
    BY <1>d, MoveIs DEF CallsTyped
  <2>2. StartTypes' /\ IdsReserved'
    BY <1>a, <1>d, <2>1
  <2>3. Prepared'
    <3>1. PICK c \in Busy : call[p] = c
      BY <1>d DEF StartTypes
    <3>2. call'[p] = [c EXCEPT !.at = place]
      BY <1>d, <3>1, MoveIs
    <3>3. ~call'[p].claimed
      <4>1. [c EXCEPT !.at = place].claimed = c.claimed
        BY DEF Busy
      <4> QED BY <1>d, <1>i, <3>1, <3>2, <4>1
    <3> QED BY <1>b, <1>d, <2>1, <3>3
  <2>4. \A q \in Processes : GoesOn(q)
    BY <1>d, MoveGoesOn
  <2> QED BY <2>2, <2>3, <2>4 DEF StartSteps
<1>e. ASSUME NEW p \in Processes, Start!End(p),
             UNCHANGED <<home, said, prompts, hookReads, rewritten, features, refs, lock, rules, removed, remembered, progress, told>>
      PROVE  StartSteps
  <2>1. CallsTyped' /\ call'[p] = Start!Idle /\ \A q \in Processes : q # p => call'[q] = call[q]
    BY <1>e, EndIs DEF CallsTyped
  <2>2. StartTypes' /\ IdsReserved'
    BY <1>a, <1>e, <2>1
  <2>3. Prepared'
    BY <1>b, <1>c, <1>e, <2>1
  <2>4. \A q \in Processes : GoesOn(q)
    BY <1>e, EndGoesOn
  <2> QED BY <2>2, <2>3, <2>4 DEF StartSteps
\* A call whose record changes otherwise.
<1>f. ASSUME NEW p \in Processes, NEW new \in Busy, call[p] \in Busy, call[p].at # "save", new.at # "confirm",
             new.claimed = call[p].claimed, call' = [call EXCEPT ![p] = new],
             new.request = call[p].request, new.prompts = call[p].prompts, new.branch = call[p].branch,
             new.removes = call[p].removes, new.file = call[p].file
      PROVE  /\ CallsTyped' /\ (\A q \in Processes : GoesOn(q))
             /\ \A q \in Processes : q # p => call'[q] = call[q]
             /\ ~call'[p].claimed /\ call'[p].at # "confirm"
  <2>1. CallsTyped' /\ call'[p] = new /\ \A q \in Processes : q # p => call'[q] = call[q]
    BY <1>f DEF StartTypes, CallsTyped
  <2>2. \A q \in Processes : GoesOn(q)
    BY <1>f, <2>1 DEF GoesOn, Unmoved
  <2>3. call[p] # Start!Idle
    BY <1>f DEF Busy, Start!Idle
  <2> QED BY <1>f, <1>i, <2>1, <2>2, <2>3
<1>g. ASSUME NEW p \in Processes, NEW new \in Busy, call[p] \in Busy, call[p].at # "save", new.at # "confirm",
             new.claimed = call[p].claimed, call' = [call EXCEPT ![p] = new],
             new.request = call[p].request, new.prompts = call[p].prompts, new.branch = call[p].branch,
             new.removes = call[p].removes, new.file = call[p].file,
             UNCHANGED <<home, said, prompts, hookReads, rewritten, features, refs, lock, rules, removed, remembered, progress, told>>
      PROVE  StartSteps
  <2>1. /\ CallsTyped' /\ (\A q \in Processes : GoesOn(q))
        /\ \A q \in Processes : q # p => call'[q] = call[q]
        /\ ~call'[p].claimed /\ call'[p].at # "confirm"
    BY <1>f, <1>g
  <2>2. StartTypes' /\ IdsReserved'
    BY <1>a, <1>g, <2>1
  <2>3. Prepared'
    BY <1>b, <1>g, <2>1
  <2> QED BY <2>1, <2>2, <2>3 DEF StartSteps
<1>2. ASSUME NEW p \in Processes, Start!Check(p) PROVE StartSteps
  <2>1. call[p] # Start!Idle /\ call[p].at # "save"
    BY <1>2, <1>c DEF Start!Check, Start!At
  <2> QED BY <1>2, <1>d, <1>e, <2>1 DEF Start!Check
<1>3. ASSUME NEW p \in Processes, Start!ReadMemory(p) PROVE StartSteps
  <2> DEFINE w == home[p]
             earlier == Start!Unrecorded(w)
             todo == IF service THEN Start!Unconfirmed(w, earlier) ELSE <<>>
             next == IF service THEN "tell" ELSE "create"
  <2>1. ~Start!At(p, "idle") /\ call[p].at = "memory" /\ w \in Worktrees
    BY <1>3 DEF Start!ReadMemory, Start!At, StartTypes
  <2>2. PICK c \in Busy : call[p] = c
    BY <2>1, AtIs
  <2>3. earlier \in Seq(Nat) /\ remembered[w] \in Seq(Nat) /\ progress[w] \in SUBSET Piece
    BY <2>1, UnrecordedIs DEF StartTypes
  <2>4. todo \in Seq(Piece) /\ next \in {"tell", "create"}
    BY <2>1, <2>3, UnconfirmedIs, EmptySeq
  <2>5. call' = [call EXCEPT ![p] = [c EXCEPT !.before = remembered[w], !.seen = progress[w], !.added = earlier,
                                              !.todo = todo, !.at = next]]
    BY <1>3, <2>2 DEF Start!ReadMemory
  <2> HIDE DEF todo, earlier, next, w
  <2> DEFINE new == [c EXCEPT !.before = remembered[w], !.seen = progress[w], !.added = earlier, !.todo = todo, !.at = next]
  <2>6. /\ new \in Busy /\ new.at = next
        /\ new.claimed = c.claimed
        /\ new.request = c.request /\ new.prompts = c.prompts /\ new.branch = c.branch /\ new.removes = c.removes /\ new.file = c.file
    BY <2>3, <2>4 DEF Busy
  <2> HIDE DEF new
  <2>7. call' = [call EXCEPT ![p] = new]
    BY <2>5 DEF new
  <2>8. UNCHANGED <<home, said, prompts, hookReads, rewritten, features, refs, lock, rules, removed, remembered, progress, told>>
    BY <1>3 DEF Start!ReadMemory
  <2> QED BY <1>g, <2>1, <2>2, <2>4, <2>6, <2>7, <2>8
<1>4. ASSUME NEW p \in Processes, Start!Tell(p) PROVE StartSteps
  <2>1. ~Start!At(p, "idle") /\ call[p].at = "tell" /\ home[p] \in Worktrees /\ Start!Move(p, "confirm") /\ call[p].todo # <<>>
    BY <1>4 DEF Start!Tell, Start!At, StartTypes
  <2>2. call[p] \in Busy /\ call[p] # Start!Idle
    BY <2>1, AtIs
  <2>3. Head(call[p].todo) \in Piece
    BY <2>1, <2>2, HeadTailProperties DEF Busy
  <2>4. told' = [told EXCEPT ![home[p]] = @ \cup {Head(call[p].todo)}]
        /\ UNCHANGED <<home, said, prompts, hookReads, rewritten, features, refs, lock, rules, removed, remembered, progress>>
    BY <1>4 DEF Start!Tell
  <2>5. CallsTyped' /\ call'[p].at = "confirm" /\ (\A q \in Processes : q # p => call'[q] = call[q])
        /\ \A q \in Processes : GoesOn(q)
    BY <2>1, <2>2, MoveIs, MoveGoesOn DEF CallsTyped
  <2>6. told' \in [Worktrees -> SUBSET Piece]
    BY <2>1, <2>3, <2>4 DEF StartTypes
  <2>7. StartTypes' /\ IdsReserved'
    BY <2>4, <2>5, <2>6 DEF StartTypes, IdsReserved, CallsTyped
  <2>8. Prepared'
    <3>1. [call[p] EXCEPT !.at = "confirm"].todo = call[p].todo /\ [call[p] EXCEPT !.at = "confirm"].claimed = call[p].claimed
      BY <2>2 DEF Busy
    <3>2. call'[p].todo # <<>> /\ ~call'[p].claimed
      BY <1>i, <2>1, <2>2, <3>1, MoveIs
    <3> QED BY <1>b, <2>4, <2>5, <3>2
  <2> QED BY <2>5, <2>7, <2>8 DEF StartSteps
<1>5. ASSUME NEW p \in Processes, Start!TellFails(p) PROVE StartSteps
  <2>1. ~Start!At(p, "idle") /\ home[p] \in Worktrees /\ call[p].todo # <<>> /\ call[p].at = "tell"
    BY <1>5 DEF Start!TellFails, Start!At, StartTypes
  <2>2. PICK c \in Busy : call[p] = c
    BY <2>1, AtIs
  <2> DEFINE failed == Head(c.todo)
             others == Start!Without(c.todo, {failed[1]} \X (1..Chunks))
  <2>3. Tail(c.todo) \in Seq(Piece) /\ others \in Seq(Piece)
    BY <2>1, <2>2, HeadTailProperties, WithoutFacts DEF Busy
  <2>4. PICK rest \in {Tail(c.todo), others} :
           call' = [call EXCEPT ![p] = [c EXCEPT !.todo = rest, !.added = Start!Without(c.added, {failed[1]})]]
    <3>1. \E rest \in {Tail(call[p].todo), Start!Without(call[p].todo, {Head(call[p].todo)[1]} \X (1..Chunks))} :
             call' = [call EXCEPT ![p] = [call[p] EXCEPT !.todo = rest,
                                            !.added = Start!Without(call[p].added, {Head(call[p].todo)[1]})]]
      BY <1>5, Zenon DEF Start!TellFails
    <3> QED BY <2>2, <3>1, Zenon
  <2>5. Start!Without(c.added, {failed[1]}) \in Seq(Nat) /\ rest \in Seq(Piece)
    BY <2>3, WithoutFacts DEF Busy
  <2> HIDE DEF failed, others
  <2> DEFINE new == [c EXCEPT !.todo = rest, !.added = Start!Without(c.added, {failed[1]})]
  <2>6. /\ new \in Busy /\ new.at = c.at
        /\ new.claimed = c.claimed
        /\ new.request = c.request /\ new.prompts = c.prompts /\ new.branch = c.branch /\ new.removes = c.removes /\ new.file = c.file
    BY <2>5 DEF Busy
  <2> HIDE DEF new
  <2>7. call' = [call EXCEPT ![p] = new]
    BY <2>4 DEF new
  <2>8. UNCHANGED <<home, said, prompts, hookReads, rewritten, features, refs, lock, rules, removed, remembered, progress, told>>
    BY <1>5 DEF Start!TellFails
  <2> QED BY <1>g, <2>1, <2>2, <2>6, <2>7, <2>8

<1>6. ASSUME NEW p \in Processes, Start!Confirm(p) PROVE StartSteps
  <2> DEFINE w == home[p]
  <2>1. call[p].at = "confirm" /\ ~Start!At(p, "idle") /\ w \in Worktrees
    BY <1>6 DEF Start!Confirm, Start!At, StartTypes
  <2>2. PICK c \in Busy : call[p] = c
    BY <2>1, AtIs
  <2> DEFINE confirmed == c.seen \cup {Head(c.todo)}
  <2>3. CASE progress[w] # c.seen
    <3>1. Start!End(p) /\ UNCHANGED progress
      BY <1>6, <2>2, <2>3 DEF Start!Confirm
    <3>2. UNCHANGED <<home, said, prompts, hookReads, rewritten, features, refs, lock, rules, removed, remembered, progress, told>>
      BY <1>6, <3>1 DEF Start!Confirm
    <3> QED BY <1>e, <3>1, <3>2
  <2>4. CASE progress[w] = c.seen
    <3>1. progress' = [progress EXCEPT ![w] = confirmed]
          /\ call' = [call EXCEPT ![p] = [c EXCEPT !.seen = confirmed, !.todo = Tail(c.todo), !.at = "tell"]]
      BY <1>6, <2>2, <2>4, Zenon DEF Start!Confirm
    <3>2. confirmed \in SUBSET Piece /\ Tail(c.todo) \in Seq(Piece)
      <4>1. c.todo # <<>>
        BY <2>1, <2>2 DEF Prepared, Start!At
      <4> QED BY <4>1, HeadTailProperties DEF Busy
    <3> HIDE DEF confirmed
    <3> DEFINE new == [c EXCEPT !.seen = confirmed, !.todo = Tail(c.todo), !.at = "tell"]
    <3>3. /\ new \in Busy /\ new.at = "tell"
          /\ new.claimed = c.claimed
        /\ new.request = c.request /\ new.prompts = c.prompts /\ new.branch = c.branch /\ new.removes = c.removes /\ new.file = c.file
      BY <3>2 DEF Busy
    <3> HIDE DEF new
    <3>4. call' = [call EXCEPT ![p] = new]
      BY <3>1 DEF new
    <3>5. /\ CallsTyped' /\ (\A q \in Processes : GoesOn(q))
          /\ \A q \in Processes : q # p => call'[q] = call[q]
          /\ ~call'[p].claimed /\ call'[p].at # "confirm"
      BY <1>f, <2>1, <2>2, <3>3, <3>4
    <3>6. UNCHANGED <<home, said, prompts, hookReads, rewritten, features, refs, lock, rules, removed, remembered, told>>
      BY <1>6 DEF Start!Confirm
    <3>7. progress' \in [Worktrees -> SUBSET Piece]
      BY <3>1, <3>2 DEF StartTypes
    <3>8. StartTypes' /\ IdsReserved'
      BY <3>5, <3>6, <3>7 DEF StartTypes, IdsReserved, CallsTyped
    <3>9. Prepared'
      BY <1>b, <3>5, <3>6
    <3> QED BY <3>5, <3>8, <3>9 DEF StartSteps
  <2> QED BY <2>3, <2>4
<1>7. ASSUME NEW p \in Processes, Start!AllTold(p) PROVE StartSteps
  <2>1. call[p] # Start!Idle /\ call[p].at # "save"
    BY <1>7, <1>c DEF Start!AllTold, Start!At
  <2> QED BY <1>7, <1>d, <2>1 DEF Start!AllTold
<1>8. ASSUME NEW p \in Processes, Start!Lock(p) PROVE StartSteps
  <2>1. call[p] # Start!Idle /\ call[p].at = "create" /\ home[p] \in Worktrees
    BY <1>8, <1>c DEF Start!Lock, Start!At, StartTypes
  <2>2. CASE Start!Duplicate(home[p], call[p])
    BY <1>8, <1>e, <2>2 DEF Start!Lock
  <2>3. CASE ~Start!Duplicate(home[p], call[p])
    <3>1. lock' = [lock EXCEPT ![home[p]] = p] /\ Start!Move(p, "list")
          /\ UNCHANGED <<home, said, prompts, hookReads, rewritten, features, refs, rules, removed, remembered, progress, told>>
      BY <1>8, <2>3 DEF Start!Lock
    <3>2. CallsTyped' /\ call'[p].at = "list" /\ (\A q \in Processes : q # p => call'[q] = call[q])
          /\ \A q \in Processes : GoesOn(q)
      BY <2>1, <3>1, MoveIs, MoveGoesOn DEF CallsTyped
    <3>3. lock' \in [Worktrees -> Processes \cup {NoOne}]
      BY <3>1 DEF StartTypes
    <3>4. StartTypes' /\ IdsReserved'
      BY <3>1, <3>2, <3>3 DEF StartTypes, IdsReserved, CallsTyped
    <3>5. Prepared'
      <4>1. PICK c \in Busy : call[p] = c
        BY <2>1 DEF StartTypes
      <4>2. call'[p].claimed = c.claimed
        BY <2>1, <3>1, <4>1, MoveIs DEF Busy
      <4>3. ~call'[p].claimed
        BY <1>i, <2>1, <4>1, <4>2
      <4> QED BY <1>b, <3>1, <3>2, <4>3
    <3> QED BY <3>2, <3>4, <3>5 DEF StartSteps
  <2> QED BY <2>2, <2>3
<1>9. ASSUME NEW p \in Processes, Start!ListRefs(p) PROVE StartSteps
  <2>1. ~Start!At(p, "idle") /\ call[p].at = "list" /\ home[p] \in Worktrees
    BY <1>9 DEF Start!ListRefs, Start!At, StartTypes
  <2>2. PICK c \in Busy : call[p] = c
    BY <2>1, AtIs
  <2> DEFINE id == 1 + Start!Max(refs \cup Start!Range(Start!Ids(home[p])))
  <2>3. id \in Nat
    BY <2>1, NextIdIs
  <2>4. call' = [call EXCEPT ![p] = [c EXCEPT !.id = id, !.at = "claim"]]
    BY <1>9, <2>2 DEF Start!ListRefs
  <2> HIDE DEF id
  <2> DEFINE new == [c EXCEPT !.id = id, !.at = "claim"]
  <2>6. /\ new \in Busy /\ new.at = "claim"
        /\ new.claimed = c.claimed
        /\ new.request = c.request /\ new.prompts = c.prompts /\ new.branch = c.branch /\ new.removes = c.removes /\ new.file = c.file
    BY <2>3 DEF Busy
  <2> HIDE DEF new
  <2>7. call' = [call EXCEPT ![p] = new]
    BY <2>4 DEF new
  <2>8. UNCHANGED <<home, said, prompts, hookReads, rewritten, features, refs, lock, rules, removed, remembered, progress, told>>
    BY <1>9 DEF Start!ListRefs
  <2> QED BY <1>g, <2>1, <2>2, <2>6, <2>7, <2>8
<1>10. ASSUME NEW p \in Processes, Start!Claim(p) PROVE StartSteps
  <2>1. call[p] # Start!Idle /\ ~Start!At(p, "idle") /\ call[p].at = "claim"
    BY <1>10, <1>c DEF Start!Claim, Start!At
  <2>2. PICK c \in Busy : call[p] = c
    BY <2>1, AtIs
  <2>3. CASE Start!Move(p, "list") /\ UNCHANGED refs
    <3>1. UNCHANGED <<home, said, prompts, hookReads, rewritten, features, refs, lock, rules, removed, remembered, progress, told>>
      BY <1>10, <2>3 DEF Start!Claim
    <3> QED BY <1>d, <2>1, <2>3, <3>1
  <2>4. CASE /\ refs' = refs \cup {c.id}
             /\ call' = [call EXCEPT ![p] = [call[p] EXCEPT !.claimed = TRUE, !.at = "save"]]
    <3> DEFINE new == [c EXCEPT !.claimed = TRUE, !.at = "save"]
    <3>1. /\ new \in Busy /\ new.at = "save" /\ new.id = c.id
          /\ new.request = c.request /\ new.prompts = c.prompts /\ new.branch = c.branch /\ new.removes = c.removes /\ new.file = c.file
      BY DEF Busy
    <3>2. call' = [call EXCEPT ![p] = new]
      BY <2>2, <2>4
    <3> HIDE DEF new
    <3>3. CallsTyped' /\ call'[p] = new /\ \A q \in Processes : q # p => call'[q] = call[q]
      BY <3>1, <3>2 DEF StartTypes, CallsTyped
    <3>4. \A q \in Processes : GoesOn(q)
      BY <2>2, <3>1, <3>3 DEF GoesOn, Unmoved
    <3>5. UNCHANGED <<home, said, prompts, hookReads, rewritten, features, lock, rules, removed, remembered, progress, told>>
      BY <1>10 DEF Start!Claim
    <3>6. \E b \in Nat : \A x \in refs' : x <= b
      <4>1. PICK bound \in Nat : \A x \in refs : x <= bound
        BY DEF StartTypes
      <4>2. c.id \in Nat /\ refs \in SUBSET Nat
        BY DEF Busy, StartTypes
      <4>3. bound + c.id \in Nat /\ \A x \in refs' : x <= bound + c.id
        BY <2>4, <4>1, <4>2
      <4> QED BY <4>3
    <3>7. refs' \in SUBSET Nat /\ 1 \in refs'
      BY <2>4 DEF StartTypes, Busy
    <3>8. StartTypes' /\ IdsReserved'
      BY <2>4, <3>3, <3>5, <3>6, <3>7 DEF StartTypes, IdsReserved, CallsTyped
    <3>9. Prepared'
      <4>1. \A q \in Processes : Reserved(q)'
        <5>1. refs \subseteq refs' /\ c.id \in refs'
          BY <2>4
        <5>2. ASSUME NEW q \in Processes, q # p PROVE Reserved(q)'
          BY <3>3, <5>1, <5>2 DEF Prepared, Reserved
        <5>3. Reserved(p)'
          BY <3>1, <3>3, <5>1 DEF Reserved
        <5> QED BY <5>2, <5>3
      <4>2. \A q \in Processes : call'[q].at = "confirm" => call'[q].todo # <<>>
        BY <3>1, <3>3 DEF Prepared, Start!At
      <4> QED BY <4>1, <4>2 DEF Prepared, Start!At
    <3> QED BY <3>4, <3>8, <3>9 DEF StartSteps
  <2>5. CASE Start!Move(p, "save") /\ UNCHANGED refs
    <3>1. UNCHANGED <<home, said, prompts, hookReads, rewritten, features, refs, lock, rules, removed, remembered, progress, told>>
      BY <1>10, <2>5 DEF Start!Claim
    <3>2. CallsTyped' /\ call'[p] = [c EXCEPT !.at = "save"] /\ (\A q \in Processes : q # p => call'[q] = call[q])
          /\ \A q \in Processes : GoesOn(q)
      BY <2>1, <2>2, <2>5, MoveIs, MoveGoesOn DEF CallsTyped
    <3>3. [c EXCEPT !.at = "save"].claimed = c.claimed /\ [c EXCEPT !.at = "save"].at = "save"
      BY DEF Busy
    <3>4. ~call'[p].claimed /\ call'[p].at # "confirm"
      BY <1>i, <2>1, <2>2, <3>2, <3>3
    <3>5. Prepared'
      BY <1>b, <3>1, <3>2, <3>4
    <3> QED BY <1>a, <3>1, <3>2, <3>5 DEF StartSteps
  <2> QED BY <1>10, <2>2, <2>3, <2>4, <2>5 DEF Start!Claim
<1>11. ASSUME NEW p \in Processes, Start!Save(p) PROVE StartSteps
  <2> DEFINE w == home[p]
  <2>1. ~Start!At(p, "idle") /\ w \in Worktrees /\ call[p].at = "save" /\ Start!End(p) /\ Start!Release(p)
    BY <1>11 DEF Start!Save, Start!At, StartTypes
  <2>2. PICK c \in Busy : call[p] = c
    BY <2>1, AtIs
  <2> DEFINE feature == [id |-> c.id, claimed |-> c.claimed, request |-> c.request,
                         takes |-> IF c.removes THEN c.file ELSE {}, heard |-> c.prompts,
                         branch |-> c.branch, recent |-> TRUE]
  <2>3. feature \in Feature /\ feature.id = c.id /\ c.id \in Nat /\ (feature.claimed => c.id \in refs)
    <3>1. (IF c.removes THEN c.file ELSE {}) \in SUBSET Nat
      BY DEF Busy
    <3>2. c.claimed => c.id \in refs
      BY <2>1, <2>2 DEF Prepared, Reserved, Start!At, Start!Idle
    <3> QED BY <3>1, <3>2 DEF Busy, Feature
  <2>4. /\ features' = IF Start!Unchanged(w, c) THEN [features EXCEPT ![w] = Append(@, feature)] ELSE features
        /\ prompts' = IF Start!Unchanged(w, c) THEN [prompts EXCEPT ![w] = IF c.removes THEN {} ELSE @] ELSE prompts
        /\ rules' = IF Start!Unchanged(w, c) THEN [rules EXCEPT ![w] = Start!WithRules(w, c)] ELSE rules
        /\ remembered' = IF Start!Unchanged(w, c) THEN [remembered EXCEPT ![w] = IF c.added = <<>> THEN @ ELSE c.before \o c.added] ELSE remembered
        /\ UNCHANGED <<home, said, hookReads, rewritten, refs, removed, progress, told>>
    BY <1>11, <2>2 DEF Start!Save
  <2> HIDE DEF feature
  <2>5. /\ CallsTyped' /\ call'[p] = Start!Idle /\ (\A q \in Processes : q # p => call'[q] = call[q])
        /\ \A q \in Processes : GoesOn(q)
    BY <2>1, EndIs, EndGoesOn DEF CallsTyped
  <2>6. features[w] \in Seq(Feature) /\ Append(features[w], feature) \in Seq(Feature)
        /\ Len(Append(features[w], feature)) = Len(features[w]) + 1
        /\ DOMAIN features[w] = 1..Len(features[w]) /\ DOMAIN Append(features[w], feature) = 1..(Len(features[w]) + 1)
        /\ Len(features[w]) \in Nat
        /\ (\A i \in 1..Len(features[w]) : Append(features[w], feature)[i] = features[w][i])
        /\ Append(features[w], feature)[Len(features[w]) + 1] = feature
    BY <2>1, <2>3, AppendProperties, LenProperties DEF StartTypes
  <2>7. features' \in [Worktrees -> Seq(Feature)]
    BY <2>1, <2>4, <2>6 DEF StartTypes
  <2>8. prompts' \in [Worktrees -> SUBSET Nat]
    BY <2>1, <2>4 DEF StartTypes
  <2>9. rules' \in [Worktrees -> SUBSET Nat]
    <3>1. Start!WithRules(w, c) \in SUBSET Nat
      BY <2>1 DEF StartTypes, Start!WithRules, Busy
    <3> QED BY <2>1, <2>4, <3>1 DEF StartTypes
  <2>10. remembered' \in [Worktrees -> Seq(Nat)]
    <3>1. c.before \o c.added \in Seq(Nat) /\ remembered[w] \in Seq(Nat)
      BY <2>1, ConcatProperties DEF StartTypes, Busy
    <3> QED BY <2>1, <2>4, <3>1 DEF StartTypes
  <2>11. lock' \in [Worktrees -> Processes \cup {NoOne}]
    BY <2>1 DEF Start!Release, StartTypes
  <2>12. StartTypes'
    BY <2>4, <2>5, <2>7, <2>8, <2>9, <2>10, <2>11 DEF StartTypes, CallsTyped
  <2>13. IdsReserved'
    <3> SUFFICES ASSUME NEW v \in Worktrees
                 PROVE  /\ \A i \in DOMAIN features'[v] : features'[v][i].claimed => features'[v][i].id \in refs
                        /\ \E bound \in Nat : \A i \in DOMAIN features'[v] : features'[v][i].id <= bound
      BY <2>4 DEF IdsReserved
    <3>1. CASE features'[v] = features[v]
      BY <3>1 DEF IdsReserved
    <3>2. CASE v = w /\ features'[v] = Append(features[w], feature)
      <4> DEFINE n == Len(features[w])
      <4>1. DOMAIN features'[v] = 1..(n + 1) /\ n \in Nat /\ DOMAIN features[w] = 1..n
            /\ (\A i \in 1..n : features'[v][i] = features[w][i]) /\ features'[v][n + 1] = feature
        BY <2>6, <3>2
      <4> HIDE DEF n
      <4>2. \A i \in 1..(n + 1) : i \in 1..n \/ i = n + 1
        BY <4>1
      <4>3. PICK bound \in Nat : \A i \in 1..n : features[w][i].id <= bound
        BY <2>1, <4>1 DEF IdsReserved
      <4>4. \A i \in 1..n : features[w][i].id \in Nat
        BY <2>1, <4>1, IdsAre DEF Feature
      <4>5. ASSUME NEW i \in 1..(n + 1) PROVE features'[v][i].id <= bound + c.id
        <5>1. CASE i \in 1..n
          <6>1. PICK a : a = features[w][i].id
            OBVIOUS
          <6>2. a \in Nat /\ a <= bound /\ features'[v][i].id = a
            BY <4>1, <4>3, <4>4, <5>1, <6>1
          <6> QED BY <2>3, <6>2
        <5>2. CASE i = n + 1
          <6>1. features'[v][i].id = c.id
            BY <2>3, <4>1, <5>2
          <6> QED BY <2>3, <6>1
        <5> QED BY <4>2, <5>1, <5>2
      <4>6. \A i \in 1..(n + 1) : features'[v][i].claimed => features'[v][i].id \in refs
        BY <2>1, <2>3, <4>1, <4>2 DEF IdsReserved
      <4>7. bound + c.id \in Nat
        BY <2>3, <4>3
      <4> QED BY <4>1, <4>5, <4>6, <4>7
    <3> QED BY <2>1, <2>4, <3>1, <3>2 DEF StartTypes
  <2>14. Prepared'
    BY <1>b, <1>c, <2>4, <2>5
  <2> QED BY <2>5, <2>12, <2>13, <2>14 DEF StartSteps
<1>12. ASSUME NEW p \in Processes, Start!Crash(p) PROVE StartSteps
  <2>1. /\ CallsTyped' /\ call'[p] = Start!Idle /\ (\A q \in Processes : q # p => call'[q] = call[q])
        /\ \A q \in Processes : GoesOn(q)
    BY <1>12, EndIs, EndGoesOn DEF CallsTyped, Start!Crash
  <2>2. lock' \in [Worktrees -> Processes \cup {NoOne}]
    BY <1>12 DEF Start!Crash, StartTypes
  <2>3. UNCHANGED <<home, said, prompts, hookReads, rewritten, features, refs, rules, removed, remembered, progress, told>>
    BY <1>12 DEF Start!Crash
  <2>4. StartTypes' /\ IdsReserved'
    BY <2>1, <2>2, <2>3 DEF StartTypes, IdsReserved, CallsTyped
  <2>5. Prepared'
    BY <1>b, <1>c, <2>1, <2>3
  <2> QED BY <2>1, <2>4, <2>5 DEF StartSteps
<1>h. ASSUME UNCHANGED <<call, refs>>, StartTypes', UNCHANGED features PROVE StartSteps
  BY <1>h DEF StartSteps, IdsReserved, Prepared, Reserved, Start!At, GoesOn
<1>13. ASSUME NEW w \in Worktrees, Start!ReadPrompts(w) PROVE StartSteps
  <2>1. hookReads' = [hookReads EXCEPT ![w] = prompts[w]]
        /\ UNCHANGED <<home, said, prompts, rewritten, features, refs, lock, rules, removed, remembered, progress, told, call>>
    BY <1>13 DEF Start!ReadPrompts
  <2>2. hookReads' \in [Worktrees -> (SUBSET Nat) \cup {NoOne}]
    BY <2>1 DEF StartTypes
  <2>3. StartTypes'
    BY <2>1, <2>2 DEF StartTypes
  <2> QED BY <1>h, <2>1, <2>3
<1>14. ASSUME NEW w \in Worktrees, Start!WritePrompts(w) PROVE StartSteps
  <2>1. /\ hookReads[w] # NoOne /\ said' = [said EXCEPT ![w] = @ + 1]
        /\ prompts' = [prompts EXCEPT ![w] = hookReads[w] \cup {said'[w]}]
        /\ rewritten' = [rewritten EXCEPT ![w] = @ \cup (hookReads[w] \cap Start!Taken(w))]
        /\ hookReads' = [hookReads EXCEPT ![w] = NoOne]
        /\ UNCHANGED <<home, features, refs, lock, rules, removed, remembered, progress, told, call>>
    BY <1>14 DEF Start!WritePrompts
  <2>2. hookReads[w] \in SUBSET Nat /\ said[w] \in Nat
    BY <2>1 DEF StartTypes
  <2>3. said' \in [Worktrees -> Nat] /\ said'[w] = said[w] + 1
    BY <2>1, <2>2 DEF StartTypes
  <2>4. prompts' \in [Worktrees -> SUBSET Nat] /\ hookReads' \in [Worktrees -> (SUBSET Nat) \cup {NoOne}]
    BY <2>1, <2>2, <2>3 DEF StartTypes
  <2>5. rewritten' \in [Worktrees -> SUBSET Nat]
    BY <2>1, <2>2 DEF StartTypes
  <2>6. StartTypes'
    BY <2>1, <2>3, <2>4, <2>5 DEF StartTypes
  <2>7. UNCHANGED <<call, refs, features>>
    BY <2>1
  <2> QED BY <1>h, <2>6, <2>7
<1>15. ASSUME NEW w \in Worktrees, Start!Outdate(w) PROVE StartSteps
  <2>1. PICK i \in DOMAIN features[w] : features' = [features EXCEPT ![w][i].recent = FALSE]
    BY <1>15 DEF Start!Outdate
  <2>2. UNCHANGED <<home, said, prompts, hookReads, rewritten, refs, lock, rules, removed, remembered, progress, told, call>>
    BY <1>15 DEF Start!Outdate
  <2>3. features[w] \in Seq(Feature) /\ i \in 1..Len(features[w]) /\ features[w][i] \in Feature
    BY IdsAre DEF StartTypes
  <2> DEFINE older == [features[w][i] EXCEPT !.recent = FALSE]
             list == [features[w] EXCEPT ![i] = older]
  <2>4. older \in Feature /\ older.id = features[w][i].id /\ older.claimed = features[w][i].claimed
    BY <2>3 DEF Feature
  <2>5. features' = [features EXCEPT ![w] = list]
    BY <2>1
  <2> HIDE DEF older
  <2>6. list \in Seq(Feature) /\ DOMAIN list = DOMAIN features[w]
        /\ \A j \in DOMAIN features[w] : list[j] = IF j = i THEN older ELSE features[w][j]
    BY <2>3, <2>4, ExceptSeq
  <2> HIDE DEF list
  <2>7. features' \in [Worktrees -> Seq(Feature)]
    BY <2>5, <2>6 DEF StartTypes
  <2>8. StartTypes'
    BY <2>2, <2>7 DEF StartTypes
  <2>9. IdsReserved'
    <3>1. \A v \in Worktrees : /\ DOMAIN features'[v] = DOMAIN features[v]
                               /\ \A j \in DOMAIN features[v] : /\ features'[v][j].id = features[v][j].id
                                                               /\ features'[v][j].claimed = features[v][j].claimed
      BY <2>4, <2>5, <2>6 DEF StartTypes
    <3> QED BY <2>2, <3>1 DEF IdsReserved
  <2>10. Prepared' /\ \A q \in Processes : GoesOn(q)
    BY <2>2 DEF Prepared, Reserved, Start!At, GoesOn
  <2> QED BY <2>8, <2>9, <2>10 DEF StartSteps
<1>16. ASSUME NEW w \in Worktrees, Start!RemoveProjectRule(w) PROVE StartSteps
  <2>1. PICK r \in rules[w] : rules' = [rules EXCEPT ![w] = @ \ {r}] /\ removed' = [removed EXCEPT ![w] = @ \cup {<<r, Len(features[w])>>}]
    BY <1>16 DEF Start!RemoveProjectRule
  <2>2. UNCHANGED <<home, said, prompts, hookReads, rewritten, features, refs, lock, remembered, progress, told, call>>
    BY <1>16 DEF Start!RemoveProjectRule
  <2>3. r \in Nat /\ rules' \in [Worktrees -> SUBSET Nat] /\ removed' \in [Worktrees -> SUBSET (Nat \X Nat)]
    BY <2>1, IdsAre DEF StartTypes
  <2>4. StartTypes'
    BY <2>2, <2>3 DEF StartTypes
  <2> QED BY <1>h, <2>2, <2>4
<1>17. ASSUME UNCHANGED Start!vars PROVE StartSteps
  <2>1. UNCHANGED <<home, said, prompts, hookReads, rewritten, features, refs, lock, rules, removed, remembered, progress, told, call>>
    BY <1>17 DEF Start!vars
  <2>2. StartTypes'
    BY <2>1 DEF StartTypes
  <2> QED BY <1>h, <2>1, <2>2
<1> QED BY <1>1, <1>2, <1>3, <1>4, <1>5, <1>6, <1>7, <1>8, <1>9, <1>10, <1>11, <1>12, <1>13, <1>14, <1>15, <1>16, <1>17 DEF Start!Next

\* Features stay what they are, but for being recent.
Aged ==
    \A w \in Worktrees :
        /\ DOMAIN features'[w] = DOMAIN features[w]
        /\ \A i \in DOMAIN features[w] :
              /\ features'[w][i].id = features[w][i].id /\ features'[w][i].request = features[w][i].request
              /\ features'[w][i].takes = features[w][i].takes /\ features'[w][i].branch = features[w][i].branch
              /\ features'[w][i].claimed = features[w][i].claimed /\ features'[w][i].heard = features[w][i].heard
              /\ features'[w][i].recent => features[w][i].recent

\* The call of process p becomes the last feature of its worktree w.
Grows(p, w) ==
    /\ call[p] \in Busy /\ call[p].at = "save" /\ call'[p] = Start!Idle /\ w = home[p]
    /\ Start!Unchanged(w, call[p])
    /\ \A v \in Worktrees \ {w} : features'[v] = features[v]
    /\ Len(features[w]) \in Nat /\ DOMAIN features[w] = 1..Len(features[w])
    /\ DOMAIN features'[w] = 1..(Len(features[w]) + 1)
    /\ \A i \in 1..Len(features[w]) : features'[w][i] = features[w][i]
    /\ LET new == features'[w][Len(features[w]) + 1] IN
       /\ new.id = call[p].id /\ new.request = call[p].request /\ new.branch = call[p].branch /\ new.recent = TRUE
       /\ new.takes = (IF call[p].removes THEN call[p].file ELSE {})
       /\ new.claimed = call[p].claimed /\ new.heard = call[p].prompts
    /\ prompts' = [prompts EXCEPT ![w] = IF call[p].removes THEN {} ELSE @]
    /\ rules' = [rules EXCEPT ![w] = @ \cup call[p].prompts]
    /\ remembered' = [remembered EXCEPT ![w] = IF call[p].added = <<>> THEN @ ELSE call[p].before \o call[p].added]
    /\ UNCHANGED <<home, service, session, said, hookReads, rewritten, refs, removed, progress, told>>

\* What saving a feature changes.
LEMMA SaveIs ==
    ASSUME StartTypes, NEW p \in Processes, Start!Save(p)
    PROVE  \/ Grows(p, home[p])
           \/ Start!End(p) /\ Start!Release(p)
              /\ UNCHANGED <<home, service, session, said, prompts, hookReads, rewritten, features, refs, rules, removed, remembered, progress, told>>
<1> USE DEF Start!setting
<1> DEFINE w == home[p]
<1>1. ~Start!At(p, "idle") /\ w \in Worktrees /\ call[p].at = "save" /\ Start!End(p) /\ Start!Release(p)
  BY DEF Start!Save, Start!At, StartTypes
<1>2. PICK c \in Busy : call[p] = c
  BY <1>1, AtIs
<1> DEFINE feature == [id |-> c.id, claimed |-> c.claimed, request |-> c.request,
                         takes |-> IF c.removes THEN c.file ELSE {}, heard |-> c.prompts,
                       branch |-> c.branch, recent |-> TRUE]
<1>3. CASE ~Start!Unchanged(w, c)
  BY <1>1, <1>2, <1>3 DEF Start!Save
<1>4. CASE Start!Unchanged(w, c)
  <2>1. /\ features' = [features EXCEPT ![w] = Append(@, feature)]
        /\ prompts' = [prompts EXCEPT ![w] = IF c.removes THEN {} ELSE @]
        /\ rules' = [rules EXCEPT ![w] = Start!WithRules(w, c)]
        /\ remembered' = [remembered EXCEPT ![w] = IF c.added = <<>> THEN @ ELSE c.before \o c.added]
        /\ UNCHANGED <<home, service, session, said, hookReads, rewritten, refs, removed, progress, told>>
    BY <1>2, <1>4 DEF Start!Save
  <2>2. feature \in Feature
    <3>1. (IF c.removes THEN c.file ELSE {}) \in SUBSET Nat
      BY DEF Busy
    <3> QED BY <3>1 DEF Busy, Feature
  <2>3. /\ feature.id = c.id /\ feature.request = c.request /\ feature.branch = c.branch /\ feature.recent = TRUE
        /\ feature.takes = (IF c.removes THEN c.file ELSE {}) /\ feature.claimed = c.claimed /\ feature.heard = c.prompts
    OBVIOUS
  <2> HIDE DEF feature
  <2>4. DOMAIN features[w] = 1..Len(features[w]) /\ DOMAIN Append(features[w], feature) = 1..(Len(features[w]) + 1)
        /\ Len(features[w]) \in Nat
        /\ (\A i \in 1..Len(features[w]) : Append(features[w], feature)[i] = features[w][i])
        /\ Append(features[w], feature)[Len(features[w]) + 1] = feature
    BY <1>1, <2>2, AppendProperties, LenProperties DEF StartTypes
  <2>5. features'[w] = Append(features[w], feature) /\ \A v \in Worktrees \ {w} : features'[v] = features[v]
    BY <1>1, <2>1 DEF StartTypes
  <2>6. rules' = [rules EXCEPT ![w] = @ \cup c.prompts]
    BY <2>1 DEF Start!WithRules
  <2>7. call'[p] = Start!Idle
    BY <1>1, EndIs
  <2>8. Grows(p, w)
    BY <1>1, <1>2, <1>4, <2>1, <2>3, <2>4, <2>5, <2>6, <2>7 DEF Grows
  <2> QED BY <2>8
<1> QED BY <1>3, <1>4

\* What a step does to the features.
LEMMA FeatureSteps ==
    ASSUME StartTypes, [Start!Next]_Start!vars
    PROVE  Aged \/ \E p \in Processes : Start!Save(p) /\ Grows(p, home[p])
<1> USE DEF Start!prompts, Start!setting, Start!memory
<1>a. features' = features => Aged
  BY DEF Aged
<1>1. ASSUME NEW p \in Processes, Start!Save(p) PROVE Aged \/ \E q \in Processes : Start!Save(q) /\ Grows(q, home[q])
  BY <1>1, <1>a, SaveIs
<1>2. ASSUME NEW p \in Processes,
             Start!Call(p) \/ Start!Check(p) \/ Start!ReadMemory(p) \/ Start!Tell(p) \/ Start!TellFails(p) \/ Start!Confirm(p)
             \/ Start!AllTold(p) \/ Start!Lock(p) \/ Start!ListRefs(p) \/ Start!Claim(p) \/ Start!Crash(p)
      PROVE  Aged
  BY <1>2, <1>a DEF Start!Call, Start!Check, Start!ReadMemory, Start!Tell, Start!TellFails, Start!Confirm, Start!AllTold, Start!Lock, Start!ListRefs, Start!Claim, Start!Crash
<1>3. ASSUME NEW w \in Worktrees, Start!ReadPrompts(w) \/ Start!WritePrompts(w) \/ Start!RemoveProjectRule(w) PROVE Aged
  BY <1>3, <1>a DEF Start!ReadPrompts, Start!WritePrompts, Start!RemoveProjectRule
<1>4. ASSUME NEW w \in Worktrees, Start!Outdate(w) PROVE Aged
  <2>1. PICK i \in DOMAIN features[w] : features' = [features EXCEPT ![w][i].recent = FALSE]
    BY <1>4 DEF Start!Outdate
  <2>2. features[w][i] \in Feature
    BY IdsAre
  <2> DEFINE older == [features[w][i] EXCEPT !.recent = FALSE]
             list == [features[w] EXCEPT ![i] = older]
  <2>3. older.id = features[w][i].id /\ older.request = features[w][i].request /\ older.takes = features[w][i].takes
        /\ older.branch = features[w][i].branch /\ older.recent = FALSE
        /\ older.claimed = features[w][i].claimed /\ older.heard = features[w][i].heard
    BY <2>2 DEF Feature
  <2> HIDE DEF older
  <2>4. DOMAIN list = DOMAIN features[w] /\ \A j \in DOMAIN features[w] : list[j] = IF j = i THEN older ELSE features[w][j]
    OBVIOUS
  <2>5. features' = [features EXCEPT ![w] = list]
    BY <2>1 DEF older
  <2> HIDE DEF list
  <2>6. features'[w] = list /\ \A v \in Worktrees : v # w => features'[v] = features[v]
    BY <2>5 DEF StartTypes
  <2> QED BY <2>3, <2>4, <2>6 DEF Aged
<1>5. ASSUME UNCHANGED Start!vars PROVE Aged
  BY <1>5, <1>a DEF Start!vars
<1> QED BY <1>1, <1>2, <1>3, <1>4, <1>5 DEF Start!Next

\* What a step does to the prompts and rules.
LEMMA PromptSteps ==
    ASSUME StartTypes, [Start!Next]_Start!vars
    PROVE  /\ UNCHANGED <<home, service, session>>
           /\ \/ UNCHANGED <<said, prompts, hookReads, rewritten, rules, removed>> /\ Aged
              \/ \E p \in Processes : Grows(p, home[p])
              \/ \E w \in Worktrees : (Start!ReadPrompts(w) \/ Start!WritePrompts(w) \/ Start!RemoveProjectRule(w)) /\ Aged
<1> USE DEF Start!prompts, Start!setting, Start!memory
<1>a. features' = features => Aged
  BY DEF Aged
<1>1. UNCHANGED <<home, service, session>>
  BY DEF Start!Next, Start!vars, Start!Call, Start!Check, Start!ReadMemory, Start!Tell, Start!TellFails, Start!Confirm, Start!AllTold, Start!Lock, Start!ListRefs, Start!Claim, Start!Save, Start!Crash,
         Start!ReadPrompts, Start!WritePrompts, Start!Outdate, Start!RemoveProjectRule
<1>2. ASSUME NEW p \in Processes, Start!Save(p)
      PROVE  \/ UNCHANGED <<said, prompts, hookReads, rewritten, rules, removed>> /\ Aged
             \/ Grows(p, home[p])
  BY <1>2, <1>a, SaveIs
<1>3. ASSUME NEW p \in Processes,
             Start!Call(p) \/ Start!Check(p) \/ Start!ReadMemory(p) \/ Start!Tell(p) \/ Start!TellFails(p) \/ Start!Confirm(p)
             \/ Start!AllTold(p) \/ Start!Lock(p) \/ Start!ListRefs(p) \/ Start!Claim(p) \/ Start!Crash(p)
      PROVE  UNCHANGED <<said, prompts, hookReads, rewritten, rules, removed>> /\ Aged
  BY <1>3, <1>a DEF Start!Call, Start!Check, Start!ReadMemory, Start!Tell, Start!TellFails, Start!Confirm, Start!AllTold, Start!Lock, Start!ListRefs, Start!Claim, Start!Crash
<1>4. ASSUME NEW w \in Worktrees, Start!ReadPrompts(w) \/ Start!WritePrompts(w) \/ Start!RemoveProjectRule(w) PROVE Aged
  BY <1>4, <1>a DEF Start!ReadPrompts, Start!WritePrompts, Start!RemoveProjectRule
<1>5. ASSUME NEW w \in Worktrees, Start!Outdate(w) PROVE UNCHANGED <<said, prompts, hookReads, rewritten, rules, removed>> /\ Aged
  <2>1. UNCHANGED <<said, prompts, hookReads, rewritten, rules, removed, call>>
    BY <1>5 DEF Start!Outdate
  <2>2. Aged
    <3>1. ASSUME NEW p \in Processes, Grows(p, home[p]) PROVE FALSE
      BY <2>1, <3>1 DEF Grows, Start!Idle
    <3> QED BY <3>1, FeatureSteps
  <2> QED BY <2>1, <2>2
<1>6. UNCHANGED Start!vars => UNCHANGED <<said, prompts, hookReads, rewritten, rules, removed>> /\ Aged
  BY <1>a DEF Start!vars
<1> QED BY <1>1, <1>2, <1>3, <1>4, <1>5, <1>6 DEF Start!Next

CallStep(p) ==
    \/ Start!Call(p) \/ Start!Check(p) \/ Start!ReadMemory(p) \/ Start!Tell(p) \/ Start!TellFails(p) \/ Start!Confirm(p)
    \/ Start!AllTold(p) \/ Start!Lock(p) \/ Start!ListRefs(p) \/ Start!Claim(p) \/ Start!Save(p) \/ Start!Crash(p)

\* Only the call that takes a step moves.
LEMMA WhoSteps ==
    ASSUME [Start!Next]_Start!vars
    PROVE  (\E p \in Processes : CallStep(p)) \/ UNCHANGED <<call, lock>>
<1> USE DEF Start!prompts, Start!setting, Start!memory
<1>1. ASSUME NEW w \in Worktrees, Start!ReadPrompts(w) \/ Start!WritePrompts(w) \/ Start!Outdate(w) \/ Start!RemoveProjectRule(w)
      PROVE  UNCHANGED <<call, lock>>
  BY <1>1 DEF Start!ReadPrompts, Start!WritePrompts, Start!RemoveProjectRule, Start!Outdate
<1>2. UNCHANGED Start!vars => UNCHANGED <<call, lock>>
  BY DEF Start!vars
<1>3. Start!Next => (\E p \in Processes : CallStep(p)) \/ UNCHANGED <<call, lock>>
  BY <1>1 DEF Start!Next, CallStep
<1> QED BY <1>2, <1>3

\* The features of the other worktrees stay.
LEMMA OthersStay ==
    ASSUME StartTypes, NEW p \in Processes, CallStep(p)
    PROVE  \A q \in Processes : q # p => call'[q] = call[q]
<1>1. \E new : call' = [call EXCEPT ![p] = new]
  BY DEF CallStep, Start!Call, Start!Check, Start!ReadMemory, Start!Tell, Start!TellFails, Start!Confirm, Start!AllTold, Start!Lock, Start!ListRefs, Start!Claim, Start!Save, Start!Crash, Start!End, Start!Move
<1> QED BY <1>1 DEF StartTypes

\* Where a step of p can leave it: before the lock, or at the next place under it.
LEMMA PlaceIs ==
    ASSUME StartTypes, NEW p \in Processes, CallStep(p)
    PROVE  \/ call'[p] = Start!Idle
           \/ call'[p].at \in {"check", "memory", "tell", "confirm", "create"}
           \/ Start!Lock(p) /\ ~Start!Duplicate(home[p], call[p]) /\ call'[p].at = "list"
           \/ Start!ListRefs(p) /\ call'[p].at = "claim"
           \/ Start!Claim(p) /\ call[p].id \in refs /\ call'[p].at = "list"
           \/ Start!Claim(p) /\ call[p].id \notin refs /\ call'[p].at = "save" /\ call'[p].id = call[p].id
<1>a. Start!End(p) => call'[p] = Start!Idle
  BY EndIs
<1>b. ~Start!At(p, "idle") => call[p] \in Busy /\ call[p] # Start!Idle
  BY AtIs
<1>c. \A place \in {"memory", "tell", "confirm", "create", "list", "claim", "save"} :
         ~Start!At(p, "idle") /\ Start!Move(p, place) => call'[p].at = place /\ call'[p] = [call[p] EXCEPT !.at = place]
  BY <1>b, MoveIs
<1>1. CASE Start!Call(p)
  <2>1. \E r, b : call' = [call EXCEPT ![p] =
              [at |-> "check", request |-> r, prompts |-> Start!Prompts(home[p]), branch |-> b,
               removes |-> prompts[home[p]] # {}, file |-> prompts[home[p]],
               before |-> <<>>, seen |-> {}, todo |-> <<>>, added |-> <<>>, id |-> 0, claimed |-> FALSE]]
    BY <1>1, Zenon DEF Start!Call
  <2>2. call'[p].at = "check"
    BY <2>1 DEF StartTypes
  <2> QED BY <2>2
<1>2. CASE Start!Check(p)
  BY <1>2, <1>a, <1>c DEF Start!Check, Start!At
<1>3. CASE Start!ReadMemory(p)
  <2>1. \E b, s, a, t : call' = [call EXCEPT ![p] = [call[p] EXCEPT !.before = b, !.seen = s, !.added = a, !.todo = t,
                                              !.at = IF service THEN "tell" ELSE "create"]]
    BY <1>3, Zenon DEF Start!ReadMemory
  <2>2. PICK c \in Busy : call[p] = c
    BY <1>3, <1>b DEF Start!ReadMemory, Start!At
  <2>3. \A b, s, a, t, x : [c EXCEPT !.before = b, !.seen = s, !.added = a, !.todo = t, !.at = x].at = x
    BY DEF Busy
  <2>4. call'[p].at = IF service THEN "tell" ELSE "create"
    BY <2>1, <2>2, <2>3 DEF StartTypes
  <2> QED BY <2>4
<1>4. CASE Start!Tell(p)
  BY <1>4, <1>c DEF Start!Tell, Start!At
<1>5. CASE Start!TellFails(p)
  <2>1. \E r, a : call' = [call EXCEPT ![p] = [call[p] EXCEPT !.todo = r, !.added = a]]
    BY <1>5, Zenon DEF Start!TellFails
  <2>2. PICK c \in Busy : call[p] = c /\ c.at = "tell"
    BY <1>5, <1>b DEF Start!TellFails, Start!At
  <2>3. \A r, a : [c EXCEPT !.todo = r, !.added = a].at = c.at
    BY DEF Busy
  <2>4. PICK r, a : call' = [call EXCEPT ![p] = [c EXCEPT !.todo = r, !.added = a]]
    BY <2>1, <2>2, Zenon
  <2>5. call'[p] = [c EXCEPT !.todo = r, !.added = a]
    BY <2>4, Zenon DEF StartTypes
  <2>6. call'[p].at = "tell"
    BY <2>2, <2>3, <2>5
  <2> QED BY <2>6
<1>6. CASE Start!Confirm(p)
  <2>1. Start!End(p) \/ \E s, r : call' = [call EXCEPT ![p] = [call[p] EXCEPT !.seen = s, !.todo = r, !.at = "tell"]]
    BY <1>6, Zenon DEF Start!Confirm
  <2>2. PICK c \in Busy : call[p] = c
    BY <1>6, <1>b DEF Start!Confirm, Start!At
  <2>3. \A r, s : [c EXCEPT !.seen = s, !.todo = r, !.at = "tell"].at = "tell"
    BY DEF Busy
  <2>4. ASSUME NEW s, NEW r, call' = [call EXCEPT ![p] = [call[p] EXCEPT !.seen = s, !.todo = r, !.at = "tell"]]
        PROVE  call'[p].at = "tell"
    <3>1. call' = [call EXCEPT ![p] = [c EXCEPT !.seen = s, !.todo = r, !.at = "tell"]]
      BY <2>2, <2>4, Zenon
    <3>2. call'[p] = [c EXCEPT !.seen = s, !.todo = r, !.at = "tell"]
      BY <3>1, Zenon DEF StartTypes
    <3> QED BY <2>3, <3>2
  <2> QED BY <1>a, <2>1, <2>4
<1>7. CASE Start!AllTold(p)
  BY <1>7, <1>c DEF Start!AllTold, Start!At
<1>8. CASE Start!Lock(p)
  BY <1>8, <1>a, <1>c DEF Start!Lock, Start!At
<1>9. CASE Start!ListRefs(p)
  <2>1. \E i : call' = [call EXCEPT ![p] = [call[p] EXCEPT !.id = i, !.at = "claim"]]
    BY <1>9, Zenon DEF Start!ListRefs
  <2>2. PICK c \in Busy : call[p] = c
    BY <1>9, <1>b DEF Start!ListRefs, Start!At
  <2>3. \A i : [c EXCEPT !.id = i, !.at = "claim"].at = "claim"
    BY DEF Busy
  <2>4. call'[p].at = "claim"
    BY <2>1, <2>2, <2>3 DEF StartTypes
  <2> QED BY <1>9, <2>4
<1>10. CASE Start!Claim(p)
  <2>1. PICK c \in Busy : call[p] = c
    BY <1>10, <1>b DEF Start!Claim, Start!At
  <2>2. /\ [c EXCEPT !.at = "save"].id = c.id /\ [c EXCEPT !.claimed = TRUE, !.at = "save"].id = c.id
        /\ [c EXCEPT !.claimed = TRUE, !.at = "save"].at = "save"
    BY DEF Busy
  <2>3. CASE call' = [call EXCEPT ![p] = [call[p] EXCEPT !.claimed = TRUE, !.at = "save"]] /\ call[p].id \notin refs
    <3>1. call'[p] = [c EXCEPT !.claimed = TRUE, !.at = "save"]
      BY <2>1, <2>3 DEF StartTypes
    <3> QED BY <1>10, <2>1, <2>2, <2>3, <3>1
  <2>4. ~Start!At(p, "idle")
    BY <1>10 DEF Start!Claim, Start!At
  <2>5. CASE (Start!Move(p, "list") /\ call[p].id \in refs) \/ (Start!Move(p, "save") /\ call[p].id \notin refs)
    BY <1>10, <1>c, <2>1, <2>2, <2>4, <2>5
  <2> QED BY <1>10, <2>3, <2>5 DEF Start!Claim
<1>11. CASE Start!Save(p)
  BY <1>11, <1>a DEF Start!Save
<1>12. CASE Start!Crash(p)
  BY <1>12, <1>a DEF Start!Crash
<1> QED BY <1>1, <1>2, <1>3, <1>4, <1>5, <1>6, <1>7, <1>8, <1>9, <1>10, <1>11, <1>12 DEF CallStep

\* How locks are taken and released.
LEMMA LockSteps ==
    ASSUME StartTypes, NEW p \in Processes, CallStep(p), NEW w \in Worktrees
    PROVE  \/ lock'[w] = lock[w]
           \/ Start!Lock(p) /\ w = home[p] /\ lock[w] = NoOne /\ lock'[w] = p
           \/ lock[w] = p
           \/ Start!Save(p) /\ w = home[p]
<1>1. CASE Start!Lock(p)
  BY <1>1 DEF Start!Lock, StartTypes
<1>2. CASE Start!Save(p)
  BY <1>2 DEF Start!Save, Start!Release, StartTypes
<1>3. CASE Start!Crash(p)
  BY <1>3 DEF Start!Crash, StartTypes
<1>4. CASE Start!Call(p) \/ Start!Check(p) \/ Start!ReadMemory(p) \/ Start!Tell(p) \/ Start!TellFails(p) \/ Start!Confirm(p) \/ Start!AllTold(p) \/ Start!ListRefs(p) \/ Start!Claim(p)
  <2>1. lock' = lock
    BY <1>4 DEF Start!Call, Start!Check, Start!ReadMemory, Start!Tell, Start!TellFails, Start!Confirm, Start!AllTold, Start!ListRefs, Start!Claim
  <2> QED BY <2>1
<1> QED BY <1>1, <1>2, <1>3, <1>4 DEF CallStep

\* A call in the section holds the lock of its worktree, and still no recent feature is its own.
Holding ==
    \A p \in Processes : call[p].at \in {"list", "claim", "save"} =>
        lock[home[p]] = p /\ ~Start!Duplicate(home[p], call[p])

\* The number of a call is not one of its worktree's, and nobody claimed the number it claimed.
OwnNumber ==
    \A p \in Processes : call[p].at \in {"claim", "save"} =>
        \A i \in DOMAIN features[home[p]] : features[home[p]][i].id # call[p].id

SaversDiffer ==
    \A p \in Processes : call[p].at = "save" /\ call[p].claimed =>
        /\ \A w \in Worktrees : \A i \in DOMAIN features[w] : features[w][i].claimed => features[w][i].id # call[p].id
        /\ \A q \in Processes : q # p /\ call[q].at = "save" /\ call[q].claimed => call[q].id # call[p].id

\* Who saves has the lock of its worktree until it has saved.
LEMMA HoldingStep ==
    ASSUME StartConstants, StartTypes, IdsReserved, Prepared, Holding, [Start!Next]_Start!vars
    PROVE  Holding'
<1> SUFFICES ASSUME NEW q \in Processes, call'[q].at \in {"list", "claim", "save"}
             PROVE  lock'[home'[q]] = q /\ ~Start!Duplicate(home[q], call[q])'
  BY DEF Holding
<1> USE DEF Start!prompts, Start!setting, Start!memory
<1>0. home' = home /\ home[q] \in Worktrees
  BY DEF Start!Next, Start!vars, Start!Call, Start!Check, Start!ReadMemory, Start!Tell, Start!TellFails, Start!Confirm, Start!AllTold, Start!Lock, Start!ListRefs, Start!Claim, Start!Save, Start!Crash,
         Start!ReadPrompts, Start!WritePrompts, Start!Outdate, Start!RemoveProjectRule, StartTypes
<1>1. call'[q] # Start!Idle /\ ~(call'[q].at \in {"check", "memory", "tell", "confirm", "create"})
  BY DEF Start!Idle
<1>2. StartSteps
  BY StartTypesStep
\* A call that is in the section already, and does not step.
<1>a. ASSUME call'[q] = call[q], lock'[home[q]] = q,
             features'[home[q]] = features[home[q]] \/ Aged
      PROVE  lock'[home'[q]] = q /\ ~Start!Duplicate(home[q], call[q])'
  <2>1. ~Start!Duplicate(home[q], call[q])
    BY <1>a DEF Holding
  <2>2. ~Start!Duplicate(home[q], call[q])'
    <3> DEFINE w == home[q]
    <3>1. CASE Aged
      <4>1. \A c : ~Start!Duplicate(w, c) => ~Start!Duplicate(w, c)'
        BY <1>0, <3>1 DEF Aged, Start!Duplicate
      <4> QED BY <1>0, <1>a, <2>1, <3>1 DEF Aged, Start!Duplicate
    <3>2. CASE features'[w] = features[w]
      BY <1>0, <1>a, <2>1, <3>2 DEF Start!Duplicate
    <3> QED BY <1>a, <3>1, <3>2
  <2> QED BY <1>0, <1>a, <2>2
<1>3. CASE UNCHANGED <<call, lock>>
  <2>1. Aged
    <3>1. ASSUME NEW p \in Processes, Grows(p, home[p]) PROVE FALSE
      BY <1>3, <3>1 DEF Grows, Start!Idle
    <3> QED BY <3>1, FeatureSteps
  <2>2. lock'[home[q]] = q /\ call'[q] = call[q]
    BY <1>3 DEF Holding
  <2> QED BY <1>a, <2>1, <2>2
<1>4. ASSUME NEW p \in Processes, CallStep(p), p # q
      PROVE  lock'[home'[q]] = q /\ ~Start!Duplicate(home[q], call[q])'
  <2>1. call'[q] = call[q]
    BY <1>4, OthersStay
  <2>2. lock[home[q]] = q
    BY <2>1 DEF Holding
  <2>3. Start!Save(p) => home[p] # home[q]
    BY <1>4, <2>2 DEF Holding, Start!Save, Start!At
  <2>4. lock'[home[q]] = q
    BY <1>0, <1>4, <2>2, <2>3, LockSteps DEF StartConstants
  <2>5. features'[home[q]] = features[home[q]] \/ Aged
    <3>1. ASSUME NEW r \in Processes, Start!Save(r), Grows(r, home[r]) PROVE features'[home[q]] = features[home[q]]
      <4>1. r = p
        BY <1>4, <3>1, OthersStay DEF Grows, Start!Idle
      <4> QED BY <1>0, <2>3, <3>1, <4>1 DEF Grows
    <3> QED BY <3>1, FeatureSteps
  <2> QED BY <1>a, <2>1, <2>4, <2>5
<1>5. ASSUME CallStep(q) PROVE lock'[home'[q]] = q /\ ~Start!Duplicate(home[q], call[q])'
  <2>0. features' = features
    <3>1. Start!Lock(q) \/ Start!ListRefs(q) \/ Start!Claim(q)
      BY <1>1, <1>5, PlaceIs
    <3> QED BY <3>1 DEF Start!Lock, Start!ListRefs, Start!Claim
  <2>1. lock'[home[q]] = q /\ ~Start!Duplicate(home[q], call[q]) /\ call[q] # Start!Idle
    <3>1. CASE Start!Lock(q)
      <4>1. ~Start!Duplicate(home[q], call[q]) /\ lock' = [lock EXCEPT ![home[q]] = q]
        BY <1>1, <1>5, <3>1, EndIs DEF Start!Lock
      <4> QED BY <1>0, <3>1, <4>1 DEF StartTypes, Start!Lock, Start!At, Start!Idle
    <3>2. CASE Start!ListRefs(q)
      BY <1>0, <3>2 DEF Start!ListRefs, Holding, Start!At, Start!Idle
    <3>3. CASE Start!Claim(q)
      BY <1>0, <3>3 DEF Start!Claim, Holding, Start!At, Start!Idle
    <3> QED BY <1>1, <1>5, <3>1, <3>2, <3>3, PlaceIs
  <2>2. call'[q].branch = call[q].branch /\ call'[q].request = call[q].request
    BY <1>1, <1>2, <2>1 DEF StartSteps, GoesOn, Unmoved, NewCall
  <2>3. ~Start!Duplicate(home[q], call[q])'
    BY <1>0, <2>0, <2>1, <2>2 DEF Start!Duplicate
  <2> QED BY <1>0, <2>1, <2>3
<1> QED BY <1>3, <1>4, <1>5, WhoSteps

\* A request that has a feature gets no other.
LEMMA OneFeatureStep ==
    ASSUME StartTypes, Holding, Start!OneFeaturePerRequest, [Start!Next]_Start!vars
    PROVE  Start!OneFeaturePerRequest'
<1>1. CASE Aged
  BY <1>1 DEF Aged, Start!OneFeaturePerRequest
<1>2. ASSUME NEW p \in Processes, Grows(p, home[p]) PROVE Start!OneFeaturePerRequest'
  <2> DEFINE v == home[p]
             n == Len(features[v])
  <2>0. v \in Worktrees /\ n \in Nat /\ DOMAIN features[v] = 1..n /\ DOMAIN features'[v] = 1..(n + 1)
    BY <1>2 DEF Grows, StartTypes
  <2>1. ~Start!Duplicate(v, call[p])
    BY <1>2 DEF Grows, Holding
  <2> SUFFICES ASSUME NEW w \in Worktrees, NEW i \in DOMAIN features'[w], NEW j \in DOMAIN features'[w],
                      i < j, features'[w][i].recent, features'[w][j].recent, ~features'[w][j].branch,
                      features'[w][j].request \notin Short
               PROVE  features'[w][i].request # features'[w][j].request
    BY DEF Start!OneFeaturePerRequest
  <2>2. CASE w # v
    BY <1>2, <2>2 DEF Grows, Start!OneFeaturePerRequest
  <2>3. CASE w = v /\ j \in 1..n
    <3>1. i \in 1..n /\ features'[v][i] = features[v][i] /\ features'[v][j] = features[v][j]
      BY <1>2, <2>0, <2>3 DEF Grows
    <3> QED BY <2>0, <2>3, <3>1 DEF Start!OneFeaturePerRequest
  <2>4. CASE w = v /\ j = n + 1
    <3>0. i \in 1..n
      BY <2>0, <2>4
    <3>1. i \in 1..n /\ features'[v][i] = features[v][i]
      BY <1>2, <3>0 DEF Grows
    <3>2. features'[v][j].request = call[p].request /\ features'[v][j].branch = call[p].branch
      BY <1>2, <2>4 DEF Grows
    <3> QED BY <2>0, <2>1, <2>4, <3>1, <3>2 DEF Start!Duplicate
  <2>5. w = v => j \in 1..n \/ j = n + 1
    BY <2>0
  <2> QED BY <2>2, <2>3, <2>4, <2>5
<1> QED BY <1>1, <1>2, FeatureSteps

\* A call that is to save was so before, or has just been given a number that nobody had reserved.
LEMMA SaverIs ==
    ASSUME StartTypes, [Start!Next]_Start!vars, NEW q \in Processes, call'[q].at = "save"
    PROVE  \/ call'[q] = call[q]
           \/ Start!Claim(q) /\ call[q].id \notin refs /\ call'[q].id = call[q].id
<1>1. ASSUME NEW p \in Processes, CallStep(p), p # q PROVE call'[q] = call[q]
  BY <1>1, OthersStay
<1>2. ASSUME CallStep(q) PROVE Start!Claim(q) /\ call[q].id \notin refs /\ call'[q].id = call[q].id
  <2>1. call'[q] # Start!Idle /\ ~(call'[q].at \in {"check", "memory", "tell", "confirm", "create"})
        /\ call'[q].at # "list" /\ call'[q].at # "claim"
    BY DEF Start!Idle
  <2> QED BY <1>2, <2>1, PlaceIs
<1> QED BY <1>1, <1>2, WhoSteps

\* Under the lock of its worktree, the number a call was given stays its own there.
LEMMA OwnNumberStep ==
    ASSUME StartTypes, IdsReserved, Holding, OwnNumber, [Start!Next]_Start!vars
    PROVE  OwnNumber'
<1> USE DEF Start!prompts, Start!setting, Start!memory
<1> SUFFICES ASSUME NEW q \in Processes, call'[q].at \in {"claim", "save"}
             PROVE  \A i \in DOMAIN features'[home[q]] : features'[home[q]][i].id # call'[q].id
  BY PromptSteps DEF OwnNumber
<1> DEFINE w == home[q]
<1>0. w \in Worktrees
  BY DEF StartTypes
<1>1. CASE call'[q] = call[q]
  <2>1. \A i \in DOMAIN features[w] : features[w][i].id # call[q].id
    BY <1>1 DEF OwnNumber
  <2>2. ASSUME NEW p \in Processes, Grows(p, home[p]) PROVE features'[w] = features[w]
    <3>1. p # q /\ call[p].at = "save"
      BY <1>1, <2>2 DEF Grows, Start!Idle
    <3>2. lock[home[p]] = p /\ lock[w] = q
      BY <1>1, <3>1 DEF Holding
    <3> QED BY <1>0, <2>2, <3>1, <3>2 DEF Grows
  <2>3. CASE Aged
    BY <1>0, <1>1, <2>1, <2>3 DEF Aged
  <2>4. CASE features'[w] = features[w]
    BY <1>1, <2>1, <2>4
  <2> QED BY <2>2, <2>3, <2>4, FeatureSteps
<1>2. CASE Start!Claim(q) /\ call'[q].id = call[q].id
  <2>1. call[q].at = "claim" /\ features' = features
    BY <1>2 DEF Start!Claim, Start!At
  <2> QED BY <1>2, <2>1 DEF OwnNumber
<1>3. CASE Start!ListRefs(q)
  <2>1. PICK c \in Busy : call[q] = c
    BY <1>3, AtIs DEF Start!ListRefs, Start!At
  <2> DEFINE next == 1 + Start!Max(refs \cup Start!Range(Start!Ids(w)))
  <2>2. next \in Nat /\ \A i \in DOMAIN features[w] : features[w][i].id < next
    BY <1>0, NextIdIs
  <2>3. call' = [call EXCEPT ![q] = [c EXCEPT !.id = next, !.at = "claim"]] /\ features' = features
    BY <1>3, <2>1 DEF Start!ListRefs
  <2>4. \A i \in DOMAIN features[w] : features[w][i].id \in Nat
    BY <1>0, IdsAre DEF Feature
  <2> HIDE DEF next, w
  <2>5. [c EXCEPT !.id = next, !.at = "claim"].id = next
    BY DEF Busy
  <2>6. call'[q] = [c EXCEPT !.id = next, !.at = "claim"]
    BY <2>3, Zenon DEF StartTypes
  <2>7. call'[q].id = next
    BY <2>5, <2>6
  <2>8. \A i \in DOMAIN features[w] : features[w][i].id # next
    BY <2>2, <2>4
  <2> QED BY <2>3, <2>7, <2>8 DEF w
<1>4. ASSUME NEW p \in Processes, CallStep(p), p # q PROVE call'[q] = call[q]
  BY <1>4, OthersStay
<1>5. ASSUME CallStep(q) PROVE Start!ListRefs(q) \/ (Start!Claim(q) /\ call'[q].id = call[q].id)
  <2>1. /\ call'[q] # Start!Idle /\ ~(call'[q].at \in {"check", "memory", "tell", "confirm", "create"})
        /\ call'[q].at # "list"
    BY DEF Start!Idle
  <2> QED BY <1>5, <2>1, PlaceIs
<1> QED BY <1>1, <1>2, <1>3, <1>4, <1>5, WhoSteps

\* Two calls never claim one number.
LEMMA SaversStep ==
    ASSUME StartTypes, IdsReserved, Prepared, SaversDiffer, [Start!Next]_Start!vars
    PROVE  SaversDiffer'
<1> USE DEF Start!prompts, Start!setting, Start!memory
<1>0. \A q \in Processes : call[q].at = "save" /\ call[q].claimed => call[q].id \in refs
  BY DEF Prepared, Reserved, Start!Idle
<1>1. ASSUME NEW q \in Processes, Start!Claim(q) PROVE features' = features
  BY <1>1 DEF Start!Claim
<1>2. ASSUME NEW q \in Processes, call'[q].at = "save", call'[q].claimed, NEW w \in Worktrees, NEW i \in DOMAIN features'[w],
             features'[w][i].claimed
      PROVE  features'[w][i].id # call'[q].id
  <2>1. CASE Start!Claim(q) /\ call[q].id \notin refs /\ call'[q].id = call[q].id
    <3>1. features' = features
      BY <1>1, <2>1
    <3> QED BY <1>2, <2>1, <3>1 DEF IdsReserved
  <2>2. CASE call'[q] = call[q] /\ Aged
    BY <1>2, <2>2 DEF Aged, SaversDiffer
  <2>3. ASSUME call'[q] = call[q], NEW p \in Processes, Grows(p, home[p]) PROVE features'[w][i].id # call'[q].id
    <3> DEFINE v == home[p]
               n == Len(features[v])
    <3>1. p # q /\ call[p].at = "save" /\ (call[p].claimed => call[q].id # call[p].id)
      BY <1>2, <2>3 DEF Grows, Start!Idle, SaversDiffer
    <3>2. CASE w # v
      BY <1>2, <2>3, <3>2 DEF Grows, SaversDiffer
    <3>3. CASE w = v /\ i \in 1..n
      BY <1>2, <2>3, <3>3 DEF Grows, SaversDiffer
    <3>4. CASE w = v /\ i = n + 1
      BY <1>2, <2>3, <3>1, <3>4 DEF Grows
    <3>5. w = v => i \in 1..n \/ i = n + 1
      BY <2>3 DEF Grows
    <3> QED BY <3>2, <3>3, <3>4, <3>5
  <2> QED BY <1>2, <2>1, <2>2, <2>3, SaverIs, FeatureSteps
<1>3. ASSUME NEW q \in Processes, call'[q].at = "save", call'[q].claimed,
             NEW r \in Processes, r # q, call'[r].at = "save", call'[r].claimed
      PROVE  call'[r].id # call'[q].id
  <2>1. CASE call'[q] = call[q] /\ call'[r] = call[r]
    BY <1>3, <2>1 DEF SaversDiffer
  <2>2. CASE call'[q] = call[q] /\ Start!Claim(r) /\ call[r].id \notin refs /\ call'[r].id = call[r].id
    BY <1>0, <1>3, <2>2
  <2>3. CASE call'[r] = call[r] /\ Start!Claim(q) /\ call[q].id \notin refs /\ call'[q].id = call[q].id
    BY <1>0, <1>3, <2>3
  <2>4. ~(Start!Claim(q) /\ call'[q] # call[q] /\ call'[r] # call[r])
    BY <1>3, OthersStay DEF CallStep
  <2> QED BY <1>3, <2>1, <2>2, <2>3, <2>4, SaverIs
<1> QED BY <1>2, <1>3 DEF SaversDiffer

\* So features differ: those of one worktree, and those of two that reserved their numbers.
LEMMA OrdinalsStep ==
    ASSUME StartTypes, OwnNumber, SaversDiffer, Start!OrdinalsDiffer, [Start!Next]_Start!vars
    PROVE  Start!OrdinalsDiffer'
<1>1. CASE Aged
  BY <1>1 DEF Aged, Start!OrdinalsDiffer
<1>2. ASSUME NEW p \in Processes, Grows(p, home[p]) PROVE Start!OrdinalsDiffer'
  <2> DEFINE x == home[p]
             n == Len(features[x])
             Old(w, i) == i \in DOMAIN features[w] /\ features'[w][i] = features[w][i]
             New(w, i) == /\ w = x /\ i = n + 1 /\ features'[w][i].id = call[p].id
                          /\ features'[w][i].claimed = call[p].claimed
  <2>1. \A w \in Worktrees : \A i \in DOMAIN features'[w] : Old(w, i) \/ New(w, i)
    <3> SUFFICES ASSUME NEW w \in Worktrees, NEW i \in DOMAIN features'[w] PROVE Old(w, i) \/ New(w, i)
      OBVIOUS
    <3>1. CASE w # x
      BY <1>2, <3>1 DEF Grows
    <3>2. CASE w = x /\ i \in 1..n
      BY <1>2, <3>2 DEF Grows
    <3>3. CASE w = x /\ i = n + 1
      BY <1>2, <3>3 DEF Grows
    <3>4. w = x => i \in 1..n \/ i = n + 1
      BY <1>2 DEF Grows
    <3> QED BY <3>1, <3>2, <3>3, <3>4
  <2>2. \A i \in DOMAIN features[x] : features[x][i].id # call[p].id
    BY <1>2 DEF Grows, OwnNumber
  <2>3. call[p].claimed => \A w \in Worktrees : \A i \in DOMAIN features[w] : features[w][i].claimed => features[w][i].id # call[p].id
    BY <1>2 DEF Grows, SaversDiffer
  <2> SUFFICES ASSUME NEW v \in Worktrees, NEW w \in Worktrees, NEW i \in DOMAIN features'[v], NEW j \in DOMAIN features'[w],
                      features'[v][i].id = features'[w][j].id
               PROVE  (i = 1 /\ j = 1) \/ (v = w /\ i = j) \/ (v # w /\ ~(features'[v][i].claimed /\ features'[w][j].claimed))
    BY DEF Start!OrdinalsDiffer
  <2>4. CASE Old(v, i) /\ Old(w, j)
    BY <2>4 DEF Start!OrdinalsDiffer
  <2>5. CASE New(v, i) /\ New(w, j)
    BY <2>5
  <2>6. CASE (Old(v, i) /\ New(w, j)) \/ (New(v, i) /\ Old(w, j))
    <3> HIDE DEF n
    <3>1. CASE v = w
      BY <2>2, <2>6, <3>1
    <3>2. CASE v # w
      BY <2>3, <2>6, <3>2
    <3> QED BY <3>1, <3>2
  <2> QED BY <2>1, <2>4, <2>5, <2>6
<1> QED BY <1>1, <1>2, FeatureSteps

\* What is on record of the prompts of a worktree.
PromptsInv(w) ==
    /\ prompts[w] \subseteq 1..said[w] /\ Start!Taken(w) \subseteq 1..said[w] /\ 1..said[w] \subseteq prompts[w] \cup Start!Taken(w)
    /\ hookReads[w] # NoOne => hookReads[w] \subseteq 1..said[w] /\ 1..said[w] \subseteq hookReads[w] \cup Start!Taken(w)
    /\ prompts[w] \cap Start!Taken(w) \subseteq rewritten[w]
    /\ \A i, j \in DOMAIN features[w] : i # j => features[w][i].takes \cap features[w][j].takes \subseteq rewritten[w]

RulesInv(w) ==
    /\ \A i \in DOMAIN features[w] : features[w][i].heard \subseteq rules[w] \cup Start!Gone(w)
    /\ \A gone \in removed[w] :
          /\ gone[2] = 0 \/ gone[2] \in DOMAIN features[w]
          /\ gone[1] \in rules[w] => \E i \in DOMAIN features[w] : i > gone[2] /\ gone[1] \in features[w][i].heard
    /\ ~session => /\ rules[w] \subseteq Start!Taken(w) /\ Start!Gone(w) \subseteq Start!Taken(w)
                   /\ rules[w] \cap Start!Gone(w) \subseteq rewritten[w]

\* Outside Codex a call has read what is in the prompts file, and nothing else.
CallsTake ==
    \A p \in Processes : call[p] # Start!Idle /\ ~session =>
        call[p].prompts = call[p].file /\ (~call[p].removes => call[p].file = {})

\* The prompts that features have taken.
LEMMA TakenIs ==
    ASSUME StartTypes, NEW w \in Worktrees
    PROVE  /\ \A x : x \in Start!Taken(w) <=> \E i \in DOMAIN features[w] : x \in features[w][i].takes
           /\ Aged => Start!Taken(w)' = Start!Taken(w)
           /\ \A p \in Processes : Grows(p, w) => Start!Taken(w)' = Start!Taken(w) \cup IF call[p].removes THEN call[p].file ELSE {}
<1>1. \A x : x \in Start!Taken(w) <=> \E i \in DOMAIN features[w] : x \in features[w][i].takes
  BY DEF Start!Taken
<1>2. \A x : x \in Start!Taken(w)' <=> \E i \in DOMAIN features'[w] : x \in features'[w][i].takes
  BY DEF Start!Taken
<1>3. Aged => Start!Taken(w)' = Start!Taken(w)
  <2> SUFFICES ASSUME Aged PROVE \A x : x \in Start!Taken(w)' <=> x \in Start!Taken(w)
    OBVIOUS
  <2> QED BY <1>1, <1>2 DEF Aged
<1>4. ASSUME NEW p \in Processes, Grows(p, w)
      PROVE  Start!Taken(w)' = Start!Taken(w) \cup IF call[p].removes THEN call[p].file ELSE {}
  <2> DEFINE n == Len(features[w])
             new == IF call[p].removes THEN call[p].file ELSE {}
  <2>1. DOMAIN features[w] = 1..n /\ DOMAIN features'[w] = 1..(n + 1) /\ n \in Nat
        /\ (\A i \in 1..n : features'[w][i] = features[w][i]) /\ features'[w][n + 1].takes = new
    BY <1>4 DEF Grows
  <2> HIDE DEF n, new
  <2>2. \A x : (\E i \in 1..(n + 1) : x \in features'[w][i].takes) <=> (\E i \in 1..n : x \in features[w][i].takes) \/ x \in new
    <3>1. \A x : (\E i \in 1..(n + 1) : x \in features'[w][i].takes)
                   <=> (\E i \in 1..n : x \in features'[w][i].takes) \/ x \in features'[w][n + 1].takes
      BY <2>1
    <3> QED BY <2>1, <3>1
  <2>3. \A x : x \in Start!Taken(w)' <=> x \in Start!Taken(w) \/ x \in new
    BY <1>1, <1>2, <2>1, <2>2
  <2> QED BY <2>3 DEF new
<1> QED BY <1>1, <1>3, <1>4

\* A call keeps the prompts it has read.
LEMMA CallsTakeStep ==
    ASSUME StartConstants, StartTypes, IdsReserved, Prepared, CallsTake, [Start!Next]_Start!vars
    PROVE  CallsTake'
<1> SUFFICES ASSUME NEW q \in Processes, call'[q] # Start!Idle
             PROVE  ~session => call'[q].prompts = call'[q].file /\ (~call'[q].removes => call'[q].file = {})
  BY PromptSteps DEF CallsTake
<1>1. GoesOn(q)
  BY StartTypesStep DEF StartSteps
<1>2. CASE call'[q] = call[q]
  BY <1>2 DEF CallsTake
<1>3. CASE call[q] \in Busy /\ Unmoved(q)
  BY <1>3 DEF CallsTake, Unmoved, Busy, Start!Idle
<1>4. CASE NewCall(q)
  <2>1. home[q] \in Worktrees
    BY DEF StartTypes
  <2> QED BY <1>4, <2>1 DEF NewCall, Start!Prompts
<1> QED BY <1>1, <1>2, <1>3, <1>4 DEF GoesOn

\* A prompt is taken by a feature or still there.
LEMMA PromptsStep ==
    ASSUME StartConstants, StartTypes, CallsTake, NEW w \in Worktrees, PromptsInv(w), RulesInv(w), [Start!Next]_Start!vars
    PROVE  PromptsInv(w)' /\ RulesInv(w)'
<1>0. said[w] \in Nat /\ prompts[w] \in SUBSET Nat /\ session' = session
  BY PromptSteps DEF StartTypes
\* A worktree in which nothing changes but the age of features.
<1>a. ASSUME Aged \/ features'[w] = features[w], said'[w] = said[w], prompts'[w] = prompts[w], hookReads'[w] = hookReads[w],
             rewritten'[w] = rewritten[w]
      PROVE  PromptsInv(w)' /\ Start!Taken(w)' = Start!Taken(w)
  <2>1. Start!Taken(w)' = Start!Taken(w)
    <3>1. features'[w] = features[w] => Start!Taken(w)' = Start!Taken(w)
      BY DEF Start!Taken
    <3>2. Aged => Start!Taken(w)' = Start!Taken(w)
      BY TakenIs
    <3> QED BY <1>a, <3>1, <3>2
  <2>2. \A i, j \in DOMAIN features'[w] : i # j => features'[w][i].takes \cap features'[w][j].takes \subseteq rewritten'[w]
    BY <1>a DEF Aged, PromptsInv
  <2> QED BY <1>a, <2>1, <2>2 DEF PromptsInv
<1>b. ASSUME Aged \/ features'[w] = features[w], said'[w] = said[w], prompts'[w] = prompts[w], hookReads'[w] = hookReads[w],
             rewritten'[w] = rewritten[w], rules'[w] = rules[w], removed'[w] = removed[w]
      PROVE  PromptsInv(w)' /\ RulesInv(w)'
  <2>1. PromptsInv(w)' /\ Start!Taken(w)' = Start!Taken(w) /\ Start!Gone(w)' = Start!Gone(w)
    BY <1>a, <1>b DEF Start!Gone
  <2>2. DOMAIN features'[w] = DOMAIN features[w] /\ \A i \in DOMAIN features[w] : features'[w][i].heard = features[w][i].heard
    BY <1>b DEF Aged
  <2> QED BY <1>0, <1>b, <2>1, <2>2 DEF RulesInv
<1>1. CASE UNCHANGED <<said, prompts, hookReads, rewritten, rules, removed>> /\ Aged
  BY <1>1, <1>b
<1>2. ASSUME NEW p \in Processes, Grows(p, home[p]), w # home[p] PROVE PromptsInv(w)' /\ RulesInv(w)'
  <2>1. features'[w] = features[w] /\ prompts'[w] = prompts[w] /\ rules'[w] = rules[w]
        /\ UNCHANGED <<said, hookReads, rewritten, removed>>
    BY <1>2 DEF Grows, StartTypes
  <2> QED BY <1>b, <2>1
<1>3. ASSUME NEW p \in Processes, Grows(p, home[p]), w = home[p] PROVE PromptsInv(w)' /\ RulesInv(w)'
  <2> DEFINE n == Len(features[w])
  <2>0. PICK new : new = IF call[p].removes THEN call[p].file ELSE {}
    OBVIOUS
  <2>1. /\ prompts'[w] = (IF call[p].removes THEN {} ELSE prompts[w]) /\ rules'[w] = rules[w] \cup call[p].prompts
        /\ UNCHANGED <<said, hookReads, rewritten, removed>>
    BY <1>3 DEF Grows, StartTypes
  <2>2. Start!Taken(w)' = Start!Taken(w) \cup new
    BY <1>3, <2>0, TakenIs
  <2>3. /\ call[p].removes => new = prompts[w]
        /\ ~call[p].removes => new = {}
        /\ ~session => call[p].prompts = new
    <3>1. call[p] # Start!Idle /\ (call[p].removes => prompts[w] = call[p].file) /\ call[p].removes \in BOOLEAN
      BY <1>3 DEF Grows, Start!Unchanged, Start!Idle, Busy
    <3> QED BY <2>0, <3>1 DEF CallsTake
  <2>4. \A i, j \in DOMAIN features'[w] : i # j => features'[w][i].takes \cap features'[w][j].takes \subseteq rewritten[w]
    <3>1. /\ n \in Nat /\ DOMAIN features'[w] = 1..(n + 1) /\ DOMAIN features[w] = 1..n
          /\ (\A i \in 1..n : features'[w][i] = features[w][i]) /\ features'[w][n + 1].takes = new
      BY <1>3, <2>0 DEF Grows
    <3>2. \A i \in 1..n : features[w][i].takes \cap new \subseteq rewritten[w]
      <4>1. \A i \in 1..n : features[w][i].takes \subseteq Start!Taken(w)
        BY <3>1, TakenIs
      <4>2. Start!Taken(w) \cap new \subseteq rewritten[w]
        BY <2>3 DEF PromptsInv
      <4> QED BY <4>1, <4>2
    <3>3. \A i, j \in 1..n : i # j => features[w][i].takes \cap features[w][j].takes \subseteq rewritten[w]
      BY <3>1 DEF PromptsInv
    <3> HIDE DEF n
    <3> SUFFICES ASSUME NEW i \in 1..(n + 1), NEW j \in 1..(n + 1), i # j
                 PROVE  features'[w][i].takes \cap features'[w][j].takes \subseteq rewritten[w]
      BY <3>1
    <3>4. (i \in 1..n \/ i = n + 1) /\ (j \in 1..n \/ j = n + 1)
      BY <3>1
    <3>5. CASE i \in 1..n /\ j \in 1..n
      BY <3>1, <3>3, <3>5
    <3>6. CASE i \in 1..n /\ j = n + 1
      BY <3>1, <3>2, <3>6
    <3>7. CASE i = n + 1 /\ j \in 1..n
      BY <3>1, <3>2, <3>7
    <3> QED BY <3>4, <3>5, <3>6, <3>7
  <2>5. PromptsInv(w)'
    <3>1. prompts'[w] \subseteq 1..said[w] /\ Start!Taken(w)' \subseteq 1..said[w] /\ 1..said[w] \subseteq prompts'[w] \cup Start!Taken(w)'
      BY <2>1, <2>2, <2>3 DEF PromptsInv
    <3>2. hookReads[w] # NoOne => hookReads[w] \subseteq 1..said[w] /\ 1..said[w] \subseteq hookReads[w] \cup Start!Taken(w)'
      BY <2>2 DEF PromptsInv
    <3>3. prompts'[w] \cap Start!Taken(w)' \subseteq rewritten[w]
      BY <2>1, <2>2, <2>3 DEF PromptsInv
    <3> QED BY <2>1, <2>4, <3>1, <3>2, <3>3 DEF PromptsInv
  <2>6. RulesInv(w)'
    <3> DEFINE gone == Start!Gone(w)
    <3>1. gone' = gone
      BY <2>1 DEF Start!Gone
    <3>2. /\ n \in Nat /\ DOMAIN features'[w] = 1..(n + 1) /\ DOMAIN features[w] = 1..n
          /\ (\A i \in 1..n : features'[w][i] = features[w][i]) /\ features'[w][n + 1].heard = call[p].prompts
      BY <1>3 DEF Grows
    <3> HIDE DEF n, gone
    <3>3. \A i \in 1..(n + 1) : i \in 1..n \/ i = n + 1
      BY <3>2
    <3>4. \A i \in 1..(n + 1) : features'[w][i].heard \subseteq rules'[w] \cup gone
      BY <2>1, <3>2, <3>3 DEF RulesInv, gone
    <3>5. ASSUME NEW g \in removed[w], g[1] \in rules'[w]
          PROVE  \E i \in 1..(n + 1) : i > g[2] /\ g[1] \in features'[w][i].heard
      <4>1. n + 1 > g[2] /\ n + 1 \in 1..(n + 1)
        BY <3>2 DEF RulesInv
      <4>2. CASE g[1] \in call[p].prompts
        BY <3>2, <4>1, <4>2
      <4>3. CASE g[1] \in rules[w]
        <5>1. PICK i \in 1..n : i > g[2] /\ g[1] \in features[w][i].heard
          BY <3>2, <4>3 DEF RulesInv
        <5>2. i \in 1..(n + 1)
          BY <3>2
        <5> QED BY <3>2, <5>1, <5>2
      <4> QED BY <2>1, <3>5, <4>2, <4>3
    <3>6. \A g \in removed[w] : g[2] = 0 \/ g[2] \in 1..(n + 1)
      BY <3>2 DEF RulesInv
    <3>7. ~session => /\ rules'[w] \subseteq Start!Taken(w)' /\ gone \subseteq Start!Taken(w)'
                      /\ rules'[w] \cap gone \subseteq rewritten[w]
      BY <2>1, <2>2, <2>3 DEF RulesInv, PromptsInv, gone
    <3> QED BY <1>0, <2>1, <3>1, <3>2, <3>4, <3>5, <3>6, <3>7 DEF RulesInv, gone
  <2> QED BY <2>5, <2>6
<1>4. ASSUME NEW v \in Worktrees, Start!ReadPrompts(v) \/ Start!WritePrompts(v) \/ Start!RemoveProjectRule(v), v # w, Aged
      PROVE  PromptsInv(w)' /\ RulesInv(w)'
  <2>1. said'[w] = said[w] /\ prompts'[w] = prompts[w] /\ hookReads'[w] = hookReads[w]
        /\ rewritten'[w] = rewritten[w] /\ rules'[w] = rules[w] /\ removed'[w] = removed[w]
    <3>1. CASE Start!ReadPrompts(v)
      BY <1>4, <3>1 DEF Start!ReadPrompts, StartTypes
    <3>2. CASE Start!WritePrompts(v)
      BY <1>4, <3>2 DEF Start!WritePrompts, StartTypes
    <3>3. CASE Start!RemoveProjectRule(v)
      BY <1>4, <3>3 DEF Start!RemoveProjectRule, StartTypes, Start!prompts
    <3> QED BY <1>4, <3>1, <3>2, <3>3
  <2> QED BY <1>4, <1>b, <2>1
<1>5. ASSUME Start!ReadPrompts(w), Aged PROVE PromptsInv(w)' /\ RulesInv(w)'
  <2>1. hookReads'[w] = prompts[w] /\ UNCHANGED <<session, said, prompts, rewritten, features, rules, removed>>
    BY <1>5 DEF Start!ReadPrompts, StartTypes, Start!setting
  <2>2. Start!Taken(w)' = Start!Taken(w) /\ Start!Gone(w)' = Start!Gone(w)
    BY <2>1 DEF Start!Taken, Start!Gone
  <2> QED BY <2>1, <2>2 DEF PromptsInv, RulesInv
<1>6. ASSUME Start!WritePrompts(w), Aged PROVE PromptsInv(w)' /\ RulesInv(w)'
  <2>1. /\ hookReads[w] # NoOne /\ said'[w] = said[w] + 1 /\ prompts'[w] = hookReads[w] \cup {said[w] + 1} /\ hookReads'[w] = NoOne
        /\ rewritten'[w] = rewritten[w] \cup (hookReads[w] \cap Start!Taken(w))
        /\ UNCHANGED <<session, features, rules, removed>>
    BY <1>6 DEF Start!WritePrompts, StartTypes, Start!setting
  <2>2. Start!Taken(w)' = Start!Taken(w) /\ Start!Gone(w)' = Start!Gone(w)
    BY <2>1 DEF Start!Taken, Start!Gone
  <2>3. 1..(said[w] + 1) = 1..said[w] \cup {said[w] + 1} /\ said[w] + 1 \notin 1..said[w]
    BY <1>0
  <2>4. said[w] + 1 \notin Start!Taken(w)
    BY <2>3 DEF PromptsInv
  <2>5. PromptsInv(w)'
    <3>1. /\ prompts'[w] \subseteq 1..said'[w] /\ Start!Taken(w)' \subseteq 1..said'[w] /\ 1..said'[w] \subseteq prompts'[w] \cup Start!Taken(w)'
          /\ prompts'[w] \cap Start!Taken(w)' \subseteq rewritten'[w]
      BY <2>1, <2>2, <2>3, <2>4 DEF PromptsInv
    <3>2. \A i, j \in DOMAIN features[w] : i # j => features[w][i].takes \cap features[w][j].takes \subseteq rewritten'[w]
      BY <2>1 DEF PromptsInv
    <3> QED BY <2>1, <3>1, <3>2 DEF PromptsInv
  <2>6. RulesInv(w)'
    BY <2>1, <2>2 DEF RulesInv
  <2> QED BY <2>5, <2>6
<1>7. ASSUME Start!RemoveProjectRule(w), Aged PROVE PromptsInv(w)' /\ RulesInv(w)'
  <2>1. PICK x \in rules[w] : rules'[w] = rules[w] \ {x} /\ removed'[w] = removed[w] \cup {<<x, Len(features[w])>>}
    BY <1>7 DEF Start!RemoveProjectRule, StartTypes
  <2>2. UNCHANGED <<session, said, prompts, hookReads, rewritten, features>>
    BY <1>7 DEF Start!RemoveProjectRule, Start!setting, Start!prompts
  <2>3. PromptsInv(w)' /\ Start!Taken(w)' = Start!Taken(w)
    BY <1>a, <2>2
  <2>4. Start!Gone(w)' = Start!Gone(w) \cup {x}
    <3>1. <<x, Len(features[w])>>[1] = x
      OBVIOUS
    <3>2. Start!Gone(w)' = {g[1] : g \in removed[w] \cup {<<x, Len(features[w])>>}}
      BY <2>1 DEF Start!Gone
    <3>3. {g[1] : g \in removed[w] \cup {<<x, Len(features[w])>>}} = {g[1] : g \in removed[w]} \cup {x}
      BY <3>1, Zenon
    <3> QED BY <3>2, <3>3 DEF Start!Gone
  <2>5. Len(features[w]) = 0 \/ Len(features[w]) \in DOMAIN features[w]
    BY IdsAre
  <2>6. \A i \in DOMAIN features[w] : features[w][i].heard \subseteq rules'[w] \cup Start!Gone(w)'
    BY <2>1, <2>4 DEF RulesInv
  <2>7. ASSUME NEW g \in removed'[w]
        PROVE  /\ g[2] = 0 \/ g[2] \in DOMAIN features[w]
               /\ g[1] \in rules'[w] => \E i \in DOMAIN features[w] : i > g[2] /\ g[1] \in features[w][i].heard
    <3>1. CASE g \in removed[w]
      BY <2>1, <3>1 DEF RulesInv
    <3>2. CASE g = <<x, Len(features[w])>>
      BY <2>1, <2>5, <3>2
    <3> QED BY <2>1, <3>1, <3>2
  <2>8. ~session => /\ rules'[w] \subseteq Start!Taken(w) /\ Start!Gone(w)' \subseteq Start!Taken(w)
                    /\ rules'[w] \cap Start!Gone(w)' \subseteq rewritten[w]
    BY <2>1, <2>4 DEF RulesInv
  <2>9. RulesInv(w)'
    BY <2>2, <2>3, <2>6, <2>7, <2>8 DEF RulesInv
  <2> QED BY <2>3, <2>9
<1> QED BY <1>1, <1>2, <1>3, <1>4, <1>5, <1>6, <1>7, PromptSteps

\* What the memory holds was remembered, once, and so was what is confirmed.
MemoryInv(w) ==
    /\ Start!IsInjective(remembered[w]) /\ progress[w] \subseteq told[w]
    /\ service => \A f \in Start!Range(remembered[w]), c \in 1..Chunks : <<f, c>> \in told[w]

\* What a call is to add is new, and remembered but for the chunks it still has to tell.
AddsInv(p) ==
    call[p].at \in {"tell", "confirm", "create", "list", "claim", "save"} =>
        /\ Start!IsInjective(call[p].added) /\ Start!Range(call[p].added) \cap Start!Range(call[p].before) = {}
        /\ service => \A f \in Start!Range(call[p].added), c \in 1..Chunks :
                         <<f, c>> \in told[home[p]] \/ <<f, c>> \in Start!Range(call[p].todo)
        /\ service /\ call[p].at \notin {"tell", "confirm"} => call[p].todo = <<>>
        /\ call[p].at = "confirm" => Head(call[p].todo) \in told[home[p]]

\* A list that is not empty is its head and its tail.
LEMMA HeadAndTail ==
    ASSUME NEW A, NEW s \in Seq(A), s # <<>>
    PROVE  Tail(s) \in Seq(A) /\ \A x \in Start!Range(s) : x = Head(s) \/ x \in Start!Range(Tail(s))
<1>1. Len(s) \in Nat /\ Len(s) > 0 /\ DOMAIN s = 1..Len(s)
  BY LenProperties
<1>2. /\ Tail(s) \in Seq(A) /\ Head(s) = s[1] /\ Len(Tail(s)) = Len(s) - 1
      /\ \A i \in 1..Len(Tail(s)) : Tail(s)[i] = s[i + 1]
  BY HeadTailProperties
<1>3. DOMAIN Tail(s) = 1..(Len(s) - 1)
  BY <1>2, LenProperties
<1>4. ASSUME NEW i \in 1..Len(s), i # 1 PROVE s[i] \in Start!Range(Tail(s))
  <2>1. i - 1 \in 1..(Len(s) - 1) /\ i - 1 + 1 = i
    BY <1>1, <1>4
  <2>2. Tail(s)[i - 1] = s[i]
    BY <1>2, <2>1
  <2> QED BY <1>3, <2>1, <2>2 DEF Start!Range
<1> QED BY <1>1, <1>2, <1>4 DEF Start!Range

\* Two lists without repetitions or common elements make one.
LEMMA JoinIsInjective ==
    ASSUME NEW A, NEW s \in Seq(A), NEW t \in Seq(A), Start!IsInjective(s), Start!IsInjective(t), Start!Range(t) \cap Start!Range(s) = {}
    PROVE  Start!IsInjective(s \o t) /\ \A x \in Start!Range(s \o t) : x \in Start!Range(s) \/ x \in Start!Range(t)
<1> DEFINE u == s \o t
<1>1. Len(s) \in Nat /\ Len(t) \in Nat /\ DOMAIN s = 1..Len(s) /\ DOMAIN t = 1..Len(t)
  BY LenProperties
<1>2. u \in Seq(A) /\ Len(u) = Len(s) + Len(t) /\ \A i \in 1..(Len(s) + Len(t)) :
          u[i] = IF i <= Len(s) THEN s[i] ELSE t[i - Len(s)]
  BY ConcatProperties
<1>3. DOMAIN u = 1..(Len(s) + Len(t))
  BY <1>2, LenProperties
<1> HIDE DEF u
<1> DEFINE m == Len(s)
           n == Len(t)
<1>4. /\ m \in Nat /\ n \in Nat /\ DOMAIN u = 1..(m + n)
      /\ \A i \in 1..(m + n) : u[i] = IF i <= m THEN s[i] ELSE t[i - m]
      /\ DOMAIN s = 1..m /\ DOMAIN t = 1..n
  BY <1>1, <1>2, <1>3
<1> HIDE DEF m, n
<1>5. ASSUME NEW i \in 1..(m + n)
      PROVE  \/ i \in 1..m /\ u[i] = s[i] /\ u[i] \in Start!Range(s)
             \/ i - m \in 1..n /\ u[i] = t[i - m] /\ u[i] \in Start!Range(t)
  <2>1. CASE i <= m
    BY <1>4, <2>1 DEF Start!Range
  <2>2. CASE ~(i <= m)
    <3>1. i - m \in 1..n
      BY <1>4, <2>2
    <3> QED BY <1>4, <2>2, <3>1 DEF Start!Range
  <2> QED BY <2>1, <2>2
<1>6. ASSUME NEW i \in 1..(m + n), NEW j \in 1..(m + n), u[i] = u[j] PROVE i = j
  <2>1. CASE i \in 1..m /\ u[i] = s[i] /\ j \in 1..m /\ u[j] = s[j]
    BY <1>4, <1>6, <2>1 DEF Start!IsInjective
  <2>2. CASE i - m \in 1..n /\ u[i] = t[i - m] /\ j - m \in 1..n /\ u[j] = t[j - m]
    <3>1. i - m = j - m
      BY <1>4, <1>6, <2>2 DEF Start!IsInjective
    <3> QED BY <1>4, <3>1
  <2> QED BY <1>5, <1>6, <2>1, <2>2
<1>7. Start!IsInjective(u)
  BY <1>4, <1>6 DEF Start!IsInjective
<1>8. \A x \in Start!Range(u) : x \in Start!Range(s) \/ x \in Start!Range(t)
  BY <1>4, <1>5 DEF Start!Range
<1> QED BY <1>7, <1>8 DEF u

\* What was remembered stays so.
LEMMA ToldGrows ==
    ASSUME StartTypes, [Start!Next]_Start!vars
    PROVE  \A w \in Worktrees : told[w] \subseteq told'[w]
<1> USE DEF Start!prompts, Start!setting, Start!memory
<1>1. ASSUME NEW p \in Processes, Start!Tell(p) PROVE \A w \in Worktrees : told[w] \subseteq told'[w]
  BY <1>1 DEF Start!Tell, StartTypes
<1>2. ASSUME NEW p \in Processes,
             Start!Call(p) \/ Start!Check(p) \/ Start!ReadMemory(p) \/ Start!TellFails(p) \/ Start!Confirm(p)
             \/ Start!AllTold(p) \/ Start!Lock(p) \/ Start!ListRefs(p) \/ Start!Claim(p) \/ Start!Save(p) \/ Start!Crash(p)
      PROVE  told' = told
  BY <1>2 DEF Start!Call, Start!Check, Start!ReadMemory, Start!TellFails, Start!Confirm, Start!AllTold, Start!Lock, Start!ListRefs, Start!Claim, Start!Save, Start!Crash
<1>3. ASSUME NEW w \in Worktrees, Start!ReadPrompts(w) \/ Start!WritePrompts(w) \/ Start!Outdate(w) \/ Start!RemoveProjectRule(w) PROVE told' = told
  BY <1>3 DEF Start!ReadPrompts, Start!WritePrompts, Start!Outdate, Start!RemoveProjectRule
<1>4. UNCHANGED Start!vars => told' = told
  BY DEF Start!vars
<1> QED BY <1>1, <1>2, <1>3, <1>4 DEF Start!Next

\* What a call adds to the memory is new, and told but for what it still has to tell.
LEMMA AddsStep ==
    ASSUME StartConstants, StartTypes, IdsReserved, Prepared, Start!OrdinalsDiffer,
           \A w \in Worktrees : MemoryInv(w), \A p \in Processes : AddsInv(p), [Start!Next]_Start!vars
    PROVE  \A p \in Processes : AddsInv(p)'
<1> SUFFICES ASSUME NEW p \in Processes, call'[p].at \in {"tell", "confirm", "create", "list", "claim", "save"}
             PROVE  AddsInv(p)'
  BY DEF AddsInv
<1> DEFINE w == home[p]
<1>0. home' = home /\ service' = service /\ w \in Worktrees /\ told[w] \subseteq told'[w]
  BY PromptSteps, ToldGrows DEF StartTypes
<1>a. ASSUME call'[p] = call[p] PROVE AddsInv(p)'
  BY <1>0, <1>a DEF AddsInv
<1>b. call'[p] # Start!Idle /\ call'[p].at # "check" /\ call'[p].at # "memory"
  BY DEF Start!Idle
<1>c. ASSUME ~Start!At(p, "idle") PROVE \E c \in Busy : call[p] = c
  BY <1>c, AtIs
\* A call that only moves, past the telling or not.
<1>d. ASSUME NEW place \in {"memory", "tell", "confirm", "create", "list", "claim", "save"}, Start!Move(p, place), ~Start!At(p, "idle")
      PROVE  \E c \in Busy : call[p] = c /\ call'[p].at = place /\ call'[p].added = c.added /\ call'[p].before = c.before
                             /\ call'[p].todo = c.todo
  <2>1. PICK c \in Busy : call[p] = c
    BY <1>c, <1>d
  <2>2. call'[p].at = place /\ call'[p] = [c EXCEPT !.at = place]
    BY <1>d, <2>1, MoveIs, AtIs
  <2>3. [c EXCEPT !.at = place].added = c.added /\ [c EXCEPT !.at = place].before = c.before
        /\ [c EXCEPT !.at = place].todo = c.todo
    BY DEF Busy
  <2> QED BY <2>1, <2>2, <2>3
<1>1. CASE UNCHANGED <<call, lock>>
  BY <1>1, <1>a
<1>2. ASSUME NEW q \in Processes, CallStep(q), q # p PROVE AddsInv(p)'
  BY <1>2, <1>a, OthersStay
<1>3. CASE Start!Call(p) \/ Start!Save(p) \/ Start!Crash(p)
  <2>1. CASE Start!Call(p)
    <3>1. \E r, b : call' = [call EXCEPT ![p] =
                [at |-> "check", request |-> r, prompts |-> Start!Prompts(home[p]), branch |-> b,
                 removes |-> prompts[home[p]] # {}, file |-> prompts[home[p]],
                 before |-> <<>>, seen |-> {}, todo |-> <<>>, added |-> <<>>, id |-> 0, claimed |-> FALSE]]
      BY <2>1, Zenon DEF Start!Call
    <3>2. call'[p].at = "check"
      BY <3>1 DEF StartTypes
    <3> QED BY <1>b, <3>2
  <2>2. CASE Start!Save(p) \/ Start!Crash(p)
    BY <1>b, <2>2, EndIs DEF Start!Save, Start!Crash
  <2> QED BY <1>3, <2>1, <2>2
<1>4. CASE Start!Check(p)
  <2>1. call'[p].at = "memory"
    BY <1>4, <1>b, <1>d, EndIs DEF Start!Check, Start!At
  <2> QED BY <1>b, <2>1
<1>5. CASE Start!ReadMemory(p)
  <2> DEFINE earlier == Start!Unrecorded(w)
             todo == IF service THEN Start!Unconfirmed(w, earlier) ELSE <<>>
             next == IF service THEN "tell" ELSE "create"
  <2>1. PICK c \in Busy : call[p] = c
    BY <1>5, <1>c DEF Start!ReadMemory, Start!At
  <2>2. call' = [call EXCEPT ![p] = [c EXCEPT !.before = remembered[w], !.seen = progress[w], !.added = earlier,
                                              !.todo = todo, !.at = next]]
    BY <1>5, <2>1 DEF Start!ReadMemory
  <2>3. earlier \in Seq(Nat) /\ Start!Range(earlier) \cap Start!Range(remembered[w]) = {} /\ (Start!IsInjective(Start!Ids(w)) => Start!IsInjective(earlier))
    BY <1>0, UnrecordedIs
  <2>4. Start!IsInjective(Start!Ids(w))
    BY <1>0, IdsAre DEF Start!OrdinalsDiffer, Start!IsInjective
  <2>5. service => \A f \in Start!Range(earlier), x \in 1..Chunks : <<f, x>> \in progress[w] \/ <<f, x>> \in Start!Range(todo)
    BY <1>0, <2>3, UnconfirmedIs
  <2>6. progress[w] \subseteq told[w]
    BY <1>0 DEF MemoryInv
  <2> HIDE DEF todo, earlier, w, next
  <2>7. call'[p] = [c EXCEPT !.before = remembered[w], !.seen = progress[w], !.added = earlier, !.todo = todo, !.at = next]
    BY <2>2, Zenon DEF StartTypes
  <2>8. call'[p].before = remembered[w] /\ call'[p].added = earlier /\ call'[p].todo = todo /\ call'[p].at = next
    BY <2>7 DEF Busy
  <2>9. service => \A f \in Start!Range(earlier), x \in 1..Chunks : <<f, x>> \in told'[w] \/ <<f, x>> \in Start!Range(todo)
    BY <1>0, <2>5, <2>6
  <2> QED BY <1>0, <2>3, <2>4, <2>8, <2>9 DEF AddsInv, w, next
<1>6. CASE Start!Tell(p)
  <2>1. PICK c \in Busy : call[p] = c /\ call'[p].at = "confirm" /\ call'[p].added = c.added /\ call'[p].before = c.before
                             /\ call'[p].todo = c.todo
    BY <1>6, <1>d DEF Start!Tell, Start!At
  <2>2. Head(c.todo) \in told'[w] /\ c.at = "tell"
    BY <1>0, <1>6, <2>1 DEF Start!Tell, Start!At, StartTypes
  <2> QED BY <1>0, <2>1, <2>2 DEF AddsInv
<1>7. CASE Start!TellFails(p)
  <2>1. PICK c \in Busy : call[p] = c
    BY <1>7, <1>c DEF Start!TellFails, Start!At
  <2> DEFINE failed == Head(c.todo)
             others == Start!Without(c.todo, {failed[1]} \X (1..Chunks))
             added == Start!Without(c.added, {failed[1]})
  <2>2. \E rest \in {Tail(call[p].todo), Start!Without(call[p].todo, {Head(call[p].todo)[1]} \X (1..Chunks))} :
             call' = [call EXCEPT ![p] = [call[p] EXCEPT !.todo = rest,
                                            !.added = Start!Without(call[p].added, {Head(call[p].todo)[1]})]]
    BY <1>7, Zenon DEF Start!TellFails
  <2>3. PICK rest \in {Tail(c.todo), others} : call' = [call EXCEPT ![p] = [c EXCEPT !.todo = rest, !.added = added]]
    BY <2>1, <2>2, Zenon
  <2>4. c.at = "tell" /\ c.todo # <<>> /\ c.todo \in Seq(Piece) /\ c.added \in Seq(Nat)
    BY <1>7, <2>1 DEF Start!TellFails, Start!At, Busy
  <2>5. Start!Range(added) = Start!Range(c.added) \ {failed[1]} /\ (Start!IsInjective(c.added) => Start!IsInjective(added))
    BY <2>4, WithoutFacts
  <2>6. Start!Range(others) = Start!Range(c.todo) \ ({failed[1]} \X (1..Chunks))
    BY <2>4, WithoutFacts
  <2>7. \A x \in Start!Range(c.todo) : x = failed \/ x \in Start!Range(Tail(c.todo))
    BY <2>4, HeadAndTail
  <2> HIDE DEF failed, others, added
  <2>8. ASSUME NEW f \in Start!Range(added), NEW x \in 1..Chunks, <<f, x>> \in Start!Range(c.todo) PROVE <<f, x>> \in Start!Range(rest)
    <3>1. f # failed[1]
      BY <2>5
    <3>2. <<f, x>> \notin {failed[1]} \X (1..Chunks) /\ <<f, x>> # failed
      BY <3>1
    <3> QED BY <2>6, <2>7, <2>8, <3>2
  <2>9. call'[p] = [c EXCEPT !.todo = rest, !.added = added]
    BY <2>3, Zenon DEF StartTypes
  <2>10. call'[p].before = c.before /\ call'[p].added = added /\ call'[p].todo = rest /\ call'[p].at = "tell"
    BY <2>4, <2>9 DEF Busy
  <2>11. service => \A f \in Start!Range(added), x \in 1..Chunks : <<f, x>> \in told'[w] \/ <<f, x>> \in Start!Range(rest)
    BY <1>0, <2>1, <2>4, <2>5, <2>8 DEF AddsInv
  <2> QED BY <1>0, <2>1, <2>4, <2>5, <2>10, <2>11 DEF AddsInv
<1>8. CASE Start!Confirm(p)
  <2>1. PICK c \in Busy : call[p] = c /\ c.at = "confirm" /\ c.todo # <<>>
    BY <1>8, <1>c DEF Start!Confirm, Start!At, Prepared
  <2>2. PICK s : call' = [call EXCEPT ![p] = [call[p] EXCEPT !.seen = s, !.todo = Tail(call[p].todo), !.at = "tell"]]
    <3>1. ~Start!End(p)
      BY <1>b, EndIs
    <3> QED BY <1>8, <3>1, Zenon DEF Start!Confirm
  <2>3. call' = [call EXCEPT ![p] = [c EXCEPT !.seen = s, !.todo = Tail(c.todo), !.at = "tell"]]
    BY <2>1, <2>2, Zenon
  <2>4. call'[p] = [c EXCEPT !.seen = s, !.todo = Tail(c.todo), !.at = "tell"]
    BY <2>3, Zenon DEF StartTypes
  <2>5. call'[p].before = c.before /\ call'[p].added = c.added /\ call'[p].todo = Tail(c.todo) /\ call'[p].at = "tell"
    BY <2>4 DEF Busy
  <2>6. Head(c.todo) \in told[w]
    BY <2>1 DEF AddsInv
  <2>7. \A x \in Start!Range(c.todo) : x = Head(c.todo) \/ x \in Start!Range(Tail(c.todo))
    BY <2>1, HeadAndTail DEF Busy
  <2>8. service => \A f \in Start!Range(c.added), x \in 1..Chunks : <<f, x>> \in told'[w] \/ <<f, x>> \in Start!Range(Tail(c.todo))
    BY <1>0, <2>1, <2>6, <2>7 DEF AddsInv
  <2> QED BY <1>0, <2>1, <2>5, <2>8 DEF AddsInv
<1>9. CASE Start!AllTold(p)
  <2>1. PICK c \in Busy : call[p] = c /\ call'[p].at = "create" /\ call'[p].added = c.added /\ call'[p].before = c.before
                             /\ call'[p].todo = c.todo
    BY <1>9, <1>d DEF Start!AllTold, Start!At
  <2>2. c.at = "tell" /\ c.todo = <<>>
    BY <1>9, <2>1 DEF Start!AllTold, Start!At
  <2> QED BY <1>0, <2>1, <2>2 DEF AddsInv
<1>10. CASE Start!Lock(p) \/ Start!Claim(p)
  <2>2. PICK c \in Busy : call[p] = c /\ call'[p].at \in {"list", "save"} /\ call'[p].added = c.added
                             /\ call'[p].before = c.before /\ call'[p].todo = c.todo
    <3>1. CASE \E place \in {"list", "save"} : Start!Move(p, place) /\ ~Start!At(p, "idle")
      BY <1>d, <3>1
    <3>2. CASE call' = [call EXCEPT ![p] = [call[p] EXCEPT !.claimed = TRUE, !.at = "save"]] /\ ~Start!At(p, "idle")
      <4>1. PICK c \in Busy : call[p] = c
        BY <1>c, <3>2
      <4>2. call'[p] = [c EXCEPT !.claimed = TRUE, !.at = "save"]
        BY <3>2, <4>1 DEF StartTypes
      <4>3. call'[p].at = "save" /\ call'[p].added = c.added /\ call'[p].before = c.before /\ call'[p].todo = c.todo
        BY <4>2 DEF Busy
      <4> QED BY <4>1, <4>3
    <3> QED BY <1>10, <1>b, <3>1, <3>2, EndIs DEF Start!Lock, Start!Claim, Start!At
  <2>3. c.at \in {"create", "claim"}
    BY <1>10, <2>2 DEF Start!Lock, Start!Claim, Start!At
  <2> QED BY <1>0, <2>2, <2>3 DEF AddsInv
<1>11. CASE Start!ListRefs(p)
  <2>1. PICK c \in Busy : call[p] = c /\ c.at = "list"
    BY <1>11, <1>c DEF Start!ListRefs, Start!At
  <2>2. \E i : call' = [call EXCEPT ![p] = [call[p] EXCEPT !.id = i, !.at = "claim"]]
    BY <1>11, Zenon DEF Start!ListRefs
  <2>3. PICK i : call' = [call EXCEPT ![p] = [c EXCEPT !.id = i, !.at = "claim"]]
    BY <2>1, <2>2, Zenon
  <2>4. call'[p] = [c EXCEPT !.id = i, !.at = "claim"]
    BY <2>3, Zenon DEF StartTypes
  <2>5. call'[p].before = c.before /\ call'[p].added = c.added /\ call'[p].todo = c.todo /\ call'[p].at = "claim"
    BY <2>4 DEF Busy
  <2> QED BY <1>0, <2>1, <2>5 DEF AddsInv
<1> QED BY <1>1, <1>2, <1>3, <1>4, <1>5, <1>6, <1>7, <1>8, <1>9, <1>10, <1>11, WhoSteps DEF CallStep

\* The memory names a feature once, and only when it was told all of it.
LEMMA MemoryStep ==
    ASSUME StartConstants, StartTypes, Prepared, \A w \in Worktrees : MemoryInv(w), \A p \in Processes : AddsInv(p), [Start!Next]_Start!vars
    PROVE  \A w \in Worktrees : MemoryInv(w)'
<1> SUFFICES ASSUME NEW w \in Worktrees PROVE MemoryInv(w)'
  OBVIOUS
<1> USE DEF Start!prompts, Start!setting, Start!memory
<1>0. service' = service /\ told[w] \subseteq told'[w]
  BY PromptSteps, ToldGrows
\* Progress follows what was told.
<1>1. progress'[w] \subseteq told'[w]
  <2>1. ASSUME NEW p \in Processes, Start!Confirm(p) PROVE progress'[w] \subseteq told[w]
    <3>1. CASE progress' = progress
      BY <3>1 DEF MemoryInv
    <3>2. CASE progress' # progress
      <4>1. progress[home[p]] = call[p].seen
            /\ progress' = [progress EXCEPT ![home[p]] = call[p].seen \cup {Head(call[p].todo)}]
        BY <2>1, <3>2 DEF Start!Confirm
      <4>2. Head(call[p].todo) \in told[home[p]]
        BY <2>1 DEF Start!Confirm, Start!At, AddsInv
      <4> QED BY <4>1, <4>2 DEF StartTypes, MemoryInv
    <3> QED BY <3>1, <3>2
  <2>2. ASSUME NEW p \in Processes,
               Start!Call(p) \/ Start!Check(p) \/ Start!ReadMemory(p) \/ Start!Tell(p) \/ Start!TellFails(p)
               \/ Start!AllTold(p) \/ Start!Lock(p) \/ Start!ListRefs(p) \/ Start!Claim(p) \/ Start!Save(p) \/ Start!Crash(p)
        PROVE  progress' = progress
    BY <2>2 DEF Start!Call, Start!Check, Start!ReadMemory, Start!Tell, Start!TellFails, Start!AllTold, Start!Lock, Start!ListRefs, Start!Claim, Start!Save, Start!Crash
  <2>3. ASSUME NEW v \in Worktrees, Start!ReadPrompts(v) \/ Start!WritePrompts(v) \/ Start!Outdate(v) \/ Start!RemoveProjectRule(v)
        PROVE  progress' = progress
    BY <2>3 DEF Start!ReadPrompts, Start!WritePrompts, Start!Outdate, Start!RemoveProjectRule
  <2>4. UNCHANGED Start!vars => progress' = progress
    BY DEF Start!vars
  <2>5. progress' = progress => progress'[w] \subseteq told[w]
    BY DEF MemoryInv
  <2> QED BY <1>0, <2>1, <2>2, <2>3, <2>4, <2>5 DEF Start!Next
<1>a. remembered'[w] = remembered[w] => MemoryInv(w)'
  BY <1>0, <1>1 DEF MemoryInv
<1>2. ASSUME NEW p \in Processes, Grows(p, home[p]), w = home[p], call[p].added # <<>> PROVE MemoryInv(w)'
  <2>1. PICK c \in Busy : call[p] = c /\ c.at = "save" /\ remembered[w] = c.before /\ remembered'[w] = c.before \o c.added
    BY <1>2 DEF Grows, Start!Unchanged, StartTypes
  <2>2. /\ Start!IsInjective(c.added) /\ Start!Range(c.added) \cap Start!Range(c.before) = {}
        /\ service => c.todo = <<>> /\ \A f \in Start!Range(c.added), x \in 1..Chunks : <<f, x>> \in told[w] \/ <<f, x>> \in Start!Range(c.todo)
    BY <1>2, <2>1 DEF AddsInv
  <2>3. Start!Range(<<>>) = {}
    BY DEF Start!Range
  <2>4. Start!IsInjective(c.before) /\ c.before \in Seq(Nat) /\ c.added \in Seq(Nat)
    BY <2>1 DEF MemoryInv, Busy
  <2>5. Start!IsInjective(c.before \o c.added)
        /\ \A x \in Start!Range(c.before \o c.added) : x \in Start!Range(c.before) \/ x \in Start!Range(c.added)
    BY <2>2, <2>4, JoinIsInjective
  <2>6. service => \A f \in Start!Range(c.before \o c.added), x \in 1..Chunks : <<f, x>> \in told[w]
    BY <2>1, <2>2, <2>3, <2>5 DEF MemoryInv
  <2> QED BY <1>0, <1>1, <2>1, <2>5, <2>6 DEF MemoryInv
<1>3. ASSUME NEW p \in Processes, Grows(p, home[p]), w # home[p] \/ call[p].added = <<>> PROVE MemoryInv(w)'
  <2>1. remembered'[w] = remembered[w]
    BY <1>3 DEF Grows, StartTypes
  <2> QED BY <1>a, <2>1
<1>4. ASSUME NEW p \in Processes, Start!Save(p) PROVE MemoryInv(w)'
  BY <1>2, <1>3, <1>4, <1>a, SaveIs
<1>5. ASSUME NEW p \in Processes,
             Start!Call(p) \/ Start!Check(p) \/ Start!ReadMemory(p) \/ Start!Tell(p) \/ Start!TellFails(p) \/ Start!Confirm(p)
             \/ Start!AllTold(p) \/ Start!Lock(p) \/ Start!ListRefs(p) \/ Start!Claim(p) \/ Start!Crash(p)
      PROVE  remembered' = remembered
  BY <1>5 DEF Start!Call, Start!Check, Start!ReadMemory, Start!Tell, Start!TellFails, Start!Confirm, Start!AllTold, Start!Lock, Start!ListRefs, Start!Claim, Start!Crash
<1>6. ASSUME NEW v \in Worktrees, Start!ReadPrompts(v) \/ Start!WritePrompts(v) \/ Start!Outdate(v) \/ Start!RemoveProjectRule(v)
      PROVE  remembered' = remembered
  BY <1>6 DEF Start!ReadPrompts, Start!WritePrompts, Start!Outdate, Start!RemoveProjectRule
<1>7. UNCHANGED Start!vars => remembered' = remembered
  BY DEF Start!vars
<1> QED BY <1>4, <1>5, <1>6, <1>7, <1>a DEF Start!Next

-----------------------------------------------------------------------------
(* The invariant of starting features *)

StartInv ==
    /\ StartTypes /\ IdsReserved /\ Prepared /\ Holding /\ OwnNumber /\ SaversDiffer /\ CallsTake
    /\ Start!OneFeaturePerRequest /\ Start!OrdinalsDiffer
    /\ \A w \in Worktrees : PromptsInv(w) /\ RulesInv(w) /\ MemoryInv(w)
    /\ \A p \in Processes : AddsInv(p)

\* The invariant holds at first,
LEMMA StartInitially == ASSUME StartConstants, Start!Init PROVE StartInv
<1>1. StartTypes /\ IdsReserved /\ Prepared
  BY StartTypesInit
<1>2. \A p \in Processes : call[p] = Start!Idle /\ call[p].at = "idle"
  BY DEF Start!Init, Start!Idle
<1>3. Holding /\ OwnNumber /\ SaversDiffer /\ CallsTake /\ \A p \in Processes : AddsInv(p)
  BY <1>2 DEF Holding, OwnNumber, SaversDiffer, CallsTake, AddsInv
<1>4. \A w \in Worktrees :
         /\ features[w] = <<[id |-> 1, claimed |-> TRUE, request |-> 0, takes |-> {}, heard |-> {}, branch |-> FALSE, recent |-> FALSE]>>
         /\ said[w] = 0 /\ hookReads[w] = NoOne /\ prompts[w] = {} /\ rules[w] = {} /\ removed[w] = {}
         /\ remembered[w] = <<>> /\ progress[w] = {}
  BY DEF Start!Init
<1>5. \A w \in Worktrees : DOMAIN features[w] = {1} /\ features[w][1].takes = {} /\ features[w][1].heard = {}
                             /\ features[w][1].recent = FALSE
  BY <1>4
<1>6. Start!OneFeaturePerRequest /\ Start!OrdinalsDiffer
  BY <1>5 DEF Start!OneFeaturePerRequest, Start!OrdinalsDiffer
<1>7. ASSUME NEW w \in Worktrees PROVE PromptsInv(w) /\ RulesInv(w) /\ MemoryInv(w)
  <2>1. Start!Taken(w) = {}
    BY <1>1, <1>5, TakenIs
  <2>2. 1..0 = {} /\ Start!Range(<<>>) = {} /\ Start!IsInjective(<<>>)
    BY DEF Start!Range, Start!IsInjective
  <2>3. PromptsInv(w)
    BY <1>4, <1>5, <2>1, <2>2 DEF PromptsInv
  <2>4. RulesInv(w) /\ MemoryInv(w)
    BY <1>4, <1>5, <2>1, <2>2 DEF RulesInv, MemoryInv, Start!Gone
  <2> QED BY <2>3, <2>4
<1> QED BY <1>1, <1>3, <1>6, <1>7 DEF StartInv

\* every step preserves it,
LEMMA StartStep == ASSUME StartConstants, StartInv, [Start!Next]_Start!vars PROVE StartInv'
<1> USE DEF StartInv
<1>1. StartTypes' /\ IdsReserved' /\ Prepared'
  BY StartTypesStep DEF StartSteps
<1>2. Holding' /\ OwnNumber' /\ SaversDiffer' /\ CallsTake'
  BY HoldingStep, OwnNumberStep, SaversStep, CallsTakeStep
<1>3. Start!OneFeaturePerRequest' /\ Start!OrdinalsDiffer'
  BY OneFeatureStep, OrdinalsStep
<1>4. \A w \in Worktrees : PromptsInv(w)' /\ RulesInv(w)'
  BY PromptsStep
<1>5. (\A w \in Worktrees : MemoryInv(w)') /\ \A p \in Processes : AddsInv(p)'
  BY MemoryStep, AddsStep
<1> QED BY <1>1, <1>2, <1>3, <1>4, <1>5

\* and the properties follow.
LEMMA StartFollows ==
    ASSUME StartInv
    PROVE  Start!OneFeaturePerRequest /\ Start!PromptsTakenOnce /\ Start!OrdinalsDiffer /\ Start!MemoryComplete /\ Start!RulesFollowPrompts
<1>1. Start!PromptsTakenOnce
  BY DEF StartInv, PromptsInv, Start!PromptsTakenOnce
<1>2. Start!MemoryComplete
  BY DEF StartInv, MemoryInv, Start!MemoryComplete
<1>3. Start!RulesFollowPrompts
  BY DEF StartInv, RulesInv, Start!RulesFollowPrompts
<1> QED BY <1>1, <1>2, <1>3 DEF StartInv


-----------------------------------------------------------------------------
(* What the segments of a receipt add up to *)


\* What a rollout may hold.
UsageTimes == {1, 2, 3}
UsageModels == {"small", "large"}
UsageCounts == {[input |-> 0, cached |-> 0], [input |-> 2, cached |-> 0], [input |-> 2, cached |-> 2],
                [input |-> 3, cached |-> 2], [input |-> 5, cached |-> 1]}


Segment == [at : UsageTimes, model : UsageModels \cup {Absent}, delta : [input : Nat, cached : Nat]]

\* A sum is the last of the partial sums.
LEMMA SumIs ==
    ASSUME NEW m \in Nat, NEW s, DOMAIN s = 1..m
    PROVE  \E sums : SumsTo(sums, s, m) /\ Usage!Sum(s) = sums[1..m]
<1>0. IsFiniteSet(1..m)
  BY FS_Interval
<1>1. IsFiniteSet(1..m) /\ \A d \in SUBSET (1..m) : d # {} => Largest(d) \in d
  BY <1>0, LargestIn
<1> DEFINE the == CHOOSE sums : SumsSoFar(sums, s, SUBSET (1..m))
<1>2. SumsSoFar(the, s, SUBSET (1..m))
  <2>1. \E any : SumsSoFar(any, s, SUBSET (1..m))
    BY <1>1, SumsSoFarExist
  <2> QED BY <2>1
<1>3. Usage!Sum(s) = the[1..m]
  BY DEF Usage!Sum, Usage!MapThenFoldSet, SumsSoFar, Largest, Usage!Max
<1> QED BY <1>2, <1>3 DEF SumsTo

\* One more number adds to a sum.
LEMMA OneMoreSummand ==
    ASSUME NEW m \in Nat, NEW v, DOMAIN v = 1..m, NEW u, DOMAIN u = 1..(m + 1), Agree(u, v, m)
    PROVE  Usage!Sum(u) = Usage!Sum(v) + u[m + 1]
<1>1. PICK sums : SumsTo(sums, v, m) /\ Usage!Sum(v) = sums[1..m]
  BY SumIs
<1>2. PICK more : SumsTo(more, u, m + 1) /\ Usage!Sum(u) = more[1..(m + 1)]
  <2>1. m + 1 \in Nat
    OBVIOUS
  <2> QED BY <2>1, SumIs
<1> QED BY <1>1, <1>2, OneMoreNumber

\* The sum of nothing.
LEMMA SumOfNone == ASSUME NEW v, DOMAIN v = 1..0 PROVE Usage!Sum(v) = 0
<1>1. PICK sums : SumsTo(sums, v, 0) /\ Usage!Sum(v) = sums[1..0]
  BY SumIs
<1>2. sums[1..0] = 0
  BY <1>1, NextSum
<1> QED BY <1>1, <1>2

\* No segment counts nothing.
LEMMA NothingCounts == Usage!Inputs(<<>>) = 0 /\ Usage!Cached(<<>>) = 0
<1> DEFINE v == [i \in DOMAIN <<>> |-> <<>>[i].delta.input]
           u == [i \in DOMAIN <<>> |-> <<>>[i].delta.cached]
<1>1. DOMAIN v = 1..0 /\ DOMAIN u = 1..0
  OBVIOUS
<1>2. Usage!Inputs(<<>>) = Usage!Sum(v) /\ Usage!Cached(<<>>) = Usage!Sum(u)
  BY DEF Usage!Inputs, Usage!Cached
<1> HIDE DEF u, v
<1> QED BY <1>1, <1>2, SumOfNone

\* One more segment counts what it counts.
LEMMA OneMoreSegment ==
    ASSUME NEW s \in Seq(Segment), NEW x \in Segment
    PROVE  /\ Usage!Inputs(<<>>) = 0 /\ Usage!Cached(<<>>) = 0
           /\ Usage!Inputs(Append(s, x)) = Usage!Inputs(s) + x.delta.input
           /\ Usage!Cached(Append(s, x)) = Usage!Cached(s) + x.delta.cached
<1> DEFINE m == Len(s)
           t == Append(s, x)
<1>1. m \in Nat /\ DOMAIN s = 1..m /\ t \in Seq(Segment) /\ Len(t) = m + 1 /\ DOMAIN t = 1..(m + 1)
      /\ (\A i \in 1..m : t[i] = s[i]) /\ t[m + 1] = x /\ m + 1 \in Nat /\ m + 1 \in 1..(m + 1)
      /\ \A i \in 1..m : i \in 1..(m + 1)
  BY AppendProperties, LenProperties
<1> HIDE DEF m, t
<1>2. Usage!Inputs(t) = Usage!Inputs(s) + x.delta.input
  <2> DEFINE v == [i \in DOMAIN s |-> s[i].delta.input]
             u == [i \in DOMAIN t |-> t[i].delta.input]
  <2>1. DOMAIN v = 1..m /\ DOMAIN u = 1..(m + 1) /\ Agree(u, v, m) /\ u[m + 1] = x.delta.input
    BY <1>1 DEF Agree
  <2>2. Usage!Inputs(s) = Usage!Sum(v) /\ Usage!Inputs(t) = Usage!Sum(u)
    BY DEF Usage!Inputs
  <2> HIDE DEF u, v
  <2>3. Usage!Sum(u) = Usage!Sum(v) + u[m + 1]
    BY <1>1, <2>1, OneMoreSummand
  <2> QED BY <2>1, <2>2, <2>3
<1>3. Usage!Cached(t) = Usage!Cached(s) + x.delta.cached
  <2> DEFINE v == [i \in DOMAIN s |-> s[i].delta.cached]
             u == [i \in DOMAIN t |-> t[i].delta.cached]
  <2>1. DOMAIN v = 1..m /\ DOMAIN u = 1..(m + 1) /\ Agree(u, v, m) /\ u[m + 1] = x.delta.cached
    BY <1>1 DEF Agree
  <2>2. Usage!Cached(s) = Usage!Sum(v) /\ Usage!Cached(t) = Usage!Sum(u)
    BY DEF Usage!Cached
  <2> HIDE DEF u, v
  <2>3. Usage!Sum(u) = Usage!Sum(v) + u[m + 1]
    BY <1>1, <2>1, OneMoreSummand
  <2> QED BY <2>1, <2>2, <2>3
<1>4. Usage!Inputs(<<>>) = 0 /\ Usage!Cached(<<>>) = 0
  BY NothingCounts
<1> QED BY <1>2, <1>3, <1>4 DEF t


\* Absent is no count and no time.
UsageConstants ==
    /\ UsageCounts \subseteq [input : Nat, cached : Nat] /\ UsageTimes \subseteq Nat
    /\ Absent \notin UsageCounts /\ Absent \notin UsageTimes

UsageTypes ==
    /\ tokens \in UsageCounts \cup {Absent} /\ model \in UsageModels \cup {Absent} /\ segments \in Seq(Segment)
    /\ times = <<>> \/ \E first, last \in UsageTimes : times = <<first, last>>

\* What segments count together is what the last snapshot says; they are in the order of time.
UsageInv ==
    /\ UsageTypes
    /\ Usage!Inputs(segments) = Usage!Previous.input /\ Usage!Cached(segments) = Usage!Previous.cached
    /\ segments # <<>> => times # <<>>
    /\ Usage!Chronological

\* Segments are a list.
LEMMA SegmentsAre ==
    ASSUME UsageTypes
    PROVE  /\ Len(segments) \in Nat /\ DOMAIN segments = 1..Len(segments)
           /\ \A i \in DOMAIN segments : segments[i] \in Segment
           /\ segments # <<>> <=> Len(segments) # 0
<1>1. segments \in Seq(Segment)
  BY DEF UsageTypes
<1> QED BY <1>1, LenProperties, ElementOfSeq, EmptySeq

\* The two timestamps.
LEMMA LastOfTwo == ASSUME NEW first, NEW last PROVE <<first, last>>[2] = last /\ <<first, last>> # <<>> /\ Head(<<first, last>>) = first
<1>1. <<first, last>> \in Seq({first, last}) /\ Len(<<first, last>>) = 2
  OBVIOUS
<1> QED BY <1>1

\* A row with a timestamp moves the last one on.
LEMMA StampedIs ==
    ASSUME UsageConstants, UsageTypes, NEW at \in Usage!Stamps, Usage!Stamped(at)
    PROVE  /\ times' = <<>> \/ \E first, last \in UsageTimes : times' = <<first, last>>
           /\ times # <<>> => times' # <<>> /\ times[2] \in Nat /\ times'[2] \in Nat /\ times[2] <= times'[2]
           /\ at # Absent => at \in UsageTimes /\ times' # <<>> /\ times'[2] = at
<1>1. CASE at = Absent
  <2>1. times' = times
    BY <1>1 DEF Usage!Stamped
  <2>2. ASSUME NEW first \in UsageTimes, NEW last \in UsageTimes, times = <<first, last>> PROVE times[2] \in Nat
    BY <2>2, LastOfTwo DEF UsageConstants
  <2>3. times # <<>> => times[2] \in Nat
    BY <2>2 DEF UsageTypes
  <2> QED BY <1>1, <2>1, <2>3 DEF UsageTypes
<1>2. CASE at # Absent
  <2>1. at \in UsageTimes /\ at \in Nat
    BY <1>2 DEF Usage!Stamps, UsageTimes, UsageConstants
  <2>2. CASE times = <<>>
    BY <1>2, <2>1, <2>2, LastOfTwo DEF Usage!Stamped
  <2>3. ASSUME NEW first \in UsageTimes, NEW last \in UsageTimes, times = <<first, last>>
        PROVE  /\ times' = <<first, at>> /\ times'[2] = at /\ times[2] = last /\ last \in Nat /\ last <= at /\ times' # <<>>
    <3>1. times[2] = last /\ times # <<>> /\ Head(times) = first
      BY <2>3, LastOfTwo
    <3>2. times' = <<first, at>>
      BY <1>2, <3>1 DEF Usage!Stamped
    <3>3. times'[2] = at /\ times' # <<>>
      BY <3>2, LastOfTwo
    <3>4. last \in Nat /\ ~(at < last)
      BY <1>2, <3>1 DEF Usage!Stamped, Usage!Decreases, UsageConstants
    <3>5. last <= at
      BY <2>1, <3>4
    <3> QED BY <3>1, <3>2, <3>3, <3>4, <3>5
  <2> QED BY <2>1, <2>2, <2>3 DEF UsageTypes
<1> QED BY <1>1, <1>2

\* Nothing is counted at first.
LEMMA UsageStart == ASSUME UsageConstants, Usage!Init PROVE UsageInv
<1>1. segments = <<>> /\ times = <<>> /\ tokens = Absent /\ model = Absent
  BY DEF Usage!Init
<1>2. <<>> \in Seq(Segment) /\ DOMAIN <<>> = {}
  OBVIOUS
<1>3. Usage!Inputs(<<>>) = 0 /\ Usage!Cached(<<>>) = 0
  BY NothingCounts
<1>4. UsageTypes
  BY <1>1, <1>2 DEF UsageTypes
<1>5. Usage!Chronological
  BY <1>1, <1>2 DEF Usage!Chronological
<1>6. Usage!Previous = Usage!Zero
  BY <1>1 DEF Usage!Previous
<1> QED BY <1>1, <1>3, <1>4, <1>5, <1>6 DEF UsageInv, Usage!Zero

\* A row that counts nothing more.
LEMMA NothingCounted ==
    ASSUME UsageConstants, UsageInv, NEW at \in Usage!Stamps, Usage!Stamped(at), Usage!Previous' = Usage!Previous, segments' = segments,
           tokens' \in UsageCounts \cup {Absent}, model' \in UsageModels \cup {Absent}
    PROVE  UsageInv'
<1>1. UsageTypes
  BY DEF UsageInv
<1>2. /\ times' = <<>> \/ \E first, last \in UsageTimes : times' = <<first, last>>
      /\ times # <<>> => times' # <<>> /\ times[2] \in Nat /\ times'[2] \in Nat /\ times[2] <= times'[2]
  BY <1>1, StampedIs
<1>3. UsageTypes'
  BY <1>1, <1>2 DEF UsageTypes
<1>4. Usage!Chronological'
  <2>1. ASSUME NEW i \in DOMAIN segments PROVE segments[i].at <= times'[2]
    <3>0. segments[i] \in Segment /\ segments # <<>>
      BY <1>1, SegmentsAre
    <3>1. segments[i].at \in Nat /\ segments # <<>>
      BY <3>0 DEF Segment, UsageConstants
    <3>2. segments[i].at <= times[2]
      BY DEF UsageInv, Usage!Chronological
    <3>3. times # <<>>
      BY <3>1 DEF UsageInv
    <3> QED BY <1>2, <3>1, <3>2, <3>3
  <2> QED BY <2>1 DEF UsageInv, Usage!Chronological
<1>5. Usage!Inputs(segments') = Usage!Previous'.input /\ Usage!Cached(segments') = Usage!Previous'.cached
  BY DEF UsageInv
<1>6. segments' # <<>> => times' # <<>>
  BY <1>2 DEF UsageInv
<1>7. Usage!Inputs(segments)' = Usage!Inputs(segments') /\ Usage!Cached(segments)' = Usage!Cached(segments')
  OBVIOUS
<1> QED BY <1>3, <1>4, <1>5, <1>6, <1>7 DEF UsageInv

\* Every row keeps the sums.
LEMMA UsageStep == ASSUME UsageConstants, UsageInv, [Usage!Next]_Usage!vars PROVE UsageInv'
<1>0. UsageTypes
  BY DEF UsageInv
<1>a. ASSUME UNCHANGED <<times, model, tokens, segments>> PROVE UsageInv'
  <2>1. Usage!Previous' = Usage!Previous
    BY <1>a DEF Usage!Previous
  <2>2. Usage!Inputs(segments)' = Usage!Inputs(segments) /\ Usage!Cached(segments)' = Usage!Cached(segments)
    BY <1>a
  <2>3. UsageTypes' /\ Usage!Chronological'
    BY <1>a DEF UsageInv, UsageTypes, Usage!Chronological
  <2> QED BY <1>a, <2>1, <2>2, <2>3 DEF UsageInv
<1>1. ASSUME Usage!Disordered PROVE UsageInv'
  BY <1>1, <1>a DEF Usage!Disordered, Usage!Refuse
<1>2. ASSUME NEW at \in Usage!Stamps, NEW id \in {r1, r2}, NEW startedAt \in Usage!Stamps, Usage!Session(id, at, startedAt) PROVE UsageInv'
  <2>1. Usage!Previous' = Usage!Previous /\ Usage!Stamped(at) /\ UNCHANGED <<model, tokens, segments>>
    BY <1>2 DEF Usage!Session, Usage!Previous
  <2> QED BY <1>0, <2>1, NothingCounted DEF UsageTypes
<1>3. ASSUME NEW at \in Usage!Stamps, NEW m \in UsageModels, Usage!Context(m, at) PROVE UsageInv'
  <2>1. Usage!Previous' = Usage!Previous /\ Usage!Stamped(at) /\ model' = m /\ UNCHANGED <<tokens, segments>>
    BY <1>3 DEF Usage!Context, Usage!Previous
  <2> QED BY <1>0, <2>1, NothingCounted DEF UsageTypes
<1>4. ASSUME NEW at \in Usage!Stamps, NEW c \in UsageCounts, Usage!Tokens(c, at) PROVE UsageInv'
  <2>0. /\ Usage!Stamped(at) /\ at # Absent /\ Usage!Consistent(c) /\ tokens' = c /\ model' = model
        /\ segments' = IF Usage!Delta(c) = Usage!Zero THEN segments
                       ELSE Append(segments, [at |-> at, model |-> model, delta |-> Usage!Delta(c)])
    BY <1>4 DEF Usage!Tokens
  <2>1. c \in [input : Nat, cached : Nat] /\ Usage!Previous \in [input : Nat, cached : Nat] /\ Usage!Previous' = c
    <3>1. c # Absent /\ UsageCounts \subseteq [input : Nat, cached : Nat]
      BY DEF UsageConstants
    <3>2. Usage!Zero \in [input : Nat, cached : Nat]
      BY DEF Usage!Zero
    <3>3. Usage!Previous' = c
      BY <2>0, <3>1 DEF Usage!Previous
    <3>4. Usage!Previous \in [input : Nat, cached : Nat]
      BY <1>0, <3>1, <3>2 DEF Usage!Previous, UsageTypes
    <3> QED BY <3>1, <3>3, <3>4
  <2> DEFINE input == c.input - Usage!Previous.input
             cached == c.cached - Usage!Previous.cached
  <2>2. /\ input \in Nat /\ cached \in Nat /\ cached <= input
        /\ Usage!Previous.input + input = c.input /\ Usage!Previous.cached + cached = c.cached
    BY <2>0, <2>1 DEF Usage!Consistent
  <2>3. Usage!Delta(c) = [input |-> input, cached |-> cached]
    BY DEF Usage!Delta
  <2>4. tokens' \in UsageCounts \cup {Absent} /\ model' \in UsageModels \cup {Absent}
    BY <1>0, <2>0 DEF UsageTypes
  <2> HIDE DEF input, cached
  <2>5. CASE Usage!Delta(c) = Usage!Zero
    <3>1. input = 0 /\ cached = 0
      BY <2>3, <2>5 DEF Usage!Zero
    <3>2. Usage!Previous.input = c.input /\ Usage!Previous.cached = c.cached
      BY <2>1, <2>2, <3>1
    <3>3. Usage!Previous' = Usage!Previous
      BY <2>1, <3>2
    <3> QED BY <2>0, <2>4, <2>5, <3>3, NothingCounted
  <2>6. CASE Usage!Delta(c) # Usage!Zero
    <3> DEFINE x == [at |-> at, model |-> model, delta |-> [input |-> input, cached |-> cached]]
    <3>1. at \in UsageTimes /\ times' # <<>> /\ times'[2] = at /\ at \in Nat
      BY <1>0, <2>0, StampedIs DEF UsageConstants
    <3>2. x \in Segment /\ x.at = at /\ x.delta.input = input /\ x.delta.cached = cached
      BY <1>0, <2>2, <3>1 DEF Segment, UsageTypes
    <3>3. segments' = Append(segments, x)
      BY <2>0, <2>3, <2>6
    <3> HIDE DEF x
    <3>4. segments \in Seq(Segment)
      BY <1>0 DEF UsageTypes
    <3>5. Usage!Inputs(segments') = Usage!Inputs(segments) + input /\ Usage!Cached(segments') = Usage!Cached(segments) + cached
      BY <3>2, <3>3, <3>4, OneMoreSegment
    <3>6. Usage!Inputs(segments) = Usage!Previous.input /\ Usage!Cached(segments) = Usage!Previous.cached
      BY DEF UsageInv
    <3>7. Usage!Inputs(segments') = Usage!Previous'.input /\ Usage!Cached(segments') = Usage!Previous'.cached
      BY <2>1, <2>2, <3>5, <3>6
    <3> DEFINE m == Len(segments)
    <3>8. /\ m \in Nat /\ DOMAIN segments = 1..m /\ segments' \in Seq(Segment) /\ Len(segments') = m + 1
          /\ DOMAIN segments' = 1..(m + 1) /\ (\A i \in 1..m : segments'[i] = segments[i]) /\ segments'[m + 1] = x
      BY <3>2, <3>3, <3>4, AppendProperties, LenProperties
    <3> HIDE DEF m
    <3>9. UsageTypes'
      <4>1. times' = <<>> \/ \E first, last \in UsageTimes : times' = <<first, last>>
        BY <1>0, <2>0, StampedIs
      <4> QED BY <2>4, <3>8, <4>1 DEF UsageTypes
    <3>10. ASSUME NEW i \in 1..m
           PROVE  segments[i].at \in Nat /\ segments[i].at <= at /\ segments[i].delta.cached <= segments[i].delta.input
      <4>0. segments[i] \in Segment /\ segments # <<>>
        BY <1>0, <3>8, SegmentsAre
      <4>1. segments[i].at \in Nat /\ segments # <<>>
        BY <4>0 DEF Segment, UsageConstants
      <4>2. segments[i].at <= times[2] /\ segments[i].delta.cached <= segments[i].delta.input /\ times # <<>>
        BY <3>8, <4>1 DEF UsageInv, Usage!Chronological
      <4>3. times[2] \in Nat /\ times[2] <= at
        BY <1>0, <2>0, <3>1, <4>2, StampedIs
      <4> QED BY <3>1, <4>1, <4>2, <4>3
    <3>11. ASSUME NEW i \in 1..m, NEW j \in 1..m, i < j PROVE segments[i].at <= segments[j].at
      BY <3>8, <3>11 DEF UsageInv, Usage!Chronological
    <3>12. \A i \in 1..(m + 1) : i \in 1..m \/ i = m + 1
      BY <3>8
    <3>13. ASSUME NEW i \in 1..(m + 1)
           PROVE  segments'[i].at <= at /\ segments'[i].delta.cached <= segments'[i].delta.input
      <4>1. CASE i \in 1..m
        BY <3>8, <3>10, <4>1
      <4>2. CASE i = m + 1
        BY <2>2, <3>1, <3>2, <3>8, <4>2
      <4> QED BY <3>12, <4>1, <4>2
    <3>14. ASSUME NEW i \in 1..(m + 1), NEW j \in 1..(m + 1), i < j PROVE segments'[i].at <= segments'[j].at
      <4>1. i \in 1..m
        BY <3>8, <3>14
      <4>2. CASE j \in 1..m
        BY <3>8, <3>11, <3>14, <4>1, <4>2
      <4>3. CASE j = m + 1
        BY <3>2, <3>8, <3>10, <4>1, <4>3
      <4> QED BY <3>12, <4>2, <4>3
    <3>15. Usage!Chronological'
      BY <3>1, <3>8, <3>13, <3>14 DEF Usage!Chronological
    <3>16. Usage!Inputs(segments)' = Usage!Inputs(segments') /\ Usage!Cached(segments)' = Usage!Cached(segments')
      OBVIOUS
    <3> QED BY <3>1, <3>7, <3>9, <3>15, <3>16 DEF UsageInv
  <2> QED BY <2>5, <2>6
<1>5. ASSUME NEW at \in Usage!Stamps, NEW c \in UsageCounts, Usage!BadTokens(c, at) PROVE UsageInv'
  BY <1>5, <1>a DEF Usage!BadTokens, Usage!Refuse
<1>6. ASSUME UNCHANGED Usage!vars PROVE UsageInv'
  BY <1>6, <1>a DEF Usage!vars
<1> QED BY <1>1, <1>2, <1>3, <1>4, <1>5, <1>6 DEF Usage!Next, UsageTimes, UsageModels, UsageCounts

\* What a receipt says follows.
LEMMA UsageFollows == ASSUME UsageInv PROVE Usage!Reconciles /\ Usage!Chronological /\ Usage!ModelCoversTokens
<1>1. Usage!Chronological
  BY DEF UsageInv
<1>2. ASSUME Usage!Complete PROVE Usage!Inputs(Usage!Receipt.segments) = Usage!Receipt.total.input /\ Usage!Cached(Usage!Receipt.segments) = Usage!Receipt.total.cached
  <2>1. tokens # Absent /\ Usage!Previous = tokens
    BY <1>2 DEF Usage!Complete, Usage!Previous
  <2>2. Usage!Receipt.segments = segments /\ Usage!Receipt.total = tokens
    BY DEF Usage!Receipt
  <2> QED BY <2>1, <2>2 DEF UsageInv
<1>3. ASSUME NEW i \in DOMAIN segments, Usage!Receipt.model # Absent PROVE segments[i].model = Usage!Receipt.model
  <2> DEFINE used == {segments[k].model : k \in DOMAIN segments}
  <2>1. Usage!Receipt.model = Usage!ModelOf /\ segments # <<>>
    BY <1>3 DEF Usage!Receipt, UsageInv, UsageTypes
  <2>2. Cardinality(used) = 1 /\ Usage!ModelOf = CHOOSE m \in used : TRUE
    <3>1. Usage!Cardinality(used) = Cardinality(used)
      BY DEF Usage!Cardinality, Cardinality
    <3> QED BY <1>3, <2>1, <3>1 DEF Usage!ModelOf
  <2>3. IsFiniteSet(used)
    <3>1. IsFiniteSet(DOMAIN segments)
      BY SegmentsAre, FS_Interval DEF UsageInv
    <3> DEFINE f == [k \in DOMAIN segments |-> segments[k].model]
    <3>2. f \in Surjection(DOMAIN segments, used)
      BY DEF Surjection
    <3> QED BY <3>1, <3>2, FS_Surjection
  <2>4. PICK x : used = {x}
    <3> HIDE DEF used
    <3> QED BY <2>2, <2>3, FS_Singleton
  <2>5. segments[i].model \in used
    OBVIOUS
  <2> HIDE DEF used
  <2> QED BY <2>1, <2>2, <2>4, <2>5
<1> QED BY <1>1, <1>2, <1>3 DEF Usage!Reconciles, Usage!ModelCoversTokens

\* What a report is made from adds up: the ledger's grants, the log's records, each run once, and the
\* segments of a rollout's receipt, whichever processes die between two writes and whichever three
\* files are lost by hand.  Absent is no count, no timestamp and nothing that the ledger or the log
\* writes.
THEOREM ReportsAlwaysAddUp ==
    ASSUME AbsentIsNoRecord, AbsentIsNoEntry, Absent \notin UsageTimes \cup UsageCounts, LogConstants, MaxLosses <= 3
    PROVE  RecordsSpec => []ReportsAddUp
<1>0. UsageConstants
  BY DEF UsageConstants, UsageCounts, UsageTimes
<1>1. RecordsInit => IInv /\ LogInv /\ UsageInv
  BY <1>0, StoodStart, LogStart, UsageStart DEF RecordsInit
<1>2. [RecordsNext]_<<part, vars, logVars, usageVars, startVars, skillVars, rebaseVars, flipVars, scopeVars>>
      => [Next]_vars /\ [Log!Next]_(Log!vars) /\ [Usage!Next]_(Usage!vars)
  <2>1. UNCHANGED logVars => UNCHANGED Log!vars
    BY DEF logVars, Log!vars, Log!files
  <2>2. UNCHANGED usageVars => UNCHANGED Usage!vars
    BY DEF usageVars, Usage!vars
  <2> QED BY <2>1, <2>2 DEF RecordsNext, BudgetNext, LogNext, UsageNext, StartNext, SkillNext, RebaseNext, FlipNext,
                            ScopeNext
<1>3. IInv /\ LogInv /\ UsageInv /\ [Next]_vars /\ [Log!Next]_(Log!vars) /\ [Usage!Next]_(Usage!vars)
      => IInv' /\ LogInv' /\ UsageInv'
  <2>1. IInv /\ [Next]_vars => IInv'
    BY StoodStep, UpdatesStep DEF IInv
  <2>2. LogInv /\ [Log!Next]_(Log!vars) => LogInv'
    BY LogToldStep, LogUpdatesStep DEF LogInv
  <2> QED BY <1>0, <2>1, <2>2, UsageStep
<1>4. IInv /\ LogInv /\ UsageInv => ReportsAddUp
  BY <1>0, ReportFollows, LedgerFollows, LogReportFollows, LogCrashFollows, UsageFollows DEF ReportsAddUp, LogInv
<1> QED BY <1>1, <1>2, <1>3, <1>4, PTL DEF RecordsSpec

-----------------------------------------------------------------------------
(* Skills *)

Versions == [content : Contents, support : UNION {[cited -> Nat] : cited \in SUBSET Closable}, origin : {"seeded", "derived"}]
States == {"proposed", "admitted", "rejected", "retired", "orphaned"}
SkillRecords == [state : States, version : Versions, usefulness : Skill!Decisions \cup {"unmeasured"}]

\* Only drawn versions cite slices.
CitesWhenDrawn(record) == record.version.origin = "derived" \/ DOMAIN record.version.support = {}

SkillTypes ==
    /\ skill \in SkillRecords \cup {Absent} /\ transitions \in Seq(SkillRecords)
    /\ slice \in [Closable -> [closed : BOOLEAN, closure : Nat]]

\* A harmful evaluation is on record as a transition of its version.
HarmOnRecord == \A e \in evaluations : e.decision = "harmful" => Skill!JudgedHarmful(e.version)

SkillInv ==
    /\ SkillTypes /\ HarmOnRecord /\ Skill!HarmfulStaysOut
    /\ skill # Absent => \E n \in DOMAIN transitions : transitions[n] = skill
    /\ \A n \in DOMAIN transitions : CitesWhenDrawn(transitions[n])

\* Transitions are a list.
LEMMA HistoryIs ==
    ASSUME SkillTypes
    PROVE  Len(transitions) \in Nat /\ DOMAIN transitions = 1..Len(transitions) /\ \A n \in DOMAIN transitions : transitions[n] \in SkillRecords
<1>1. transitions \in Seq(SkillRecords)
  BY DEF SkillTypes
<1> QED BY <1>1, LenProperties, ElementOfSeq

\* One more transition.
LEMMA PersistIs ==
    ASSUME SkillTypes, NEW record \in SkillRecords, Skill!Persist(record)
    PROVE  /\ skill' = record /\ transitions' \in Seq(SkillRecords)
           /\ \A n \in DOMAIN transitions : n \in DOMAIN transitions' /\ transitions'[n] = transitions[n]
           /\ \E n \in DOMAIN transitions' : transitions'[n] = record
           /\ \A n \in DOMAIN transitions' : (n \in DOMAIN transitions /\ transitions'[n] = transitions[n]) \/ transitions'[n] = record
<1>0. skill' = record /\ transitions' = Append(transitions, record)
  BY DEF Skill!Persist
<1> DEFINE m == Len(transitions)
<1>1. /\ m \in Nat /\ DOMAIN transitions = 1..m /\ transitions' \in Seq(SkillRecords) /\ Len(transitions') = m + 1
      /\ (\A n \in 1..m : transitions'[n] = transitions[n]) /\ transitions'[m + 1] = record
  BY <1>0, HistoryIs, AppendProperties DEF SkillTypes
<1>2. DOMAIN transitions' = 1..(m + 1)
  BY <1>1, LenProperties
<1> HIDE DEF m
<1>3. m + 1 \in 1..(m + 1) /\ \A n \in 1..m : n \in 1..(m + 1)
  BY <1>1
<1>4. \A n \in 1..(m + 1) : n \in 1..m \/ n = m + 1
  BY <1>1
<1> QED BY <1>0, <1>1, <1>2, <1>3, <1>4

\* A transition whose version nobody found harmful, or that is not an admission, keeps the invariant.
LEMMA PersistStep ==
    ASSUME SkillInv, NEW record \in SkillRecords, Skill!Persist(record), CitesWhenDrawn(record), UNCHANGED <<evaluations, slice>>,
           record.state = "admitted" => ~Skill!JudgedHarmful(record.version) \/ (Skill!Is("admitted") /\ record.version = skill.version)
    PROVE  SkillInv'
<1>1. /\ skill' = record /\ transitions' \in Seq(SkillRecords)
      /\ \A n \in DOMAIN transitions : n \in DOMAIN transitions' /\ transitions'[n] = transitions[n]
      /\ \E n \in DOMAIN transitions' : transitions'[n] = record
      /\ \A n \in DOMAIN transitions' : (n \in DOMAIN transitions /\ transitions'[n] = transitions[n]) \/ transitions'[n] = record
  BY PersistIs DEF SkillInv
<1>2. SkillTypes'
  BY <1>1 DEF SkillInv, SkillTypes
<1>3. \A version : Skill!JudgedHarmful(version) => Skill!JudgedHarmful(version)'
  BY <1>1 DEF Skill!JudgedHarmful, Skill!Events
<1>4. HarmOnRecord'
  BY <1>3 DEF SkillInv, HarmOnRecord, Skill!JudgedHarmful, Skill!Events
<1>5. Skill!HarmfulStaysOut'
  <2> SUFFICES ASSUME record.state = "admitted", [version |-> record.version, decision |-> "harmful"] \in evaluations PROVE FALSE
    BY <1>1 DEF Skill!HarmfulStaysOut, Skill!Is
  <2>1. Skill!JudgedHarmful(record.version)
    BY DEF SkillInv, HarmOnRecord
  <2> QED BY <2>1 DEF SkillInv, Skill!HarmfulStaysOut
<1>6. \A n \in DOMAIN transitions' : CitesWhenDrawn(transitions'[n])
  BY <1>1 DEF SkillInv
<1>7. \E n \in DOMAIN transitions' : transitions'[n] = skill'
  BY <1>1
<1>8. (\A n \in DOMAIN transitions : CitesWhenDrawn(transitions[n]))'
  BY <1>6 DEF CitesWhenDrawn
<1> QED BY <1>2, <1>4, <1>5, <1>7, <1>8 DEF SkillInv

\* A skill there is cites slices only if it was drawn from them.
LEMMA SkillCites == ASSUME SkillInv, skill # Absent PROVE skill \in SkillRecords /\ CitesWhenDrawn(skill)
  BY DEF SkillInv, SkillTypes

\* Every transition keeps what was found harmful on record.
LEMMA SkillStep == ASSUME SkillInv, [Skill!Next]_Skill!vars PROVE SkillInv'
<1>0. SkillTypes /\ skill \in SkillRecords \cup {Absent}
  BY DEF SkillInv, SkillTypes
<1>a. ASSUME UNCHANGED <<skill, transitions, evaluations>>, SkillTypes' PROVE SkillInv'
  BY <1>a DEF SkillInv, HarmOnRecord, Skill!JudgedHarmful, Skill!Events, Skill!HarmfulStaysOut, Skill!Is, CitesWhenDrawn
\* A record whose state alone changes.
<1>b. ASSUME NEW record \in SkillRecords, CitesWhenDrawn(record), NEW state \in States, Skill!Persist([record EXCEPT !.state = state]),
             UNCHANGED <<evaluations, slice>>, state = "admitted" => ~Skill!JudgedHarmful(record.version)
      PROVE  SkillInv'
  <2> DEFINE new == [record EXCEPT !.state = state]
  <2>1. new \in SkillRecords /\ new.version = record.version /\ new.state = state
    BY DEF SkillRecords
  <2> HIDE DEF new
  <2>2. Skill!Persist(new) /\ CitesWhenDrawn(new)
    BY <1>b, <2>1 DEF new, CitesWhenDrawn
  <2> QED BY <1>b, <2>1, <2>2, PersistStep
<1>c. ASSUME NEW record \in SkillRecords, CitesWhenDrawn(record), NEW text, Skill!Admissible(record, text), Skill!Activate(record, text) PROVE SkillInv'
  <2>1. Skill!Persist([record EXCEPT !.state = "admitted"]) /\ UNCHANGED <<evaluations, slice>> /\ ~Skill!JudgedHarmful(record.version)
    BY <1>c DEF Skill!Activate, Skill!Admissible
  <2>2. PICK state \in States : state = "admitted"
    BY DEF States
  <2>3. Skill!Persist([record EXCEPT !.state = state])
    BY <2>1, <2>2
  <2> QED BY <1>b, <1>c, <2>1, <2>3
<1>1. ASSUME NEW text \in Contents, NEW cited \in SUBSET Closable, Skill!Propose(text, cited) PROVE SkillInv'
  <2> DEFINE version == [content |-> text, support |-> Skill!Snapshot(cited),
                         origin |-> IF cited = {} THEN "seeded" ELSE "derived"]
             new == [state |-> "proposed", version |-> version, usefulness |-> "unmeasured"]
  <2>1. Skill!Snapshot(cited) \in [cited -> Nat] /\ DOMAIN Skill!Snapshot(cited) = cited
    BY <1>0 DEF Skill!Snapshot, SkillTypes
  <2>2. version \in Versions
    BY <2>1 DEF Versions
  <2>3. cited # {} => version.origin = "derived"
    OBVIOUS
  <2>4. cited = {} => DOMAIN version.support = {}
    BY <2>1
  <2>5. new \in SkillRecords /\ new.state = "proposed" /\ new.version = version
    BY <2>2 DEF SkillRecords, States
  <2>6. Skill!Persist(new) /\ UNCHANGED <<evaluations, slice>>
    BY <1>1 DEF Skill!Propose
  <2> HIDE DEF version, new
  <2>7. CitesWhenDrawn(new)
    BY <2>3, <2>4, <2>5 DEF CitesWhenDrawn
  <2> QED BY <2>5, <2>6, <2>7, PersistStep
<1>2. ASSUME Skill!Admit PROVE SkillInv'
  <2>1. skill # Absent /\ Skill!Admissible(skill, skillFile) /\ Skill!Activate(skill, skillFile)
    BY <1>2 DEF Skill!Admit, Skill!Is
  <2> QED BY <1>c, <2>1, SkillCites
<1>3. ASSUME Skill!Reject \/ Skill!Retire \/ Skill!Reconcile PROVE SkillInv'
  <2>1. skill # Absent /\ UNCHANGED <<evaluations, slice>>
    BY <1>3 DEF Skill!Reject, Skill!Retire, Skill!Reconcile, Skill!Is
  <2>2. PICK state \in States : state # "admitted" /\ Skill!Persist([skill EXCEPT !.state = state])
    <3>1. CASE Skill!Reject
      BY <3>1 DEF Skill!Reject, States
    <3>2. CASE Skill!Retire
      BY <3>2 DEF Skill!Retire, States
    <3>3. CASE Skill!Reconcile
      BY <3>3 DEF Skill!Reconcile, States
    <3> QED BY <1>3, <3>1, <3>2, <3>3
  <2> QED BY <1>b, <2>1, <2>2, SkillCites
<1>4. ASSUME NEW version \in revisions, Skill!Rollback(version) PROVE SkillInv'
  <2> DEFINE admissions == {n \in Skill!Events(version) : transitions[n].state = "admitted"}
             last == CHOOSE n \in admissions : \A m \in admissions : m <= n
  <2>1. admissions # {} /\ Skill!Admissible(transitions[last], version.content) /\ Skill!Activate(transitions[last], version.content)
    BY <1>4 DEF Skill!Rollback
  <2>2. admissions \subseteq DOMAIN transitions
    BY DEF Skill!Events
  <2>3. \E n \in admissions : \A m \in admissions : m <= n
    <3>1. admissions \in SUBSET Nat /\ Len(transitions) \in Nat /\ \A n \in admissions : n <= Len(transitions)
      BY <1>0, <2>2, HistoryIs
    <3> HIDE DEF admissions
    <3> QED BY <2>1, <3>1, GreatestElement
  <2>4. last \in DOMAIN transitions
    BY <2>2, <2>3
  <2> HIDE DEF last
  <2>5. transitions[last] \in SkillRecords /\ CitesWhenDrawn(transitions[last])
    BY <1>0, <2>4, HistoryIs DEF SkillInv
  <2> QED BY <1>c, <2>1, <2>5
<1>5. ASSUME NEW decision \in Skill!Decisions, Skill!RecordEvaluation(decision) PROVE SkillInv'
  <2> DEFINE new == Skill!Assessed(decision)
  <2>1. /\ skill # Absent /\ Skill!Persist(new) /\ slice' = slice
        /\ evaluations' = evaluations \cup {[version |-> skill.version, decision |-> decision]}
    BY <1>5 DEF Skill!RecordEvaluation
  <2>2. PICK old \in SkillRecords : skill = old /\ CitesWhenDrawn(old)
    BY <2>1, SkillCites
  <2>3. new = [old EXCEPT !.usefulness = decision,
                          !.state = IF decision = "harmful" /\ old.state = "admitted" THEN "retired" ELSE old.state]
    BY <2>2, Zenon DEF Skill!Assessed
  <2>4. PICK state : state = IF decision = "harmful" /\ old.state = "admitted" THEN "retired" ELSE old.state
    OBVIOUS
  <2>5. state \in States /\ decision \in Skill!Decisions
    BY <2>4 DEF SkillRecords, States
  <2>6. new = [old EXCEPT !.usefulness = decision, !.state = state]
    BY <2>3, <2>4, Zenon
  <2> HIDE DEF new
  <2>7. new \in SkillRecords /\ new.version = old.version /\ new.state = state /\ new.usefulness = decision
    BY <2>5, <2>6 DEF SkillRecords
  <2>8. /\ skill' = new /\ transitions' \in Seq(SkillRecords)
        /\ \A n \in DOMAIN transitions : n \in DOMAIN transitions' /\ transitions'[n] = transitions[n]
        /\ \E n \in DOMAIN transitions' : transitions'[n] = new
        /\ \A n \in DOMAIN transitions' : (n \in DOMAIN transitions /\ transitions'[n] = transitions[n]) \/ transitions'[n] = new
    BY <1>0, <2>1, <2>7, PersistIs
  <2>9. SkillTypes'
    BY <1>0, <2>1, <2>7, <2>8 DEF SkillTypes
  <2>10. CitesWhenDrawn(new)
    BY <2>2, <2>7 DEF CitesWhenDrawn
  <2>11. (\A n \in DOMAIN transitions : CitesWhenDrawn(transitions[n]))'
    BY <2>8, <2>10 DEF SkillInv, CitesWhenDrawn
  <2>12. \A version : Skill!JudgedHarmful(version) => Skill!JudgedHarmful(version)'
    BY <2>8 DEF Skill!JudgedHarmful, Skill!Events
  <2>13. decision = "harmful" => Skill!JudgedHarmful(old.version)'
    BY <2>7, <2>8 DEF Skill!JudgedHarmful, Skill!Events
  <2>14. HarmOnRecord'
    <3> SUFFICES ASSUME NEW e \in evaluations', e.decision = "harmful" PROVE Skill!JudgedHarmful(e.version)'
      BY DEF HarmOnRecord
    <3>1. CASE e \in evaluations
      BY <2>12, <3>1 DEF SkillInv, HarmOnRecord
    <3>2. CASE e = [version |-> skill.version, decision |-> decision]
      BY <2>2, <2>13, <3>2
    <3> QED BY <2>1, <3>1, <3>2
  <2>15. Skill!HarmfulStaysOut'
    <3> SUFFICES ASSUME state = "admitted", [version |-> old.version, decision |-> "harmful"] \in evaluations' PROVE FALSE
      BY <2>7, <2>8 DEF Skill!HarmfulStaysOut, Skill!Is
    <3>1. old.state = "admitted" /\ decision # "harmful"
      BY <2>4
    <3>2. [version |-> old.version, decision |-> "harmful"] # [version |-> skill.version, decision |-> decision]
      BY <3>1
    <3> QED BY <2>1, <2>2, <3>1, <3>2 DEF SkillInv, Skill!HarmfulStaysOut, Skill!Is
  <2>16. \E n \in DOMAIN transitions' : transitions'[n] = skill'
    BY <2>8
  <2> QED BY <2>9, <2>11, <2>14, <2>15, <2>16 DEF SkillInv
<1>6. ASSUME NEW text \in Contents, Skill!Edit(text) PROVE SkillInv'
  <2>1. UNCHANGED <<skill, transitions, evaluations, slice>>
    BY <1>6 DEF Skill!Edit
  <2>2. SkillTypes'
    BY <1>0, <2>1 DEF SkillTypes
  <2> QED BY <1>a, <2>1, <2>2
<1>7. ASSUME Skill!ChangeWork PROVE SkillInv'
  <2>1. UNCHANGED <<skill, transitions, evaluations>>
    BY <1>7 DEF Skill!ChangeWork
  <2>2. slice' \in [Closable -> [closed : BOOLEAN, closure : Nat]]
    <3>1. ASSUME NEW s \in Closable, slice' = [slice EXCEPT ![s].closed = FALSE]
          PROVE  slice' \in [Closable -> [closed : BOOLEAN, closure : Nat]]
      BY <1>0, <3>1 DEF SkillTypes
    <3>2. ASSUME NEW s \in Closable, slice' = [slice EXCEPT ![s] = [closed |-> TRUE, closure |-> @.closure + 1]]
          PROVE  slice' \in [Closable -> [closed : BOOLEAN, closure : Nat]]
      BY <1>0, <3>2 DEF SkillTypes
    <3> QED BY <1>0, <1>7, <3>1, <3>2 DEF Skill!ChangeWork, SkillTypes
  <2>3. SkillTypes'
    BY <1>0, <2>1, <2>2 DEF SkillTypes
  <2> QED BY <1>a, <2>1, <2>3
<1>8. ASSUME UNCHANGED Skill!vars PROVE SkillInv'
  <2>1. UNCHANGED <<skill, transitions, evaluations, slice>>
    BY <1>8 DEF Skill!vars
  <2>2. SkillTypes'
    BY <1>0, <2>1 DEF SkillTypes
  <2> QED BY <1>a, <2>1, <2>2
<1> QED BY <1>1, <1>2, <1>3, <1>4, <1>5, <1>6, <1>7, <1>8 DEF Skill!Next

\* There is no skill at first.
LEMMA SkillInitially == ASSUME Skill!Init PROVE SkillInv
<1>1. transitions = <<>> /\ skill = Absent /\ evaluations = {} /\ slice \in [Closable -> [closed : BOOLEAN, closure : Nat]]
  BY DEF Skill!Init
<1>2. SkillTypes
  BY <1>1 DEF SkillTypes
<1> QED BY <1>1, <1>2 DEF SkillInv, HarmOnRecord, Skill!HarmfulStaysOut, Skill!Is

\* The properties follow.
LEMMA SkillFollows == ASSUME SkillInv PROVE Skill!HarmfulStaysOut /\ Skill!GivenAsAdmitted
<1>1. Skill!HarmfulStaysOut
  BY DEF SkillInv
<1>2. ASSUME Skill!Given # Absent PROVE Skill!GivenAsAdmitted
  <2>1. Skill!Is("admitted") /\ Skill!Supported(skill.version) /\ skillFile = skill.version.content /\ Skill!Given = skillFile
    BY <1>2 DEF Skill!Given
  <2>2. skill # Absent /\ skill.state = "admitted" /\ skill \in SkillRecords /\ CitesWhenDrawn(skill)
    BY <2>1, SkillCites DEF Skill!Is
  <2>3. \E n \in DOMAIN transitions : transitions[n].state = "admitted" /\ transitions[n].version.content = Skill!Given
    BY <2>1, <2>2 DEF SkillInv
  <2>4. ASSUME NEW s \in DOMAIN skill.version.support
        PROVE  ~draft /\ slice[s] = [closed |-> TRUE, closure |-> skill.version.support[s]]
    <3>1. skill.version.origin = "derived"
      BY <2>2 DEF CitesWhenDrawn
    <3>2. s \in Skill!StillSupported(skill.version)
      BY <2>1, <3>1 DEF Skill!Supported
    <3>3. slice[s].closed /\ ~draft /\ slice[s].closure = skill.version.support[s]
      BY <3>2 DEF Skill!StillSupported, Skill!Supports
    <3>4. s \in Closable
      BY <2>2 DEF SkillRecords, Versions
    <3>5. slice[s] \in [closed : BOOLEAN, closure : Nat]
      BY <3>4 DEF SkillInv, SkillTypes
    <3> QED BY <3>3, <3>5
  <2> QED BY <2>3, <2>4 DEF Skill!GivenAsAdmitted
<1>3. Skill!Given = Absent => Skill!GivenAsAdmitted
  BY DEF Skill!GivenAsAdmitted
<1> QED BY <1>1, <1>2, <1>3


\* However the calls, the host's hook, the service, crashes and the user's removals overlap: a request of
\* some length starts one feature, which takes each prompt once and leaves its rules in force until they
\* are removed, or stated again; a worktree never gives a number twice, nor do two where Git let both
\* reserve it; the memory holds a request as a whole; a skill is given as it was admitted, and never after
\* it was found harmful.  The marker of a lock nobody holds names no process.
THEOREM GivenAsItWasAgreed == ASSUME NoOne \notin Processes, Chunks \in Nat PROVE RecordsSpec => []GivenAsAgreed
<1>0. StartConstants
  BY DEF StartConstants
<1>1. RecordsInit => StartInv /\ SkillInv
  BY <1>0, StartInitially, SkillInitially DEF RecordsInit, StartInit
<1>2. [RecordsNext]_<<part, vars, logVars, usageVars, startVars, skillVars, rebaseVars, flipVars, scopeVars>>
      => [Start!Next]_(Start!vars) /\ [Skill!Next]_(Skill!vars)
  <2>1. UNCHANGED startVars => UNCHANGED Start!vars
    BY DEF startVars, Start!vars, Start!setting, Start!prompts, Start!memory
  <2>2. UNCHANGED skillVars => UNCHANGED Skill!vars
    BY DEF skillVars, Skill!vars
  <2> QED BY <2>1, <2>2 DEF RecordsNext, BudgetNext, LogNext, UsageNext, StartNext, SkillNext, RebaseNext, FlipNext,
                            ScopeNext
<1>3. StartInv /\ SkillInv /\ [Start!Next]_(Start!vars) /\ [Skill!Next]_(Skill!vars) => StartInv' /\ SkillInv'
  BY <1>0, StartStep, SkillStep
<1>4. StartInv /\ SkillInv => GivenAsAgreed
  BY <1>0, StartFollows, SkillFollows DEF GivenAsAgreed
<1> QED BY <1>1, <1>2, <1>3, <1>4, PTL DEF RecordsSpec
=============================================================================
