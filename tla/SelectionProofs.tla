--------------------------- MODULE SelectionProofs ---------------------------
(* Proofs about Selection for every finite set of agents, any rows, policies and  *)
(* tasks, and any number of changes of the registry: what sortCandidates returns, *)
(* that no dominated candidate is ranked above the one that dominates it, and     *)
(* that a result, a relaxed query and a refusal are justified.                    *)
EXTENDS Selection, FiniteSetTheorems, TLAPS

------------------------------------------------------------------------------
(* Ranks in a finite strict total order.                                          *)

Below(R, D, a) == {b \in D : <<b, a>> \in R}
IsStrictOrder(R, D) ==
  /\ \A a \in D : <<a, a>> \notin R
  /\ \A a, b, c \in D : <<a, b>> \in R /\ <<b, c>> \in R => <<a, c>> \in R
  /\ \A a, b \in D : a # b => <<a, b>> \in R \/ <<b, a>> \in R

\* Who comes earlier has fewer before it.
LEMMA BelowGrows ==
  ASSUME NEW D, IsFiniteSet(D), NEW R, IsStrictOrder(R, D),
         NEW a \in D, NEW b \in D, <<a, b>> \in R
  PROVE  Cardinality(Below(R, D, a)) < Cardinality(Below(R, D, b))
<1>1. Below(R, D, a) \subseteq Below(R, D, b)
  BY DEF Below, IsStrictOrder
<1>2. a \in Below(R, D, b) /\ a \notin Below(R, D, a)
  BY DEF Below, IsStrictOrder
<1>3. IsFiniteSet(Below(R, D, b)) /\ IsFiniteSet(Below(R, D, a))
  BY FS_Subset DEF Below
<1> QED BY <1>1, <1>2, <1>3, FS_Subset, FS_CardinalityType

\* Every place from the first to the last is somebody's.
LEMMA EveryPlaceTaken ==
  ASSUME NEW D, IsFiniteSet(D), NEW R, IsStrictOrder(R, D),
         NEW i \in 1..Cardinality(D)
  PROVE  \E a \in D : Cardinality(Below(R, D, a)) = i - 1
<1> DEFINE n == Cardinality(D)
           T == 0..(n - 1)
           f == [a \in D |-> Cardinality(Below(R, D, a))]
<1>1. n \in Nat /\ n >= 1
  BY FS_CardinalityType
<1> HIDE DEF n
<1>2. IsFiniteSet(T) /\ Cardinality(T) = n
  <2>1. 0 \in Int /\ n - 1 \in Int /\ ~(0 > n - 1) /\ (n - 1) - 0 + 1 = n
    BY <1>1
  <2> QED BY <2>1, FS_Interval
<1>3. ASSUME NEW a \in D PROVE f[a] \in T
  <2>1. Below(R, D, a) \in SUBSET D /\ Below(R, D, a) # D
    BY DEF Below, IsStrictOrder
  <2>2. IsFiniteSet(Below(R, D, a)) /\ Cardinality(Below(R, D, a)) < n
    BY <2>1, FS_Subset, FS_CardinalityType DEF n
  <2> QED BY <1>1, <2>2, FS_CardinalityType
<1>4. ASSUME NEW a \in D, NEW b \in D, f[a] = f[b] PROVE a = b
  <2>1. ASSUME a # b PROVE FALSE
    <3>1. <<a, b>> \in R \/ <<b, a>> \in R
      BY <2>1 DEF IsStrictOrder
    <3>2. f[a] < f[b] \/ f[b] < f[a]
      BY <3>1, BelowGrows
    <3>3. f[a] \in Int /\ f[b] \in Int
      BY <1>3
    <3> HIDE DEF f
    <3> QED BY <1>4, <3>2, <3>3
  <2> QED BY <2>1
<1>5. f \in Injection(D, T)
  BY <1>3, <1>4 DEF Injection, IsInjective
<1>6. f \in Surjection(D, T)
  BY <1>2, <1>5, FS_Injection DEF n
<1>7. i - 1 \in T
  BY <1>1 DEF n
<1>8. PICK a \in D : f[a] = i - 1
  <2> HIDE DEF f, T
  <2> QED BY <1>6, <1>7 DEF Surjection
<1> QED BY <1>8

\* A finite set of numbers that is not empty has a largest and a smallest one.
LEMMA Extremes ==
  ASSUME NEW S, S \subseteq Int, IsFiniteSet(S), S # {}
  PROVE  /\ Max(S) \in S /\ \A x \in S : Max(S) >= x
         /\ Min(S) \in S /\ \A x \in S : Min(S) <= x
<1> DEFINE n == Cardinality(S)
           Less == {p \in S \X S : p[1] < p[2]}
<1> HIDE DEF n
<1>1. n \in Nat /\ n >= 1
  BY FS_CardinalityType, FS_EmptySet DEF n
<1>2. IsStrictOrder(Less, S)
  BY DEF IsStrictOrder
<1>3. PICK a \in S : Cardinality(Below(Less, S, a)) = 0
  <2> HIDE DEF Less
  <2>1. 1 \in 1..Cardinality(S)
    BY <1>1 DEF n
  <2>2. \E a \in S : Cardinality(Below(Less, S, a)) = 1 - 1
    BY <1>2, <2>1, EveryPlaceTaken
  <2> QED BY <2>2
<1>4. \A x \in S : a <= x
  <2>1. IsFiniteSet(Below(Less, S, a))
    BY FS_Subset DEF Below
  <2>2. Below(Less, S, a) = {}
    BY <1>3, <2>1, FS_EmptySet
  <2>3. \A x \in S : <<x, a>> \notin Less
    BY <2>2 DEF Below
  <2>4. \A x \in S : ~(x < a)
    BY <2>3
  <2> QED BY <2>4
<1>5. PICK b \in S : Cardinality(Below(Less, S, b)) = n - 1
  <2> HIDE DEF Less
  <2>1. n \in 1..Cardinality(S)
    BY <1>1 DEF n
  <2> QED BY <1>2, <2>1, EveryPlaceTaken
<1>6. \A x \in S : b >= x
  <2>1. ASSUME NEW x \in S, x > b PROVE FALSE
    <3>1. <<b, x>> \in Less
      BY <2>1
    <3>2. Cardinality(Below(Less, S, x)) > n - 1
      BY <1>2, <1>5, <3>1, BelowGrows
    <3>3. Below(Less, S, x) \in SUBSET S /\ x \notin Below(Less, S, x)
      BY DEF Below
    <3>4. Cardinality(Below(Less, S, x)) \in Nat /\ Cardinality(Below(Less, S, x)) < n
      BY <3>3, FS_Subset, FS_CardinalityType DEF n
    <3> QED BY <1>1, <3>2, <3>4
  <2> QED BY <2>1
<1> QED BY <1>4, <1>6 DEF Max, Min

------------------------------------------------------------------------------
(* Scores.                                                                        *)

\* What scoreCandidates is given: rows of agents, whole weights and shares.
Field(c) == DOMAIN c \subseteq Agent /\ \A a \in DOMAIN c : c[a] \in Version
Weighed == policy \in Policy /\ outcome \in [Agent -> Int]

LEMMA RowNumbers ==
  ASSUME NEW v \in Version
  PROVE  Cost(v) \in Nat /\ v.latency \in Nat /\ Bonus(v) \in Nat
<1>1. v \in Row /\ IsFiniteSet(v.capabilities) /\ Estimate[v] \in Nat
  BY SelectionAssumption
<1>2. v.capabilities \ task.caps \in SUBSET v.capabilities
  OBVIOUS
<1>3. Bonus(v) \in Nat
  BY <1>1, <1>2, FS_Subset, FS_CardinalityType DEF Bonus
<1> QED BY <1>1, <1>3 DEF Row, Cost

\* The numbers a criterion compares: finitely many, and one for each candidate.
LEMMA FiniteImage ==
  ASSUME NEW D, IsFiniteSet(D), D # {}, NEW f \in [D -> Nat]
  PROVE  LET S == {f[a] : a \in D}
         IN  S \subseteq Int /\ IsFiniteSet(S) /\ S # {}
<1> DEFINE S == {f[a] : a \in D}
<1>1. f \in Surjection(D, S)
  BY DEF Surjection
<1> QED BY <1>1, FS_Surjection

LEMMA Measures ==
  ASSUME NEW c, Field(c), DOMAIN c # {}
  PROVE  /\ \A a \in DOMAIN c : Bonus(c[a]) \in Nat /\ Cost(c[a]) \in Nat /\ c[a].latency \in Nat
         /\ Bonuses(c) \subseteq Nat /\ Max(Bonuses(c)) \in Bonuses(c)
         /\ \A x \in Bonuses(c) : Max(Bonuses(c)) >= x
         /\ Costs(c) \subseteq Nat /\ Max(Costs(c)) \in Costs(c) /\ Min(Costs(c)) \in Costs(c)
         /\ Max(Costs(c)) >= Min(Costs(c))
         /\ Latencies(c) \subseteq Nat
         /\ Max(Latencies(c)) \in Latencies(c) /\ Min(Latencies(c)) \in Latencies(c)
         /\ Max(Latencies(c)) >= Min(Latencies(c))
<1> DEFINE D == DOMAIN c
           bonus == [a \in D |-> Bonus(c[a])]
           cost == [a \in D |-> Cost(c[a])]
           wait == [a \in D |-> c[a].latency]
<1>1. IsFiniteSet(D)
  BY FS_Subset, SelectionAssumption DEF Field
<1>2. \A a \in D : Bonus(c[a]) \in Nat /\ Cost(c[a]) \in Nat /\ c[a].latency \in Nat
  BY RowNumbers DEF Field
<1>3. bonus \in [D -> Nat] /\ cost \in [D -> Nat] /\ wait \in [D -> Nat]
  BY <1>2
<1>4. /\ Bonuses(c) = {bonus[a] : a \in D}
      /\ Costs(c) = {cost[a] : a \in D}
      /\ Latencies(c) = {wait[a] : a \in D}
  BY DEF Bonuses, Costs, Latencies
<1>5. Bonuses(c) \subseteq Nat /\ Costs(c) \subseteq Nat /\ Latencies(c) \subseteq Nat
  BY <1>3, <1>4
<1> HIDE DEF bonus, cost, wait, D
<1>6. IsFiniteSet(Bonuses(c)) /\ Bonuses(c) # {} /\ Bonuses(c) \subseteq Int
  BY <1>1, <1>3, <1>4, FiniteImage DEF D
<1>7. IsFiniteSet(Costs(c)) /\ Costs(c) # {} /\ Costs(c) \subseteq Int
  BY <1>1, <1>3, <1>4, FiniteImage DEF D
<1>8. IsFiniteSet(Latencies(c)) /\ Latencies(c) # {} /\ Latencies(c) \subseteq Int
  BY <1>1, <1>3, <1>4, FiniteImage DEF D
<1> QED BY <1>2, <1>5, <1>6, <1>7, <1>8, Extremes DEF D

LEMMA TimesKeepsOrder ==
  ASSUME NEW x \in Int, NEW y \in Int, NEW p \in Nat, x >= y
  PROVE  /\ x * p \in Int /\ y * p \in Int /\ x * p >= y * p
         /\ x > y /\ p > 0 => x * p > y * p
<1>1. PICK d \in Nat : x = y + d /\ (x > y <=> d > 0)
  <2> WITNESS x - y \in Nat
  <2> QED OBVIOUS
<1>2. x * p = y * p + d * p
  BY <1>1
<1>3. d * p \in Nat /\ (d > 0 /\ p > 0 => d * p > 0)
  OBVIOUS
<1>4. x * p \in Int /\ y * p \in Int
  OBVIOUS
<1> QED BY <1>1, <1>2, <1>3, <1>4

\* A range of 0 never divides: every divisor is at least 1.
LEMMA Divisors ==
  ASSUME NEW c, Field(c), DOMAIN c # {}
  PROVE  /\ BonusUnit(c) \in Nat \ {0}
         /\ Spread(Costs(c)) \in Nat \ {0}
         /\ Spread(Latencies(c)) \in Nat \ {0}
<1>1. \A n \in Nat : AtLeast1(n) \in Nat \ {0}
  BY DEF AtLeast1
<1>2. /\ Max(Bonuses(c)) \in Nat
      /\ Max(Costs(c)) - Min(Costs(c)) \in Nat
      /\ Max(Latencies(c)) - Min(Latencies(c)) \in Nat
  BY Measures
<1> QED BY <1>1, <1>2 DEF BonusUnit, Spread

\* Rounding a quotient down keeps the order, and a difference of at least the divisor.
LEMMA QuotientKeepsOrder ==
  ASSUME NEW x \in Int, NEW y \in Int, NEW d \in Nat \ {0}
  PROVE  /\ x \div d \in Int
         /\ x >= y => x \div d >= y \div d
         /\ x - y >= d => x \div d > y \div d
<1> DEFINE p == x \div d
           q == y \div d
<1>1. /\ p \in Int /\ d * p <= x /\ x < d * p + d
      /\ q \in Int /\ d * q <= y /\ y < d * q + d
  BY SMTT(30)
<1> HIDE DEF p, q
<1>2. /\ d * p \in Int /\ d * q \in Int
      /\ p < q => d * p + d <= d * q
      /\ p <= q => d * p <= d * q
  <2>1. d * p \in Int /\ d * q \in Int
    BY <1>1
  <2>2. p <= q => p * d <= q * d
    BY <1>1, TimesKeepsOrder
  <2>3. p < q => (p + 1) * d <= q * d
    BY <1>1, TimesKeepsOrder
  <2>4. (p + 1) * d = d * p + d /\ p * d = d * p /\ q * d = d * q
    BY <1>1
  <2> QED BY <2>1, <2>2, <2>3, <2>4
<1>3. /\ x >= y => p >= q
      /\ x - y >= d => p > q
  BY <1>1, <1>2
<1> QED BY <1>1, <1>3 DEF p, q

LEMMA ShareGrows ==
  ASSUME NEW n \in Int, NEW m \in Int, NEW d \in Nat \ {0}
  PROVE  /\ Share(n, d) \in Int
         /\ n >= m => Share(n, d) >= Share(m, d)
         /\ (n - m) * Precision >= d => Share(n, d) > Share(m, d)
<1>1. Precision \in Nat
  BY SelectionAssumption
<1>2. n * Precision \in Int /\ m * Precision \in Int
  BY <1>1
<1>3. n >= m => n * Precision >= m * Precision
  BY <1>1, TimesKeepsOrder
<1>4. (n - m) * Precision = n * Precision - m * Precision
  BY <1>1
<1> QED BY <1>2, <1>3, <1>4, QuotientKeepsOrder DEF Share

LEMMA CriteriaAreNumbers ==
  ASSUME NEW c, Field(c), NEW a \in DOMAIN c
  PROVE  CapabilityScore(c, a) \in Int /\ CostScore(c, a) \in Int /\ LatencyScore(c, a) \in Int
<1>1. /\ BonusUnit(c) \in Nat \ {0} /\ Spread(Costs(c)) \in Nat \ {0}
      /\ Spread(Latencies(c)) \in Nat \ {0} /\ Precision \in Int
  BY Divisors, SelectionAssumption
<1>2. /\ Bonus(c[a]) \in Int /\ Cost(c[a]) - Min(Costs(c)) \in Int
      /\ c[a].latency - Min(Latencies(c)) \in Int
  BY Measures
<1>3. /\ Share(Bonus(c[a]), BonusUnit(c)) \in Int
      /\ Share(Cost(c[a]) - Min(Costs(c)), Spread(Costs(c))) \in Int
      /\ Share(c[a].latency - Min(Latencies(c)), Spread(Latencies(c))) \in Int
  BY <1>1, <1>2, ShareGrows
<1> QED BY <1>1, <1>3 DEF CapabilityScore, CostScore, LatencyScore

LEMMA Weights ==
  ASSUME Weighed
  PROVE  /\ policy.weight_capability \in Int /\ policy.weight_cost \in Int
         /\ policy.weight_latency \in Int /\ policy.weight_outcome \in Int
BY SelectionAssumption DEF Weighed

LEMMA TermIsInt ==
  ASSUME NEW x \in Int, NEW w \in Int
  PROVE  x * w \in Int
OBVIOUS

LEMMA ScoreIsInt ==
  ASSUME NEW c, Field(c), Weighed, NEW a \in DOMAIN c
  PROVE  TotalScore(c, a) \in Int
<1> DEFINE t1 == CapabilityScore(c, a) * policy.weight_capability
           t2 == CostScore(c, a) * policy.weight_cost
           t3 == LatencyScore(c, a) * policy.weight_latency
           t4 == outcome[a] * policy.weight_outcome
<1>1. outcome[a] \in Int
  BY DEF Field, Weighed
<1>2. t1 \in Int /\ t2 \in Int /\ t3 \in Int /\ t4 \in Int
  BY <1>1, Weights, CriteriaAreNumbers, TermIsInt
<1>3. TotalScore(c, a) = t1 + 10 * (t2 + t3 + t4)
  BY DEF TotalScore
<1> HIDE DEF t1, t2, t3, t4
<1> QED BY <1>2, <1>3

\* The comparator of sortCandidates orders any candidates strictly and totally.
Order(c) == {p \in (DOMAIN c) \X (DOMAIN c) : Before(c, p[1], p[2])}
LEMMA ScoresOrder ==
  ASSUME NEW c, Field(c), Weighed
  PROVE  /\ \A a, b \in DOMAIN c : <<a, b>> \in Order(c) <=> Before(c, a, b)
         /\ IsStrictOrder(Order(c), DOMAIN c)
<1>1. \A a, b \in DOMAIN c : <<a, b>> \in Order(c) <=> Before(c, a, b)
  BY DEF Order
<1>2. \A a \in DOMAIN c : TotalScore(c, a) \in Int /\ a \in Int
  <2>1. \A a \in DOMAIN c : TotalScore(c, a) \in Int
    BY ScoreIsInt
  <2>2. \A a \in DOMAIN c : a \in Int
    <3>1. Agent \subseteq Nat
      BY SelectionAssumption
    <3>2. \A a \in Agent : a \in Int
      BY <3>1
    <3>3. DOMAIN c \subseteq Agent
      BY DEF Field
    <3> QED BY <3>2, <3>3, Zenon
  <2> QED BY <2>1, <2>2
<1>3. \A a \in DOMAIN c : ~Before(c, a, a)
  BY <1>2 DEF Before
<1>4. \A a, b, d \in DOMAIN c : Before(c, a, b) /\ Before(c, b, d) => Before(c, a, d)
  BY <1>2 DEF Before
<1>5. \A a, b \in DOMAIN c : a # b => Before(c, a, b) \/ Before(c, b, a)
  BY <1>2 DEF Before
<1> QED BY <1>1, <1>3, <1>4, <1>5 DEF IsStrictOrder

\* sortCandidates returns every candidate, once, and each one after those before it.
LEMMA SortedIsSorted ==
  ASSUME NEW c, Field(c), Weighed
  PROVE  /\ Sorted(c) \in [1..Cardinality(DOMAIN c) -> DOMAIN c]
         /\ DOMAIN Sorted(c) = 1..Cardinality(DOMAIN c)
         /\ Cardinality(DOMAIN c) \in Nat
         /\ \A i \in DOMAIN Sorted(c) : Sorted(c)[i] \in DOMAIN c
         /\ \A i, j \in DOMAIN Sorted(c) : i < j => Before(c, Sorted(c)[i], Sorted(c)[j])
         /\ DOMAIN c # {} => 1 \in DOMAIN Sorted(c)
<1> DEFINE D == DOMAIN c
           R == Order(c)
           n == Cardinality(D)
           Place(a) == Cardinality({b \in D : Before(c, b, a)})
<1>1. IsFiniteSet(D)
  BY FS_Subset, SelectionAssumption DEF Field
<1>2. n \in Nat /\ (D # {} => n >= 1)
  BY <1>1, FS_CardinalityType, FS_EmptySet
<1>3. IsStrictOrder(R, D)
  BY ScoresOrder
<1>4. \A a \in D : Place(a) = Cardinality(Below(R, D, a))
  <2>1. \A a \in D : {b \in D : Before(c, b, a)} = Below(R, D, a)
    BY ScoresOrder DEF Below
  <2> QED BY <2>1
<1>5. Sorted(c) = [i \in 1..n |-> CHOOSE a \in D : Place(a) = i - 1]
  BY Zenon DEF Sorted
<1>6. \A i \in 1..n : \E a \in D : Place(a) = i - 1
  <2>1. \A i \in 1..n : \E a \in D : Cardinality(Below(R, D, a)) = i - 1
    BY <1>1, <1>3, EveryPlaceTaken
  <2> HIDE DEF Place, n, D, R
  <2> QED BY <1>4, <2>1
<1>7. DOMAIN Sorted(c) = 1..n
  BY <1>5
<1>8. \A i \in 1..n : Sorted(c)[i] \in D /\ Place(Sorted(c)[i]) = i - 1
  <2> HIDE DEF Place, n, D
  <2> QED BY <1>5, <1>6
<1>9. Sorted(c) \in [1..n -> D]
  <2> HIDE DEF Place, n, D
  <2> QED BY <1>5, <1>6
<1>10. ASSUME NEW i \in 1..n, NEW j \in 1..n, i < j
      PROVE  Before(c, Sorted(c)[i], Sorted(c)[j])
  <2> DEFINE a == Sorted(c)[i]
             b == Sorted(c)[j]
  <2>1. a \in D /\ b \in D /\ Place(a) < Place(b)
    <3> HIDE DEF Place, n, D
    <3> QED BY <1>2, <1>8, <1>10
  <2>2. Place(a) \in Int /\ Place(b) \in Int
    <3> HIDE DEF Place, n, D
    <3> QED BY <1>2, <1>8
  <2>3. a # b /\ <<b, a>> \notin R
    <3>1. <<b, a>> \in R => Place(b) < Place(a)
      <4>1. <<b, a>> \in R => Cardinality(Below(R, D, b)) < Cardinality(Below(R, D, a))
        BY <1>1, <1>3, <2>1, BelowGrows
      <4> HIDE DEF Place, n, D, R, a, b
      <4> QED BY <1>4, <2>1, <4>1
    <3> HIDE DEF Place, R, a, b
    <3> QED BY <2>1, <2>2, <3>1
  <2>4. <<a, b>> \in R
    BY <1>3, <2>1, <2>3 DEF IsStrictOrder
  <2> QED BY <2>1, <2>4, ScoresOrder
<1>11. D # {} => 1 \in 1..n
  BY <1>2
<1> HIDE DEF n, D, Place, R
<1>12. /\ Sorted(c) \in [1..n -> D] /\ DOMAIN Sorted(c) = 1..n /\ n \in Nat
       /\ \A i \in DOMAIN Sorted(c) : Sorted(c)[i] \in D
       /\ \A i, j \in DOMAIN Sorted(c) : i < j => Before(c, Sorted(c)[i], Sorted(c)[j])
       /\ D # {} => 1 \in DOMAIN Sorted(c)
  BY <1>2, <1>7, <1>8, <1>9, <1>10, <1>11
<1> QED BY <1>12 DEF n, D

------------------------------------------------------------------------------
(* Domination.                                                                    *)

\* Each score is monotone in what it measures, in every branch, and strictly so in a
\* difference that its precision can tell.
LEMMA CapabilityGrows ==
  ASSUME NEW c, Field(c), NEW a \in DOMAIN c, NEW b \in DOMAIN c
  PROVE  /\ Bonus(c[a]) >= Bonus(c[b]) => CapabilityScore(c, a) >= CapabilityScore(c, b)
         /\ (Bonus(c[a]) - Bonus(c[b])) * Precision >= BonusUnit(c)
              => CapabilityScore(c, a) > CapabilityScore(c, b)
<1> DEFINE s(x) == Share(Bonus(c[x]), BonusUnit(c))
<1>1. /\ Bonus(c[a]) \in Nat /\ Bonus(c[b]) \in Nat /\ Max(Bonuses(c)) \in Nat
      /\ Max(Bonuses(c)) >= Bonus(c[a]) /\ Max(Bonuses(c)) >= Bonus(c[b])
  <2>1. Bonus(c[a]) \in Bonuses(c) /\ Bonus(c[b]) \in Bonuses(c)
    BY DEF Bonuses
  <2> QED BY <2>1, Measures
<1>2. BonusUnit(c) \in Nat \ {0} /\ Precision \in Nat
  BY Divisors, SelectionAssumption
<1>3. /\ s(a) \in Int /\ s(b) \in Int
      /\ Bonus(c[a]) >= Bonus(c[b]) => s(a) >= s(b)
      /\ (Bonus(c[a]) - Bonus(c[b])) * Precision >= BonusUnit(c) => s(a) > s(b)
  BY <1>1, <1>2, ShareGrows
<1>4. Max(Bonuses(c)) = 0 => ~((Bonus(c[a]) - Bonus(c[b])) * Precision >= BonusUnit(c))
  <2>1. Max(Bonuses(c)) = 0 => Bonus(c[a]) - Bonus(c[b]) = 0
    BY <1>1
  <2>2. 0 * Precision = 0
    BY <1>2
  <2> QED BY <1>2, <2>1, <2>2
<1>5. \A x \in {a, b} :
        CapabilityScore(c, x) = IF task.caps # {} THEN 6 * Precision + 4 * s(x)
                                ELSE IF Max(Bonuses(c)) = 0 THEN 10 * Precision ELSE 10 * s(x)
  BY DEF CapabilityScore
<1> HIDE DEF s
<1>6. CASE task.caps # {}
  BY <1>2, <1>3, <1>5, <1>6
<1>7. CASE task.caps = {} /\ Max(Bonuses(c)) = 0
  BY <1>2, <1>4, <1>5, <1>7
<1>8. CASE task.caps = {} /\ Max(Bonuses(c)) # 0
  BY <1>3, <1>5, <1>8
<1> QED BY <1>6, <1>7, <1>8

LEMMA CostGrows ==
  ASSUME NEW c, Field(c), NEW a \in DOMAIN c, NEW b \in DOMAIN c
  PROVE  /\ Cost(c[a]) <= Cost(c[b]) => CostScore(c, a) >= CostScore(c, b)
         /\ (Cost(c[b]) - Cost(c[a])) * Precision >= Spread(Costs(c))
              => CostScore(c, a) > CostScore(c, b)
<1> DEFINE above(x) == Cost(c[x]) - Min(Costs(c))
           s(x) == Share(above(x), Spread(Costs(c)))
<1>1. Spread(Costs(c)) \in Nat \ {0} /\ Precision \in Nat
  BY Divisors, SelectionAssumption
<1>2. /\ above(a) \in Int /\ above(b) \in Int
      /\ Cost(c[a]) <= Cost(c[b]) => above(b) >= above(a)
      /\ above(b) - above(a) = Cost(c[b]) - Cost(c[a])
  BY Measures
<1>3. \A x \in {a, b} : CostScore(c, x) = Precision - s(x)
  BY DEF CostScore
<1> HIDE DEF above
<1>4. /\ s(a) \in Int /\ s(b) \in Int
      /\ above(b) >= above(a) => s(b) >= s(a)
      /\ (above(b) - above(a)) * Precision >= Spread(Costs(c)) => s(b) > s(a)
  BY <1>1, <1>2, ShareGrows
<1> HIDE DEF s
<1> QED BY <1>1, <1>2, <1>3, <1>4

LEMMA LatencyGrows ==
  ASSUME NEW c, Field(c), NEW a \in DOMAIN c, NEW b \in DOMAIN c
  PROVE  /\ c[a].latency <= c[b].latency => LatencyScore(c, a) >= LatencyScore(c, b)
         /\ (c[b].latency - c[a].latency) * Precision >= Spread(Latencies(c))
              => LatencyScore(c, a) > LatencyScore(c, b)
<1> DEFINE above(x) == c[x].latency - Min(Latencies(c))
           s(x) == Share(above(x), Spread(Latencies(c)))
<1>1. Spread(Latencies(c)) \in Nat \ {0} /\ Precision \in Nat
  BY Divisors, SelectionAssumption
<1>2. /\ above(a) \in Int /\ above(b) \in Int
      /\ c[a].latency <= c[b].latency => above(b) >= above(a)
      /\ above(b) - above(a) = c[b].latency - c[a].latency
  BY Measures
<1>3. \A x \in {a, b} : LatencyScore(c, x) = Precision - s(x)
  BY DEF LatencyScore
<1> HIDE DEF above
<1>4. /\ s(a) \in Int /\ s(b) \in Int
      /\ above(b) >= above(a) => s(b) >= s(a)
      /\ (above(b) - above(a)) * Precision >= Spread(Latencies(c)) => s(b) > s(a)
  BY <1>1, <1>2, ShareGrows
<1> HIDE DEF s
<1> QED BY <1>1, <1>2, <1>3, <1>4

\* A candidate that is no worse than another one scores no less, and more if it is
\* clearly better.
LEMMA BetterScores ==
  ASSUME Field(candidates), Weighed, WellMeant,
         NEW a \in DOMAIN candidates, NEW b \in DOMAIN candidates, NoWorse(a, b)
  PROVE  /\ TotalScore(candidates, a) >= TotalScore(candidates, b)
         /\ ClearlyBetter(a, b) => TotalScore(candidates, a) > TotalScore(candidates, b)
<1> DEFINE c == candidates
           w1 == policy.weight_capability
           w2 == policy.weight_cost
           w3 == policy.weight_latency
           w4 == policy.weight_outcome
           x1 == CapabilityScore(c, a)
           x2 == CostScore(c, a)
           x3 == LatencyScore(c, a)
           x4 == outcome[a]
           y1 == CapabilityScore(c, b)
           y2 == CostScore(c, b)
           y3 == LatencyScore(c, b)
           y4 == outcome[b]
<1>1. w1 \in Nat /\ w2 \in Nat /\ w3 \in Nat /\ w4 \in Nat
  BY Weights DEF WellMeant
<1>2. x1 \in Int /\ x2 \in Int /\ x3 \in Int /\ y1 \in Int /\ y2 \in Int /\ y3 \in Int
  BY CriteriaAreNumbers
<1>3. x4 \in Int /\ y4 \in Int
  BY DEF Field, Weighed
<1>4. x1 >= y1 /\ x2 >= y2 /\ x3 >= y3 /\ x4 >= y4
  BY CapabilityGrows, CostGrows, LatencyGrows DEF NoWorse
<1>5. ClearlyBetter(a, b) => \/ x1 > y1 /\ w1 > 0
                             \/ x2 > y2 /\ w2 > 0
                             \/ x3 > y3 /\ w3 > 0
                             \/ x4 > y4 /\ w4 > 0
  BY CapabilityGrows, CostGrows, LatencyGrows DEF ClearlyBetter
<1>6. /\ TotalScore(c, a) = x1 * w1 + 10 * (x2 * w2 + x3 * w3 + x4 * w4)
      /\ TotalScore(c, b) = y1 * w1 + 10 * (y2 * w2 + y3 * w3 + y4 * w4)
  BY DEF TotalScore
<1> HIDE DEF w1, w2, w3, w4, x1, x2, x3, x4, y1, y2, y3, y4
<1>7. /\ x1 * w1 \in Int /\ y1 * w1 \in Int /\ x1 * w1 >= y1 * w1
      /\ x1 > y1 /\ w1 > 0 => x1 * w1 > y1 * w1
  BY <1>1, <1>2, <1>4, TimesKeepsOrder
<1>8. /\ x2 * w2 \in Int /\ y2 * w2 \in Int /\ x2 * w2 >= y2 * w2
      /\ x2 > y2 /\ w2 > 0 => x2 * w2 > y2 * w2
  BY <1>1, <1>2, <1>4, TimesKeepsOrder
<1>9. /\ x3 * w3 \in Int /\ y3 * w3 \in Int /\ x3 * w3 >= y3 * w3
      /\ x3 > y3 /\ w3 > 0 => x3 * w3 > y3 * w3
  BY <1>1, <1>2, <1>4, TimesKeepsOrder
<1>10. /\ x4 * w4 \in Int /\ y4 * w4 \in Int /\ x4 * w4 >= y4 * w4
       /\ x4 > y4 /\ w4 > 0 => x4 * w4 > y4 * w4
  BY <1>1, <1>3, <1>4, TimesKeepsOrder
<1> DEFINE X1 == x1 * w1
           X2 == x2 * w2
           X3 == x3 * w3
           X4 == x4 * w4
           Y1 == y1 * w1
           Y2 == y2 * w2
           Y3 == y3 * w3
           Y4 == y4 * w4
<1>11. /\ X1 \in Int /\ X2 \in Int /\ X3 \in Int /\ X4 \in Int
       /\ Y1 \in Int /\ Y2 \in Int /\ Y3 \in Int /\ Y4 \in Int
       /\ X1 >= Y1 /\ X2 >= Y2 /\ X3 >= Y3 /\ X4 >= Y4
       /\ ClearlyBetter(a, b) => X1 > Y1 \/ X2 > Y2 \/ X3 > Y3 \/ X4 > Y4
       /\ TotalScore(c, a) = X1 + 10 * (X2 + X3 + X4)
       /\ TotalScore(c, b) = Y1 + 10 * (Y2 + Y3 + Y4)
  BY <1>5, <1>6, <1>7, <1>8, <1>9, <1>10
<1> HIDE DEF X1, X2, X3, X4, Y1, Y2, Y3, Y4
<1>12. /\ TotalScore(c, a) >= TotalScore(c, b)
       /\ ClearlyBetter(a, b) => TotalScore(c, a) > TotalScore(c, b)
  <2> HIDE DEF c
  <2> QED BY <1>11
<1> QED BY <1>12

------------------------------------------------------------------------------
(* select(), step by step.                                                        *)

NoPolicy == [fallback_strategy |-> "ABORT"]
Loaded == {"filter", "outcome", "rank", "again", "done"}

TypeOK ==
  /\ registry \in [Agent -> Version]
  /\ pc \in {"idle", "policy", "error", "failed"} \cup Loaded
  /\ pc # "idle" => task \in Task
  /\ policy \in Policy \cup {NoPolicy} /\ (pc \in Loaded => policy \in Policy)
  /\ Field(candidates)
  /\ outcome \in [Agent -> Int]
  /\ fallback \in Fallbacks
  /\ everFit \in [Fallbacks -> SUBSET Agent] /\ dearth \in BOOLEAN

\* The histories hold at least what the registry says now.
HistoryIsKept ==
  pc # "idle" => /\ \A f \in Fallbacks : Filtered(registry, task, f) \subseteq everFit[f]
                 /\ Filtered(registry, task, "NONE") = {} => dearth

\* The list that is returned: candidates, each one before those with a lower place.
Ordered ==
  /\ ranked \in Seq(DOMAIN candidates) /\ ranked # <<>>
  /\ \A i, j \in 1..Len(ranked) : i < j => Before(candidates, ranked[i], ranked[j])

\* What each step of select has established for the ones after it.
Progress ==
  /\ DOMAIN candidates \subseteq everFit[fallback]
  /\ pc \in {"idle", "policy"} => DOMAIN candidates = {} /\ policy = NoPolicy
  /\ pc \in {"idle", "policy", "filter", "outcome", "again"} => fallback = "NONE"
  /\ pc \in {"outcome", "rank"} /\ fallback = "NONE" /\ DOMAIN candidates = {} => dearth
  /\ pc = "again" => dearth /\ policy.fallback_strategy # "ABORT"
  /\ fallback # "NONE" => dearth
  /\ pc = "error" /\ policy.fallback_strategy # "ABORT" => dearth
  /\ pc = "done" => Ordered

SelectInv == TypeOK /\ HistoryIsKept /\ Progress

LEMMA InitInv == Init => SelectInv
<1> SUFFICES ASSUME Init PROVE SelectInv
  OBVIOUS
<1>1. DOMAIN candidates = {}
  BY DEF Init
<1>2. outcome \in [Agent -> Int]
  BY SelectionAssumption DEF Init, Neutral
<1>3. Field(candidates)
  BY <1>1 DEF Field
<1>4. TypeOK
  BY <1>2, <1>3 DEF Init, TypeOK, NoPolicy, Loaded, Fallbacks
<1>5. HistoryIsKept
  BY DEF Init, HistoryIsKept
<1>6. Progress
  BY <1>1 DEF Init, Progress, NoPolicy
<1> QED BY <1>4, <1>5, <1>6 DEF SelectInv

\* The rows a query keeps are a field.
LEMMA QueryField ==
  ASSUME NEW f, registry \in [Agent -> Version], Query(f)
  PROVE  Field(candidates)' /\ DOMAIN candidates' = Filtered(registry, task, f)
BY DEF Query, Field, Filtered

\* The order stands on what select has read.
LEMMA BeforeFrame ==
  ASSUME UNCHANGED <<task, policy, candidates, outcome>>
  PROVE  \A x, y : Before(candidates, x, y)' <=> Before(candidates, x, y)
<1> DEFINE c == candidates
<1>1. /\ Bonuses(c)' = Bonuses(c) /\ Costs(c)' = Costs(c) /\ Latencies(c)' = Latencies(c)
  BY DEF Bonuses, Bonus, Costs, Latencies
<1>2. BonusUnit(c)' = BonusUnit(c)
  BY <1>1 DEF BonusUnit
<1>3. \A x : /\ CapabilityScore(c, x)' = CapabilityScore(c, x)
             /\ CostScore(c, x)' = CostScore(c, x)
             /\ LatencyScore(c, x)' = LatencyScore(c, x)
  BY <1>1, <1>2 DEF CapabilityScore, CostScore, LatencyScore, Bonus
<1>4. \A x : TotalScore(c, x)' = TotalScore(c, x)
  BY <1>1, <1>2, <1>3 DEF TotalScore
<1>5. \A x, y : Before(c, x, y)' <=> Before(c, x, y)
  BY <1>4 DEF Before
<1> QED BY <1>5

LEMMA OrderFrame ==
  ASSUME Ordered, UNCHANGED <<task, policy, candidates, outcome, ranked>>
  PROVE  Ordered'
BY BeforeFrame DEF Ordered

\* Nothing of a running select moves when the registry does, and the histories follow it.
LEMMA ChangeInv ==
  ASSUME SelectInv, NEW a \in Agent, Change(a)
  PROVE  SelectInv'
<1>1. registry' \in [Agent -> Version]
  BY DEF SelectInv, TypeOK, Change
<1>2. UNCHANGED selectVars /\ pc # "idle" /\ NoteFits(registry')
  BY DEF Change
<1>3. \A f \in Fallbacks : /\ Filtered(registry', task, f) \subseteq everFit'[f]
                           /\ everFit[f] \subseteq everFit'[f]
  BY <1>2, Zenon DEF NoteFits
<1>4. /\ dearth' \in BOOLEAN /\ (dearth => dearth')
      /\ Filtered(registry', task, "NONE") = {} => dearth'
  BY <1>2 DEF NoteFits, SelectInv, TypeOK
<1>5. everFit' \in [Fallbacks -> SUBSET Agent]
  BY <1>2 DEF NoteFits, SelectInv, TypeOK, Filtered
<1>6. TypeOK'
  BY <1>1, <1>2, <1>4, <1>5 DEF SelectInv, TypeOK, selectVars, Field, Loaded
<1>7. HistoryIsKept'
  BY <1>2, <1>3, <1>4 DEF HistoryIsKept, selectVars, Filtered
<1>8. pc' = "done" => Ordered'
  BY <1>2, OrderFrame DEF selectVars, SelectInv, Progress
<1>9. Progress'
  BY <1>2, <1>3, <1>4, <1>8 DEF SelectInv, TypeOK, Progress, selectVars
<1> QED BY <1>6, <1>7, <1>9 DEF SelectInv

\* The histories during a step of select itself.
LEMMA HistoryFrame ==
  ASSUME HistoryIsKept, pc # "idle", UNCHANGED <<registry, task, everFit, dearth>>
  PROVE  HistoryIsKept'
BY DEF HistoryIsKept, Filtered

LEMMA BeginInv ==
  ASSUME SelectInv, NEW t \in Task, Begin(t)
  PROVE  SelectInv'
<1>1. /\ pc = "idle" /\ pc' = "policy" /\ task' = t
      /\ everFit' = [f \in Fallbacks |-> Filtered(registry, t, f)]
      /\ dearth' = (Filtered(registry, t, "NONE") = {})
      /\ UNCHANGED <<registry, policy, candidates, outcome, fallback, ranked>>
  BY DEF Begin
<1>2. TypeOK'
  BY <1>1 DEF SelectInv, TypeOK, Field, Loaded, Filtered
<1>3. HistoryIsKept'
  BY <1>1 DEF HistoryIsKept, Filtered
<1>4. Progress'
  BY <1>1 DEF SelectInv, Progress
<1> QED BY <1>2, <1>3, <1>4 DEF SelectInv

LEMMA LoadPolicyInv ==
  ASSUME SelectInv, LoadPolicy
  PROVE  SelectInv'
<1>1. /\ pc = "policy"
      /\ \/ policy' \in Policy /\ pc' = "filter"
         \/ pc' \in {"error", "failed"} /\ UNCHANGED policy
      /\ UNCHANGED <<registry, task, candidates, outcome, fallback, ranked, everFit, dearth>>
  BY DEF LoadPolicy
<1>2. TypeOK'
  BY <1>1 DEF SelectInv, TypeOK, Field, Loaded
<1>3. HistoryIsKept'
  BY <1>1, HistoryFrame DEF SelectInv
<1>4. Progress'
  BY <1>1 DEF SelectInv, Progress, NoPolicy
<1> QED BY <1>2, <1>3, <1>4 DEF SelectInv

\* A query that fails ends select and leaves everything else as it was.
LEMMA FailedInv ==
  ASSUME SelectInv, pc # "idle", Failed
  PROVE  SelectInv'
<1>1. /\ pc' = "failed"
      /\ UNCHANGED <<registry, task, policy, candidates, outcome, fallback, ranked, everFit, dearth>>
  BY DEF Failed
<1>2. TypeOK'
  BY <1>1 DEF SelectInv, TypeOK, Field, Loaded
<1>3. HistoryIsKept'
  BY <1>1, HistoryFrame DEF SelectInv
<1>4. Progress'
  BY <1>1 DEF SelectInv, Progress
<1> QED BY <1>2, <1>3, <1>4 DEF SelectInv

LEMMA FilterInv ==
  ASSUME SelectInv, Filter
  PROVE  SelectInv'
<1> SUFFICES ASSUME ~Failed PROVE SelectInv'
  BY FailedInv DEF Filter
<1>1. /\ pc = "filter" /\ pc' \in {"outcome", "rank"} /\ Query("NONE")
      /\ UNCHANGED <<registry, task, policy, outcome, fallback, ranked, everFit, dearth>>
  BY DEF Filter, Query
<1>2. Field(candidates)' /\ DOMAIN candidates' = Filtered(registry, task, "NONE")
  BY <1>1, QueryField DEF SelectInv, TypeOK
<1>3. fallback = "NONE"
  BY <1>1 DEF SelectInv, Progress
<1>4. TypeOK'
  BY <1>1, <1>2 DEF SelectInv, TypeOK, Loaded
<1>5. HistoryIsKept'
  BY <1>1, HistoryFrame DEF SelectInv
<1>6. /\ Filtered(registry, task, "NONE") \subseteq everFit["NONE"]
      /\ Filtered(registry, task, "NONE") = {} => dearth
  BY <1>1 DEF SelectInv, HistoryIsKept, Fallbacks
<1>7. Progress'
  BY <1>1, <1>2, <1>3, <1>6 DEF SelectInv, Progress
<1> QED BY <1>4, <1>5, <1>7 DEF SelectInv

LEMMA LoadOutcomesInv ==
  ASSUME SelectInv, LoadOutcomes
  PROVE  SelectInv'
<1>1. /\ pc = "outcome" /\ pc' = "rank"
      /\ \/ outcome' \in OutcomeScores
         \/ outcome' = [a \in Agent |-> Neutral]
      /\ UNCHANGED <<registry, task, policy, candidates, fallback, ranked, everFit, dearth>>
  BY DEF LoadOutcomes
<1>2. outcome' \in [Agent -> Int]
  <2>1. Outcomes \subseteq Int /\ Precision \in Int
    BY SelectionAssumption
  <2>2. Neutral \in Int
    BY <2>1 DEF Neutral
  <2>3. CASE outcome' \in OutcomeScores
    BY <2>1, <2>3 DEF OutcomeScores
  <2>4. CASE outcome' = [a \in Agent |-> Neutral]
    BY <2>2, <2>4
  <2> QED BY <1>1, <2>3, <2>4
<1>3. TypeOK'
  BY <1>1, <1>2 DEF SelectInv, TypeOK, Field, Loaded
<1>4. HistoryIsKept'
  BY <1>1, HistoryFrame DEF SelectInv
<1>5. Progress'
  BY <1>1 DEF SelectInv, Progress
<1> QED BY <1>3, <1>4, <1>5 DEF SelectInv

LEMMA RankInv ==
  ASSUME SelectInv, Rank
  PROVE  SelectInv'
<1>1. /\ pc = "rank" /\ ranked' = Sorted(candidates)
      /\ UNCHANGED <<registry, task, policy, candidates, outcome, fallback, everFit, dearth>>
  BY DEF Rank
<1>2. \/ pc' = "again" /\ WantsFallback
      \/ pc' = "error" /\ ~WantsFallback /\ DOMAIN candidates = {}
      \/ pc' = "done" /\ DOMAIN candidates # {}
  BY DEF Rank, WantsFallback
<1>3. Field(candidates) /\ Weighed
  BY <1>1 DEF SelectInv, TypeOK, Weighed, Loaded
<1>4. TypeOK'
  BY <1>1, <1>2 DEF SelectInv, TypeOK, Field, Loaded
<1>5. HistoryIsKept'
  BY <1>1, HistoryFrame DEF SelectInv
<1>6. ASSUME pc' = "done" PROVE Ordered'
  <2> DEFINE n == Cardinality(DOMAIN candidates)
  <2>1. DOMAIN candidates # {}
    BY <1>2, <1>6
  <2>2. /\ DOMAIN ranked' = 1..n /\ n \in Nat /\ 1 \in 1..n
        /\ \A i \in 1..n : ranked'[i] \in DOMAIN candidates
        /\ \A i, j \in 1..n : i < j => Before(candidates, ranked'[i], ranked'[j])
    BY <1>1, <1>3, <2>1, SortedIsSorted
  <2>3. ranked' \in [1..n -> DOMAIN candidates]
    BY <1>1, <1>3, SortedIsSorted
  <2> HIDE DEF n
  <2>4. ranked' \in Seq(DOMAIN candidates) /\ Len(ranked') = n /\ ranked' # <<>>
    BY <2>2, <2>3
  <2>5. \A x, y : Before(candidates, x, y)' <=> Before(candidates, x, y)
    BY <1>1, BeforeFrame
  <2> QED BY <1>1, <2>2, <2>4, <2>5 DEF Ordered
<1>7. Progress'
  BY <1>1, <1>2, <1>6 DEF SelectInv, Progress, WantsFallback, NoPolicy
<1> QED BY <1>4, <1>5, <1>7 DEF SelectInv

LEMMA FilterAgainInv ==
  ASSUME SelectInv, FilterAgain
  PROVE  SelectInv'
<1> DEFINE f == policy.fallback_strategy
<1> SUFFICES ASSUME ~Failed PROVE SelectInv'
  BY FailedInv DEF FilterAgain
<1>1. /\ pc = "again" /\ pc' = "rank" /\ fallback' = f /\ Query(f)
      /\ UNCHANGED <<registry, task, policy, outcome, ranked, everFit, dearth>>
  BY DEF FilterAgain, Query
<1>2. Field(candidates)' /\ DOMAIN candidates' = Filtered(registry, task, f)
  BY <1>1, QueryField DEF SelectInv, TypeOK
<1>3. f \in Fallbacks /\ f # "NONE"
  BY <1>1, SelectionAssumption DEF SelectInv, TypeOK, Loaded, Progress, Strategies, Fallbacks
<1>4. TypeOK'
  BY <1>1, <1>2, <1>3 DEF SelectInv, TypeOK, Loaded
<1>5. HistoryIsKept'
  BY <1>1, HistoryFrame DEF SelectInv
<1>6. Filtered(registry, task, f) \subseteq everFit[f] /\ dearth
  BY <1>1, <1>3 DEF SelectInv, HistoryIsKept, Progress
<1>7. Progress'
  BY <1>1, <1>2, <1>3, <1>6 DEF Progress
<1> QED BY <1>4, <1>5, <1>7 DEF SelectInv

LEMMA SelectStep == SelectInv /\ [Next]_vars => SelectInv'
<1> SUFFICES ASSUME SelectInv, [Next]_vars PROVE SelectInv'
  OBVIOUS
<1>1. CASE \E a \in Agent : Change(a)
  BY <1>1, ChangeInv
<1>2. CASE \E t \in Task : Begin(t)
  BY <1>2, BeginInv
<1>3. CASE LoadPolicy
  BY <1>3, LoadPolicyInv
<1>4. CASE Filter
  BY <1>4, FilterInv
<1>5. CASE LoadOutcomes
  BY <1>5, LoadOutcomesInv
<1>6. CASE Rank
  BY <1>6, RankInv
<1>7. CASE FilterAgain
  BY <1>7, FilterAgainInv
<1>8. CASE UNCHANGED vars
  <2>1. UNCHANGED <<registry, selectVars, everFit, dearth>>
    BY <1>8 DEF vars
  <2>2. TypeOK' /\ HistoryIsKept'
    BY <2>1 DEF SelectInv, TypeOK, HistoryIsKept, selectVars, Field, Loaded, Filtered
  <2>3. pc' = "done" => Ordered'
    BY <2>1, OrderFrame DEF SelectInv, Progress, selectVars
  <2>4. Progress'
    BY <2>1, <2>3 DEF SelectInv, Progress, selectVars
  <2> QED BY <2>2, <2>4 DEF SelectInv
<1> QED BY <1>1, <1>2, <1>3, <1>4, <1>5, <1>6, <1>7, <1>8 DEF Next

LEMMA SelectInvHolds == Spec => []SelectInv
<1> QED BY InitInv, SelectStep, PTL DEF Spec

------------------------------------------------------------------------------
\* The registry keeps rows, the running select its candidates' rows, a policy of the
\* table and whole scores, whatever is registered, changed or disabled meanwhile.
THEOREM SelectionTypeCorrect == Spec => []TypeOK
<1>1. SelectInv => TypeOK
  BY DEF SelectInv
<1> QED BY <1>1, SelectInvHolds, PTL

\* sortCandidates of what scoreCandidates returns: under a policy without negative
\* weights nobody comes before a candidate that is no worse in anything, but by its id
\* where that one is not clearly better, for any field, estimates and precision.
THEOREM NobodyIsOvertakenHolds == Spec => []NobodyIsOvertaken
<1>1. ASSUME SelectInv PROVE NobodyIsOvertaken
  <2> SUFFICES ASSUME pc = "done", WellMeant,
                      NEW i \in 1..Len(ranked), NEW j \in 1..Len(ranked), i < j,
                      NoWorse(ranked[j], ranked[i])
               PROVE  ranked[i] < ranked[j] /\ ~ClearlyBetter(ranked[j], ranked[i])
    BY DEF NobodyIsOvertaken
  <2> DEFINE a == ranked[i]
             b == ranked[j]
  <2>1. Field(candidates) /\ Weighed /\ Ordered
    BY <1>1 DEF SelectInv, TypeOK, Weighed, Loaded, Progress
  <2>2. a \in DOMAIN candidates /\ b \in DOMAIN candidates /\ Before(candidates, a, b)
    BY <2>1 DEF Ordered
  <2>3. /\ TotalScore(candidates, b) >= TotalScore(candidates, a)
        /\ ClearlyBetter(b, a) => TotalScore(candidates, b) > TotalScore(candidates, a)
    BY <2>1, <2>2, BetterScores
  <2>4. TotalScore(candidates, a) \in Int /\ TotalScore(candidates, b) \in Int
    BY <2>1, <2>2, ScoreIsInt
  <2> HIDE DEF a, b
  <2>5. a < b /\ ~ClearlyBetter(b, a)
    BY <2>2, <2>3, <2>4 DEF Before
  <2> QED BY <2>5 DEF a, b
<1> QED BY <1>1, SelectInvHolds, PTL

\* select(): a result names agents that could take the task at some moment since it
\* began; a relaxed query, and a refusal under a policy with a fallback, mean that at
\* some such moment nobody could.
THEOREM SelectionIsJustifiedHolds == Spec => []SelectionIsJustified
<1>1. ASSUME SelectInv PROVE SelectionIsJustified
  <2>1. pc = "done" => /\ ranked # <<>>
                       /\ \A i \in 1..Len(ranked) : ranked[i] \in everFit[fallback]
    BY <1>1 DEF SelectInv, Progress, Ordered
  <2> QED BY <1>1, <2>1 DEF SelectInv, Progress, SelectionIsJustified
<1> QED BY <1>1, SelectInvHolds, PTL
==============================================================================
