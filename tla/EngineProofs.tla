---------------------------- MODULE EngineProofs ----------------------------
(***************************************************************************)
(* What the operators of Engine.tla compute, for evidence of any length.   *)
(* The library's induction theorems have an operator for a parameter; here *)
(* induction is over a set of naturals (Induction), which follows from the *)
(* well-foundedness of Nat: the least natural outside the set would have a *)
(* predecessor in it.  A recursive function is what its definition says it *)
(* is as soon as some function is (Iterates).                              *)
(***************************************************************************)
EXTENDS Engine, FiniteSetTheorems, SequenceTheorems, WellFoundedInduction, TLAPS

----------------------------------------------------------------------------
(* Induction and recursion.                                                *)

\* A set of naturals that is not empty has a least element.
LEMMA LeastNatural ==
  ASSUME NEW T \in SUBSET Nat, T # {}
  PROVE  \E m \in T : \A k \in T : m <= k
<1> DEFINE R == {ss \in Nat \X Nat : ss[1] < ss[2]}
<1>1. IsWellFoundedOn(R, Nat)
  BY NatLessThanWellFounded DEF OpToRel
<1>2. PICK m \in T : \A k \in T : <<k, m>> \notin R
  <2> HIDE DEF R
  <2>1. QED
    BY <1>1, WFMin
<1>3. \A k \in T : m <= k
  <2>1. TAKE k \in T
  <2>2. <<k, m>> \in Nat \X Nat /\ <<k, m>>[1] = k /\ <<k, m>>[2] = m
    OBVIOUS
  <2>3. ~(k < m)
    BY <1>2, <2>2
  <2>4. QED
    BY <2>3
<1>4. QED
  BY <1>3

\* A set with 0, and with each number up to n whose predecessor it has, has all.
LEMMA Induction ==
  ASSUME NEW n \in Nat, NEW T, 0 \in T, \A i \in 1..n : i - 1 \in T => i \in T
  PROVE  0..n \subseteq T
<1> DEFINE Missing == {i \in 0..n : i \notin T}
<1>1. SUFFICES ASSUME Missing # {} PROVE FALSE
  OBVIOUS
<1>2. PICK m \in Missing : \A k \in Missing : m <= k
  <2>1. Missing \in SUBSET Nat
    OBVIOUS
  <2> HIDE DEF Missing
  <2>2. QED
    BY <1>1, <2>1, LeastNatural
<1>3. m \in 1..n
  BY <1>2
<1>4. m - 1 \in 0..n /\ ~(m <= m - 1)
  BY <1>3
<1>5. m - 1 \in T
  BY <1>2, <1>4
<1>6. QED
  BY <1>2, <1>3, <1>5

\* A step can be iterated n times from a.
Steps(n, S, step) == step \in [(1..n) \X S -> S]
Iteration(f, n, S, a, step) ==
  /\ f \in [0..n -> S] /\ f[0] = a
  /\ \A i \in 1..n : f[i] = step[<<i, f[i - 1]>>]

LEMMA Iterates ==
  ASSUME NEW n \in Nat, NEW S, NEW a \in S, NEW step, Steps(n, S, step)
  PROVE  \E f : Iteration(f, n, S, a, step)
<1> USE DEF Steps
<1> DEFINE Iterated(k, f) == f[0] = a /\ \A i \in 1..k : f[i] = step[<<i, f[i - 1]>>]
           T == {k \in 0..n : \E f \in [0..k -> S] : Iterated(k, f)}
<1>1. 0 \in T
  <2> DEFINE f == [i \in 0..0 |-> a]
  <2>1. f \in [0..0 -> S] /\ Iterated(0, f)
    OBVIOUS
  <2> HIDE DEF f, Iterated
  <2>2. QED
    BY <2>1
<1>2. ASSUME NEW k \in 1..n, k - 1 \in T PROVE k \in T
  <2>1. PICK f \in [0..k - 1 -> S] : Iterated(k - 1, f)
    BY <1>2
  <2> DEFINE g == [i \in 0..k |-> IF i = k THEN step[<<k, f[k - 1]>>] ELSE f[i]]
  <2>2. k - 1 \in 0..k - 1 /\ f \in [0..k - 1 -> S]
    BY <2>1
  <2>8. f[k - 1] \in S
    BY <2>2
  <2>3. step[<<k, f[k - 1]>>] \in S
    <3>1. <<k, f[k - 1]>> \in (1..n) \X S
      BY <2>8
    <3>2. QED
      BY <3>1
  <2>4. g \in [0..k -> S]
    <3>1. \A i \in 0..k : i # k => i \in 0..k - 1
      OBVIOUS
    <3>2. QED
      BY <2>2, <2>3, <3>1
  <2>5. Iterated(k, g)
    <3>1. g[0] = a
      BY <2>1
    <3>2. \A i \in 1..k : g[i] = step[<<i, g[i - 1]>>]
      <4>1. TAKE i \in 1..k
      <4>2. CASE i = k
        <5>1. g[i - 1] = f[k - 1]
          BY <4>2
        <5>2. g[k] = step[<<k, f[k - 1]>>]
          OBVIOUS
        <5>3. QED
          BY <4>2, <5>1, <5>2
      <4>3. CASE i # k
        <5>1. i \in 1..k - 1 /\ g[i] = f[i] /\ g[i - 1] = f[i - 1]
          BY <4>3
        <5>2. QED
          BY <5>1, <2>1
      <4>4. QED
        BY <4>2, <4>3
    <3>3. QED
      BY <3>1, <3>2
  <2> HIDE DEF g, Iterated
  <2>6. QED
    BY <2>4, <2>5, <1>2
<1>3. n \in T
  <2> HIDE DEF T
  <2>1. QED
    BY <1>1, <1>2, Induction
<1>4. PICK f \in [0..n -> S] : Iterated(n, f)
  BY <1>3
<1>5. Iteration(f, n, S, a, step)
  BY <1>4 DEF Iteration
<1>6. QED
  BY <1>5

----------------------------------------------------------------------------
(* The score.                                                              *)

\* A list of checks.
Checks(checks) ==
  /\ checks = [i \in 1..Len(checks) |-> checks[i]] /\ Len(checks) \in Nat
  /\ \A i \in 1..Len(checks) : checks[i].observed \in BOOLEAN /\ checks[i].attributed \in BOOLEAN

Upto(checks, k) == Cardinality({i \in 1..k : checks[i].observed})
AttributedUpto(checks, k) == Cardinality({i \in 1..k : checks[i].attributed})

LEMMA PointsForm ==
  ASSUME NEW check, check.observed \in BOOLEAN, check.attributed \in BOOLEAN
  PROVE  /\ Points(check) \in Nat
         /\ Points(check) = (IF check.observed THEN 45 ELSE 0) + (IF check.attributed THEN 55 ELSE 0)
BY DEF Points

\* The first n indices.
LEMMA FirstIndices ==
  ASSUME NEW n \in Nat
  PROVE  IsFiniteSet(1..n) /\ Cardinality(1..n) = n
<1>1. CASE n = 0
  BY <1>1, FS_Interval
<1>2. CASE n # 0
  BY <1>2, FS_Interval
<1>3. QED
  BY <1>1, <1>2

\* One more index.
LEMMA CountNext ==
  ASSUME NEW k \in Nat, k # 0, NEW C, C \subseteq 1..k
  PROVE  /\ Cardinality(C) \in 0..k
         /\ C \cap (1..k - 1) \subseteq 1..k - 1 /\ Cardinality(C \cap (1..k - 1)) \in Nat
         /\ Cardinality(C) = Cardinality(C \cap (1..k - 1)) + (IF k \in C THEN 1 ELSE 0)
<1>1. IsFiniteSet(1..k) /\ Cardinality(1..k) = k
  BY FirstIndices
<1>2. IsFiniteSet(C) /\ Cardinality(C) <= k /\ Cardinality(C) \in Nat
  BY <1>1, FS_Subset, FS_CardinalityType
<1> DEFINE D == C \cap (1..k - 1)
<1>3. IsFiniteSet(D) /\ Cardinality(D) \in Nat
  BY <1>2, FS_Subset, FS_CardinalityType
<1>4. CASE k \in C
  <2>1. (\A i \in C : i \in 1..(k - 1) \/ i = k) /\ k \notin 1..(k - 1)
    OBVIOUS
  <2>2. C = D \cup {k} /\ k \notin D
    BY <1>4, <2>1
  <2>3. Cardinality(C) = Cardinality(D) + 1
    <3> HIDE DEF D
    <3>1. QED
      BY <1>3, <2>2, FS_AddElement
  <2>4. QED
    BY <1>2, <1>3, <1>4, <2>3
<1>5. CASE k \notin C
  <2>1. \A i \in C : i \in 1..(k - 1)
    BY <1>5
  <2>2. C = D
    BY <2>1
  <2>3. Cardinality(C) = Cardinality(D)
    BY <2>2
  <2>4. QED
    BY <1>2, <1>3, <1>5, <2>3
<1>6. QED
  BY <1>4, <1>5

\* The sum of the points is 45 for each check observed and 55 for each attributed.
LEMMA TotalCounts ==
  ASSUME NEW checks, Checks(checks)
  PROVE  Total(checks) = 45 * Upto(checks, Len(checks)) + 55 * AttributedUpto(checks, Len(checks))
<1> DEFINE n == Len(checks)
           Sums(f) == f = [i \in 0..n |-> IF i = 0 THEN 0 ELSE f[i - 1] + Points(checks[i])]
           sum == CHOOSE f : Sums(f)
<1>1. n \in Nat
  BY DEF Checks
<1>2. \A i \in 1..n : Points(checks[i]) \in Nat
  BY PointsForm DEF Checks
<1>3. \E f : Sums(f)
  <2> DEFINE step == [p \in (1..n) \X Nat |-> p[2] + Points(checks[p[1]])]
  <2>1. Steps(n, Nat, step)
    BY <1>2 DEF Steps
  <2>2. PICK f : Iteration(f, n, Nat, 0, step)
    <3> HIDE DEF step, n
    <3>1. QED
      BY <1>1, <2>1, Iterates
  <2>3. \A i \in 1..n : f[i] = f[i - 1] + Points(checks[i])
    <3>1. TAKE i \in 1..n
    <3>2. f[i - 1] \in Nat
      BY <1>1, <2>2 DEF Iteration
    <3>3. <<i, f[i - 1]>> \in (1..n) \X Nat
      BY <3>2
    <3>4. QED
      BY <2>2, <3>3 DEF Iteration
  <2>4. Sums(f)
    BY <2>2, <2>3 DEF Iteration
  <2>5. QED
    BY <2>4
<1>4. Sums(sum)
  BY <1>3, Zenon
<1>5. Total(checks) = sum[n]
  BY Zenon DEF Total
<1> HIDE DEF sum
<1>6. sum[0] = 0 /\ \A i \in 1..n : sum[i] = sum[i - 1] + Points(checks[i])
  BY <1>1, <1>4
<1> DEFINE T == {k \in 0..n : sum[k] = 45 * Upto(checks, k) + 55 * AttributedUpto(checks, k)}
<1>7. 0 \in T
  <2>1. Upto(checks, 0) = 0 /\ AttributedUpto(checks, 0) = 0
    BY FS_EmptySet DEF Upto, AttributedUpto
  <2>2. QED
    BY <1>1, <1>6, <2>1
<1>8. ASSUME NEW k \in 1..n, k - 1 \in T PROVE k \in T
  <2> DEFINE C == {i \in 1..k : checks[i].observed}
             A == {i \in 1..k : checks[i].attributed}
  <2>1. k \in Nat /\ k # 0 /\ C \subseteq 1..k /\ A \subseteq 1..k
    BY <1>1
  <2>2. /\ C \cap (1..k - 1) = {i \in 1..k - 1 : checks[i].observed}
        /\ A \cap (1..k - 1) = {i \in 1..k - 1 : checks[i].attributed}
    BY <2>1
  <2>3. /\ k \in C <=> checks[k].observed
        /\ k \in A <=> checks[k].attributed
    BY <2>1
  <2> HIDE DEF C, A
  <2>4. /\ Cardinality(C \cap (1..k - 1)) \in Nat /\ Cardinality(A \cap (1..k - 1)) \in Nat
        /\ Cardinality(C) = Cardinality(C \cap (1..k - 1)) + (IF k \in C THEN 1 ELSE 0)
        /\ Cardinality(A) = Cardinality(A \cap (1..k - 1)) + (IF k \in A THEN 1 ELSE 0)
    BY <2>1, CountNext
  <2>5. /\ Upto(checks, k) = Cardinality(C) /\ AttributedUpto(checks, k) = Cardinality(A)
        /\ Upto(checks, k - 1) = Cardinality(C \cap (1..k - 1))
        /\ AttributedUpto(checks, k - 1) = Cardinality(A \cap (1..k - 1))
    BY <2>2 DEF Upto, AttributedUpto, C, A
  <2>6. /\ sum[k] = sum[k - 1] + Points(checks[k])
        /\ sum[k - 1] = 45 * Upto(checks, k - 1) + 55 * AttributedUpto(checks, k - 1)
    BY <1>6, <1>8
  <2>7. Points(checks[k]) = (IF k \in C THEN 45 ELSE 0) + (IF k \in A THEN 55 ELSE 0)
    BY <2>3, PointsForm DEF Checks
  <2>8. sum[k] = 45 * Upto(checks, k) + 55 * AttributedUpto(checks, k)
    <3> DEFINE c == Cardinality(C \cap (1..k - 1))
               a == Cardinality(A \cap (1..k - 1))
               more == IF k \in C THEN 1 ELSE 0
               credit == IF k \in A THEN 1 ELSE 0
    <3>1. /\ c \in Nat /\ a \in Nat /\ more \in Nat /\ credit \in Nat
          /\ Upto(checks, k) = c + more /\ AttributedUpto(checks, k) = a + credit
      BY <2>4, <2>5
    <3>2. Points(checks[k]) = 45 * more + 55 * credit
      BY <2>7
    <3>3. sum[k - 1] = 45 * c + 55 * a
      BY <2>5, <2>6
    <3>4. sum[k] = sum[k - 1] + Points(checks[k])
      BY <2>6
    <3> HIDE DEF c, a, more, credit, sum
    <3>5. sum[k] = (45 * c + 55 * a) + (45 * more + 55 * credit)
      BY <3>2, <3>3, <3>4
    <3>6. (45 * c + 55 * a) + (45 * more + 55 * credit) = 45 * (c + more) + 55 * (a + credit)
      BY <3>1
    <3>7. QED
      BY <3>1, <3>5, <3>6
  <2>9. QED
    BY <2>8
<1>9. n \in T
  <2> HIDE DEF T, n
  <2>1. 0..n \subseteq T
    BY <1>1, <1>7, <1>8, Induction
  <2>2. QED
    BY <1>1, <2>1
<1>10. QED
  BY <1>5, <1>9

\* How many of the first checks there can be.
LEMMA CountsBounded ==
  ASSUME NEW checks, Checks(checks)
  PROVE  /\ Upto(checks, Len(checks)) \in 0..Len(checks)
         /\ AttributedUpto(checks, Len(checks)) \in 0..Len(checks)
<1> DEFINE n == Len(checks)
           C == {i \in 1..n : checks[i].observed}
           A == {i \in 1..n : checks[i].attributed}
<1>0. n \in Nat
  BY DEF Checks
<1>1. n \in Nat /\ IsFiniteSet(1..n) /\ Cardinality(1..n) = n
  <2> HIDE DEF n
  <2>1. QED
    BY <1>0, FirstIndices
<1>2. C \subseteq 1..n /\ A \subseteq 1..n
  OBVIOUS
<1>3. /\ Cardinality(C) \in Nat /\ Cardinality(C) <= n
      /\ Cardinality(A) \in Nat /\ Cardinality(A) <= n
  BY <1>1, <1>2, FS_Subset, FS_CardinalityType
<1>4. QED
  BY <1>1, <1>3 DEF Upto, AttributedUpto

\* The mean is rounded to the nearest tenth.
LEMMA MeanForm ==
  ASSUME NEW t \in Nat, NEW n \in Nat \ {0}
  PROVE  /\ Mean(t, n) \in Int
         /\ 2 * n * Mean(t, n) <= 20 * t + n
         /\ 20 * t + n < 2 * n * Mean(t, n) + 2 * n
BY DEF Mean

LEMMA Cancel ==
  ASSUME NEW n \in Nat \ {0}, NEW s \in Int, NEW q \in Int, n * s < n * q + n
  PROVE  s <= q
<1>1. ASSUME q + 1 <= s PROVE FALSE
  <2>1. s - q - 1 \in Nat
    BY <1>1
  <2>2. n * (s - q - 1) >= 0
    BY <2>1
  <2>3. n * (s - q - 1) = n * s - n * q - n
    OBVIOUS
  <2>4. n * s \in Int /\ n * q \in Int
    OBVIOUS
  <2>5. QED
    BY <2>2, <2>3, <2>4
<1>2. QED
  BY <1>1

LEMMA MeanMonotone ==
  ASSUME NEW t \in Nat, NEW u \in Nat, t <= u, NEW n \in Nat \ {0}
  PROVE  Mean(t, n) <= Mean(u, n)
<1> DEFINE m == 2 * n
           s == Mean(t, n)
           q == Mean(u, n)
<1>1. m \in Nat \ {0}
  OBVIOUS
<1>2. s \in Int /\ q \in Int /\ m * s <= 20 * t + n /\ 20 * u + n < m * q + m
  BY MeanForm
<1>3. m * s \in Int /\ m * q \in Int
  BY <1>1, <1>2
<1> HIDE DEF m, s, q
<1>4. m * s < m * q + m
  BY <1>1, <1>2, <1>3
<1>5. s <= q
  BY <1>1, <1>2, <1>4, Cancel
<1>6. QED
  BY <1>5 DEF s, q

LEMMA MeanOfFull ==
  ASSUME NEW n \in Nat \ {0}
  PROVE  Mean(100 * n, n) = 1000
<1> DEFINE m == 2 * n
           s == Mean(100 * n, n)
<1>1. m \in Nat \ {0} /\ 100 * n \in Nat /\ 20 * (100 * n) + n = m * 1000 + n /\ n < m
  OBVIOUS
<1>2. s \in Int /\ m * s <= 20 * (100 * n) + n /\ 20 * (100 * n) + n < m * s + m
  BY <1>1, MeanForm
<1>3. m * s \in Int /\ m * 1000 \in Int
  BY <1>1, <1>2
<1> HIDE DEF m, s
<1>4. m * s < m * 1000 + m /\ m * 1000 < m * s + m
  BY <1>1, <1>2, <1>3
<1>5. s <= 1000 /\ 1000 <= s
  BY <1>1, <1>2, <1>4, Cancel
<1>6. QED
  BY <1>2, <1>5 DEF s

----------------------------------------------------------------------------
(* The choice among the evidence on one dimension.                         *)

About(events, d) == {i \in DOMAIN events : events[i].dimension = d}
CreditedAbout(events, d) == {i \in About(events, d) : events[i].attributed}
Least(i, I) == i \in I /\ \A j \in I : i <= j

LEMMA LeastIsMin ==
  ASSUME NEW I \in SUBSET Nat, I # {}
  PROVE  Least(Min(I), I)
<1>1. \E m \in I : \A k \in I : m <= k
  BY LeastNatural
<1>2. QED
  BY <1>1, Zenon DEF Min, Least

\* The choice so far.
Best(b, events, d, k) ==
  LET seen == About(events, d) \cap (1..k)
      credited == CreditedAbout(events, d) \cap (1..k)
  IN  IF seen = {} THEN b = NoEvidence
      ELSE \E i \in 1..k : b = events[i] /\ Least(i, IF credited # {} THEN credited ELSE seen)

\* An event that is not about the dimension, or after the choice is made, changes nothing.
LEMMA BestStays ==
  ASSUME NEW O, NEW events \in Seq(O), NEW d, NEW k \in 1..Len(events), NEW b,
         Best(b, events, d, k - 1),
         \/ k \notin About(events, d)
         \/ /\ About(events, d) \cap (1..k - 1) # {}
            /\ CreditedAbout(events, d) \cap (1..k - 1) # {} \/ k \notin CreditedAbout(events, d)
  PROVE  Best(b, events, d, k)
<1> DEFINE A == About(events, d)
           C == CreditedAbout(events, d)
           before == A \cap (1..k - 1)
           creditedBefore == C \cap (1..k - 1)
           seen == A \cap (1..k)
           credited == C \cap (1..k)
<1>0. /\ A \subseteq Nat /\ C \subseteq A /\ k \in Nat
      /\ 1..k - 1 \subseteq 1..k /\ (\A i \in 1..k : i \in 1..k - 1 \/ i = k) /\ k \notin 1..k - 1
  BY DEF About, CreditedAbout
<1>1. CASE k \notin A
  <2>1. seen = before /\ credited = creditedBefore
    <3> HIDE DEF A, C
    <3>1. QED
      BY <1>0, <1>1
  <2>2. QED
    <3> HIDE DEF A, C
    <3>1. CASE before = {}
      <4>1. b = NoEvidence
        BY <3>1 DEF Best, A
      <4>2. QED
        BY <2>1, <3>1, <4>1 DEF Best, A
    <3>2. CASE before # {}
      <4>1. PICK i \in 1..k - 1 : b = events[i] /\ Least(i, IF creditedBefore # {} THEN creditedBefore ELSE before)
        BY <3>2 DEF Best, A, C
      <4>2. i \in 1..k /\ b = events[i] /\ Least(i, IF credited # {} THEN credited ELSE seen)
        BY <1>0, <2>1, <4>1
      <4>3. QED
        BY <2>1, <3>2, <4>2 DEF Best, A, C
    <3>3. QED
      BY <3>1, <3>2
<1>2. CASE before # {} /\ (creditedBefore # {} \/ k \notin C)
  <2> DEFINE old == IF creditedBefore # {} THEN creditedBefore ELSE before
             new == IF credited # {} THEN credited ELSE seen
  <2>1. PICK i \in 1..k - 1 : b = events[i] /\ Least(i, old)
    BY <1>2 DEF Best
  <2> HIDE DEF A, C
  <2>2. i \in new /\ i < k /\ \A j \in new : j \in old \/ j = k
    <3>1. CASE creditedBefore # {}
      <4>1. credited # {} /\ i \in creditedBefore
        BY <1>0, <2>1, <3>1 DEF Least
      <4>2. QED
        BY <1>0, <2>1, <3>1, <4>1
    <3>2. CASE creditedBefore = {} /\ k \notin C
      <4>1. credited = {}
        BY <1>0, <3>2
      <4>2. i \in before
        BY <2>1, <3>2 DEF Least
      <4>3. QED
        BY <1>0, <2>1, <3>2, <4>1, <4>2
    <3>3. QED
      BY <1>2, <3>1, <3>2
  <2>3. Least(i, new)
    <3> HIDE DEF new, old
    <3>1. QED
      BY <1>0, <2>1, <2>2 DEF Least
  <2>4. seen # {}
    BY <1>0, <1>2
  <2>5. i \in 1..k
    BY <1>0, <2>1
  <2>6. QED
    BY <2>1, <2>3, <2>4, <2>5 DEF Best, A, C
<1>3. QED
  BY <1>1, <1>2

\* The first event about the dimension is chosen; so is the first attributed one.
LEMMA BestChanges ==
  ASSUME NEW O, NEW events \in Seq(O), NEW d, NEW k \in 1..Len(events),
         k \in About(events, d), CreditedAbout(events, d) \cap (1..k - 1) = {},
         About(events, d) \cap (1..k - 1) = {} \/ k \in CreditedAbout(events, d)
  PROVE  Best(events[k], events, d, k)
<1> DEFINE A == About(events, d)
           C == CreditedAbout(events, d)
           seen == A \cap (1..k)
           credited == C \cap (1..k)
           new == IF credited # {} THEN credited ELSE seen
<1>0. /\ A \subseteq Nat /\ C \subseteq A /\ k \in Nat /\ k \in 1..k
      /\ (\A i \in 1..k : i \in 1..k - 1 \/ i = k)
  BY DEF About, CreditedAbout
<1>1. seen # {}
  BY <1>0
<1>2. k \in new /\ \A j \in new : j = k
  <2> HIDE DEF A, C
  <2>1. \A j \in credited : j = k
    BY <1>0 DEF C
  <2>2. CASE k \in C
    BY <1>0, <2>1, <2>2
  <2>3. CASE k \notin C /\ A \cap (1..k - 1) = {}
    <3>1. credited = {}
      BY <2>1, <2>3
    <3>2. \A j \in seen : j = k
      BY <1>0, <2>3
    <3>3. QED
      BY <1>0, <3>1, <3>2 DEF A
  <2>4. QED
    BY <2>2, <2>3 DEF A, C
<1>3. Least(k, new)
  <2> HIDE DEF new
  <2>1. QED
    BY <1>0, <1>2 DEF Least
<1>4. QED
  BY <1>0, <1>1, <1>3 DEF Best

\* The loop chooses the first attributed observation of the dimension, or the first
\* one when none is attributed, in whatever order they came.
LEMMA BestObservationForm ==
  ASSUME NEW O, NEW events \in Seq(O), NEW d, NoEvidence \notin O,
         \A o \in O : o.attributed \in BOOLEAN
  PROVE  Best(BestObservation(events, d), events, d, Len(events))
<1> DEFINE n == Len(events)
           Next1(o, b) == IF o.dimension = d /\ (b = NoEvidence \/ (~b.attributed /\ o.attributed))
                          THEN o ELSE b
           Chooses(f) == f = [i \in 0..n |-> IF i = 0 THEN NoEvidence ELSE Next1(events[i], f[i - 1])]
           best == CHOOSE f : Chooses(f)
           S == O \cup {NoEvidence}
<1>1. n \in Nat /\ \A i \in 1..n : events[i] \in O
  OBVIOUS
<1>2. \E f : Chooses(f)
  <2> DEFINE step == [p \in (1..n) \X S |-> Next1(events[p[1]], p[2])]
  <2>1. Steps(n, S, step)
    BY <1>1 DEF Steps
  <2>2. PICK f : Iteration(f, n, S, NoEvidence, step)
    <3>1. NoEvidence \in S
      OBVIOUS
    <3> HIDE DEF step, n, S
    <3>2. QED
      BY <1>1, <2>1, <3>1, Iterates
  <2>3. \A i \in 1..n : f[i] = Next1(events[i], f[i - 1])
    <3>1. TAKE i \in 1..n
    <3>2. f[i - 1] \in S
      BY <1>1, <2>2 DEF Iteration
    <3>3. <<i, f[i - 1]>> \in (1..n) \X S
      BY <3>2
    <3>4. f[i] = step[<<i, f[i - 1]>>]
      BY <2>2 DEF Iteration
    <3>5. QED
      BY <3>3, <3>4
  <2> HIDE DEF Next1
  <2>4. Chooses(f)
    BY <2>2, <2>3 DEF Iteration
  <2>5. QED
    BY <2>4
<1>3. Chooses(best)
  BY <1>2, Zenon
<1>4. BestObservation(events, d) = best[n]
  BY Zenon DEF BestObservation
<1> HIDE DEF best
<1>5. best[0] = NoEvidence /\ \A i \in 1..n : best[i] = Next1(events[i], best[i - 1])
  <2> HIDE DEF Next1
  <2>1. QED
    BY <1>1, <1>3
<1> DEFINE T == {k \in 0..n : Best(best[k], events, d, k)}
<1>6. 0 \in T
  <2>1. About(events, d) \cap (1..0) = {}
    OBVIOUS
  <2>2. QED
    BY <1>1, <1>5, <2>1 DEF Best
<1>7. ASSUME NEW k \in 1..n, k - 1 \in T PROVE k \in T
  <2> DEFINE A == About(events, d) \cap (1..k - 1)
             C == CreditedAbout(events, d) \cap (1..k - 1)
             b == best[k - 1]
  <2>1. Best(b, events, d, k - 1)
    BY <1>7
  <2>2. k \in About(events, d) <=> events[k].dimension = d
    BY DEF About
  <2>3. k \in CreditedAbout(events, d) <=> events[k].dimension = d /\ events[k].attributed
    BY <2>2 DEF CreditedAbout
  <2>4. C \subseteq A
    BY DEF CreditedAbout
  <2>5. b = NoEvidence <=> A = {}
    <3>1. CASE A = {}
      BY <2>1, <3>1 DEF Best
    <3>2. CASE A # {}
      <4>1. PICK i \in 1..k - 1 : b = events[i]
        BY <2>1, <3>2 DEF Best
      <4>2. b \in O
        BY <1>1, <4>1
      <4>3. QED
        BY <3>2, <4>2
    <3>3. QED
      BY <3>1, <3>2
  <2>6. A # {} => (b.attributed <=> C # {})
    <3>1. SUFFICES ASSUME A # {} PROVE b.attributed <=> C # {}
      OBVIOUS
    <3>2. PICK i \in 1..k - 1 : b = events[i] /\ Least(i, IF C # {} THEN C ELSE A)
      BY <2>1, <3>1 DEF Best
    <3>3. CASE C # {}
      <4>1. i \in CreditedAbout(events, d)
        BY <3>2, <3>3 DEF Least
      <4>2. QED
        BY <3>2, <3>3, <4>1 DEF CreditedAbout
    <3>4. CASE C = {}
      <4>1. i \in About(events, d) /\ i \notin CreditedAbout(events, d)
        BY <3>2, <3>4 DEF Least
      <4>2. ~b.attributed
        BY <3>2, <4>1 DEF CreditedAbout
      <4>3. QED
        BY <3>4, <4>2
    <3>5. QED
      BY <3>3, <3>4
  <2>7. best[k] = Next1(events[k], b)
    BY <1>5
  <2> HIDE DEF A, C, b
  <2>8. CASE events[k].dimension = d /\ (A = {} \/ (C = {} /\ events[k].attributed))
    <3>1. best[k] = events[k]
      <4>1. b = NoEvidence \/ (~b.attributed /\ events[k].attributed)
        BY <2>5, <2>6, <2>8
      <4>2. QED
        BY <2>7, <2>8, <4>1
    <3>2. C = {}
      BY <2>4, <2>8
    <3>3. k \in About(events, d) /\ (A = {} \/ k \in CreditedAbout(events, d))
      BY <2>2, <2>3, <2>8
    <3>4. Best(events[k], events, d, k)
      BY <3>2, <3>3, BestChanges DEF A, C
    <3>5. QED
      BY <3>1, <3>4
  <2>9. CASE events[k].dimension # d \/ (A # {} /\ (C # {} \/ ~events[k].attributed))
    <3>1. best[k] = b
      <4>1. CASE events[k].dimension # d
        BY <2>7, <4>1
      <4>2. CASE A # {} /\ (C # {} \/ ~events[k].attributed)
        <5>1. b # NoEvidence /\ ~(~b.attributed /\ events[k].attributed)
          BY <2>5, <2>6, <4>2
        <5>2. QED
          BY <2>7, <5>1
      <4>3. QED
        BY <2>9, <4>1, <4>2
    <3>2. \/ k \notin About(events, d)
          \/ A # {} /\ (C # {} \/ k \notin CreditedAbout(events, d))
      BY <2>2, <2>3, <2>9
    <3>3. Best(b, events, d, k)
      BY <2>1, <3>2, BestStays DEF A, C
    <3>4. QED
      BY <3>1, <3>3
  <2>10. QED
    BY <2>8, <2>9
<1>8. n \in T
  <2> HIDE DEF T, n
  <2>1. 0..n \subseteq T
    BY <1>1, <1>6, <1>7, Induction
  <2>2. QED
    BY <1>1, <2>1
<1>9. QED
  BY <1>4, <1>8

----------------------------------------------------------------------------
(* The latency.                                                            *)

\* Finitely many values have a largest one.
LEMMA LargestExists ==
  ASSUME NEW m \in Nat, NEW I \in SUBSET (1..m), I # {}, NEW values \in [I -> Int]
  PROVE  \E i \in I : \A j \in I : values[j] <= values[i]
<1> DEFINE Largest(k) == \E i \in I : i <= k /\ \A j \in I : j <= k => values[j] <= values[i]
           T == {k \in 0..m : (\A j \in I : ~(j <= k)) \/ Largest(k)}
<1>1. 0 \in T
  OBVIOUS
<1>2. ASSUME NEW k \in 1..m, k - 1 \in T PROVE k \in T
  <2>0. \A j \in I : j \in Nat /\ values[j] \in Int /\ (j <= k <=> j <= k - 1 \/ j = k)
    OBVIOUS
  <2>1. CASE k \notin I
    BY <1>2, <2>0, <2>1
  <2>2. CASE k \in I /\ \A j \in I : ~(j <= k - 1)
    <3>1. \A j \in I : j <= k => values[j] <= values[k]
      BY <2>0, <2>2
    <3>2. Largest(k)
      BY <2>2, <3>1
    <3>3. QED
      BY <3>2
  <2>3. CASE k \in I /\ Largest(k - 1)
    <3>1. PICK i \in I : i <= k - 1 /\ \A j \in I : j <= k - 1 => values[j] <= values[i]
      BY <2>3
    <3>2. CASE values[k] <= values[i]
      <4>1. \A j \in I : j <= k => values[j] <= values[i]
        BY <2>0, <3>1, <3>2
      <4>2. i <= k
        BY <2>0, <3>1
      <4>3. Largest(k)
        BY <4>1, <4>2
      <4>4. QED
        BY <4>3
    <3>3. CASE values[i] <= values[k]
      <4>1. \A j \in I : j <= k => values[j] <= values[k]
        BY <2>0, <3>1, <3>3, <2>3
      <4>2. Largest(k)
        BY <2>3, <4>1
      <4>3. QED
        BY <4>2
    <3>4. QED
      BY <2>0, <2>3, <3>2, <3>3
  <2>4. QED
    BY <1>2, <2>1, <2>2, <2>3
<1>3. m \in T
  <2> HIDE DEF T
  <2>1. 0..m \subseteq T
    BY <1>1, <1>2, Induction
  <2>2. QED
    BY <2>1
<1>4. \A j \in I : j <= m
  OBVIOUS
<1>5. QED
  BY <1>3, <1>4

\* The value in the last place is the largest.
Values(values, I, m) == I \in SUBSET (1..m) /\ I # {} /\ values \in [I -> Int]
IsLargest(v, values, I) == (\E i \in I : v = values[i]) /\ \A i \in I : values[i] <= v

LEMMA LastInPlace ==
  ASSUME NEW m \in Nat, NEW I, NEW values, Values(values, I, m)
  PROVE  IsLargest(InPlace(values, Cardinality(I)), values, I)
<1> USE DEF Values
<1> DEFINE v == InPlace(values, Cardinality(I))
            Below(w) == {i \in I : values[i] < w}
           AtMost(w) == {i \in I : values[i] <= w}
           Fits(w) == /\ Cardinality(Below(w)) < Cardinality(I)
                      /\ Cardinality(I) <= Cardinality(AtMost(w))
           V == {values[i] : i \in I}
<1>1. IsFiniteSet(I) /\ Cardinality(I) \in Nat
  <2>1. IsFiniteSet(1..m)
    BY FirstIndices
  <2>2. IsFiniteSet(I)
    BY <2>1, FS_Subset
  <2>3. QED
    BY <2>2, FS_CardinalityType
<1>2. \E w \in V : Fits(w)
  <2>1. PICK i \in I : \A j \in I : values[j] <= values[i]
    BY LargestExists
  <2> DEFINE w == values[i]
  <2>2. AtMost(w) = I /\ Below(w) \subseteq I /\ i \notin Below(w)
    <3>1. AtMost(w) = I
      BY <2>1
    <3>2. ~(values[i] < w)
      OBVIOUS
    <3>3. QED
      BY <3>1, <3>2
  <2> HIDE DEF Below, AtMost
  <2>3. Below(w) # I /\ Cardinality(Below(w)) \in Nat /\ Cardinality(Below(w)) <= Cardinality(I)
    BY <1>1, <2>2, FS_Subset, FS_CardinalityType
  <2>4. Cardinality(Below(w)) # Cardinality(I)
    BY <1>1, <2>2, <2>3, FS_Subset
  <2>5. Fits(w)
    BY <1>1, <2>2, <2>3, <2>4
  <2>6. QED
    BY <2>5
<1>3. v \in V /\ Fits(v)
  <2>1. DOMAIN values = I
    OBVIOUS
  <2>2. v = CHOOSE w \in V : Fits(w)
    BY <2>1 DEF InPlace
  <2> HIDE DEF Fits, V
  <2>3. QED
    BY <1>2, <2>2
<1>4. AtMost(v) = I
  <2>1. AtMost(v) \subseteq I
    OBVIOUS
  <2> HIDE DEF AtMost, Below
  <2>2. Cardinality(AtMost(v)) <= Cardinality(I) /\ Cardinality(AtMost(v)) \in Nat
    BY <1>1, <2>1, FS_Subset, FS_CardinalityType
  <2>3. Cardinality(AtMost(v)) = Cardinality(I)
    BY <1>1, <1>3, <2>2
  <2>4. QED
    BY <1>1, <2>1, <2>3, FS_Subset
<1>5. QED
  BY <1>3, <1>4 DEF IsLargest

LEMMA LastRank == \A n \in 1..19 : (95 * n + 99) \div 100 = n
OBVIOUS

\* With fewer than twenty observed dimensions no latency exceeds the objective exactly
\* when the 95th percentile does not.
LEMMA LatencyForm ==
  ASSUME NEW checks, Checks(checks), Len(checks) < 20, NEW bound \in Nat,
         \A i \in 1..Len(checks) : checks[i].observed => checks[i].latency \in Nat
  PROVE  /\ Latency(checks) \in Nat
         /\ Latency(checks) <= bound
              <=> \A i \in 1..Len(checks) : checks[i].observed => checks[i].latency <= bound
<1> DEFINE m == Len(checks)
           I == Observed(checks)
           n == Cardinality(I)
           values == [i \in I |-> checks[i].latency]
<1>1. m \in Nat /\ DOMAIN checks = 1..m
  BY DEF Checks
<1>2. I = {i \in 1..m : checks[i].observed} /\ I \in SUBSET (1..m)
  BY <1>1 DEF Observed
<1>3. IsFiniteSet(1..m) /\ Cardinality(1..m) = m
  <2> HIDE DEF m
  <2>1. m \in Nat
    BY <1>1
  <2>2. QED
    BY <2>1, FirstIndices
<1>4. IsFiniteSet(I) /\ n \in Nat /\ n <= m
  <2> HIDE DEF I, m
  <2>1. QED
    BY <1>2, <1>3, FS_Subset, FS_CardinalityType
<1>5. values \in [I -> Int] /\ DOMAIN values = I
  BY <1>2
<1>6. Latency(checks) = IF n = 0 THEN 0 ELSE InPlace(values, (95 * n + 99) \div 100)
  BY DEF Latency, Percentile95
<1>7. CASE n = 0
  <2>1. I = {}
    <3> HIDE DEF I
    <3>1. QED
      BY <1>4, <1>7, FS_EmptySet
  <2>2. QED
    BY <1>2, <1>6, <1>7, <2>1
<1>8. CASE n # 0
  <2>1. (95 * n + 99) \div 100 = n
    <3>1. m < 20
      OBVIOUS
    <3> HIDE DEF n, m
    <3>2. n \in Nat /\ n <= m /\ n # 0 /\ m \in Nat
      BY <1>1, <1>4, <1>8
    <3>3. n \in 1..19
      BY <3>1, <3>2
    <3>4. QED
      BY <3>3, LastRank
  <2>2. I # {}
    <3> HIDE DEF I
    <3>1. QED
      BY <1>8, FS_EmptySet
  <2> DEFINE v == InPlace(values, n)
  <2>3. (\E i \in I : v = values[i]) /\ \A i \in I : values[i] <= v
    <3>1. Values(values, I, m)
      BY <1>2, <1>5, <2>2 DEF Values
    <3>2. IsLargest(v, values, I)
      <4> HIDE DEF I, values, m
      <4>1. QED
        BY <1>1, <3>1, LastInPlace
    <3>3. QED
      BY <3>2 DEF IsLargest
  <2>4. Latency(checks) = v
    BY <1>6, <1>8, <2>1
  <2> HIDE DEF v
  <2>5. PICK i \in I : v = checks[i].latency
    BY <2>3
  <2>6. \A j \in I : checks[j].latency <= v
    BY <2>3
  <2> HIDE DEF I, n
  <2>7. QED
    BY <1>2, <2>4, <2>5, <2>6
<1>9. QED
  BY <1>7, <1>8

----------------------------------------------------------------------------
(* The checks of a run.                                                    *)

LEMMA ChecksForm ==
  ASSUME NEW slo, NEW X, slo.required \in Seq(X), NEW truth, NEW observations
  PROVE  LET checks == ChecksOf(slo, truth, observations)
         IN  /\ Checks(checks) /\ Len(checks) = Len(slo.required)
             /\ \A i \in 1..Len(slo.required) :
                  checks[i] = Check(slo.required[i], truth, observations)
<1> DEFINE checks == ChecksOf(slo, truth, observations)
           n == Len(slo.required)
           C == {Check(slo.required[i], truth, observations) : i \in 1..n}
<1>1. n \in Nat /\ DOMAIN slo.required = 1..n
  OBVIOUS
<1>2. checks = [i \in 1..n |-> Check(slo.required[i], truth, observations)]
  BY <1>1 DEF ChecksOf
<1> HIDE DEF checks
<1>3. checks \in Seq(C) /\ DOMAIN checks = 1..n
  BY <1>1, <1>2
<1>4. Len(checks) = n
  BY <1>1, <1>3
<1>5. \A i \in 1..n : checks[i] = Check(slo.required[i], truth, observations)
  BY <1>2
<1>6. \A d : LET c == Check(d, truth, observations) IN c.observed \in BOOLEAN /\ c.attributed \in BOOLEAN
  BY DEF Check
<1>7. checks = [i \in 1..n |-> checks[i]]
  BY <1>2
<1>8. Checks(checks)
  BY <1>1, <1>4, <1>5, <1>6, <1>7 DEF Checks
<1>9. QED
  BY <1>4, <1>5, <1>8 DEF checks

\* A score is the mean of 45 points for each dimension observed and 55 for each
\* attributed.
LEMMA ScoreForm ==
  ASSUME NEW checks, Checks(checks), NEW n, n = Len(checks)
  PROVE  /\ Upto(checks, n) \in 0..n /\ AttributedUpto(checks, n) \in 0..n
         /\ Score(checks) = Mean(45 * Upto(checks, n) + 55 * AttributedUpto(checks, n), n)
<1>1. Score(checks) = Mean(Total(checks), n)
  BY DEF Score
<1>2. QED
  BY <1>1, TotalCounts, CountsBounded

LEMMA CheckForm ==
  ASSUME NEW O, NEW observations \in Seq(O), NoEvidence \notin O,
         \A o \in O : o.attributed \in BOOLEAN,
         NEW truth, NEW d
  PROVE  LET c == Check(d, truth, observations)
         IN  /\ c.dimension = d
             /\ c.observed <=> About(observations, d) # {}
             /\ c.attributed <=> CreditedAbout(observations, d) # {}
             /\ c.attributed => c.observed
<1> DEFINE n == Len(observations)
           b == BestObservation(observations, d)
           c == Check(d, truth, observations)
           seen == About(observations, d)
           credited == CreditedAbout(observations, d)
<1>1. Best(b, observations, d, n)
  BY BestObservationForm
<1>2. n \in Nat /\ seen \cap (1..n) = seen /\ credited \cap (1..n) = credited /\ credited \subseteq seen
  BY DEF About, CreditedAbout
<1>3. /\ c.observed <=> b # NoEvidence
      /\ c.attributed <=> b # NoEvidence /\ b.attributed
      /\ c.dimension = d
  BY DEF Check
<1> HIDE DEF b, c, seen, credited
<1>4. CASE seen = {}
  <2>1. b = NoEvidence
    BY <1>1, <1>2, <1>4 DEF Best, seen
  <2>2. credited = {}
    BY <1>2, <1>4
  <2>3. QED
    BY <1>3, <1>4, <2>1, <2>2 DEF c, seen, credited
<1>5. CASE seen # {}
  <2>1. PICK i \in 1..n : b = observations[i] /\ Least(i, IF credited # {} THEN credited ELSE seen)
    BY <1>1, <1>2, <1>5 DEF Best, seen, credited
  <2>2. b \in O /\ b # NoEvidence
    BY <2>1
  <2>3. b.attributed <=> credited # {}
    <3>1. CASE credited # {}
      <4>1. i \in credited
        BY <2>1, <3>1 DEF Least
      <4>2. QED
        BY <2>1, <3>1, <4>1 DEF credited, CreditedAbout
    <3>2. CASE credited = {}
      <4>1. i \in seen /\ i \notin credited
        BY <2>1, <3>2 DEF Least
      <4>2. QED
        BY <2>1, <3>2, <4>1 DEF seen, credited, CreditedAbout
    <3>3. QED
      BY <3>1, <3>2
  <2>4. QED
    BY <1>3, <1>5, <2>2, <2>3 DEF c, seen, credited
<1>6. QED
  BY <1>4, <1>5
=============================================================================
